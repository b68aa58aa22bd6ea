------------------------------- MODULE Leave --------------------------------
(***************************************************************************)
(* Human resources: leave applications against the yearly balance of one   *)
(* staff member for one type of leave, and the salary history of one       *)
(* (src/src/modules/hr: leave-application.service.ts,                      *)
(* leave-balance.service.ts, salary.service.ts and their schemas).         *)
(*                                                                         *)
(* An application has a document and a WorkflowRequest.  The decision on   *)
(* the request and the listener's writes are separate steps; a use of the  *)
(* balance and its reversal are transactions that flip balanceApplied.     *)
(* The call that commits the decision emits its event, once.               *)
(*                                                                         *)
(* Abstractions: the steps of the three chains are folded into one         *)
(* decision; the amounts of a salary; the flag that an application exceeds *)
(* what remains, which blocks nothing.                                     *)
(***************************************************************************)
EXTENDS Integers, FiniteSets, Functions

CONSTANTS
    Applications,    \* identities of leave applications
    Proposals,       \* identities of salary proposals
    LeaveCalls,      \* slots for calls in flight
    None,            \* no application and no proposal
    MaxDays,         \* bound: days of an application
    MaxDate          \* bound: days on which a salary takes effect

ASSUME LeaveConstants ==
    /\ IsFiniteSet(Applications)
    /\ None \notin Applications
    /\ MaxDays \in Nat \ {0}
    /\ MaxDate \in Nat \ {0}

Dates == 1..MaxDate
Forever == MaxDate + 1   \* effectiveTo is null

VARIABLES
    applications,   \* LeaveApplication documents
    requests,       \* the status of the WorkflowRequest of each application
    balance,        \* the LeaveBalance row: whether it exists, usedDays
    salaries,       \* SalaryRecord of each approved proposal: from, to
    proposals,      \* the status of the WorkflowRequest of each proposal
    leaveCalls,     \* calls in flight
    premature       \* history: applications reversed while their use was still to be written

leaveVars == <<applications, requests, balance, salaries, proposals, leaveCalls, premature>>

-----------------------------------------------------------------------------
NoApplication == [status |-> "ABSENT", days |-> 0, applied |-> FALSE]
NoSalary == [from |-> 0, to |-> 0]

\* The application or proposal a call is about, and the days, status or date
\* it remembers.
LeaveCall(op, id, days, status) == [op |-> op, id |-> id, days |-> days, status |-> status]
LeaveIdle == LeaveCall("idle", None, 0, "none")

LeaveAt(c, op) == leaveCalls[c].op = op
LeaveContinue(c, call) == leaveCalls' = [leaveCalls EXCEPT ![c] = call]

LeaveThen(c, op) == LeaveContinue(c, [leaveCalls[c] EXCEPT !.op = op])

LeaveInit ==
    /\ applications = [a \in Applications |-> NoApplication]
    /\ requests = [a \in Applications |-> "ABSENT"]
    /\ balance = [exists |-> FALSE, used |-> 0]
    /\ salaries = [p \in Proposals |-> NoSalary]
    /\ proposals = [p \in Proposals |-> "ABSENT"]
    /\ leaveCalls = [c \in LeaveCalls |-> LeaveIdle]
    /\ premature = {}

-----------------------------------------------------------------------------
(* Submission *)

\* computeNumberOfDays: both ends count, and there is at least one day.
NumberOfDays == 1..MaxDays

\* applyForLeave of an ACTIVE staff member; getOrCreateBalance upserts the row.
ApplyForLeave(c, a) ==
    /\ leaveCalls[c] = LeaveIdle
    /\ applications[a].status = "ABSENT"
    /\ \A d \in LeaveCalls : leaveCalls[d].id # a
    /\ balance' = [balance EXCEPT !.exists = TRUE]
    /\ \E days \in NumberOfDays : LeaveContinue(c, LeaveCall("create", a, days, "none"))
    /\ UNCHANGED <<applications, requests, salaries, proposals, premature>>

CreateApplication(c) ==
    /\ LeaveAt(c, "create")
    /\ applications' = [applications EXCEPT ![leaveCalls[c].id] =
                          [status |-> "PENDING_REVIEW", days |-> leaveCalls[c].days,
                           applied |-> FALSE]]
    /\ LeaveThen(c, "initiate")
    /\ UNCHANGED <<requests, balance, salaries, proposals, premature>>

InitiateApplication(c) ==
    /\ LeaveAt(c, "initiate")
    /\ requests' = [requests EXCEPT ![leaveCalls[c].id] = "OPEN"]
    /\ LeaveContinue(c, LeaveIdle)
    /\ UNCHANGED <<applications, balance, salaries, proposals, premature>>

-----------------------------------------------------------------------------
(* Decision *)

\* The last step of the chain, or a refusal or return at any.
DecideApplication(c, a, verdict) ==
    /\ leaveCalls[c] = LeaveIdle
    /\ requests[a] = "OPEN"
    /\ requests' = [requests EXCEPT ![a] = verdict]
    /\ IF verdict = "RETURNED_TO_MAKER" THEN UNCHANGED leaveCalls
       ELSE LeaveContinue(c, LeaveCall("set_status", a, 0, verdict))
    /\ UNCHANGED <<applications, balance, salaries, proposals, premature>>

\* The maker withdraws the request itself: no listener of this module.
CloseRequest(a, status) ==
    /\ requests[a] \in {"OPEN", "REJECTED"} \union
                       (IF status = "CANCELLED" THEN {"RETURNED_TO_MAKER"} ELSE {})
    /\ requests' = [requests EXCEPT ![a] = status]
    /\ UNCHANGED <<applications, balance, salaries, proposals, leaveCalls, premature>>

\* handleWorkflowApproved and handleWorkflowRejected: the status, whatever it
\* has become; after an approval, the use of the balance.
SetStatus(c) ==
    /\ LeaveAt(c, "set_status")
    /\ applications' = [applications EXCEPT ![leaveCalls[c].id].status = leaveCalls[c].status]
    /\ IF leaveCalls[c].status = "APPROVED" THEN LeaveThen(c, "use")
       ELSE LeaveContinue(c, LeaveIdle)
    /\ UNCHANGED <<requests, balance, salaries, proposals, premature>>

\* Without upsert: the row that ApplyForLeave created.
Charged(days) == IF balance.exists THEN [balance EXCEPT !.used = @ + days] ELSE balance

\* Mutant of Post: balanceApplied is not looked at.
PostAgain(a, applied) ==
    /\ applications' = [applications EXCEPT ![a].applied = applied]
    /\ balance' = Charged(IF applied THEN applications[a].days ELSE -applications[a].days)

\* A transaction that flips balanceApplied and moves usedDays; of an
\* application that is already as wanted, a no-op.
Post(a, applied) ==
    IF applications[a].applied = applied THEN UNCHANGED <<applications, balance>>
    ELSE /\ applications' = [applications EXCEPT ![a].applied = applied]
         /\ balance' = Charged(IF applied THEN applications[a].days ELSE -applications[a].days)

ApplyUsage(c) ==
    /\ LeaveAt(c, "use")
    /\ Post(leaveCalls[c].id, TRUE)
    /\ LeaveContinue(c, LeaveIdle)
    /\ UNCHANGED <<requests, salaries, proposals, premature>>

-----------------------------------------------------------------------------
(* Cancellation, which leaves the WorkflowRequest alone *)

CancelRead(c, a) ==
    /\ leaveCalls[c] = LeaveIdle
    /\ applications[a].status \in {"PENDING_REVIEW", "APPROVED"}
    /\ LeaveContinue(c, LeaveCall("cancel", a, 0, applications[a].status))
    /\ UNCHANGED <<applications, requests, balance, salaries, proposals, premature>>

\* If the status is still the one that was read.
Cancel(c) ==
    /\ LeaveAt(c, "cancel")
    /\ LET a == leaveCalls[c].id IN
          IF applications[a].status = leaveCalls[c].status
          THEN /\ applications' = [applications EXCEPT ![a].status = "CANCELLED"]
               /\ IF leaveCalls[c].status = "APPROVED" THEN LeaveThen(c, "reverse")
                  ELSE LeaveContinue(c, LeaveIdle)
          ELSE UNCHANGED applications /\ LeaveContinue(c, LeaveIdle)
    /\ UNCHANGED <<requests, balance, salaries, proposals, premature>>

Using(a) == \E c \in LeaveCalls : LeaveAt(c, "use") /\ leaveCalls[c].id = a

ReverseUsage(c) ==
    /\ LeaveAt(c, "reverse")
    /\ Post(leaveCalls[c].id, FALSE)
    /\ premature' = premature \union {a \in {leaveCalls[c].id} : Using(a)}
    /\ LeaveContinue(c, LeaveIdle)
    /\ UNCHANGED <<requests, salaries, proposals>>

-----------------------------------------------------------------------------
(* Salary *)

\* proposeSalaryChange: the request is the only record of a proposal.
ProposeSalary(p) ==
    /\ proposals[p] = "ABSENT"
    /\ proposals' = [proposals EXCEPT ![p] = "OPEN"]
    /\ UNCHANGED <<applications, requests, balance, salaries, leaveCalls, premature>>

DecideSalary(c, p, verdict) ==
    /\ leaveCalls[c] = LeaveIdle
    /\ proposals[p] = "OPEN"
    /\ proposals' = [proposals EXCEPT ![p] = verdict]
    /\ IF verdict # "APPROVED" THEN UNCHANGED leaveCalls
       ELSE \E date \in Dates : LeaveContinue(c, LeaveCall("activate", p, date, "none"))
    /\ UNCHANGED <<applications, requests, balance, salaries, premature>>

CloseProposal(p) ==
    /\ proposals[p] \in {"OPEN", "REJECTED"}
    /\ proposals' = [proposals EXCEPT ![p] = "CANCELLED"]
    /\ UNCHANGED <<applications, requests, balance, salaries, leaveCalls, premature>>

Open(p) == salaries[p].to = Forever

\* Mutant of ClosePrior: the open record is left open.
LeavePrior(date) == salaries

\* findOne and updateOne of the open record.
ClosePrior(date) ==
    [p \in Proposals |-> IF Open(p) THEN [salaries[p] EXCEPT !.to = date] ELSE salaries[p]]

\* One transaction: close the open record, create the new one.
ActivateSalary(c) ==
    /\ LeaveAt(c, "activate")
    /\ LET date == leaveCalls[c].days
           p == leaveCalls[c].id
       IN salaries' = [ClosePrior(date) EXCEPT ![p] = [from |-> date, to |-> Forever]]
    /\ LeaveContinue(c, LeaveIdle)
    /\ UNCHANGED <<applications, requests, balance, proposals, premature>>

-----------------------------------------------------------------------------
\* The process stops, or a write throws, between two steps of a call.
AbandonLeave(c) ==
    /\ ~LeaveAt(c, "idle") /\ ~LeaveAt(c, "died")
    /\ LeaveContinue(c, LeaveCall("died", leaveCalls[c].id, 0, "none"))
    /\ UNCHANGED <<applications, requests, balance, salaries, proposals, premature>>

LeaveNext ==
    \/ \E c \in LeaveCalls, a \in Applications :
          \/ ApplyForLeave(c, a)
          \/ \E verdict \in {"APPROVED", "REJECTED", "RETURNED_TO_MAKER"} :
                DecideApplication(c, a, verdict)
          \/ CancelRead(c, a)
    \/ \E a \in Applications, status \in {"CANCELLED", "DELETED"} : CloseRequest(a, status)
    \/ \E c \in LeaveCalls :
          \/ CreateApplication(c)
          \/ InitiateApplication(c)
          \/ SetStatus(c)
          \/ ApplyUsage(c)
          \/ Cancel(c)
          \/ ReverseUsage(c)
          \/ ActivateSalary(c)
          \/ AbandonLeave(c)
    \/ \E p \in Proposals : ProposeSalary(p) \/ CloseProposal(p)
    \/ \E c \in LeaveCalls, p \in Proposals, verdict \in {"APPROVED", "REJECTED"} :
          DecideSalary(c, p, verdict)

LeaveSpec == LeaveInit /\ [][LeaveNext]_leaveVars

-----------------------------------------------------------------------------
(* Properties *)

Counted == {a \in Applications : applications[a].applied}

DaysAreCounted ==
    balance.used = SumFunctionOnSet([a \in Applications |-> applications[a].days], Counted)

\* An APPROVED application counts, unless its use is still to be written.
ApprovedCounts ==
    \A a \in Applications :
       applications[a].status = "APPROVED" =>
          \/ applications[a].applied
          \/ \E c \in LeaveCalls : /\ leaveCalls[c].id = a
                                   /\ LeaveAt(c, "use") \/ LeaveAt(c, "died")

\* An application that is cancelled or rejected does not, unless its reversal is
\* still to be written.
OnlyApprovedCount ==
    \A a \in Applications :
       applications[a].applied =>
          \/ applications[a].status = "APPROVED"
          \/ \E c \in LeaveCalls : /\ leaveCalls[c].id = a
                                   /\ LeaveAt(c, "reverse") \/ LeaveAt(c, "died")
          \/ a \in premature

\* The days used are those of the applications that count, and these are the
\* APPROVED ones, however decisions, cancellations, uses and reversals
\* interleave (cancelApplication, handleWorkflowApproved and the idempotent
\* guards of applyUsage and reverseUsage).  Two things alone keep an application
\* at odds with its status: a call that died between its two writes, and a
\* cancellation that was reversed before the use of the approval it read was
\* written.
UsageIsCharged == DaysAreCounted /\ ApprovedCounts /\ OnlyApprovedCount

\* "Exactly one active (effectiveTo: null) record per staff member at a time"
\* (salary-record.schema.ts:58), whichever order proposals are approved and
\* activated in; and a closed record ends on the day another begins.
SalaryHistory ==
    LET records == {p \in Proposals : salaries[p] # NoSalary} IN
    /\ records # {} => Cardinality({p \in records : Open(p)}) = 1
    /\ \A p \in records : ~Open(p) =>
         \E q \in records \ {p} : salaries[p].to = salaries[q].from

=============================================================================
