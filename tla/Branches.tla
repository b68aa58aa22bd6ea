------------------------------ MODULE Branches ------------------------------
(***************************************************************************)
(* One branch from its creation to its deletion: its manager, its bank     *)
(* accounts and the funding head office sends it                           *)
(* (src/src/modules/branches: branches.service.ts,                         *)
(* branch-manager-assignment.service.ts, branch-bank-accounts.service.ts,  *)
(* branch-funding.service.ts and branch-fund-balance.service.ts).          *)
(*                                                                         *)
(* A call in flight is a slot holding the next write it will make and what *)
(* it remembers of its reads.  The transaction of verifyFunding is one     *)
(* step; every other write is a step of its own.  An approved workflow     *)
(* request starts the call that handles its event.                         *)
(*                                                                         *)
(* Abstractions: what the branch's name, code and address are; whether a   *)
(* nominee is an ACTIVE manager (left open); customers, groups and loans   *)
(* of the branch, which may forbid its deletion at any time; nudges, which *)
(* only stamp a time; debits, which LoanLifecycle models.                  *)
(***************************************************************************)
EXTENDS Integers, FiniteSets, Functions

CONSTANTS
    Staff,           \* staff members who may manage the branch
    Accounts,        \* bank accounts, by bank and number
    Fundings,        \* identities of funding records
    Amounts,         \* what a funding may amount to
    Calls,           \* slots for calls in flight
    None,            \* nobody, no balance document, no argument
    MaxProposals,    \* bound: proposals of the branch at one time
    MaxAssignments   \* bound: assignment documents ever inserted

ASSUME BranchConstants ==
    /\ IsFiniteSet(Fundings)
    /\ Amounts \subseteq Nat \ {0}
    /\ MaxProposals \in Nat
    /\ MaxAssignments \in Nat
    /\ None \notin Staff \union Accounts \union Fundings \union Nat

VARIABLES
    branch,      \* status of the Branch document
    proposals,   \* creations awaiting approval
    balance,     \* BranchFundBalance, or None
    manager,     \* the open assignment: whose, and which document
    inserted,    \* how many assignment documents were inserted
    posted,      \* staff whose branchId is this branch
    accounts,    \* BranchBankAccount documents
    fundings,    \* BranchFunding documents
    calls,       \* calls in flight
    managed      \* history: everybody who was ever the manager

vars == <<branch, proposals, balance, manager, inserted, posted,
          accounts, fundings, calls, managed>>

\* What the calls about one part of the branch leave alone.
Money == <<balance, fundings>>
People == <<manager, inserted, posted, managed>>
Site == <<branch, proposals>>

-----------------------------------------------------------------------------
NoFunding == [status |-> "ABSENT", amount |-> 0, by |-> None, dispute |-> "NONE"]
Nobody == [staff |-> None, no |-> 0]

Call(op, arg, by, n) == [op |-> op, arg |-> arg, by |-> by, n |-> n]
Idle == Call("idle", None, None, 0)
Died == Call("died", None, None, 0)
DiedInserting == Call("died_inserting", None, None, 0)

Enter(c, call) == calls[c] = Idle /\ calls' = [calls EXCEPT ![c] = call]
Continue(c, call) == calls' = [calls EXCEPT ![c] = call]
At(c, op) == calls[c].op = op

Standing == branch \in {"ACTIVE", "INACTIVE"}

Init ==
    /\ branch = "ABSENT"
    /\ proposals = 0
    /\ balance = None
    /\ manager = Nobody
    /\ inserted = 0
    /\ posted = {}
    /\ accounts = [a \in Accounts |-> "ABSENT"]
    /\ fundings = [f \in Fundings |-> NoFunding]
    /\ calls = [c \in Calls |-> Idle]
    /\ managed = {}

-----------------------------------------------------------------------------
(* Creation, status and deletion *)

\* initiateCreation: no branch carries the code, as read here.
ProposeBranch ==
    /\ branch = "ABSENT"
    /\ proposals < MaxProposals
    /\ proposals' = proposals + 1
    /\ UNCHANGED <<branch, Money, People, accounts, calls>>

DecideBranch(c, verdict) ==
    /\ proposals > 0
    /\ proposals' = proposals - 1
    /\ IF verdict = "APPROVED" THEN Enter(c, Call("persist", None, None, 0))
                               ELSE UNCHANGED calls
    /\ UNCHANGED <<branch, Money, People, accounts>>

\* persistBranch: the unique code refuses a second document; a document
\* created once this one is deleted is another branch.
PersistBranch(c) ==
    /\ At(c, "persist")
    /\ IF branch = "ABSENT"
       THEN branch' = "ACTIVE" /\ Continue(c, Call("open_balance", None, None, 0))
       ELSE UNCHANGED branch /\ Continue(c, Idle)
    /\ UNCHANGED <<proposals, Money, People, accounts>>

\* handleBranchCreated of the fund balance: an insert if there is none.
OpenBalance(c) ==
    /\ At(c, "open_balance")
    /\ balance' = IF balance = None THEN 0 ELSE balance
    /\ Continue(c, Idle)
    /\ UNCHANGED <<Site, fundings, People, accounts>>

Update(status) ==
    /\ Standing
    /\ branch' = status
    /\ UNCHANGED <<proposals, Money, People, accounts, calls>>

\* deleteBranch: nobody is posted here, as counted before the first write.
DeleteRead(c) ==
    /\ Standing
    /\ posted = {}
    /\ Enter(c, Call("delete", None, None, 0))
    /\ UNCHANGED <<Site, Money, People, accounts>>

DeleteBranch(c) ==
    /\ At(c, "delete")
    /\ branch' = "DELETED"
    /\ Continue(c, Call("cascade", None, None, 0))
    /\ UNCHANGED <<proposals, Money, People, accounts>>

\* The balance and the bank accounts go together; fundings and assignments
\* stay.
DeleteBelongings(c) ==
    /\ At(c, "cascade")
    /\ balance' = None
    /\ accounts' = [a \in Accounts |-> "ABSENT"]
    /\ Continue(c, Idle)
    /\ UNCHANGED <<Site, fundings, People>>

-----------------------------------------------------------------------------
(* The manager *)

\* A nomination is approved.  Its initiation checks no more than the validator
\* of the final approval repeats, so that pending nominations are left out.
ApproveNominee(c, s) ==
    /\ Standing
    /\ inserted < MaxAssignments
    /\ Enter(c, Call("assign", s, None, 0))
    /\ UNCHANGED <<Site, Money, People, accounts>>

\* applyAssignment reads the open assignment, closes that document, inserts
\* the next and moves the staff member.
AssignRead(c) ==
    /\ At(c, "assign")
    /\ Continue(c, IF manager = Nobody THEN Call("open", calls[c].arg, None, 0)
                   ELSE Call("close", calls[c].arg, None, manager.no))
    /\ UNCHANGED <<Site, Money, People, accounts>>

CloseAssignment(c) ==
    /\ At(c, "close")
    /\ manager' = IF manager.no = calls[c].n THEN Nobody ELSE manager
    /\ Continue(c, Call("open", calls[c].arg, None, 0))
    /\ UNCHANGED <<Site, Money, inserted, posted, managed, accounts>>

\* Mutant of OpenAssignment: the insertion also needs the branch to be active.
OpenIfActive(c) ==
    /\ At(c, "open")
    /\ IF manager = Nobody /\ branch = "ACTIVE"
       THEN /\ manager' = [staff |-> calls[c].arg, no |-> inserted + 1]
            /\ inserted' = inserted + 1
            /\ managed' = managed \union {calls[c].arg}
            /\ Continue(c, Call("move", calls[c].arg, None, 0))
       ELSE UNCHANGED <<manager, inserted, managed>> /\ Continue(c, Idle)
    /\ UNCHANGED <<Site, Money, posted, accounts>>

\* The unique index on open assignments refuses a second one.
OpenAssignment(c) ==
    /\ At(c, "open")
    /\ IF manager = Nobody
       THEN /\ manager' = [staff |-> calls[c].arg, no |-> inserted + 1]
            /\ inserted' = inserted + 1
            /\ managed' = managed \union {calls[c].arg}
            /\ Continue(c, Call("move", calls[c].arg, None, 0))
       ELSE UNCHANGED <<manager, inserted, managed>> /\ Continue(c, Idle)
    /\ UNCHANGED <<Site, Money, posted, accounts>>

MoveStaff(c) ==
    /\ At(c, "move")
    /\ posted' = posted \union {calls[c].arg}
    /\ Continue(c, Idle)
    /\ UNCHANGED <<Site, Money, manager, inserted, managed, accounts>>

\* Another branch's assignment, or an edit of the profile, posts them elsewhere.
PostElsewhere(s) ==
    /\ s \in posted
    /\ posted' = posted \ {s}
    /\ UNCHANGED <<Site, Money, manager, inserted, managed, accounts, calls>>

-----------------------------------------------------------------------------
(* Bank accounts *)

Known == {a \in Accounts : accounts[a] # "ABSENT"}

\* create: active as asked, or when it is the branch's first.
CreateAccountRead(c, a, active) ==
    /\ branch # "ABSENT"
    /\ Enter(c, IF active = "yes" \/ (active = "unsaid" /\ Known = {})
                THEN Call("deactivate", a, None, 0)
                ELSE Call("add", a, None, 0))
    /\ UNCHANGED <<Site, Money, People, accounts>>

\* update: only activation touches the others.
UpdateAccountRead(c, a, active) ==
    /\ a \in Known
    /\ Enter(c, IF active THEN Call("deactivate", a, None, 1) ELSE Call("retire", a, None, 1))
    /\ UNCHANGED <<Site, Money, People, accounts>>

DeactivateOthers(c) ==
    /\ At(c, "deactivate")
    /\ accounts' = [a \in Accounts |->
                      IF a \in Known /\ (a # calls[c].arg \/ calls[c].n = 0)
                      THEN "INACTIVE" ELSE accounts[a]]
    /\ Continue(c, [calls[c] EXCEPT !.op = IF calls[c].n = 0 THEN "add_active" ELSE "activate"])
    /\ UNCHANGED <<Site, Money, People>>

\* The unique index on bank and number refuses a known account.
AddAccount(c) ==
    /\ calls[c].op \in {"add", "add_active"}
    /\ accounts' = IF calls[c].arg \in Known THEN accounts
                   ELSE [accounts EXCEPT ![calls[c].arg] =
                           IF At(c, "add") THEN "INACTIVE" ELSE "ACTIVE"]
    /\ Continue(c, Idle)
    /\ UNCHANGED <<Site, Money, People>>

SetAccount(c) ==
    /\ calls[c].op \in {"activate", "retire"}
    /\ accounts' = IF calls[c].arg \notin Known THEN accounts
                   ELSE [accounts EXCEPT ![calls[c].arg] =
                           IF At(c, "retire") THEN "INACTIVE" ELSE "ACTIVE"]
    /\ Continue(c, Idle)
    /\ UNCHANGED <<Site, Money, People>>

-----------------------------------------------------------------------------
(* Funding *)

Unused == {f \in Fundings : fundings[f].status = "ABSENT"}

\* recordFunding: the branch is active, has a manager, and the account is its
\* active one, as read.
RecordRead(c, a, amount) ==
    /\ branch = "ACTIVE"
    /\ manager # Nobody
    /\ accounts[a] = "ACTIVE"
    /\ Enter(c, Call("record", None, None, amount))
    /\ UNCHANGED <<Site, Money, People, accounts>>

RecordFunding(c, f) ==
    /\ At(c, "record")
    /\ f \in Unused
    /\ fundings' = [fundings EXCEPT ![f] = [status  |-> "PENDING_VERIFICATION",
                                            amount  |-> calls[c].n,
                                            by      |-> None,
                                            dispute |-> "NONE"]]
    /\ Continue(c, Idle)
    /\ UNCHANGED <<Site, balance, People, accounts>>

\* Mutant of IsPending: a rejection may still be decided otherwise.
IsUnverified(f) == fundings[f].status \in {"PENDING_VERIFICATION", "REJECTED"}

IsPending(f) == fundings[f].status = "PENDING_VERIFICATION"

\* assertActorIsCurrentManager.
MayDecide(s) == manager # Nobody /\ manager.staff = s

\* verifyFunding and rejectFunding check status and manager before they write.
DecideFundingRead(c, f, s, verdict) ==
    /\ IsPending(f)
    /\ MayDecide(s)
    /\ Enter(c, Call(verdict, f, s, 0))
    /\ UNCHANGED <<Site, Money, People, accounts>>

Held == IF balance = None THEN 0 ELSE balance

\* Mutant of VerifyFunding: the balance is written over, not added to.
VerifyOverwrites(c) ==
    /\ At(c, "verify")
    /\ LET f == calls[c].arg IN
          IF IsPending(f)
          THEN /\ fundings' = [fundings EXCEPT ![f].status = "VERIFIED", ![f].by = calls[c].by]
               /\ balance' = fundings[f].amount
          ELSE UNCHANGED Money
    /\ Continue(c, Idle)
    /\ UNCHANGED <<Site, People, accounts>>

VerifyFunding(c) ==
    /\ At(c, "verify")
    /\ LET f == calls[c].arg IN
          IF IsPending(f)
          THEN /\ fundings' = [fundings EXCEPT ![f].status = "VERIFIED", ![f].by = calls[c].by]
               /\ balance' = Held + fundings[f].amount
          ELSE UNCHANGED Money
    /\ Continue(c, Idle)
    /\ UNCHANGED <<Site, People, accounts>>

RejectFunding(c) ==
    /\ At(c, "reject")
    /\ fundings' = IF IsPending(calls[c].arg)
                   THEN [fundings EXCEPT ![calls[c].arg].status = "REJECTED"]
                   ELSE fundings
    /\ Continue(c, Idle)
    /\ UNCHANGED <<Site, balance, People, accounts>>

\* raiseDispute: checked here, written after the upload of the evidence.
DisputeRead(c, f, s) ==
    /\ MayDecide(s)
    /\ IsPending(f)
    /\ fundings[f].dispute # "OPEN"
    /\ Enter(c, Call("dispute", f, s, 0))
    /\ UNCHANGED <<Site, Money, People, accounts>>

ResolveDisputeRead(c, f) ==
    /\ fundings[f].dispute = "OPEN"
    /\ Enter(c, Call("resolve", f, None, 0))
    /\ UNCHANGED <<Site, Money, People, accounts>>

\* Neither write repeats its check; RESOLVED stands for DISMISSED too.
WriteDispute(c) ==
    /\ calls[c].op \in {"dispute", "resolve"}
    /\ fundings' = [fundings EXCEPT ![calls[c].arg].dispute =
                      IF At(c, "dispute") THEN "OPEN" ELSE "RESOLVED"]
    /\ Continue(c, Idle)
    /\ UNCHANGED <<Site, balance, People, accounts>>

-----------------------------------------------------------------------------
\* A call that dies at one of its awaits.  Bound: its slot is not used again,
\* and remembers whether the call had closed an assignment and not yet inserted
\* the next.
Abandon(c) ==
    /\ calls[c] \notin {Idle, Died, DiedInserting}
    /\ Continue(c, IF At(c, "open") THEN DiedInserting ELSE Died)
    /\ UNCHANGED <<Site, Money, People, accounts>>

Next ==
    \/ ProposeBranch
    \/ \E c \in Calls, v \in {"APPROVED", "REJECTED"} : DecideBranch(c, v)
    \/ \E c \in Calls : PersistBranch(c)
    \/ \E c \in Calls : OpenBalance(c)
    \/ \E status \in {"ACTIVE", "INACTIVE"} : Update(status)
    \/ \E c \in Calls : DeleteRead(c)
    \/ \E c \in Calls : DeleteBranch(c)
    \/ \E c \in Calls : DeleteBelongings(c)
    \/ \E c \in Calls, s \in Staff : ApproveNominee(c, s)
    \/ \E c \in Calls : AssignRead(c)
    \/ \E c \in Calls : CloseAssignment(c)
    \/ \E c \in Calls : OpenAssignment(c)
    \/ \E c \in Calls : MoveStaff(c)
    \/ \E s \in Staff : PostElsewhere(s)
    \/ \E c \in Calls, a \in Accounts, v \in {"yes", "no", "unsaid"} : CreateAccountRead(c, a, v)
    \/ \E c \in Calls, a \in Accounts, v \in BOOLEAN : UpdateAccountRead(c, a, v)
    \/ \E c \in Calls : DeactivateOthers(c)
    \/ \E c \in Calls : AddAccount(c)
    \/ \E c \in Calls : SetAccount(c)
    \/ \E c \in Calls, a \in Accounts, n \in Amounts : RecordRead(c, a, n)
    \/ \E c \in Calls, f \in Fundings : RecordFunding(c, f)
    \/ \E c \in Calls, f \in Fundings, s \in Staff, v \in {"verify", "reject"} :
          DecideFundingRead(c, f, s, v)
    \/ \E c \in Calls : VerifyFunding(c)
    \/ \E c \in Calls : RejectFunding(c)
    \/ \E c \in Calls, f \in Fundings, s \in Staff : DisputeRead(c, f, s)
    \/ \E c \in Calls, f \in Fundings : ResolveDisputeRead(c, f)
    \/ \E c \in Calls : WriteDispute(c)
    \/ \E c \in Calls : Abandon(c)

Spec == Init /\ [][Next]_vars

-----------------------------------------------------------------------------
Verified == {f \in Fundings : fundings[f].status = "VERIFIED"}
Credit == SumFunctionOnSet([f \in Fundings |-> fundings[f].amount], Verified)

\* The balance of a standing branch is what its VERIFIED fundings add up to:
\* no funding is credited twice, none is verified without its credit, and the
\* creation of the balance document, whenever it comes, forgets none; and only
\* somebody who has been the branch's manager ever verified one.
CreditedOnce ==
    /\ Standing => Held = Credit
    /\ \A f \in Verified : fundings[f].by \in managed

\* "A branch needs a current manager before head office can fund it at all":
\* once it has had one, a branch is without a manager only while a call that
\* will insert the next assignment is in flight, or after such a call died.
ManagerIsReplaced ==
    managed # {} /\ manager = Nobody =>
        \E c \in Calls : calls[c].op \in {"open", "died_inserting"}

\* A verified or rejected funding keeps its status and its verifier,
\* although the checks precede the writes.
DecisionStands ==
    [][\A f \in Fundings :
             fundings[f].status \in {"VERIFIED", "REJECTED"} =>
                /\ fundings'[f].status = fundings[f].status
                /\ fundings'[f].by = fundings[f].by]_vars
=============================================================================
