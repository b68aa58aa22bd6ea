---------------------------- MODULE Liquidation -----------------------------
(***************************************************************************)
(* Early liquidation of one MemberLoanAccount: the requests, the           *)
(* repayments linked to them, their delay charges and the completion that  *)
(* closes the account (src/src/modules/repayments:                         *)
(* early-liquidation.service.ts, and of repayments.service.ts and          *)
(* penalty-sweep.service.ts what they meet; the journal entries are those  *)
(* of src/src/modules/accounting/ledger-posting.service.ts).               *)
(*                                                                         *)
(* A call in flight is a slot holding its next step and what it remembers. *)
(* The transactions (application, reversal, penalty, delay charge,         *)
(* completion) are one step each; every other write is a step of its own.  *)
(*                                                                         *)
(* Abstractions: as in Repayments, which has the disputes of pending       *)
(* repayments, the resynchronisation of the loan and the overpayments;     *)
(* which periods are due is left open; the chain has one step;             *)
(* linkedRepaymentRecordId of a request, which nothing reads.              *)
(***************************************************************************)
EXTENDS Integers, FiniteSets, FiniteSetsExt

CONSTANTS
    Requests,    \* identities of EarlyLiquidationRequests
    Repayments,  \* identities of RepaymentRecords
    Periods,     \* periodIndex of a penalty or of a delay charge
    Calls,       \* slots for calls in flight
    Amounts,     \* what a repayment may be recorded for
    Opening,     \* the balance the account starts with
    Fee,         \* the early liquidation fee
    Delay,       \* what one delay charge adds to a request's total
    Penalty,     \* what one penalty adds to the balance
    None         \* no request, repayment or period

ASSUME LiquidationConstants ==
    /\ Amounts \subseteq Nat \ {0}
    /\ Opening \in Nat \ {0} /\ Fee \in Nat
    /\ Delay \in Nat \ {0} /\ Penalty \in Nat \ {0}
    /\ Requests \intersect Repayments = {} /\ Periods \intersect Repayments = {}
    /\ None \notin Requests \union Repayments

VARIABLES
    account,     \* MemberLoanAccount: status, outstandingBalanceKobo
    requests,    \* EarlyLiquidationRequest documents
    repayments,  \* RepaymentRecord documents
    open,        \* the requests and repayments whose WorkflowRequest is open
    charged,     \* PenaltyCharges: periods
    delays,      \* LiquidationDelayCharges: <<request, period>>
    journal,     \* JournalEntry amounts by sourceRef
    calls,       \* calls in flight
    everLinked,  \* history: the links that were written
    everApplied  \* history: the repayments that were applied at some time

vars == <<account, requests, repayments, open, charged, delays, journal, calls, everLinked,
          everApplied>>

-----------------------------------------------------------------------------
NoRequest == [status |-> "ABSENT", total |-> 0]
NoRepayment == [status |-> "ABSENT", amount |-> 0, applied |-> FALSE, over |-> 0,
                link |-> None]

Call(op, q, r, amount) == [op |-> op, request |-> q, repayment |-> r, amount |-> amount]
Idle == Call("idle", None, None, 0)

At(c, op) == calls[c].op = op
Continue(c, call) == calls' = [calls EXCEPT ![c] = call]
Then(c, op) == Continue(c, [calls[c] EXCEPT !.op = op])
Enter(c, call) ==
    /\ calls[c] = Idle
    /\ Continue(c, call)
    /\ UNCHANGED <<account, requests, repayments, open, charged, delays, journal, everLinked,
                   everApplied>>

Init ==
    /\ account = [status |-> "ACTIVE", balance |-> Opening]
    /\ requests = [q \in Requests |-> NoRequest]
    /\ repayments = [r \in Repayments |-> NoRepayment]
    /\ open = {}
    /\ charged = {}
    /\ delays = {}
    /\ journal = [s \in Repayments \union Periods \union (Requests \X Periods) |-> 0]
    /\ calls = [c \in Calls |-> Idle]
    /\ everLinked = {}
    /\ everApplied = {}

-----------------------------------------------------------------------------
(* The request *)

\* initiateEarlyLiquidation: what is payable is computed here, once.
InitiateRead(c, q) ==
    /\ requests[q] = NoRequest
    /\ \A d \in Calls : calls[d].request # q
    /\ account.status = "ACTIVE"
    /\ Enter(c, Call("create", q, None, account.balance + Fee))

CreateRequest(c) ==
    /\ At(c, "create")
    /\ requests' = [requests EXCEPT ![calls[c].request] =
                      [status |-> "PENDING_APPROVAL", total |-> calls[c].amount]]
    /\ Then(c, "initiate")
    /\ UNCHANGED <<account, repayments, open, charged, delays, journal, everLinked, everApplied>>

\* The WorkflowRequest of a liquidation request, or of a repayment.
Initiate(c) ==
    /\ At(c, "initiate")
    /\ open' = open \union ({calls[c].request, calls[c].repayment} \ {None})
    /\ Continue(c, Idle)
    /\ UNCHANGED <<account, requests, repayments, charged, delays, journal, everLinked,
                   everApplied>>

DecideRequest(c, q, verdict) ==
    /\ calls[c] = Idle
    /\ q \in open
    /\ open' = open \ {q}
    /\ Continue(c, Call(verdict, q, None, 0))
    /\ UNCHANGED <<account, requests, repayments, charged, delays, journal, everLinked,
                   everApplied>>

\* handleWorkflowApproved and handleWorkflowRejected.
WriteDecision(c) ==
    /\ At(c, "APPROVED") \/ At(c, "REJECTED")
    /\ requests' = [requests EXCEPT ![calls[c].request].status = calls[c].op]
    /\ Continue(c, Idle)
    /\ UNCHANGED <<account, repayments, open, charged, delays, journal, everLinked, everApplied>>

\* The maker withdraws a WorkflowRequest, or it is returned: nothing of this
\* module listens.
Withdraw(x) ==
    /\ x \in open
    /\ open' = open \ {x}
    /\ UNCHANGED <<account, requests, repayments, charged, delays, journal, calls, everLinked,
                   everApplied>>

-----------------------------------------------------------------------------
(* Linking *)

\* linkRepaymentToLiquidation: what both are is read here.
LinkRead(c, q, r) ==
    /\ requests[q].status = "APPROVED"
    /\ repayments[r].status = "PENDING"
    /\ Enter(c, Call("link", q, r, 0))

Link(c) ==
    /\ At(c, "link")
    /\ repayments' = [repayments EXCEPT ![calls[c].repayment].link = calls[c].request]
    /\ everLinked' = everLinked \union {<<calls[c].repayment, calls[c].request>>}
    /\ Continue(c, Idle)
    /\ UNCHANGED <<account, requests, open, charged, delays, journal, everApplied>>

-----------------------------------------------------------------------------
(* Repayments *)

\* The balance, or the total of a request that is APPROVED.
Ceilings ==
    LET approved == {requests[q].total : q \in {x \in Requests :
                                                  requests[x].status = "APPROVED"}}
    IN IF approved = {} THEN {account.balance}
       ELSE {Max({account.balance, total}) : total \in approved}

RecordRead(c, r, amount) ==
    /\ repayments[r] = NoRepayment
    /\ \A d \in Calls : calls[d].repayment # r
    /\ account.status = "ACTIVE"
    /\ \E ceiling \in Ceilings : amount <= ceiling
    /\ Enter(c, Call("record", None, r, amount))

Record(c) ==
    /\ At(c, "record")
    /\ repayments' = [repayments EXCEPT ![calls[c].repayment] =
                        [NoRepayment EXCEPT !.status = "PENDING", !.amount = calls[c].amount]]
    /\ Then(c, "initiate")
    /\ UNCHANGED <<account, requests, open, charged, delays, journal, everLinked, everApplied>>

DecideRepayment(c, r, op) ==
    /\ calls[c] = Idle
    /\ r \in open
    /\ open' = open \ {r}
    /\ Continue(c, Call(op, None, r, 0))
    /\ UNCHANGED <<account, requests, repayments, charged, delays, journal, everLinked,
                   everApplied>>

Settle(c) ==
    /\ At(c, "approve") \/ At(c, "reject")
    /\ repayments' = [repayments EXCEPT ![calls[c].repayment].status =
                        IF At(c, "approve") THEN "APPROVED" ELSE "REJECTED"]
    /\ IF At(c, "approve") THEN Then(c, "apply") ELSE Continue(c, Idle)
    /\ UNCHANGED <<account, requests, open, charged, delays, journal, everLinked, everApplied>>

\* The transaction of applyToBalance; the call remembers what it posts.
Apply(c) ==
    /\ At(c, "apply")
    /\ LET r == calls[c].repayment
           taken == Min({repayments[r].amount, account.balance})
           balance == account.balance - taken
       IN IF repayments[r].applied
          THEN UNCHANGED <<account, repayments, everApplied>> /\ Continue(c, Idle)
          ELSE /\ account' = IF balance = 0 THEN [status |-> "CLOSED", balance |-> 0]
                             ELSE [account EXCEPT !.balance = balance]
               /\ repayments' = [repayments EXCEPT ![r].applied = TRUE,
                                   ![r].over = IF repayments[r].amount > account.balance
                                               THEN repayments[r].amount - taken ELSE @]
               /\ everApplied' = everApplied \union {r}
               /\ Continue(c, Call("post", None, r, taken))
    /\ UNCHANGED <<requests, open, charged, delays, journal, everLinked>>

\* Mutant of Posted: an entry that exists is written over.
PostedAnyway(source, amount) == [journal EXCEPT ![source] = amount]

\* postIdempotent: of a source that has its entry, a no-op.
Posted(source, amount) ==
    IF journal[source] = 0 THEN [journal EXCEPT ![source] = amount] ELSE journal

\* A failure is logged; REPAYMENT_APPLIED is emitted all the same.
PostRepayment(c) ==
    /\ At(c, "post")
    /\ \/ journal' = Posted(calls[c].repayment, calls[c].amount)
       \/ UNCHANGED journal
    /\ Then(c, "applied")
    /\ UNCHANGED <<account, requests, repayments, open, charged, delays, everLinked, everApplied>>

\* raiseDispute on an APPROVED repayment, of which it reads that it is applied.
DisputeRead(c, r) ==
    /\ repayments[r].status = "APPROVED" /\ repayments[r].applied
    /\ Enter(c, Call("reverse", None, r, 0))

\* The transaction of reverseBalance.
Reverse(c) ==
    /\ At(c, "reverse")
    /\ LET r == calls[c].repayment
           balance == account.balance + repayments[r].amount - repayments[r].over
       IN IF repayments[r].applied
          THEN /\ account' = [status |-> IF balance > 0 THEN "ACTIVE" ELSE account.status,
                              balance |-> balance]
               /\ repayments' = [repayments EXCEPT ![r].applied = FALSE]
          ELSE UNCHANGED <<account, repayments>>
    /\ Then(c, "dispute")
    /\ UNCHANGED <<requests, open, charged, delays, journal, everLinked, everApplied>>

Dispute(c) ==
    /\ At(c, "dispute")
    /\ repayments' = [repayments EXCEPT ![calls[c].repayment].status = "UNDER_DISPUTE"]
    /\ Continue(c, Idle)
    /\ UNCHANGED <<account, requests, open, charged, delays, journal, everLinked, everApplied>>

ResolveRead(c, r, op) ==
    /\ repayments[r].status = "UNDER_DISPUTE"
    /\ Enter(c, Call(op, None, r, 0))

-----------------------------------------------------------------------------
(* Completion *)

\* handleRepaymentApplied: the repayment is read again, with its link.
AppliedRead(c) ==
    /\ At(c, "applied")
    /\ LET r == calls[c].repayment IN
          Continue(c, IF repayments[r].link = None THEN Idle
                      ELSE Call("check", repayments[r].link, r, 0))
    /\ UNCHANGED <<account, requests, repayments, open, charged, delays, journal, everLinked,
                   everApplied>>

\* Mutant of Covers: the amount is not compared with what is payable.
CoversAnything(r, q) == requests[q].status # "COMPLETED"

Covers(r, q) ==
    /\ requests[q].status # "COMPLETED"
    /\ repayments[r].amount >= requests[q].total

\* checkCompletion up to its transaction.
CheckRead(c) ==
    /\ At(c, "check")
    /\ IF Covers(calls[c].repayment, calls[c].request) THEN Then(c, "complete")
       ELSE Continue(c, Idle)
    /\ UNCHANGED <<account, requests, repayments, open, charged, delays, journal, everLinked,
                   everApplied>>

\* Mutant of Liquidated: the account is closed with its balance.
LiquidatedOnly == [account EXCEPT !.status = "CLOSED"]

Liquidated == [status |-> "CLOSED", balance |-> 0]

\* One transaction, unless another call has completed the request.
Complete(c) ==
    /\ At(c, "complete")
    /\ LET q == calls[c].request IN
          IF requests[q].status = "COMPLETED" THEN UNCHANGED <<account, requests>>
          ELSE /\ requests' = [requests EXCEPT ![q].status = "COMPLETED"]
               /\ account' = Liquidated
    /\ Continue(c, Idle)
    /\ UNCHANGED <<repayments, open, charged, delays, journal, everLinked, everApplied>>

-----------------------------------------------------------------------------
(* The sweep *)

\* runDailySweep: the ACTIVE accounts are read up front.
PenaltyRead(c, p) ==
    /\ account.status = "ACTIVE"
    /\ p \notin charged
    /\ Enter(c, Call("penalise", None, None, p))

\* The transaction of applyPenaltyCharge: once for a period, whatever the account
\* has become.
Penalise(c) ==
    /\ At(c, "penalise")
    /\ IF calls[c].amount \in charged
       THEN UNCHANGED <<account, charged>> /\ Continue(c, Idle)
       ELSE /\ charged' = charged \union {calls[c].amount}
            /\ account' = [account EXCEPT !.balance = @ + Penalty]
            /\ Then(c, "post_penalty")
    /\ UNCHANGED <<requests, repayments, open, delays, journal, everLinked, everApplied>>

PostPenalty(c) ==
    /\ At(c, "post_penalty")
    /\ \/ journal' = Posted(calls[c].amount, Penalty)
       \/ UNCHANGED journal
    /\ Continue(c, Idle)
    /\ UNCHANGED <<account, requests, repayments, open, charged, delays, everLinked, everApplied>>

\* runDailySweep: the APPROVED requests are read up front.
SweepRead(c, q, p) ==
    /\ requests[q].status = "APPROVED"
    /\ <<q, p>> \notin delays
    /\ Enter(c, Call("charge", q, None, p))

\* The transaction of applyLiquidationDelayCharge: once for a period, whatever
\* the request has become.
ChargeDelay(c) ==
    /\ At(c, "charge")
    /\ LET q == calls[c].request
           p == calls[c].amount
       IN IF <<q, p>> \in delays
          THEN UNCHANGED <<requests, delays>> /\ Continue(c, Idle)
          ELSE /\ delays' = delays \union {<<q, p>>}
               /\ requests' = [requests EXCEPT ![q].total = @ + Delay]
               /\ Then(c, "post_charge")
    /\ UNCHANGED <<account, repayments, open, charged, journal, everLinked, everApplied>>

PostDelay(c) ==
    /\ At(c, "post_charge")
    /\ \/ journal' = Posted(<<calls[c].request, calls[c].amount>>, Delay)
       \/ UNCHANGED journal
    /\ Continue(c, Idle)
    /\ UNCHANGED <<account, requests, repayments, open, charged, delays, everLinked, everApplied>>

-----------------------------------------------------------------------------
\* A call that dies at one of its awaits.
Abandon(c) ==
    /\ calls[c] # Idle
    /\ Continue(c, Idle)
    /\ UNCHANGED <<account, requests, repayments, open, charged, delays, journal, everLinked,
                   everApplied>>

Next ==
    \/ \E c \in Calls, q \in Requests :
          \/ InitiateRead(c, q)
          \/ \E verdict \in {"APPROVED", "REJECTED"} : DecideRequest(c, q, verdict)
          \/ \E r \in Repayments : LinkRead(c, q, r)
          \/ \E p \in Periods : SweepRead(c, q, p)
    \/ \E x \in open : Withdraw(x)
    \/ \E c \in Calls, p \in Periods : PenaltyRead(c, p)
    \/ \E c \in Calls, r \in Repayments :
          \/ \E amount \in Amounts : RecordRead(c, r, amount)
          \/ \E op \in {"approve", "reject"} : DecideRepayment(c, r, op) \/ ResolveRead(c, r, op)
          \/ DisputeRead(c, r)
    \/ \E c \in Calls :
          \/ CreateRequest(c) \/ Initiate(c) \/ WriteDecision(c) \/ Link(c)
          \/ Record(c) \/ Settle(c) \/ Apply(c) \/ PostRepayment(c)
          \/ Reverse(c) \/ Dispute(c)
          \/ AppliedRead(c) \/ CheckRead(c) \/ Complete(c)
          \/ Penalise(c) \/ PostPenalty(c) \/ ChargeDelay(c) \/ PostDelay(c)
          \/ Abandon(c)

Spec == Init /\ [][Next]_vars

-----------------------------------------------------------------------------
(* Properties *)

DelayCharges(q) == Delay * Cardinality({d \in delays : d[1] = q})

\* A request is COMPLETED only after a repayment that had been linked to it, of at
\* least the total that was payable when it was proposed, had been applied, in
\* whatever order decisions, links, charges, disputes and completions come ("A
\* short/partial linked payment does NOT complete the liquidation",
\* early-liquidation.service.ts:312).
CompletedWasPaid ==
    \A q \in Requests : requests[q].status = "COMPLETED" =>
       \E r \in everApplied : /\ <<r, q>> \in everLinked
                              /\ repayments[r].amount >= requests[q].total - DelayCharges(q)

\* An account that is CLOSED and owes nothing changes only by the reversal of an
\* applied repayment or by a penalty that the sweep had read before: no payment,
\* delay charge or other completion that is still under way moves its balance or
\* reopens it, and the penalty does not reopen it.
ClosedStaysClosed ==
    [][account.status = "CLOSED" /\ account.balance = 0 /\ account' # account =>
          \/ \E r \in Repayments : repayments[r].applied /\ ~repayments'[r].applied
          \/ charged' # charged /\ account'.status = "CLOSED"]_vars

\* The ledger is written once for what has happened: an entry, which is posted
\* after the transaction that it is about, has an applied repayment and at most
\* its amount, or a charge or penalty that was made, behind it;
\* and neither a dispute with another application, nor a race of two, adds to it
\* or rewrites it.
PostedOnce ==
    [][\A s \in DOMAIN journal : journal'[s] # journal[s] =>
          /\ journal[s] = 0
          /\ \/ s \in charged \union delays
             \/ s \in everApplied /\ journal'[s] <= repayments[s].amount]_vars

-----------------------------------------------------------------------------
\* What the reversal of a repayment would add to the balance.
Refund(r) == IF repayments[r].applied THEN repayments[r].amount - repayments[r].over ELSE 0

Ledger == INSTANCE Debt
    WITH Payments <- Repayments,
         Charges <- Periods,
         Settlements <- Requests,
         Surcharge <- Penalty,
         owed <- account.balance,
         status <- account.status,
         counted <- {r \in Repayments : repayments[r].applied},
         due <- [r \in Repayments |-> Refund(r)],
         settled <- {q \in Requests : requests[q].status = "COMPLETED"}

\* The account is the one debt of module Debt, whatever was read before a link,
\* a completion or a charge was written: each request settles the debt at most
\* once, a penalty is added once, the delay charges leave the balance alone, and
\* before and after the settlement payments, penalties and reversals count as
\* they do without one.
ImplementsDebt == Ledger!Spec
=============================================================================
