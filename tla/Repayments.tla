----------------------------- MODULE Repayments -----------------------------
(***************************************************************************)
(* Repayments of one disbursed MemberLoanAccount, their disputes, the      *)
(* penalties of the daily sweep and the completion of the loan             *)
(* (src/src/modules/repayments/repayments.service.ts,                      *)
(* penalty-sweep.service.ts and syncCompletionStatus of                    *)
(* src/src/modules/loans/loans.service.ts).                                *)
(*                                                                         *)
(* A call in flight is a slot holding the next write it will make.  The    *)
(* transactions of applyToBalance, reverseBalance and applyPenaltyCharge   *)
(* are one step each; every other write is a step of its own.  A record is *)
(* named by the (branch bank account, transaction reference) pair that its *)
(* unique index ranges over.                                               *)
(*                                                                         *)
(* Abstractions: the loan has this one account; money is a small number of *)
(* units; which installments are overdue is left open; ledger postings,    *)
(* proofs of payment, notifications and early liquidation are left out.    *)
(***************************************************************************)
EXTENDS Integers, FiniteSets, Functions

CONSTANTS
    Records,    \* bank account and transaction reference of a repayment
    Amounts,    \* what a repayment may be recorded for
    Periods,    \* (installment, periodIndex) pairs that may fall overdue
    Calls,      \* slots for calls in flight
    Opening,    \* the balance the account was disbursed with
    Penalty,    \* what one charge adds
    None        \* no record, no period

ASSUME RepaymentConstants ==
    /\ IsFiniteSet(Records)
    /\ Amounts \subseteq Nat \ {0}
    /\ Opening \in Nat \ {0}
    /\ Penalty \in Nat \ {0}
    /\ None \notin Records \union Periods

VARIABLES
    account,    \* MemberLoanAccount: status and outstandingBalanceKobo
    loan,       \* status of its Loan
    records,    \* RepaymentRecord documents
    awaiting,   \* the records whose WorkflowRequest awaits a decision
    charged,    \* PenaltyCharge documents
    calls,      \* calls in flight
    taken,      \* history: what each applied record took from the balance
    stalled     \* history: the records a call on which died half-way

vars == <<account, loan, records, awaiting, charged, calls, taken, stalled>>

-----------------------------------------------------------------------------
NoRecord == [status |-> "ABSENT", amount |-> 0, applied |-> FALSE, over |-> 0]

Call(op, r, amount, p, then) ==
    [op |-> op, record |-> r, amount |-> amount, period |-> p, then |-> then]

Idle == Call("idle", None, 0, None, "idle")

\* A call that has only its record to remember, and what follows this step.
Pending(op, r, then) == Call(op, r, 0, None, then)

Enter(c, call) ==
    /\ calls[c] = Idle
    /\ calls' = [calls EXCEPT ![c] = call]
    /\ UNCHANGED <<account, loan, records, awaiting, charged, taken, stalled>>

Continue(c, call) == calls' = [calls EXCEPT ![c] = call]

\* The call goes on to its step `then`.
After(call) == IF call.then = "idle" THEN Idle ELSE Pending(call.then, call.record, "idle")

SetStatus(r, status) == records' = [records EXCEPT ![r].status = status]

Init ==
    /\ account = [status |-> "ACTIVE", balance |-> Opening]
    /\ loan = "DISBURSED"
    /\ records = [r \in Records |-> NoRecord]
    /\ awaiting = {}
    /\ charged = {}
    /\ calls = [c \in Calls |-> Idle]
    /\ taken = [r \in Records |-> 0]
    /\ stalled = {}

-----------------------------------------------------------------------------
\* recordRepayment: the account is ACTIVE and owes at least the amount, as read.
RecordRead(c, r, amount) ==
    /\ account.status = "ACTIVE"
    /\ amount <= account.balance
    /\ Enter(c, Call("record", r, amount, None, "idle"))

\* The unique index refuses a reference that is already recorded.
RecordCommit(c) ==
    /\ calls[c].op = "record"
    /\ LET r == calls[c].record IN
          IF records[r].status = "ABSENT"
          THEN /\ records' = [records EXCEPT ![r] = [status  |-> "PENDING",
                                                     amount  |-> calls[c].amount,
                                                     applied |-> FALSE,
                                                     over    |-> 0]]
               /\ Continue(c, Pending("initiate", r, "idle"))
          ELSE UNCHANGED records /\ Continue(c, Idle)
    /\ UNCHANGED <<account, loan, awaiting, charged, taken, stalled>>

RecordInitiate(c) ==
    /\ calls[c].op = "initiate"
    /\ awaiting' = awaiting \union {calls[c].record}
    /\ Continue(c, Idle)
    /\ UNCHANGED <<account, loan, records, charged, taken, stalled>>

\* The chain decides; the call that acted emits the event after its write.
Decide(c, r, verdict) ==
    /\ calls[c] = Idle
    /\ r \in awaiting
    /\ awaiting' = awaiting \ {r}
    /\ Continue(c, Pending(IF verdict = "APPROVED" THEN "approve" ELSE "reject", r, "idle"))
    /\ UNCHANGED <<account, loan, records, charged, taken, stalled>>

\* The request is returned to its maker, cancelled or deleted: no listener of
\* this module hears of it, and nothing resubmits a repayment.
Withdraw(r) ==
    /\ r \in awaiting
    /\ awaiting' = awaiting \ {r}
    /\ UNCHANGED <<account, loan, records, charged, calls, taken, stalled>>

\* Mutant of Approve: an approved record is not applied.
ApproveOnly(c) ==
    /\ calls[c].op = "approve"
    /\ SetStatus(calls[c].record, "APPROVED")
    /\ Continue(c, Idle)
    /\ UNCHANGED <<account, loan, awaiting, charged, taken, stalled>>

\* handleWorkflowApproved, and resolveDispute with APPROVED: the status,
\* whatever it has become, then applyToBalance.
Approve(c) ==
    /\ calls[c].op = "approve"
    /\ SetStatus(calls[c].record, "APPROVED")
    /\ Continue(c, Pending("apply", calls[c].record, "idle"))
    /\ UNCHANGED <<account, loan, awaiting, charged, taken, stalled>>

\* handleWorkflowRejected, and resolveDispute with REJECTED.
Reject(c) ==
    /\ calls[c].op = "reject"
    /\ SetStatus(calls[c].record, "REJECTED")
    /\ Continue(c, Idle)
    /\ UNCHANGED <<account, loan, awaiting, charged, taken, stalled>>

-----------------------------------------------------------------------------
Lesser(a, b) == IF a < b THEN a ELSE b

\* What an application takes from the balance: never more than is owed.
Capped(r) == Lesser(records[r].amount, account.balance)

\* overpaymentAmountKobo is set when there is an excess, and otherwise kept.
Applied(r) ==
    [status  |-> records[r].status,
     amount  |-> records[r].amount,
     applied |-> TRUE,
     over    |-> IF records[r].amount > account.balance
                 THEN records[r].amount - account.balance
                 ELSE records[r].over]

Owing(balance) == [status |-> account.status, balance |-> balance]

\* The account after a payment: closed when nothing is left.
Paid(balance) ==
    IF balance = 0 THEN [status |-> "CLOSED", balance |-> 0] ELSE Owing(balance)

\* The transaction of applyToBalance, guarded by appliedToBalance.
Apply(c) ==
    /\ calls[c].op = "apply"
    /\ LET r == calls[c].record
           balance == account.balance - Capped(r)
       IN IF records[r].applied
          THEN UNCHANGED <<account, records, taken>> /\ Continue(c, Idle)
          ELSE /\ account' = Paid(balance)
               /\ records' = [records EXCEPT ![r] = Applied(r)]
               /\ taken' = [taken EXCEPT ![r] = Capped(r)]
               /\ Continue(c, IF balance = 0 THEN Pending("sync", r, "idle") ELSE Idle)
    /\ UNCHANGED <<loan, awaiting, charged, stalled>>

\* Mutant of Restored: the overpayment is forgotten.
RestoredInFull(r) == records[r].amount

\* What reverseBalance takes an application to have been.
Restored(r) == records[r].amount - records[r].over

\* Mutant of Reopened: a reversal reopens the account even with nothing owed.
ReopenedAlways(balance) == [status |-> "ACTIVE", balance |-> balance]

\* The account after a reversal: reopened if it owes again.
Reopened(balance) ==
    IF balance > 0 THEN [status |-> "ACTIVE", balance |-> balance] ELSE Owing(balance)

\* The transaction of reverseBalance, then the dispute is recorded.
Reverse(c) ==
    /\ calls[c].op = "reverse"
    /\ LET r == calls[c].record
           balance == account.balance + Restored(r)
       IN IF records[r].applied
          THEN /\ account' = Reopened(balance)
               /\ records' = [records EXCEPT ![r].applied = FALSE]
               /\ taken' = [taken EXCEPT ![r] = 0]
               /\ Continue(c, Pending(IF account.status = "CLOSED" /\ balance > 0
                                      THEN "sync" ELSE "dispute",
                                      r,
                                      IF account.status = "CLOSED" /\ balance > 0
                                      THEN "dispute" ELSE "idle"))
          ELSE UNCHANGED <<account, records, taken>> /\ Continue(c, Pending("dispute", r, "idle"))
    /\ UNCHANGED <<loan, awaiting, charged, stalled>>

-----------------------------------------------------------------------------
Disputable == {"PENDING", "APPROVED"}

\* raiseDispute: what is applied is reversed first, as read here.
DisputeRead(c, r) ==
    /\ records[r].status \in Disputable
    /\ Enter(c, Pending(IF records[r].status = "APPROVED" /\ records[r].applied
                        THEN "reverse" ELSE "dispute", r, "idle"))

Dispute(c) ==
    /\ calls[c].op = "dispute"
    /\ SetStatus(calls[c].record, "UNDER_DISPUTE")
    /\ Continue(c, Idle)
    /\ UNCHANGED <<account, loan, awaiting, charged, taken, stalled>>

\* resolveDispute: the next write is that of Approve or Reject.
ResolveRead(c, r, resolution) ==
    /\ records[r].status = "UNDER_DISPUTE"
    /\ Enter(c, Pending(resolution, r, "idle"))

-----------------------------------------------------------------------------
Completion == IF account.status = "CLOSED" THEN "CLOSED" ELSE "DISBURSED"

\* syncCompletionStatus: the status is computed from what is read here, and
\* written later if it differs from the loan's.
SyncRead(c) ==
    /\ calls[c].op = "sync"
    /\ Continue(c, IF loan = Completion THEN After(calls[c])
                   ELSE [calls[c] EXCEPT !.op = IF Completion = "CLOSED" THEN "complete"
                                                                         ELSE "reopen"])
    /\ UNCHANGED <<account, loan, records, awaiting, charged, taken, stalled>>

SyncWrite(c) ==
    /\ calls[c].op \in {"complete", "reopen"}
    /\ loan' = IF calls[c].op = "complete" THEN "CLOSED" ELSE "DISBURSED"
    /\ Continue(c, After(calls[c]))
    /\ UNCHANGED <<account, records, awaiting, charged, taken, stalled>>

-----------------------------------------------------------------------------
\* runDailySweep: the ACTIVE accounts and their charges are read up front.
SweepRead(c, p) ==
    /\ account.status = "ACTIVE"
    /\ p \notin charged
    /\ Enter(c, Call("charge", None, 0, p, "idle"))

\* The transaction of applyPenaltyCharge: once per period, whatever the
\* account's status.
Charge(c) ==
    /\ calls[c].op = "charge"
    /\ IF calls[c].period \in charged
       THEN UNCHANGED <<charged, account>>
       ELSE /\ charged' = charged \union {calls[c].period}
            /\ account' = Owing(account.balance + Penalty)
    /\ Continue(c, Idle)
    /\ UNCHANGED <<loan, records, awaiting, taken, stalled>>

\* A call that dies at one of its awaits.
Abandon(c) ==
    /\ calls[c] # Idle
    /\ calls' = [calls EXCEPT ![c] = Idle]
    /\ stalled' = stalled \union ({calls[c].record} \intersect Records)
    /\ UNCHANGED <<account, loan, records, awaiting, charged, taken>>

Next ==
    \/ \E c \in Calls, r \in Records, amount \in Amounts : RecordRead(c, r, amount)
    \/ \E c \in Calls : RecordCommit(c)
    \/ \E c \in Calls : RecordInitiate(c)
    \/ \E c \in Calls, r \in Records, v \in {"APPROVED", "REJECTED"} : Decide(c, r, v)
    \/ \E r \in Records : Withdraw(r)
    \/ \E c \in Calls : Approve(c)
    \/ \E c \in Calls : Reject(c)
    \/ \E c \in Calls : Apply(c)
    \/ \E c \in Calls : Reverse(c)
    \/ \E c \in Calls, r \in Records : DisputeRead(c, r)
    \/ \E c \in Calls : Dispute(c)
    \/ \E c \in Calls, r \in Records, v \in {"approve", "reject"} : ResolveRead(c, r, v)
    \/ \E c \in Calls : SyncRead(c)
    \/ \E c \in Calls : SyncWrite(c)
    \/ \E c \in Calls, p \in Periods : SweepRead(c, p)
    \/ \E c \in Calls : Charge(c)
    \/ \E c \in Calls : Abandon(c)

Spec == Init /\ [][Next]_vars

-----------------------------------------------------------------------------
\* No account is paid below zero, whatever was recorded against one balance,
\* and one that owes nothing is CLOSED: neither a payment nor the reversal of
\* another leaves it ACTIVE with nothing to collect.
SettledIsClosed ==
    /\ account.balance >= 0
    /\ account.balance = 0 => account.status = "CLOSED"

\* No call on the record is in flight and none has died.
AtRest(r) == r \notin stalled /\ \A c \in Calls : calls[c].record # r

\* However approvals, disputes and resolutions interleave, an APPROVED record
\* that no call is working on has been applied to the balance.
RestingApprovedIsApplied ==
    \A r \in Records : AtRest(r) /\ records[r].status = "APPROVED" => records[r].applied

Charges == SumFunction([p \in charged |-> Penalty])

\* No application is counted twice and no reversal gives back more than was
\* taken: the borrower never owes more than the opening balance and the
\* penalties, less what the applied repayments took.
DebtNeverInflated == account.balance + SumFunction(taken) <= Opening + Charges

\* What the reversal of a record would add to the balance.
Refund(r) == IF records[r].applied THEN Restored(r) ELSE 0

Ledger == INSTANCE Debt
    WITH Payments <- Records,
         Charges <- Periods,
         Settlements <- {},
         Surcharge <- Penalty,
         owed <- account.balance,
         status <- account.status,
         counted <- {r \in Records : records[r].applied},
         due <- [r \in Records |-> Refund(r)],
         settled <- {}

\* With all its stale reads, disputes, sweeps and dying calls the account is the
\* one debt of module Debt: a repayment counts once until it is reversed, never
\* takes more than is owed and closes the account with the last of it, its
\* reversal returns no more than it took and reopens the account that owes
\* again, and a period is charged once.
ImplementsDebt == Ledger!Spec
=============================================================================
