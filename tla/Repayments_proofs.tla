-------------------------- MODULE Repayments_proofs ---------------------------
(***************************************************************************)
(* Theorems about what a borrower owes and who the borrower is: repayments *)
(* (Repayments), for every set of repayments, amounts, periods and calls   *)
(* in flight; and the records of customers (Customers), for every number   *)
(* of customers, requests and calls.                                       *)
(***************************************************************************)
EXTENDS Repayments, Customers, SumTheorems, TLAPS

Statuses == {"ABSENT", "PENDING", "APPROVED", "REJECTED", "UNDER_DISPUTE"}

Ops == {"idle", "record", "initiate", "approve", "reject", "apply", "reverse", "dispute",
        "sync", "complete", "reopen", "charge"}

RecordType == [status : Statuses, amount : Nat, applied : BOOLEAN, over : Nat]

CallType == [op : Ops, record : Records \union {None}, amount : Nat,
             period : Periods \union {None}, then : {"idle", "dispute"}]

\* The steps of a call that write to its record.
OnRecord == {"record", "initiate", "approve", "reject", "apply", "reverse", "dispute"}

\* A call that writes to a record, now or later, has one.
Placed(call) ==
    call.op \in OnRecord \/ call.then = "dispute" => call.record \in Records

TypeInv ==
    /\ account \in [status : {"ACTIVE", "CLOSED"}, balance : Nat]
    /\ records \in [Records -> RecordType]
    /\ calls \in [Calls -> CallType]
    /\ \A c \in Calls : Placed(calls[c])

\* An overpayment is a part of its payment, so that no reversal takes from the
\* balance.
OverWithinAmount == \A r \in Records : records[r].over <= records[r].amount

\* A call that will apply its record, or take it out of APPROVED.
Attends(call) ==
    \/ call.op \in {"apply", "dispute"}
    \/ call.op \in {"sync", "complete", "reopen"} /\ call.then = "dispute"

\* An approved record that is not applied is attended to, unless a call died.
ApprovedIsAttended ==
    \A r \in Records :
        records[r].status = "APPROVED" /\ ~records[r].applied /\ r \notin stalled
          => \E c \in Calls : calls[c].record = r /\ Attends(calls[c])

IInv ==
    /\ TypeInv
    /\ OverWithinAmount
    /\ SettledIsClosed
    /\ ApprovedIsAttended

-----------------------------------------------------------------------------
LEMMA CallTypes ==
    ASSUME NEW op \in Ops, NEW r \in Records \union {None}, NEW then \in {"idle", "dispute"}
    PROVE  Pending(op, r, then) \in CallType /\ Idle \in CallType
BY DEF Pending, Idle, Call, CallType, Ops

\* A call with a record is placed, whatever it does.
LEMMA RecordPlaces ==
    \A call \in CallType : call.record \in Records => Placed(call)
BY DEF Placed

\* The call that follows a step has a type, and attends if the step did.
LEMMA AfterTypes ==
    ASSUME NEW call \in CallType
    PROVE  /\ After(call) \in CallType
           /\ Placed(call) => Placed(After(call))
           /\ call.then = "dispute" => After(call).op = "dispute" /\ After(call).record = call.record
BY DEF After, Pending, Idle, Call, CallType, Ops, OnRecord, Placed

\* What a record or a call is stays what it is when one of its kind is written.
LEMMA RecordKept ==
    ASSUME TypeInv, NEW r \in Records, NEW rec \in RecordType
    PROVE  /\ [records EXCEPT ![r] = rec] \in [Records -> RecordType]
           /\ [records EXCEPT ![r] = rec][r] = rec
           /\ \A q \in Records \ {r} : [records EXCEPT ![r] = rec][q] = records[q]
BY DEF TypeInv

-----------------------------------------------------------------------------
\* The arithmetic of one application: the balance stays a natural number, and
\* what was overpaid is a part of the payment.
LEMMA ApplicationBounds ==
    ASSUME IInv, NEW r \in Records
    PROVE  /\ account.balance - Capped(r) \in Nat
           /\ Paid(account.balance - Capped(r)) \in [status : {"ACTIVE", "CLOSED"}, balance : Nat]
           /\ Paid(account.balance - Capped(r)).balance = 0
                => Paid(account.balance - Capped(r)).status = "CLOSED"
           /\ Applied(r) \in RecordType
           /\ Applied(r).over <= Applied(r).amount
           /\ Applied(r).applied
<1>1. account.balance \in Nat /\ account.status \in {"ACTIVE", "CLOSED"}
  BY DEF IInv, TypeInv
<1>2. records[r] \in RecordType /\ records[r].over <= records[r].amount
  BY DEF IInv, TypeInv, OverWithinAmount
<1>3. account.balance - Capped(r) \in Nat
  BY <1>1, <1>2 DEF Capped, Lesser, RecordType
<1>4. Applied(r) \in RecordType /\ Applied(r).over <= Applied(r).amount /\ Applied(r).applied
  BY <1>1, <1>2 DEF Applied, RecordType
<1>. QED  BY <1>1, <1>3, <1>4 DEF Paid, Owing

\* The arithmetic of one reversal: an account that owes again is reopened, and
\* one that does not was closed before.
LEMMA ReversalBounds ==
    ASSUME IInv, NEW r \in Records
    PROVE  /\ Reopened(account.balance + Restored(r))
                 \in [status : {"ACTIVE", "CLOSED"}, balance : Nat]
           /\ Reopened(account.balance + Restored(r)).balance = 0
                => Reopened(account.balance + Restored(r)).status = "CLOSED"
<1>1. /\ account.balance \in Nat /\ account.status \in {"ACTIVE", "CLOSED"}
      /\ account.balance = 0 => account.status = "CLOSED"
  BY DEF IInv, TypeInv, SettledIsClosed
<1>2. records[r] \in RecordType /\ records[r].over <= records[r].amount
  BY DEF IInv, TypeInv, OverWithinAmount
<1>3. Restored(r) \in Nat
  BY <1>2 DEF Restored, RecordType
<1>4. account.balance + Restored(r) \in Nat
      /\ (account.balance + Restored(r) = 0 => account.balance = 0)
  BY <1>1, <1>3
<1>. QED  BY <1>1, <1>4 DEF Reopened, Owing

-----------------------------------------------------------------------------
\* A step that gives slot c a call on the same record, that attends if the old
\* one did, and leaves records and stalled alone, leaves nobody unattended.
LEMMA StillAttended ==
    ASSUME IInv, NEW c \in Calls, NEW k \in CallType,
           calls' = [calls EXCEPT ![c] = k],
           UNCHANGED <<records, stalled>>,
           Attends(calls[c]) => Attends(k) /\ k.record = calls[c].record
    PROVE  ApprovedIsAttended'
<1>. SUFFICES ASSUME NEW r \in Records, records[r].status = "APPROVED",
                     ~records[r].applied, r \notin stalled
              PROVE  \E d \in Calls : calls'[d].record = r /\ Attends(calls'[d])
  BY DEF ApprovedIsAttended
<1>1. PICK d \in Calls : calls[d].record = r /\ Attends(calls[d])
  BY DEF IInv, ApprovedIsAttended
<1>2. calls'[d] = IF d = c THEN k ELSE calls[d]
  BY DEF IInv, TypeInv
<1>3. calls'[d].record = r /\ Attends(calls'[d])
  BY <1>1, <1>2
<1>. QED  BY <1>3

\* The same for a step that also writes the record r of its call, if r is then
\* applied, or not approved, or attended to by the call itself.
LEMMA AttendedElsewhere ==
    ASSUME IInv, NEW c \in Calls, NEW k \in CallType, NEW r \in Records,
           NEW rec \in RecordType,
           calls[c].record = r,
           calls' = [calls EXCEPT ![c] = k],
           records' = [records EXCEPT ![r] = rec],
           UNCHANGED stalled,
           \/ rec.applied
           \/ rec.status # "APPROVED"
           \/ k.record = r /\ Attends(k)
    PROVE  ApprovedIsAttended'
<1>. SUFFICES ASSUME NEW q \in Records, records'[q].status = "APPROVED",
                     ~records'[q].applied, q \notin stalled
              PROVE  \E d \in Calls : calls'[d].record = q /\ Attends(calls'[d])
  BY DEF ApprovedIsAttended
<1>1. calls'[c] = k /\ \A d \in Calls \ {c} : calls'[d] = calls[d]
  BY DEF IInv, TypeInv
<1>2. CASE q = r
  <2>1. records'[q] = rec
    BY <1>2 DEF IInv, TypeInv
  <2>. QED  BY <1>1, <1>2, <2>1
<1>3. CASE q # r
  <2>1. records'[q] = records[q]
    BY <1>3 DEF IInv, TypeInv
  <2>2. PICK d \in Calls : calls[d].record = q /\ Attends(calls[d])
    BY <2>1 DEF IInv, ApprovedIsAttended
  <2>3. d # c
    BY <1>3, <2>2
  <2>. QED  BY <1>1, <2>2, <2>3
<1>. QED  BY <1>2, <1>3

-----------------------------------------------------------------------------
\* A call that goes on to k keeps the calls typed.
LEMMA CallsTyped ==
    ASSUME TypeInv, NEW c \in Calls, NEW k \in CallType,
           Placed(k),
           calls' = [calls EXCEPT ![c] = k]
    PROVE  /\ calls' \in [Calls -> CallType]
           /\ \A d \in Calls : Placed(calls'[d])
<1>1. calls' \in [Calls -> CallType]
  BY DEF TypeInv
<1>2. \A d \in Calls : calls'[d] = IF d = c THEN k ELSE calls[d]
  BY DEF TypeInv
<1>. QED  BY <1>1, <1>2 DEF TypeInv

\* The steps of one call that touch neither records nor account.
LEMMA QuietStep ==
    ASSUME IInv, NEW c \in Calls, NEW k \in CallType,
           Placed(k),
           calls' = [calls EXCEPT ![c] = k],
           UNCHANGED <<account, records, stalled>>,
           Attends(calls[c]) => Attends(k) /\ k.record = calls[c].record
    PROVE  IInv'
<1>1. TypeInv'
  BY CallsTyped DEF IInv, TypeInv
<1>2. OverWithinAmount' /\ SettledIsClosed'
  BY DEF IInv, OverWithinAmount, SettledIsClosed
<1>3. ApprovedIsAttended'
  BY StillAttended
<1>. QED  BY <1>1, <1>2, <1>3 DEF IInv

\* A call that enters a free slot.
LEMMA EnterStep ==
    ASSUME IInv, NEW c \in Calls, NEW k \in CallType,
           Placed(k),
           Enter(c, k)
    PROVE  IInv'
<1>1. ~Attends(calls[c])
  BY DEF Enter, Attends, Idle, Call
<1>. QED  BY <1>1, QuietStep DEF Enter

\* The steps that write the record of their call and leave the account alone.
LEMMA RecordStep ==
    ASSUME IInv, NEW c \in Calls, NEW k \in CallType, NEW rec \in RecordType,
           calls[c].record \in Records,
           Placed(k),
           calls' = [calls EXCEPT ![c] = k],
           records' = [records EXCEPT ![calls[c].record] = rec],
           rec.over <= rec.amount,
           UNCHANGED <<account, stalled>>,
           \/ rec.applied
           \/ rec.status # "APPROVED"
           \/ k.record = calls[c].record /\ Attends(k)
    PROVE  IInv'
<1>. DEFINE r == calls[c].record
<1>1. TypeInv'
  BY CallsTyped, RecordKept DEF IInv, TypeInv
<1>2. OverWithinAmount'
  BY RecordKept DEF IInv, OverWithinAmount
<1>3. SettledIsClosed'
  BY DEF IInv, SettledIsClosed
<1>4. ApprovedIsAttended'
  BY AttendedElsewhere
<1>. QED  BY <1>1, <1>2, <1>3, <1>4 DEF IInv

\* A record whose status alone is written keeps its type and its overpayment.
LEMMA StatusWritten ==
    ASSUME IInv, NEW r \in Records, NEW status \in Statuses
    PROVE  /\ [records[r] EXCEPT !.status = status] \in RecordType
           /\ [records[r] EXCEPT !.status = status].status = status
           /\ [records[r] EXCEPT !.status = status].over
                <= [records[r] EXCEPT !.status = status].amount
BY DEF IInv, TypeInv, OverWithinAmount, RecordType

\* The transaction of an application or a reversal.
LEMMA BalanceStep ==
    ASSUME IInv, NEW c \in Calls, NEW k \in CallType, NEW rec \in RecordType,
           calls[c].record \in Records,
           Placed(k),
           calls' = [calls EXCEPT ![c] = k],
           records' = [records EXCEPT ![calls[c].record] = rec],
           rec.over <= rec.amount,
           account' \in [status : {"ACTIVE", "CLOSED"}, balance : Nat],
           account'.balance = 0 => account'.status = "CLOSED",
           UNCHANGED stalled,
           rec.applied \/ (k.record = calls[c].record /\ Attends(k))
    PROVE  IInv'
<1>1. TypeInv'
  BY CallsTyped, RecordKept DEF IInv, TypeInv
<1>2. OverWithinAmount'
  BY RecordKept DEF IInv, OverWithinAmount
<1>3. SettledIsClosed'
  BY DEF SettledIsClosed
<1>4. ApprovedIsAttended'
  BY AttendedElsewhere
<1>. QED  BY <1>1, <1>2, <1>3, <1>4 DEF IInv

-----------------------------------------------------------------------------
LEMMA InitInv == Init => IInv
<1>. SUFFICES ASSUME Init PROVE IInv
  OBVIOUS
<1>1. Idle \in CallType /\ Placed(Idle)
  BY DEF Idle, Call, CallType, Ops, OnRecord, Placed
<1>2. NoRecord \in RecordType /\ NoRecord.status = "ABSENT" /\ NoRecord.over <= NoRecord.amount
  BY DEF NoRecord, RecordType, Statuses
<1>3. TypeInv
  BY <1>1, <1>2, RepaymentConstants DEF Init, TypeInv
<1>4. OverWithinAmount /\ ApprovedIsAttended
  BY <1>2 DEF Init, OverWithinAmount, ApprovedIsAttended
<1>5. SettledIsClosed
  BY RepaymentConstants DEF Init, SettledIsClosed
<1>. QED  BY <1>3, <1>4, <1>5 DEF IInv

LEMMA ApplyInv ==
    ASSUME IInv, NEW c \in Calls, Apply(c)
    PROVE  IInv'
<1>. DEFINE r == calls[c].record
<1>1. r \in Records
  BY DEF Apply, IInv, TypeInv, OnRecord, Placed
<1>2. Idle \in CallType /\ Placed(Idle)
  BY DEF Idle, Call, CallType, Ops, OnRecord, Placed
<1>3. Pending("sync", r, "idle") \in CallType /\ Placed(Pending("sync", r, "idle"))
  BY <1>1, CallTypes DEF Pending, Call, Ops, OnRecord, Placed
<1>4. CASE records[r].applied
  <2>1. calls' = [calls EXCEPT ![c] = Idle] /\ UNCHANGED <<account, records, stalled>>
    BY <1>4 DEF Apply, Continue
  <2>2. TypeInv'
    BY <1>2, <2>1, CallsTyped DEF IInv, TypeInv
  <2>3. OverWithinAmount' /\ SettledIsClosed'
    BY <2>1 DEF IInv, OverWithinAmount, SettledIsClosed
  <2>4. records' = [records EXCEPT ![r] = records[r]] /\ records[r] \in RecordType
    BY <1>1, <2>1 DEF IInv, TypeInv
  <2>5. ApprovedIsAttended'
    BY <1>1, <1>2, <1>4, <2>1, <2>4, AttendedElsewhere
  <2>. QED  BY <2>2, <2>3, <2>5 DEF IInv
<1>5. CASE ~records[r].applied
  <2>. DEFINE k == IF account.balance - Capped(r) = 0 THEN Pending("sync", r, "idle") ELSE Idle
  <2>1. /\ calls' = [calls EXCEPT ![c] = k]
        /\ records' = [records EXCEPT ![r] = Applied(r)]
        /\ account' = Paid(account.balance - Capped(r))
        /\ UNCHANGED stalled
    BY <1>5 DEF Apply, Continue
  <2>2. k \in CallType /\ Placed(k)
    BY <1>2, <1>3
  <2>. QED  BY <1>1, <2>1, <2>2, ApplicationBounds, BalanceStep
<1>. QED  BY <1>4, <1>5

LEMMA ReverseInv ==
    ASSUME IInv, NEW c \in Calls, Reverse(c)
    PROVE  IInv'
<1>. DEFINE r == calls[c].record
<1>1. r \in Records
  BY DEF Reverse, IInv, TypeInv, OnRecord, Placed
<1>2. /\ Pending("dispute", r, "idle") \in CallType
      /\ Pending("dispute", r, "idle").record = r
      /\ Attends(Pending("dispute", r, "idle"))
  BY <1>1, CallTypes DEF Pending, Call, Ops, Attends
<1>3. /\ Pending("sync", r, "dispute") \in CallType
      /\ Pending("sync", r, "dispute").record = r
      /\ Attends(Pending("sync", r, "dispute"))
  BY <1>1, CallTypes DEF Pending, Call, Ops, Attends
<1>4. CASE records[r].applied
  <2>. DEFINE rec == [records[r] EXCEPT !.applied = FALSE]
              k == Pending(IF account.status = "CLOSED" /\ account.balance + Restored(r) > 0
                           THEN "sync" ELSE "dispute", r,
                           IF account.status = "CLOSED" /\ account.balance + Restored(r) > 0
                           THEN "dispute" ELSE "idle")
  <2>1. /\ calls' = [calls EXCEPT ![c] = k]
        /\ records' = [records EXCEPT ![r].applied = FALSE]
        /\ account' = Reopened(account.balance + Restored(r))
        /\ UNCHANGED stalled
    BY <1>4 DEF Reverse, Continue
  <2>2. records' = [records EXCEPT ![r] = rec]
    BY <1>1, <2>1 DEF IInv, TypeInv
  <2>3. rec \in RecordType /\ rec.over <= rec.amount
    BY <1>1 DEF IInv, TypeInv, OverWithinAmount, RecordType
  <2>4. k \in CallType /\ k.record = r /\ Attends(k)
    BY <1>2, <1>3
  <2>. QED  BY RecordPlaces, <1>1, <2>1, <2>2, <2>3, <2>4, ReversalBounds, BalanceStep
<1>5. CASE ~records[r].applied
  <2>1. /\ calls' = [calls EXCEPT ![c] = Pending("dispute", r, "idle")]
        /\ UNCHANGED <<account, records, stalled>>
    BY <1>5 DEF Reverse, Continue
  <2>. QED  BY RecordPlaces, <1>1, <1>2, <2>1, QuietStep
<1>. QED  BY <1>4, <1>5

\* recordRepayment inserts a record that nobody has applied or approved.
LEMMA RecordCommitInv ==
    ASSUME IInv, NEW c \in Calls, RecordCommit(c)
    PROVE  IInv'
<1>. DEFINE r == calls[c].record
            rec == [status |-> "PENDING", amount |-> calls[c].amount,
                    applied |-> FALSE, over |-> 0]
<1>1. r \in Records /\ calls[c].amount \in Nat /\ ~Attends(calls[c])
  BY DEF RecordCommit, IInv, TypeInv, OnRecord, Placed, CallType, Attends
<1>2. Idle \in CallType /\ Placed(Idle)
  BY DEF Idle, Call, CallType, Ops, OnRecord, Placed
<1>3. Pending("initiate", r, "idle") \in CallType /\ Pending("initiate", r, "idle").record = r
  BY <1>1, CallTypes DEF Pending, Call, Ops
<1>4. CASE records[r].status = "ABSENT"
  <2>1. /\ calls' = [calls EXCEPT ![c] = Pending("initiate", r, "idle")]
        /\ records' = [records EXCEPT ![r] = rec]
        /\ UNCHANGED <<account, stalled>>
    BY <1>4 DEF RecordCommit, Continue
  <2>2. rec \in RecordType /\ rec.over <= rec.amount /\ rec.status # "APPROVED"
    BY <1>1 DEF RecordType, Statuses
  <2>. QED  BY RecordPlaces, <1>1, <1>3, <2>1, <2>2, RecordStep
<1>5. CASE records[r].status # "ABSENT"
  <2>1. calls' = [calls EXCEPT ![c] = Idle] /\ UNCHANGED <<account, records, stalled>>
    BY <1>5 DEF RecordCommit, Continue
  <2>. QED  BY <1>1, <1>2, <2>1, QuietStep
<1>. QED  BY <1>4, <1>5

\* handleWorkflowApproved, handleWorkflowRejected and the end of raiseDispute.
LEMMA StatusInv ==
    ASSUME IInv, NEW c \in Calls, Approve(c) \/ Reject(c) \/ Dispute(c)
    PROVE  IInv'
<1>. DEFINE r == calls[c].record
<1>1. r \in Records
  BY DEF Approve, Reject, Dispute, IInv, TypeInv, OnRecord, Placed
<1>2. Idle \in CallType /\ Placed(Idle)
  BY DEF Idle, Call, CallType, Ops, OnRecord, Placed
<1>3. /\ Pending("apply", r, "idle") \in CallType
      /\ Pending("apply", r, "idle").record = r
      /\ Attends(Pending("apply", r, "idle"))
  BY <1>1, CallTypes DEF Pending, Call, Ops, Attends
<1>4. CASE Approve(c)
  <2>. DEFINE rec == [records[r] EXCEPT !.status = "APPROVED"]
  <2>1. /\ calls' = [calls EXCEPT ![c] = Pending("apply", r, "idle")]
        /\ records' = [records EXCEPT ![r] = rec]
        /\ UNCHANGED <<account, stalled>>
    BY <1>1, <1>4 DEF Approve, SetStatus, Continue, IInv, TypeInv
  <2>2. rec \in RecordType /\ rec.over <= rec.amount
    BY <1>1, StatusWritten DEF Statuses
  <2>. QED  BY RecordPlaces, <1>1, <1>3, <2>1, <2>2, RecordStep
<1>5. CASE Reject(c)
  <2>. DEFINE rec == [records[r] EXCEPT !.status = "REJECTED"]
  <2>1. /\ calls' = [calls EXCEPT ![c] = Idle]
        /\ records' = [records EXCEPT ![r] = rec]
        /\ UNCHANGED <<account, stalled>>
    BY <1>1, <1>5 DEF Reject, SetStatus, Continue, IInv, TypeInv
  <2>2. rec \in RecordType /\ rec.over <= rec.amount /\ rec.status # "APPROVED"
    BY <1>1, StatusWritten DEF Statuses
  <2>. QED  BY <1>1, <1>2, <2>1, <2>2, RecordStep
<1>6. CASE Dispute(c)
  <2>. DEFINE rec == [records[r] EXCEPT !.status = "UNDER_DISPUTE"]
  <2>1. /\ calls' = [calls EXCEPT ![c] = Idle]
        /\ records' = [records EXCEPT ![r] = rec]
        /\ UNCHANGED <<account, stalled>>
    BY <1>1, <1>6 DEF Dispute, SetStatus, Continue, IInv, TypeInv
  <2>2. rec \in RecordType /\ rec.over <= rec.amount /\ rec.status # "APPROVED"
    BY <1>1, StatusWritten DEF Statuses
  <2>. QED  BY <1>1, <1>2, <2>1, <2>2, RecordStep
<1>. QED  BY <1>4, <1>5, <1>6

\* The steps that begin a call, and the engine's own.
LEMMA BeginInv ==
    ASSUME IInv,
           \/ \E c \in Calls, r \in Records, amount \in Amounts : RecordRead(c, r, amount)
           \/ \E c \in Calls, r \in Records, v \in {"APPROVED", "REJECTED"} : Decide(c, r, v)
           \/ \E r \in Records : Withdraw(r)
           \/ \E c \in Calls, r \in Records : DisputeRead(c, r)
           \/ \E c \in Calls, r \in Records, v \in {"approve", "reject"} : ResolveRead(c, r, v)
           \/ \E c \in Calls, p \in Periods : SweepRead(c, p)
    PROVE  IInv'
<1>1. ASSUME NEW c \in Calls, NEW r \in Records, NEW amount \in Amounts,
             RecordRead(c, r, amount)
      PROVE  IInv'
  <2>1. Call("record", r, amount, None, "idle") \in CallType
    BY RepaymentConstants DEF Call, CallType, Ops
  <2>2. Call("record", r, amount, None, "idle").record = r
    BY DEF Call
  <2>. QED  BY RecordPlaces, <1>1, <2>1, <2>2, EnterStep DEF RecordRead
<1>2. ASSUME NEW c \in Calls, NEW r \in Records, NEW v \in {"APPROVED", "REJECTED"},
             Decide(c, r, v)
      PROVE  IInv'
  <2>. DEFINE k == Pending(IF v = "APPROVED" THEN "approve" ELSE "reject", r, "idle")
  <2>1. k \in CallType /\ k.record = r
    BY CallTypes DEF Pending, Call, Ops
  <2>2. calls' = [calls EXCEPT ![c] = k] /\ UNCHANGED <<account, records, stalled>>
    BY <1>2 DEF Decide, Continue
  <2>3. ~Attends(calls[c])
    BY <1>2 DEF Decide, Attends, Idle, Call
  <2>. QED  BY RecordPlaces, <2>1, <2>2, <2>3, QuietStep
<1>3. ASSUME NEW r \in Records, Withdraw(r)
      PROVE  IInv'
  BY <1>3 DEF Withdraw, IInv, TypeInv, OverWithinAmount, SettledIsClosed, ApprovedIsAttended
<1>4. ASSUME NEW c \in Calls, NEW r \in Records, DisputeRead(c, r)
      PROVE  IInv'
  <2>. DEFINE k == Pending(IF records[r].status = "APPROVED" /\ records[r].applied
                           THEN "reverse" ELSE "dispute", r, "idle")
  <2>1. k \in CallType /\ k.record = r
    BY CallTypes DEF Pending, Call, Ops
  <2>. QED  BY RecordPlaces, <1>4, <2>1, EnterStep DEF DisputeRead
<1>5. ASSUME NEW c \in Calls, NEW r \in Records, NEW v \in {"approve", "reject"},
             ResolveRead(c, r, v)
      PROVE  IInv'
  <2>1. Pending(v, r, "idle") \in CallType /\ Pending(v, r, "idle").record = r
    BY CallTypes DEF Pending, Call, Ops
  <2>. QED  BY RecordPlaces, <1>5, <2>1, EnterStep DEF ResolveRead
<1>6. ASSUME NEW c \in Calls, NEW p \in Periods, SweepRead(c, p)
      PROVE  IInv'
  <2>1. /\ Call("charge", None, 0, p, "idle") \in CallType
        /\ Placed(Call("charge", None, 0, p, "idle"))
    BY DEF Call, CallType, Ops, OnRecord, Placed
  <2>. QED  BY <1>6, <2>1, EnterStep DEF SweepRead
<1>. QED  BY <1>1, <1>2, <1>3, <1>4, <1>5, <1>6

\* The steps of syncCompletionStatus keep what the call still has to do.
LEMMA SyncInv ==
    ASSUME IInv, NEW c \in Calls, SyncRead(c) \/ SyncWrite(c)
    PROVE  IInv'
<1>. DEFINE next == After(calls[c])
<1>1. /\ calls[c] \in CallType
      /\ Placed(calls[c])
      /\ calls[c].op \in {"sync", "complete", "reopen"}
  BY DEF IInv, TypeInv, SyncRead, SyncWrite
<1>2. /\ next \in CallType
      /\ Placed(next)
      /\ Attends(calls[c]) => Attends(next) /\ next.record = calls[c].record
  BY <1>1, AfterTypes DEF Attends
<1>3. CASE calls' = [calls EXCEPT ![c] = next] /\ UNCHANGED <<account, records, stalled>>
  BY <1>2, <1>3, QuietStep
<1>4. ASSUME NEW op \in {"complete", "reopen"},
             calls' = [calls EXCEPT ![c] = [calls[c] EXCEPT !.op = op]],
             UNCHANGED <<account, records, stalled>>
      PROVE  IInv'
  <2>. DEFINE k == [calls[c] EXCEPT !.op = op]
  <2>1. k \in CallType /\ k.op = op /\ k.record = calls[c].record /\ k.then = calls[c].then
    BY <1>1 DEF CallType, Ops
  <2>2. Placed(k) /\ (Attends(calls[c]) => Attends(k))
    BY <1>1, <2>1 DEF Placed, Attends, OnRecord
  <2>. QED  BY <1>4, <2>1, <2>2, QuietStep
<1>5. CASE SyncRead(c)
  <2>1. CASE loan = Completion
    BY <1>3, <1>5, <2>1 DEF SyncRead, Continue
  <2>2. CASE loan # Completion
    <3>. DEFINE op == IF Completion = "CLOSED" THEN "complete" ELSE "reopen"
    <3>1. /\ calls' = [calls EXCEPT ![c] = [calls[c] EXCEPT !.op = op]]
          /\ UNCHANGED <<account, records, stalled>>
      BY <1>5, <2>2 DEF SyncRead, Continue
    <3>2. op \in {"complete", "reopen"}
      OBVIOUS
    <3>. HIDE DEF op
    <3>. QED  BY <1>4, <3>1, <3>2
  <2>. QED  BY <2>1, <2>2
<1>6. CASE SyncWrite(c)
  BY <1>3, <1>6 DEF SyncWrite, Continue
<1>. QED  BY <1>5, <1>6

\* A charge raises the balance, so that the account owes something.
LEMMA ChargeInv ==
    ASSUME IInv, NEW c \in Calls, Charge(c)
    PROVE  IInv'
<1>1. Idle \in CallType /\ Placed(Idle)
  BY DEF Idle, Call, CallType, Ops, OnRecord, Placed
<1>2. calls' = [calls EXCEPT ![c] = Idle] /\ UNCHANGED <<records, stalled>>
  BY DEF Charge, Continue
<1>3. account' = account \/ account' = Owing(account.balance + Penalty)
  BY DEF Charge
<1>4. /\ account' \in [status : {"ACTIVE", "CLOSED"}, balance : Nat]
      /\ account'.balance = 0 => account'.status = "CLOSED"
  BY <1>3, RepaymentConstants DEF IInv, TypeInv, SettledIsClosed, Owing
<1>5. TypeInv'
  BY <1>1, <1>2, <1>4, CallsTyped DEF IInv, TypeInv
<1>6. OverWithinAmount' /\ SettledIsClosed'
  BY <1>2, <1>4 DEF IInv, OverWithinAmount, SettledIsClosed
<1>7. ~Attends(calls[c])
  BY DEF Charge, Attends
<1>8. ApprovedIsAttended'
  BY <1>1, <1>2, <1>7, StillAttended
<1>. QED  BY <1>5, <1>6, <1>8 DEF IInv

\* A call that dies leaves its record to nobody, and is remembered for it.
LEMMA AbandonInv ==
    ASSUME IInv, NEW c \in Calls, Abandon(c)
    PROVE  IInv'
<1>1. Idle \in CallType /\ Placed(Idle)
  BY DEF Idle, Call, CallType, Ops, OnRecord, Placed
<1>2. /\ calls' = [calls EXCEPT ![c] = Idle]
      /\ stalled' = stalled \union ({calls[c].record} \intersect Records)
      /\ UNCHANGED <<account, records>>
  BY DEF Abandon
<1>3. TypeInv' /\ OverWithinAmount' /\ SettledIsClosed'
  BY <1>1, <1>2, CallsTyped DEF IInv, TypeInv, OverWithinAmount, SettledIsClosed
<1>4. ApprovedIsAttended'
  <2>. SUFFICES ASSUME NEW r \in Records, records[r].status = "APPROVED",
                       ~records[r].applied, r \notin stalled'
                PROVE  \E d \in Calls : calls'[d].record = r /\ Attends(calls'[d])
    BY <1>2 DEF ApprovedIsAttended
  <2>1. PICK d \in Calls : calls[d].record = r /\ Attends(calls[d])
    BY <1>2 DEF IInv, ApprovedIsAttended
  <2>2. d # c
    BY <1>2, <2>1
  <2>. QED  BY <1>2, <2>1, <2>2 DEF IInv, TypeInv
<1>. QED  BY <1>3, <1>4 DEF IInv

LEMMA NextInv == IInv /\ [Next]_vars => IInv'
<1>. SUFFICES ASSUME IInv, [Next]_vars PROVE IInv'
  OBVIOUS
<1>1. CASE UNCHANGED vars
  BY <1>1 DEF vars, IInv, TypeInv, OverWithinAmount, SettledIsClosed, ApprovedIsAttended
<1>2. ASSUME NEW c \in Calls, RecordInitiate(c)
      PROVE  IInv'
  <2>1. Idle \in CallType /\ Placed(Idle)
    BY DEF Idle, Call, CallType, Ops, OnRecord, Placed
  <2>2. ~Attends(calls[c])
    BY <1>2 DEF RecordInitiate, Attends
  <2>. QED  BY <1>2, <2>1, <2>2, QuietStep DEF RecordInitiate, Continue
<1>3. CASE Next
  BY <1>2, <1>3, BeginInv, RecordCommitInv, StatusInv, ApplyInv, ReverseInv, SyncInv,
     ChargeInv, AbandonInv DEF Next
<1>. QED  BY <1>1, <1>3

LEMMA SpecInv == Spec => []IInv
<1>1. Init => IInv
  BY InitInv
<1>2. IInv /\ [Next]_vars => IInv'
  BY NextInv
<1>. QED  BY <1>1, <1>2, PTL DEF Spec

-----------------------------------------------------------------------------
(* The debt.  What a reversal gives back is at most what the application     *)
(* took: an excess that was recorded is a part of it, and one recorded for   *)
(* an earlier application only makes it less.                                *)

LedgerInv ==
    /\ taken \in [Records -> Nat]
    /\ charged \subseteq Periods /\ IsFiniteSet(charged)
    /\ \A r \in Records :
          /\ records[r].applied => Restored(r) <= taken[r]
          /\ ~records[r].applied => taken[r] = 0
          /\ records[r].status = "ABSENT" => ~records[r].applied
    /\ \A c \in Calls :
          /\ calls[c].op = "apply" => records[calls[c].record].status # "ABSENT"
          /\ calls[c].op = "charge" => calls[c].period \in Periods
    /\ DebtNeverInflated

\* A call that is not about to apply a record or to charge for a period, or
\* that has the period and the record of those it needs.
Honest(k) ==
    /\ k.op = "apply" => k.record \in Records /\ records'[k.record].status # "ABSENT"
    /\ k.op = "charge" => k.period \in Periods

\* The step of a call that leaves the balance and the ledger alone.
LEMMA LedgerKept ==
    ASSUME IInv, LedgerInv, NEW c \in Calls, NEW k \in CallType, Honest(k),
           calls' = [calls EXCEPT ![c] = k],
           UNCHANGED <<taken, charged>>, account'.balance = account.balance,
           \A r \in Records :
              /\ records'[r].applied <=> records[r].applied
              /\ records[r].applied => Restored(r)' = Restored(r)
              /\ records'[r].status = "ABSENT" => records[r].status = "ABSENT"
    PROVE  LedgerInv'
<1>1. \A d \in Calls : calls'[d] = IF d = c THEN k ELSE calls[d]
  BY DEF IInv, TypeInv
<1>2. \A d \in Calls : calls[d].op = "apply" => calls[d].record \in Records
  BY DEF IInv, TypeInv, Placed, OnRecord
<1>3. \A d \in Calls :
         /\ calls'[d].op = "apply" => records'[calls'[d].record].status # "ABSENT"
         /\ calls'[d].op = "charge" => calls'[d].period \in Periods
  BY <1>1, <1>2 DEF Honest, LedgerInv
<1>4. DebtNeverInflated'
  BY DEF LedgerInv, DebtNeverInflated, Charges
<1>. QED  BY <1>3, <1>4 DEF LedgerInv

\* The steps that write no record.
LEMMA LedgerQuiet ==
    ASSUME IInv, LedgerInv, NEW c \in Calls, NEW k \in CallType,
           k.op = "apply" => k.record \in Records /\ records[k.record].status # "ABSENT",
           k.op = "charge" => k.period \in Periods,
           calls' = [calls EXCEPT ![c] = k],
           UNCHANGED <<taken, charged, records, account>>
    PROVE  LedgerInv'
BY LedgerKept DEF Honest, Restored

LEMMA PlainCalls ==
    /\ Idle \in CallType /\ Idle.op = "idle"
    /\ \A op \in Ops, r \in Records \union {None}, then \in {"idle", "dispute"} :
          /\ Pending(op, r, then) \in CallType
          /\ Pending(op, r, then).op = op
          /\ Pending(op, r, then).record = r
BY DEF Pending, Idle, Call, CallType, Ops

LEMMA EnterLedger ==
    ASSUME IInv, LedgerInv,
           \/ \E c \in Calls, r \in Records, amount \in Amounts : RecordRead(c, r, amount)
           \/ \E c \in Calls, r \in Records, v \in {"APPROVED", "REJECTED"} : Decide(c, r, v)
           \/ \E r \in Records : Withdraw(r)
           \/ \E c \in Calls, r \in Records : DisputeRead(c, r)
           \/ \E c \in Calls, r \in Records, v \in {"approve", "reject"} : ResolveRead(c, r, v)
           \/ \E c \in Calls, p \in Periods : SweepRead(c, p)
    PROVE  LedgerInv'
<1>1. ASSUME NEW c \in Calls, NEW r \in Records, NEW amount \in Amounts,
             RecordRead(c, r, amount)
      PROVE  LedgerInv'
  <2>. DEFINE k == Call("record", r, amount, None, "idle")
  <2>1. k \in CallType /\ k.op = "record"
    BY RepaymentConstants DEF Call, CallType, Ops
  <2>. HIDE DEF k
  <2>2. calls' = [calls EXCEPT ![c] = k] /\ UNCHANGED <<taken, charged, records, account>>
    BY <1>1 DEF RecordRead, Enter, k
  <2>. QED  BY <2>1, <2>2, LedgerQuiet
<1>2. ASSUME NEW c \in Calls, NEW r \in Records, NEW v \in {"APPROVED", "REJECTED"},
             Decide(c, r, v)
      PROVE  LedgerInv'
  <2>1. PICK op \in {"approve", "reject"} : calls' = [calls EXCEPT ![c] = Pending(op, r, "idle")]
    BY <1>2 DEF Decide, Continue
  <2>2. Pending(op, r, "idle") \in CallType /\ Pending(op, r, "idle").op = op
    BY PlainCalls DEF Ops
  <2>. QED  BY <1>2, <2>1, <2>2, LedgerQuiet DEF Decide
<1>3. ASSUME NEW r \in Records, Withdraw(r)
      PROVE  LedgerInv'
  BY <1>3 DEF Withdraw, LedgerInv, DebtNeverInflated, Charges, Restored
<1>4. ASSUME NEW c \in Calls, NEW r \in Records, DisputeRead(c, r)
      PROVE  LedgerInv'
  <2>1. PICK op \in {"reverse", "dispute"} : Enter(c, Pending(op, r, "idle"))
    BY <1>4 DEF DisputeRead
  <2>2. Pending(op, r, "idle") \in CallType /\ Pending(op, r, "idle").op = op
    BY PlainCalls DEF Ops
  <2>. QED  BY <2>1, <2>2, LedgerQuiet DEF Enter
<1>5. ASSUME NEW c \in Calls, NEW r \in Records, NEW v \in {"approve", "reject"},
             ResolveRead(c, r, v)
      PROVE  LedgerInv'
  <2>1. Pending(v, r, "idle") \in CallType /\ Pending(v, r, "idle").op = v
    BY PlainCalls DEF Ops
  <2>. QED  BY <1>5, <2>1, LedgerQuiet DEF ResolveRead, Enter
<1>6. ASSUME NEW c \in Calls, NEW p \in Periods, SweepRead(c, p)
      PROVE  LedgerInv'
  <2>. DEFINE k == Call("charge", None, 0, p, "idle")
  <2>1. k \in CallType /\ k.op = "charge" /\ k.period = p
    BY DEF Call, CallType, Ops
  <2>. HIDE DEF k
  <2>2. calls' = [calls EXCEPT ![c] = k] /\ UNCHANGED <<taken, charged, records, account>>
    BY <1>6 DEF SweepRead, Enter, k
  <2>. QED  BY <2>1, <2>2, LedgerQuiet
<1>. QED  BY <1>1, <1>2, <1>3, <1>4, <1>5, <1>6

\* The steps of a call that write a status, or nothing that is counted.
LEMMA StatusLedger ==
    ASSUME IInv, LedgerInv, NEW c \in Calls, Approve(c) \/ Reject(c) \/ Dispute(c)
    PROVE  LedgerInv'
<1>1. PICK r \in Records : r = calls[c].record
  BY DEF Approve, Reject, Dispute, IInv, TypeInv, OnRecord, Placed
<1>2. PICK status \in {"APPROVED", "REJECTED", "UNDER_DISPUTE"} : SetStatus(r, status)
  BY <1>1 DEF Approve, Reject, Dispute
<1>3. \A rec \in RecordType : /\ [rec EXCEPT !.status = status].status = status
                              /\ [rec EXCEPT !.status = status].applied = rec.applied
                              /\ [rec EXCEPT !.status = status].amount = rec.amount
                              /\ [rec EXCEPT !.status = status].over = rec.over
  BY DEF RecordType
<1>4. \A q \in Records : records'[q] = IF q = r THEN [records[q] EXCEPT !.status = status]
                                                ELSE records[q]
  BY <1>2 DEF SetStatus, IInv, TypeInv
<1>5. ASSUME NEW q \in Records
      PROVE  /\ records'[q].applied = records[q].applied
             /\ records'[q].amount = records[q].amount /\ records'[q].over = records[q].over
             /\ records'[q].status \in {records[q].status, status}
             /\ q = r => records'[q].status = status
  <2>1. PICK rec \in RecordType : rec = records[q]
    BY DEF IInv, TypeInv
  <2>2. records'[q] = IF q = r THEN [rec EXCEPT !.status = status] ELSE rec
    BY <1>4, <2>1
  <2>. QED  BY <1>3, <2>1, <2>2
<1>6. PICK k \in {Idle, Pending("apply", r, "idle")} : calls' = [calls EXCEPT ![c] = k]
  BY <1>1 DEF Approve, Reject, Dispute, Continue
<1>7. k \in CallType /\ k.op \in {"idle", "apply"} /\ (k.op = "apply" => k.record = r)
  BY PlainCalls DEF Ops
<1>8. UNCHANGED <<taken, charged, account>>
  BY DEF Approve, Reject, Dispute
<1>9. Honest(k)
  BY <1>5, <1>7 DEF Honest
<1>. QED  BY <1>5, <1>6, <1>7, <1>8, <1>9, LedgerKept DEF Restored

LEMMA CommitLedger ==
    ASSUME IInv, LedgerInv, NEW c \in Calls, RecordCommit(c)
    PROVE  LedgerInv'
<1>1. PICK r \in Records : r = calls[c].record
  BY DEF RecordCommit, IInv, TypeInv, OnRecord, Placed
<1>2. PICK k \in {Idle, Pending("initiate", r, "idle")} : calls' = [calls EXCEPT ![c] = k]
  BY <1>1 DEF RecordCommit, Continue
<1>3. k \in CallType /\ k.op \in {"idle", "initiate"}
  BY PlainCalls DEF Ops
<1>4. UNCHANGED <<taken, charged, account>>
  BY DEF RecordCommit
<1>5. CASE records[r].status = "ABSENT"
  <2>1. \A q \in Records \ {r} : records'[q] = records[q]
    BY <1>1, <1>5 DEF RecordCommit, IInv, TypeInv
  <2>2. ~records'[r].applied /\ records'[r].status = "PENDING"
    BY <1>1, <1>5 DEF RecordCommit, IInv, TypeInv
  <2>3. ~records[r].applied
    BY <1>5 DEF LedgerInv
  <2>5. \A q \in Records : /\ records'[q].applied <=> records[q].applied
                           /\ records[q].applied => Restored(q)' = Restored(q)
                           /\ records'[q].status = "ABSENT" => records[q].status = "ABSENT"
    BY <1>5, <2>1, <2>2, <2>3 DEF Restored
  <2>. QED  BY <1>2, <1>3, <1>4, <2>5, LedgerKept DEF Honest
<1>6. CASE records[r].status # "ABSENT"
  BY <1>1, <1>2, <1>3, <1>4, <1>6, LedgerQuiet DEF RecordCommit
<1>. QED  BY <1>5, <1>6

\* What is taken from the balance is entered, and the balance is what is left.
LEMMA ApplyLedger ==
    ASSUME IInv, LedgerInv, NEW c \in Calls, Apply(c)
    PROVE  LedgerInv'
<1>1. PICK r \in Records : r = calls[c].record /\ records[r].status # "ABSENT"
  BY DEF Apply, IInv, TypeInv, OnRecord, Placed, LedgerInv
<1>2. PICK k \in {Idle, Pending("sync", r, "idle")} : calls' = [calls EXCEPT ![c] = k]
  BY <1>1 DEF Apply, Continue
<1>3. k \in CallType /\ k.op \in {"idle", "sync"}
  BY PlainCalls DEF Ops
<1>4. CASE records[r].applied
  BY <1>1, <1>2, <1>3, <1>4, LedgerQuiet DEF Apply
<1>5. CASE ~records[r].applied
  <2>1. /\ account' = Paid(account.balance - Capped(r))
        /\ records' = [records EXCEPT ![r] = Applied(r)]
        /\ taken' = [taken EXCEPT ![r] = Capped(r)]
        /\ UNCHANGED charged
    BY <1>1, <1>5 DEF Apply
  <2>2. account.balance \in Nat /\ records[r] \in RecordType /\ OverWithinAmount
    BY DEF IInv, TypeInv
  <2>3. Capped(r) \in Nat /\ account.balance - Capped(r) \in Nat
    BY <2>2 DEF Capped, Lesser, RecordType
  <2>4. account'.balance = account.balance - Capped(r)
    BY <2>1, <2>3 DEF Paid, Owing
  <2>5. taken' \in [Records -> Nat] /\ taken'[r] = Capped(r) /\ taken[r] = 0
        /\ \A q \in Records \ {r} : taken'[q] = taken[q]
    BY <1>5, <2>1, <2>3 DEF LedgerInv
  <2>6. SumFunction(taken') = SumFunction(taken) + Capped(r) /\ SumFunction(taken) \in Int
    <3>1. SumFunctionOnSet(taken', Records) = SumFunctionOnSet(taken, Records) - taken[r] + taken'[r]
      BY <2>3, <2>5, RepaymentConstants, SumUpdate DEF LedgerInv
    <3>2. SumFunctionOnSet(taken, Records) \in Int
      BY RepaymentConstants, SumType DEF LedgerInv
    <3>3. DOMAIN taken = Records /\ DOMAIN taken' = Records
      BY <2>5 DEF LedgerInv
    <3>. QED  BY <2>3, <2>5, <3>1, <3>2, <3>3 DEF SumFunction
  <2>7. /\ records'[r] = Applied(r)
        /\ \A q \in Records \ {r} : records'[q] = records[q]
    BY <2>1 DEF IInv, TypeInv
  <2>8. Restored(r)' <= Capped(r) /\ records'[r].applied
    <3>1. records'[r].amount = records[r].amount
      BY <2>7 DEF Applied
    <3>2. records'[r].over = IF records[r].amount > account.balance
                             THEN records[r].amount - account.balance
                             ELSE records[r].over
      BY <2>7 DEF Applied
    <3>3. records[r].amount \in Nat /\ records[r].over \in Nat
      BY <2>2 DEF RecordType
    <3>4. records'[r].applied
      BY <2>7 DEF Applied
    <3>. QED  BY <2>2, <3>1, <3>2, <3>3, <3>4 DEF Restored, Capped, Lesser
  <2>9. \A q \in Records :
           /\ records'[q].applied => Restored(q)' <= taken'[q]
           /\ ~records'[q].applied => taken'[q] = 0
           /\ records'[q].status = "ABSENT" => ~records'[q].applied
    <3>1. records'[r].status # "ABSENT"
      BY <1>1, <2>7 DEF Applied
    <3>. QED  BY <2>5, <2>7, <2>8, <3>1 DEF LedgerInv, Restored
  <2>10. \A d \in Calls :
           /\ calls'[d].op = "apply" => records'[calls'[d].record].status # "ABSENT"
           /\ calls'[d].op = "charge" => calls'[d].period \in Periods
    <3>1. \A d \in Calls : calls'[d] = IF d = c THEN k ELSE calls[d]
      BY <1>2, <1>3 DEF IInv, TypeInv
    <3>2. \A d \in Calls : calls[d].op = "apply" => calls[d].record \in Records
      BY DEF IInv, TypeInv, Placed, OnRecord
    <3>3. records'[r].status = records[r].status
      BY <2>7 DEF Applied
    <3>. QED  BY <1>1, <1>3, <2>7, <3>1, <3>2, <3>3 DEF LedgerInv
  <2>11. DebtNeverInflated'
    <3>1. account.balance + SumFunction(taken) <= Opening + Charges
      BY DEF LedgerInv, DebtNeverInflated
    <3>2. account'.balance + SumFunction(taken') = account.balance + SumFunction(taken)
      BY <2>2, <2>3, <2>4, <2>6
    <3>3. Charges' = Charges
      BY <2>1 DEF Charges
    <3>. QED  BY <3>1, <3>2, <3>3 DEF DebtNeverInflated
  <2>. QED  BY <2>1, <2>5, <2>9, <2>10, <2>11 DEF LedgerInv
<1>. QED  BY <1>4, <1>5

\* What is given back was taken: its entry is cleared.
LEMMA ReverseLedger ==
    ASSUME IInv, LedgerInv, NEW c \in Calls, Reverse(c)
    PROVE  LedgerInv'
<1>1. PICK r \in Records : r = calls[c].record
  BY DEF Reverse, IInv, TypeInv, OnRecord, Placed
<1>2. PICK k \in {Pending("sync", r, "dispute"), Pending("dispute", r, "idle")} :
         calls' = [calls EXCEPT ![c] = k]
  BY <1>1 DEF Reverse, Continue
<1>3. k \in CallType /\ k.op \in {"sync", "dispute"}
  BY PlainCalls DEF Ops
<1>4. CASE ~records[r].applied
  BY <1>1, <1>2, <1>3, <1>4, LedgerQuiet DEF Reverse
<1>5. CASE records[r].applied
  <2>1. /\ account' = Reopened(account.balance + Restored(r))
        /\ records' = [records EXCEPT ![r].applied = FALSE]
        /\ taken' = [taken EXCEPT ![r] = 0]
        /\ UNCHANGED charged
    BY <1>1, <1>5 DEF Reverse
  <2>2. account.balance \in Nat /\ records[r] \in RecordType /\ records[r].over <= records[r].amount
    BY DEF IInv, TypeInv, OverWithinAmount
  <2>3. Restored(r) \in Nat /\ Restored(r) <= taken[r]
    BY <1>5, <2>2 DEF Restored, RecordType, LedgerInv
  <2>4. account'.balance = account.balance + Restored(r)
    BY <2>1 DEF Reopened, Owing
  <2>5. taken' \in [Records -> Nat] /\ taken'[r] = 0 /\ taken[r] \in Nat
        /\ \A q \in Records \ {r} : taken'[q] = taken[q]
    BY <2>1 DEF LedgerInv
  <2>6. SumFunction(taken') = SumFunction(taken) - taken[r] /\ SumFunction(taken) \in Int
    <3>1. SumFunctionOnSet(taken', Records) = SumFunctionOnSet(taken, Records) - taken[r] + taken'[r]
      BY <2>5, RepaymentConstants, SumUpdate DEF LedgerInv
    <3>2. SumFunctionOnSet(taken, Records) \in Int
      BY RepaymentConstants, SumType DEF LedgerInv
    <3>3. DOMAIN taken = Records /\ DOMAIN taken' = Records
      BY <2>5 DEF LedgerInv
    <3>. QED  BY <2>5, <3>1, <3>2, <3>3 DEF SumFunction
  <2>7. /\ records'[r] = [records[r] EXCEPT !.applied = FALSE]
        /\ \A q \in Records \ {r} : records'[q] = records[q]
    BY <2>1 DEF IInv, TypeInv
  <2>8. ~records'[r].applied /\ records'[r].status = records[r].status
    BY <2>2, <2>7 DEF RecordType
  <2>9. \A q \in Records :
           /\ records'[q].applied => Restored(q)' <= taken'[q]
           /\ ~records'[q].applied => taken'[q] = 0
           /\ records'[q].status = "ABSENT" => ~records'[q].applied
    BY <2>5, <2>7, <2>8 DEF LedgerInv, Restored
  <2>10. \A d \in Calls :
           /\ calls'[d].op = "apply" => records'[calls'[d].record].status # "ABSENT"
           /\ calls'[d].op = "charge" => calls'[d].period \in Periods
    <3>1. \A d \in Calls : calls'[d] = IF d = c THEN k ELSE calls[d]
      BY <1>2, <1>3 DEF IInv, TypeInv
    <3>2. \A d \in Calls : calls[d].op = "apply" => calls[d].record \in Records
      BY DEF IInv, TypeInv, Placed, OnRecord
    <3>3. \A q \in Records : records'[q].status = records[q].status
      BY <2>7, <2>8
    <3>. QED  BY <1>3, <3>1, <3>2, <3>3 DEF LedgerInv
  <2>11. DebtNeverInflated'
    <3>1. account.balance + SumFunction(taken) <= Opening + Charges
      BY DEF LedgerInv, DebtNeverInflated
    <3>2. account'.balance + SumFunction(taken') <= account.balance + SumFunction(taken)
      BY <2>2, <2>3, <2>4, <2>5, <2>6
    <3>3. Charges' = Charges
      BY <2>1 DEF Charges
    <3>4. Charges \in Int /\ SumFunction(taken') \in Int /\ account'.balance \in Int
      <4>. DEFINE f == [p \in charged |-> Penalty]
      <4>1. SumFunctionOnSet(f, charged) \in Int
        BY RepaymentConstants, SumType DEF LedgerInv
      <4>2. Charges = SumFunctionOnSet(f, charged)
        BY DEF Charges, SumFunction
      <4>. QED  BY <2>2, <2>3, <2>4, <2>5, <2>6, <4>1, <4>2
    <3>. QED  BY <2>2, <2>6, <3>1, <3>2, <3>3, <3>4, RepaymentConstants DEF DebtNeverInflated
  <2>. QED  BY <2>1, <2>5, <2>9, <2>10, <2>11 DEF LedgerInv
<1>. QED  BY <1>4, <1>5

\* A charge for a period that was not charged adds its penalty to both sides.
LEMMA ChargeLedger ==
    ASSUME IInv, LedgerInv, NEW c \in Calls, Charge(c)
    PROVE  LedgerInv'
<1>1. Idle \in CallType /\ Idle.op = "idle" /\ calls' = [calls EXCEPT ![c] = Idle]
  BY PlainCalls DEF Charge, Continue
<1>2. UNCHANGED <<records, taken>>
  BY DEF Charge
<1>3. CASE calls[c].period \in charged
  BY <1>1, <1>2, <1>3, LedgerQuiet DEF Charge
<1>4. CASE calls[c].period \notin charged
  <2>1. PICK p \in Periods : p = calls[c].period /\ p \notin charged
    BY <1>4 DEF Charge, LedgerInv
  <2>2. charged' = charged \union {p} /\ account' = Owing(account.balance + Penalty)
    BY <1>4, <2>1 DEF Charge
  <2>3. account'.balance = account.balance + Penalty /\ account.balance \in Nat
    BY <2>2 DEF Owing, IInv, TypeInv
  <2>4. charged' \subseteq Periods /\ IsFiniteSet(charged')
    BY <2>2, FS_AddElement DEF LedgerInv
  <2>5. Charges' = Charges + Penalty /\ Charges \in Int
    <3>. DEFINE f == [q \in charged |-> Penalty]
                g == [q \in charged' |-> Penalty]
    <3>1. Charges = SumFunctionOnSet(f, charged) /\ Charges' = SumFunctionOnSet(g, charged')
      BY DEF Charges, SumFunction
    <3>2. SumFunctionOnSet(g, charged') = g[p] + SumFunctionOnSet(g, charged' \ {p})
      BY <2>2, <2>4, RepaymentConstants, SumRemove
    <3>3. charged' \ {p} = charged
      BY <2>1, <2>2
    <3>4. SumFunctionOnSet(g, charged) = SumFunctionOnSet(f, charged)
      BY <2>2, RepaymentConstants, SumExtensional DEF LedgerInv
    <3>5. SumFunctionOnSet(f, charged) \in Int
      BY RepaymentConstants, SumType DEF LedgerInv
    <3>6. g[p] = Penalty /\ Penalty \in Nat
      BY <2>2, RepaymentConstants
    <3>. HIDE DEF f, g
    <3>7. SumFunctionOnSet(g, charged' \ {p}) = Charges
      BY <3>1, <3>3, <3>4
    <3>8. Charges' = Penalty + Charges
      BY <3>1, <3>2, <3>6, <3>7
    <3>9. Charges \in Int
      BY <3>1, <3>5
    <3>. QED  BY <3>6, <3>8, <3>9
  <2>6. DebtNeverInflated'
    <3>1. account.balance + SumFunction(taken) <= Opening + Charges
      BY DEF LedgerInv, DebtNeverInflated
    <3>2. SumFunction(taken) \in Int
      BY RepaymentConstants, SumType DEF LedgerInv, SumFunction
    <3>. QED  BY <1>2, <2>3, <2>5, <3>1, <3>2, RepaymentConstants DEF DebtNeverInflated
  <2>7. \A d \in Calls :
           /\ calls'[d].op = "apply" => records'[calls'[d].record].status # "ABSENT"
           /\ calls'[d].op = "charge" => calls'[d].period \in Periods
    <3>1. \A d \in Calls : calls'[d] = IF d = c THEN Idle ELSE calls[d]
      BY <1>1 DEF IInv, TypeInv
    <3>. QED  BY <1>1, <1>2, <3>1 DEF LedgerInv
  <2>. QED  BY <1>2, <2>4, <2>6, <2>7 DEF LedgerInv, Restored
<1>. QED  BY <1>3, <1>4

\* The completion status of the loan is no part of the debt.
LEMMA SyncLedger ==
    ASSUME IInv, LedgerInv, NEW c \in Calls, SyncRead(c) \/ SyncWrite(c)
    PROVE  LedgerInv'
<1>1. calls[c] \in CallType
  BY DEF IInv, TypeInv
<1>2. /\ After(calls[c]) \in CallType /\ After(calls[c]).op \in {"idle", "dispute"}
  BY <1>1, AfterTypes DEF After, Pending, Idle, Call, CallType
<1>3. ASSUME NEW op \in {"complete", "reopen"}
      PROVE  /\ [calls[c] EXCEPT !.op = op] \in CallType
             /\ [calls[c] EXCEPT !.op = op].op = op
  BY <1>1 DEF CallType, Ops
<1>4. UNCHANGED <<taken, charged, records, account>>
  BY DEF SyncRead, SyncWrite
<1>5. PICK k \in CallType : calls' = [calls EXCEPT ![c] = k] /\ k.op \notin {"apply", "charge"}
  <2>1. CASE calls' = [calls EXCEPT ![c] = After(calls[c])]
    BY <1>2, <2>1
  <2>2. ASSUME NEW op \in {"complete", "reopen"},
               calls' = [calls EXCEPT ![c] = [calls[c] EXCEPT !.op = op]]
        PROVE  \E k \in CallType :
                  calls' = [calls EXCEPT ![c] = k] /\ k.op \notin {"apply", "charge"}
    BY <1>3, <2>2
  <2>. QED  BY <2>1, <2>2 DEF SyncRead, SyncWrite, Continue
<1>. QED  BY <1>4, <1>5, LedgerQuiet

LEMMA InitLedger == Init => LedgerInv
<1>. SUFFICES ASSUME Init PROVE LedgerInv
  OBVIOUS
<1>1. taken \in [Records -> Nat] /\ charged = {} /\ IsFiniteSet(charged)
  BY FS_EmptySet DEF Init
<1>2. DebtNeverInflated
  <2>1. SumFunction(taken) = 0
    <3>1. IsFiniteSet(Records) /\ \A r \in Records : taken[r] = 0
      BY RepaymentConstants DEF Init
    <3>2. SumFunctionOnSet(taken, Records) = 0
      BY <3>1, SumOfZeros
    <3>. QED  BY <1>1, <3>2 DEF SumFunction
  <2>2. Charges = 0
    BY <1>1, SumEmpty DEF Charges, SumFunction
  <2>. QED  BY <2>1, <2>2, RepaymentConstants DEF Init, DebtNeverInflated
<1>3. \A c \in Calls : calls[c].op = "idle"
  BY PlainCalls DEF Init
<1>. QED  BY <1>1, <1>2, <1>3 DEF Init, LedgerInv, NoRecord

LEMMA NextLedger == IInv /\ LedgerInv /\ [Next]_vars => LedgerInv'
<1>. SUFFICES ASSUME IInv, LedgerInv, [Next]_vars PROVE LedgerInv'
  OBVIOUS
<1>1. CASE UNCHANGED vars
  BY <1>1 DEF vars, LedgerInv, DebtNeverInflated, Charges, Restored
<1>2. ASSUME NEW c \in Calls, RecordInitiate(c) \/ Abandon(c)
      PROVE  LedgerInv'
  BY <1>2, PlainCalls, LedgerQuiet DEF RecordInitiate, Abandon, Continue
<1>3. CASE Next
  BY <1>2, <1>3, EnterLedger, CommitLedger, StatusLedger, ApplyLedger, ReverseLedger,
     SyncLedger, ChargeLedger DEF Next
<1>. QED  BY <1>1, <1>3

LEMMA SpecLedger == Spec => []LedgerInv
<1>. QED  BY SpecInv, InitLedger, NextLedger, PTL DEF Spec

-----------------------------------------------------------------------------
\* The balance is never negative and an account that owes nothing is CLOSED,
\* whatever is paid, overpaid, reversed and charged, in whatever order
\* (applyToBalance, reverseBalance, applyPenaltyCharge).
THEOREM SettledAccountsAreClosed == Spec => []SettledIsClosed
<1>1. IInv => SettledIsClosed
  BY DEF IInv
<1>. QED  BY <1>1, SpecInv, PTL

\* An APPROVED repayment that no call works on, and on which none died, has
\* been applied to the balance (handleWorkflowApproved, raiseDispute and
\* resolveDispute in any interleaving).
THEOREM ApprovedIsApplied == Spec => []RestingApprovedIsApplied
<1>1. IInv => RestingApprovedIsApplied
  BY DEF IInv, ApprovedIsAttended, RestingApprovedIsApplied, AtRest
<1>. QED  BY <1>1, SpecInv, PTL

\* The borrower never owes more than was disbursed and charged, less what the
\* applied repayments took: no repayment counts twice, and no reversal gives
\* back more than its application took, although it computes it from the excess
\* of the record (applyToBalance, reverseBalance, applyPenaltyCharge).
THEOREM DebtIsNeverInflated == Spec => []DebtNeverInflated
<1>1. LedgerInv => DebtNeverInflated
  BY DEF LedgerInv
<1>. QED  BY <1>1, SpecLedger, PTL

-----------------------------------------------------------------------------
(* The account is one debt.  The actions that move it are the transactions:  *)
(* every other write and every read is a stutter of module Debt.             *)

\* A step that keeps the balance, the charges and what each record counts for.
LEMMA QuietDebt ==
    ASSUME UNCHANGED <<account, charged>>,
           \A r \in Records :
              /\ records'[r].applied <=> records[r].applied
              /\ records[r].applied => Restored(r)' = Restored(r)
    PROVE  UNCHANGED Ledger!vars
<1>1. {r \in Records : records'[r].applied} = {r \in Records : records[r].applied}
  OBVIOUS
<1>2. \A r \in Records : Refund(r)' = Refund(r)
  BY DEF Refund
<1>3. [r \in Records |-> Refund(r)]' = [r \in Records |-> Refund(r)]
  BY <1>2
<1>. QED  BY <1>1, <1>3 DEF Ledger!vars

\* The excess of an application that is not in excess may be that of an earlier
\* one: what its reversal returns is then less than what it took.
LEMMA ApplyPays ==
    ASSUME IInv, LedgerInv, NEW c \in Calls, Apply(c)
    PROVE  Ledger!Next \/ UNCHANGED Ledger!vars
<1>1. PICK r \in Records : r = calls[c].record
  BY DEF Apply, IInv, TypeInv, OnRecord, Placed
<1>2. CASE records[r].applied
  BY <1>1, <1>2, QuietDebt DEF Apply, Restored
<1>3. CASE ~records[r].applied
  <2>1. /\ account' = Paid(account.balance - Capped(r))
        /\ records' = [records EXCEPT ![r] = Applied(r)]
        /\ UNCHANGED charged
    BY <1>1, <1>3 DEF Apply
  <2>2. account.balance \in Nat /\ records[r] \in RecordType /\ records[r].over <= records[r].amount
    BY DEF IInv, TypeInv, OverWithinAmount
  <2>3. records[r].amount \in Nat /\ records[r].over \in Nat
    BY <2>2 DEF RecordType
  <2>4. Capped(r) \in 0 .. account.balance
    BY <2>2, <2>3 DEF Capped, Lesser
  <2>5. /\ account'.balance = account.balance - Capped(r)
        /\ account'.status = IF Capped(r) = account.balance THEN "CLOSED" ELSE account.status
    BY <2>1, <2>2, <2>4 DEF Paid, Owing
  <2>6. /\ records'[r] = Applied(r)
        /\ \A q \in Records \ {r} : records'[q] = records[q]
    BY <2>1 DEF IInv, TypeInv
  <2>7. /\ records'[r].applied
        /\ records'[r].amount = records[r].amount
        /\ records'[r].over = IF records[r].amount > account.balance
                              THEN records[r].amount - account.balance
                              ELSE records[r].over
    BY <2>6 DEF Applied
  <2>8. PICK back \in 0 .. account.balance : back = Refund(r)' /\ back <= Capped(r)
    <3>1. /\ records'[r].amount - records'[r].over \in 0 .. account.balance
          /\ records'[r].amount - records'[r].over <= Capped(r)
      BY <2>2, <2>3, <2>7 DEF Capped, Lesser
    <3>. QED  BY <2>7, <3>1 DEF Refund, Restored
  <2>9. {q \in Records : records'[q].applied} = {q \in Records : records[q].applied} \union {r}
    BY <2>6, <2>7
  <2>10. [q \in Records |-> Refund(q)]' = [[q \in Records |-> Refund(q)] EXCEPT ![r] = back]
    <3>1. \A q \in Records \ {r} : Refund(q)' = Refund(q)
      BY <2>6 DEF Refund, Restored
    <3>. QED  BY <2>8, <3>1
  <2>11. Ledger!Pay(r, Capped(r), back)
    BY <1>3, <2>1, <2>5, <2>8, <2>9, <2>10 DEF Ledger!Pay
  <2>. QED  BY <2>4, <2>8, <2>11 DEF Ledger!Next
<1>. QED  BY <1>2, <1>3

LEMMA ReverseGivesBack ==
    ASSUME IInv, LedgerInv, NEW c \in Calls, Reverse(c)
    PROVE  Ledger!Next \/ UNCHANGED Ledger!vars
<1>1. PICK r \in Records : r = calls[c].record
  BY DEF Reverse, IInv, TypeInv, OnRecord, Placed
<1>2. CASE ~records[r].applied
  BY <1>1, <1>2, QuietDebt DEF Reverse, Restored
<1>3. CASE records[r].applied
  <2>1. /\ account' = Reopened(account.balance + Restored(r))
        /\ records' = [records EXCEPT ![r].applied = FALSE]
        /\ UNCHANGED charged
    BY <1>1, <1>3 DEF Reverse
  <2>2. [q \in Records |-> Refund(q)][r] = Restored(r)
    BY <1>3 DEF Refund
  <2>3. /\ account'.balance = account.balance + Restored(r)
        /\ account'.status = IF account.balance + Restored(r) > 0 THEN "ACTIVE" ELSE account.status
    BY <2>1 DEF Reopened, Owing
  <2>4. /\ ~records'[r].applied
        /\ \A q \in Records \ {r} : records'[q] = records[q]
    BY <2>1 DEF IInv, TypeInv, RecordType
  <2>5. {q \in Records : records'[q].applied} = {q \in Records : records[q].applied} \ {r}
    BY <2>4
  <2>6. [q \in Records |-> Refund(q)]' = [[q \in Records |-> Refund(q)] EXCEPT ![r] = 0]
    <3>1. Refund(r)' = 0 /\ \A q \in Records \ {r} : Refund(q)' = Refund(q)
      BY <2>4 DEF Refund, Restored
    <3>. QED  BY <3>1
  <2>7. Ledger!GiveBack(r)
    BY <1>3, <2>1, <2>2, <2>3, <2>5, <2>6 DEF Ledger!GiveBack
  <2>. QED  BY <2>7 DEF Ledger!Next
<1>. QED  BY <1>2, <1>3

LEMMA ChargeAdds ==
    ASSUME IInv, LedgerInv, NEW c \in Calls, Charge(c)
    PROVE  Ledger!Next \/ UNCHANGED Ledger!vars
<1>1. PICK p \in Periods : p = calls[c].period
  BY DEF Charge, LedgerInv
<1>2. UNCHANGED records
  BY DEF Charge
<1>3. CASE p \in charged
  BY <1>1, <1>2, <1>3, QuietDebt DEF Charge, Restored
<1>4. CASE p \notin charged
  <2>1. charged' = charged \union {p} /\ account' = Owing(account.balance + Penalty)
    BY <1>1, <1>4 DEF Charge
  <2>2. account'.balance = account.balance + Penalty /\ account'.status = account.status
    BY <2>1 DEF Owing
  <2>3. /\ {q \in Records : records'[q].applied} = {q \in Records : records[q].applied}
        /\ [q \in Records |-> Refund(q)]' = [q \in Records |-> Refund(q)]
    BY <1>2 DEF Refund, Restored
  <2>4. Ledger!Add(p)
    BY <1>4, <2>1, <2>2, <2>3 DEF Ledger!Add
  <2>. QED  BY <2>4 DEF Ledger!Next
<1>. QED  BY <1>3, <1>4

\* A record that is about to be created does not count, and a status is not
\* what makes one count.
LEMMA RecordsStutter ==
    ASSUME IInv, LedgerInv, NEW c \in Calls,
           RecordCommit(c) \/ Approve(c) \/ Reject(c) \/ Dispute(c)
    PROVE  UNCHANGED Ledger!vars
<1>1. PICK r \in Records : r = calls[c].record
  BY DEF RecordCommit, Approve, Reject, Dispute, IInv, TypeInv, OnRecord, Placed
<1>2. records \in [Records -> RecordType] /\ UNCHANGED <<account, charged>>
  BY DEF IInv, TypeInv, RecordCommit, Approve, Reject, Dispute
<1>3. CASE RecordCommit(c)
  <2>1. CASE records[r].status # "ABSENT"
    BY <1>1, <1>2, <1>3, <2>1, QuietDebt DEF RecordCommit, Restored
  <2>2. CASE records[r].status = "ABSENT"
    <3>1. ~records[r].applied
      BY <2>2 DEF LedgerInv
    <3>2. ~records'[r].applied /\ \A q \in Records \ {r} : records'[q] = records[q]
      BY <1>1, <1>2, <1>3, <2>2 DEF RecordCommit
    <3>. QED  BY <1>2, <3>1, <3>2, QuietDebt DEF Restored
  <2>. QED  BY <2>1, <2>2
<1>4. CASE Approve(c) \/ Reject(c) \/ Dispute(c)
  <2>1. \A q \in Records :
           /\ records'[q].applied = records[q].applied
           /\ records'[q].amount = records[q].amount
           /\ records'[q].over = records[q].over
    BY <1>1, <1>2, <1>4 DEF Approve, Reject, Dispute, SetStatus, RecordType
  <2>. QED  BY <1>2, <2>1, QuietDebt DEF Restored
<1>. QED  BY <1>3, <1>4

LEMMA StepRefinesDebt ==
    IInv /\ LedgerInv /\ [Next]_vars => [Ledger!Next]_(Ledger!vars)
<1>. SUFFICES ASSUME IInv, LedgerInv, [Next]_vars
              PROVE  Ledger!Next \/ UNCHANGED Ledger!vars
  OBVIOUS
<1>1. CASE UNCHANGED <<account, records, charged>>
  BY <1>1, QuietDebt DEF Restored
<1>2. CASE ~UNCHANGED <<account, records, charged>>
  <2>1. \E c \in Calls :
           \/ Apply(c) \/ Reverse(c) \/ Charge(c)
           \/ RecordCommit(c) \/ Approve(c) \/ Reject(c) \/ Dispute(c)
    BY <1>2 DEF Next, vars, RecordRead, RecordInitiate, Decide, Withdraw, DisputeRead,
       ResolveRead, SyncRead, SyncWrite, SweepRead, Abandon, Enter
  <2>. QED  BY <2>1, ApplyPays, ReverseGivesBack, ChargeAdds, RecordsStutter
<1>. QED  BY <1>1, <1>2

\* Repayments, disputes and penalties implement one debt, for every set of
\* records, amounts, periods and calls in flight (applyToBalance, reverseBalance
\* and applyPenaltyCharge under the reads that precede them).
THEOREM RepaymentsImplementDebt == Spec => ImplementsDebt
<1>1. Init => Ledger!Init
  <2> SUFFICES ASSUME Init PROVE Ledger!Init
    OBVIOUS
  <2>1. account.status = "ACTIVE" /\ account.balance = Opening /\ charged = {}
    BY DEF Init
  <2>2. \A r \in Records : ~records[r].applied
    BY DEF Init, NoRecord
  <2>3. {r \in Records : records[r].applied} = {} /\ \A r \in Records : Refund(r) = 0
    BY <2>2 DEF Refund
  <2>. QED  BY <2>1, <2>3 DEF Ledger!Init
<1>. QED  BY <1>1, SpecInv, SpecLedger, StepRefinesDebt, PTL
          DEF Spec, ImplementsDebt, Ledger!Spec

-----------------------------------------------------------------------------
(* Customers *)

Vetted == {"ACTIVE", "DISABLED"}
CustomerStatuses == {"ABSENT", "DRAFT", "PENDING_APPROVAL", "REJECTED"} \union Vetted
KycStatuses == {"INCOMPLETE", "MISMATCH_FLAGGED", "VERIFIED"}
Privileges == {"NONE", "PENDING", "GRANTED"}
CustomerRequestStatuses == {"ABSENT", "OPEN", "APPROVED", "REJECTED", "RETURNED_TO_MAKER",
                            "CANCELLED", "DELETED"}

CustomerType == [status : CustomerStatuses, kycStatus : KycStatuses, privilege : Privileges]
KycType == [owner : Customers \union {NoCustomerId}, biometric : BOOLEAN, flagged : BOOLEAN]
CustomerRequestType == [status : CustomerRequestStatuses,
                        customer : Customers \union {NoCustomerId}, linked : BOOLEAN]

Unowned == {"idle", "died", "create"}
\* What may be under way on a Customer that has not got its KycRecord yet.
Early == {"capture", "delete_kyc", "delete"}
CustomerOps == Unowned \union Early \union
    {"create_kyc", "consume_preview", "resolve", "recompute", "score", "submit", "initiate",
     "link", "resubmit", "handle", "cancel", "privilege"}

CustomerCallType == [op : CustomerOps, customer : Customers \union {NoCustomerId}, request : Nat,
                     value : CustomerStatuses \union KycStatuses \union Privileges]

CustomerTypeInv ==
    /\ preview \in BOOLEAN
    /\ customers \in [Customers -> CustomerType]
    /\ kyc \in KycType
    /\ requests \in [Requests -> CustomerRequestType]
    /\ customerCalls \in [CustomerCalls -> CustomerCallType]
    /\ deletions \subseteq Customers

\* Once a Customer is submitted its biometric stays, until it is deleted.
Kept(x) == IF HasKyc(x) THEN kyc.biometric ELSE x \in deletions

Clean(x) == HasKyc(x) => kyc.biometric /\ ~kyc.flagged

\* An identity that is in use is never taken for a new Customer.
Used(x) == Exists(x) \/ x \in deletions

\* A Customer without a KycRecord has come no further.
Raw(x) ==
    /\ ~HasKyc(x)
    /\ \A r \in Requests : requests[r].customer # x
    /\ customers[x].status \in {"ABSENT", "DRAFT", "PENDING_APPROVAL"}
    /\ customers[x].kycStatus = "INCOMPLETE"
    /\ customers[x].privilege = "NONE"

ValueFits(k) ==
    /\ k.op \in {"create", "create_kyc"} => k.value \in {"DRAFT", "PENDING_APPROVAL"}
    /\ k.op = "score" => k.value \in KycStatuses
    /\ k.op = "handle" => k.value \in CustomerStatuses \ {"ABSENT"}
    /\ k.op = "privilege" => k.value \in Privileges
    /\ k.op \in {"resubmit", "cancel"} => k.request \in Requests

CustomerCallFits(k) ==
    /\ ValueFits(k)
    /\ IF k.op \in Unowned THEN k.customer = NoCustomerId
       ELSE k.customer \in Customers /\ Used(k.customer)
    /\ k.op = "delete" => k.customer \in deletions
    /\ k.op \in {"submit", "initiate"} => Kept(k.customer)
    /\ k.op = "handle" /\ k.value \in Vetted => Approved(k.customer)
    /\ k.op = "score" /\ k.value = "VERIFIED" => Clean(k.customer)
    /\ k.op = "create_kyc" => Raw(k.customer)

CustomerFits(x) ==
    /\ ~Exists(x) => customers[x] = NoCustomer
    /\ HasKyc(x) => Used(x)
    /\ customers[x].status \in Vetted => Approved(x)
    /\ customers[x].kycStatus = "VERIFIED" => Clean(x)

RequestFits(q) ==
    IF q.status = "ABSENT" THEN q.customer = NoCustomerId
    ELSE q.customer \in Customers /\ Used(q.customer) /\ Kept(q.customer)

\* The call that will make the KycRecord is the only one on its Customer,
\* captures and deletions apart.
Lone(c) ==
    \A d \in CustomerCalls :
        d # c /\ Subject(d) = Subject(c) => customerCalls[d].op \in Early

CustomerIInv ==
    /\ CustomerTypeInv
    /\ \A c \in CustomerCalls : CustomerCallFits(customerCalls[c])
    /\ \A c \in CustomerCalls : CustomerAt(c, "create_kyc") => Lone(c)
    /\ \A x \in Customers : CustomerFits(x)
    /\ \A r \in Requests : RequestFits(requests[r])

-----------------------------------------------------------------------------
\* Some call is about to make the KycRecord of x.
Making(x) == \E c \in CustomerCalls : CustomerAt(c, "create_kyc") /\ Subject(c) = x

\* What every step leaves true of the documents.
Persists ==
    /\ \A x \in Customers : Used(x) => Used(x)'
    /\ \A x \in Customers : Approved(x) => Approved(x)'
    /\ deletions \subseteq deletions'
    /\ \A x \in Customers : ~Making(x) => (Kept(x) => Kept(x)') /\ (Clean(x) => Clean(x)')
    /\ \A c \in CustomerCalls :
          CustomerAt(c, "create_kyc") /\ customerCalls'[c] = customerCalls[c] => Raw(Subject(c))'

\* A call that has got further than a capture or a deletion is on a Customer
\* that has its KycRecord.
LEMMA MakerIsAlone ==
    ASSUME CustomerIInv
    PROVE  /\ \A c, d \in CustomerCalls :
                 CustomerAt(c, "create_kyc") /\ Subject(d) = Subject(c) /\ d # c
                    => customerCalls[d].op \in Early
           /\ \A r \in Requests : ~Making(requests[r].customer)
           /\ \A x \in Customers : Making(x) => Raw(x)
           /\ \A c \in CustomerCalls : CustomerAt(c, "create_kyc") => Subject(c) \in Customers
<1>1. \A c, d \in CustomerCalls :
         CustomerAt(c, "create_kyc") /\ Subject(d) = Subject(c) /\ d # c
            => customerCalls[d].op \in Early
  BY DEF CustomerIInv, Lone
<1>2. \A c \in CustomerCalls : CustomerAt(c, "create_kyc") =>
         Raw(Subject(c)) /\ Subject(c) \in Customers
  BY DEF CustomerIInv, CustomerCallFits, CustomerAt, Subject, Unowned
<1>3. \A r \in Requests : ~Making(requests[r].customer)
  BY <1>2 DEF Making, Raw
<1>4. \A x \in Customers : Making(x) => Raw(x)
  BY <1>2 DEF Making
<1>. QED  BY <1>1, <1>2, <1>3, <1>4

LEMMA CallPersists ==
    ASSUME CustomerIInv, Persists, NEW d \in CustomerCalls, customerCalls'[d] = customerCalls[d]
    PROVE  CustomerCallFits(customerCalls[d])'
<1>1. PICK k : k = customerCalls[d]
  OBVIOUS
<1>2. CustomerCallFits(k)
  BY <1>1 DEF CustomerIInv
<1>3. k.op \in {"submit", "initiate", "score"} => ~Making(k.customer)
  BY <1>1, MakerIsAlone DEF Making, CustomerAt, Subject, Early
<1>4. k.op \notin Unowned => k.customer \in Customers
  BY <1>2 DEF CustomerCallFits
<1>5. ValueFits(k)
  BY <1>2 DEF CustomerCallFits
<1>6. k.op \notin Unowned => Used(k.customer)'
  BY <1>2, <1>4 DEF CustomerCallFits, Persists
<1>7. /\ k.op = "delete" => k.customer \in deletions'
      /\ k.op \in {"submit", "initiate"} => Kept(k.customer)'
      /\ k.op = "handle" /\ k.value \in Vetted => Approved(k.customer)'
      /\ k.op = "score" /\ k.value = "VERIFIED" => Clean(k.customer)'
  BY <1>2, <1>3, <1>4 DEF CustomerCallFits, Persists, Unowned
<1>8. k.op = "create_kyc" => Raw(k.customer)'
  BY <1>1 DEF Persists, CustomerAt, Subject
<1>9. k.op \in Unowned => k.customer = NoCustomerId
  BY <1>2 DEF CustomerCallFits
<1>10. CustomerCallFits(k)'
  BY <1>4, <1>5, <1>6, <1>7, <1>8, <1>9 DEF CustomerCallFits
<1>. QED  BY <1>1, <1>10

LEMMA RequestPersists ==
    ASSUME CustomerIInv, Persists, NEW r \in Requests, NEW q,
           q.customer = requests[r].customer,
           q.status = "ABSENT" <=> requests[r].status = "ABSENT"
    PROVE  RequestFits(q)'
<1>1. RequestFits(requests[r])
  BY DEF CustomerIInv
<1>2. CASE q.status = "ABSENT"
  BY <1>1, <1>2 DEF RequestFits
<1>3. CASE q.status # "ABSENT"
  <2>1. q.customer \in Customers /\ Used(q.customer) /\ Kept(q.customer) /\ ~Making(q.customer)
    BY <1>1, <1>3, MakerIsAlone DEF RequestFits
  <2>. QED  BY <1>3, <2>1 DEF RequestFits, Persists
<1>. QED  BY <1>2, <1>3

LEMMA CustomerPersists ==
    ASSUME CustomerIInv, Persists, NEW x \in Customers, customers'[x] = customers[x],
           HasKyc(x)' => HasKyc(x) \/ Making(x)
    PROVE  CustomerFits(x)'
<1>1. CustomerFits(x)
  BY DEF CustomerIInv
<1>2. ~Exists(x)' => customers'[x] = NoCustomer
  BY <1>1 DEF CustomerFits, Exists
<1>3. HasKyc(x)' => Used(x)'
  <2>1. Making(x) => Used(x)
    BY DEF CustomerIInv, Making, CustomerCallFits, CustomerAt, Subject, Unowned
  <2>. QED  BY <1>1, <2>1 DEF CustomerFits, Persists
<1>4. customers'[x].status \in Vetted => Approved(x)'
  BY <1>1 DEF CustomerFits, Persists
<1>5. customers'[x].kycStatus = "VERIFIED" => Clean(x)'
  BY <1>1, MakerIsAlone DEF CustomerFits, Persists, Raw
<1>. QED  BY <1>2, <1>3, <1>4, <1>5 DEF CustomerFits

\* A step of call c, which goes on as k.
LEMMA CustomerStepInv ==
    ASSUME CustomerIInv, Persists, NEW c \in CustomerCalls, NEW k \in CustomerCallType,
           CustomerContinue(c, k), CustomerCallFits(k)',
           \/ k.op \in Unowned \union Early
           \/ \A d \in CustomerCalls \ {c} : CustomerAt(d, "create_kyc") => Subject(d) # k.customer,
           k.op = "create_kyc" => \A d \in CustomerCalls \ {c} : Subject(d) # k.customer,
           preview' \in BOOLEAN,
           customers' \in [Customers -> CustomerType],
           kyc' \in KycType,
           requests' \in [Requests -> CustomerRequestType],
           deletions' \subseteq Customers,
           \A x \in Customers : CustomerFits(x)',
           \A r \in Requests : RequestFits(requests[r])'
    PROVE  CustomerIInv'
<1>1. /\ \A d \in CustomerCalls : customerCalls'[d] = IF d = c THEN k ELSE customerCalls[d]
      /\ customerCalls' \in [CustomerCalls -> CustomerCallType]
  BY DEF CustomerIInv, CustomerTypeInv, CustomerContinue
<1>2. CustomerTypeInv'
  BY <1>1 DEF CustomerTypeInv
<1>3. \A d \in CustomerCalls : CustomerCallFits(customerCalls[d])'
  <2>1. ASSUME NEW d \in CustomerCalls, d # c PROVE CustomerCallFits(customerCalls[d])'
    BY <1>1, <2>1, CallPersists
  <2>2. CustomerCallFits(customerCalls[c])'
    BY <1>1
  <2>. QED  BY <2>1, <2>2
<1>4. ASSUME NEW d \in CustomerCalls, CustomerAt(d, "create_kyc")'
      PROVE  Lone(d)'
  <2>1. CASE d = c
    <3>1. k.op = "create_kyc"
      BY <1>1, <1>4, <2>1 DEF CustomerAt
    <3>. QED  BY <1>1, <2>1, <3>1 DEF Lone, Subject
  <2>2. CASE d # c
    <3>1. CustomerAt(d, "create_kyc") /\ Subject(d)' = Subject(d)
      BY <1>1, <1>4, <2>2 DEF CustomerAt, Subject
    <3>2. Lone(d) /\ Subject(d) \in Customers
      BY <3>1, MakerIsAlone DEF CustomerIInv
    <3>3. k.op \in Unowned => k.customer = NoCustomerId
      BY DEF CustomerCallFits
    <3>4. k.customer = Subject(d) => k.op \in Early
      BY <2>2, <3>1, <3>2, <3>3, CustomerConstants
    <3>. QED  BY <1>1, <2>2, <3>1, <3>2, <3>4 DEF Lone, Subject
  <2>. QED  BY <2>1, <2>2
<1>. QED  BY <1>2, <1>3, <1>4 DEF CustomerIInv

-----------------------------------------------------------------------------
\* A step that writes no more than the status of requests.
Decisions ==
    /\ UNCHANGED <<customers, kyc, deletions>>
    /\ preview' \in BOOLEAN
    /\ requests' \in [Requests -> CustomerRequestType]
    /\ \A r \in Requests :
          /\ requests'[r].customer = requests[r].customer
          /\ requests'[r].status = "ABSENT" <=> requests[r].status = "ABSENT"
          /\ requests[r].status = "APPROVED" => requests'[r].status = "APPROVED"

LEMMA DecisionsPersist ==
    ASSUME CustomerIInv, Decisions
    PROVE  /\ Persists
           /\ \A x \in Customers : CustomerFits(x)'
           /\ \A r \in Requests : RequestFits(requests[r])'
<1>. USE DEF Decisions
<1>1. \A x \in Customers : /\ Used(x) => Used(x)'
                           /\ Kept(x) => Kept(x)'
                           /\ Clean(x) => Clean(x)'
                           /\ HasKyc(x)' => HasKyc(x)
  BY DEF Used, Exists, Kept, Clean, HasKyc
<1>2. \A x \in Customers : Approved(x) => Approved(x)'
  BY DEF Approved
<1>3. \A x \in Customers : Raw(x) => Raw(x)'
  BY DEF Raw, HasKyc
<1>4. Persists
  <2>1. ASSUME NEW d \in CustomerCalls, CustomerAt(d, "create_kyc"), customerCalls'[d] = customerCalls[d]
        PROVE  Raw(Subject(d))'
    <3>1. PICK x \in Customers : x = Subject(d) /\ Raw(x)
      BY <2>1, MakerIsAlone DEF Making
    <3>2. Raw(x)' /\ x = Subject(d)'
      BY <1>3, <2>1, <3>1 DEF Subject
    <3>. QED  BY <3>2 DEF Raw, HasKyc
  <2>. QED  BY <1>1, <1>2, <2>1 DEF Persists
<1>5. \A x \in Customers : CustomerFits(x)'
  BY <1>1, <1>4, CustomerPersists
<1>6. \A r \in Requests : RequestFits(requests[r])'
  BY <1>4, RequestPersists
<1>. QED  BY <1>4, <1>5, <1>6

LEMMA DecisionStep ==
    ASSUME CustomerIInv, Decisions, NEW c \in CustomerCalls, NEW k \in CustomerCallType,
           CustomerContinue(c, k), CustomerCallFits(k)', k.op # "create_kyc",
           \/ k.op \in Unowned \union Early
           \/ \A d \in CustomerCalls \ {c} : CustomerAt(d, "create_kyc") => Subject(d) # k.customer
    PROVE  CustomerIInv'
<1>1. /\ kyc' \in KycType /\ customers' \in [Customers -> CustomerType]
      /\ deletions' \subseteq Customers
  BY DEF Decisions, CustomerIInv, CustomerTypeInv
<1>. QED  BY <1>1, DecisionsPersist, CustomerStepInv DEF Decisions

LEMMA DecisionAlone ==
    ASSUME CustomerIInv, Decisions, UNCHANGED customerCalls
    PROVE  CustomerIInv'
<1>1. CustomerTypeInv'
  BY DEF Decisions, CustomerIInv, CustomerTypeInv
<1>2. \A d \in CustomerCalls : CustomerCallFits(customerCalls[d])'
  BY DecisionsPersist, CallPersists
<1>3. \A d \in CustomerCalls : CustomerAt(d, "create_kyc")' => Lone(d)'
  BY DEF CustomerIInv, Lone, CustomerAt, Subject
<1>. QED  BY <1>1, <1>2, <1>3, DecisionsPersist DEF CustomerIInv

\* Nobody makes the KycRecord of a Customer that a call beyond captures and
\* deletions is on, or that has come further.
LEMMA NotMaking ==
    ASSUME CustomerIInv, NEW c \in CustomerCalls, NEW x,
           \/ x = Subject(c) /\ customerCalls[c].op \notin Unowned \union Early
           \/ x \in Customers /\ ~Raw(x)
    PROVE  \A d \in CustomerCalls \ {c} : CustomerAt(d, "create_kyc") => Subject(d) # x
<1>1. CASE x = Subject(c) /\ customerCalls[c].op \notin Unowned \union Early
  BY <1>1, MakerIsAlone
<1>2. CASE x \in Customers /\ ~Raw(x)
  BY <1>2, MakerIsAlone DEF Making
<1>. QED  BY <1>1, <1>2

LEMMA CallRecord ==
    ASSUME NEW op, NEW x, NEW n, NEW v, NEW k, k = CustomerCall(op, x, n, v)
    PROVE  /\ k.op = op /\ k.customer = x /\ k.request = n /\ k.value = v
           /\ /\ op \in CustomerOps /\ x \in Customers \union {NoCustomerId} /\ n \in Nat
              /\ v \in CustomerStatuses \union KycStatuses \union Privileges
              => k \in CustomerCallType
BY DEF CustomerCall, CustomerCallType

LEMMA Ends ==
    ASSUME NEW k, k = CustomerIdle \/ k = CustomerDied
    PROVE  /\ k \in CustomerCallType
           /\ k.op \in {"idle", "died"} /\ k.customer = NoCustomerId
           /\ CustomerCallFits(k) /\ CustomerCallFits(k)'
<1>1. /\ k \in CustomerCallType
      /\ k.op \in {"idle", "died"} /\ k.customer = NoCustomerId
  BY CallRecord DEF CustomerIdle, CustomerDied, CustomerOps, Unowned, Privileges
<1>2. CustomerCallFits(k) /\ CustomerCallFits(k)'
  BY <1>1 DEF CustomerCallFits, ValueFits, Unowned
<1>. QED  BY <1>1, <1>2

\* The commonest steps: no document is written.
LEMMA QuietIsDecisions ==
    ASSUME CustomerIInv, UNCHANGED <<customers, kyc, requests, deletions>>, preview' \in BOOLEAN
    PROVE  Decisions
BY DEF CustomerIInv, CustomerTypeInv, Decisions

\* An identity that a call or a request may name.
LEMMA QuietFits ==
    ASSUME UNCHANGED <<customers, kyc, requests, deletions>>, NEW k, CustomerCallFits(k)
    PROVE  CustomerCallFits(k)'
BY DEF CustomerCallFits, Used, Exists, Kept, HasKyc, Approved, Clean, Raw

LEMMA GoOn ==
    ASSUME CustomerIInv, NEW c \in CustomerCalls, NEW k \in CustomerCallType,
           CustomerContinue(c, k), UNCHANGED <<customers, kyc, requests, deletions>>,
           preview' \in BOOLEAN, CustomerCallFits(k), k.op # "create_kyc",
           \/ k.op \in Unowned \union Early
           \/ k.customer = Subject(c) /\ customerCalls[c].op \notin Unowned \union Early
           \/ k.customer \in Customers /\ ~Raw(k.customer)
    PROVE  CustomerIInv'
<1>1. Decisions
  BY QuietIsDecisions
<1>2. CustomerCallFits(k)'
  BY QuietFits
<1>. QED  BY <1>1, <1>2, DecisionStep, NotMaking

LEMMA EnterInv ==
    ASSUME CustomerIInv, NEW c \in CustomerCalls, NEW k \in CustomerCallType,
           EnterCustomerCall(c, k), CustomerCallFits(k), k.op # "create_kyc",
           k.op \in Unowned \union Early \/ (k.customer \in Customers /\ ~Raw(k.customer))
    PROVE  CustomerIInv'
<1>1. preview' \in BOOLEAN
  BY DEF CustomerIInv, CustomerTypeInv, EnterCustomerCall
<1>. QED  BY <1>1, GoOn DEF EnterCustomerCall

\* What a call that reads a Customer may go on with.
LEMMA EnterOn ==
    ASSUME CustomerIInv, NEW c \in CustomerCalls, NEW x \in Customers, NEW op, NEW n \in Nat,
           NEW v, v \in CustomerStatuses \union KycStatuses \union Privileges,
           EnterCustomerCall(c, CustomerCall(op, x, n, v)),
           Exists(x),
           \/ op \in {"capture", "delete_kyc"}
           \/ op \in {"resolve", "submit", "resubmit", "handle", "cancel", "privilege"} /\ ~Raw(x),
           op = "submit" => Kept(x),
           op = "handle" => v \in CustomerStatuses \ {"ABSENT"},
           op = "handle" /\ v \in Vetted => Approved(x),
           op = "privilege" => v \in Privileges,
           op \in {"resubmit", "cancel"} => n \in Requests
    PROVE  CustomerIInv'
<1>1. PICK k : k = CustomerCall(op, x, n, v)
  OBVIOUS
<1>2. op \in CustomerOps /\ op \notin Unowned
  BY DEF CustomerOps, Early, Unowned
<1>3. k \in CustomerCallType /\ k.op = op /\ k.customer = x /\ k.request = n /\ k.value = v
  BY <1>1, <1>2, CallRecord
<1>4. CustomerCallFits(k)
  BY <1>2, <1>3 DEF CustomerCallFits, ValueFits, Used
<1>. QED  BY <1>1, <1>3, <1>4, EnterInv DEF Early

\* A Customer that is vetted, or whose KycRecord exists, has come further.
LEMMA NotRaw ==
    ASSUME CustomerIInv, NEW x \in Customers
    PROVE  /\ HasKyc(x) => ~Raw(x)
           /\ customers[x].status \in Vetted => ~Raw(x) /\ Approved(x)
           /\ customers[x].privilege # "NONE" => ~Raw(x) /\ Exists(x)
           /\ \A r \in Requests : requests[r].customer = x => ~Raw(x)
<1>1. customers[x].privilege # "NONE" => Exists(x)
  BY DEF CustomerIInv, CustomerFits, NoCustomer
<1>2. customers[x].status \in Vetted => Approved(x)
  BY DEF CustomerIInv, CustomerFits
<1>. QED  BY <1>1, <1>2 DEF Raw, Vetted

\* A set of request numbers that is not empty has a largest one.
LEMMA LatestIsMember ==
    ASSUME NEW N \in Nat, NEW S, S \subseteq 1..N, S # {}
    PROVE  Max(S) \in S
<1>1. SUFFICES ASSUME \A x \in S : ~(\A y \in S : x >= y) PROVE FALSE
  BY DEF Max
<1>. DEFINE T == {n \in Nat : \E x \in S : x >= n}
<1>2. 0 \in T
  <2>1. PICK x \in S : x \in 1..N
    OBVIOUS
  <2>2. x >= 0
    BY <2>1
  <2>. QED  BY <2>1, <2>2
<1>3. ASSUME NEW n \in Nat, n \in T PROVE n + 1 \in T
  <2>1. PICK x \in S : x >= n
    BY <1>3
  <2>2. PICK y \in S : ~(x >= y)
    BY <1>1
  <2>3. y >= n + 1
    BY <2>1, <2>2
  <2>. QED  BY <2>3
<1>4. T = Nat
  <2>. HIDE DEF T
  <2>1. T \subseteq Nat
    BY DEF T
  <2>. QED  BY <1>2, <1>3, <2>1, NatInductiveSet
<1>5. N + 1 \in T
  BY <1>4
<1>. QED  BY <1>5

LEMMA ReadsInv ==
    ASSUME CustomerIInv, NEW c \in CustomerCalls, NEW x \in Customers,
           \/ CaptureRead(c, x) \/ ResolveMismatchRead(c, x) \/ SubmitRead(c, x)
           \/ ResubmitRead(c, x) \/ DeleteRead(c, x) \/ DisableRead(c, x) \/ EnableRead(c, x)
           \/ PrivilegeRequestRead(c, x) \/ EditRead(c, x)
           \/ \E granted \in BOOLEAN : PrivilegeDecisionRead(c, x, granted)
    PROVE  CustomerIInv'
<1>. USE DEF PendingCall
<1>1. "NONE" \in Privileges /\ "PENDING" \in Privileges /\ "GRANTED" \in Privileges
  BY DEF Privileges
<1>2. \A s \in Vetted \union Capturing : s # "ABSENT" /\ s \in CustomerStatuses
  BY DEF Vetted, Capturing, CustomerStatuses
<1>3. CASE CaptureRead(c, x)
  <2>1. Exists(x)
    BY <1>2, <1>3 DEF CaptureRead, Exists
  <2>. QED  BY <1>1, <1>3, <2>1, EnterOn DEF CaptureRead
<1>4. CASE ResolveMismatchRead(c, x)
  BY <1>1, <1>4, EnterOn, NotRaw DEF ResolveMismatchRead
<1>5. CASE SubmitRead(c, x)
  <2>1. Exists(x) /\ HasKyc(x) /\ Kept(x)
    BY <1>5 DEF SubmitRead, Exists, Submittable, Kept
  <2>. QED  BY <1>1, <1>5, <2>1, EnterOn, NotRaw DEF SubmitRead
<1>6. CASE ResubmitRead(c, x)
  <2>1. Exists(x) /\ HasKyc(x)
    BY <1>6 DEF ResubmitRead, Exists, Submittable
  <2>2. History(x) # {} /\ History(x) \subseteq 1..MaxRequests
    BY <1>6 DEF ResubmitRead, History, Requests
  <2>3. Max(History(x)) \in Nat /\ Max(History(x)) \in Requests
    BY <2>2, LatestIsMember, CustomerConstants DEF Requests
  <2>. QED  BY <1>1, <1>6, <2>1, <2>3, EnterOn, NotRaw DEF ResubmitRead
<1>7. CASE DeleteRead(c, x)
  <2>1. Exists(x)
    BY <1>2, <1>7 DEF DeleteRead, Deletable, Exists
  <2>2. CASE ActiveRequests(x) = {}
    BY <1>1, <1>7, <2>1, <2>2, EnterOn DEF DeleteRead
  <2>3. CASE ActiveRequests(x) # {}
    <3>1. PICK r \in ActiveRequests(x) : EnterCustomerCall(c, CustomerCall("cancel", x, r, "NONE"))
      BY <1>7, <2>3 DEF DeleteRead
    <3>2. r \in Requests /\ requests[r].customer = x /\ r \in Nat
      BY CustomerConstants DEF ActiveRequests, History, Requests
    <3>. QED  BY <1>1, <2>1, <3>1, <3>2, EnterOn, NotRaw
  <2>. QED  BY <2>2, <2>3
<1>8. CASE DisableRead(c, x)
  <2>1. customers[x].status \in Vetted /\ "DISABLED" \in Vetted
    BY <1>8 DEF DisableRead, Vetted
  <2>. QED  BY <1>2, <1>8, <2>1, EnterOn, NotRaw DEF DisableRead, Exists
<1>9. CASE EnableRead(c, x)
  <2>1. customers[x].status \in Vetted /\ "ACTIVE" \in Vetted
    BY <1>9 DEF EnableRead, Vetted
  <2>. QED  BY <1>2, <1>9, <2>1, EnterOn, NotRaw DEF EnableRead, Exists
<1>10. CASE PrivilegeRequestRead(c, x)
  <2>1. customers[x].status \in Vetted
    BY <1>10 DEF PrivilegeRequestRead, Vetted
  <2>. QED  BY <1>1, <1>2, <1>10, <2>1, EnterOn, NotRaw DEF PrivilegeRequestRead, Exists
<1>11. CASE EditRead(c, x)
  <2>1. customers[x].status \in Vetted
    BY <1>11 DEF EditRead, Vetted
  <2>. QED  BY <1>1, <1>2, <1>11, <2>1, EnterOn, NotRaw DEF EditRead, Exists
<1>12. ASSUME NEW granted \in BOOLEAN, PrivilegeDecisionRead(c, x, granted)
       PROVE  CustomerIInv'
  <2>1. ~Raw(x) /\ Exists(x)
    BY <1>12, NotRaw DEF PrivilegeDecisionRead
  <2>2. PICK v \in Privileges : EnterCustomerCall(c, CustomerCall("privilege", x, 0, v))
    BY <1>1, <1>12 DEF PrivilegeDecisionRead
  <2>. QED  BY <2>1, <2>2, EnterOn
<1>. QED  BY <1>3, <1>4, <1>5, <1>6, <1>7, <1>8, <1>9, <1>10, <1>11, <1>12

LEMMA CreationReadsInv ==
    ASSUME CustomerIInv, NEW c \in CustomerCalls, ConfirmRead(c) \/ VerifyRead(c)
    PROVE  CustomerIInv'
<1>1. PICK v \in {"DRAFT", "PENDING_APPROVAL"} :
         EnterCustomerCall(c, CustomerCall("create", NoCustomerId, 0, v))
  BY DEF ConfirmRead, VerifyRead
<1>2. PICK k : k = CustomerCall("create", NoCustomerId, 0, v)
  OBVIOUS
<1>3. k \in CustomerCallType /\ k.op = "create" /\ k.customer = NoCustomerId /\ k.value = v
  BY <1>2, CallRecord DEF CustomerOps, Unowned, CustomerStatuses
<1>4. CustomerCallFits(k)
  BY <1>3 DEF CustomerCallFits, ValueFits, Unowned
<1>. QED  BY <1>1, <1>2, <1>3, <1>4, EnterInv DEF Unowned

LEMMA QuietStepsInv ==
    ASSUME CustomerIInv, NEW c \in CustomerCalls,
           RecomputeRead(c) \/ ConsumePreview(c) \/ AbandonCustomerCall(c)
    PROVE  CustomerIInv'
<1>. USE DEF Unowned
<1>1. CASE ConsumePreview(c)
  BY <1>1, Ends, GoOn DEF ConsumePreview
<1>2. preview \in BOOLEAN
  BY DEF CustomerIInv, CustomerTypeInv
<1>3. CASE AbandonCustomerCall(c)
  BY <1>2, <1>3, Ends, GoOn DEF AbandonCustomerCall
<1>4. CASE RecomputeRead(c)
  <2>1. CASE HasKyc(Subject(c))
    <3>1. PICK k : k = CustomerCall("score", Subject(c), 0, KycStatus)
      OBVIOUS
    <3>2. CustomerContinue(c, k) /\ CustomerAt(c, "recompute")
      BY <1>4, <2>1, <3>1 DEF RecomputeRead
    <3>3. Subject(c) \in Customers /\ Used(Subject(c))
      BY <3>2 DEF CustomerIInv, CustomerCallFits, CustomerAt, Subject
    <3>4. KycStatus \in KycStatuses /\ (KycStatus = "VERIFIED" => kyc.biometric /\ ~kyc.flagged)
      BY DEF KycStatus, KycStatuses
    <3>5. k \in CustomerCallType /\ k.op = "score" /\ k.customer = Subject(c) /\ k.value = KycStatus
      BY <3>1, <3>3, <3>4, CallRecord DEF CustomerOps
    <3>6. CustomerCallFits(k)
      BY <3>3, <3>4, <3>5 DEF CustomerCallFits, ValueFits, Clean
    <3>. QED  BY <1>2, <1>4, <2>1, <3>2, <3>3, <3>5, <3>6, NotRaw, GoOn DEF RecomputeRead
  <2>2. CASE ~HasKyc(Subject(c))
    BY <1>2, <1>4, <2>2, Ends, GoOn DEF RecomputeRead
  <2>. QED  BY <2>1, <2>2
<1>. QED  BY <1>1, <1>3, <1>4

LEMMA Restated ==
    ASSUME CustomerIInv, NEW r \in Requests, NEW status, status \in CustomerRequestStatuses,
           requests[r].status \notin {"ABSENT", "APPROVED"}, status # "ABSENT",
           requests' = [requests EXCEPT ![r].status = status],
           UNCHANGED <<preview, customers, kyc, deletions>>
    PROVE  /\ Decisions
           /\ requests'[r].status = status /\ requests'[r].customer = requests[r].customer
           /\ requests[r].customer \in Customers
<1>1. PICK b \in CustomerRequestType : b = requests[r]
  BY DEF CustomerIInv, CustomerTypeInv
<1>2. PICK q : q = [b EXCEPT !.status = status]
  OBVIOUS
<1>3. q \in CustomerRequestType /\ q.status = status /\ q.customer = b.customer
  BY <1>2 DEF CustomerRequestType
<1>4. /\ requests' \in [Requests -> CustomerRequestType]
      /\ \A s \in Requests : requests'[s] = IF s = r THEN q ELSE requests[s]
  BY <1>1, <1>2, <1>3 DEF CustomerIInv, CustomerTypeInv
<1>5. preview' \in BOOLEAN
  BY DEF CustomerIInv, CustomerTypeInv
<1>6. Decisions
  BY <1>1, <1>3, <1>4, <1>5 DEF Decisions
<1>7. requests[r].customer \in Customers
  BY DEF CustomerIInv, RequestFits
<1>. QED  BY <1>1, <1>3, <1>4, <1>6, <1>7

LEMMA LinkInv ==
    ASSUME CustomerIInv, NEW c \in CustomerCalls, LinkEntity(c)
    PROVE  CustomerIInv'
<1>. DEFINE r == customerCalls[c].request
<1>1. CASE r \in Requests
  <2>1. PICK b \in CustomerRequestType : b = requests[r]
    BY <1>1 DEF CustomerIInv, CustomerTypeInv
  <2>2. PICK q : q = [b EXCEPT !.linked = TRUE]
    OBVIOUS
  <2>3. q \in CustomerRequestType /\ q.status = b.status /\ q.customer = b.customer
    BY <2>2 DEF CustomerRequestType
  <2>4. /\ requests' \in [Requests -> CustomerRequestType]
        /\ \A s \in Requests : requests'[s] = IF s = r THEN q ELSE requests[s]
    BY <1>1, <2>1, <2>2, <2>3 DEF CustomerIInv, CustomerTypeInv, LinkEntity
  <2>5. Decisions
    BY <2>1, <2>3, <2>4 DEF Decisions, LinkEntity, CustomerIInv, CustomerTypeInv
  <2>. QED  BY <2>5, Ends, DecisionStep DEF LinkEntity, Unowned
<1>2. CASE r \notin Requests
  <2>1. requests' = requests
    BY <1>2 DEF LinkEntity, CustomerIInv, CustomerTypeInv
  <2>2. preview' \in BOOLEAN
    BY DEF LinkEntity, CustomerIInv, CustomerTypeInv
  <2>. QED  BY <2>1, <2>2, Ends, GoOn DEF LinkEntity, Unowned
<1>. QED  BY <1>1, <1>2

LEMMA ResubmitInv ==
    ASSUME CustomerIInv, NEW c \in CustomerCalls, Resubmit(c)
    PROVE  CustomerIInv'
<1>. DEFINE r == customerCalls[c].request
<1>1. /\ CustomerAt(c, "resubmit") /\ preview' \in BOOLEAN
      /\ r \in Requests
  BY DEF Resubmit, CustomerIInv, CustomerTypeInv, CustomerCallFits, ValueFits, CustomerAt
<1>2. PICK x \in Customers : x = Subject(c) /\ Used(x)
  BY <1>1 DEF CustomerIInv, CustomerCallFits, CustomerAt, Subject, Unowned
<1>3. CASE requests[r].status \in {"REJECTED", "RETURNED_TO_MAKER"}
  <2>1. /\ requests' = [requests EXCEPT ![r].status = "OPEN"]
        /\ UNCHANGED <<preview, customers, kyc, deletions>>
    BY <1>3 DEF Resubmit
  <2>2. Decisions
    BY <1>1, <1>3, <2>1, Restated DEF CustomerRequestStatuses
  <2>3. PICK k : k = CustomerCall("handle", x, 0, "PENDING_APPROVAL")
    OBVIOUS
  <2>4. CustomerContinue(c, k)
    BY <1>2, <1>3, <2>3 DEF Resubmit
  <2>5. /\ k \in CustomerCallType /\ k.op = "handle" /\ k.customer = x
        /\ k.value = "PENDING_APPROVAL"
    BY <2>3, CallRecord DEF CustomerOps, CustomerStatuses
  <2>6. Used(x)'
    BY <1>2, <2>1 DEF Used, Exists
  <2>7. CustomerCallFits(k)'
    BY <2>5, <2>6 DEF CustomerCallFits, ValueFits, CustomerStatuses, Vetted, Unowned
  <2>8. \A d \in CustomerCalls \ {c} : CustomerAt(d, "create_kyc") => Subject(d) # k.customer
    BY <1>1, <1>2, <2>5, NotMaking DEF CustomerAt, Unowned, Early
  <2>. QED  BY <2>2, <2>4, <2>5, <2>7, <2>8, DecisionStep
<1>4. CASE requests[r].status \notin {"REJECTED", "RETURNED_TO_MAKER"}
  BY <1>1, <1>4, Ends, GoOn DEF Resubmit, Unowned
<1>. QED  BY <1>3, <1>4

LEMMA DecideInv ==
    ASSUME CustomerIInv, NEW c \in CustomerCalls, NEW r \in Requests,
           NEW v \in {"APPROVED", "REJECTED", "RETURNED_TO_MAKER"}, DecideCustomer(c, r, v)
    PROVE  CustomerIInv'
<1>1. /\ requests[r].status = "OPEN"
      /\ requests' = [requests EXCEPT ![r].status = v]
      /\ UNCHANGED <<preview, customers, kyc, deletions>>
  BY DEF DecideCustomer
<1>2. /\ Decisions
      /\ requests'[r].status = v /\ requests'[r].customer = requests[r].customer
      /\ requests[r].customer \in Customers
  BY <1>1, Restated DEF CustomerRequestStatuses
<1>3. CASE UNCHANGED customerCalls
  BY <1>2, <1>3, DecisionAlone
<1>4. CASE v # "RETURNED_TO_MAKER" /\
           CustomerContinue(c, CustomerCall("handle", requests[r].customer, 0, Outcome(v)))
  <2>. DEFINE x == requests[r].customer
  <2>1. PICK k : k = CustomerCall("handle", x, 0, Outcome(v))
    OBVIOUS
  <2>2. Outcome(v) \in {"ACTIVE", "REJECTED"} /\ (Outcome(v) = "ACTIVE" <=> v = "APPROVED")
    BY DEF Outcome
  <2>3. k \in CustomerCallType /\ k.op = "handle" /\ k.customer = x /\ k.value = Outcome(v)
    BY <1>2, <2>1, <2>2, CallRecord DEF CustomerOps, CustomerStatuses, Vetted
  <2>4. Used(x)'
    <3>1. Used(x)
      BY <1>1 DEF CustomerIInv, RequestFits
    <3>. QED  BY <1>1, <1>2, <3>1 DEF Used, Exists
  <2>5. v = "APPROVED" => Approved(k.customer)'
    BY <1>2, <2>3 DEF Approved
  <2>6. CustomerCallFits(k)'
    <3>1. k.customer \in Customers /\ Used(k.customer)'
      BY <1>2, <2>3, <2>4 DEF Used, Exists
    <3>. QED  BY <2>2, <2>3, <2>5, <3>1 DEF CustomerCallFits, ValueFits, CustomerStatuses, Vetted, Unowned
  <2>7. \A d \in CustomerCalls \ {c} : CustomerAt(d, "create_kyc") => Subject(d) # k.customer
    BY <1>2, <2>3, NotRaw, NotMaking
  <2>. QED  BY <1>2, <1>4, <2>1, <2>3, <2>6, <2>7, DecisionStep
<1>. QED  BY <1>3, <1>4 DEF DecideCustomer

LEMMA CloseRequestInv ==
    ASSUME CustomerIInv, NEW r \in Requests, NEW v \in {"CANCELLED", "DELETED"},
           CloseRequest(r, v)
    PROVE  CustomerIInv'
<1>1. requests[r].status \notin {"ABSENT", "APPROVED"}
  BY DEF CloseRequest
<1>. QED  BY <1>1, Restated, DecisionAlone DEF CloseRequest, CustomerRequestStatuses

LEMMA DeleteCancelInv ==
    ASSUME CustomerIInv, NEW c \in CustomerCalls, DeleteCancel(c)
    PROVE  CustomerIInv'
<1>. DEFINE r == customerCalls[c].request
<1>1. /\ CustomerAt(c, "cancel") /\ preview' \in BOOLEAN
      /\ r \in Requests
  BY DEF DeleteCancel, CustomerIInv, CustomerTypeInv, CustomerCallFits, ValueFits, CustomerAt
<1>2. PICK x \in Customers : x = Subject(c) /\ Used(x)
  BY <1>1 DEF CustomerIInv, CustomerCallFits, CustomerAt, Subject, Unowned
<1>3. CASE requests[r].status \in Active
  <2>1. /\ requests' = [requests EXCEPT ![r].status = "CANCELLED"]
        /\ UNCHANGED <<preview, customers, kyc, deletions>>
    BY <1>3 DEF DeleteCancel
  <2>2. Decisions
    BY <1>1, <1>3, <2>1, Restated DEF CustomerRequestStatuses, Active
  <2>3. PICK k : k = CustomerCall("delete_kyc", x, 0, "NONE")
    OBVIOUS
  <2>4. CustomerContinue(c, k)
    BY <1>2, <1>3, <2>3 DEF DeleteCancel, PendingCall
  <2>5. k \in CustomerCallType /\ k.op = "delete_kyc" /\ k.customer = x
    BY <2>3, CallRecord DEF CustomerOps, Early, Privileges
  <2>6. Used(x)'
    BY <1>2, <2>1 DEF Used, Exists
  <2>7. CustomerCallFits(k)'
    BY <2>5, <2>6 DEF CustomerCallFits, ValueFits, Unowned
  <2>. QED  BY <2>2, <2>4, <2>5, <2>7, DecisionStep DEF Early
<1>4. CASE requests[r].status \notin Active
  BY <1>1, <1>4, Ends, GoOn DEF DeleteCancel, Unowned
<1>. QED  BY <1>3, <1>4

-----------------------------------------------------------------------------
\* A save of one field of a Customer that has got beyond its creation.
LEMMA SavedInv ==
    ASSUME CustomerIInv, NEW c \in CustomerCalls, NEW x \in Customers, x = Subject(c), Exists(x),
           customerCalls[c].op \notin Unowned \union Early \union {"create_kyc"},
           NEW y \in CustomerType, customers' = [customers EXCEPT ![x] = y],
           y.status # "ABSENT",
           y.status \in Vetted => Approved(x),
           y.kycStatus = "VERIFIED" => Clean(x),
           NEW k \in CustomerCallType, CustomerContinue(c, k), CustomerCallFits(k),
           k.op \in {"idle", "initiate"}, k.op = "initiate" => k.customer = x,
           UNCHANGED <<preview, kyc, requests, deletions>>
    PROVE  CustomerIInv'
<1>1. /\ \A z \in Customers : customers'[z] = IF z = x THEN y ELSE customers[z]
      /\ customers' \in [Customers -> CustomerType]
  BY DEF CustomerIInv, CustomerTypeInv
<1>2. \A d \in CustomerCalls \ {c} : CustomerAt(d, "create_kyc") => Subject(d) # x
  BY NotMaking
<1>3. \A z \in Customers : Used(z) => Used(z)'
  BY <1>1 DEF Used, Exists
<1>4. \A z \in Customers : /\ Approved(z) <=> Approved(z)'
                           /\ HasKyc(z) <=> HasKyc(z)'
                           /\ Kept(z) <=> Kept(z)'
                           /\ Clean(z) <=> Clean(z)'
  BY DEF Approved, Kept, Clean, HasKyc
<1>5. ASSUME NEW d \in CustomerCalls, CustomerAt(d, "create_kyc"), customerCalls'[d] = customerCalls[d]
      PROVE  Raw(Subject(d))'
  <2>1. PICK z \in Customers : z = Subject(d) /\ Raw(z)
    BY <1>5, MakerIsAlone DEF Making
  <2>2. z # x
    BY <1>2, <1>5, <2>1 DEF CustomerAt
  <2>3. Raw(z)' /\ z = Subject(d)'
    BY <1>1, <1>5, <2>1, <2>2 DEF Subject, Raw, HasKyc
  <2>. QED  BY <2>3 DEF Raw, HasKyc
<1>6. Persists
  BY <1>3, <1>4, <1>5 DEF Persists
<1>7. \A z \in Customers : CustomerFits(z)'
  <2>1. ASSUME NEW z \in Customers, z # x PROVE CustomerFits(z)'
    BY <1>1, <1>4, <1>6, <2>1, CustomerPersists
  <2>2. CustomerFits(x)'
    BY <1>1, <1>4 DEF CustomerFits, Exists, Used
  <2>. QED  BY <2>1, <2>2
<1>8. \A r \in Requests : RequestFits(requests[r])'
  <2>1. ASSUME NEW r \in Requests PROVE RequestFits(requests[r])'
    <3>1. PICK q : q = requests[r] /\ q = requests'[r]
      OBVIOUS
    <3>2. RequestFits(q)'
      BY <1>6, <3>1, RequestPersists
    <3>. QED  BY <3>1, <3>2
  <2>. QED  BY <2>1
<1>9. CustomerCallFits(k)'
  <2>1. Used(x)'
    BY <1>1 DEF Used, Exists
  <2>. QED  BY <1>4, <2>1 DEF CustomerCallFits, Unowned
<1>10. preview' \in BOOLEAN /\ kyc' \in KycType /\ requests' \in [Requests -> CustomerRequestType]
       /\ deletions' \subseteq Customers
  BY DEF CustomerIInv, CustomerTypeInv
<1>. QED  BY <1>1, <1>2, <1>6, <1>7, <1>8, <1>9, <1>10, CustomerStepInv DEF Unowned

\* What the save may write.
LEMMA SaveInv ==
    ASSUME CustomerIInv, NEW c \in CustomerCalls, NEW field, NEW value,
           customerCalls[c].op \notin Unowned \union Early \union {"create_kyc"},
           NEW next \in CustomerCallType, Save(c, field, value, next),
           next.op \in {"idle", "initiate"}, next.op = "initiate" => next.customer = Subject(c),
           CustomerCallFits(next),
           \/ /\ field = "status" /\ value \in CustomerStatuses \ {"ABSENT"}
              /\ value \in Vetted => Approved(Subject(c))
           \/ /\ field = "kycStatus" /\ value \in KycStatuses
              /\ value = "VERIFIED" => Clean(Subject(c))
           \/ field = "privilege" /\ value \in Privileges
    PROVE  CustomerIInv'
<1>1. PICK x \in Customers : x = Subject(c)
  BY DEF CustomerIInv, CustomerCallFits, Subject
<1>2. CASE Exists(x)
  <2>1. PICK b \in CustomerType : b = customers[x]
    BY DEF CustomerIInv, CustomerTypeInv
  <2>2. /\ b.status # "ABSENT"
        /\ b.status \in Vetted => Approved(x)
        /\ b.kycStatus = "VERIFIED" => Clean(x)
    BY <1>2, <2>1 DEF CustomerIInv, CustomerFits, Exists
  <2>3. PICK y : y = [b EXCEPT ![field] = value]
    OBVIOUS
  <2>4. /\ customers' = [customers EXCEPT ![x] = y]
        /\ CustomerContinue(c, next)
        /\ UNCHANGED <<preview, kyc, requests, deletions>>
    BY <1>1, <1>2, <2>1, <2>3 DEF Save
  <2>5. CASE field = "status"
    <3>1. y = [b EXCEPT !.status = value]
      BY <2>3, <2>5
    <3>2. y \in CustomerType /\ y.status = value /\ y.kycStatus = b.kycStatus
      BY <2>5, <3>1 DEF CustomerType
    <3>. QED  BY <1>1, <1>2, <2>2, <2>4, <2>5, <3>2, SavedInv
  <2>6. CASE field = "kycStatus"
    <3>1. y = [b EXCEPT !.kycStatus = value]
      BY <2>3, <2>6
    <3>2. y \in CustomerType /\ y.kycStatus = value /\ y.status = b.status
      BY <2>6, <3>1 DEF CustomerType
    <3>. QED  BY <1>1, <1>2, <2>2, <2>4, <2>6, <3>2, SavedInv
  <2>7. CASE field = "privilege"
    <3>1. y = [b EXCEPT !.privilege = value]
      BY <2>3, <2>7
    <3>2. y \in CustomerType /\ y.kycStatus = b.kycStatus /\ y.status = b.status
      BY <2>7, <3>1 DEF CustomerType
    <3>. QED  BY <1>1, <1>2, <2>2, <2>4, <2>7, <3>2, SavedInv
  <2>. QED  BY <2>5, <2>6, <2>7
<1>3. CASE ~Exists(x)
  <2>1. UNCHANGED <<preview, customers, kyc, requests, deletions>> /\ CustomerContinue(c, CustomerIdle)
    BY <1>1, <1>3 DEF Save
  <2>2. preview' \in BOOLEAN
    BY <2>1 DEF CustomerIInv, CustomerTypeInv
  <2>. QED  BY <2>1, <2>2, Ends, GoOn DEF Unowned
<1>. QED  BY <1>2, <1>3

LEMMA SavesInv ==
    ASSUME CustomerIInv, NEW c \in CustomerCalls,
           Score(c) \/ Submit(c) \/ Handle(c) \/ SetPrivilege(c)
    PROVE  CustomerIInv'
<1>1. CustomerCallFits(customerCalls[c])
  BY DEF CustomerIInv
<1>2. /\ CustomerIdle \in CustomerCallType /\ CustomerIdle.op = "idle"
      /\ CustomerCallFits(CustomerIdle)
  <2>1. PICK k : k = CustomerIdle
    OBVIOUS
  <2>. QED  BY <2>1, Ends DEF CustomerIdle, CustomerCall
<1>3. CASE Score(c)
  <2>1. customerCalls[c].op = "score" /\ Save(c, "kycStatus", customerCalls[c].value, CustomerIdle)
    BY <1>3 DEF Score, CustomerAt
  <2>2. /\ customerCalls[c].value \in KycStatuses
        /\ customerCalls[c].value = "VERIFIED" => Clean(Subject(c))
    BY <1>1, <2>1 DEF CustomerCallFits, ValueFits, Subject
  <2>. QED  BY <1>2, <2>1, <2>2, SaveInv DEF Unowned, Early
<1>4. CASE Handle(c)
  <2>1. customerCalls[c].op = "handle" /\ Save(c, "status", customerCalls[c].value, CustomerIdle)
    BY <1>4 DEF Handle, CustomerAt
  <2>2. /\ customerCalls[c].value \in CustomerStatuses \ {"ABSENT"}
        /\ customerCalls[c].value \in Vetted => Approved(Subject(c))
    BY <1>1, <2>1 DEF CustomerCallFits, ValueFits, Subject
  <2>. QED  BY <1>2, <2>1, <2>2, SaveInv DEF Unowned, Early
<1>5. CASE SetPrivilege(c)
  <2>1. customerCalls[c].op = "privilege" /\ Save(c, "privilege", customerCalls[c].value, CustomerIdle)
    BY <1>5 DEF SetPrivilege, CustomerAt
  <2>2. customerCalls[c].value \in Privileges
    BY <1>1, <2>1 DEF CustomerCallFits, ValueFits
  <2>. QED  BY <1>2, <2>1, <2>2, SaveInv DEF Unowned, Early
<1>6. CASE Submit(c)
  <2>1. PICK k : k = CustomerCall("initiate", Subject(c), 0, "NONE")
    OBVIOUS
  <2>2. customerCalls[c].op = "submit" /\ Save(c, "status", "PENDING_APPROVAL", k)
    BY <1>6, <2>1 DEF Submit, CustomerAt, PendingCall
  <2>3. Subject(c) \in Customers /\ Used(Subject(c)) /\ Kept(Subject(c))
    BY <1>1, <2>2 DEF CustomerCallFits, Subject, Unowned
  <2>4. k \in CustomerCallType /\ k.op = "initiate" /\ k.customer = Subject(c)
    BY <2>1, <2>3, CallRecord DEF CustomerOps, Privileges
  <2>5. CustomerCallFits(k)
    BY <2>3, <2>4 DEF CustomerCallFits, ValueFits, Unowned
  <2>6. "PENDING_APPROVAL" \in CustomerStatuses \ {"ABSENT"} /\ "PENDING_APPROVAL" \notin Vetted
    BY DEF CustomerStatuses, Vetted
  <2>. QED  BY <2>2, <2>4, <2>5, <2>6, SaveInv DEF Unowned, Early
<1>. QED  BY <1>3, <1>4, <1>5, <1>6

\* An identity that is not used yet.
LEMMA UnusedIsNowhere ==
    ASSUME CustomerIInv, NEW x \in Unused
    PROVE  /\ x \in Customers /\ ~Used(x) /\ ~HasKyc(x) /\ customers[x] = NoCustomer
           /\ \A d \in CustomerCalls : Subject(d) # x
           /\ \A r \in Requests : requests[r].customer # x
<1>1. x \in Customers /\ ~Used(x)
  BY DEF Unused, Used
<1>2. \A d \in CustomerCalls : Subject(d) # x
  BY <1>1, CustomerConstants DEF CustomerIInv, CustomerCallFits, Subject
<1>3. \A r \in Requests : requests[r].customer # x
  BY <1>1, CustomerConstants DEF CustomerIInv, RequestFits
<1>4. ~HasKyc(x) /\ customers[x] = NoCustomer
  BY <1>1 DEF CustomerIInv, CustomerFits, Used
<1>. QED  BY <1>1, <1>2, <1>3, <1>4

LEMMA CreateInv ==
    ASSUME CustomerIInv, NEW c \in CustomerCalls, Create(c)
    PROVE  CustomerIInv'
<1>. DEFINE value == customerCalls[c].value
<1>1. PICK x \in Unused :
         /\ customers' = [customers EXCEPT ![x].status = value]
         /\ CustomerContinue(c, CustomerCall("create_kyc", x, 0, value))
  BY DEF Create
<1>2. value \in {"DRAFT", "PENDING_APPROVAL"} /\ UNCHANGED <<preview, kyc, requests, deletions>>
  BY DEF Create, CustomerAt, CustomerIInv, CustomerCallFits, ValueFits
<1>3. /\ x \in Customers /\ ~Used(x) /\ ~HasKyc(x) /\ customers[x] = NoCustomer
      /\ \A d \in CustomerCalls : Subject(d) # x
      /\ \A r \in Requests : requests[r].customer # x
  BY UnusedIsNowhere
<1>4. PICK y : y = [NoCustomer EXCEPT !.status = value]
  OBVIOUS
<1>5. /\ y \in CustomerType /\ y.status = value /\ y.kycStatus = "INCOMPLETE"
      /\ y.privilege = "NONE"
  BY <1>2, <1>4 DEF NoCustomer, CustomerType, CustomerStatuses, KycStatuses, Privileges
<1>6. /\ \A z \in Customers : customers'[z] = IF z = x THEN y ELSE customers[z]
      /\ customers' \in [Customers -> CustomerType]
  BY <1>1, <1>3, <1>4, <1>5 DEF CustomerIInv, CustomerTypeInv
<1>7. PICK k : k = CustomerCall("create_kyc", x, 0, value)
  OBVIOUS
<1>8. k \in CustomerCallType /\ k.op = "create_kyc" /\ k.customer = x /\ k.value = value
  BY <1>2, <1>3, <1>7, CallRecord DEF CustomerOps, CustomerStatuses
<1>9. \A z \in Customers : /\ Used(z) => Used(z)'
                           /\ Approved(z) <=> Approved(z)'
                           /\ HasKyc(z) <=> HasKyc(z)'
                           /\ Kept(z) <=> Kept(z)'
                           /\ Clean(z) <=> Clean(z)'
  BY <1>2, <1>3, <1>6 DEF Used, Exists, Approved, Kept, Clean, HasKyc
<1>10. ASSUME NEW d \in CustomerCalls, CustomerAt(d, "create_kyc"), customerCalls'[d] = customerCalls[d]
       PROVE  Raw(Subject(d))'
  <2>1. PICK z \in Customers : z = Subject(d) /\ Raw(z)
    BY <1>10, MakerIsAlone DEF Making
  <2>2. z # x
    BY <1>3, <2>1
  <2>3. Raw(z)' /\ z = Subject(d)'
    BY <1>2, <1>6, <1>10, <2>1, <2>2 DEF Subject, Raw, HasKyc
  <2>. QED  BY <2>3 DEF Raw, HasKyc
<1>11. Persists
  BY <1>2, <1>9, <1>10 DEF Persists
<1>12. \A z \in Customers : CustomerFits(z)'
  <2>1. ASSUME NEW z \in Customers, z # x PROVE CustomerFits(z)'
    BY <1>6, <1>9, <1>11, <2>1, CustomerPersists
  <2>2. CustomerFits(x)'
    BY <1>2, <1>3, <1>5, <1>6, <1>9 DEF CustomerFits, Exists, Used, Vetted
  <2>. QED  BY <2>1, <2>2
<1>13. \A r \in Requests : RequestFits(requests[r])'
  <2>1. ASSUME NEW r \in Requests PROVE RequestFits(requests[r])'
    <3>1. PICK q : q = requests[r] /\ q = requests'[r]
      BY <1>2
    <3>2. RequestFits(q)'
      BY <1>11, <3>1, RequestPersists
    <3>. QED  BY <3>1, <3>2
  <2>. QED  BY <2>1
<1>14. CustomerCallFits(k)'
  <2>1. Used(x)'
    BY <1>2, <1>3, <1>5, <1>6 DEF Used, Exists
  <2>2. Raw(x)'
    BY <1>2, <1>3, <1>5, <1>6, <1>9 DEF Raw
  <2>. QED  BY <1>2, <1>3, <1>8, <2>1, <2>2 DEF CustomerCallFits, ValueFits, Unowned
<1>15. preview' \in BOOLEAN /\ kyc' \in KycType /\ requests' \in [Requests -> CustomerRequestType]
       /\ deletions' \subseteq Customers
  BY <1>2 DEF CustomerIInv, CustomerTypeInv
<1>16. CustomerContinue(c, k)
  BY <1>1, <1>7
<1>. QED  BY <1>3, <1>6, <1>8, <1>11, <1>12, <1>13, <1>14, <1>15, <1>16, CustomerStepInv

\* Steps that write the KycRecord only.
KycStep ==
    /\ kyc' \in KycType
    /\ deletions' \subseteq Customers /\ deletions \subseteq deletions'
    /\ UNCHANGED <<customers, requests>>
    /\ preview' \in BOOLEAN
    /\ \A x \in Customers : HasKyc(x)' => HasKyc(x) \/ Making(x)
    /\ \A x \in Customers : ~Making(x) => (Kept(x) => Kept(x)') /\ (Clean(x) => Clean(x)')
    /\ \A d \in CustomerCalls :
          CustomerAt(d, "create_kyc") /\ customerCalls'[d] = customerCalls[d] =>
             kyc'.owner # Subject(d)

LEMMA KycStepInv ==
    ASSUME CustomerIInv, KycStep, NEW c \in CustomerCalls, NEW k \in CustomerCallType,
           CustomerContinue(c, k), CustomerCallFits(k)', k.op # "create_kyc",
           \/ k.op \in Unowned \union Early
           \/ k.customer = Subject(c) /\ customerCalls[c].op \notin Unowned \union Early
           \/ k.customer \in Customers /\ HasKyc(k.customer)
    PROVE  CustomerIInv'
<1>. USE DEF KycStep
<1>1. \A z \in Customers : /\ Used(z) => Used(z)'
                           /\ Approved(z) <=> Approved(z)'
  BY DEF Used, Exists, Approved
<1>2. ASSUME NEW d \in CustomerCalls, CustomerAt(d, "create_kyc"), customerCalls'[d] = customerCalls[d]
      PROVE  Raw(Subject(d))'
  <2>1. PICK z \in Customers : z = Subject(d) /\ Raw(z)
    BY <1>2, MakerIsAlone DEF Making
  <2>2. Raw(z)' /\ z = Subject(d)'
    BY <1>2, <2>1 DEF Subject, Raw, HasKyc
  <2>. QED  BY <2>2 DEF Raw, HasKyc
<1>3. Persists
  BY <1>1, <1>2 DEF Persists
<1>4. \A z \in Customers : CustomerFits(z)'
  BY <1>3, CustomerPersists
<1>5. \A r \in Requests : RequestFits(requests[r])'
  <2>1. ASSUME NEW r \in Requests PROVE RequestFits(requests[r])'
    <3>1. PICK q : q = requests[r] /\ q = requests'[r]
      OBVIOUS
    <3>2. RequestFits(q)'
      BY <1>3, <3>1, RequestPersists
    <3>. QED  BY <3>1, <3>2
  <2>. QED  BY <2>1
<1>6. customers' \in [Customers -> CustomerType] /\ requests' \in [Requests -> CustomerRequestType]
  BY DEF CustomerIInv, CustomerTypeInv
<1>7. \/ k.op \in Unowned \union Early
      \/ \A d \in CustomerCalls \ {c} : CustomerAt(d, "create_kyc") => Subject(d) # k.customer
  BY NotRaw, NotMaking
<1>. QED  BY <1>3, <1>4, <1>5, <1>6, <1>7, CustomerStepInv

LEMMA CreateKycInv ==
    ASSUME CustomerIInv, NEW c \in CustomerCalls, CreateKyc(c)
    PROVE  CustomerIInv'
<1>1. /\ CustomerAt(c, "create_kyc") /\ UNCHANGED <<preview, customers, requests, deletions>>
      /\ preview' \in BOOLEAN
  BY DEF CreateKyc, CustomerIInv, CustomerTypeInv
<1>2. PICK x \in Customers : x = Subject(c)
  BY <1>1, MakerIsAlone
<1>3. CASE kyc.owner = NoCustomerId
  <2>1. PICK flagged \in BOOLEAN :
           /\ kyc' = [owner |-> x, biometric |-> FALSE, flagged |-> flagged]
           /\ CustomerContinue(c, IF customerCalls[c].value = "DRAFT"
                                  THEN CustomerCall("consume_preview", x, 0, "NONE")
                                  ELSE CustomerIdle)
    BY <1>2, <1>3 DEF CreateKyc, PendingCall
  <2>2. kyc' \in KycType /\ kyc'.owner = x
    BY <2>1 DEF KycType
  <2>3. \A z \in Customers : /\ HasKyc(z)' => z = x
                             /\ ~HasKyc(z)
    BY <1>2, <1>3, <2>2, CustomerConstants DEF HasKyc
  <2>4. Making(x)
    BY <1>1, <1>2 DEF Making
  <2>5. ASSUME NEW z \in Customers, ~Making(z)
        PROVE  (Kept(z) => Kept(z)') /\ (Clean(z) => Clean(z)')
    <3>1. z # x /\ ~HasKyc(z)' /\ ~HasKyc(z)
      BY <2>3, <2>4, <2>5
    <3>. QED  BY <1>1, <3>1 DEF Kept, Clean
  <2>6. ASSUME NEW k \in CustomerCallType, CustomerContinue(c, k),
               k.op = "idle" \/ (k.op = "consume_preview" /\ k.customer = x),
               CustomerCallFits(k)'
        PROVE  CustomerIInv'
    <3>1. customerCalls'[c] = k
      BY <2>6 DEF CustomerContinue, CustomerIInv, CustomerTypeInv
    <3>2. ASSUME NEW d \in CustomerCalls, CustomerAt(d, "create_kyc"), customerCalls'[d] = customerCalls[d]
          PROVE  kyc'.owner # Subject(d)
      <4>1. d # c
        BY <2>6, <3>1, <3>2 DEF CustomerAt
      <4>2. Subject(d) # x
        BY <1>1, <1>2, <3>2, <4>1, MakerIsAlone DEF CustomerAt, Early
      <4>. QED  BY <2>2, <4>2
    <3>3. deletions' \subseteq Customers
      BY <1>1 DEF CustomerIInv, CustomerTypeInv
    <3>4. KycStep
      BY <1>1, <2>2, <2>3, <2>4, <2>5, <3>2, <3>3 DEF KycStep
    <3>. QED  BY <1>1, <1>2, <2>6, <3>4, KycStepInv DEF CustomerAt, Unowned, Early
  <2>7. CASE customerCalls[c].value = "DRAFT"
    <3>1. PICK k : k = CustomerCall("consume_preview", x, 0, "NONE")
      OBVIOUS
    <3>2. k \in CustomerCallType /\ k.op = "consume_preview" /\ k.customer = x
      BY <3>1, CallRecord DEF CustomerOps, Privileges
    <3>3. Used(x)'
      <4>1. Used(x)
        BY <1>1, <1>2 DEF CustomerIInv, CustomerCallFits, CustomerAt, Subject, Unowned
      <4>. QED  BY <1>1, <4>1 DEF Used, Exists
    <3>4. CustomerCallFits(k)'
      BY <3>2, <3>3 DEF CustomerCallFits, ValueFits, Unowned
    <3>. QED  BY <2>1, <2>6, <2>7, <3>1, <3>2, <3>4
  <2>8. CASE customerCalls[c].value # "DRAFT"
    <3>1. PICK k : k = CustomerIdle
      OBVIOUS
    <3>2. k \in CustomerCallType /\ k.op = "idle" /\ CustomerCallFits(k)'
      BY <3>1, Ends DEF CustomerIdle, CustomerCall
    <3>. QED  BY <2>1, <2>6, <2>8, <3>1, <3>2
  <2>. QED  BY <2>7, <2>8
<1>4. CASE kyc.owner # NoCustomerId
  BY <1>1, <1>4, Ends, GoOn DEF CreateKyc, Unowned
<1>. QED  BY <1>3, <1>4

\* captureBiometric and resolveIdentityMismatch improve the record they find.
LEMMA CaptureInv ==
    ASSUME CustomerIInv, NEW c \in CustomerCalls, Capture(c) \/ Resolve(c)
    PROVE  CustomerIInv'
<1>1. /\ customerCalls[c].op \in {"capture", "resolve"}
      /\ UNCHANGED <<preview, customers, requests, deletions>> /\ preview' \in BOOLEAN
  BY DEF Capture, Resolve, CustomerAt, CustomerIInv, CustomerTypeInv
<1>2. PICK x \in Customers : x = Subject(c) /\ Used(x)
  BY <1>1 DEF CustomerIInv, CustomerCallFits, Subject, Unowned
<1>3. CASE HasKyc(x)
  <2>1. PICK b \in KycType : b = kyc
    BY DEF CustomerIInv, CustomerTypeInv
  <2>2. PICK new : new = kyc'
    OBVIOUS
  <2>3. new = [b EXCEPT !.biometric = TRUE] \/ new = [b EXCEPT !.flagged = FALSE]
    BY <1>2, <1>3, <2>1, <2>2 DEF Capture, Resolve
  <2>4. /\ new \in KycType /\ new.owner = b.owner
        /\ b.biometric => new.biometric
        /\ ~b.flagged => ~new.flagged
    <3>1. CASE new = [b EXCEPT !.biometric = TRUE]
      BY <3>1 DEF KycType
    <3>2. CASE new = [b EXCEPT !.flagged = FALSE]
      BY <3>2 DEF KycType
    <3>. QED  BY <2>3, <3>1, <3>2
  <2>5. \A z \in Customers : /\ HasKyc(z)' <=> HasKyc(z)
                             /\ Kept(z) => Kept(z)'
                             /\ Clean(z) => Clean(z)'
    BY <1>1, <2>1, <2>2, <2>4 DEF HasKyc, Kept, Clean
  <2>6. \A d \in CustomerCalls : CustomerAt(d, "create_kyc") => kyc'.owner # Subject(d)
    BY <2>1, <2>2, <2>4, MakerIsAlone DEF Making, Raw, HasKyc
  <2>7. deletions' \subseteq Customers
    BY <1>1 DEF CustomerIInv, CustomerTypeInv
  <2>8. KycStep
    BY <1>1, <2>2, <2>4, <2>5, <2>6, <2>7 DEF KycStep
  <2>9. PICK k : k = CustomerCall("recompute", x, 0, "NONE")
    OBVIOUS
  <2>10. k \in CustomerCallType /\ k.op = "recompute" /\ k.customer = x
    BY <2>9, CallRecord DEF CustomerOps, Privileges
  <2>11. CustomerContinue(c, k)
    BY <1>2, <1>3, <2>9 DEF Capture, Resolve, PendingCall
  <2>12. Used(x)'
    BY <1>1, <1>2 DEF Used, Exists
  <2>13. CustomerCallFits(k)'
    BY <2>10, <2>12 DEF CustomerCallFits, ValueFits, Unowned
  <2>. QED  BY <1>3, <2>8, <2>10, <2>11, <2>13, KycStepInv
<1>4. CASE ~HasKyc(x)
  BY <1>1, <1>2, <1>4, Ends, GoOn DEF Capture, Resolve, Unowned
<1>. QED  BY <1>3, <1>4

LEMMA DeleteKycInv ==
    ASSUME CustomerIInv, NEW c \in CustomerCalls, DeleteKyc(c)
    PROVE  CustomerIInv'
<1>1. /\ customerCalls[c].op = "delete_kyc"
      /\ UNCHANGED <<preview, customers, requests>> /\ preview' \in BOOLEAN
  BY DEF DeleteKyc, CustomerAt, CustomerIInv, CustomerTypeInv
<1>2. PICK x \in Customers : x = Subject(c) /\ Used(x)
  BY <1>1 DEF CustomerIInv, CustomerCallFits, Subject, Unowned
<1>3. /\ kyc' = IF HasKyc(x) THEN NoKyc ELSE kyc
      /\ deletions' = deletions \union {x}
      /\ CustomerContinue(c, CustomerCall("delete", x, 0, "NONE"))
  BY <1>2 DEF DeleteKyc, PendingCall
<1>4. /\ deletions \subseteq deletions' /\ deletions' \subseteq Customers /\ x \in deletions'
      /\ kyc \in KycType /\ NoKyc \in KycType /\ NoKyc.owner = NoCustomerId
  BY <1>3 DEF CustomerIInv, CustomerTypeInv, NoKyc, KycType
<1>5. kyc' \in KycType /\ kyc'.owner # x /\ (kyc'.owner = kyc.owner \/ kyc'.owner = NoCustomerId)
  BY <1>3, <1>4, CustomerConstants DEF HasKyc
<1>6. ASSUME NEW z \in Customers
      PROVE  /\ HasKyc(z)' => HasKyc(z)
             /\ Kept(z) => Kept(z)'
             /\ Clean(z) => Clean(z)'
  <2>1. CASE z = x
    BY <1>4, <1>5, <2>1 DEF HasKyc, Kept, Clean
  <2>2. CASE z # x
    BY <1>3, <1>4, <2>2, CustomerConstants DEF HasKyc, Kept, Clean
  <2>. QED  BY <2>1, <2>2
<1>7. \A d \in CustomerCalls : CustomerAt(d, "create_kyc") => kyc'.owner # Subject(d)
  BY <1>5, MakerIsAlone, CustomerConstants DEF Making, Raw, HasKyc
<1>8. KycStep
  BY <1>1, <1>4, <1>5, <1>6, <1>7 DEF KycStep
<1>9. PICK k : k = CustomerCall("delete", x, 0, "NONE")
  OBVIOUS
<1>10. k \in CustomerCallType /\ k.op = "delete" /\ k.customer = x
  BY <1>9, CallRecord DEF CustomerOps, Early, Privileges
<1>11. Used(x)'
  BY <1>4 DEF Used
<1>12. CustomerCallFits(k)'
  BY <1>4, <1>10, <1>11 DEF CustomerCallFits, ValueFits, Unowned
<1>. QED  BY <1>3, <1>8, <1>9, <1>10, <1>12, KycStepInv DEF Early

LEMMA DeleteInv ==
    ASSUME CustomerIInv, NEW c \in CustomerCalls, Delete(c)
    PROVE  CustomerIInv'
<1>1. /\ customerCalls[c].op = "delete" /\ CustomerContinue(c, CustomerIdle)
      /\ UNCHANGED <<preview, kyc, requests, deletions>>
  BY DEF Delete, CustomerAt
<1>2. PICK x \in Customers : x = Subject(c) /\ x \in deletions
  BY <1>1 DEF CustomerIInv, CustomerCallFits, Subject, Unowned
<1>3. /\ NoCustomer \in CustomerType /\ NoCustomer.status = "ABSENT"
      /\ NoCustomer.kycStatus = "INCOMPLETE" /\ NoCustomer.privilege = "NONE"
  BY DEF NoCustomer, CustomerType, CustomerStatuses, KycStatuses, Privileges
<1>4. /\ \A z \in Customers : customers'[z] = IF z = x THEN NoCustomer ELSE customers[z]
      /\ customers' \in [Customers -> CustomerType]
  BY <1>2, <1>3 DEF Delete, CustomerIInv, CustomerTypeInv
<1>5. \A z \in Customers : /\ Used(z) => Used(z)'
                           /\ Approved(z) <=> Approved(z)'
                           /\ HasKyc(z) <=> HasKyc(z)'
                           /\ Kept(z) <=> Kept(z)'
                           /\ Clean(z) <=> Clean(z)'
  BY <1>1, <1>2, <1>4 DEF Used, Exists, Approved, Kept, Clean, HasKyc
<1>6. ASSUME NEW d \in CustomerCalls, CustomerAt(d, "create_kyc"), customerCalls'[d] = customerCalls[d]
      PROVE  Raw(Subject(d))'
  <2>1. PICK z \in Customers : z = Subject(d) /\ Raw(z)
    BY <1>6, MakerIsAlone DEF Making
  <2>2. Raw(z)' /\ z = Subject(d)'
    BY <1>1, <1>3, <1>4, <1>6, <2>1 DEF Subject, Raw, HasKyc
  <2>. QED  BY <2>2 DEF Raw, HasKyc
<1>7. Persists
  BY <1>1, <1>5, <1>6 DEF Persists
<1>8. \A z \in Customers : CustomerFits(z)'
  <2>1. ASSUME NEW z \in Customers, z # x PROVE CustomerFits(z)'
    BY <1>4, <1>5, <1>7, <2>1, CustomerPersists
  <2>2. CustomerFits(x)'
    BY <1>1, <1>2, <1>3, <1>4 DEF CustomerFits, Used, Vetted
  <2>. QED  BY <2>1, <2>2
<1>9. \A r \in Requests : RequestFits(requests[r])'
  <2>1. ASSUME NEW r \in Requests PROVE RequestFits(requests[r])'
    <3>1. PICK q : q = requests[r] /\ q = requests'[r]
      BY <1>1
    <3>2. RequestFits(q)'
      BY <1>7, <3>1, RequestPersists
    <3>. QED  BY <3>1, <3>2
  <2>. QED  BY <2>1
<1>10. preview' \in BOOLEAN /\ kyc' \in KycType /\ requests' \in [Requests -> CustomerRequestType]
       /\ deletions' \subseteq Customers
  BY <1>1 DEF CustomerIInv, CustomerTypeInv
<1>11. PICK k : k = CustomerIdle
  OBVIOUS
<1>12. /\ k \in CustomerCallType /\ k.op \in {"idle", "died"} /\ CustomerCallFits(k)'
       /\ CustomerContinue(c, k)
  BY <1>1, <1>11, Ends
<1>. QED  BY <1>4, <1>7, <1>8, <1>9, <1>10, <1>12, CustomerStepInv DEF Unowned

LEMMA InitiateInv ==
    ASSUME CustomerIInv, NEW c \in CustomerCalls, Initiate(c)
    PROVE  CustomerIInv'
<1>1. /\ customerCalls[c].op = "initiate" /\ UNCHANGED <<preview, customers, kyc, deletions>>
  BY DEF Initiate, CustomerAt
<1>2. PICK x \in Customers : x = Subject(c) /\ Used(x) /\ Kept(x)
  BY <1>1 DEF CustomerIInv, CustomerCallFits, Subject, Unowned
<1>3. PICK r \in Requests :
         /\ requests[r].status = "ABSENT"
         /\ requests' = [requests EXCEPT ![r] = [status |-> "OPEN", customer |-> x, linked |-> FALSE]]
         /\ CustomerContinue(c, CustomerCall("link", x, r, "NONE"))
  BY <1>2 DEF Initiate
<1>4. PICK q : q = [status |-> "OPEN", customer |-> x, linked |-> FALSE]
  OBVIOUS
<1>5. q \in CustomerRequestType /\ q.status = "OPEN" /\ q.customer = x
  BY <1>4 DEF CustomerRequestType, CustomerRequestStatuses
<1>6. /\ \A s \in Requests : requests'[s] = IF s = r THEN q ELSE requests[s]
      /\ requests' \in [Requests -> CustomerRequestType]
  BY <1>3, <1>4, <1>5 DEF CustomerIInv, CustomerTypeInv
<1>7. \A d \in CustomerCalls \ {c} : CustomerAt(d, "create_kyc") => Subject(d) # x
  BY <1>1, <1>2, NotMaking DEF Unowned, Early
<1>8. \A z \in Customers : /\ Used(z) => Used(z)'
                           /\ HasKyc(z) <=> HasKyc(z)'
                           /\ Kept(z) <=> Kept(z)'
                           /\ Clean(z) <=> Clean(z)'
  BY <1>1 DEF Used, Exists, Kept, Clean, HasKyc
<1>9. \A z \in Customers : Approved(z) => Approved(z)'
  BY <1>3, <1>6 DEF Approved
<1>10. ASSUME NEW d \in CustomerCalls, CustomerAt(d, "create_kyc"), customerCalls'[d] = customerCalls[d]
       PROVE  Raw(Subject(d))'
  <2>1. PICK z \in Customers : z = Subject(d) /\ Raw(z)
    BY <1>10, MakerIsAlone DEF Making
  <2>2. z # x
    BY <1>1, <1>7, <1>10, <2>1 DEF CustomerAt
  <2>3. Raw(z)' /\ z = Subject(d)'
    BY <1>1, <1>5, <1>6, <1>10, <2>1, <2>2 DEF Subject, Raw, HasKyc
  <2>. QED  BY <2>3 DEF Raw, HasKyc
<1>11. Persists
  BY <1>1, <1>8, <1>9, <1>10 DEF Persists
<1>12. \A z \in Customers : CustomerFits(z)'
  BY <1>1, <1>8, <1>11, CustomerPersists
<1>13. \A s \in Requests : RequestFits(requests[s])'
  <2>1. ASSUME NEW s \in Requests, s # r PROVE RequestFits(requests[s])'
    <3>1. PICK p : p = requests[s] /\ p = requests'[s]
      BY <1>6, <2>1
    <3>2. RequestFits(p)'
      BY <1>11, <3>1, RequestPersists
    <3>. QED  BY <3>1, <3>2
  <2>2. RequestFits(requests[r])'
    BY <1>2, <1>5, <1>6, <1>8 DEF RequestFits
  <2>. QED  BY <2>1, <2>2
<1>14. preview' \in BOOLEAN /\ kyc' \in KycType /\ customers' \in [Customers -> CustomerType]
       /\ deletions' \subseteq Customers
  BY <1>1 DEF CustomerIInv, CustomerTypeInv
<1>15. PICK k : k = CustomerCall("link", x, r, "NONE")
  OBVIOUS
<1>16. r \in Nat
  BY CustomerConstants DEF Requests
<1>17. k \in CustomerCallType /\ k.op = "link" /\ k.customer = x
  BY <1>15, <1>16, CallRecord DEF CustomerOps, Privileges
<1>18. CustomerCallFits(k)'
  BY <1>2, <1>8, <1>17 DEF CustomerCallFits, ValueFits, Unowned
<1>19. CustomerContinue(c, k)
  BY <1>3, <1>15
<1>. QED  BY <1>6, <1>7, <1>11, <1>12, <1>13, <1>14, <1>17, <1>18, <1>19, CustomerStepInv

-----------------------------------------------------------------------------
LEMMA CustomerInitInv == CustomerInit => CustomerIInv
<1>. SUFFICES ASSUME CustomerInit PROVE CustomerIInv
  OBVIOUS
<1>. USE DEF CustomerInit
<1>1. /\ NoCustomer \in CustomerType /\ NoCustomer.status = "ABSENT"
      /\ NoCustomer.kycStatus = "INCOMPLETE"
  BY DEF NoCustomer, CustomerType, CustomerStatuses, KycStatuses, Privileges
<1>2. NoKyc \in KycType /\ NoKyc.owner = NoCustomerId
  BY DEF NoKyc, KycType
<1>3. /\ NoRequest \in CustomerRequestType /\ NoRequest.status = "ABSENT"
      /\ NoRequest.customer = NoCustomerId
  BY DEF NoRequest, CustomerRequestType, CustomerRequestStatuses
<1>4. PICK k : k = CustomerIdle
  OBVIOUS
<1>5. k \in CustomerCallType /\ k.op = "idle" /\ CustomerCallFits(k)
  BY <1>4, Ends DEF CustomerIdle, CustomerCall
<1>6. CustomerTypeInv
  BY <1>1, <1>2, <1>3, <1>4, <1>5 DEF CustomerTypeInv
<1>7. \A c \in CustomerCalls : customerCalls[c] = k
  BY <1>4
<1>8. \A x \in Customers : ~HasKyc(x)
  BY <1>2, CustomerConstants DEF HasKyc
<1>9. \A x \in Customers : CustomerFits(x)
  BY <1>1, <1>8 DEF CustomerFits, Vetted
<1>10. \A r \in Requests : RequestFits(requests[r])
  BY <1>3 DEF RequestFits
<1>. QED  BY <1>5, <1>6, <1>7, <1>9, <1>10 DEF CustomerIInv, CustomerAt

LEMMA CustomerNextInv == CustomerIInv /\ [CustomerNext]_customerVars => CustomerIInv'
<1>. SUFFICES ASSUME CustomerIInv, [CustomerNext]_customerVars PROVE CustomerIInv'
  OBVIOUS
<1>1. ASSUME UNCHANGED <<customers, kyc, requests, customerCalls, deletions>>, preview' \in BOOLEAN
      PROVE  CustomerIInv'
  BY <1>1, QuietIsDecisions, DecisionAlone
<1>2. CASE PreviewBvn \/ ExpirePreview
  BY <1>1, <1>2 DEF PreviewBvn, ExpirePreview
<1>3. CASE UNCHANGED customerVars
  BY <1>1, <1>3 DEF customerVars, CustomerIInv, CustomerTypeInv
<1>4. ASSUME NEW c \in CustomerCalls, NEW x \in Customers,
             \/ CaptureRead(c, x) \/ ResolveMismatchRead(c, x) \/ SubmitRead(c, x)
             \/ ResubmitRead(c, x) \/ DeleteRead(c, x) \/ DisableRead(c, x) \/ EnableRead(c, x)
             \/ PrivilegeRequestRead(c, x) \/ EditRead(c, x)
             \/ \E granted \in BOOLEAN : PrivilegeDecisionRead(c, x, granted)
      PROVE  CustomerIInv'
  BY <1>4, ReadsInv
<1>5. ASSUME NEW c \in CustomerCalls,
             \/ ConfirmRead(c) \/ VerifyRead(c)
             \/ RecomputeRead(c) \/ ConsumePreview(c) \/ AbandonCustomerCall(c)
             \/ Score(c) \/ Submit(c) \/ Handle(c) \/ SetPrivilege(c)
      PROVE  CustomerIInv'
  BY <1>5, CreationReadsInv, QuietStepsInv, SavesInv
<1>6. ASSUME NEW c \in CustomerCalls,
             \/ Create(c) \/ CreateKyc(c) \/ Capture(c) \/ Resolve(c)
             \/ Initiate(c) \/ LinkEntity(c) \/ Resubmit(c)
             \/ DeleteCancel(c) \/ DeleteKyc(c) \/ Delete(c)
      PROVE  CustomerIInv'
  BY <1>6, CreateInv, CreateKycInv, CaptureInv, InitiateInv, LinkInv, ResubmitInv,
     DeleteCancelInv, DeleteKycInv, DeleteInv
<1>7. ASSUME NEW c \in CustomerCalls, NEW r \in Requests,
             NEW v \in {"APPROVED", "REJECTED", "RETURNED_TO_MAKER"}, DecideCustomer(c, r, v)
      PROVE  CustomerIInv'
  BY <1>7, DecideInv
<1>8. ASSUME NEW r \in Requests, NEW v \in {"CANCELLED", "DELETED"}, CloseRequest(r, v)
      PROVE  CustomerIInv'
  BY <1>8, CloseRequestInv
<1>. QED  BY <1>2, <1>3, <1>4, <1>5, <1>6, <1>7, <1>8 DEF CustomerNext

\* The invariant of a customer's records: what each call under way may still
\* write and what it relies on.
THEOREM CustomersAreSound == CustomerSpec => []CustomerIInv
<1>1. CustomerInit => CustomerIInv
  BY CustomerInitInv
<1>2. CustomerIInv /\ [CustomerNext]_customerVars => CustomerIInv'
  BY CustomerNextInv
<1>. QED  BY <1>1, <1>2, PTL DEF CustomerSpec

\* Every submitted Customer that is not being deleted has the KycRecord, with
\* its biometric.
LEMMA VettedIsKept ==
    ASSUME CustomerIInv, NEW x \in Customers, customers[x].status \in Vetted
    PROVE  Approved(x) /\ Kept(x)
<1>1. Approved(x)
  BY DEF CustomerIInv, CustomerFits
<1>2. PICK r \in Requests : requests[r].customer = x /\ requests[r].status = "APPROVED"
  BY <1>1 DEF Approved
<1>. QED  BY <1>1, <1>2 DEF CustomerIInv, RequestFits

\* A customer is ACTIVE or DISABLED only after an approval and with its face
\* captured (customer.service.ts, handleWorkflowApproved, submitForApproval).
THEOREM ActiveCustomersWereVetted == CustomerSpec => []ActiveWasVetted
<1>1. CustomerIInv => ActiveWasVetted
  BY VettedIsKept DEF ActiveWasVetted, Vetted, Kept
<1>. QED  BY <1>1, CustomersAreSound, PTL

\* A customer counts as VERIFIED only with a biometric and no open flag,
\* although the status is computed from one read and written later
\* (customer.service.ts, recomputeKycStatus).
THEOREM VerifiedIsEarnedAlways == CustomerSpec => []VerifiedIsEarned
<1>1. CustomerIInv => VerifiedIsEarned
  BY DEF CustomerIInv, CustomerFits, VerifiedIsEarned, Clean
<1>. QED  BY <1>1, CustomersAreSound, PTL

\* Of two vetted customers of one BVN, one is being deleted: the unique bvnHash
\* (kyc-record.schema.ts) is all that keeps them apart.
THEOREM RecordsArePersons == CustomerSpec => []OneRecordPerPerson
<1>1. CustomerIInv => OneRecordPerPerson
  BY VettedIsKept DEF OneRecordPerPerson, Vetted, Kept, HasKyc
<1>. QED  BY <1>1, CustomersAreSound, PTL

=============================================================================
