------------------------- MODULE Liquidation_proofs -------------------------
(***************************************************************************)
(* Theorems about early liquidation, for any number of requests,           *)
(* repayments, penalties, delay charges and calls in flight, and every     *)
(* amount.                                                                 *)
(***************************************************************************)
EXTENDS Liquidation, FiniteSetTheorems, TLAPS

AccountType == [status : {"ACTIVE", "CLOSED"}, balance : Nat]

RequestType == [status : {"ABSENT", "PENDING_APPROVAL", "APPROVED", "REJECTED", "COMPLETED"},
                total  : Nat]

RepaymentType == [status  : {"ABSENT", "PENDING", "APPROVED", "REJECTED", "UNDER_DISPUTE"},
                  amount  : Nat,
                  applied : BOOLEAN,
                  over    : Nat,
                  link    : Requests \union {None}]

OnRequest == {"create", "APPROVED", "REJECTED", "link", "check", "complete", "charge",
              "post_charge"}
OnRepayment == {"record", "link", "approve", "reject", "apply", "post", "reverse", "dispute",
                "applied", "check", "complete"}
OnPeriod == {"penalise", "post_penalty"}
Ops == {"idle", "initiate"} \union OnRequest \union OnRepayment \union OnPeriod

CallType == [op : Ops, request : Requests \union {None}, repayment : Repayments \union {None},
             amount : Nat \union Periods]

Raised(q) == requests[q].status # "ABSENT"
Recorded(r) == repayments[r].status # "ABSENT"

\* What was payable when the request was proposed.
Payable(q) == requests[q].total - DelayCharges(q)

Linked(r, q) == <<r, q>> \in everLinked

Covered(r, q) ==
    r \in everApplied /\ Linked(r, q) /\ repayments[r].amount >= Payable(q)

TypeInv ==
    /\ account \in AccountType
    /\ requests \in [Requests -> RequestType]
    /\ repayments \in [Repayments -> RepaymentType]
    /\ IsFiniteSet(delays)
    /\ everApplied \in SUBSET Repayments

\* A reversal never takes from the balance.
AccountInv == \A r \in Repayments : repayments[r].over <= repayments[r].amount

\* What is awaited, linked or was applied is there.
ExistInv ==
    /\ \A q \in Requests : q \in open => Raised(q)
    /\ \A r \in Repayments : r \in open => Recorded(r)
    /\ \A r \in Repayments : repayments[r].link # None =>
          Raised(repayments[r].link) /\ Linked(r, repayments[r].link)
    /\ \A r \in everApplied : Recorded(r)

DocsInv == TypeInv /\ AccountInv /\ ExistInv /\ CompletedWasPaid

\* What a call in flight may rely on: its documents exist, unless it is about to
\* create them; what follows an application follows one that happened, and a check
\* follows a link; and a completion has a payment that covers its request,
\* although both were read before it.
Fit(call) ==
    /\ call.op \in OnRequest => call.request # None
    /\ call.op \in OnRepayment => call.repayment # None
    /\ call.request # None /\ call.op # "create" => Raised(call.request)
    /\ call.repayment # None /\ call.op # "record" => Recorded(call.repayment)
    /\ call.op = "create" => ~Raised(call.request) /\ call.amount \in Nat
    /\ call.op = "record" => ~Recorded(call.repayment) /\ call.amount \in Nat
    /\ call.op \in {"post", "applied", "check", "complete"} => call.repayment \in everApplied
    /\ call.op = "check" => Linked(call.repayment, call.request)
    /\ call.op = "complete" => Covered(call.repayment, call.request)
    /\ call.op \in OnPeriod => call.amount \in Periods

\* One call at most creates a document.
OneCreates ==
    \A c, d \in Calls :
        /\ calls[c].op = "create" /\ calls[d].op = "create"
           /\ calls[c].request = calls[d].request => c = d
        /\ calls[c].op = "record" /\ calls[d].op = "record"
           /\ calls[c].repayment = calls[d].repayment => c = d

CallsInv ==
    /\ calls \in [Calls -> CallType]
    /\ \A c \in Calls : Fit(calls[c])
    /\ OneCreates

IInv == DocsInv /\ CallsInv

-----------------------------------------------------------------------------
\* What no step undoes.
Steady ==
    /\ \A q \in Requests : Raised(q) => Raised(q)' /\ Payable(q)' = Payable(q)
    /\ \A r \in Repayments :
          Recorded(r) => Recorded(r)' /\ repayments'[r].amount = repayments[r].amount
    /\ everLinked \subseteq everLinked' /\ everApplied \subseteq everApplied'

\* No document comes into being, other than that of slot c.
Barren(c) ==
    \A d \in Calls \ {c} :
        /\ calls[d].op = "create" => requests'[calls[d].request].status = "ABSENT"
        /\ calls[d].op = "record" => repayments'[calls[d].repayment].status = "ABSENT"

\* A document that a call is about to create is not there.
LEMMA Unborn ==
    ASSUME IInv
    PROVE  \A d \in Calls :
              /\ calls[d].op = "create" => ~Raised(calls[d].request)
              /\ calls[d].op = "record" => ~Recorded(calls[d].repayment)
BY DEF IInv, CallsInv, Fit

LEMMA FitKept ==
    ASSUME IInv, Steady, NEW c, Barren(c), NEW d \in Calls \ {c}, calls'[d] = calls[d]
    PROVE  Fit(calls[d])'
<1>1. calls[d] \in CallType /\ Fit(calls[d])
  BY DEF IInv, CallsInv
<1>2. calls[d].op = "complete" => Covered(calls[d].repayment, calls[d].request)'
  BY <1>1 DEF Fit, Covered, Steady, Linked, CallType, OnRequest, OnRepayment
<1>3. calls[d].op = "check" => Linked(calls[d].repayment, calls[d].request)'
  BY <1>1 DEF Fit, Steady, Linked
<1>. QED  BY <1>1, <1>2, <1>3 DEF Fit, Steady, Barren, Raised, Recorded, CallType, OnRequest,
             OnRepayment

\* A step of one call.
LEMMA CallsKept ==
    ASSUME IInv, Steady, NEW c \in Calls, Barren(c), NEW k \in CallType,
           calls' = [calls EXCEPT ![c] = k],
           k.op = "create" => \A d \in Calls : calls[d].request # k.request,
           k.op = "record" => \A d \in Calls : calls[d].repayment # k.repayment,
           Fit(calls[c])'
    PROVE  CallsInv'
<1>1. /\ calls' \in [Calls -> CallType]
      /\ calls'[c] = k
      /\ \A d \in Calls \ {c} : calls'[d] = calls[d]
  BY DEF IInv, CallsInv
<1>2. \A d \in Calls : Fit(calls[d])'
  BY <1>1, FitKept
<1>3. OneCreates'
  BY <1>1 DEF IInv, CallsInv, OneCreates
<1>. QED  BY <1>1, <1>2, <1>3 DEF CallsInv

LEMMA CallFields ==
    ASSUME NEW op, NEW q, NEW r, NEW n
    PROVE  /\ Call(op, q, r, n).op = op /\ Call(op, q, r, n).request = q
           /\ Call(op, q, r, n).repayment = r /\ Call(op, q, r, n).amount = n
           /\ op \in Ops /\ q \in Requests \union {None} /\ r \in Repayments \union {None}
              /\ n \in Nat \union Periods => Call(op, q, r, n) \in CallType
BY DEF Call, CallType

LEMMA IdleFits ==
    /\ Idle \in CallType /\ Idle.op = "idle"
    /\ Fit(Idle)
    /\ \A c \in Calls : calls'[c] = Idle => Fit(calls[c])'
BY CallFields DEF Idle, Fit, Ops, OnRequest, OnRepayment, OnPeriod

\* A call that goes on with another step, remembering the same.
LEMMA ThenTypes ==
    ASSUME NEW k \in CallType, NEW op \in Ops
    PROVE  /\ [k EXCEPT !.op = op] \in CallType
           /\ [k EXCEPT !.op = op].op = op
           /\ [k EXCEPT !.op = op].request = k.request
           /\ [k EXCEPT !.op = op].repayment = k.repayment
           /\ [k EXCEPT !.op = op].amount = k.amount
BY DEF CallType

LEMMA InitInv == Init => IInv
<1>. SUFFICES ASSUME Init PROVE IInv
  OBVIOUS
<1>1. NoRequest \in RequestType /\ NoRepayment \in RepaymentType
  BY DEF NoRequest, NoRepayment, RequestType, RepaymentType
<1>2. TypeInv
  BY <1>1, LiquidationConstants, FS_EmptySet DEF Init, TypeInv, AccountType
<1>3. AccountInv
  BY DEF Init, AccountInv, NoRepayment
<1>4. ExistInv
  BY DEF Init, ExistInv, NoRepayment
<1>5. CompletedWasPaid
  BY DEF Init, CompletedWasPaid, NoRequest
<1>6. CallsInv
  BY IdleFits DEF Init, CallsInv, OneCreates
<1>. QED  BY <1>2, <1>3, <1>4, <1>5, <1>6 DEF IInv, DocsInv

-----------------------------------------------------------------------------
\* No document is written, and no request is opened whose document is not there.
LEMMA QuietDocs ==
    ASSUME IInv, NEW c, UNCHANGED <<requests, repayments, delays, everLinked, everApplied>>,
           account' = account \/ account' \in AccountType,
           \A x \in open' \ open : /\ x \in Requests => Raised(x)
                                   /\ x \in Repayments => Recorded(x)
    PROVE  DocsInv' /\ Steady /\ Barren(c)
<1>1. \A q \in Requests : Payable(q)' = Payable(q) /\ DelayCharges(q)' = DelayCharges(q)
  BY DEF Payable, DelayCharges
<1>2. Steady
  BY <1>1 DEF Steady, Raised, Recorded
<1>3. Barren(c)
  BY Unborn DEF Barren, Raised, Recorded
<1>4. TypeInv' /\ AccountInv'
  BY DEF IInv, DocsInv, TypeInv, AccountInv
<1>5. ExistInv'
  BY DEF IInv, DocsInv, ExistInv, Raised, Recorded, Linked
<1>6. CompletedWasPaid'
  BY <1>1 DEF IInv, DocsInv, CompletedWasPaid
<1>. QED  BY <1>2, <1>3, <1>4, <1>5, <1>6 DEF DocsInv

\* One repayment is written, with what its application or reversal makes of the
\* account; slot c is the one that creates it, if it is new.
LEMMA RepaymentStep ==
    ASSUME IInv, NEW c \in Calls, NEW x \in Repayments, NEW rep \in RepaymentType,
           repayments' = [repayments EXCEPT ![x] = rep],
           UNCHANGED <<requests, delays, open>>,
           account' \in AccountType,
           everLinked \subseteq everLinked',
           everApplied' \in {everApplied, everApplied \union {x}},
           rep.status # "ABSENT",
           Recorded(x) => rep.amount = repayments[x].amount,
           Recorded(x) \/ (calls[c].op = "record" /\ calls[c].repayment = x),
           rep.over <= rep.amount,
           rep.link # None => Raised(rep.link) /\ <<x, rep.link>> \in everLinked'
    PROVE  DocsInv' /\ Steady /\ Barren(c)
<1>1. \A q \in Requests : Payable(q)' = Payable(q) /\ DelayCharges(q)' = DelayCharges(q)
  BY DEF Payable, DelayCharges
<1>2. \A r \in Repayments : repayments'[r] = IF r = x THEN rep ELSE repayments[r]
  BY DEF IInv, DocsInv, TypeInv
<1>3. Steady
  BY <1>1, <1>2 DEF Steady, Raised, Recorded
<1>4. Barren(c)
  <2>1. ASSUME NEW d \in Calls \ {c}, calls[d].op = "record"
        PROVE  calls[d].repayment \in Repayments \ {x} /\ ~Recorded(calls[d].repayment)
    BY <2>1 DEF IInv, CallsInv, CallType, Fit, OneCreates, OnRepayment
  <2>. QED  BY <1>2, <2>1, Unborn DEF Barren, Raised, Recorded
<1>5. TypeInv'
  BY DEF IInv, DocsInv, TypeInv
<1>6. AccountInv'
  BY <1>2 DEF IInv, DocsInv, AccountInv
<1>7. ExistInv'
  <2>1. \A q \in Requests : Raised(q)' <=> Raised(q)
    BY DEF Raised
  <2>2. \A r \in Repayments : Recorded(r)' <=> Recorded(r) \/ r = x
    BY <1>2 DEF Recorded
  <2>. QED  BY <1>2, <2>1, <2>2 DEF IInv, DocsInv, TypeInv, RepaymentType, ExistInv, Linked
<1>8. CompletedWasPaid'
  <2>1. \A r \in everApplied : repayments'[r].amount = repayments[r].amount
    BY <1>2 DEF IInv, DocsInv, TypeInv, ExistInv
  <2>2. \A q \in Requests : requests[q].status = "COMPLETED" =>
           \E r \in everApplied : Linked(r, q)' /\ repayments'[r].amount >= Payable(q)
    BY <2>1 DEF IInv, DocsInv, CompletedWasPaid, Payable, Linked
  <2>. QED  BY <1>1, <2>2 DEF CompletedWasPaid, Payable, Linked
<1>. QED  BY <1>3, <1>4, <1>5, <1>6, <1>7, <1>8 DEF DocsInv

\* One request is written, with its delay charges or with the account it closes;
\* what was payable when it was proposed does not change.
LEMMA RequestStep ==
    ASSUME IInv, NEW c \in Calls, NEW x \in Requests, NEW req \in RequestType,
           requests' = [requests EXCEPT ![x] = req],
           UNCHANGED <<repayments, open, everLinked, everApplied>>,
           IsFiniteSet(delays'),
           \A q \in Requests \ {x} : DelayCharges(q)' = DelayCharges(q),
           account' = account \/ account' = Liquidated,
           req.status # "ABSENT",
           Raised(x) => Payable(x)' = Payable(x),
           Raised(x) \/ (calls[c].op = "create" /\ calls[c].request = x),
           req.status = "COMPLETED" => \E r \in Repayments : Covered(r, x) /\ Raised(x)
    PROVE  DocsInv' /\ Steady /\ Barren(c)
<1>1. \A q \in Requests : requests'[q] = IF q = x THEN req ELSE requests[q]
  BY DEF IInv, DocsInv, TypeInv
<1>2. \A q \in Requests : Raised(q) => Payable(q)' = Payable(q)
  BY <1>1 DEF Payable
<1>3. Steady
  BY <1>1, <1>2 DEF Steady, Raised, Recorded
<1>4. Barren(c)
  <2>1. ASSUME NEW d \in Calls \ {c}, calls[d].op = "create"
        PROVE  calls[d].request \in Requests \ {x} /\ ~Raised(calls[d].request)
    BY <2>1 DEF IInv, CallsInv, CallType, Fit, OneCreates, OnRequest
  <2>. QED  BY <1>1, <2>1, Unborn DEF Barren, Raised, Recorded
<1>5. TypeInv'
  BY DEF IInv, DocsInv, TypeInv, Liquidated, AccountType
<1>6. AccountInv'
  BY DEF IInv, DocsInv, AccountInv
<1>7. ExistInv'
  <2>1. \A q \in Requests : Raised(q)' <=> Raised(q) \/ q = x
    BY <1>1 DEF Raised
  <2>2. \A r \in Repayments : Recorded(r)' <=> Recorded(r)
    BY DEF Recorded
  <2>. QED  BY <2>1, <2>2 DEF IInv, DocsInv, TypeInv, RepaymentType, ExistInv, Linked
<1>8. CompletedWasPaid'
  <2>1. ASSUME NEW q \in Requests, requests'[q].status = "COMPLETED"
        PROVE  \E r \in everApplied : Linked(r, q) /\ repayments[r].amount >= Payable(q)'
    <3>1. CASE q = x
      BY <1>1, <1>2, <2>1, <3>1 DEF Covered, Linked
    <3>2. CASE q # x
      BY <1>1, <1>2, <2>1, <3>2 DEF IInv, DocsInv, CompletedWasPaid, Payable, Raised, Linked
    <3>. QED  BY <3>1, <3>2
  <2>. QED  BY <2>1 DEF CompletedWasPaid, Payable, Linked
<1>. QED  BY <1>3, <1>4, <1>5, <1>6, <1>7, <1>8 DEF DocsInv

-----------------------------------------------------------------------------
\* A call that begins relies on what it has just read.
LEMMA EnterInv ==
    ASSUME IInv, NEW c \in Calls, NEW k \in CallType, Enter(c, k), Fit(k),
           k.op = "create" => \A d \in Calls : calls[d].request # k.request,
           k.op = "record" => \A d \in Calls : calls[d].repayment # k.repayment
    PROVE  IInv'
<1>1. /\ UNCHANGED <<account, requests, repayments, delays, everLinked, everApplied, open>>
      /\ calls' = [calls EXCEPT ![c] = k]
  BY DEF Enter, Continue
<1>2. DocsInv' /\ Steady /\ Barren(c)
  BY <1>1, QuietDocs
<1>3. Fit(calls[c])'
  <2>1. calls'[c] = k
    BY <1>1 DEF IInv, CallsInv
  <2>2. k.op = "complete" => Covered(k.repayment, k.request)'
    BY <1>1 DEF Fit, Covered, Payable, Linked, DelayCharges
  <2>. QED  BY <1>1, <2>1, <2>2 DEF Fit, Raised, Recorded, Linked
<1>. QED  BY <1>1, <1>2, <1>3, CallsKept DEF IInv

LEMMA ReadInv ==
    ASSUME IInv,
           \/ \E c \in Calls, q \in Requests :
                 \/ InitiateRead(c, q)
                 \/ \E r \in Repayments : LinkRead(c, q, r)
                 \/ \E p \in Periods : SweepRead(c, q, p)
           \/ \E c \in Calls, p \in Periods : PenaltyRead(c, p)
           \/ \E c \in Calls, r \in Repayments :
                 \/ \E amount \in Amounts : RecordRead(c, r, amount)
                 \/ \E op \in {"approve", "reject"} : ResolveRead(c, r, op)
                 \/ DisputeRead(c, r)
    PROVE  IInv'
<1>1. ASSUME NEW c \in Calls, NEW q \in Requests, InitiateRead(c, q)
      PROVE  IInv'
  <2>1. account.balance + Fee \in Nat
    BY LiquidationConstants DEF IInv, DocsInv, TypeInv, AccountType
  <2>2. Call("create", q, None, account.balance + Fee) \in CallType
    BY <2>1, CallFields DEF Ops, OnRequest
  <2>3. Fit(Call("create", q, None, account.balance + Fee))
    BY <1>1, <2>1, CallFields, LiquidationConstants
       DEF InitiateRead, NoRequest, Fit, Raised, OnRequest, OnRepayment, OnPeriod
  <2>. QED  BY <1>1, <2>2, <2>3, CallFields, EnterInv DEF InitiateRead
<1>2. ASSUME NEW c \in Calls, NEW r \in Repayments, NEW n \in Amounts, RecordRead(c, r, n)
      PROVE  IInv'
  <2>1. n \in Nat
    BY LiquidationConstants
  <2>2. Call("record", None, r, n) \in CallType
    BY <2>1, CallFields DEF Ops, OnRepayment
  <2>3. Fit(Call("record", None, r, n))
    BY <1>2, <2>1, CallFields, LiquidationConstants
       DEF RecordRead, NoRepayment, Fit, Recorded, OnRequest, OnRepayment, OnPeriod
  <2>. QED  BY <1>2, <2>2, <2>3, CallFields, EnterInv DEF RecordRead
<1>3. ASSUME NEW c \in Calls, NEW q \in Requests, NEW r \in Repayments, LinkRead(c, q, r)
      PROVE  IInv'
  <2>1. Call("link", q, r, 0) \in CallType
    BY CallFields DEF Ops, OnRequest
  <2>2. Fit(Call("link", q, r, 0))
    BY <1>3, CallFields, LiquidationConstants
       DEF LinkRead, Fit, Raised, Recorded, OnRequest, OnRepayment, OnPeriod
  <2>. QED  BY <1>3, <2>1, <2>2, CallFields, EnterInv DEF LinkRead
<1>4. ASSUME NEW c \in Calls, NEW q \in Requests, NEW p \in Periods, SweepRead(c, q, p)
      PROVE  IInv'
  <2>1. Call("charge", q, None, p) \in CallType
    BY CallFields DEF Ops, OnRequest
  <2>2. Fit(Call("charge", q, None, p))
    BY <1>4, CallFields, LiquidationConstants
       DEF SweepRead, Fit, Raised, OnRequest, OnRepayment, OnPeriod
  <2>. QED  BY <1>4, <2>1, <2>2, CallFields, EnterInv DEF SweepRead
<1>5. ASSUME NEW c \in Calls, NEW r \in Repayments, NEW op \in {"approve", "reject", "reverse"},
             Enter(c, Call(op, None, r, 0)), Recorded(r)
      PROVE  IInv'
  <2>1. Call(op, None, r, 0) \in CallType
    BY CallFields DEF Ops, OnRepayment
  <2>2. Fit(Call(op, None, r, 0))
    BY <1>5, CallFields, LiquidationConstants DEF Fit, OnRequest, OnRepayment, OnPeriod
  <2>. QED  BY <1>5, <2>1, <2>2, CallFields, EnterInv
<1>6. ASSUME NEW c \in Calls, NEW p \in Periods, PenaltyRead(c, p)
      PROVE  IInv'
  <2>1. Call("penalise", None, None, p) \in CallType
    BY CallFields DEF Ops, OnPeriod
  <2>2. Fit(Call("penalise", None, None, p))
    BY CallFields DEF Fit, OnRequest, OnRepayment, OnPeriod
  <2>. QED  BY <1>6, <2>1, <2>2, CallFields, EnterInv DEF PenaltyRead
<1>. QED  BY <1>1, <1>2, <1>3, <1>4, <1>5, <1>6 DEF ResolveRead, DisputeRead, Recorded

-----------------------------------------------------------------------------
\* A call that ends.
LEMMA EndInv ==
    ASSUME IInv, NEW c \in Calls, calls' = [calls EXCEPT ![c] = Idle],
           DocsInv' /\ Steady /\ Barren(c)
    PROVE  IInv'
<1>1. calls'[c] = Idle
  BY DEF IInv, CallsInv
<1>. QED  BY <1>1, IdleFits, CallsKept DEF IInv

\* A call that goes on.
LEMMA MoveInv ==
    ASSUME IInv, NEW c \in Calls, NEW k \in CallType, calls' = [calls EXCEPT ![c] = k],
           DocsInv' /\ Steady /\ Barren(c),
           k.op \notin {"create", "record"},
           k.op \in OnRequest => k.request # None,
           k.op \in OnRepayment => k.repayment # None,
           k.request # None => Raised(k.request)',
           k.repayment # None => Recorded(k.repayment)',
           k.op \in {"post", "applied", "check", "complete"} => k.repayment \in everApplied',
           k.op = "check" => <<k.repayment, k.request>> \in everLinked',
           k.op = "complete" => Covered(k.repayment, k.request)',
           k.op \in OnPeriod => k.amount \in Periods
    PROVE  IInv'
<1>1. calls'[c] = k
  BY DEF IInv, CallsInv
<1>2. Fit(calls[c])'
  BY <1>1 DEF Fit, Linked
<1>. QED  BY <1>2, CallsKept DEF IInv

\* What the call in slot c remembers.
LEMMA Remembers ==
    ASSUME IInv, NEW c \in Calls
    PROVE  /\ calls[c] \in CallType
           /\ Fit(calls[c])
           /\ calls[c].op \in OnRequest => calls[c].request \in Requests
           /\ calls[c].op \in OnRepayment => calls[c].repayment \in Repayments
           /\ calls[c].op \in OnPeriod => calls[c].amount \in Periods
           /\ calls[c].op # "create" /\ calls[c].request # None =>
                 calls[c].request \in Requests /\ Raised(calls[c].request)
           /\ calls[c].op # "record" /\ calls[c].repayment # None =>
                 calls[c].repayment \in Repayments /\ Recorded(calls[c].repayment)
BY DEF IInv, CallsInv, CallType, Fit

LEMMA OnwardTypes ==
    ASSUME IInv, NEW c \in Calls, NEW op \in Ops
    PROVE  \E k \in CallType : /\ k = [calls[c] EXCEPT !.op = op]
                               /\ k.op = op
                               /\ k.request = calls[c].request
                               /\ k.repayment = calls[c].repayment
<1>1. calls[c] \in CallType
  BY Remembers
<1>. QED  BY <1>1, ThenTypes

LEMMA OpenInv ==
    ASSUME IInv,
           \/ \E c \in Calls, q \in Requests, v \in {"APPROVED", "REJECTED"} : DecideRequest(c, q, v)
           \/ \E c \in Calls, r \in Repayments, op \in {"approve", "reject"} :
                 DecideRepayment(c, r, op)
           \/ \E c \in Calls : Initiate(c)
    PROVE  IInv'
<1>1. ASSUME NEW c \in Calls, NEW q \in Requests, NEW v \in {"APPROVED", "REJECTED"},
             DecideRequest(c, q, v)
      PROVE  IInv'
  <2>1. DocsInv' /\ Steady /\ Barren(c)
    BY <1>1, QuietDocs DEF DecideRequest
  <2>2. Raised(q)'
    BY <1>1 DEF DecideRequest, IInv, DocsInv, ExistInv, Raised
  <2>3. PICK k \in CallType : /\ k = Call(v, q, None, 0)
                              /\ k.op = v /\ k.request = q /\ k.repayment = None
    BY CallFields DEF Ops, OnRequest
  <2>4. calls' = [calls EXCEPT ![c] = k]
    BY <1>1, <2>3 DEF DecideRequest, Continue
  <2>. QED  BY <2>1, <2>2, <2>3, <2>4, MoveInv, LiquidationConstants DEF OnRepayment, OnPeriod
<1>2. ASSUME NEW c \in Calls, NEW r \in Repayments, NEW op \in {"approve", "reject"},
             DecideRepayment(c, r, op)
      PROVE  IInv'
  <2>1. DocsInv' /\ Steady /\ Barren(c)
    BY <1>2, QuietDocs DEF DecideRepayment
  <2>2. Recorded(r)'
    BY <1>2 DEF DecideRepayment, IInv, DocsInv, ExistInv, Recorded
  <2>3. PICK k \in CallType : /\ k = Call(op, None, r, 0)
                              /\ k.op = op /\ k.request = None /\ k.repayment = r
    BY CallFields DEF Ops, OnRepayment
  <2>4. calls' = [calls EXCEPT ![c] = k]
    BY <1>2, <2>3 DEF DecideRepayment, Continue
  <2>. QED  BY <2>1, <2>2, <2>3, <2>4, MoveInv, LiquidationConstants DEF OnRequest, OnPeriod
<1>3. ASSUME NEW c \in Calls, Initiate(c)
      PROVE  IInv'
  <2>1. calls[c].op = "initiate"
    BY <1>3 DEF Initiate, At
  <2>2. \A x \in open' \ open : /\ x \in Requests => Raised(x)
                                /\ x \in Repayments => Recorded(x)
    BY <1>3, <2>1, Remembers, LiquidationConstants DEF Initiate
  <2>3. DocsInv' /\ Steady /\ Barren(c)
    BY <1>3, <2>2, QuietDocs DEF Initiate
  <2>. QED  BY <1>3, <2>3, EndInv DEF Initiate, Continue
<1>. QED  BY <1>1, <1>2, <1>3

\* The steps that read or write the journal only.
LEMMA ListenInv ==
    ASSUME IInv, NEW c \in Calls,
           \/ PostRepayment(c) \/ AppliedRead(c) \/ CheckRead(c) \/ PostPenalty(c)
           \/ PostDelay(c) \/ Abandon(c)
    PROVE  IInv'
<1>1. UNCHANGED <<account, requests, repayments, delays, everLinked, everApplied, open>>
  BY DEF PostRepayment, AppliedRead, CheckRead, PostPenalty, PostDelay, Abandon
<1>2. DocsInv' /\ Steady /\ Barren(c)
  BY <1>1, QuietDocs
<1>3. CASE calls' = [calls EXCEPT ![c] = Idle]
  BY <1>2, <1>3, EndInv
<1>4. CASE PostRepayment(c)
  <2>1. PICK k \in CallType : /\ calls' = [calls EXCEPT ![c] = k]
                              /\ k.op = "applied"
                              /\ k.request = calls[c].request
                              /\ k.repayment = calls[c].repayment
    <3>1. calls' = [calls EXCEPT ![c] = [calls[c] EXCEPT !.op = "applied"]]
      BY <1>4 DEF PostRepayment, Then, Continue
    <3>2. "applied" \in Ops
      BY DEF Ops, OnRepayment
    <3>. QED  BY <3>1, <3>2, OnwardTypes
  <2>2. calls[c].op = "post"
    BY <1>4 DEF PostRepayment, At
  <2>3. k.repayment \in everApplied /\ k.repayment # None
    BY <2>1, <2>2, Remembers DEF Fit, OnRepayment
  <2>4. /\ k.request # None => Raised(k.request)
        /\ Recorded(k.repayment)
    BY <2>1, <2>2, <2>3, Remembers
  <2>. QED  BY <1>1, <1>2, <2>1, <2>3, <2>4, MoveInv DEF OnRequest, OnPeriod, Raised, Recorded
<1>5. CASE AppliedRead(c) /\ calls' # [calls EXCEPT ![c] = Idle]
  <2>1. PICK r \in Repayments : r = calls[c].repayment /\ r \in everApplied /\ Recorded(r)
    BY <1>5, Remembers, LiquidationConstants DEF AppliedRead, At, Fit, OnRepayment
  <2>2. PICK q \in Requests : /\ q = repayments[r].link /\ Raised(q)
                              /\ Linked(r, q)
    BY <1>5, <2>1 DEF AppliedRead, Continue, IInv, DocsInv, TypeInv, RepaymentType, ExistInv
  <2>3. PICK k \in CallType : /\ k = Call("check", q, r, 0)
                              /\ k.op = "check" /\ k.request = q /\ k.repayment = r
    BY CallFields DEF Ops, OnRequest
  <2>4. calls' = [calls EXCEPT ![c] = k]
    BY <1>5, <2>1, <2>2, <2>3 DEF AppliedRead, Continue
  <2>. QED  BY <1>1, <1>2, <2>1, <2>2, <2>3, <2>4, MoveInv, LiquidationConstants
            DEF OnPeriod, Raised, Recorded, Linked
<1>6. CASE CheckRead(c) /\ calls' # [calls EXCEPT ![c] = Idle]
  <2>1. calls[c].op = "check" /\ Covers(calls[c].repayment, calls[c].request)
    BY <1>6 DEF CheckRead, At, Then, Continue
  <2>2. PICK r \in Repayments : r = calls[c].repayment /\ r \in everApplied /\ Recorded(r)
    BY <2>1, Remembers, LiquidationConstants DEF Fit, OnRepayment
  <2>3. PICK q \in Requests : q = calls[c].request /\ Raised(q)
    BY <2>1, Remembers, LiquidationConstants DEF OnRequest
  <2>4. Covered(r, q)
    <3>. Linked(r, q)
      BY <2>1, <2>2, <2>3, Remembers DEF Fit
    <3>1. DelayCharges(q) \in Nat
      <4>1. IsFiniteSet({d \in delays : d[1] = q})
        BY FS_Subset DEF IInv, DocsInv, TypeInv
      <4>. QED  BY <4>1, FS_CardinalityType, LiquidationConstants DEF DelayCharges
    <3>2. repayments[r].amount \in Nat /\ requests[q].total \in Nat
      BY DEF IInv, DocsInv, TypeInv, RepaymentType, RequestType
    <3>. QED  BY <2>1, <2>2, <2>3, <3>1, <3>2 DEF Covered, Payable, Covers
  <2>5. Covered(r, q)'
    <3>1. Payable(q)' = Payable(q)
      BY <1>2, <2>3 DEF Steady
    <3>. QED  BY <1>1, <2>4, <3>1 DEF Covered, Linked
  <2>6. PICK k \in CallType : /\ calls' = [calls EXCEPT ![c] = k]
                              /\ k.op = "complete" /\ k.request = q /\ k.repayment = r
    BY <1>6, <2>1, <2>2, <2>3, OnwardTypes DEF CheckRead, Then, Continue, Ops, OnRequest
  <2>. QED  BY <1>1, <1>2, <2>2, <2>3, <2>5, <2>6, MoveInv, LiquidationConstants
            DEF OnPeriod, Raised, Recorded
<1>7. CASE (PostPenalty(c) \/ PostDelay(c) \/ Abandon(c)) /\ calls' # [calls EXCEPT ![c] = Idle]
  BY <1>7 DEF PostPenalty, PostDelay, Abandon, Continue
<1>. QED  BY <1>3, <1>4, <1>5, <1>6, <1>7

-----------------------------------------------------------------------------
\* What becomes of a repayment that was recorded.
Decisions == {"APPROVED", "REJECTED", "UNDER_DISPUTE"}

\* What is written to a repayment.
LEMMA RepaymentWritten ==
    ASSUME NEW k \in RepaymentType
    PROVE  /\ \A st \in Decisions :
                 \E rep \in RepaymentType :
                    /\ rep = [k EXCEPT !.status = st] /\ rep.status # "ABSENT"
                    /\ rep.amount = k.amount /\ rep.over = k.over /\ rep.link = k.link
           /\ \A q \in Requests :
                 \E rep \in RepaymentType :
                    /\ rep = [k EXCEPT !.link = q] /\ rep.link = q
                    /\ rep.amount = k.amount /\ rep.over = k.over /\ rep.status = k.status
           /\ \A n \in Nat :
                 \E rep \in RepaymentType :
                    /\ rep = [k EXCEPT !.applied = TRUE, !.over = n] /\ rep.link = k.link
                    /\ rep.amount = k.amount /\ rep.over = n /\ rep.status = k.status
           /\ \E rep \in RepaymentType :
                 /\ rep = [k EXCEPT !.applied = FALSE] /\ rep.link = k.link
                 /\ rep.amount = k.amount /\ rep.over = k.over /\ rep.status = k.status
<1>1. ASSUME NEW st \in Decisions
      PROVE  \E rep \in RepaymentType :
                /\ rep = [k EXCEPT !.status = st] /\ rep.status # "ABSENT"
                /\ rep.amount = k.amount /\ rep.over = k.over /\ rep.link = k.link
  <2>1. [k EXCEPT !.status = st] \in RepaymentType
    BY DEF RepaymentType, Decisions
  <2>. WITNESS [k EXCEPT !.status = st] \in RepaymentType
  <2>. QED  BY DEF RepaymentType, Decisions
<1>2. ASSUME NEW q \in Requests
      PROVE  \E rep \in RepaymentType :
                /\ rep = [k EXCEPT !.link = q] /\ rep.link = q
                /\ rep.amount = k.amount /\ rep.over = k.over /\ rep.status = k.status
  <2>1. [k EXCEPT !.link = q] \in RepaymentType
    BY DEF RepaymentType
  <2>. WITNESS [k EXCEPT !.link = q] \in RepaymentType
  <2>. QED  BY DEF RepaymentType
<1>3. ASSUME NEW n \in Nat
      PROVE  \E rep \in RepaymentType :
                /\ rep = [k EXCEPT !.applied = TRUE, !.over = n] /\ rep.link = k.link
                /\ rep.amount = k.amount /\ rep.over = n /\ rep.status = k.status
  <2>1. [k EXCEPT !.applied = TRUE, !.over = n] \in RepaymentType
    BY DEF RepaymentType
  <2>. WITNESS [k EXCEPT !.applied = TRUE, !.over = n] \in RepaymentType
  <2>. QED  BY DEF RepaymentType
<1>4. \E rep \in RepaymentType :
         /\ rep = [k EXCEPT !.applied = FALSE] /\ rep.link = k.link
         /\ rep.amount = k.amount /\ rep.over = k.over /\ rep.status = k.status
  <2>1. [k EXCEPT !.applied = FALSE] \in RepaymentType
    BY DEF RepaymentType
  <2>. WITNESS [k EXCEPT !.applied = FALSE] \in RepaymentType
  <2>. QED  BY DEF RepaymentType
<1>. QED  BY <1>1, <1>2, <1>3, <1>4

\* A step that writes a repayment and goes on with the same documents, or ends.
LEMMA RepaymentMoved ==
    ASSUME IInv, NEW c \in Calls, NEW x \in Repayments, NEW op \in Ops,
           calls[c].op \in OnRepayment, calls[c].repayment = x,
           \/ calls' = [calls EXCEPT ![c] = Idle]
           \/ /\ calls' = [calls EXCEPT ![c] = [calls[c] EXCEPT !.op = op]]
              /\ op \in {"initiate", "apply", "dispute"},
           calls[c].op # "create",
           DocsInv' /\ Steady /\ Barren(c), Recorded(x)'
    PROVE  IInv'
<1>1. CASE calls' = [calls EXCEPT ![c] = Idle]
  BY <1>1, EndInv
<1>2. CASE calls' # [calls EXCEPT ![c] = Idle]
  <2>1. PICK k \in CallType : /\ calls' = [calls EXCEPT ![c] = k]
                              /\ k.op = op
                              /\ k.request = calls[c].request
                              /\ k.repayment = x
    BY <1>2, OnwardTypes
  <2>2. k.request # None => Raised(k.request)'
    BY <2>1, Remembers DEF Steady
  <2>. QED  BY <1>2, <2>1, <2>2, MoveInv, LiquidationConstants DEF OnRequest, OnPeriod
<1>. QED  BY <1>1, <1>2

-----------------------------------------------------------------------------
\* The lesser of two amounts.
LEMMA MinOfTwo ==
    ASSUME NEW m \in Nat, NEW n \in Nat
    PROVE  Min({m, n}) \in {m, n} /\ Min({m, n}) <= m /\ Min({m, n}) <= n
<1>1. \E x \in {m, n} : \A y \in {m, n} : x <= y
  BY SMT
<1>. QED  BY <1>1 DEF Min

LEMMA StatusInv ==
    ASSUME IInv, NEW c \in Calls, Link(c) \/ Settle(c) \/ Dispute(c)
    PROVE  IInv'
<1>1. PICK x \in Repayments : x = calls[c].repayment /\ Recorded(x)
  BY Remembers, LiquidationConstants DEF Link, Settle, Dispute, At, OnRepayment
<1>2. repayments[x] \in RepaymentType /\ repayments[x].over <= repayments[x].amount
      /\ (repayments[x].link # None =>
             Raised(repayments[x].link) /\ Linked(x, repayments[x].link))
  BY DEF IInv, DocsInv, TypeInv, AccountInv, ExistInv
<1>3. PICK rep \in RepaymentType :
         /\ repayments' = [repayments EXCEPT ![x] = rep]
         /\ rep.amount = repayments[x].amount /\ rep.over = repayments[x].over
         /\ rep.status # "ABSENT"
         /\ rep.link # None => Raised(rep.link) /\ <<x, rep.link>> \in everLinked'
  <2>1. CASE Link(c)
    <3>1. PICK q \in Requests : q = calls[c].request /\ Raised(q)
      BY <2>1, Remembers, LiquidationConstants DEF Link, At, OnRequest
    <3>2. PICK rep \in RepaymentType :
             /\ rep = [repayments[x] EXCEPT !.link = q] /\ rep.link = q
             /\ rep.amount = repayments[x].amount /\ rep.over = repayments[x].over
             /\ rep.status = repayments[x].status
      BY <1>2, RepaymentWritten
    <3>3. repayments' = [repayments EXCEPT ![x] = rep]
      BY <1>1, <2>1, <3>1, <3>2 DEF Link, IInv, DocsInv, TypeInv
    <3>4. <<x, q>> \in everLinked'
      BY <1>1, <2>1, <3>1 DEF Link
    <3>. QED  BY <1>1, <3>1, <3>2, <3>3, <3>4 DEF Recorded
  <2>2. CASE Settle(c) \/ Dispute(c)
    <3>1. PICK st \in Decisions : repayments' = [repayments EXCEPT ![x].status = st]
      BY <1>1, <2>2 DEF Settle, Dispute, Decisions
    <3>2. PICK rep \in RepaymentType :
             /\ rep = [repayments[x] EXCEPT !.status = st] /\ rep.status # "ABSENT"
             /\ rep.amount = repayments[x].amount /\ rep.over = repayments[x].over
             /\ rep.link = repayments[x].link
      BY <1>2, RepaymentWritten
    <3>3. repayments' = [repayments EXCEPT ![x] = rep]
      BY <3>1, <3>2 DEF IInv, DocsInv, TypeInv
    <3>4. everLinked' = everLinked
      BY <2>2 DEF Settle, Dispute
    <3>5. rep.link # None => Raised(rep.link) /\ <<x, rep.link>> \in everLinked'
      BY <1>2, <3>2, <3>4 DEF Linked
    <3>. QED  BY <3>2, <3>3, <3>5
  <2>. QED  BY <2>1, <2>2
<1>4. /\ UNCHANGED <<account, requests, delays, open, everApplied>>
      /\ everLinked \subseteq everLinked'
  BY DEF Link, Settle, Dispute
<1>5. DocsInv' /\ Steady /\ Barren(c)
  BY <1>1, <1>2, <1>3, <1>4, RepaymentStep DEF IInv, DocsInv, TypeInv, AccountInv
<1>6. Recorded(x)'
  BY <1>1, <1>5 DEF Steady
<1>7. "apply" \in Ops /\ calls[c].op \in OnRepayment /\ calls[c].op # "create"
  BY DEF Ops, OnRepayment, Link, Settle, Dispute, At
<1>8. \/ calls' = [calls EXCEPT ![c] = Idle]
      \/ calls' = [calls EXCEPT ![c] = [calls[c] EXCEPT !.op = "apply"]]
  BY DEF Link, Settle, Dispute, Then, Continue
<1>. QED  BY <1>1, <1>5, <1>6, <1>7, <1>8, RepaymentMoved

LEMMA RecordInv ==
    ASSUME IInv, NEW c \in Calls, Record(c)
    PROVE  IInv'
<1>1. PICK x \in Repayments : x = calls[c].repayment
  BY Remembers DEF Record, At, OnRepayment
<1>2. calls[c].op = "record" /\ ~Recorded(x) /\ calls[c].amount \in Nat
  BY <1>1, Remembers DEF Record, At, Fit
<1>3. PICK rep \in RepaymentType :
         /\ rep = [NoRepayment EXCEPT !.status = "PENDING", !.amount = calls[c].amount]
         /\ rep.status = "PENDING" /\ rep.over = 0 /\ rep.link = None
  <2>1. PICK n \in Nat : n = calls[c].amount
    BY <1>2
  <2>2. /\ [NoRepayment EXCEPT !.status = "PENDING", !.amount = n] \in RepaymentType
        /\ [NoRepayment EXCEPT !.status = "PENDING", !.amount = n].status = "PENDING"
        /\ [NoRepayment EXCEPT !.status = "PENDING", !.amount = n].over = 0
        /\ [NoRepayment EXCEPT !.status = "PENDING", !.amount = n].link = None
    BY DEF NoRepayment, RepaymentType
  <2>. QED  BY <2>1, <2>2
<1>4. repayments' = [repayments EXCEPT ![x] = rep]
  BY <1>1, <1>3 DEF Record
<1>5. UNCHANGED <<account, requests, delays, open, everLinked, everApplied>>
  BY DEF Record
<1>6. rep.over <= rep.amount
  <2>1. rep.amount \in Nat
    BY DEF RepaymentType
  <2>. QED  BY <1>3, <2>1
<1>7. DocsInv' /\ Steady /\ Barren(c)
  BY <1>1, <1>2, <1>3, <1>4, <1>5, <1>6, RepaymentStep DEF IInv, DocsInv, TypeInv, AccountInv
<1>8. Recorded(x)'
  BY <1>3, <1>4 DEF Recorded, IInv, DocsInv, TypeInv
<1>9. "initiate" \in Ops /\ calls[c].op \in OnRepayment
  BY <1>2 DEF Ops, OnRepayment
<1>. QED  BY <1>1, <1>2, <1>7, <1>8, <1>9, RepaymentMoved DEF Record, Then, Continue

LEMMA ApplyInv ==
    ASSUME IInv, NEW c \in Calls, Apply(c)
    PROVE  IInv'
<1>1. PICK x \in Repayments : x = calls[c].repayment /\ Recorded(x)
  BY Remembers, LiquidationConstants DEF Apply, At, OnRepayment
<1>2. /\ repayments[x] \in RepaymentType /\ repayments[x].over <= repayments[x].amount
      /\ repayments[x].link # None =>
            Raised(repayments[x].link) /\ Linked(x, repayments[x].link)
      /\ account \in AccountType
  BY DEF IInv, DocsInv, TypeInv, AccountInv, ExistInv
<1>3. CASE repayments[x].applied
  <2>1. /\ UNCHANGED <<account, requests, repayments, delays, everLinked, everApplied, open>>
        /\ calls' = [calls EXCEPT ![c] = Idle]
    BY <1>1, <1>3 DEF Apply, Continue
  <2>2. DocsInv' /\ Steady /\ Barren(c)
    BY <2>1, QuietDocs
  <2>. QED  BY <2>1, <2>2, EndInv
<1>4. CASE ~repayments[x].applied
  <2>1. PICK taken \in Nat : /\ taken = Min({repayments[x].amount, account.balance})
                             /\ taken <= repayments[x].amount /\ taken <= account.balance
    BY <1>2, MinOfTwo DEF RepaymentType, AccountType
  <2>2. PICK over \in Nat :
           /\ over = IF repayments[x].amount > account.balance
                     THEN repayments[x].amount - taken ELSE repayments[x].over
           /\ over <= repayments[x].amount
    BY <1>2, <2>1 DEF RepaymentType, AccountType
  <2>3. PICK rep \in RepaymentType :
           /\ rep = [repayments[x] EXCEPT !.applied = TRUE, !.over = over]
           /\ rep.link = repayments[x].link /\ rep.amount = repayments[x].amount
           /\ rep.over = over /\ rep.status = repayments[x].status
    <3>1. PICK k \in RepaymentType : k = repayments[x]
      BY <1>2
    <3>2. \E rep \in RepaymentType :
             /\ rep = [k EXCEPT !.applied = TRUE, !.over = over] /\ rep.link = k.link
             /\ rep.amount = k.amount /\ rep.over = over /\ rep.status = k.status
      BY RepaymentWritten
    <3>. QED  BY <3>1, <3>2
  <2>4. repayments' = [repayments EXCEPT ![x] = rep]
    BY <1>1, <1>4, <2>1, <2>2, <2>3 DEF Apply, IInv, DocsInv, TypeInv
  <2>5. account' = IF account.balance - taken = 0 THEN [status |-> "CLOSED", balance |-> 0]
                   ELSE [account EXCEPT !.balance = account.balance - taken]
    BY <1>1, <1>4, <2>1 DEF Apply
  <2>6. account' \in AccountType
    BY <1>2, <2>1, <2>5 DEF AccountType
  <2>7. everApplied' = everApplied \union {x} /\ UNCHANGED <<requests, delays, open, everLinked>>
    BY <1>1, <1>4 DEF Apply
  <2>8. DocsInv' /\ Steady /\ Barren(c)
    <3>1. rep.link # None => Raised(rep.link) /\ <<x, rep.link>> \in everLinked'
      BY <1>2, <2>3, <2>7 DEF Linked
    <3>2. /\ everApplied' \in {everApplied, everApplied \union {x}}
          /\ everLinked \subseteq everLinked'
          /\ rep.status # "ABSENT" /\ rep.over <= rep.amount
      BY <1>1, <2>2, <2>3, <2>7 DEF Recorded
    <3>. QED  BY <1>1, <2>3, <2>4, <2>6, <2>7, <3>1, <3>2, RepaymentStep
  <2>9. Recorded(x)' /\ x \in everApplied'
    BY <1>1, <2>7, <2>8 DEF Steady
  <2>10. PICK k \in CallType : /\ k = Call("post", None, x, taken)
                               /\ k.op = "post" /\ k.request = None /\ k.repayment = x
    BY CallFields DEF Ops, OnRepayment
  <2>11. calls' = [calls EXCEPT ![c] = k]
    BY <1>1, <1>4, <2>1, <2>10 DEF Apply, Continue
  <2>. QED  BY <2>8, <2>9, <2>10, <2>11, MoveInv, LiquidationConstants DEF OnRequest, OnPeriod
<1>. QED  BY <1>3, <1>4

LEMMA ReverseInv ==
    ASSUME IInv, NEW c \in Calls, Reverse(c)
    PROVE  IInv'
<1>1. PICK x \in Repayments : x = calls[c].repayment /\ Recorded(x)
  BY Remembers, LiquidationConstants DEF Reverse, At, OnRepayment
<1>2. /\ repayments[x] \in RepaymentType /\ repayments[x].over <= repayments[x].amount
      /\ repayments[x].link # None =>
            Raised(repayments[x].link) /\ Linked(x, repayments[x].link)
      /\ account \in AccountType
  BY DEF IInv, DocsInv, TypeInv, AccountInv, ExistInv
<1>3. DocsInv' /\ Steady /\ Barren(c)
  <2>1. CASE ~repayments[x].applied
    <3>1. UNCHANGED <<account, requests, repayments, delays, everLinked, everApplied, open>>
      BY <1>1, <2>1 DEF Reverse
    <3>. QED  BY <3>1, QuietDocs
  <2>2. CASE repayments[x].applied
    <3>1. PICK rep \in RepaymentType :
             /\ rep = [repayments[x] EXCEPT !.applied = FALSE]
             /\ rep.link = repayments[x].link /\ rep.amount = repayments[x].amount
             /\ rep.over = repayments[x].over /\ rep.status = repayments[x].status
      BY <1>2, RepaymentWritten
    <3>2. repayments' = [repayments EXCEPT ![x] = rep]
      BY <1>1, <2>2, <3>1 DEF Reverse, IInv, DocsInv, TypeInv
    <3>3. PICK balance \in Nat :
             balance = account.balance + repayments[x].amount - repayments[x].over
      BY <1>2 DEF RepaymentType, AccountType
    <3>4. account' = [status |-> IF balance > 0 THEN "ACTIVE" ELSE account.status,
                      balance |-> balance]
      BY <1>1, <2>2, <3>3 DEF Reverse
    <3>5. account' \in AccountType
      BY <1>2, <3>3, <3>4 DEF AccountType
    <3>6. UNCHANGED <<requests, delays, open, everLinked, everApplied>>
      BY DEF Reverse
    <3>7. rep.link # None => Raised(rep.link) /\ <<x, rep.link>> \in everLinked'
      BY <1>2, <3>1, <3>6 DEF Linked
    <3>. QED  BY <1>1, <1>2, <3>1, <3>2, <3>5, <3>6, <3>7, RepaymentStep DEF Recorded
  <2>. QED  BY <2>1, <2>2
<1>4. Recorded(x)'
  BY <1>1, <1>3 DEF Steady
<1>5. "dispute" \in Ops /\ calls[c].op \in OnRepayment /\ calls[c].op # "create"
  BY DEF Ops, OnRepayment, Reverse, At
<1>. QED  BY <1>1, <1>3, <1>4, <1>5, RepaymentMoved DEF Reverse, Then, Continue

-----------------------------------------------------------------------------
\* What is written to a request that was raised.
LEMMA RequestDecided ==
    ASSUME NEW k \in RequestType, NEW st \in {"APPROVED", "REJECTED", "COMPLETED"}
    PROVE  /\ [k EXCEPT !.status = st] \in RequestType
           /\ [k EXCEPT !.status = st].status = st
           /\ [k EXCEPT !.status = st].total = k.total
BY DEF RequestType

LEMMA RequestCharged ==
    ASSUME NEW k \in RequestType, NEW n \in Nat
    PROVE  /\ [k EXCEPT !.total = n] \in RequestType
           /\ [k EXCEPT !.total = n].status = k.status
           /\ [k EXCEPT !.total = n].total = n
BY DEF RequestType

LEMMA CreateInv ==
    ASSUME IInv, NEW c \in Calls, CreateRequest(c)
    PROVE  IInv'
<1>1. calls[c].op = "create"
  BY DEF CreateRequest, At
<1>2. PICK x \in Requests : x = calls[c].request /\ ~Raised(x)
  BY <1>1, Remembers DEF OnRequest, Fit
<1>3. PICK n \in Nat : n = calls[c].amount
  BY <1>1, Remembers DEF Fit
<1>4. PICK req \in RequestType : /\ req = [status |-> "PENDING_APPROVAL", total |-> n]
                                 /\ req.status = "PENDING_APPROVAL"
  <2>1. [status |-> "PENDING_APPROVAL", total |-> n] \in RequestType
    BY DEF RequestType
  <2>. QED  BY <2>1
<1>5. requests' = [requests EXCEPT ![x] = req]
  BY <1>2, <1>3, <1>4 DEF CreateRequest
<1>6. UNCHANGED <<account, repayments, delays, open, everLinked, everApplied>>
  BY DEF CreateRequest
<1>7. DocsInv' /\ Steady /\ Barren(c)
  <2>1. \A q \in Requests \ {x} : DelayCharges(q)' = DelayCharges(q)
    BY <1>6 DEF DelayCharges
  <2>2. IsFiniteSet(delays')
    BY <1>6 DEF IInv, DocsInv, TypeInv
  <2>. QED  BY <1>1, <1>2, <1>4, <1>5, <1>6, <2>1, <2>2, RequestStep
<1>8. Raised(x)'
  BY <1>4, <1>5 DEF Raised, IInv, DocsInv, TypeInv
<1>9. PICK k \in CallType : /\ calls' = [calls EXCEPT ![c] = k]
                            /\ k.op = "initiate" /\ k.request = x
                            /\ k.repayment = calls[c].repayment
  <2>1. "initiate" \in Ops
    BY DEF Ops
  <2>2. calls' = [calls EXCEPT ![c] = [calls[c] EXCEPT !.op = "initiate"]]
    BY DEF CreateRequest, Then, Continue
  <2>. QED  BY <1>2, <2>1, <2>2, OnwardTypes
<1>10. k.repayment # None => Recorded(k.repayment)'
  BY <1>1, <1>7, <1>9, Remembers DEF Steady
<1>. QED  BY <1>7, <1>8, <1>9, <1>10, MoveInv DEF OnRequest, OnRepayment, OnPeriod

LEMMA WriteDecisionInv ==
    ASSUME IInv, NEW c \in Calls, WriteDecision(c)
    PROVE  IInv'
<1>1. PICK st \in {"APPROVED", "REJECTED", "COMPLETED"} : st = calls[c].op /\ st # "COMPLETED"
  BY DEF WriteDecision, At
<1>2. PICK x \in Requests : x = calls[c].request /\ Raised(x)
  BY <1>1, Remembers, LiquidationConstants DEF OnRequest
<1>3. PICK k \in RequestType : k = requests[x]
  BY DEF IInv, DocsInv, TypeInv
<1>4. PICK req \in RequestType : /\ req = [k EXCEPT !.status = st]
                                 /\ req.status = st /\ req.total = k.total
  BY RequestDecided
<1>5. requests' = [requests EXCEPT ![x] = req]
  BY <1>1, <1>2, <1>3, <1>4 DEF WriteDecision
<1>6. UNCHANGED <<account, repayments, delays, open, everLinked, everApplied>>
  BY DEF WriteDecision
<1>7. \A q \in Requests : DelayCharges(q)' = DelayCharges(q)
  BY <1>6 DEF DelayCharges
<1>8. Payable(x)' = Payable(x)
  BY <1>3, <1>4, <1>5, <1>7 DEF Payable, IInv, DocsInv, TypeInv
<1>9. IsFiniteSet(delays')
  BY <1>6 DEF IInv, DocsInv, TypeInv
<1>10. DocsInv' /\ Steady /\ Barren(c)
  BY <1>1, <1>2, <1>4, <1>5, <1>6, <1>7, <1>8, <1>9, RequestStep
<1>. QED  BY <1>10, EndInv DEF WriteDecision, Continue

LEMMA CompleteInv ==
    ASSUME IInv, NEW c \in Calls, Complete(c)
    PROVE  IInv'
<1>1. calls[c].op = "complete" /\ calls' = [calls EXCEPT ![c] = Idle]
  BY DEF Complete, At, Continue
<1>2. PICK x \in Requests : x = calls[c].request /\ Raised(x)
  BY <1>1, Remembers, LiquidationConstants DEF OnRequest
<1>3. UNCHANGED <<repayments, delays, open, everLinked, everApplied>>
  BY DEF Complete
<1>4. CASE requests[x].status = "COMPLETED"
  <2>1. UNCHANGED <<account, requests>>
    BY <1>2, <1>4 DEF Complete
  <2>2. DocsInv' /\ Steady /\ Barren(c)
    BY <1>3, <2>1, QuietDocs
  <2>. QED  BY <1>1, <2>2, EndInv
<1>5. CASE requests[x].status # "COMPLETED"
  <2>1. PICK k \in RequestType : k = requests[x]
    BY DEF IInv, DocsInv, TypeInv
  <2>2. PICK req \in RequestType : /\ req = [k EXCEPT !.status = "COMPLETED"]
                                   /\ req.status = "COMPLETED" /\ req.total = k.total
    BY RequestDecided
  <2>3. requests' = [requests EXCEPT ![x] = req] /\ account' = Liquidated
    BY <1>2, <1>5, <2>1, <2>2 DEF Complete
  <2>4. \E r \in Repayments : Covered(r, x) /\ Raised(x)
    BY <1>1, <1>2, Remembers DEF Fit, OnRepayment
  <2>5. \A q \in Requests : DelayCharges(q)' = DelayCharges(q)
    BY <1>3 DEF DelayCharges
  <2>6. Payable(x)' = Payable(x)
    BY <2>1, <2>2, <2>3, <2>5 DEF Payable, IInv, DocsInv, TypeInv
  <2>7. IsFiniteSet(delays')
    BY <1>3 DEF IInv, DocsInv, TypeInv
  <2>8. DocsInv' /\ Steady /\ Barren(c)
    BY <1>2, <1>3, <2>2, <2>3, <2>4, <2>5, <2>6, <2>7, RequestStep
  <2>. QED  BY <1>1, <2>8, EndInv
<1>. QED  BY <1>4, <1>5

\* A delay charge adds the same to the total and to the charges.
LEMMA ChargeInv ==
    ASSUME IInv, NEW c \in Calls, ChargeDelay(c)
    PROVE  IInv'
<1>1. calls[c].op = "charge"
  BY DEF ChargeDelay, At
<1>2. PICK x \in Requests : x = calls[c].request /\ Raised(x)
  BY <1>1, Remembers, LiquidationConstants DEF OnRequest
<1>3. PICK p : p = calls[c].amount
  OBVIOUS
<1>4. UNCHANGED <<account, repayments, open, everLinked, everApplied>>
  BY DEF ChargeDelay
<1>5. CASE <<x, p>> \in delays
  <2>1. UNCHANGED <<requests, delays>> /\ calls' = [calls EXCEPT ![c] = Idle]
    BY <1>2, <1>3, <1>5 DEF ChargeDelay, Continue
  <2>2. DocsInv' /\ Steady /\ Barren(c)
    BY <1>4, <2>1, QuietDocs
  <2>. QED  BY <2>1, <2>2, EndInv
<1>6. CASE <<x, p>> \notin delays
  <2>1. PICK k \in RequestType : k = requests[x]
    BY DEF IInv, DocsInv, TypeInv
  <2>2. PICK n \in Nat : n = k.total + Delay
    BY LiquidationConstants DEF RequestType
  <2>3. PICK req \in RequestType : /\ req = [k EXCEPT !.total = n]
                                   /\ req.status = k.status /\ req.total = n
    BY RequestCharged
  <2>4. requests' = [requests EXCEPT ![x] = req]
    BY <1>2, <1>3, <1>6, <2>1, <2>2, <2>3 DEF ChargeDelay, IInv, DocsInv, TypeInv
  <2>5. delays' = delays \union {<<x, p>>}
    BY <1>2, <1>3, <1>6 DEF ChargeDelay
  <2>6. IsFiniteSet(delays) /\ IsFiniteSet(delays')
    BY <2>5, FS_AddElement DEF IInv, DocsInv, TypeInv
  <2>7. \A q \in Requests \ {x} : DelayCharges(q)' = DelayCharges(q)
    <3>1. ASSUME NEW q \in Requests \ {x}
          PROVE  {d \in delays' : d[1] = q} = {d \in delays : d[1] = q}
      BY <2>5
    <3>. QED  BY <3>1 DEF DelayCharges
  <2>8. DelayCharges(x)' = DelayCharges(x) + Delay /\ DelayCharges(x) \in Nat
    <3>. DEFINE made == {d \in delays : d[1] = x}
    <3>1. {d \in delays' : d[1] = x} = made \union {<<x, p>>}
      BY <2>5
    <3>2. IsFiniteSet(made) /\ <<x, p>> \notin made
      BY <1>6, <2>6, FS_Subset
    <3>3. /\ Cardinality(made) \in Nat
          /\ Cardinality(made \union {<<x, p>>}) = Cardinality(made) + 1
      BY <3>2, FS_AddElement, FS_CardinalityType
    <3>4. \A m \in Nat : Delay * (m + 1) = Delay * m + Delay /\ Delay * m \in Nat
      BY LiquidationConstants
    <3>. QED  BY <3>1, <3>3, <3>4 DEF DelayCharges
  <2>9. Payable(x)' = Payable(x)
    <3>1. requests'[x] = req
      BY <2>4 DEF IInv, DocsInv, TypeInv
    <3>. QED  BY <2>1, <2>2, <2>3, <2>8, <3>1, LiquidationConstants DEF Payable, RequestType
  <2>10. req.status # "ABSENT"
    BY <1>2, <2>1, <2>3 DEF Raised
  <2>11. req.status = "COMPLETED" => \E r \in Repayments : Covered(r, x) /\ Raised(x)
    BY <1>2, <2>1, <2>3 DEF IInv, DocsInv, TypeInv, CompletedWasPaid, Covered, Payable, Linked
  <2>12. DocsInv' /\ Steady /\ Barren(c)
    BY <1>2, <1>4, <2>3, <2>4, <2>6, <2>7, <2>9, <2>10, <2>11, RequestStep
  <2>13. Raised(x)'
    BY <1>2, <2>12 DEF Steady
  <2>14. PICK call \in CallType : /\ calls' = [calls EXCEPT ![c] = call]
                                  /\ call.op = "post_charge" /\ call.request = x
                                  /\ call.repayment = calls[c].repayment
    <3>1. "post_charge" \in Ops
      BY DEF Ops, OnRequest
    <3>2. calls' = [calls EXCEPT ![c] = [calls[c] EXCEPT !.op = "post_charge"]]
      BY <1>2, <1>3, <1>6 DEF ChargeDelay, Then, Continue
    <3>. QED  BY <1>2, <3>1, <3>2, OnwardTypes
  <2>15. call.repayment # None => Recorded(call.repayment)'
    BY <1>1, <2>12, <2>14, Remembers DEF Steady
  <2>. QED  BY <2>12, <2>13, <2>14, <2>15, MoveInv, LiquidationConstants DEF OnRepayment, OnPeriod
<1>. QED  BY <1>5, <1>6

\* A penalty is added to the balance only.
LEMMA PenaliseInv ==
    ASSUME IInv, NEW c \in Calls, Penalise(c)
    PROVE  IInv'
<1>1. calls[c].op = "penalise" /\ calls[c].amount \in Periods
  BY Remembers DEF Penalise, At, OnPeriod
<1>2. UNCHANGED <<requests, repayments, delays, everLinked, everApplied, open>>
  BY DEF Penalise
<1>3. account' = account \/ account' \in AccountType
  <2>1. account \in AccountType
    BY DEF IInv, DocsInv, TypeInv
  <2>2. PICK n \in Nat : n = account.balance + Penalty
    BY <2>1, LiquidationConstants DEF AccountType
  <2>3. account' = account \/ account' = [account EXCEPT !.balance = n]
    BY <2>1, <2>2 DEF Penalise, AccountType
  <2>. QED  BY <2>1, <2>3 DEF AccountType
<1>4. DocsInv' /\ Steady /\ Barren(c)
  BY <1>2, <1>3, QuietDocs
<1>5. CASE calls' = [calls EXCEPT ![c] = Idle]
  BY <1>4, <1>5, EndInv
<1>6. CASE calls' = [calls EXCEPT ![c] = [calls[c] EXCEPT !.op = "post_penalty"]]
  <2>1. PICK k \in CallType : /\ calls' = [calls EXCEPT ![c] = k]
                              /\ k.op = "post_penalty" /\ k.amount = calls[c].amount
                              /\ k.request = calls[c].request
                              /\ k.repayment = calls[c].repayment
    <3>1. "post_penalty" \in Ops /\ calls[c] \in CallType
      BY Remembers DEF Ops, OnPeriod
    <3>. QED  BY <1>6, <3>1, ThenTypes
  <2>2. /\ k.request # None => Raised(k.request)'
        /\ k.repayment # None => Recorded(k.repayment)'
    BY <1>1, <1>2, <2>1, Remembers DEF Raised, Recorded
  <2>. QED  BY <1>1, <1>4, <2>1, <2>2, MoveInv DEF OnRequest, OnRepayment
<1>. QED  BY <1>5, <1>6 DEF Penalise, Then, Continue

LEMMA WithdrawInv ==
    ASSUME IInv, NEW x \in open, Withdraw(x)
    PROVE  IInv'
<1>1. UNCHANGED <<account, requests, repayments, delays, everLinked, everApplied, calls>>
      /\ open' \ open = {}
  BY DEF Withdraw
<1>2. DocsInv'
  BY <1>1, QuietDocs
<1>3. CallsInv'
  BY <1>1 DEF IInv, CallsInv, Fit, Raised, Recorded, Covered, Payable, Linked, DelayCharges,
              OneCreates
<1>. QED  BY <1>2, <1>3 DEF IInv

-----------------------------------------------------------------------------
LEMMA NextInv == IInv /\ [Next]_vars => IInv'
<1>. SUFFICES ASSUME IInv, [Next]_vars PROVE IInv'
  OBVIOUS
<1>1. CASE \E c \in Calls : \/ CreateRequest(c) \/ WriteDecision(c) \/ Complete(c)
                            \/ ChargeDelay(c)
  BY <1>1, CreateInv, WriteDecisionInv, CompleteInv, ChargeInv
<1>2. CASE \E c \in Calls : \/ Link(c) \/ Settle(c) \/ Dispute(c) \/ Record(c) \/ Apply(c)
                            \/ Reverse(c)
  BY <1>2, StatusInv, RecordInv, ApplyInv, ReverseInv
<1>3. CASE \E c \in Calls : \/ PostRepayment(c) \/ AppliedRead(c) \/ CheckRead(c)
                            \/ Penalise(c) \/ PostPenalty(c) \/ PostDelay(c) \/ Abandon(c)
  BY <1>3, ListenInv, PenaliseInv
<1>4. CASE \E x \in open : Withdraw(x)
  BY <1>4, WithdrawInv
<1>5. CASE UNCHANGED vars
  BY <1>5 DEF vars, IInv, DocsInv, TypeInv, AccountInv, ExistInv, CompletedWasPaid, CallsInv,
              OneCreates, Fit, Raised, Recorded, Covered, Linked, Payable, DelayCharges
<1>. QED  BY <1>1, <1>2, <1>3, <1>4, <1>5, ReadInv, OpenInv DEF Next

LEMMA SpecInv == Spec => []IInv
BY InitInv, NextInv, PTL DEF Spec

\* In every reachable state a COMPLETED request was paid for: a repayment that had
\* been linked to it, of at least what was payable at the proposal, had been
\* applied, although
\* checkCompletion and the transaction that completes are two steps and the
\* delay charges, disputes and decisions that come between them are not looked at.
THEOREM LiquidationsArePaid == Spec => []CompletedWasPaid
<1>1. IInv => CompletedWasPaid
  BY DEF IInv, DocsInv
<1>. QED  BY <1>1, SpecInv, PTL

\* What applyToBalance and a second completion do to an account that is CLOSED and
\* owes nothing leaves it as it is; only reverseBalance changes it, and the
\* transaction of applyPenaltyCharge, which does not reopen it.
THEOREM ClosedAccountsStay == Spec => ClosedStaysClosed
<1>1. ASSUME IInv, [Next]_vars, account.status = "CLOSED", account.balance = 0,
             account' # account
      PROVE  \/ \E r \in Repayments : repayments[r].applied /\ ~repayments'[r].applied
             \/ charged' # charged /\ account'.status = "CLOSED"
  <2>1. account \in AccountType /\ account = Liquidated
    BY <1>1 DEF IInv, DocsInv, TypeInv, AccountType, Liquidated
  <2>2. ASSUME NEW c \in Calls, Apply(c)
        PROVE  FALSE
    <3>1. PICK x \in Repayments : x = calls[c].repayment
      BY <1>1, <2>2, Remembers DEF Apply, At, OnRepayment
    <3>2. account.balance = 0 /\ repayments[x].amount \in Nat
      BY <1>1 DEF IInv, DocsInv, TypeInv, RepaymentType
    <3>3. Min({repayments[x].amount, account.balance}) \in Nat
          /\ Min({repayments[x].amount, account.balance}) <= 0
      BY <3>2, MinOfTwo
    <3>. QED  BY <1>1, <2>1, <2>2, <3>1, <3>2, <3>3 DEF Apply, Liquidated
  <2>3. ASSUME NEW c \in Calls, Reverse(c)
        PROVE  \E r \in Repayments : repayments[r].applied /\ ~repayments'[r].applied
    <3>1. PICK x \in Repayments : x = calls[c].repayment
      BY <1>1, <2>3, Remembers DEF Reverse, At, OnRepayment
    <3>2. repayments[x].applied /\ repayments' = [repayments EXCEPT ![x].applied = FALSE]
      BY <1>1, <2>3, <3>1 DEF Reverse
    <3>3. repayments \in [Repayments -> RepaymentType]
      BY <1>1 DEF IInv, DocsInv, TypeInv
    <3>4. ~repayments'[x].applied
      BY <3>2, <3>3 DEF RepaymentType
    <3>. QED  BY <3>2, <3>4
  <2>4. ASSUME NEW c \in Calls, Complete(c)
        PROVE  FALSE
    BY <1>1, <2>1, <2>4 DEF Complete
  <2>5. ASSUME NEW c \in Calls, Penalise(c)
        PROVE  charged' # charged /\ account'.status = "CLOSED"
    BY <1>1, <2>1, <2>5 DEF Penalise, AccountType
  <2>6. \E c \in Calls : Apply(c) \/ Reverse(c) \/ Complete(c) \/ Penalise(c)
    BY <1>1 DEF Next, vars, InitiateRead, DecideRequest, LinkRead, PenaltyRead, SweepRead, Withdraw,
       RecordRead, DecideRepayment, ResolveRead, DisputeRead, CreateRequest, Initiate,
       WriteDecision, Link, Record, Settle, PostRepayment, Dispute, AppliedRead, CheckRead,
       PostPenalty, ChargeDelay, PostDelay, Abandon, Enter
  <2>. QED  BY <2>2, <2>3, <2>4, <2>5, <2>6
<1>. QED  BY <1>1, SpecInv, PTL DEF Spec, ClosedStaysClosed

-----------------------------------------------------------------------------
\* What a call is about to post has happened.
Due(call) ==
    /\ call.op = "post" => call.amount \in Nat /\ call.amount <= repayments[call.repayment].amount
    /\ call.op = "post_penalty" => call.amount \in charged
    /\ call.op = "post_charge" => <<call.request, call.amount>> \in delays

PostInv == \A c \in Calls : Due(calls[c])

\* Only the three transactions make a call post.
LEMMA Posting ==
    ASSUME IInv, [Next]_vars, NEW d \in Calls
    PROVE  \/ calls'[d] = calls[d]
           \/ calls'[d].op \notin {"post", "post_penalty", "post_charge"}
           \/ Apply(d) /\ ~repayments[calls[d].repayment].applied
           \/ Penalise(d) \/ ChargeDelay(d)
<1>. DEFINE Fine(c) == \E k : /\ calls' = [calls EXCEPT ![c] = k]
                              /\ k.op \notin {"post", "post_penalty", "post_charge"}
<1>1. ASSUME NEW c \in Calls, Fine(c)
      PROVE  calls'[d] = calls[d] \/ calls'[d].op \notin {"post", "post_penalty", "post_charge"}
  <2>1. DOMAIN calls = Calls
    BY DEF IInv, CallsInv
  <2>. QED  BY <1>1, <2>1
<1>2. ASSUME NEW c \in Calls, NEW op, op \notin {"post", "post_penalty", "post_charge"},
             NEW q, NEW r, NEW n,
             Continue(c, Call(op, q, r, n))
      PROVE  Fine(c)
  <2>1. Call(op, q, r, n).op = op
    BY CallFields
  <2>2. /\ calls' = [calls EXCEPT ![c] = Call(op, q, r, n)]
        /\ Call(op, q, r, n).op \notin {"post", "post_penalty", "post_charge"}
    BY <1>2, <2>1 DEF Continue
  <2>. QED  BY <2>2
<1>3. ASSUME NEW c \in Calls, NEW op, op \notin {"post", "post_penalty", "post_charge"}, Then(c, op)
      PROVE  Fine(c)
  <2>1. calls[c] \in CallType
    BY DEF IInv, CallsInv
  <2>2. [calls[c] EXCEPT !.op = op].op = op
    BY <2>1 DEF CallType
  <2>. QED  BY <1>3, <2>2 DEF Then, Continue
<1>4. ASSUME NEW c \in Calls, Continue(c, Idle)
      PROVE  Fine(c)
  <2>1. Idle.op \notin {"post", "post_penalty", "post_charge"}
    BY IdleFits
  <2>. QED  BY <1>4, <2>1 DEF Continue
<1>5. ASSUME NEW c \in Calls, NEW q, NEW r,
             \/ InitiateRead(c, q) \/ LinkRead(c, q, r) \/ DisputeRead(c, r)
             \/ \E p \in Periods : PenaltyRead(c, p) \/ SweepRead(c, q, p)
             \/ \E verdict \in {"APPROVED", "REJECTED"} : DecideRequest(c, q, verdict)
             \/ \E amount \in Amounts : RecordRead(c, r, amount)
             \/ \E op \in {"approve", "reject"} : DecideRepayment(c, r, op) \/ ResolveRead(c, r, op)
      PROVE  Fine(c)
  <2>1. \E op \in {"create", "link", "reverse", "penalise", "charge", "APPROVED", "REJECTED",
                  "record", "approve", "reject"} : \E x, y, n : Continue(c, Call(op, x, y, n))
    BY <1>5 DEF InitiateRead, LinkRead, DisputeRead, PenaltyRead, SweepRead, DecideRequest,
                RecordRead, DecideRepayment, ResolveRead, Enter
  <2>. QED  BY <1>2, <2>1
<1>6. ASSUME NEW c \in Calls,
             \/ CreateRequest(c) \/ Initiate(c) \/ WriteDecision(c) \/ Link(c) \/ Record(c)
             \/ Settle(c) \/ PostRepayment(c) \/ Reverse(c) \/ Dispute(c) \/ CheckRead(c)
             \/ Complete(c) \/ PostPenalty(c) \/ PostDelay(c) \/ Abandon(c)
      PROVE  Fine(c)
  <2>1. \/ Continue(c, Idle)
        \/ \E op \in {"initiate", "apply", "applied", "dispute", "complete"} : Then(c, op)
    BY <1>6 DEF CreateRequest, Initiate, WriteDecision, Link, Record, Settle, PostRepayment,
                Reverse, Dispute, CheckRead, Complete, PostPenalty, PostDelay, Abandon
  <2>. QED  BY <1>3, <1>4, <2>1
<1>7. ASSUME NEW c \in Calls, AppliedRead(c)
      PROVE  Fine(c)
  <2>1. Continue(c, Idle) \/ \E q, r, n : Continue(c, Call("check", q, r, n))
    BY <1>7 DEF AppliedRead
  <2>. QED  BY <1>2, <1>4, <2>1
<1>8. ASSUME NEW c \in Calls, Apply(c), repayments[calls[c].repayment].applied
      PROVE  Fine(c)
  BY <1>4, <1>8 DEF Apply
<1>9. ASSUME NEW c \in Calls, Apply(c) \/ Penalise(c) \/ ChargeDelay(c)
      PROVE  c = d \/ calls'[d] = calls[d]
  <2>1. \E k : calls' = [calls EXCEPT ![c] = k]
    BY <1>9 DEF Apply, Penalise, ChargeDelay, Then, Continue
  <2>2. DOMAIN calls = Calls
    BY DEF IInv, CallsInv
  <2>. QED  BY <2>1, <2>2
<1>10. CASE UNCHANGED calls
  BY <1>10
<1>11. CASE \E c \in Calls : Apply(c) \/ Penalise(c) \/ ChargeDelay(c)
  BY <1>1, <1>8, <1>9, <1>11
<1>12. \/ UNCHANGED calls
       \/ \E c \in Calls : Apply(c) \/ Penalise(c) \/ ChargeDelay(c) \/ Fine(c)
  <2>1. CASE UNCHANGED vars \/ \E x \in open : Withdraw(x)
    BY <2>1 DEF vars, Withdraw
  <2>2. CASE Next
    BY <1>5, <1>6, <1>7, <2>1, <2>2 DEF Next
  <2>. QED  BY <2>1, <2>2
<1>. QED  BY <1>1, <1>10, <1>11, <1>12

LEMMA PostNext ==
    ASSUME IInv, PostInv, [Next]_vars
    PROVE  PostInv'
<1>1. ASSUME NEW r \in Repayments, Recorded(r)
      PROVE  repayments'[r].amount = repayments[r].amount
  <2>1. repayments \in [Repayments -> RepaymentType] /\ repayments[r] \in RepaymentType
    BY DEF IInv, DocsInv, TypeInv
  <2>2. CASE UNCHANGED repayments
    BY <2>2
  <2>3. ASSUME NEW c \in Calls, Link(c) \/ Settle(c) \/ Dispute(c) \/ Apply(c) \/ Reverse(c)
        PROVE  repayments'[r].amount = repayments[r].amount
    BY <2>1, <2>3 DEF Link, Settle, Dispute, Apply, Reverse, RepaymentType
  <2>4. ASSUME NEW c \in Calls, Record(c)
        PROVE  repayments'[r].amount = repayments[r].amount
    <3>1. calls[c].repayment # r
      BY <1>1, <2>4 DEF Record, At, IInv, CallsInv, Fit
    <3>. QED  BY <2>1, <2>4, <3>1 DEF Record
  <2>5. \/ UNCHANGED repayments
        \/ \E c \in Calls : \/ Link(c) \/ Settle(c) \/ Dispute(c) \/ Apply(c)
                            \/ Reverse(c) \/ Record(c)
    BY DEF Next, vars, InitiateRead, DecideRequest, LinkRead, PenaltyRead, SweepRead, Withdraw,
       RecordRead, DecideRepayment, ResolveRead, DisputeRead, CreateRequest, Initiate,
       WriteDecision, PostRepayment, AppliedRead, CheckRead, Complete, Penalise, PostPenalty,
       ChargeDelay, PostDelay, Abandon, Enter
  <2>. QED  BY <2>2, <2>3, <2>4, <2>5
<1>2. delays \subseteq delays' /\ charged \subseteq charged'
  BY DEF Next, vars, InitiateRead, DecideRequest, LinkRead, PenaltyRead, SweepRead, Withdraw,
     RecordRead, DecideRepayment, ResolveRead, DisputeRead, CreateRequest, Initiate,
     WriteDecision, Link, Record, Settle, Apply, PostRepayment, Reverse, Dispute, AppliedRead,
     CheckRead, Complete, Penalise, PostPenalty, ChargeDelay, PostDelay, Abandon, Enter
<1>3. ASSUME NEW d \in Calls
      PROVE  Due(calls[d])'
  <2>1. CASE calls'[d] = calls[d]
    <3>1. Due(calls[d])
      BY DEF PostInv
    <3>2. calls[d].op = "post" => calls[d].repayment \in Repayments /\ Recorded(calls[d].repayment)
      BY Remembers DEF OnRepayment, Fit
    <3>. QED  BY <1>1, <1>2, <2>1, <3>1, <3>2 DEF Due
  <2>2. CASE calls'[d].op \notin {"post", "post_penalty", "post_charge"}
    BY <2>2 DEF Due
  <2>3. CASE Apply(d) /\ ~repayments[calls[d].repayment].applied
    <3>1. PICK r \in Repayments : r = calls[d].repayment /\ Recorded(r)
      BY <2>3, Remembers DEF Apply, At, OnRepayment, Fit
    <3>2. PICK n \in Nat : n = Min({repayments[r].amount, account.balance}) /\ n <= repayments[r].amount
      <4>1. repayments[r].amount \in Nat /\ account.balance \in Nat
        BY DEF IInv, DocsInv, TypeInv, RepaymentType, AccountType
      <4>. QED  BY <4>1, MinOfTwo
    <3>3. calls' = [calls EXCEPT ![d] = Call("post", None, r, n)]
      BY <2>3, <3>1, <3>2 DEF Apply, Continue
    <3>4. calls'[d] = Call("post", None, r, n)
      BY <3>3 DEF IInv, CallsInv
    <3>5. calls'[d].op = "post" /\ calls'[d].repayment = r /\ calls'[d].amount = n
      BY <3>4, CallFields
    <3>. QED  BY <1>1, <3>1, <3>2, <3>5 DEF Due
  <2>4. CASE ChargeDelay(d)
    <3>1. PICK k \in CallType : k = calls[d]
      BY DEF IInv, CallsInv
    <3>2. CASE <<k.request, k.amount>> \in delays
      <4>1. calls'[d] = Idle
        BY <2>4, <3>1, <3>2 DEF ChargeDelay, Continue, IInv, CallsInv
      <4>. QED  BY <4>1, IdleFits DEF Due
    <3>3. CASE <<k.request, k.amount>> \notin delays
      <4>1. calls'[d] = [k EXCEPT !.op = "post_charge"] /\ <<k.request, k.amount>> \in delays'
        BY <2>4, <3>1, <3>3 DEF ChargeDelay, Then, Continue, IInv, CallsInv
      <4>2. /\ calls'[d].op = "post_charge"
            /\ calls'[d].request = k.request /\ calls'[d].amount = k.amount
        BY <4>1 DEF CallType
      <4>. QED  BY <4>1, <4>2 DEF Due
    <3>. QED  BY <3>2, <3>3
  <2>5. CASE Penalise(d)
    <3>1. PICK k \in CallType : k = calls[d]
      BY DEF IInv, CallsInv
    <3>2. CASE k.amount \in charged
      <4>1. calls'[d] = Idle
        BY <2>5, <3>1, <3>2 DEF Penalise, Continue, IInv, CallsInv
      <4>. QED  BY <4>1, IdleFits DEF Due
    <3>3. CASE k.amount \notin charged
      <4>1. calls'[d] = [k EXCEPT !.op = "post_penalty"] /\ k.amount \in charged'
        BY <2>5, <3>1, <3>3 DEF Penalise, Then, Continue, IInv, CallsInv
      <4>2. calls'[d].op = "post_penalty" /\ calls'[d].amount = k.amount
        BY <4>1 DEF CallType
      <4>. QED  BY <4>1, <4>2 DEF Due
    <3>. QED  BY <3>2, <3>3
  <2>. QED  BY <2>1, <2>2, <2>3, <2>4, <2>5, Posting
<1>. QED  BY <1>3 DEF PostInv

\* postRepayment and postPenalty run after their transaction and may fail, and
\* postIdempotent never rewrites an entry: whatever is applied, disputed and
\* applied again, the ledger has at most one entry for it, of what happened.
THEOREM EntriesStay == Spec => PostedOnce
<1>1. Init => PostInv
  BY CallFields DEF Init, PostInv, Due, Idle
<1>2. ASSUME IInv, PostInv, [Next]_vars
      PROVE  \A s \in DOMAIN journal : journal'[s] # journal[s] =>
                /\ journal[s] = 0
                /\ \/ s \in charged \union delays
                   \/ s \in everApplied /\ journal'[s] <= repayments[s].amount
  <2>. SUFFICES ASSUME NEW s \in DOMAIN journal, journal'[s] # journal[s]
                PROVE  /\ journal[s] = 0
                       /\ \/ s \in charged \union delays
                          \/ s \in everApplied /\ journal'[s] <= repayments[s].amount
    OBVIOUS
  <2>1. ASSUME NEW t, NEW n, journal' = Posted(t, n)
        PROVE  s = t /\ journal[s] = 0 /\ journal'[s] = n
    BY <2>1 DEF Posted
  <2>2. PICK c \in Calls : PostRepayment(c) \/ PostPenalty(c) \/ PostDelay(c)
    BY <1>2 DEF Next, vars, InitiateRead, DecideRequest, LinkRead, PenaltyRead, SweepRead, Withdraw,
       RecordRead, DecideRepayment, ResolveRead, DisputeRead, CreateRequest, Initiate,
       WriteDecision, Link, Record, Settle, Apply, Reverse, Complete, Dispute, AppliedRead,
       CheckRead, Penalise, ChargeDelay, Abandon, Enter
  <2>3. CASE PostRepayment(c)
    <3>1. s = calls[c].repayment /\ journal[s] = 0 /\ journal'[s] = calls[c].amount
      BY <2>1, <2>3 DEF PostRepayment
    <3>2. calls[c].repayment \in everApplied
      BY <1>2, <2>3, Remembers DEF PostRepayment, At, Fit
    <3>3. calls[c].amount <= repayments[calls[c].repayment].amount
      BY <1>2, <2>3 DEF PostRepayment, At, PostInv, Due
    <3>. QED  BY <3>1, <3>2, <3>3
  <2>4. CASE PostDelay(c)
    <3>1. s = <<calls[c].request, calls[c].amount>> /\ journal[s] = 0
      BY <2>1, <2>4 DEF PostDelay
    <3>2. <<calls[c].request, calls[c].amount>> \in delays
      BY <1>2, <2>4 DEF PostDelay, At, PostInv, Due
    <3>. QED  BY <3>1, <3>2
  <2>5. CASE PostPenalty(c)
    <3>1. s = calls[c].amount /\ journal[s] = 0
      BY <2>1, <2>5 DEF PostPenalty
    <3>2. calls[c].amount \in charged
      BY <1>2, <2>5 DEF PostPenalty, At, PostInv, Due
    <3>. QED  BY <3>1, <3>2
  <2>. QED  BY <2>2, <2>3, <2>4, <2>5
<1>3. IInv /\ PostInv /\ [Next]_vars => PostInv'
  BY PostNext
<1>. QED  BY <1>1, <1>2, <1>3, SpecInv, PTL DEF Spec, PostedOnce

-----------------------------------------------------------------------------
(* A request is decided once: while it awaits its decision it is either open *)
(* or in the hands of the one call that raised or decides it; only what has  *)
(* been decided is linked to, charged, checked and completed.                *)

Undecided(q) == requests[q].status \in {"ABSENT", "PENDING_APPROVAL"}
Decided(q) == requests[q].status \in {"APPROVED", "REJECTED", "COMPLETED"}

Deciding == {"create", "initiate", "APPROVED", "REJECTED"}
Unlinked == {"idle", "record", "approve", "reject", "apply", "post", "reverse", "dispute", "applied",
             "penalise", "post_penalty"}

\* What the step of a call may count on about its request.
InHand(c) ==
    LET q == calls[c].request IN
    /\ calls[c].op \in Unlinked => q = None
    /\ calls[c].op \in Deciding /\ q # None =>
          /\ Undecided(q) /\ q \notin open
          /\ \A d \in Calls \ {c} : calls[d].request # q
    /\ calls[c].op \notin Deciding /\ q # None => Decided(q)

OnceInv ==
    /\ \A q \in Requests : q \in open => /\ requests[q].status = "PENDING_APPROVAL"
                                         /\ \A c \in Calls : calls[c].request # q
    /\ \A c \in Calls : InHand(c)
    /\ \A r \in Repayments : /\ repayments[r].link # None => Decided(repayments[r].link)
                             /\ repayments[r].applied => Recorded(r)

\* A call without a request.
LEMMA FreeHand ==
    ASSUME NEW c \in Calls, calls'[c].request = None
    PROVE  InHand(c)'
BY DEF InHand

\* The step of one call: what is decided stays decided, a request that awaits
\* its decision is written by the call that has it only, and none is opened but
\* by the call that raised it.
LEMMA OnceStep ==
    ASSUME IInv, IInv', OnceInv, NEW c \in Calls, NEW k \in CallType,
           calls' = [calls EXCEPT ![c] = k],
           InHand(c)',
           \A q \in Requests :
              \/ requests'[q].status = requests[q].status
              \/ Decided(q) /\ Decided(q)'
              \/ q = calls[c].request /\ calls[c].op \in {"create", "APPROVED", "REJECTED"},
           \A q \in Requests :
              q \in open' =>
                 \/ q \in open
                 \/ calls[c].op = "initiate" /\ calls[c].request = q /\ k.request = None,
           \A r \in Repayments :
              /\ \/ repayments'[r].link \in {repayments[r].link, None}
                 \/ calls[c].op = "link" /\ repayments'[r].link = calls[c].request
              /\ repayments'[r].applied => repayments[r].applied \/ Recorded(r)
              /\ Recorded(r) => Recorded(r)'
    PROVE  OnceInv'
<1>1. /\ calls'[c] = k
      /\ \A d \in Calls \ {c} : calls'[d] = calls[d]
      /\ \A d \in Calls : InHand(d) /\ calls[d].request \in Requests \union {None}
      /\ None \notin Requests
  BY LiquidationConstants DEF IInv, CallsInv, CallType, OnceInv
<1>2. \A q \in Requests : Decided(q) => Decided(q)'
  BY <1>1 DEF InHand, Decided, Undecided, Deciding
<1>3. ASSUME NEW q \in Requests, q \in open'
      PROVE  requests'[q].status = "PENDING_APPROVAL" /\ \A d \in Calls : calls'[d].request # q
  <2>1. /\ requests'[q].status = "PENDING_APPROVAL"
        /\ \A d \in Calls \ {c} : calls[d].request # q
    <3>1. CASE q \in open
      BY <1>1, <3>1 DEF OnceInv, Decided
    <3>2. CASE calls[c].op = "initiate" /\ calls[c].request = q
      <4>1. Raised(q)
        BY <1>1, <3>2 DEF IInv, CallsInv, Fit
      <4>. QED  BY <1>1, <3>2, <4>1 DEF InHand, Raised, Decided, Undecided, Deciding
    <3>. QED  BY <1>3, <3>1, <3>2
  <2>2. k.request # q
    BY <1>1, <1>3, <2>1 DEF InHand, Decided, Deciding
  <2>. QED  BY <1>1, <2>1, <2>2
<1>4. ASSUME NEW d \in Calls \ {c}
      PROVE  InHand(d)'
  <2>. DEFINE q == calls[d].request
  <2>1. CASE q = None
    BY <1>1, <2>1, FreeHand
  <2>2. CASE q \in Requests /\ calls[d].op \in Deciding
    <3>1. Undecided(q) /\ q \notin open /\ \A e \in Calls \ {d} : calls[e].request # q
      BY <1>1, <2>2 DEF InHand
    <3>2. calls[c].request # q
      BY <3>1
    <3>3. Undecided(q)' /\ ~Decided(q)' /\ q \notin open'
      BY <2>2, <3>1, <3>2 DEF Undecided, Decided
    <3>4. k.request # q
      BY <1>1, <2>2, <3>3 DEF InHand
    <3>. QED  BY <1>1, <2>2, <3>1, <3>3, <3>4 DEF InHand, Deciding, Unlinked
  <2>3. CASE q \in Requests /\ calls[d].op \notin Deciding
    <3>1. calls[d].op \notin Unlinked /\ Decided(q)
      BY <1>1, <2>3 DEF InHand
    <3>2. Decided(q)'
      BY <1>2, <2>3, <3>1
    <3>. QED  BY <1>1, <2>3, <3>1, <3>2 DEF InHand
  <2>. QED  BY <1>1, <2>1, <2>2, <2>3
<1>5. ASSUME NEW r \in Repayments, repayments'[r].link # None
      PROVE  Decided(repayments[r].link)'
  <2>1. CASE repayments'[r].link = repayments[r].link /\ repayments[r].link # None
    <3>1. repayments[r].link \in Requests /\ Decided(repayments[r].link)
      BY <2>1 DEF IInv, DocsInv, TypeInv, RepaymentType, OnceInv
    <3>. QED  BY <1>2, <2>1, <3>1 DEF Decided
  <2>2. CASE calls[c].op = "link" /\ repayments'[r].link = calls[c].request
    <3>1. calls[c].request \in Requests /\ Decided(calls[c].request)
      BY <1>1, <2>2 DEF IInv, CallsInv, Fit, OnRequest, InHand, Deciding
    <3>. QED  BY <1>2, <2>2, <3>1 DEF Decided
  <2>. QED  BY <1>5, <2>1, <2>2
<1>6. \A r \in Repayments : repayments'[r].applied => Recorded(r)'
  BY DEF OnceInv
<1>. QED  BY <1>1, <1>3, <1>4, <1>5, <1>6 DEF OnceInv

\* A step that writes no document: it reads, decides or ends.
LEMMA OnceQuiet ==
    ASSUME IInv, IInv', OnceInv, NEW c \in Calls, NEW k \in CallType,
           calls' = [calls EXCEPT ![c] = k],
           UNCHANGED <<requests, repayments>>,
           InHand(c)',
           \A q \in Requests :
              q \in open' =>
                 \/ q \in open
                 \/ calls[c].op = "initiate" /\ calls[c].request = q /\ k.request = None
    PROVE  OnceInv'
<1>1. \A r \in Repayments : Recorded(r)' = Recorded(r)
  BY DEF Recorded
<1>. QED  BY <1>1, OnceStep

\* A call that begins with a request, or decides one, has read what it is.
LEMMA OnceBegin ==
    ASSUME IInv, IInv', OnceInv, NEW c \in Calls, NEW op \in Ops, NEW q \in Requests \union {None},
           NEW r \in Repayments \union {None}, NEW n \in Nat \union Periods,
           calls' = [calls EXCEPT ![c] = Call(op, q, r, n)],
           UNCHANGED <<requests, repayments>>, open' \subseteq open,
           op \in Unlinked => q = None,
           op \in Deciding /\ q # None =>
              Undecided(q) /\ q \notin open' /\ \A d \in Calls : calls[d].request # q,
           op \notin Deciding /\ q # None => Decided(q)
    PROVE  OnceInv'
<1>1. PICK k \in CallType : k = Call(op, q, r, n) /\ k.op = op /\ k.request = q
  BY CallFields
<1>2. calls'[c] = k /\ \A d \in Calls \ {c} : calls'[d] = calls[d]
  BY <1>1 DEF IInv, CallsInv
<1>3. InHand(c)'
  BY <1>1, <1>2 DEF InHand, Undecided, Decided
<1>. QED  BY <1>1, <1>3, OnceQuiet

LEMMA ReadOnce ==
    ASSUME IInv, IInv', OnceInv,
           \/ \E c \in Calls, q \in Requests :
                 \/ InitiateRead(c, q)
                 \/ \E verdict \in {"APPROVED", "REJECTED"} : DecideRequest(c, q, verdict)
                 \/ \E r \in Repayments : LinkRead(c, q, r)
                 \/ \E p \in Periods : SweepRead(c, q, p)
           \/ \E c \in Calls, p \in Periods : PenaltyRead(c, p)
           \/ \E c \in Calls, r \in Repayments :
                 \/ \E amount \in Amounts : RecordRead(c, r, amount)
                 \/ \E op \in {"approve", "reject"} : DecideRepayment(c, r, op) \/ ResolveRead(c, r, op)
                 \/ DisputeRead(c, r)
    PROVE  OnceInv'
<1>1. ASSUME NEW c \in Calls, NEW q \in Requests, InitiateRead(c, q)
      PROVE  OnceInv'
  <2>1. account.balance + Fee \in Nat
    BY LiquidationConstants DEF IInv, DocsInv, TypeInv, AccountType
  <2>2. calls' = [calls EXCEPT ![c] = Call("create", q, None, account.balance + Fee)]
        /\ UNCHANGED <<requests, repayments, open>>
    BY <1>1 DEF InitiateRead, Enter, Continue
  <2>3. Undecided(q) /\ q \notin open /\ \A d \in Calls : calls[d].request # q
    BY <1>1 DEF InitiateRead, NoRequest, Undecided, OnceInv
  <2>. QED  BY <2>1, <2>2, <2>3, OnceBegin DEF Ops, OnRequest, Deciding, Unlinked
<1>2. ASSUME NEW c \in Calls, NEW q \in Requests, NEW v \in {"APPROVED", "REJECTED"},
             DecideRequest(c, q, v)
      PROVE  OnceInv'
  <2>1. calls' = [calls EXCEPT ![c] = Call(v, q, None, 0)]
        /\ UNCHANGED <<requests, repayments>> /\ open' = open \ {q}
    BY <1>2 DEF DecideRequest, Continue
  <2>2. Undecided(q) /\ q \notin open' /\ \A d \in Calls : calls[d].request # q
    BY <1>2, <2>1 DEF DecideRequest, Undecided, OnceInv
  <2>. QED  BY <2>1, <2>2, OnceBegin DEF Ops, OnRequest, Deciding, Unlinked
<1>3. ASSUME NEW c \in Calls, NEW q \in Requests, NEW r \in Repayments, LinkRead(c, q, r)
      PROVE  OnceInv'
  <2>1. calls' = [calls EXCEPT ![c] = Call("link", q, r, 0)]
        /\ UNCHANGED <<requests, repayments, open>> /\ Decided(q)
    BY <1>3 DEF LinkRead, Enter, Continue, Decided
  <2>. QED  BY <2>1, OnceBegin DEF Ops, OnRequest, Deciding, Unlinked
<1>4. ASSUME NEW c \in Calls, NEW q \in Requests, NEW p \in Periods, SweepRead(c, q, p)
      PROVE  OnceInv'
  <2>1. calls' = [calls EXCEPT ![c] = Call("charge", q, None, p)]
        /\ UNCHANGED <<requests, repayments, open>> /\ Decided(q)
    BY <1>4 DEF SweepRead, Enter, Continue, Decided
  <2>. QED  BY <2>1, OnceBegin DEF Ops, OnRequest, Deciding, Unlinked
<1>5. ASSUME NEW c \in Calls, NEW r \in Repayments,
             \/ \E amount \in Amounts : RecordRead(c, r, amount)
             \/ \E op \in {"approve", "reject"} : DecideRepayment(c, r, op) \/ ResolveRead(c, r, op)
             \/ DisputeRead(c, r)
      PROVE  OnceInv'
  <2>1. PICK op \in {"record", "approve", "reject", "reverse"}, n \in Nat :
           calls' = [calls EXCEPT ![c] = Call(op, None, r, n)]
    BY <1>5, LiquidationConstants
       DEF RecordRead, DecideRepayment, ResolveRead, DisputeRead, Enter, Continue
  <2>2. UNCHANGED <<requests, repayments>> /\ open' \subseteq open
    BY <1>5 DEF RecordRead, DecideRepayment, ResolveRead, DisputeRead, Enter
  <2>3. op \in Ops /\ op \in Unlinked /\ op \notin Deciding
    BY DEF Ops, OnRepayment, Unlinked, Deciding
  <2>. QED  BY <2>1, <2>2, <2>3, OnceBegin
<1>6. ASSUME NEW c \in Calls, NEW p \in Periods, PenaltyRead(c, p)
      PROVE  OnceInv'
  <2>1. calls' = [calls EXCEPT ![c] = Call("penalise", None, None, p)]
        /\ UNCHANGED <<requests, repayments, open>>
    BY <1>6 DEF PenaltyRead, Enter, Continue
  <2>. QED  BY <2>1, OnceBegin DEF Ops, OnPeriod, Deciding, Unlinked
<1>. QED  BY <1>1, <1>2, <1>3, <1>4, <1>5, <1>6

\* A call that ends, or goes on without a request.
LEMMA NoRequestOnward ==
    ASSUME IInv, OnceInv, NEW c \in Calls,
           \/ calls' = [calls EXCEPT ![c] = Idle]
           \/ /\ calls[c].op \in Unlinked
              /\ \E op : calls' = [calls EXCEPT ![c] = [calls[c] EXCEPT !.op = op]]
           \/ \E op, r, n : calls' = [calls EXCEPT ![c] = Call(op, None, r, n)]
    PROVE  InHand(c)' /\ calls'[c].request = None
<1>1. calls \in [Calls -> CallType] /\ InHand(c)
  BY DEF IInv, CallsInv, OnceInv
<1>2. calls'[c].request = None
  <2>1. CASE calls' = [calls EXCEPT ![c] = Idle]
    BY <1>1, <2>1, CallFields DEF Idle
  <2>2. ASSUME calls[c].op \in Unlinked, NEW op,
               calls' = [calls EXCEPT ![c] = [calls[c] EXCEPT !.op = op]]
        PROVE  calls'[c].request = None
    <3>1. calls[c].request = None
      BY <1>1, <2>2 DEF InHand
    <3>. QED  BY <1>1, <2>2, <3>1 DEF CallType
  <2>3. ASSUME NEW op, NEW r, NEW n, calls' = [calls EXCEPT ![c] = Call(op, None, r, n)]
        PROVE  calls'[c].request = None
    BY <1>1, <2>3, CallFields
  <2>. QED  BY <2>1, <2>2, <2>3
<1>. QED  BY <1>2, FreeHand

\* The calls' slots stay slots with calls of their type.
LEMMA NextCall ==
    ASSUME IInv, IInv', NEW c \in Calls, NEW k, calls' = [calls EXCEPT ![c] = k]
    PROVE  k \in CallType /\ calls'[c] = k
BY DEF IInv, CallsInv

LEMMA ListenOnce ==
    ASSUME IInv, IInv', OnceInv, NEW c \in Calls,
           \/ Initiate(c) \/ PostRepayment(c) \/ AppliedRead(c) \/ CheckRead(c) \/ Penalise(c)
           \/ PostPenalty(c) \/ PostDelay(c) \/ Abandon(c)
    PROVE  OnceInv'
<1>1. UNCHANGED <<requests, repayments>>
  BY DEF Initiate, PostRepayment, AppliedRead, CheckRead, Penalise, PostPenalty, PostDelay, Abandon
<1>2. CASE Initiate(c)
  <2>1. calls' = [calls EXCEPT ![c] = Idle] /\ calls[c].op = "initiate"
    BY <1>2 DEF Initiate, Continue, At
  <2>2. Idle \in CallType /\ calls'[c] = Idle
    BY <2>1, NextCall
  <2>3. InHand(c)' /\ Idle.request = None
    BY <2>1, <2>2, NoRequestOnward
  <2>4. \A q \in Requests : q \in open' => q \in open \/ calls[c].request = q
    <3>1. calls[c].repayment \in Repayments \union {None}
      BY DEF IInv, CallsInv, CallType
    <3>. QED  BY <1>2, <3>1, LiquidationConstants DEF Initiate
  <2>. QED  BY <1>1, <2>1, <2>2, <2>3, <2>4, OnceQuiet
<1>3. ASSUME ~Initiate(c)
      PROVE  UNCHANGED open
  BY <1>3 DEF Initiate, PostRepayment, AppliedRead, CheckRead, Penalise, PostPenalty, PostDelay,
     Abandon
<1>4. CASE ~Initiate(c) /\ calls' = [calls EXCEPT ![c] = Idle]
  BY <1>1, <1>3, <1>4, NextCall, NoRequestOnward, OnceQuiet
<1>5. CASE PostRepayment(c)
  <2>1. calls' = [calls EXCEPT ![c] = [calls[c] EXCEPT !.op = "applied"]]
        /\ calls[c].op \in Unlinked /\ UNCHANGED open
    BY <1>5 DEF PostRepayment, Then, Continue, At, Unlinked
  <2>. QED  BY <1>1, <2>1, NextCall, NoRequestOnward, OnceQuiet
<1>6. CASE AppliedRead(c) /\ calls' # [calls EXCEPT ![c] = Idle]
  <2>1. PICK r \in Repayments : r = calls[c].repayment
    BY <1>6, Remembers DEF AppliedRead, At, OnRepayment
  <2>2. /\ repayments[r].link # None
        /\ calls' = [calls EXCEPT ![c] = Call("check", repayments[r].link, r, 0)]
        /\ UNCHANGED open
    BY <1>6, <2>1 DEF AppliedRead, Continue
  <2>3. Decided(repayments[r].link) /\ repayments[r].link \in Requests
    BY <2>2 DEF OnceInv, IInv, DocsInv, TypeInv, RepaymentType
  <2>. QED  BY <1>1, <2>2, <2>3, OnceBegin DEF Ops, OnRequest, Deciding, Unlinked
<1>7. CASE CheckRead(c) /\ calls' # [calls EXCEPT ![c] = Idle]
  <2>1. calls' = [calls EXCEPT ![c] = [calls[c] EXCEPT !.op = "complete"]]
        /\ calls[c].op = "check" /\ UNCHANGED open
    BY <1>7 DEF CheckRead, Then, Continue, At
  <2>2. PICK k \in CallType : k = [calls[c] EXCEPT !.op = "complete"] /\ k.op = "complete"
                              /\ k.request = calls[c].request
    <3>1. "complete" \in Ops /\ calls[c] \in CallType
      BY Remembers DEF Ops, OnRequest
    <3>. QED  BY <3>1, ThenTypes
  <2>3. Decided(calls[c].request)
    BY <2>1, Remembers, LiquidationConstants DEF OnceInv, InHand, Deciding, OnRequest
  <2>4. InHand(c)'
    <3>1. calls'[c] = k
      BY <2>1, <2>2, NextCall
    <3>. QED  BY <1>1, <2>2, <2>3, <3>1 DEF InHand, Decided, Deciding, Unlinked
  <2>. QED  BY <1>1, <2>1, <2>2, <2>4, OnceQuiet
<1>8. CASE Penalise(c) /\ calls' # [calls EXCEPT ![c] = Idle]
  <2>1. calls' = [calls EXCEPT ![c] = [calls[c] EXCEPT !.op = "post_penalty"]]
        /\ calls[c].op \in Unlinked /\ UNCHANGED open
    BY <1>8 DEF Penalise, Then, Continue, At, Unlinked
  <2>. QED  BY <1>1, <2>1, NextCall, NoRequestOnward, OnceQuiet
<1>9. CASE (PostPenalty(c) \/ PostDelay(c) \/ Abandon(c)) /\ calls' # [calls EXCEPT ![c] = Idle]
  BY <1>9 DEF PostPenalty, PostDelay, Abandon, Continue
<1>. QED  BY <1>2, <1>4, <1>5, <1>6, <1>7, <1>8, <1>9

\* What the steps on a repayment write to it.
LEMMA RepaymentFields ==
    ASSUME IInv, IInv', OnceInv, NEW c \in Calls,
           Link(c) \/ Record(c) \/ Settle(c) \/ Dispute(c) \/ Apply(c) \/ Reverse(c)
    PROVE  \A r \in Repayments :
              /\ \/ repayments'[r].link \in {repayments[r].link, None}
                 \/ calls[c].op = "link" /\ repayments'[r].link = calls[c].request
              /\ repayments'[r].applied => repayments[r].applied \/ Recorded(r)
              /\ Recorded(r) => Recorded(r)'
<1>1. PICK x \in Repayments : x = calls[c].repayment /\ (calls[c].op # "record" => Recorded(x))
  BY Remembers, LiquidationConstants
     DEF Link, Record, Settle, Dispute, Apply, Reverse, At, OnRepayment
<1>2. repayments \in [Repayments -> RepaymentType]
  BY DEF IInv, DocsInv, TypeInv
<1>. SUFFICES ASSUME NEW r \in Repayments
              PROVE  /\ \/ repayments'[r].link \in {repayments[r].link, None}
                        \/ calls[c].op = "link" /\ repayments'[r].link = calls[c].request
                     /\ repayments'[r].applied => repayments[r].applied \/ Recorded(r)
                     /\ Recorded(r) => Recorded(r)'
  OBVIOUS
<1>3. repayments[r] \in RepaymentType
  BY <1>2
<1>4. CASE r # x \/ UNCHANGED repayments
  <2>1. repayments'[r] = repayments[r]
    BY <1>1, <1>2, <1>4 DEF Link, Record, Settle, Dispute, Apply, Reverse
  <2>. QED  BY <2>1 DEF Recorded
<1>5. CASE Link(c) /\ r = x
  BY <1>1, <1>2, <1>3, <1>5 DEF Link, At, Recorded, RepaymentType
<1>6. CASE Record(c) /\ r = x
  <2>1. repayments'[r] = [NoRepayment EXCEPT !.status = "PENDING", !.amount = calls[c].amount]
    BY <1>1, <1>2, <1>6 DEF Record
  <2>. QED  BY <2>1 DEF Recorded, NoRepayment
<1>7. CASE (Settle(c) \/ Dispute(c)) /\ r = x
  <2>1. PICK st \in Decisions : repayments'[r] = [repayments[r] EXCEPT !.status = st]
    BY <1>1, <1>2, <1>7 DEF Settle, Dispute, Decisions
  <2>. QED  BY <1>3, <2>1 DEF Recorded, RepaymentType, Decisions
<1>8. CASE Apply(c) /\ r = x /\ ~UNCHANGED repayments
  <2>1. PICK over : repayments'[r] = [repayments[r] EXCEPT !.applied = TRUE, !.over = over]
    <3>1. PICK over : over = IF repayments[x].amount > account.balance
                             THEN repayments[x].amount - Min({repayments[x].amount, account.balance})
                             ELSE repayments[x].over
      OBVIOUS
    <3>2. repayments' = [repayments EXCEPT ![x].applied = TRUE, ![x].over = over]
      BY <1>1, <1>8, <3>1 DEF Apply
    <3>3. repayments'[r] = [repayments[r] EXCEPT !.applied = TRUE, !.over = over]
      BY <1>2, <1>8, <3>2
    <3>. QED  BY <3>3
  <2>2. repayments'[r].link = repayments[r].link /\ repayments'[r].status = repayments[r].status
    BY <1>3, <2>1 DEF RepaymentType
  <2>. QED  BY <1>1, <1>8, <2>2 DEF Recorded, Apply, At
<1>9. CASE Reverse(c) /\ r = x /\ ~UNCHANGED repayments
  <2>1. repayments'[r] = [repayments[r] EXCEPT !.applied = FALSE]
    BY <1>1, <1>2, <1>9 DEF Reverse
  <2>. QED  BY <1>3, <2>1 DEF Recorded, RepaymentType
<1>. QED  BY <1>4, <1>5, <1>6, <1>7, <1>8, <1>9

LEMMA RepaymentOnce ==
    ASSUME IInv, IInv', OnceInv, NEW c \in Calls,
           Link(c) \/ Record(c) \/ Settle(c) \/ Dispute(c) \/ Apply(c) \/ Reverse(c)
    PROVE  OnceInv'
<1>1. UNCHANGED <<requests, open>>
  BY DEF Link, Record, Settle, Dispute, Apply, Reverse
<1>2. \/ calls' = [calls EXCEPT ![c] = Idle]
      \/ /\ calls[c].op \in Unlinked
         /\ \E op : calls' = [calls EXCEPT ![c] = [calls[c] EXCEPT !.op = op]]
      \/ \E op, r, n : calls' = [calls EXCEPT ![c] = Call(op, None, r, n)]
  <2>1. CASE Link(c) \/ Dispute(c)
    BY <2>1 DEF Link, Dispute, Continue
  <2>2. CASE Record(c) \/ Settle(c)
    BY <2>2 DEF Record, Settle, Then, Continue, At, Unlinked
  <2>3. CASE Apply(c)
    BY <2>3 DEF Apply, Continue
  <2>4. CASE Reverse(c)
    BY <2>4 DEF Reverse, Then, Continue, At, Unlinked
  <2>. QED  BY <2>1, <2>2, <2>3, <2>4
<1>3. PICK k \in CallType : calls' = [calls EXCEPT ![c] = k]
  BY <1>2, NextCall
<1>. QED  BY <1>1, <1>2, <1>3, NoRequestOnward, RepaymentFields, OnceStep

LEMMA RequestOnce ==
    ASSUME IInv, IInv', OnceInv, NEW c \in Calls,
           CreateRequest(c) \/ WriteDecision(c) \/ Complete(c) \/ ChargeDelay(c)
    PROVE  OnceInv'
<1>1. UNCHANGED <<repayments, open>>
  BY DEF CreateRequest, WriteDecision, Complete, ChargeDelay
<1>2. PICK x \in Requests : x = calls[c].request
  BY Remembers DEF CreateRequest, WriteDecision, Complete, ChargeDelay, At, OnRequest
<1>3. requests \in [Requests -> RequestType] /\ InHand(c) /\ None \notin Requests
  BY LiquidationConstants DEF IInv, DocsInv, TypeInv, OnceInv
<1>4. \A r \in Repayments : Recorded(r)' = Recorded(r)
  BY <1>1 DEF Recorded
<1>5. CASE CreateRequest(c)
  <2>1. /\ calls[c].op = "create"
        /\ requests' = [requests EXCEPT ![x] = [status |-> "PENDING_APPROVAL", total |-> calls[c].amount]]
        /\ calls' = [calls EXCEPT ![c] = [calls[c] EXCEPT !.op = "initiate"]]
    BY <1>2, <1>5 DEF CreateRequest, At, Then, Continue
  <2>2. PICK k \in CallType : k = [calls[c] EXCEPT !.op = "initiate"] /\ k.op = "initiate"
                              /\ k.request = x
    BY <1>2, OnwardTypes DEF Ops
  <2>3. requests'[x].status = "PENDING_APPROVAL"
        /\ \A q \in Requests \ {x} : requests'[q] = requests[q]
    BY <1>3, <2>1
  <2>4. InHand(c)'
    <3>1. calls'[c] = k /\ \A d \in Calls \ {c} : calls'[d] = calls[d]
      BY <2>1, <2>2 DEF IInv, CallsInv
    <3>2. x \notin open /\ \A d \in Calls \ {c} : calls[d].request # x
      BY <1>2, <1>3, <2>1 DEF InHand, Deciding
    <3>. QED  BY <1>1, <2>2, <2>3, <3>1, <3>2 DEF InHand, Undecided, Deciding, Unlinked
  <2>. QED  BY <1>1, <1>2, <1>4, <2>1, <2>2, <2>3, <2>4, OnceStep
<1>6. CASE WriteDecision(c)
  <2>1. /\ calls[c].op \in {"APPROVED", "REJECTED"}
        /\ requests' = [requests EXCEPT ![x].status = calls[c].op]
        /\ calls' = [calls EXCEPT ![c] = Idle]
    BY <1>2, <1>6 DEF WriteDecision, At, Continue
  <2>2. \A q \in Requests \ {x} : requests'[q] = requests[q]
    BY <1>3, <2>1
  <2>. QED  BY <1>1, <1>2, <1>4, <2>1, <2>2, NextCall, NoRequestOnward, OnceStep
<1>7. CASE Complete(c)
  <2>1. /\ calls[c].op = "complete" /\ calls' = [calls EXCEPT ![c] = Idle]
        /\ UNCHANGED requests \/ requests' = [requests EXCEPT ![x].status = "COMPLETED"]
    BY <1>2, <1>7 DEF Complete, At, Continue
  <2>2. Decided(x)
    BY <1>2, <1>3, <2>1 DEF InHand, Deciding
  <2>3. \A q \in Requests : \/ requests'[q].status = requests[q].status
                            \/ Decided(q) /\ Decided(q)'
    <3>1. ASSUME requests' = [requests EXCEPT ![x].status = "COMPLETED"]
          PROVE  requests'[x].status = "COMPLETED" /\ \A q \in Requests \ {x} : requests'[q] = requests[q]
      BY <1>3, <3>1 DEF RequestType
    <3>. QED  BY <2>1, <2>2, <3>1 DEF Decided
  <2>. QED  BY <1>1, <1>4, <2>1, <2>3, NextCall, NoRequestOnward, OnceStep
<1>8. CASE ChargeDelay(c)
  <2>1. calls[c].op = "charge"
    BY <1>8 DEF ChargeDelay, At
  <2>2. \A q \in Requests : requests'[q].status = requests[q].status
    BY <1>2, <1>3, <1>8 DEF ChargeDelay, RequestType
  <2>3. CASE calls' = [calls EXCEPT ![c] = Idle]
    BY <1>1, <1>4, <2>2, <2>3, NextCall, NoRequestOnward, OnceStep
  <2>4. CASE calls' = [calls EXCEPT ![c] = [calls[c] EXCEPT !.op = "post_charge"]]
    <3>1. PICK k \in CallType : k = [calls[c] EXCEPT !.op = "post_charge"] /\ k.op = "post_charge"
                                /\ k.request = x
      BY <1>2, OnwardTypes DEF Ops, OnRequest
    <3>2. Decided(x)
      BY <1>2, <1>3, <2>1 DEF InHand, Deciding
    <3>3. InHand(c)'
      <4>1. calls'[c] = k
        BY <2>4, <3>1, NextCall
      <4>. QED  BY <1>2, <2>2, <3>1, <3>2, <4>1 DEF InHand, Decided, Deciding, Unlinked
    <3>. QED  BY <1>1, <1>4, <2>2, <2>4, <3>1, <3>3, OnceStep
  <2>. QED  BY <1>8, <2>3, <2>4 DEF ChargeDelay, Then, Continue
<1>. QED  BY <1>5, <1>6, <1>7, <1>8

LEMMA WithdrawOnce ==
    ASSUME OnceInv, NEW x \in open, Withdraw(x)
    PROVE  OnceInv'
BY DEF OnceInv, Withdraw, InHand, Decided, Undecided, Recorded

LEMMA InitOnce == Init => OnceInv
BY CallFields DEF Init, OnceInv, InHand, Idle, NoRepayment, Recorded

LEMMA NextOnce == IInv /\ IInv' /\ OnceInv /\ [Next]_vars => OnceInv'
<1>. SUFFICES ASSUME IInv, IInv', OnceInv, [Next]_vars PROVE OnceInv'
  OBVIOUS
<1>1. CASE UNCHANGED vars
  BY <1>1 DEF vars, OnceInv, InHand, Decided, Undecided, Recorded
<1>. QED  BY <1>1, ReadOnce, ListenOnce, RepaymentOnce, RequestOnce, WithdrawOnce DEF Next

LEMMA SpecOnce == Spec => []OnceInv
BY SpecInv, InitOnce, NextOnce, PTL DEF Spec

-----------------------------------------------------------------------------
(* The account is one debt. *)

\* A step that keeps the balance and what each repayment counts for, and
\* completes no request.
LEMMA QuietDebt ==
    ASSUME UNCHANGED <<account, charged>>,
           \A q \in Requests : requests'[q].status = "COMPLETED" <=> requests[q].status = "COMPLETED",
           \A r \in Repayments :
              /\ repayments'[r].applied <=> repayments[r].applied
              /\ repayments[r].applied => Refund(r)' = Refund(r)
    PROVE  UNCHANGED Ledger!vars
<1>1. {r \in Repayments : repayments'[r].applied} = {r \in Repayments : repayments[r].applied}
  OBVIOUS
<1>2. {q \in Requests : requests'[q].status = "COMPLETED"} = {q \in Requests : requests[q].status = "COMPLETED"}
  OBVIOUS
<1>3. \A r \in Repayments : Refund(r)' = Refund(r)
  BY DEF Refund
<1>4. [r \in Repayments |-> Refund(r)]' = [r \in Repayments |-> Refund(r)]
  BY <1>3
<1>. QED  BY <1>1, <1>2, <1>4 DEF Ledger!vars

LEMMA ApplyPays ==
    ASSUME IInv, OnceInv, NEW c \in Calls, Apply(c)
    PROVE  Ledger!Next \/ UNCHANGED Ledger!vars
<1>1. PICK x \in Repayments : x = calls[c].repayment
  BY Remembers, LiquidationConstants DEF Apply, At, OnRepayment
<1>2. UNCHANGED <<requests, charged>>
  BY DEF Apply
<1>3. CASE repayments[x].applied
  BY <1>1, <1>2, <1>3, QuietDebt DEF Apply, Refund
<1>4. CASE ~repayments[x].applied
  <2>1. /\ repayments \in [Repayments -> RepaymentType] /\ account \in AccountType
        /\ repayments[x].amount \in Nat /\ repayments[x].over \in Nat /\ account.balance \in Nat
        /\ repayments[x].over <= repayments[x].amount
    BY DEF IInv, DocsInv, TypeInv, AccountInv, RepaymentType, AccountType
  <2>2. PICK taken \in Nat : /\ taken = Min({repayments[x].amount, account.balance})
                             /\ taken \in {repayments[x].amount, account.balance}
                             /\ taken <= repayments[x].amount /\ taken <= account.balance
    BY <2>1, MinOfTwo
  <2>3. PICK over : over = IF repayments[x].amount > account.balance
                           THEN repayments[x].amount - taken ELSE repayments[x].over
    OBVIOUS
  <2>4. PICK back \in Nat : back = repayments[x].amount - over /\ back <= taken
    BY <2>1, <2>2, <2>3
  <2>5. repayments' = [repayments EXCEPT ![x].applied = TRUE, ![x].over = over]
    BY <1>1, <1>4, <2>2, <2>3 DEF Apply
  <2>6. account' = IF account.balance - taken = 0 THEN [status |-> "CLOSED", balance |-> 0]
                   ELSE [account EXCEPT !.balance = account.balance - taken]
    BY <1>1, <1>4, <2>2 DEF Apply
  <2>7. /\ account'.balance = account.balance - taken
        /\ account'.status = IF taken = account.balance THEN "CLOSED" ELSE account.status
    BY <2>1, <2>2, <2>6 DEF AccountType
  <2>8. /\ repayments'[x].applied /\ repayments'[x].amount = repayments[x].amount
        /\ repayments'[x].over = over
        /\ \A r \in Repayments \ {x} : repayments'[r] = repayments[r]
    BY <2>1, <2>5 DEF RepaymentType
  <2>9. {r \in Repayments : repayments'[r].applied} = {r \in Repayments : repayments[r].applied} \union {x}
    BY <2>8
  <2>10. [r \in Repayments |-> Refund(r)]' = [[r \in Repayments |-> Refund(r)] EXCEPT ![x] = back]
    <3>1. Refund(x)' = back /\ \A r \in Repayments \ {x} : Refund(r)' = Refund(r)
      BY <2>4, <2>8 DEF Refund
    <3>. QED  BY <3>1
  <2>11. Ledger!Pay(x, taken, back)
    BY <1>2, <1>4, <2>4, <2>7, <2>9, <2>10 DEF Ledger!Pay
  <2>12. taken \in 0 .. account.balance /\ back \in 0 .. account.balance
    BY <2>1, <2>2, <2>4
  <2>. QED  BY <2>11, <2>12 DEF Ledger!Next
<1>. QED  BY <1>3, <1>4

LEMMA ReverseGivesBack ==
    ASSUME IInv, OnceInv, NEW c \in Calls, Reverse(c)
    PROVE  Ledger!Next \/ UNCHANGED Ledger!vars
<1>1. PICK x \in Repayments : x = calls[c].repayment
  BY Remembers, LiquidationConstants DEF Reverse, At, OnRepayment
<1>2. UNCHANGED <<requests, charged>>
  BY DEF Reverse
<1>3. CASE ~repayments[x].applied
  BY <1>1, <1>2, <1>3, QuietDebt DEF Reverse, Refund
<1>4. CASE repayments[x].applied
  <2>1. /\ repayments \in [Repayments -> RepaymentType]
        /\ repayments[x].amount \in Nat /\ repayments[x].over \in Nat /\ account.balance \in Nat
    BY DEF IInv, DocsInv, TypeInv, RepaymentType, AccountType
  <2>2. PICK balance : balance = account.balance + repayments[x].amount - repayments[x].over
    OBVIOUS
  <2>3. /\ account' = [status |-> IF balance > 0 THEN "ACTIVE" ELSE account.status,
                       balance |-> balance]
        /\ repayments' = [repayments EXCEPT ![x].applied = FALSE]
    BY <1>1, <1>4, <2>2 DEF Reverse
  <2>4. /\ [r \in Repayments |-> Refund(r)][x] = repayments[x].amount - repayments[x].over
        /\ balance = account.balance + (repayments[x].amount - repayments[x].over)
    BY <1>4, <2>1, <2>2 DEF Refund
  <2>5. ~repayments'[x].applied /\ \A r \in Repayments \ {x} : repayments'[r] = repayments[r]
    BY <2>1, <2>3 DEF RepaymentType
  <2>6. {r \in Repayments : repayments'[r].applied} = {r \in Repayments : repayments[r].applied} \ {x}
    BY <2>5
  <2>7. [r \in Repayments |-> Refund(r)]' = [[r \in Repayments |-> Refund(r)] EXCEPT ![x] = 0]
    <3>1. Refund(x)' = 0 /\ \A r \in Repayments \ {x} : Refund(r)' = Refund(r)
      BY <2>5 DEF Refund
    <3>. QED  BY <3>1
  <2>8. account'.balance = balance /\ account'.status = IF balance > 0 THEN "ACTIVE" ELSE account.status
    BY <2>3
  <2>9. Ledger!GiveBack(x)
    BY <1>2, <1>4, <2>4, <2>6, <2>7, <2>8 DEF Ledger!GiveBack
  <2>. QED  BY <2>9 DEF Ledger!Next
<1>. QED  BY <1>3, <1>4

LEMMA CompleteSettles ==
    ASSUME IInv, OnceInv, NEW c \in Calls, Complete(c)
    PROVE  Ledger!Next \/ UNCHANGED Ledger!vars
<1>1. PICK x \in Requests : x = calls[c].request
  BY Remembers DEF Complete, At, OnRequest
<1>2. UNCHANGED <<repayments, charged>>
  BY DEF Complete
<1>3. CASE requests[x].status = "COMPLETED"
  BY <1>1, <1>2, <1>3, QuietDebt DEF Complete, Refund
<1>4. CASE requests[x].status # "COMPLETED"
  <2>1. requests' = [requests EXCEPT ![x].status = "COMPLETED"] /\ account' = Liquidated
    BY <1>1, <1>4 DEF Complete
  <2>2. requests'[x].status = "COMPLETED" /\ \A q \in Requests \ {x} : requests'[q] = requests[q]
    BY <2>1 DEF IInv, DocsInv, TypeInv, RequestType
  <2>3. {q \in Requests : requests'[q].status = "COMPLETED"}
          = {q \in Requests : requests[q].status = "COMPLETED"} \union {x}
    BY <2>2
  <2>4. account'.balance = 0 /\ account'.status = "CLOSED"
    BY <2>1 DEF Liquidated
  <2>5. /\ {r \in Repayments : repayments'[r].applied} = {r \in Repayments : repayments[r].applied}
        /\ [r \in Repayments |-> Refund(r)]' = [r \in Repayments |-> Refund(r)]
        /\ UNCHANGED charged
    BY <1>2 DEF Refund
  <2>6. Ledger!Settle(x)
    BY <1>4, <2>3, <2>4, <2>5 DEF Ledger!Settle
  <2>. QED  BY <2>6 DEF Ledger!Next
<1>. QED  BY <1>3, <1>4

LEMMA PenaliseAdds ==
    ASSUME IInv, OnceInv, NEW c \in Calls, Penalise(c)
    PROVE  Ledger!Next \/ UNCHANGED Ledger!vars
<1>1. PICK p \in Periods : p = calls[c].amount
  BY Remembers DEF Penalise, At, OnPeriod
<1>2. UNCHANGED <<requests, repayments>>
  BY DEF Penalise
<1>3. CASE p \in charged
  BY <1>1, <1>2, <1>3, QuietDebt DEF Penalise, Refund
<1>4. CASE p \notin charged
  <2>1. charged' = charged \union {p} /\ account' = [account EXCEPT !.balance = @ + Penalty]
    BY <1>1, <1>4 DEF Penalise
  <2>2. account'.balance = account.balance + Penalty /\ account'.status = account.status
    BY <2>1 DEF IInv, DocsInv, TypeInv, AccountType
  <2>3. /\ {r \in Repayments : repayments'[r].applied} = {r \in Repayments : repayments[r].applied}
        /\ [r \in Repayments |-> Refund(r)]' = [r \in Repayments |-> Refund(r)]
        /\ {q \in Requests : requests'[q].status = "COMPLETED"}
             = {q \in Requests : requests[q].status = "COMPLETED"}
    BY <1>2 DEF Refund
  <2>4. Ledger!Add(p)
    BY <1>4, <2>1, <2>2, <2>3 DEF Ledger!Add
  <2>. QED  BY <2>4 DEF Ledger!Next
<1>. QED  BY <1>3, <1>4

\* The other writes: a request is decided before it can be completed, so that no
\* decision takes a COMPLETED one back.
LEMMA OthersStutter ==
    ASSUME IInv, OnceInv, NEW c \in Calls,
           \/ CreateRequest(c) \/ WriteDecision(c) \/ ChargeDelay(c)
           \/ Link(c) \/ Record(c) \/ Settle(c) \/ Dispute(c)
    PROVE  UNCHANGED Ledger!vars
<1>1. /\ requests \in [Requests -> RequestType] /\ repayments \in [Repayments -> RepaymentType]
      /\ UNCHANGED <<account, charged>>
  BY DEF IInv, DocsInv, TypeInv, CreateRequest, WriteDecision, ChargeDelay, Link, Record,
     Settle, Dispute
<1>2. \A q \in Requests : requests'[q].status = "COMPLETED" <=> requests[q].status = "COMPLETED"
  <2>1. CASE UNCHANGED requests
    BY <2>1
  <2>2. CASE CreateRequest(c) \/ WriteDecision(c)
    <3>1. PICK x \in Requests : x = calls[c].request
      BY <2>2, Remembers DEF CreateRequest, WriteDecision, At, OnRequest
    <3>2. Undecided(x)
      BY <2>2, <3>1, LiquidationConstants DEF OnceInv, InHand, Deciding, CreateRequest,
         WriteDecision, At
    <3>3. requests'[x].status # "COMPLETED" /\ \A q \in Requests \ {x} : requests'[q] = requests[q]
      BY <1>1, <2>2, <3>1 DEF CreateRequest, WriteDecision, At, RequestType
    <3>. QED  BY <3>2, <3>3 DEF Undecided
  <2>3. CASE ChargeDelay(c)
    BY <1>1, <2>3 DEF ChargeDelay, RequestType
  <2>. QED  BY <2>1, <2>2, <2>3 DEF Link, Record, Settle, Dispute
<1>3. \A r \in Repayments :
         /\ repayments'[r].applied <=> repayments[r].applied
         /\ repayments[r].applied => repayments'[r].amount = repayments[r].amount
                                     /\ repayments'[r].over = repayments[r].over
  <2>1. CASE UNCHANGED repayments
    BY <2>1
  <2>2. CASE Link(c) \/ Settle(c) \/ Dispute(c)
    BY <1>1, <2>2 DEF Link, Settle, Dispute, RepaymentType
  <2>3. CASE Record(c)
    <3>1. PICK x \in Repayments : x = calls[c].repayment /\ ~Recorded(x)
      BY <2>3, Remembers DEF Record, At, OnRepayment, Fit
    <3>2. ~repayments[x].applied
      BY <3>1 DEF OnceInv
    <3>3. ~repayments'[x].applied /\ \A r \in Repayments \ {x} : repayments'[r] = repayments[r]
      BY <1>1, <2>3, <3>1 DEF Record, NoRepayment
    <3>. QED  BY <3>2, <3>3
  <2>. QED  BY <2>1, <2>2, <2>3 DEF CreateRequest, WriteDecision, ChargeDelay
<1>. QED  BY <1>1, <1>2, <1>3, QuietDebt DEF Refund

LEMMA StepRefinesDebt ==
    IInv /\ OnceInv /\ [Next]_vars => [Ledger!Next]_(Ledger!vars)
<1>. SUFFICES ASSUME IInv, OnceInv, [Next]_vars
              PROVE  Ledger!Next \/ UNCHANGED Ledger!vars
  OBVIOUS
<1>1. CASE UNCHANGED <<account, requests, repayments, charged>>
  BY <1>1, QuietDebt DEF Refund
<1>2. CASE ~UNCHANGED <<account, requests, repayments, charged>>
  <2>1. \E c \in Calls :
           \/ Apply(c) \/ Reverse(c) \/ Complete(c) \/ Penalise(c)
           \/ CreateRequest(c) \/ WriteDecision(c) \/ ChargeDelay(c)
           \/ Link(c) \/ Record(c) \/ Settle(c) \/ Dispute(c)
    BY <1>2 DEF Next, vars, InitiateRead, DecideRequest, LinkRead, PenaltyRead, SweepRead, Withdraw,
       RecordRead, DecideRepayment, ResolveRead, DisputeRead, Initiate, PostRepayment,
       AppliedRead, CheckRead, PostPenalty, PostDelay, Abandon, Enter
  <2>. QED  BY <2>1, ApplyPays, ReverseGivesBack, CompleteSettles, PenaliseAdds, OthersStutter
<1>. QED  BY <1>1, <1>2

\* Liquidation implements the same debt as the repayments do, for any number of
\* requests, repayments, penalties and calls in flight: each request settles it
\* once (checkCompletion), a penalty is added once (applyPenaltyCharge), and no
\* decision, link or delay charge touches it.
THEOREM LiquidationsImplementDebt == Spec => ImplementsDebt
<1>1. Init => Ledger!Init
  <2> SUFFICES ASSUME Init PROVE Ledger!Init
    OBVIOUS
  <2>1. account.status = "ACTIVE" /\ account.balance = Opening /\ charged = {}
    BY DEF Init
  <2>2. \A r \in Repayments : ~repayments[r].applied
    BY DEF Init, NoRepayment
  <2>3. {r \in Repayments : repayments[r].applied} = {} /\ \A r \in Repayments : Refund(r) = 0
    BY <2>2 DEF Refund
  <2>4. {q \in Requests : requests[q].status = "COMPLETED"} = {}
    BY DEF Init, NoRequest
  <2>. QED  BY <2>1, <2>3, <2>4 DEF Ledger!Init
<1>. QED  BY <1>1, SpecInv, SpecOnce, StepRefinesDebt, PTL
          DEF Spec, ImplementsDebt, Ledger!Spec
=============================================================================
