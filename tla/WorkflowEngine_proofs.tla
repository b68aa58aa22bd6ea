------------------------ MODULE WorkflowEngine_proofs -----------------------
(***************************************************************************)
(* Theorems about the workflow engine, for every set of staff, every chain *)
(* shape and every number of calls in flight.                              *)
(***************************************************************************)
EXTENDS WorkflowEngine, TLAPS, SequenceTheorems

\* A call between its read and its write.
Pending(k) == k.op \in {"act", "edit", "resubmit", "cancel", "delete"}

\* A call that is about to emit announces one of the engine's events.
Settled(k) == k.op = "emit" => k.verdict \in EventKinds

\* What a pending call remembers is still good enough to write: the document it
\* read was a consistent version of the stored one, with the same maker and
\* the same chain shape, and the checks of its first half held on it.
CallOK(k, r, e) ==
    /\ Settled(k)
    /\ Pending(k) =>
        /\ r.status # "ABSENT"
        /\ Exists(k.seen)
        /\ k.seen.caps = r.caps
        /\ k.seen.maker = r.maker
        /\ Consistent(k.seen)
        /\ Entitled(k.seen)
        /\ k.op = "act" => /\ Actionable(k.seen)
                           /\ k.actor \in Staff
                           /\ k.actor # k.seen.maker
                           /\ k.seen.caps[k.seen.index] \in Holds[k.actor]
                           /\ k.verdict \in Verdicts
        /\ k.op = "edit" => k.seen.status = "PENDING_REVIEW"
        /\ k.op = "resubmit" => /\ ~e
                                /\ k.seen.status \in {"REJECTED", "RETURNED_TO_MAKER"}
        /\ k.op = "cancel" => k.seen.status \notin {"APPROVED", "CANCELLED"}
        /\ k.op = "delete" => k.seen.status \in {"PENDING_REVIEW", "REJECTED"}

CallsInv == \A c \in Calls : CallOK(calls[c], request, editable)

\* The stored document, once it exists, is consistent, even after its deletion.
RequestInv ==
    request.status # "ABSENT" =>
        /\ Consistent(request)
        /\ Entitled(request)
        /\ request.maker \in Staff
        /\ ~editable => request.caps = chain.steps

IInv ==
    /\ TypeOK
    /\ RequestInv
    /\ CallsInv

-----------------------------------------------------------------------------
\* The untouched records of a chain are a sequence of steps, one per chain step.
LEMMA UntouchedType ==
    ASSUME NEW shape \in Seq(Capability)
    PROVE  /\ Untouched(shape) \in Seq(Step)
           /\ Len(Untouched(shape)) = Len(shape)
           /\ \A i \in 1 .. Len(shape) : Untouched(shape)[i] = UntouchedStep
<1>1. Len(shape) \in Nat
  BY LenProperties
<1>2. UntouchedStep \in Step
  BY DEF UntouchedStep, Step
<1>3. \A i \in 1 .. Len(shape) : UntouchedStep \in Step
  BY <1>2
<1>4. Untouched(shape) \in Seq(Step)
  BY <1>1, <1>3, IsASeq DEF Untouched
<1>5. DOMAIN Untouched(shape) = 1 .. Len(shape)
  BY DEF Untouched
<1>6. Len(Untouched(shape)) = Len(shape)
  BY <1>1, <1>4, <1>5, LenProperties
<1>. QED  BY <1>4, <1>6 DEF Untouched

\* A snapshot of an untouched chain is a consistent document.
LEMMA FreshConsistent ==
    ASSUME NEW shape \in Seq(Capability), shape # <<>>, NEW r \in Request,
           r.caps = shape, r.steps = Untouched(shape), r.index = 1,
           r.status = ComputeStatus(1, Len(shape))
    PROVE  Consistent(r) /\ Entitled(r) /\ Exists(r) /\ Actionable(r)
<1>1. Len(shape) \in Nat /\ Len(shape) # 0
  BY LenProperties, EmptySeq
<1>2. Actionable(r) /\ Exists(r)
  BY DEF ComputeStatus, Actionable, Exists
<1>3. Consistent(r)
  BY <1>1, <1>2, UntouchedType DEF Consistent, ComputeStatus, Actionable
<1>4. Entitled(r)
  BY UntouchedType DEF Entitled, UntouchedStep
<1>. QED  BY <1>2, <1>3, <1>4

\* The placeholder document has the type of a document.
LEMMA NoRequestType == NoRequest \in Request
<1>1. <<>> \in Seq(Capability) /\ <<>> \in Seq(Step)
  BY EmptySeq
<1>. QED  BY <1>1 DEF NoRequest, Request, Statuses

-----------------------------------------------------------------------------
\* A version of the document that a write may leave behind.
GoodWrite(q) ==
    /\ q \in Request
    /\ q.status # "ABSENT"
    /\ Consistent(q)
    /\ Entitled(q)
    /\ q.caps = request.caps
    /\ q.maker = request.maker

\* A call keeps its standing when the document keeps its maker and its shape.
LEMMA CallKept ==
    ASSUME NEW k, NEW r, NEW q, NEW e, CallOK(k, r, e),
           r.status # "ABSENT" => /\ q.status # "ABSENT"
                                  /\ q.caps = r.caps
                                  /\ q.maker = r.maker
    PROVE  CallOK(k, q, e)
BY DEF CallOK

\* The statuses act may write are statuses, and its index stays in the chain.
LEMMA AfterTypes ==
    ASSUME NEW r \in Request, Consistent(r), NEW v \in Verdicts
    PROVE  /\ StatusAfter(r, v) \in Statuses \ {"ABSENT", "DELETED"}
           /\ IndexAfter(r, v) \in 1 .. Len(r.caps)
           /\ r.index \in 1 .. Len(r.steps)
<1>1. Len(r.caps) \in Nat /\ Len(r.steps) = Len(r.caps) /\ r.index \in 1 .. Len(r.caps)
  BY LenProperties DEF Request, Consistent
<1>2. StatusAfter(r, v) \in Statuses \ {"ABSENT", "DELETED"}
  BY DEF StatusAfter, ComputeStatus, Verdicts, Statuses
<1>3. IndexAfter(r, v) \in 1 .. Len(r.caps)
  BY <1>1 DEF IndexAfter, IsLastStep
<1>. QED  BY <1>1, <1>2, <1>3

\* Recording verdict v on the current step of an actionable consistent document
\* leaves a consistent one.
LEMMA VerdictConsistent ==
    ASSUME NEW r \in Request, NEW q, NEW v \in Verdicts,
           Consistent(r), Actionable(r),
           q.caps = r.caps, q.status = StatusAfter(r, v), q.index = IndexAfter(r, v),
           Len(q.steps) = Len(r.steps), q.steps[r.index].action = v,
           \A j \in 1 .. Len(r.steps) : j # r.index => q.steps[j] = r.steps[j]
    PROVE  Consistent(q)
<1>. DEFINE n == Len(r.caps)
            i == r.index
<1>1. /\ n \in Nat /\ Len(r.steps) = n /\ i \in 1 .. n
      /\ \A j \in 1 .. n : /\ j < i => r.steps[j].action = "APPROVED"
                           /\ j > i => r.steps[j] = UntouchedStep
  BY LenProperties DEF Request, Consistent
<1>2. /\ Len(q.steps) = Len(q.caps) /\ Len(q.caps) = n
      /\ \A j \in 1 .. n : /\ j < i => q.steps[j].action = "APPROVED"
                           /\ j > i => q.steps[j] = UntouchedStep
  BY <1>1
<1>3. CASE v = "APPROVED" /\ i # n
  <2>1. q.index = i + 1 /\ q.status = ComputeStatus(i + 1, n)
    BY <1>3 DEF IndexAfter, StatusAfter, IsLastStep
  <2>2. q.status \in {"PENDING_REVIEW", "PENDING_APPROVAL"} /\ i + 1 \in 1 .. n
    BY <1>1, <1>3, <2>1 DEF ComputeStatus
  <2>3. \A j \in 1 .. n : /\ j < i + 1 => q.steps[j].action = "APPROVED"
                          /\ j > i => q.steps[j] = UntouchedStep
    BY <1>1, <1>2, <1>3
  <2>4. q.steps[i + 1] = UntouchedStep
    BY <1>1, <2>2, <2>3
  <2>. QED  BY <1>1, <1>2, <2>1, <2>2, <2>3, <2>4 DEF Consistent, Actionable
<1>4. CASE v = "APPROVED" /\ i = n
  <2>1. q.index = i /\ q.status = "APPROVED"
    BY <1>4 DEF IndexAfter, StatusAfter, IsLastStep
  <2>. QED  BY <1>1, <1>2, <1>4, <2>1 DEF Consistent, Actionable
<1>5. CASE v = "REJECTED"
  <2>1. q.index = i /\ q.status = "REJECTED"
    BY <1>5 DEF IndexAfter, StatusAfter
  <2>. QED  BY <1>1, <1>2, <1>5, <2>1 DEF Consistent, Actionable
<1>6. CASE v = "RETURNED"
  <2>1. q.index = i /\ q.status = "RETURNED_TO_MAKER"
    BY <1>6 DEF IndexAfter, StatusAfter
  <2>. QED  BY <1>1, <1>2, <1>6, <2>1 DEF Consistent, Actionable
<1>. QED  BY <1>3, <1>4, <1>5, <1>6 DEF Verdicts

\* Writing a status, an index and steps into a document keeps its type.
LEMMA RequestExcept ==
    ASSUME NEW r \in Request, NEW a \in Statuses, NEW b \in Nat \ {0}, NEW d \in Seq(Step)
    PROVE  [r EXCEPT !.status = a, !.index = b, !.steps = d] \in Request
BY DEF Request

\* The heart of the matter: act's filter (status and step index) is enough for
\* its stale verdict to leave a consistent document behind.
LEMMA DecidedGood ==
    ASSUME TypeOK, RequestInv, CallsInv, NEW c \in Calls,
           calls[c].op = "act", FilterMatches(calls[c])
    PROVE  GoodWrite(Decided(calls[c]))
<1>. DEFINE k == calls[c]
            r == request
            i == k.seen.index
            q == Decided(k)
            rec == [by |-> k.actor, action |-> k.verdict]
<1>1. /\ r \in Request /\ k \in Call /\ k.seen \in Request
      /\ r.status = k.seen.status /\ r.index = i
      /\ k.op = "act"
  BY DEF TypeOK, Call, FilterMatches
<1>2. /\ r.status # "ABSENT" /\ k.seen.caps = r.caps /\ k.seen.maker = r.maker
      /\ Consistent(k.seen) /\ Actionable(k.seen)
      /\ k.actor \in Staff /\ k.actor # r.maker
      /\ r.caps[i] \in Holds[k.actor]
      /\ k.verdict \in Verdicts
  BY <1>1 DEF CallsInv, CallOK, Pending
<1>3. Consistent(r) /\ Entitled(r) /\ Actionable(r)
  BY <1>1, <1>2 DEF RequestInv, Actionable
<1>4. /\ StatusAfter(k.seen, k.verdict) \in Statuses \ {"ABSENT", "DELETED"}
      /\ IndexAfter(k.seen, k.verdict) \in 1 .. Len(r.caps)
      /\ i \in 1 .. Len(r.steps)
  BY <1>1, <1>2, <1>3, AfterTypes
<1>5. rec \in Step
  BY <1>2 DEF Step
<1>6. r.steps \in Seq(Step) /\ r.caps \in Seq(Capability) /\ Len(r.caps) \in Nat
      /\ Len(r.steps) = Len(r.caps)
  BY <1>1, <1>3, LenProperties DEF Request, Consistent
<1>7. /\ [r.steps EXCEPT ![i] = rec] \in Seq(Step)
      /\ Len([r.steps EXCEPT ![i] = rec]) = Len(r.steps)
      /\ \A j \in 1 .. Len(r.steps) :
            [r.steps EXCEPT ![i] = rec][j] = IF j = i THEN rec ELSE r.steps[j]
  BY <1>4, <1>5, <1>6, ExceptSeq
<1>8. /\ q.status = StatusAfter(k.seen, k.verdict)
      /\ q.index = IndexAfter(k.seen, k.verdict)
      /\ q.steps = [r.steps EXCEPT ![i] = rec]
      /\ q.caps = r.caps /\ q.maker = r.maker
  BY <1>1 DEF Decided, Request
<1>9. IndexAfter(k.seen, k.verdict) \in Nat \ {0}
  BY <1>4, <1>6
<1>10. q \in Request
  BY <1>1, <1>4, <1>7, <1>9, RequestExcept DEF Decided
<1>11. Entitled(q)
  BY <1>2, <1>3, <1>6, <1>7, <1>8 DEF Entitled
<1>12. StatusAfter(k.seen, k.verdict) = StatusAfter(r, k.verdict)
       /\ IndexAfter(k.seen, k.verdict) = IndexAfter(r, k.verdict)
  BY <1>1, <1>2 DEF StatusAfter, IndexAfter, IsLastStep
<1>13. /\ q.caps = r.caps /\ q.maker = r.maker
       /\ q.status = StatusAfter(r, k.verdict) /\ q.index = IndexAfter(r, k.verdict)
       /\ q.steps = [r.steps EXCEPT ![i] = rec]
  BY <1>8, <1>12
<1>14. Consistent(q)
  BY <1>1, <1>2, <1>3, <1>4, <1>7, <1>13, VerdictConsistent
<1>. QED  BY <1>4, <1>8, <1>10, <1>11, <1>13, <1>14 DEF GoodWrite

\* A resubmission writes the registered chain afresh, or the steps of a
\* document it read, whose shape is the stored one: both are consistent.
LEMMA ResubmittedGood ==
    ASSUME TypeOK, RequestInv, CallsInv, NEW c \in Calls,
           calls[c].op = "resubmit", FilterMatches(calls[c])
    PROVE  GoodWrite(Resubmitted(calls[c].seen))
<1>. DEFINE k == calls[c]
            r == request
            seen == k.seen
            q == Resubmitted(seen)
<1>1. /\ r \in Request /\ k \in Call /\ seen \in Request
      /\ r.status = seen.status
      /\ chain \in [steps : Shapes, restart : BOOLEAN]
  BY DEF TypeOK, Call, FilterMatches
<1>2. /\ r.status # "ABSENT" /\ seen.caps = r.caps /\ seen.maker = r.maker
      /\ Consistent(seen) /\ Entitled(seen) /\ ~editable
      /\ seen.status \in {"REJECTED", "RETURNED_TO_MAKER"}
  BY DEF CallsInv, CallOK, Pending
<1>3. Consistent(r) /\ Entitled(r) /\ r.maker \in Staff /\ r.caps = chain.steps
  BY <1>2 DEF RequestInv
<1>4. /\ chain.steps \in Seq(Capability) /\ chain.steps # <<>>
      /\ Len(chain.steps) \in Nat /\ Len(seen.caps) \in Nat
      /\ r.version + 1 \in Nat /\ 1 \in Nat \ {0}
  BY <1>1, ConstantsAssumption, LenProperties DEF ValidShape, Request
<1>5. CASE seen.status = "REJECTED" \/ chain.restart
  <2>1. /\ q.status = ComputeStatus(1, Len(chain.steps)) /\ q.caps = chain.steps
        /\ q.steps = Untouched(chain.steps) /\ q.index = 1 /\ q.maker = r.maker
    BY <1>1, <1>5 DEF Resubmitted, Request
  <2>2. ComputeStatus(1, Len(chain.steps)) \in Statuses
    BY DEF ComputeStatus, Statuses
  <2>3. Untouched(chain.steps) \in Seq(Step)
    BY <1>4, UntouchedType
  <2>4. q \in Request
    BY <1>1, <1>4, <1>5, <2>2, <2>3 DEF Resubmitted, Request
  <2>5. Consistent(q) /\ Entitled(q) /\ Exists(q)
    BY <1>4, <2>1, <2>4, FreshConsistent
  <2>. QED  BY <1>3, <2>1, <2>4, <2>5 DEF GoodWrite, Exists
<1>6. CASE ~(seen.status = "REJECTED" \/ chain.restart)
  <2>. DEFINE i == seen.index
              cleared == [seen.steps EXCEPT ![i] = UntouchedStep]
  <2>1. /\ q.status = ComputeStatus(i, Len(seen.caps)) /\ q.caps = seen.caps
        /\ q.steps = cleared /\ q.index = i /\ q.maker = r.maker
    BY <1>1, <1>6 DEF Resubmitted, Request
  <2>2. q.status \in {"PENDING_REVIEW", "PENDING_APPROVAL"}
    BY <2>1 DEF ComputeStatus
  <2>3. /\ seen.steps \in Seq(Step) /\ i \in 1 .. Len(seen.steps)
        /\ i \in Nat \ {0} /\ seen.caps \in Seq(Capability)
        /\ Len(seen.steps) = Len(seen.caps)
    BY <1>1, <1>2 DEF Request, Consistent
  <2>4. UntouchedStep \in Step
    BY DEF UntouchedStep, Step
  <2>5. /\ cleared \in Seq(Step) /\ Len(cleared) = Len(seen.steps)
        /\ \A j \in 1 .. Len(seen.steps) :
              cleared[j] = IF j = i THEN UntouchedStep ELSE seen.steps[j]
    BY <2>3, <2>4, ExceptSeq
  <2>6. ComputeStatus(i, Len(seen.caps)) \in Statuses
    BY DEF ComputeStatus, Statuses
  <2>7. q \in Request
    BY <1>1, <1>4, <1>6, <2>3, <2>5, <2>6 DEF Resubmitted, Request
  <2>8. Entitled(q)
    BY <1>2, <2>1, <2>3, <2>5 DEF Entitled, UntouchedStep
  <2>9. \A j \in 1 .. Len(seen.caps) : /\ j < i => seen.steps[j].action = "APPROVED"
                                       /\ j > i => seen.steps[j] = UntouchedStep
    BY <1>2 DEF Consistent
  <2>10. Consistent(q)
    BY <1>4, <2>1, <2>2, <2>3, <2>5, <2>9 DEF Consistent
  <2>. QED  BY <1>2, <2>1, <2>2, <2>7, <2>8, <2>10 DEF GoodWrite
<1>. QED  BY <1>5, <1>6

\* Every other write changes the version, the status or the entity link only.
LEMMA EditedGood ==
    ASSUME NEW r \in Request
    PROVE  /\ [r EXCEPT !.version = @ + 1] \in Request
           /\ [r EXCEPT !.status = "CANCELLED"] \in Request
           /\ [r EXCEPT !.status = "DELETED"] \in Request
           /\ [r EXCEPT !.linked = TRUE] \in Request
<1>1. r.version + 1 \in Nat /\ TRUE \in BOOLEAN
  BY DEF Request
<1>2. [r EXCEPT !.version = r.version + 1] \in Request
  BY <1>1 DEF Request
<1>3. "CANCELLED" \in Statuses /\ "DELETED" \in Statuses
  BY DEF Statuses
<1>4. /\ [r EXCEPT !.status = "CANCELLED"] \in Request
      /\ [r EXCEPT !.status = "DELETED"] \in Request
  BY <1>3 DEF Request
<1>5. [r EXCEPT !.linked = TRUE] \in Request
  BY DEF Request
<1>. QED  BY <1>2, <1>4, <1>5

\* Cancelling or deleting a document, or writing fields its consistency does not
\* depend on, leaves it consistent.
LEMMA SameStepsGood ==
    ASSUME NEW r \in Request, NEW q \in Request, Consistent(r), Entitled(r),
           q.caps = r.caps, q.steps = r.steps, q.index = r.index, q.maker = r.maker,
           q.status \in {r.status, "CANCELLED", "DELETED"}
    PROVE  Consistent(q) /\ Entitled(q)
<1>1. Consistent(q)
  BY DEF Consistent, Actionable
<1>2. Entitled(q)
  BY DEF Entitled
<1>. QED  BY <1>1, <1>2

-----------------------------------------------------------------------------
\* The document is left alone, and one call moves to k.
LEMMA CallStep ==
    ASSUME IInv, NEW c \in Calls, NEW k \in Call, CallOK(k, request, editable),
           calls' = [calls EXCEPT ![c] = k],
           UNCHANGED <<chain, editable, request>>,
           events' \subseteq [kind : EventKinds, version : Nat]
    PROVE  IInv'
<1>1. TypeOK'
  BY DEF IInv, TypeOK
<1>2. RequestInv'
  BY DEF IInv, RequestInv
<1>3. CallsInv'
  BY DEF IInv, CallsInv, TypeOK
<1>. QED  BY <1>1, <1>2, <1>3 DEF IInv

\* The document is written, and the call that wrote it moves to k.
LEMMA WriteStep ==
    ASSUME IInv, NEW c \in Calls, NEW k \in Call, ~Pending(k), Settled(k),
           request.status # "ABSENT", GoodWrite(request'),
           calls' = [calls EXCEPT ![c] = k],
           UNCHANGED <<chain, editable, events>>
    PROVE  IInv'
<1>1. request'.index \in DOMAIN request'.steps
  BY LenProperties DEF GoodWrite, Consistent, Request
<1>2. TypeOK'
  BY <1>1 DEF IInv, TypeOK, GoodWrite, Exists
<1>3. RequestInv'
  BY DEF IInv, RequestInv, GoodWrite
<1>4. CallsInv'
  <2> SUFFICES ASSUME NEW d \in Calls
               PROVE  CallOK(calls'[d], request', editable)
    BY DEF CallsInv
  <2>1. CallOK(calls[d], request', editable)
    BY CallKept DEF IInv, CallsInv, GoodWrite
  <2>2. CASE d = c
    BY <2>2 DEF IInv, TypeOK, CallOK
  <2>3. CASE d # c
    BY <2>1, <2>3 DEF IInv, TypeOK
  <2>. QED  BY <2>2, <2>3
<1>. QED  BY <1>2, <1>3, <1>4 DEF IInv

\* Idle and emitting calls have the type of a call and remember nothing to write.
LEMMA CallTypes ==
    /\ Idle \in Call /\ ~Pending(Idle) /\ Settled(Idle)
    /\ \A v \in EventKinds, r \in Request :
          Emitting(v, r) \in Call /\ ~Pending(Emitting(v, r)) /\ Settled(Emitting(v, r))
<1>1. Idle \in Call
  BY NoRequestType DEF Idle, Call, Ops
<1>2. \A v \in EventKinds, r \in Request : Emitting(v, r) \in Call
  BY DEF Emitting, Call, Ops
<1>. QED  BY <1>1, <1>2 DEF Idle, Emitting, Pending, Settled

\* A call that has just read the document.
LEMMA ReadStep ==
    ASSUME IInv, NEW c \in Calls, NEW op \in Ops \ {"idle", "emit"}, NEW s \in Staff,
           NEW v \in Verdicts \union {"NONE"}, Begin(c, op, s, v), Exists(request),
           op = "act" => /\ Actionable(request)
                         /\ s # request.maker
                         /\ request.caps[request.index] \in Holds[s]
                         /\ v \in Verdicts,
           op = "edit" => request.status = "PENDING_REVIEW",
           op = "resubmit" => /\ ~editable
                              /\ request.status \in {"REJECTED", "RETURNED_TO_MAKER"},
           op = "cancel" => request.status \notin {"APPROVED", "CANCELLED"},
           op = "delete" => request.status \in {"PENDING_REVIEW", "REJECTED"}
    PROVE  IInv'
<1>. DEFINE k == Begun(op, s, v)
<1>1. k \in Call
  BY DEF Begun, Call, IInv, TypeOK, EventKinds
<1>2. k.op = op /\ k.actor = s /\ k.verdict = v /\ k.seen = request
  BY DEF Begun
<1>3. request.status # "ABSENT" /\ Consistent(request) /\ Entitled(request)
  BY DEF IInv, RequestInv, Exists
<1>4. CallOK(k, request, editable)
  BY <1>2, <1>3 DEF CallOK, Settled, Ops
<1>5. /\ calls' = [calls EXCEPT ![c] = k]
      /\ UNCHANGED <<chain, editable, request>>
      /\ events' \subseteq [kind : EventKinds, version : Nat]
  BY DEF Begin, IInv, TypeOK
<1>. QED  BY <1>1, <1>4, <1>5, CallStep

-----------------------------------------------------------------------------
\* The invariant holds of a chain that is registered and no request yet.
LEMMA InitInv == Init => IInv
<1> SUFFICES ASSUME Init PROVE IInv
  OBVIOUS
<1>1. TypeOK
  BY NoRequestType, CallTypes DEF Init, TypeOK, NoRequest, Exists
<1>2. RequestInv
  BY DEF Init, RequestInv, NoRequest
<1>3. CallsInv
  BY DEF Init, CallsInv, CallOK, Pending, Settled, Idle
<1>. QED  BY <1>1, <1>2, <1>3 DEF IInv

\* initiate leaves a request that fits the chain it was raised under.
LEMMA InitiateInv ==
    ASSUME IInv, NEW s \in Staff, Initiate(s)
    PROVE  IInv'
<1>. DEFINE shape == chain.steps
            q == [status |-> ComputeStatus(1, Len(shape)), caps |-> shape,
                  steps |-> Untouched(shape), index |-> 1, version |-> 1,
                  maker |-> s, linked |-> FALSE]
<1>1. /\ request.status = "ABSENT" /\ request' = q
      /\ UNCHANGED <<chain, editable, calls, events>>
  BY DEF Initiate
<1>2. shape \in Seq(Capability) /\ shape # <<>>
  BY ConstantsAssumption DEF IInv, TypeOK, ValidShape
<1>3. ComputeStatus(1, Len(shape)) \in Statuses /\ Untouched(shape) \in Seq(Step)
  BY <1>2, UntouchedType DEF ComputeStatus, Statuses
<1>4. q \in Request
  BY <1>2, <1>3 DEF Request
<1>5. Consistent(q) /\ Entitled(q)
  BY <1>2, <1>4, FreshConsistent
<1>6. q.index \in DOMAIN q.steps
  BY <1>4, <1>5, LenProperties DEF Consistent, Request
<1>7. TypeOK'
  BY <1>1, <1>4, <1>6 DEF IInv, TypeOK
<1>8. RequestInv'
  BY <1>1, <1>5 DEF RequestInv
<1>9. CallsInv'
  BY <1>1 DEF IInv, CallsInv, CallOK
<1>. QED  BY <1>7, <1>8, <1>9 DEF IInv

\* Replacing the chain touches neither the request nor the calls in flight.
LEMMA ReplaceInv ==
    ASSUME IInv, NEW shape \in Shapes, ReplaceChainConfig(shape)
    PROVE  IInv'
<1>1. TypeOK'
  BY DEF IInv, TypeOK, ReplaceChainConfig
<1>2. RequestInv'
  BY DEF IInv, RequestInv, ReplaceChainConfig
<1>3. CallsInv'
  BY DEF IInv, CallsInv, ReplaceChainConfig
<1>. QED  BY <1>1, <1>2, <1>3 DEF IInv

\* The invariant that makes every stale write harmless is inductive.
LEMMA NextInv == IInv /\ [Next]_vars => IInv'
<1> SUFFICES ASSUME IInv, [Next]_vars PROVE IInv'
  OBVIOUS
<1>. USE DEF IInv
<1>0. /\ request \in Request /\ calls \in [Calls -> Call]
      /\ events \subseteq [kind : EventKinds, version : Nat]
      /\ request.status # "ABSENT" => /\ Consistent(request) /\ Entitled(request)
                                      /\ request.maker \in Staff
  BY DEF TypeOK, RequestInv
<1>1. ASSUME NEW shape \in Shapes, ReplaceChainConfig(shape) PROVE IInv'
  BY <1>1, ReplaceInv
<1>2. ASSUME NEW s \in Staff, Initiate(s) PROVE IInv'
  BY <1>2, InitiateInv
<1>3. ASSUME NEW c \in Calls, NEW s \in Staff, NEW v \in Verdicts, ActRead(c, s, v)
      PROVE  IInv'
  <2>1. /\ Begin(c, "act", s, v) /\ Actionable(request) /\ s # request.maker
        /\ request.caps[request.index] \in Holds[s]
    BY <1>3 DEF ActRead
  <2>2. "act" \in Ops \ {"idle", "emit"} /\ Exists(request)
    BY <2>1 DEF Ops, Actionable, Exists
  <2>. QED  BY <2>1, <2>2, ReadStep
<1>4. ASSUME NEW c \in Calls, ActCommit(c) PROVE IInv'
  <2>1. /\ calls[c].op = "act" /\ FilterMatches(calls[c])
        /\ request' = Decided(calls[c])
        /\ calls' = [calls EXCEPT ![c] = AfterAct(calls[c])]
        /\ UNCHANGED <<chain, editable, events>>
    BY <1>4 DEF ActCommit
  <2>2. GoodWrite(request')
    BY <2>1, DecidedGood
  <2>3. request.status # "ABSENT" /\ calls[c].verdict \in Verdicts
    BY <2>1 DEF CallsInv, CallOK, Pending
  <2>4. AfterAct(calls[c]) \in Call /\ ~Pending(AfterAct(calls[c])) /\ Settled(AfterAct(calls[c]))
    BY <2>1, <2>2, <2>3, CallTypes DEF AfterAct, GoodWrite, EventKinds
  <2>. QED  BY <2>1, <2>2, <2>3, <2>4, WriteStep
<1>5. ASSUME NEW c \in Calls, EditRead(c) PROVE IInv'
  <2>1. Begin(c, "edit", request.maker, "NONE") /\ request.status = "PENDING_REVIEW"
    BY <1>5 DEF EditRead
  <2>2. "edit" \in Ops \ {"idle", "emit"} /\ Exists(request) /\ request.maker \in Staff
    BY <1>0, <2>1 DEF Ops, Exists
  <2>. QED  BY <2>1, <2>2, ReadStep
<1>6. ASSUME NEW c \in Calls, EditCommit(c) PROVE IInv'
  <2>1. /\ calls[c].op = "edit" /\ request' = [request EXCEPT !.version = @ + 1]
        /\ calls' = [calls EXCEPT ![c] = Idle] /\ UNCHANGED <<chain, editable, events>>
    BY <1>6 DEF EditCommit
  <2>2. request.status # "ABSENT"
    BY <2>1 DEF CallsInv, CallOK, Pending
  <2>3. /\ request' \in Request /\ request'.caps = request.caps
        /\ request'.steps = request.steps /\ request'.index = request.index
        /\ request'.maker = request.maker /\ request'.status = request.status
    BY <1>0, <2>1, EditedGood DEF Request
  <2>4. GoodWrite(request')
    BY <1>0, <2>2, <2>3, SameStepsGood DEF GoodWrite
  <2>. QED  BY <2>1, <2>2, <2>4, CallTypes, WriteStep
<1>7. ASSUME NEW c \in Calls, ResubmitRead(c) PROVE IInv'
  <2>1. /\ Begin(c, "resubmit", request.maker, "NONE") /\ ~editable
        /\ request.status \in {"REJECTED", "RETURNED_TO_MAKER"}
    BY <1>7 DEF ResubmitRead
  <2>2. "resubmit" \in Ops \ {"idle", "emit"} /\ Exists(request) /\ request.maker \in Staff
    BY <1>0, <2>1 DEF Ops, Exists
  <2>. QED  BY <2>1, <2>2, ReadStep
<1>8. ASSUME NEW c \in Calls, ResubmitCommit(c) PROVE IInv'
  <2>1. /\ calls[c].op = "resubmit" /\ FilterMatches(calls[c])
        /\ request' = Resubmitted(calls[c].seen)
        /\ calls' = [calls EXCEPT ![c] = Emitting("RESUBMITTED", request')]
        /\ UNCHANGED <<chain, editable, events>>
    BY <1>8 DEF ResubmitCommit
  <2>2. GoodWrite(request')
    BY <2>1, ResubmittedGood
  <2>3. request.status # "ABSENT"
    BY <2>1 DEF CallsInv, CallOK, Pending
  <2>4. /\ Emitting("RESUBMITTED", request') \in Call /\ ~Pending(Emitting("RESUBMITTED", request'))
        /\ Settled(Emitting("RESUBMITTED", request'))
    BY <2>2, CallTypes DEF GoodWrite, EventKinds
  <2>. QED  BY <2>1, <2>2, <2>3, <2>4, WriteStep
<1>9. ASSUME NEW c \in Calls, CancelRead(c) PROVE IInv'
  <2>1. /\ Begin(c, "cancel", request.maker, "NONE") /\ Exists(request)
        /\ request.status \notin {"APPROVED", "CANCELLED"}
    BY <1>9 DEF CancelRead
  <2>2. "cancel" \in Ops \ {"idle", "emit"} /\ request.maker \in Staff
    BY <1>0, <2>1 DEF Ops, Exists
  <2>. QED  BY <2>1, <2>2, ReadStep
<1>10. ASSUME NEW c \in Calls, CancelCommit(c) PROVE IInv'
  <2>1. /\ calls[c].op = "cancel" /\ request' = [request EXCEPT !.status = "CANCELLED"]
        /\ calls' = [calls EXCEPT ![c] = Emitting("CANCELLED", request')]
        /\ UNCHANGED <<chain, editable, events>>
    BY <1>10 DEF CancelCommit
  <2>2. request.status # "ABSENT"
    BY <2>1 DEF CallsInv, CallOK, Pending
  <2>3. /\ request' \in Request /\ request'.caps = request.caps
        /\ request'.steps = request.steps /\ request'.index = request.index
        /\ request'.maker = request.maker /\ request'.status = "CANCELLED"
    BY <1>0, <2>1, EditedGood DEF Request
  <2>4. GoodWrite(request')
    BY <1>0, <2>2, <2>3, SameStepsGood DEF GoodWrite
  <2>5. /\ Emitting("CANCELLED", request') \in Call /\ ~Pending(Emitting("CANCELLED", request'))
        /\ Settled(Emitting("CANCELLED", request'))
    BY <2>3, CallTypes DEF EventKinds
  <2>. QED  BY <2>1, <2>2, <2>4, <2>5, WriteStep
<1>11. ASSUME NEW c \in Calls, DeleteRead(c) PROVE IInv'
  <2>1. /\ Begin(c, "delete", request.maker, "NONE")
        /\ request.status \in {"PENDING_REVIEW", "REJECTED"}
    BY <1>11 DEF DeleteRead
  <2>2. "delete" \in Ops \ {"idle", "emit"} /\ Exists(request) /\ request.maker \in Staff
    BY <1>0, <2>1 DEF Ops, Exists
  <2>. QED  BY <2>1, <2>2, ReadStep
<1>12. ASSUME NEW c \in Calls, DeleteCommit(c) PROVE IInv'
  <2>1. /\ calls[c].op = "delete" /\ request' = [request EXCEPT !.status = "DELETED"]
        /\ calls' = [calls EXCEPT ![c] = Emitting("DELETED", calls[c].seen)]
        /\ UNCHANGED <<chain, editable, events>>
    BY <1>12 DEF DeleteCommit
  <2>2. request.status # "ABSENT"
    BY <2>1 DEF CallsInv, CallOK, Pending
  <2>3. /\ request' \in Request /\ request'.caps = request.caps
        /\ request'.steps = request.steps /\ request'.index = request.index
        /\ request'.maker = request.maker /\ request'.status = "DELETED"
    BY <1>0, <2>1, EditedGood DEF Request
  <2>4. GoodWrite(request')
    BY <1>0, <2>2, <2>3, SameStepsGood DEF GoodWrite
  <2>5. /\ Emitting("DELETED", calls[c].seen) \in Call
        /\ ~Pending(Emitting("DELETED", calls[c].seen))
        /\ Settled(Emitting("DELETED", calls[c].seen))
    BY <1>0, CallTypes DEF EventKinds, Call
  <2>. QED  BY <2>1, <2>2, <2>4, <2>5, WriteStep
<1>13. ASSUME NEW c \in Calls, Conflict(c) \/ Abandon(c) PROVE IInv'
  <2>1. /\ calls' = [calls EXCEPT ![c] = Idle]
        /\ UNCHANGED <<chain, editable, request, events>>
    BY <1>13 DEF Conflict, Abandon
  <2>2. CallOK(Idle, request, editable)
    BY CallTypes DEF CallOK
  <2>. QED  BY <1>0, <2>1, <2>2, CallTypes, CallStep
<1>14. ASSUME NEW c \in Calls, Emit(c) PROVE IInv'
  <2>1. /\ calls[c].op = "emit" /\ events' = events \union {EventOf(calls[c])}
        /\ calls' = [calls EXCEPT ![c] = Idle] /\ UNCHANGED <<chain, editable, request>>
    BY <1>14 DEF Emit
  <2>2. CallOK(Idle, request, editable)
    BY CallTypes DEF CallOK
  <2>3. EventOf(calls[c]) \in [kind : EventKinds, version : Nat]
    BY <1>0, <2>1 DEF CallsInv, CallOK, Settled, EventOf, Call, Request
  <2>. QED  BY <1>0, <2>1, <2>2, <2>3, CallTypes, CallStep
<1>15. ASSUME LinkEntity PROVE IInv'
  <2>1. /\ Exists(request) /\ request' = [request EXCEPT !.linked = TRUE]
        /\ UNCHANGED <<chain, editable, calls, events>>
    BY <1>15 DEF LinkEntity
  <2>2. /\ request' \in Request /\ request'.caps = request.caps
        /\ request'.steps = request.steps /\ request'.index = request.index
        /\ request'.maker = request.maker /\ request'.status = request.status
    BY <1>0, <2>1, EditedGood DEF Request
  <2>3. request.status # "ABSENT" /\ Consistent(request') /\ Entitled(request')
    BY <1>0, <2>1, <2>2, SameStepsGood DEF Exists
  <2>4. TypeOK'
    BY <2>1, <2>2 DEF TypeOK, Exists
  <2>5. RequestInv'
    BY <2>1, <2>2, <2>3 DEF RequestInv
  <2>6. CallsInv'
    BY <2>1, <2>2, CallKept DEF CallsInv
  <2>. QED  BY <2>4, <2>5, <2>6
<1>16. CASE UNCHANGED vars
  BY <1>16 DEF vars, TypeOK, RequestInv, CallsInv
<1>. QED
  BY <1>1, <1>2, <1>3, <1>4, <1>5, <1>6, <1>7, <1>8, <1>9, <1>10, <1>11, <1>12,
     <1>13, <1>14, <1>15, <1>16 DEF Next

-----------------------------------------------------------------------------
\* The invariant holds in every reachable state.
LEMMA SpecInv == Spec => []IInv
<1>1. Init => IInv
  BY InitInv
<1>2. IInv /\ [Next]_vars => IInv'
  BY NextInv
<1>. QED  BY <1>1, <1>2, PTL DEF Spec

\* Type correctness of the engine's documents, calls and events.
THEOREM TypeCorrect == Spec => []TypeOK
<1>1. IInv => TypeOK
  BY DEF IInv
<1>. QED  BY <1>1, SpecInv, PTL

\* Whatever calls race, on chains of any length and with any number of calls in
\* flight, a request's status never runs ahead of its step records: APPROVED
\* means that every step of its chain was approved.
THEOREM ApprovalIsComplete == Spec => []StepsFollowStatus
<1>1. IInv => StepsFollowStatus
  BY DEF IInv, RequestInv, StepsFollowStatus, Exists
<1>. QED  BY <1>1, SpecInv, PTL

\* No step is ever recorded under the request's maker, or under a staff member
\* without the capability that step requires.
THEOREM OnlyEntitledActors == Spec => []ActorsEntitled
<1>1. IInv => ActorsEntitled
  BY DEF IInv, RequestInv, ActorsEntitled, Exists
<1>. QED  BY <1>1, SpecInv, PTL

-----------------------------------------------------------------------------
\* No pending call's filter matches a decided or deleted request.
LEMMA NothingMatches ==
    ASSUME IInv, request.status \in {"APPROVED", "CANCELLED", "DELETED"},
           NEW c \in Calls, Pending(calls[c])
    PROVE  ~FilterMatches(calls[c])
<1>1. CallOK(calls[c], request, editable)
  BY DEF IInv, CallsInv
<1>. QED  BY <1>1 DEF CallOK, FilterMatches, Pending, Actionable, Exists

\* A decided or deleted request is only ever touched by linkEntity.
LEMMA DecidedStep ==
    ASSUME IInv, [Next]_vars, request.status \in {"APPROVED", "CANCELLED", "DELETED"}
    PROVE  request' = request \/ LinkEntity
<1>1. \A c \in Calls : calls[c].op \in {"act", "edit", "resubmit", "cancel", "delete"}
                          => ~FilterMatches(calls[c])
  BY NothingMatches DEF Pending
<1>2. CASE Next
  BY <1>1, <1>2 DEF Next, ReplaceChainConfig, Initiate, ActRead, ActCommit, EditRead,
     EditCommit, ResubmitRead, ResubmitCommit, CancelRead, CancelCommit, DeleteRead,
     DeleteCommit, Conflict, Emit, Abandon, Begin
<1>3. CASE UNCHANGED vars
  BY <1>3 DEF vars
<1>. QED  BY <1>2, <1>3

\* linkEntity changes the link alone.
LEMMA Relinked ==
    ASSUME NEW r \in Request
    PROVE  /\ r = [r EXCEPT !.linked = r.linked]
           /\ [r EXCEPT !.linked = TRUE] = [r EXCEPT !.linked = [r EXCEPT !.linked = TRUE].linked]
BY DEF Request

\* APPROVED and CANCELLED are final.
THEOREM DecisionsAreFinal == Spec => DecisionIsFinal
<1>1. IInv /\ [Next]_vars =>
        [request.status \in {"APPROVED", "CANCELLED"}
           => request' = [request EXCEPT !.linked = request'.linked]]_vars
  <2> SUFFICES ASSUME IInv, [Next]_vars, request.status \in {"APPROVED", "CANCELLED"}
               PROVE  request' = [request EXCEPT !.linked = request'.linked]
    OBVIOUS
  <2>1. request \in Request
    BY DEF IInv, TypeOK
  <2>2. request' = request \/ request' = [request EXCEPT !.linked = TRUE]
    BY DecidedStep DEF LinkEntity
  <2>. QED  BY <2>1, <2>2, Relinked
<1>. QED  BY <1>1, SpecInv, PTL DEF Spec, DecisionIsFinal

-----------------------------------------------------------------------------
\* What event e promises about document r.
Agrees(e, r) ==
    /\ e.kind = "APPROVED" => r.status = "APPROVED" /\ e.version = r.version
    /\ e.kind = "CANCELLED" => r.status = "CANCELLED" /\ e.version = r.version
    /\ e.kind = "DELETED" => r.status = "DELETED"

\* When a call moves to k, the only event newly announced can be that of k.
LEMMA AnnouncedAfter ==
    ASSUME IInv, NEW c \in Calls, NEW k, calls' = [calls EXCEPT ![c] = k],
           events' \subseteq Announced, NEW e \in Announced'
    PROVE  e \in Announced \/ (k.op = "emit" /\ e = EventOf(k))
<1>1. CASE e \in events'
  BY <1>1
<1>2. CASE e \in {EventOf(calls'[d]) : d \in {d \in Calls : calls'[d].op = "emit"}}
  <2>1. PICK d \in Calls : calls'[d].op = "emit" /\ e = EventOf(calls'[d])
    BY <1>2
  <2>2. CASE d = c
    BY <2>1, <2>2 DEF IInv, TypeOK
  <2>3. CASE d # c
    <3>1. calls'[d] = calls[d]
      BY <2>3 DEF IInv, TypeOK
    <3>. QED  BY <2>1, <3>1 DEF Announced
  <2>. QED  BY <2>2, <2>3
<1>. QED  BY <1>1, <1>2 DEF Announced

\* A write to an undecided document: whatever was announced is no outcome yet.
LEMMA NewOutcome ==
    ASSUME IInv, OutcomeEventsAgree, NEW c \in Calls, Pending(calls[c]),
           FilterMatches(calls[c]), NEW k, events' = events,
           calls' = [calls EXCEPT ![c] = k], k.op = "emit" => Agrees(EventOf(k), request')
    PROVE  OutcomeEventsAgree'
<1>1. request.status \notin {"APPROVED", "CANCELLED", "DELETED"}
  BY NothingMatches
<1>2. \A e \in Announced : e.kind \notin {"APPROVED", "CANCELLED", "DELETED"}
  BY <1>1 DEF OutcomeEventsAgree
<1>3. events' \subseteq Announced
  BY DEF Announced
<1>4. ASSUME NEW e \in Announced' PROVE Agrees(e, request')
  <2>1. e \in Announced \/ (k.op = "emit" /\ e = EventOf(k))
    BY <1>3, AnnouncedAfter
  <2>. QED  BY <1>2, <2>1 DEF Agrees
<1>. QED  BY <1>4 DEF OutcomeEventsAgree, Agrees

\* A step that announces nothing new and keeps the status and the payload.
LEMMA SameOutcome ==
    ASSUME OutcomeEventsAgree, Announced' \subseteq Announced,
           request'.status = request.status, request'.version = request.version
    PROVE  OutcomeEventsAgree'
BY DEF OutcomeEventsAgree

\* Every step keeps the announced outcomes in agreement with the stored request.
LEMMA OutcomeStep == IInv /\ OutcomeEventsAgree /\ [Next]_vars => OutcomeEventsAgree'
<1> SUFFICES ASSUME IInv, OutcomeEventsAgree, [Next]_vars PROVE OutcomeEventsAgree'
  OBVIOUS
<1>0. request \in Request /\ events \subseteq Announced
  BY DEF IInv, TypeOK, Announced
<1>1. ASSUME NEW shape \in Shapes, ReplaceChainConfig(shape) PROVE OutcomeEventsAgree'
  BY <1>1, SameOutcome DEF ReplaceChainConfig, Announced
<1>2. ASSUME NEW s \in Staff, Initiate(s) PROVE OutcomeEventsAgree'
  <2>1. \A e \in Announced : e.kind \notin {"APPROVED", "CANCELLED", "DELETED"}
    BY <1>2 DEF Initiate, OutcomeEventsAgree
  <2>2. Announced' = Announced
    BY <1>2 DEF Initiate, Announced
  <2>. QED  BY <2>1, <2>2 DEF OutcomeEventsAgree
<1>3. ASSUME NEW c \in Calls, NEW op \in Ops \ {"idle", "emit"}, NEW s, NEW v, Begin(c, op, s, v)
      PROVE  OutcomeEventsAgree'
  <2>1. /\ calls' = [calls EXCEPT ![c] = Begun(op, s, v)] /\ events' \subseteq Announced
        /\ request' = request
    BY <1>0, <1>3 DEF Begin
  <2>2. Begun(op, s, v).op # "emit"
    BY DEF Begun
  <2>3. Announced' \subseteq Announced
    BY <2>1, <2>2, AnnouncedAfter
  <2>. QED  BY <2>1, <2>3, SameOutcome
<1>4. ASSUME NEW c \in Calls, ActCommit(c) PROVE OutcomeEventsAgree'
  <2>. DEFINE k == AfterAct(calls[c])
  <2>1. /\ calls[c].op = "act" /\ FilterMatches(calls[c]) /\ Pending(calls[c])
        /\ request' = Decided(calls[c]) /\ events' = events
        /\ calls' = [calls EXCEPT ![c] = k]
    BY <1>4 DEF ActCommit, Pending
  <2>2. calls[c].verdict \in Verdicts
    BY <2>1 DEF IInv, CallsInv, CallOK
  <2>3. request'.status = StatusAfter(calls[c].seen, calls[c].verdict)
    BY <1>0, <2>1 DEF Decided, Request
  <2>4. ASSUME k.op = "emit" PROVE Agrees(EventOf(k), request')
    <3>1. IsOutcome(request'.status) /\ k = Emitting(calls[c].verdict, request')
      BY <2>1, <2>4 DEF AfterAct, Idle
    <3>2. EventOf(k).kind = calls[c].verdict /\ EventOf(k).version = request'.version
      BY <3>1 DEF EventOf, Emitting
    <3>3. calls[c].verdict = "APPROVED" => request'.status = "APPROVED"
      BY <2>3, <3>1 DEF StatusAfter, IsOutcome, ComputeStatus
    <3>. QED  BY <2>2, <3>2, <3>3 DEF Agrees, Verdicts
  <2>. QED  BY <2>1, <2>4, NewOutcome
<1>5. ASSUME NEW c \in Calls, EditCommit(c) PROVE OutcomeEventsAgree'
  BY <1>5, NewOutcome DEF EditCommit, Pending, Idle
<1>6. ASSUME NEW c \in Calls, ResubmitCommit(c) PROVE OutcomeEventsAgree'
  <2>1. Agrees(EventOf(Emitting("RESUBMITTED", request')), request')
    BY DEF Agrees, EventOf, Emitting
  <2>. QED  BY <1>6, <2>1, NewOutcome DEF ResubmitCommit, Pending
<1>7. ASSUME NEW c \in Calls, CancelCommit(c) PROVE OutcomeEventsAgree'
  <2>1. request'.status = "CANCELLED"
    BY <1>0, <1>7 DEF CancelCommit, Request
  <2>2. Agrees(EventOf(Emitting("CANCELLED", request')), request')
    BY <2>1 DEF Agrees, EventOf, Emitting
  <2>. QED  BY <1>7, <2>2, NewOutcome DEF CancelCommit, Pending
<1>8. ASSUME NEW c \in Calls, DeleteCommit(c) PROVE OutcomeEventsAgree'
  <2>1. request'.status = "DELETED"
    BY <1>0, <1>8 DEF DeleteCommit, Request
  <2>2. Agrees(EventOf(Emitting("DELETED", calls[c].seen)), request')
    BY <2>1 DEF Agrees, EventOf, Emitting
  <2>. QED  BY <1>8, <2>2, NewOutcome DEF DeleteCommit, Pending
<1>9. ASSUME NEW c \in Calls, Conflict(c) \/ Abandon(c) \/ Emit(c) PROVE OutcomeEventsAgree'
  <2>1. calls' = [calls EXCEPT ![c] = Idle] /\ request' = request
    BY <1>9 DEF Conflict, Abandon, Emit
  <2>2. events' \subseteq Announced
    BY <1>0, <1>9 DEF Conflict, Abandon, Emit, Announced
  <2>3. Idle.op # "emit"
    BY DEF Idle
  <2>4. Announced' \subseteq Announced
    BY <2>1, <2>2, <2>3, AnnouncedAfter
  <2>. QED  BY <2>1, <2>4, SameOutcome
<1>10. ASSUME LinkEntity PROVE OutcomeEventsAgree'
  <2>1. request'.status = request.status /\ request'.version = request.version
    BY <1>0, <1>10 DEF LinkEntity, Request
  <2>2. Announced' = Announced
    BY <1>10 DEF LinkEntity, Announced
  <2>. QED  BY <2>1, <2>2, SameOutcome
<1>11. CASE UNCHANGED vars
  BY <1>11 DEF vars, OutcomeEventsAgree, Announced
<1>12. {"act", "edit", "resubmit", "cancel", "delete"} \subseteq Ops \ {"idle", "emit"}
  BY DEF Ops
<1>. QED
  BY <1>1, <1>2, <1>3, <1>4, <1>5, <1>6, <1>7, <1>8, <1>9, <1>10, <1>11, <1>12
     DEF Next, ActRead, EditRead, ResubmitRead, CancelRead, DeleteRead

\* A workflow.approved event is announced only for a request that stays
\* APPROVED, with its final payload, and never beside a cancelled or deleted one.
THEOREM OutcomesAgree == Spec => []OutcomeEventsAgree
<1>1. Init => OutcomeEventsAgree
  BY DEF Init, OutcomeEventsAgree, Announced, Idle
<1>. QED  BY <1>1, InitInv, NextInv, OutcomeStep, PTL DEF Spec

-----------------------------------------------------------------------------
\* Nobody swaps the payload of a request that awaits its final approval or is
\* decided: only an edit and a resubmission write a new version, and neither
\* one's filter matches such a request.
THEOREM PayloadStable == Spec => PayloadStableUnderApproval
<1>1. IInv /\ [Next]_vars =>
        [request.status \in {"PENDING_APPROVAL", "APPROVED", "CANCELLED", "DELETED"}
           => request'.version = request.version]_vars
  <2> SUFFICES ASSUME IInv, [Next]_vars,
                      request.status \in {"PENDING_APPROVAL", "APPROVED", "CANCELLED", "DELETED"}
               PROVE  request'.version = request.version
    OBVIOUS
  <2>1. request \in Request
    BY DEF IInv, TypeOK
  <2>2. \A c \in Calls : calls[c].op \in {"edit", "resubmit"} => ~FilterMatches(calls[c])
    BY DEF IInv, CallsInv, CallOK, Pending, FilterMatches
  <2>3. \A k : Decided(k).version = request.version
    BY <2>1 DEF Decided, Request
  <2>4. /\ [request EXCEPT !.status = "CANCELLED"].version = request.version
        /\ [request EXCEPT !.status = "DELETED"].version = request.version
        /\ [request EXCEPT !.linked = TRUE].version = request.version
    BY <2>1 DEF Request
  <2>5. CASE Next
    BY <2>2, <2>3, <2>4, <2>5 DEF Next, ReplaceChainConfig, Initiate, ActRead, ActCommit,
       EditRead, EditCommit, ResubmitRead, ResubmitCommit, CancelRead, CancelCommit,
       DeleteRead, DeleteCommit, Conflict, Emit, Abandon, LinkEntity, Begin
  <2>6. CASE UNCHANGED vars
    BY <2>6 DEF vars
  <2>. QED  BY <2>5, <2>6
<1>. QED  BY <1>1, SpecInv, PTL DEF Spec, PayloadStableUnderApproval

-----------------------------------------------------------------------------
\* The outcomes told so far, as module Approval counts them.
Told == {e \in events : e.kind \in {"APPROVED", "CANCELLED"}}

\* A step that changes nothing module Approval sees is a stutter of it.
LEMMA Unseen ==
    ASSUME Phase(request') = Phase(request), Signatures(request') = Signatures(request),
           request'.caps = request.caps, request'.version = request.version,
           Told' = Told
    PROVE  UNCHANGED Abstract!vars
BY DEF Abstract!vars, Told

\* An open or sent back request has fewer signatures than its chain has steps,
\* and its status tells whether one or more are missing.
LEMMA SignaturesLeft ==
    ASSUME IInv, request.status \notin {"ABSENT", "APPROVED"}
    PROVE  /\ Len(request.caps) \in Nat /\ request.index \in 1 .. Len(request.caps)
           /\ Signatures(request) = request.index - 1
           /\ request.status = "PENDING_REVIEW" => request.index < Len(request.caps)
           /\ request.status = "PENDING_APPROVAL" => request.index = Len(request.caps)
<1>1. /\ Len(request.caps) \in Nat /\ request.index \in 1 .. Len(request.caps)
      /\ Actionable(request) => request.status = ComputeStatus(request.index, Len(request.caps))
  BY LenProperties DEF IInv, TypeOK, RequestInv, Request, Consistent
<1>. QED  BY <1>1 DEF Signatures, Actionable, ComputeStatus

\* act's commit is a signature, the decisive one, or a sending back.
LEMMA ActRefines ==
    ASSUME IInv, NEW c \in Calls, ActCommit(c)
    PROVE  Abstract!Next
<1>. DEFINE k == calls[c]
            n == Len(request.caps)
            i == request.index
<1>1. /\ k.op = "act" /\ FilterMatches(k) /\ request' = Decided(k) /\ events' = events
      /\ k.seen.status = request.status /\ k.seen.index = i /\ request \in Request
  BY DEF ActCommit, FilterMatches, IInv, TypeOK
<1>2. /\ k.seen.caps = request.caps /\ Actionable(k.seen) /\ k.verdict \in Verdicts
  BY <1>1 DEF IInv, CallsInv, CallOK, Pending
<1>3. /\ Actionable(request) /\ Phase(request) = "open"
  BY <1>1, <1>2 DEF Actionable, Phase
<1>4. n \in Nat /\ i \in 1 .. n /\ Signatures(request) = i - 1
  BY <1>3, SignaturesLeft DEF Actionable
<1>5. /\ request'.caps = request.caps /\ request'.version = request.version
      /\ request'.status = StatusAfter(k.seen, k.verdict)
      /\ request'.index = IndexAfter(k.seen, k.verdict)
  BY <1>1 DEF Decided, Request
<1>6. Told' = Told
  BY <1>1 DEF Told
<1>7. CASE k.verdict = "APPROVED" /\ i # n
  <2>1. request'.status \in {"PENDING_REVIEW", "PENDING_APPROVAL"} /\ request'.index = i + 1
    BY <1>1, <1>2, <1>5, <1>7 DEF StatusAfter, IndexAfter, IsLastStep, ComputeStatus
  <2>2. Phase(request') = "open" /\ Signatures(request') = i
    BY <1>4, <2>1 DEF Phase, Actionable, Signatures
  <2>3. Abstract!Sign
    BY <1>3, <1>4, <1>5, <1>6, <1>7, <2>2 DEF Abstract!Sign, Told
  <2>. QED  BY <2>3 DEF Abstract!Next
<1>8. CASE k.verdict = "APPROVED" /\ i = n
  <2>1. request'.status = "APPROVED"
    BY <1>1, <1>2, <1>5, <1>8 DEF StatusAfter, IsLastStep
  <2>2. Phase(request') = "approved" /\ Signatures(request') = n
    BY <1>5, <2>1 DEF Phase, Actionable, Signatures
  <2>3. Abstract!Approve
    BY <1>3, <1>4, <1>5, <1>6, <1>8, <2>2 DEF Abstract!Approve, Told
  <2>. QED  BY <2>3 DEF Abstract!Next
<1>9. CASE k.verdict # "APPROVED"
  <2>1. request'.status \in {"REJECTED", "RETURNED_TO_MAKER"} /\ request'.index = i
    BY <1>1, <1>5, <1>9 DEF StatusAfter, IndexAfter
  <2>2. Phase(request') = "back" /\ Signatures(request') = i - 1
    BY <2>1 DEF Phase, Actionable, Signatures
  <2>3. Abstract!SendBack
    BY <1>3, <1>4, <1>5, <1>6, <2>2 DEF Abstract!SendBack, Told
  <2>. QED  BY <2>3 DEF Abstract!Next
<1>. QED  BY <1>7, <1>8, <1>9

\* An edit is a revision: it commits under review only.
LEMMA EditRefines ==
    ASSUME IInv, NEW c \in Calls, EditCommit(c)
    PROVE  Abstract!Next
<1>1. /\ calls[c].op = "edit" /\ FilterMatches(calls[c]) /\ events' = events
      /\ request' = [request EXCEPT !.version = @ + 1] /\ request \in Request
  BY DEF EditCommit, IInv, TypeOK
<1>2. request.status = "PENDING_REVIEW"
  BY <1>1 DEF IInv, CallsInv, CallOK, Pending, FilterMatches
<1>3. /\ request'.status = request.status /\ request'.caps = request.caps
      /\ request'.index = request.index /\ request'.version = request.version + 1
  BY <1>1 DEF Request
<1>4. /\ Len(request.caps) \in Nat /\ request.index \in 1 .. Len(request.caps)
      /\ Signatures(request) = request.index - 1 /\ request.index < Len(request.caps)
  BY <1>2, SignaturesLeft
<1>5. /\ Phase(request) = "open" /\ Phase(request') = "open"
      /\ Signatures(request') = Signatures(request)
  BY <1>2, <1>3 DEF Phase, Actionable, Signatures
<1>6. Told' = Told
  BY <1>1 DEF Told
<1>7. Abstract!Revise
  BY <1>3, <1>4, <1>5, <1>6 DEF Abstract!Revise, Told
<1>. QED  BY <1>7 DEF Abstract!Next

\* A resubmission puts the proposal forward again, short of a signature at least.
LEMMA ResubmitRefines ==
    ASSUME IInv, NEW c \in Calls, ResubmitCommit(c)
    PROVE  Abstract!Next
<1>. DEFINE seen == calls[c].seen
            n == Len(request.caps)
<1>1. /\ calls[c].op = "resubmit" /\ FilterMatches(calls[c]) /\ events' = events
      /\ request' = Resubmitted(seen) /\ request \in Request
      /\ request.status = seen.status
  BY DEF ResubmitCommit, FilterMatches, IInv, TypeOK
<1>2. /\ request.status \in {"REJECTED", "RETURNED_TO_MAKER"} /\ ~editable
      /\ Consistent(seen) /\ seen.caps = request.caps
  BY <1>1 DEF IInv, CallsInv, CallOK, Pending
<1>3. chain.steps = request.caps
  BY <1>2 DEF IInv, RequestInv
<1>4. n \in Nat /\ n # 0
  BY <1>2, SignaturesLeft
<1>5. /\ request'.caps = request.caps /\ request'.version = request.version + 1
      /\ request'.index \in 1 .. n
      /\ request'.status = ComputeStatus(request'.index, n)
  <2>1. CASE seen.status = "REJECTED" \/ chain.restart
    BY <1>1, <1>3, <1>4, <2>1 DEF Resubmitted, Request
  <2>2. CASE ~(seen.status = "REJECTED" \/ chain.restart)
    <3>1. seen.index \in 1 .. n
      BY <1>2 DEF Consistent
    <3>. QED  BY <1>1, <1>2, <2>2, <3>1 DEF Resubmitted, Request
  <2>. QED  BY <2>1, <2>2
<1>6. request'.status \in {"PENDING_REVIEW", "PENDING_APPROVAL"}
  BY <1>5 DEF ComputeStatus
<1>7. /\ Phase(request) = "back" /\ Phase(request') = "open"
      /\ Signatures(request') = request'.index - 1
  BY <1>2, <1>6 DEF Phase, Actionable, Signatures
<1>8. Signatures(request') \in 0 .. n - 1
  BY <1>4, <1>5, <1>7
<1>9. Told' = Told
  BY <1>1 DEF Told
<1>10. Abstract!PutForward
  BY <1>5, <1>7, <1>8, <1>9 DEF Abstract!PutForward, Told
<1>. QED  BY <1>10 DEF Abstract!Next

\* A cancellation and a deletion withdraw an undecided proposal.
LEMMA WithdrawRefines ==
    ASSUME IInv, NEW c \in Calls, CancelCommit(c) \/ DeleteCommit(c)
    PROVE  Abstract!Next
<1>1. /\ calls[c].op \in {"cancel", "delete"} /\ FilterMatches(calls[c]) /\ events' = events
      /\ \/ request' = [request EXCEPT !.status = "CANCELLED"]
         \/ request' = [request EXCEPT !.status = "DELETED"]
      /\ request \in Request
  BY DEF CancelCommit, DeleteCommit, IInv, TypeOK
<1>2. request.status \notin {"ABSENT", "APPROVED", "CANCELLED", "DELETED"}
  <2>1. request.status \notin {"APPROVED", "CANCELLED", "DELETED"}
    BY <1>1, NothingMatches DEF Pending
  <2>2. request.status # "ABSENT"
    BY <1>1 DEF IInv, CallsInv, CallOK, Pending
  <2>. QED  BY <2>1, <2>2
<1>3. /\ request'.status \in {"CANCELLED", "DELETED"} /\ request'.caps = request.caps
      /\ request'.index = request.index /\ request'.version = request.version
  BY <1>1 DEF Request
<1>4. Phase(request) \in {"open", "back"}
  BY <1>1, <1>2 DEF Phase, Actionable, Request, Statuses
<1>5. /\ Phase(request') \in {"cancelled", "gone"}
      /\ Signatures(request') = Signatures(request)
  BY <1>2, <1>3 DEF Phase, Actionable, Signatures
<1>6. Told' = Told
  BY <1>1 DEF Told
<1>7. Abstract!Withdraw
  BY <1>3, <1>4, <1>5, <1>6 DEF Abstract!Withdraw, Told
<1>. QED  BY <1>7 DEF Abstract!Next

\* initiate proposes, for as many signatures as the chain has steps.
LEMMA InitiateRefines ==
    ASSUME IInv, NEW s \in Staff, Initiate(s)
    PROVE  Abstract!Next
<1>1. /\ request.status = "ABSENT" /\ events' = events
      /\ request'.status = ComputeStatus(1, Len(chain.steps))
      /\ request'.caps = chain.steps /\ request'.index = 1 /\ request'.version = 1
  BY DEF Initiate
<1>2. Len(chain.steps) \in Nat \ {0}
  BY ConstantsAssumption, LenProperties, EmptySeq DEF IInv, TypeOK, ValidShape
<1>3. request'.status \in {"PENDING_REVIEW", "PENDING_APPROVAL"}
  BY <1>1 DEF ComputeStatus
<1>4. /\ Phase(request) = "none" /\ Phase(request') = "open" /\ Signatures(request') = 0
  BY <1>1, <1>3 DEF Phase, Actionable, Signatures
<1>5. Told' = Told
  BY <1>1 DEF Told
<1>6. Abstract!Propose
  BY <1>1, <1>2, <1>4, <1>5 DEF Abstract!Propose, Told
<1>. QED  BY <1>6 DEF Abstract!Next

\* An emitted event is an outcome as it stands, or nothing Approval speaks of.
LEMMA EmitRefines ==
    ASSUME IInv, OutcomeEventsAgree, NEW c \in Calls, Emit(c)
    PROVE  Abstract!Next \/ UNCHANGED Abstract!vars
<1>. DEFINE e == EventOf(calls[c])
<1>1. calls[c].op = "emit" /\ events' = events \union {e} /\ request' = request
  BY DEF Emit
<1>2. e \in Announced
  BY <1>1 DEF Announced
<1>3. e = [kind |-> e.kind, version |-> e.version]
  BY DEF EventOf
<1>4. CASE e.kind = "APPROVED"
  <2>1. request.status = "APPROVED" /\ e.version = request.version
    BY <1>2, <1>4 DEF OutcomeEventsAgree
  <2>2. Phase(request) = "approved"
    BY <2>1 DEF Phase, Actionable
  <2>3. Told' = Told \union {[kind |-> "APPROVED", version |-> request.version]}
    BY <1>1, <1>3, <1>4, <2>1 DEF Told
  <2>4. Abstract!Outcome("APPROVED", "approved")
    BY <1>1, <2>2, <2>3 DEF Abstract!Outcome, Told
  <2>. QED  BY <2>4 DEF Abstract!Next
<1>5. CASE e.kind = "CANCELLED"
  <2>1. request.status = "CANCELLED" /\ e.version = request.version
    BY <1>2, <1>5 DEF OutcomeEventsAgree
  <2>2. Phase(request) = "cancelled"
    BY <2>1 DEF Phase, Actionable
  <2>3. Told' = Told \union {[kind |-> "CANCELLED", version |-> request.version]}
    BY <1>1, <1>3, <1>5, <2>1 DEF Told
  <2>4. Abstract!Outcome("CANCELLED", "cancelled")
    BY <1>1, <2>2, <2>3 DEF Abstract!Outcome, Told
  <2>. QED  BY <2>4 DEF Abstract!Next
<1>6. CASE e.kind \notin {"APPROVED", "CANCELLED"}
  <2>1. Told' = Told
    BY <1>1, <1>6 DEF Told
  <2>. QED  BY <1>1, <2>1, Unseen
<1>. QED  BY <1>4, <1>5, <1>6

\* Every step of the engine is a step of the abstract decision process or one
\* it does not see.
LEMMA StepRefines ==
    IInv /\ OutcomeEventsAgree /\ [Next]_vars => [Abstract!Next]_(Abstract!vars)
<1> SUFFICES ASSUME IInv, OutcomeEventsAgree, [Next]_vars
             PROVE  Abstract!Next \/ UNCHANGED Abstract!vars
  OBVIOUS
<1>1. CASE UNCHANGED <<request, events>>
  BY <1>1, Unseen DEF Told
<1>2. CASE LinkEntity
  <2>1. request \in Request /\ request' = [request EXCEPT !.linked = TRUE] /\ events' = events
    BY <1>2 DEF LinkEntity, IInv, TypeOK
  <2>2. /\ request'.status = request.status /\ request'.caps = request.caps
        /\ request'.index = request.index /\ request'.version = request.version
    BY <2>1 DEF Request
  <2>. QED  BY <2>1, <2>2, Unseen DEF Told, Phase, Actionable, Signatures
<1>3. CASE Next /\ ~LinkEntity
  <2>1. \/ UNCHANGED <<request, events>>
        \/ \E s \in Staff : Initiate(s)
        \/ \E c \in Calls : ActCommit(c)
        \/ \E c \in Calls : EditCommit(c)
        \/ \E c \in Calls : ResubmitCommit(c)
        \/ \E c \in Calls : CancelCommit(c) \/ DeleteCommit(c)
        \/ \E c \in Calls : Emit(c)
    BY <1>3 DEF Next, ReplaceChainConfig, ActRead, EditRead, ResubmitRead, CancelRead,
       DeleteRead, Conflict, Abandon, Begin
  <2>. QED  BY <1>1, <2>1, InitiateRefines, ActRefines, EditRefines, ResubmitRefines,
               WithdrawRefines, EmitRefines
<1>4. CASE UNCHANGED vars
  BY <1>1, <1>4 DEF vars
<1>. QED  BY <1>2, <1>3, <1>4

\* The engine implements the abstract decision process, for every chain and any
\* number of calls in flight.
THEOREM EngineImplementsApproval == Spec => ImplementsApproval
<1>1. Init => Abstract!Init
  <2> SUFFICES ASSUME Init PROVE Abstract!Init
    OBVIOUS
  <2>1. /\ request.status = "ABSENT" /\ request.caps = <<>> /\ request.index = 1
        /\ request.version = 0 /\ events = {}
    BY DEF Init, NoRequest
  <2>2. Phase(request) = "none" /\ Signatures(request) = 0 /\ Len(request.caps) = 0
    BY <2>1, EmptySeq DEF Phase, Signatures
  <2>. QED  BY <2>1, <2>2 DEF Abstract!Init
<1>2. Init => OutcomeEventsAgree
  BY DEF Init, OutcomeEventsAgree, Announced, Idle
<1>. QED  BY <1>1, <1>2, InitInv, NextInv, OutcomeStep, StepRefines, PTL
          DEF Spec, ImplementsApproval, Abstract!Spec
=============================================================================
