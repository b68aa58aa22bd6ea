--------------------------- MODULE WorkflowEngine ---------------------------
(***************************************************************************)
(* The generic maker-checker engine                                        *)
(* (src/src/platform/workflow-engine/workflow-engine.service.ts).          *)
(*                                                                         *)
(* One WorkflowRequest document, the WorkflowChainConfig it was raised     *)
(* under, and the HTTP calls in flight against it.  Requests share no      *)
(* state, so one document is enough.  Every operation of the service       *)
(* first reads the document and checks it, then, after an await, commits   *)
(* with a findOneAndUpdate whose filter repeats only a part of what was    *)
(* read; another call may commit in between.  The two halves are two       *)
(* actions, and what the first half saw is kept with the call.             *)
(*                                                                         *)
(* Abstractions: a payload is its version number (payloadHistory.length);  *)
(* a staff member's capabilities do not change; comments, timestamps and   *)
(* the audit record are left out.  Steps are numbered from 1 here and from *)
(* 0 in the code.                                                          *)
(***************************************************************************)
EXTENDS Naturals, Sequences

CONSTANTS
    Staff,        \* staff members
    Capability,   \* what a chain step may require
    Holds,        \* Holds[s]: the capabilities of staff member s
    Shapes,       \* the step lists a chain may be registered with
    Calls,        \* slots for calls in flight
    MaxVersion,   \* bound: payload versions per request
    NoOne         \* `actedBy: null`

ValidShape(shape) == shape # <<>>

ASSUME ConstantsAssumption ==
    /\ Holds \in [Staff -> SUBSET Capability]
    /\ Shapes \subseteq Seq(Capability)
    /\ \A shape \in Shapes : ValidShape(shape)
    /\ NoOne \notin Staff
    /\ MaxVersion \in Nat \ {0}

VARIABLES
    chain,      \* the registered chain: its steps and restartOnReturn
    editable,   \* TRUE: an admin may replace the chain (the LOAN chains)
    request,    \* the WorkflowRequest document
    calls,      \* calls in flight
    events      \* the workflow.* events delivered so far

vars == <<chain, editable, request, calls, events>>

-----------------------------------------------------------------------------
Verdicts == {"APPROVED", "REJECTED", "RETURNED"}

Statuses == {"ABSENT", "PENDING_REVIEW", "PENDING_APPROVAL", "APPROVED",
             "REJECTED", "RETURNED_TO_MAKER", "CANCELLED", "DELETED"}

Exists(r) == r.status \notin {"ABSENT", "DELETED"}

Actionable(r) == r.status \in {"PENDING_REVIEW", "PENDING_APPROVAL"}

UntouchedStep == [by |-> NoOne, action |-> "NONE"]

Untouched(shape) == [i \in 1 .. Len(shape) |-> UntouchedStep]

\* computeStatus: the last step of a chain awaits approval, the others review.
ComputeStatus(index, total) ==
    IF index = total THEN "PENDING_APPROVAL" ELSE "PENDING_REVIEW"

NoRequest == [status |-> "ABSENT", caps |-> <<>>, steps |-> <<>>, index |-> 1,
              version |-> 0, maker |-> NoOne, linked |-> FALSE]

Idle == [op |-> "idle", actor |-> NoOne, verdict |-> "NONE", seen |-> NoRequest]

\* A call that has read the document and passed the checks of its first half.
Begun(op, s, v) == [op |-> op, actor |-> s, verdict |-> v, seen |-> request]

\* A call whose write has committed and whose event is still to be emitted.
Emitting(kind, r) == [op |-> "emit", actor |-> NoOne, verdict |-> kind, seen |-> r]

EventOf(k) == [kind |-> k.verdict, version |-> k.seen.version]

IsFree(c) == calls[c].op = "idle"

Begin(c, op, s, v) ==
    /\ IsFree(c)
    /\ calls' = [calls EXCEPT ![c] = Begun(op, s, v)]
    /\ UNCHANGED <<chain, editable, request, events>>

-----------------------------------------------------------------------------
\* registerChainConfig has inserted the chain before any request is raised.
Init ==
    /\ chain \in [steps : Shapes, restart : BOOLEAN]
    /\ editable \in BOOLEAN
    /\ request = NoRequest
    /\ calls = [c \in Calls |-> Idle]
    /\ events = {}

\* replaceChainConfig overwrites the stored steps whatever is in flight.
ReplaceChainConfig(shape) ==
    /\ editable
    /\ chain' = [steps |-> shape, restart |-> TRUE]
    /\ UNCHANGED <<editable, request, calls, events>>

\* initiate snapshots the chain's steps onto the new request.
Initiate(s) ==
    /\ request.status = "ABSENT"
    /\ request' = [status  |-> ComputeStatus(1, Len(chain.steps)),
                   caps    |-> chain.steps,
                   steps   |-> Untouched(chain.steps),
                   index   |-> 1,
                   version |-> 1,
                   maker   |-> s,
                   linked  |-> FALSE]
    /\ UNCHANGED <<chain, editable, calls, events>>

-----------------------------------------------------------------------------
\* Mutant of ActRead: the maker is not told apart from the others.
ActReadByMaker(c, s, v) ==
    /\ Actionable(request)
    /\ \A i \in DOMAIN request.steps : request.steps[i].by # s
    /\ request.caps[request.index] \in Holds[s]
    /\ Begin(c, "act", s, v)

\* act, first half: the checks on the document as it was read.
ActRead(c, s, v) ==
    /\ Actionable(request)
    /\ s # request.maker
    /\ \A i \in DOMAIN request.steps : request.steps[i].by # s
    /\ request.caps[request.index] \in Holds[s]
    /\ Begin(c, "act", s, v)

IsLastStep(r) == r.index = Len(r.caps)

\* The status and step index act computes from the document it read.
StatusAfter(r, v) ==
    IF v = "APPROVED"
    THEN IF IsLastStep(r) THEN "APPROVED" ELSE ComputeStatus(r.index + 1, Len(r.caps))
    ELSE IF v = "REJECTED" THEN "REJECTED" ELSE "RETURNED_TO_MAKER"

\* Mutant of IndexAfter: the last step is not recognised.
IndexPastTheEnd(r, v) ==
    IF v = "APPROVED" THEN r.index + 1 ELSE r.index

IndexAfter(r, v) ==
    IF v = "APPROVED" /\ ~IsLastStep(r) THEN r.index + 1 ELSE r.index

\* Mutant of FilterMatches: only act re-checks what it read.
FilterOnlyActs(k) ==
    k.op = "act" => request.status = k.seen.status /\ request.index = k.seen.index

\* The filter of each operation's findOneAndUpdate / findOneAndDelete: the
\* status that was read (for an edit, PENDING_REVIEW) and, for act alone, the
\* step index.
FilterMatches(k) ==
    /\ request.status = k.seen.status
    /\ k.op = "act" => request.index = k.seen.index

\* What act writes: the verdict on the step it read, the status and index it
\* computed, on whatever the document has become.
Decided(k) ==
    [request EXCEPT !.status = StatusAfter(k.seen, k.verdict),
                    !.index = IndexAfter(k.seen, k.verdict),
                    !.steps = [@ EXCEPT ![k.seen.index] = [by |-> k.actor, action |-> k.verdict]]]

IsOutcome(status) == status \in {"APPROVED", "REJECTED", "RETURNED_TO_MAKER"}

\* Mutant of AfterAct: the event carries the payload that was read, not the
\* payload of the updated document.
AfterActStaleEvent(k) ==
    IF IsOutcome(Decided(k).status) THEN Emitting(k.verdict, k.seen) ELSE Idle

\* An approval short of the last step emits no event.
AfterAct(k) ==
    IF IsOutcome(Decided(k).status) THEN Emitting(k.verdict, Decided(k)) ELSE Idle

\* act, second half.
ActCommit(c) ==
    /\ calls[c].op = "act"
    /\ FilterMatches(calls[c])
    /\ request' = Decided(calls[c])
    /\ calls' = [calls EXCEPT ![c] = AfterAct(calls[c])]
    /\ UNCHANGED <<chain, editable, events>>

-----------------------------------------------------------------------------
\* updatePendingPayload: the maker edits a request that is PENDING_REVIEW.
EditRead(c) ==
    /\ request.status = "PENDING_REVIEW"
    /\ request.version < MaxVersion
    /\ Begin(c, "edit", request.maker, "NONE")

\* Mutant of EditCommit: the status is not checked again when the edit is written.
EditCommitUnchecked(c) ==
    /\ calls[c].op = "edit"
    /\ request.version < MaxVersion
    /\ request' = [request EXCEPT !.version = @ + 1]
    /\ calls' = [calls EXCEPT ![c] = Idle]
    /\ UNCHANGED <<chain, editable, events>>

EditCommit(c) ==
    /\ calls[c].op = "edit"
    /\ FilterMatches(calls[c])
    /\ request.version < MaxVersion
    /\ request' = [request EXCEPT !.version = @ + 1]
    /\ calls' = [calls EXCEPT ![c] = Idle]
    /\ UNCHANGED <<chain, editable, events>>

\* resubmit, only ever called for the entity types whose chain is insert-only.
ResubmitRead(c) ==
    /\ ~editable
    /\ request.status \in {"REJECTED", "RETURNED_TO_MAKER"}
    /\ request.version < MaxVersion
    /\ Begin(c, "resubmit", request.maker, "NONE")

\* Mutant of Resubmitted: the step that returned the request keeps its record.
ResubmittedKeepingStep(seen) ==
    IF seen.status = "REJECTED" \/ chain.restart
    THEN [request EXCEPT !.status = ComputeStatus(1, Len(chain.steps)),
                         !.steps = Untouched(chain.steps),
                         !.index = 1,
                         !.version = @ + 1]
    ELSE [request EXCEPT !.status = ComputeStatus(seen.index, Len(seen.caps)),
                         !.steps = seen.steps,
                         !.index = seen.index,
                         !.version = @ + 1]

\* Mutant of Resubmitted: the new payload is not added to the history.
ResubmittedUnrecorded(seen) ==
    [request EXCEPT !.status = ComputeStatus(1, Len(chain.steps)),
                    !.caps = chain.steps,
                    !.steps = Untouched(chain.steps),
                    !.index = 1]

\* A rejected request, or any on a restartOnReturn chain, starts afresh from
\* the registered chain; otherwise the step that returned it is cleared.
Resubmitted(seen) ==
    IF seen.status = "REJECTED" \/ chain.restart
    THEN [request EXCEPT !.status = ComputeStatus(1, Len(chain.steps)),
                         !.caps = chain.steps,
                         !.steps = Untouched(chain.steps),
                         !.index = 1,
                         !.version = @ + 1]
    ELSE [request EXCEPT !.status = ComputeStatus(seen.index, Len(seen.caps)),
                         !.caps = seen.caps,
                         !.steps = [seen.steps EXCEPT ![seen.index] = UntouchedStep],
                         !.index = seen.index,
                         !.version = @ + 1]

ResubmitCommit(c) ==
    /\ calls[c].op = "resubmit"
    /\ FilterMatches(calls[c])
    /\ request.version < MaxVersion
    /\ request' = Resubmitted(calls[c].seen)
    /\ calls' = [calls EXCEPT ![c] = Emitting("RESUBMITTED", request')]
    /\ UNCHANGED <<chain, editable, events>>

-----------------------------------------------------------------------------
\* cancel: the maker withdraws a request that is not APPROVED or CANCELLED.
CancelRead(c) ==
    /\ Exists(request)
    /\ request.status \notin {"APPROVED", "CANCELLED"}
    /\ Begin(c, "cancel", request.maker, "NONE")

CancelCommit(c) ==
    /\ calls[c].op = "cancel"
    /\ FilterMatches(calls[c])
    /\ request' = [request EXCEPT !.status = "CANCELLED"]
    /\ calls' = [calls EXCEPT ![c] = Emitting("CANCELLED", request')]
    /\ UNCHANGED <<chain, editable, events>>

\* deleteRequest: the document is gone; its event carries the payload read
\* before the deletion.
DeleteRead(c) ==
    /\ request.status \in {"PENDING_REVIEW", "REJECTED"}
    /\ Begin(c, "delete", request.maker, "NONE")

DeleteCommit(c) ==
    /\ calls[c].op = "delete"
    /\ FilterMatches(calls[c])
    /\ request' = [request EXCEPT !.status = "DELETED"]
    /\ calls' = [calls EXCEPT ![c] = Emitting("DELETED", calls[c].seen)]
    /\ UNCHANGED <<chain, editable, events>>

-----------------------------------------------------------------------------
\* The filter of the write no longer matches: ConflictException, no effect.
Conflict(c) ==
    /\ calls[c].op \notin {"idle", "emit"}
    /\ ~FilterMatches(calls[c])
    /\ calls' = [calls EXCEPT ![c] = Idle]
    /\ UNCHANGED <<chain, editable, request, events>>

\* emitAsync, after the audit record has been written.
Emit(c) ==
    /\ calls[c].op = "emit"
    /\ events' = events \union {EventOf(calls[c])}
    /\ calls' = [calls EXCEPT ![c] = Idle]
    /\ UNCHANGED <<chain, editable, request>>

\* A call that dies at one of its awaits: the pre-approval validator throws,
\* the audit write fails, or the process stops.
Abandon(c) ==
    /\ ~IsFree(c)
    /\ calls' = [calls EXCEPT ![c] = Idle]
    /\ UNCHANGED <<chain, editable, request, events>>

\* linkEntity, called by the domain module that reacted to workflow.approved.
LinkEntity ==
    /\ \E e \in events : e.kind = "APPROVED"
    /\ Exists(request)
    /\ request' = [request EXCEPT !.linked = TRUE]
    /\ UNCHANGED <<chain, editable, calls, events>>

Next ==
    \/ \E shape \in Shapes : ReplaceChainConfig(shape)
    \/ \E s \in Staff : Initiate(s)
    \/ \E c \in Calls, s \in Staff, v \in Verdicts : ActRead(c, s, v)
    \/ \E c \in Calls : ActCommit(c)
    \/ \E c \in Calls : EditRead(c)
    \/ \E c \in Calls : EditCommit(c)
    \/ \E c \in Calls : ResubmitRead(c)
    \/ \E c \in Calls : ResubmitCommit(c)
    \/ \E c \in Calls : CancelRead(c)
    \/ \E c \in Calls : CancelCommit(c)
    \/ \E c \in Calls : DeleteRead(c)
    \/ \E c \in Calls : DeleteCommit(c)
    \/ \E c \in Calls : Conflict(c)
    \/ \E c \in Calls : Emit(c)
    \/ \E c \in Calls : Abandon(c)
    \/ LinkEntity

Spec == Init /\ [][Next]_vars

-----------------------------------------------------------------------------
Step == [by : Staff \union {NoOne}, action : Verdicts \union {"NONE"}]

Request == [status : Statuses, caps : Seq(Capability), steps : Seq(Step),
            index : Nat \ {0}, version : Nat, maker : Staff \union {NoOne},
            linked : BOOLEAN]

Ops == {"idle", "act", "edit", "resubmit", "cancel", "delete", "emit"}

EventKinds == Verdicts \union {"RESUBMITTED", "CANCELLED", "DELETED"}

Call == [op : Ops, actor : Staff \union {NoOne},
         verdict : EventKinds \union {"NONE"}, seen : Request]

\* Every variable has its type, and a document's current step is one of its steps.
TypeOK ==
    /\ chain \in [steps : Shapes, restart : BOOLEAN]
    /\ editable \in BOOLEAN
    /\ request \in Request
    /\ Exists(request) => request.index \in DOMAIN request.steps
    /\ calls \in [Calls -> Call]
    /\ events \subseteq [kind : EventKinds, version : Nat]

\* What a document's status says of its step records: every step before the
\* current one is approved, every later one untouched, and the current one
\* holds the verdict the status reports.
Consistent(r) ==
    /\ Len(r.steps) = Len(r.caps)
    /\ r.index \in 1 .. Len(r.caps)
    /\ \A i \in 1 .. Len(r.caps) :
          /\ i < r.index => r.steps[i].action = "APPROVED"
          /\ i > r.index => r.steps[i] = UntouchedStep
    /\ Actionable(r) => /\ r.status = ComputeStatus(r.index, Len(r.caps))
                        /\ r.steps[r.index] = UntouchedStep
    /\ r.status = "REJECTED" => r.steps[r.index].action = "REJECTED"
    /\ r.status = "RETURNED_TO_MAKER" => r.steps[r.index].action = "RETURNED"
    /\ r.status = "APPROVED" => /\ r.index = Len(r.caps)
                                /\ r.steps[r.index].action = "APPROVED"

\* Whatever calls race, the status of the stored request never runs ahead of
\* its step records: an APPROVED request has the approval of every step of its
\* chain (act, resubmit and their read-then-write windows).
StepsFollowStatus == Exists(request) => Consistent(request)

Entitled(r) ==
    \A i \in 1 .. Len(r.steps) :
        r.steps[i].by # NoOne => /\ r.steps[i].by # r.maker
                                 /\ r.caps[i] \in Holds[r.steps[i].by]

\* No step of a request is ever recorded under its own maker, or under a staff
\* member who lacks the capability that very step requires, also when the step
\* was checked on a document that other calls have since replaced.
ActorsEntitled == Exists(request) => Entitled(request)

\* APPROVED and CANCELLED are final: no call that read the request before the
\* decision can still change its status, steps or payload (linkEntity only
\* back-fills entityId).
DecisionIsFinal ==
    [][request.status \in {"APPROVED", "CANCELLED"}
         => request' = [request EXCEPT !.linked = request'.linked]]_vars

\* The kinds of event emitted, or committed and about to be emitted.
Announced ==
    events \union {EventOf(calls[c]) : c \in {d \in Calls : calls[d].op = "emit"}}

\* A workflow.approved event is only ever announced for a request that is
\* APPROVED, and carries its last payload; no cancelled or deleted event is
\* then announced for it, and the other way round.  A domain module reacting
\* to one of them never has to undo another.
OutcomeEventsAgree ==
    \A e \in Announced :
        /\ e.kind = "APPROVED" => request.status = "APPROVED" /\ e.version = request.version
        /\ e.kind = "CANCELLED" => request.status = "CANCELLED" /\ e.version = request.version
        /\ e.kind = "DELETED" => request.status = "DELETED"

\* Nobody swaps the payload under the final approver: it changes only while the
\* request is under review or back with its maker, never while it awaits the
\* final approval or after it (updatePendingPayload against act).
PayloadStableUnderApproval ==
    [][request.status \in {"PENDING_APPROVAL", "APPROVED", "CANCELLED", "DELETED"}
         => request'.version = request.version]_vars

-----------------------------------------------------------------------------
\* How the stored document reads to the module that raised it.
Phase(r) ==
    IF r.status = "ABSENT" THEN "none"
    ELSE IF Actionable(r) THEN "open"
    ELSE IF r.status \in {"REJECTED", "RETURNED_TO_MAKER"} THEN "back"
    ELSE IF r.status = "APPROVED" THEN "approved"
    ELSE IF r.status = "CANCELLED" THEN "cancelled"
    ELSE "gone"

Signatures(r) ==
    IF r.status = "APPROVED" THEN Len(r.caps) ELSE r.index - 1

Abstract == INSTANCE Approval
    WITH phase <- Phase(request),
         needed <- Len(request.caps),
         signed <- Signatures(request),
         version <- request.version,
         told <- {e \in events : e.kind \in {"APPROVED", "CANCELLED"}}

\* With all its stale reads, races and dying calls the engine behaves like the
\* one-at-a-time decision process of module Approval: each write moves one
\* signature, a decision is reached from the last but one signature only, the
\* number of signatures needed never changes, every resubmission is a new
\* version, and an outcome is told only as it stands.
ImplementsApproval == Abstract!Spec
=============================================================================
