---------------------------- MODULE Notifications ----------------------------
(***************************************************************************)
(* Delivery of notifications (src/src/modules/notifications): jobs on a    *)
(* queue, the worker that sends them and writes the in-app copies, the     *)
(* dead-letter log, and the drain of the backlog that earlier versions of  *)
(* the program left behind.                                                *)
(*                                                                         *)
(* One (type, sourceEntityId): the staff it is addressed to have a job     *)
(* each, named after the recipient, and share the copies in the inboxes.   *)
(* A backlog entry is a type and source of its own, so its job is named    *)
(* after the entry.  The queue (BullMQ) is external: it keeps one job per  *)
(* name, retries a job whose processor threw, requeues once a job whose    *)
(* worker died, and removes a job that completes or fails.                 *)
(*                                                                         *)
(* Abstractions: templates, payloads, back-off delays and log lines are    *)
(* left out; the active SuperAdmins stay the same; one process runs the    *)
(* API, the drains and the worker, which takes one job at a time; while it *)
(* runs, the dead letters it writes are stored.                            *)
(***************************************************************************)
EXTENDS Naturals, FiniteSets

CONSTANTS
    Staff,          \* members of staff with an inbox
    Addressed,      \* those the notification is addressed to
    SuperAdmins,    \* the active SuperAdmins
    Entries,        \* entries of the backlog, each addressed to a customer
    Contacts,       \* Contacts[j]: the channels the recipient of job j may have
    Drains,         \* slots for overlapping drains
    MaxAttempts,    \* attempts per job
    MaxDispatches,  \* bound: times a job of each name is accepted
    MaxCrashes      \* bound: times the process stops

Jobs == Addressed \union Entries

Channels == {"email", "sms"}

ASSUME ConstantsAssumption ==
    /\ Addressed \subseteq Staff
    /\ SuperAdmins \subseteq Staff
    /\ Contacts \in [Jobs -> SUBSET SUBSET Channels]
    /\ MaxAttempts \in Nat \ {0}
    /\ MaxDispatches \in [Jobs -> Nat]
    /\ MaxCrashes \in Nat

VARIABLES
    job,         \* the queue's job of each name
    accepted,    \* jobs of each name the queue has accepted so far
    letters,     \* dead letters that onFailed is about to write
    fate,        \* history: what became of the last job of each name
    copies,      \* the Notification row of each staff member
    dispatched,  \* the backlog entries' flags
    drain,       \* drains in progress
    crashes

notificationVars == <<job, accepted, letters, fate, copies, dispatched,
          drain, crashes>>

queueVars == <<job, accepted, letters, fate>>

-----------------------------------------------------------------------------
\* `sent` holds the channels reached by the attempt in progress.
NoJob == [at |-> "gone", legs |-> {}, sent |-> {}, made |-> 0, stalled |-> FALSE]

Queued(j) == job[j].at # "gone"

This(j) == [name |-> j, number |-> accepted[j]]

\* The history of the jobs the letters are about, unless another job has taken
\* their name since.
Marked(ls, outcome) ==
    [j \in Jobs |-> IF This(j) \in ls /\ ~Queued(j) THEN outcome ELSE fate[j]]

NoCopy == [is |-> "absent", mirror |-> FALSE]

NoDrain == [at |-> "idle", todo |-> {}, entry |-> "none"]

NotificationInit ==
    /\ job = [j \in Jobs |-> NoJob]
    /\ accepted = [j \in Jobs |-> 0]
    /\ letters = {}
    /\ fate = [j \in Jobs |-> "none"]
    /\ copies = [s \in Staff |-> NoCopy]
    /\ dispatched = [e \in Entries |-> FALSE]
    /\ drain = [d \in Drains |-> NoDrain]
    /\ crashes = 0

\* dispatch: a job whose name the queue already holds is a no-op.
Enqueue(j, legs) ==
    IF Queued(j)
    THEN UNCHANGED <<job, accepted, fate>>
    ELSE /\ accepted[j] < MaxDispatches[j]
         /\ job' = [job EXCEPT ![j] = [NoJob EXCEPT !.at = "waiting", !.legs = legs]]
         /\ accepted' = [accepted EXCEPT ![j] = @ + 1]
         /\ fate' = [fate EXCEPT ![j] = "open"]

\* A listener or the notification port addresses a member of staff, again if
\* the event comes again.
Dispatch(s) ==
    /\ \E legs \in Contacts[s] : Enqueue(s, legs)
    /\ UNCHANGED <<letters, copies, dispatched, drain, crashes>>

-----------------------------------------------------------------------------
Processing(j) == job[j].at \in {"copies", "email", "sms", "end"}

Worker == UNCHANGED <<accepted, dispatched, drain, crashes>>

Start(j) ==
    /\ job[j].at = "waiting"
    /\ \A i \in Jobs : ~Processing(i)
    /\ job' = [job EXCEPT ![j].at = "copies"]
    /\ Worker
    /\ UNCHANGED <<letters, fate, copies>>

\* Mutant of Upserted: the fields are $set, not $setOnInsert.
UpsertedAgain(s, primary) == [is |-> "unread", mirror |-> s # primary]

\* The upsert of one copy: nothing changes in a row that is there already.
Upserted(s, primary) ==
    IF copies[s].is = "absent"
    THEN [is |-> "unread", mirror |-> s # primary]
    ELSE copies[s]

\* persistCopies, for a member of staff and every active SuperAdmin: one
\* ordered bulk write, the recipient's row first.  It may break off; that is
\* only logged.
PersistCopies(j) ==
    /\ job[j].at = "copies"
    /\ job' = [job EXCEPT ![j].at = "email"]
    /\ \E written \in SUBSET (IF j \in Addressed THEN {j} \union SuperAdmins ELSE {}) :
          /\ written # {} => j \in written
          /\ copies' = [s \in Staff |-> IF s \in written THEN Upserted(s, j) ELSE copies[s]]
    /\ Worker
    /\ UNCHANGED <<letters, fate>>

After(leg) == IF leg = "email" THEN "sms" ELSE "end"

\* The message is sent over a channel, or sending fails.  A channel the
\* recipient has no address for is not tried.
SendLeg(j, leg) ==
    /\ job[j].at = leg
    /\ \E reached \in SUBSET ({leg} \intersect job[j].legs) :
          job' = [job EXCEPT ![j].at = After(leg), ![j].sent = @ \union reached]
    /\ Worker
    /\ UNCHANGED <<letters, fate, copies>>

\* The channels that were tried and not reached.
Failures(j) == job[j].legs \ job[j].sent

\* process returns: the queue removes the job.
Complete(j) ==
    /\ job[j].at = "end"
    /\ Failures(j) = {}
    /\ job' = [job EXCEPT ![j] = NoJob]
    /\ fate' = [fate EXCEPT ![j] = "answered"]
    /\ Worker
    /\ UNCHANGED <<letters, copies>>

\* Mutant of Final: off by one, the last attempt is taken for an earlier one.
FinalButOne(made) == made > MaxAttempts

Final(made) == made >= MaxAttempts

\* process throws: the queue retries the job or removes it, and emits "failed".
\* onFailed returns at once unless the failure is final.
Fail(j) ==
    /\ job[j].at = "end"
    /\ Failures(j) # {}
    /\ job' = [job EXCEPT ![j] =
                  IF @.made + 1 < MaxAttempts
                  THEN [@ EXCEPT !.at = "waiting", !.made = @ + 1, !.sent = {}] ELSE NoJob]
    /\ letters' = IF Final(job[j].made + 1) THEN letters \union {This(j)} ELSE letters
    /\ Worker
    /\ UNCHANGED <<fate, copies>>

\* onFailed writes the dead letter.
OnFailed(l) ==
    /\ l \in letters
    /\ letters' = letters \ {l}
    /\ fate' = Marked({l}, "answered")
    /\ Worker
    /\ UNCHANGED <<job, copies>>

\* The queue finds a job whose worker died: it waits again, the first time; the
\* second time the queue removes it, and onFailed gets no job to log.
Recover(j) ==
    /\ job[j].at = "stalled"
    /\ IF job[j].stalled
       THEN /\ job' = [job EXCEPT ![j] = NoJob]
            /\ fate' = [fate EXCEPT ![j] = "lost"]
       ELSE /\ job' = [job EXCEPT ![j].at = "waiting", ![j].stalled = TRUE]
            /\ UNCHANGED fate
    /\ Worker
    /\ UNCHANGED <<letters, copies>>

-----------------------------------------------------------------------------
\* markRead and markAllRead, by the owner of the rows.
MarkRead(s) ==
    /\ copies[s].is = "unread"
    /\ copies' = [copies EXCEPT ![s].is = "read"]
    /\ UNCHANGED <<queueVars, dispatched, drain, crashes>>

-----------------------------------------------------------------------------
Draining == UNCHANGED <<letters, copies, crashes>>

\* drain: the entries found undispatched are worked through one by one.
DrainFind(d) ==
    /\ drain[d].at = "idle"
    /\ \E e \in Entries : ~dispatched[e]
    /\ drain' = [drain EXCEPT ![d] = [NoDrain EXCEPT
                    !.at = "next", !.todo = {e \in Entries : ~dispatched[e]}]]
    /\ Draining
    /\ UNCHANGED <<job, accepted, fate, dispatched>>

DrainEnqueue(d, e) ==
    /\ drain[d].at = "next"
    /\ e \in drain[d].todo
    /\ \E legs \in Contacts[e] : Enqueue(e, legs)
    /\ drain' = [drain EXCEPT ![d] = [at |-> "mark", todo |-> @.todo \ {e}, entry |-> e]]
    /\ Draining
    /\ UNCHANGED dispatched

\* The loop goes on, or the drain has worked through its list.
NextEntry(k) ==
    IF k.todo = {} THEN NoDrain ELSE [k EXCEPT !.at = "next", !.entry = "none"]

DrainMark(d) ==
    /\ drain[d].at = "mark"
    /\ dispatched' = [dispatched EXCEPT ![drain[d].entry] = TRUE]
    /\ drain' = [drain EXCEPT ![d] = NextEntry(@)]
    /\ Draining
    /\ UNCHANGED <<job, accepted, fate>>

\* The recipient is not found, the queue or the database fails: the entry is
\* skipped, as it is.
DrainSkip(d) ==
    /\ \/ /\ drain[d].at = "next"
          /\ \E e \in drain[d].todo :
                drain' = [drain EXCEPT ![d] = NextEntry([@ EXCEPT !.todo = @ \ {e}])]
       \/ /\ drain[d].at = "mark"
          /\ drain' = [drain EXCEPT ![d] = NextEntry(@)]
    /\ Draining
    /\ UNCHANGED <<job, accepted, fate, dispatched>>

\* The process stops: the job in hand stalls, drains are forgotten, and the
\* dead letters not written yet are gone.
Crash ==
    /\ crashes < MaxCrashes
    /\ crashes' = crashes + 1
    /\ job' = [j \in Jobs |-> IF Processing(j)
                 THEN [job[j] EXCEPT !.at = "stalled", !.sent = {}] ELSE job[j]]
    /\ fate' = Marked(letters, "lost")
    /\ letters' = {}
    /\ drain' = [d \in Drains |-> NoDrain]
    /\ UNCHANGED <<accepted, copies, dispatched>>

Work(j) ==
    \/ Start(j)
    \/ PersistCopies(j)
    \/ SendLeg(j, "email")
    \/ SendLeg(j, "sms")
    \/ Complete(j)
    \/ Fail(j)
    \/ Recover(j)

Handle(j) == \E l \in letters : l.name = j /\ OnFailed(l)

NotificationNext ==
    \/ \E s \in Addressed : Dispatch(s)
    \/ \E s \in Staff : MarkRead(s)
    \/ \E j \in Jobs : Work(j) \/ Handle(j)
    \/ \E d \in Drains : DrainFind(d) \/ DrainMark(d) \/ DrainSkip(d)
    \/ \E d \in Drains, e \in Entries : DrainEnqueue(d, e)
    \/ Crash

\* The queue hands every waiting job to the worker sooner or later, whatever
\* other jobs come, and the program's handlers run to their end.  Nobody has to
\* call the drain, and providers may fail for ever.
Fairness ==
    \A j \in Jobs : SF_notificationVars(Work(j)) /\ WF_notificationVars(Handle(j))

NotificationSpec ==
    NotificationInit /\ [][NotificationNext]_notificationVars /\ Fairness

-----------------------------------------------------------------------------
\* Nothing vanishes in silence: a job the queue has accepted ends with every
\* channel of its recipient reached or with a dead letter, unless the process
\* stopped on it (twice while it was sending, or before its dead letter was
\* written); and so does the job of a backlog entry that is marked dispatched.
\* Retries, failures and overlapping drains come in any order.
EveryJobIsAnswered ==
    /\ \A j \in Jobs : Queued(j) ~> fate[j] \in {"answered", "lost"}
    /\ \A e \in Entries : dispatched[e] ~> fate[e] \in {"answered", "lost"}

\* A copy that has been read stays read, and keeps the category it was filed
\* under, through retries, mirrors and recoveries.
ReadStaysRead ==
    [][\A s \in Staff :
          copies[s].is = "read" => copies'[s] = copies[s]]_notificationVars
=============================================================================
