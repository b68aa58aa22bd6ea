------------------------------ MODULE Approval ------------------------------
(***************************************************************************)
(* What the workflow engine promises the modules that raise requests with  *)
(* it (src/src/platform/workflow-engine): one decision process, seen from  *)
(* outside.  A proposal needs a fixed number of signatures, collected one  *)
(* at a time; the last one decides it for good.  It may be sent back and   *)
(* put forward again, always as a new version.  Whoever waits for the      *)
(* outcome is told, if at all, of the outcome and the version that stand.  *)
(* Calls, documents, step records, filters and races do not exist here.    *)
(***************************************************************************)
EXTENDS Naturals

VARIABLES
    phase,      \* "none", "open", "back", "approved", "cancelled" or "gone"
    needed,     \* signatures an approval takes
    signed,     \* signatures it has
    version,    \* versions of the payload put forward so far
    told        \* outcomes announced: [kind, version]

vars == <<phase, needed, signed, version, told>>

Init ==
    /\ phase = "none"
    /\ needed = 0
    /\ signed = 0
    /\ version = 0
    /\ told = {}

Propose ==
    /\ phase = "none"
    /\ phase' = "open"
    /\ needed' \in Nat \ {0}
    /\ signed' = 0
    /\ version' = 1
    /\ UNCHANGED told

\* The payload may still change while more than the final signature is missing.
Revise ==
    /\ phase = "open"
    /\ signed + 1 < needed
    /\ version' = version + 1
    /\ UNCHANGED <<phase, needed, signed, told>>

Sign ==
    /\ phase = "open"
    /\ signed + 1 < needed
    /\ signed' = signed + 1
    /\ UNCHANGED <<phase, needed, version, told>>

Approve ==
    /\ phase = "open"
    /\ signed + 1 = needed
    /\ phase' = "approved"
    /\ signed' = needed
    /\ UNCHANGED <<needed, version, told>>

\* Rejected or returned: the maker may put it forward again.
SendBack ==
    /\ phase = "open"
    /\ phase' = "back"
    /\ UNCHANGED <<needed, signed, version, told>>

\* Some signatures may be kept, never all that are needed.
PutForward ==
    /\ phase = "back"
    /\ phase' = "open"
    /\ signed' \in 0 .. needed - 1
    /\ version' = version + 1
    /\ UNCHANGED <<needed, told>>

Withdraw ==
    /\ phase \in {"open", "back"}
    /\ phase' \in {"cancelled", "gone"}
    /\ UNCHANGED <<needed, signed, version, told>>

Outcome(kind, p) ==
    /\ phase = p
    /\ told' = told \union {[kind |-> kind, version |-> version]}
    /\ UNCHANGED <<phase, needed, signed, version>>

Next ==
    \/ Propose
    \/ Revise
    \/ Sign
    \/ Approve
    \/ SendBack
    \/ PutForward
    \/ Withdraw
    \/ Outcome("APPROVED", "approved")
    \/ Outcome("CANCELLED", "cancelled")

Spec == Init /\ [][Next]_vars
=============================================================================
