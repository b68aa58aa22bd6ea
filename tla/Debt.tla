-------------------------------- MODULE Debt --------------------------------
(***************************************************************************)
(* What a MemberLoanAccount promises the borrower and the branch, seen     *)
(* from outside (src/src/modules/repayments): one debt.  A payment counts  *)
(* once until it is given back, takes no more than is owed and closes the  *)
(* account with the last of it; giving it back returns no more than it     *)
(* took and reopens the account that owes again; a charge is added once; a *)
(* settlement ends the debt, once.  Records, approvals, disputes, reads    *)
(* that are stale when they are used and calls that die do not exist here. *)
(***************************************************************************)
EXTENDS Naturals

CONSTANTS
    Payments,
    Charges,
    Settlements,
    Opening,    \* what is owed at first
    Surcharge   \* what one charge adds

VARIABLES
    owed,
    status,     \* "ACTIVE" or "CLOSED"
    counted,    \* the payments that count
    due,        \* what giving each of them back returns
    charged,    \* the charges made
    settled     \* the settlements made

vars == <<owed, status, counted, due, charged, settled>>

Init ==
    /\ owed = Opening
    /\ status = "ACTIVE"
    /\ counted = {}
    /\ due = [p \in Payments |-> 0]
    /\ charged = {}
    /\ settled = {}

Pay(p, amount, back) ==
    /\ p \notin counted
    /\ back <= amount
    /\ owed' = owed - amount
    /\ status' = IF amount = owed THEN "CLOSED" ELSE status
    /\ counted' = counted \union {p}
    /\ due' = [due EXCEPT ![p] = back]
    /\ UNCHANGED <<charged, settled>>

GiveBack(p) ==
    /\ p \in counted
    /\ owed' = owed + due[p]
    /\ status' = IF owed + due[p] > 0 THEN "ACTIVE" ELSE status
    /\ counted' = counted \ {p}
    /\ due' = [due EXCEPT ![p] = 0]
    /\ UNCHANGED <<charged, settled>>

Add(x) ==
    /\ x \notin charged
    /\ owed' = owed + Surcharge
    /\ charged' = charged \union {x}
    /\ UNCHANGED <<status, counted, due, settled>>

Settle(s) ==
    /\ s \notin settled
    /\ owed' = 0
    /\ status' = "CLOSED"
    /\ settled' = settled \union {s}
    /\ UNCHANGED <<counted, due, charged>>

Next ==
    \/ \E p \in Payments, amount \in 0 .. owed, back \in 0 .. owed : Pay(p, amount, back)
    \/ \E p \in Payments : GiveBack(p)
    \/ \E x \in Charges : Add(x)
    \/ \E s \in Settlements : Settle(s)

Spec == Init /\ [][Next]_vars
=============================================================================
