-------------------------- MODULE Branches_proofs ---------------------------
(***************************************************************************)
(* Theorems about a branch (Branches), for any number of staff, bank       *)
(* accounts, fundings, proposals, assignments and calls in flight; and     *)
(* about the catalogue of products and fees (Products), for any number of  *)
(* versions, requests and approvals under way, and the schedules of loans  *)
(* on its products (Schedules), for every principal, rate and tenure.      *)
(*                                                                         *)
(* The schedules come last.  That one of reducing balance asks for no more *)
(* than it should is the longest argument: the roundings of n installments *)
(* grow like the balances do, and an ample principal outweighs them.       *)
(***************************************************************************)
EXTENDS Branches, Products, SumTheorems, TLAPS

FundingType == [status  : {"ABSENT", "PENDING_VERIFICATION", "VERIFIED", "REJECTED"},
                amount  : Amounts \union {0},
                by      : Staff \union {None},
                dispute : {"NONE", "OPEN", "RESOLVED"}]

\* What a call remembers matters here only where it writes a funding.
Shaped(call) ==
    /\ call = Call(call.op, call.arg, call.by, call.n)
    /\ call.op = "record" => call.n \in Amounts
    /\ call.op \in {"verify", "reject", "dispute", "resolve"} => call.arg \in Fundings
    /\ call.op = "verify" => call.by \in Staff
    /\ call.op = "died_inserting" => call = DiedInserting

TypeInv ==
    /\ inserted \in Nat
    /\ fundings \in [Fundings -> FundingType]
    /\ calls = [c \in Calls |-> calls[c]]
    /\ \A c \in Calls : Shaped(calls[c])

IInv == TypeInv /\ ManagerIsReplaced

\* The steps of a call that may leave a branch without a manager for good.
Inserting(call) == call.op \in {"open", "died_inserting"}

-----------------------------------------------------------------------------
LEMMA CallShaped ==
    ASSUME NEW op, NEW arg, NEW by, NEW n
    PROVE  /\ Call(op, arg, by, n).op = op /\ Call(op, arg, by, n).arg = arg
           /\ Call(op, arg, by, n).by = by /\ Call(op, arg, by, n).n = n
           /\ Call(op, arg, by, n) = Call(Call(op, arg, by, n).op, Call(op, arg, by, n).arg,
                                          Call(op, arg, by, n).by, Call(op, arg, by, n).n)
BY DEF Call

\* A step of one call keeps the calls shaped.
LEMMA CallsShaped ==
    ASSUME TypeInv, NEW c \in Calls, NEW k, Shaped(k), calls' = [calls EXCEPT ![c] = k]
    PROVE  /\ calls' = [d \in Calls |-> calls'[d]]
           /\ \A d \in Calls : calls'[d] = IF d = c THEN k ELSE calls[d]
           /\ \A d \in Calls : Shaped(calls'[d])
<1>1. /\ calls' = [d \in Calls |-> IF d = c THEN k ELSE calls[d]]
  BY DEF TypeInv
<1>2. \A d \in Calls : calls'[d] = IF d = c THEN k ELSE calls[d]
  BY <1>1
<1>. QED  BY <1>1, <1>2 DEF TypeInv

\* A step of a call that was not inserting an assignment, and touches neither
\* the assignment nor a funding.
LEMMA QuietStep ==
    ASSUME IInv, NEW c \in Calls, NEW k, Shaped(k),
           calls' = [calls EXCEPT ![c] = k],
           Inserting(calls[c]) => Inserting(k),
           UNCHANGED <<manager, managed, inserted>>,
           fundings' \in [Fundings -> FundingType]
    PROVE  IInv'
<1>1. TypeInv'
  BY CallsShaped DEF IInv, TypeInv
<1>2. ManagerIsReplaced'
  BY CallsShaped DEF IInv, ManagerIsReplaced, Inserting
<1>. QED  BY <1>1, <1>2 DEF IInv

\* A call that enters its slot.
LEMMA EnterStep ==
    ASSUME IInv, NEW c \in Calls, NEW k, Shaped(k), Enter(c, k),
           UNCHANGED <<manager, managed, inserted, fundings>>
    PROVE  IInv'
<1>1. ~Inserting(calls[c])
  BY DEF Enter, Idle, Call, Inserting
<1>2. fundings' \in [Fundings -> FundingType] /\ calls' = [calls EXCEPT ![c] = k]
  BY DEF Enter, IInv, TypeInv
<1>. QED  BY <1>1, <1>2, QuietStep

LEMMA IdleShaped == Shaped(Idle) /\ Shaped(Died) /\ Shaped(DiedInserting)
                    /\ Inserting(DiedInserting)
BY CallShaped DEF Shaped, Idle, Died, DiedInserting, Inserting

LEMMA InitInv == Init => IInv
<1>. SUFFICES ASSUME Init PROVE IInv
  OBVIOUS
<1>1. NoFunding \in FundingType
  BY DEF NoFunding, FundingType
<1>2. fundings \in [Fundings -> FundingType]
  BY <1>1 DEF Init
<1>3. calls = [c \in Calls |-> calls[c]] /\ \A c \in Calls : calls[c] = Idle
  BY DEF Init
<1>. QED  BY <1>2, <1>3, IdleShaped DEF Init, IInv, TypeInv, ManagerIsReplaced

-----------------------------------------------------------------------------
\* The branch, its fund balance and its proposals.
LEMMA SiteInv ==
    ASSUME IInv,
           \/ ProposeBranch
           \/ \E c \in Calls, v \in {"APPROVED", "REJECTED"} : DecideBranch(c, v)
           \/ \E c \in Calls : PersistBranch(c) \/ OpenBalance(c)
           \/ \E status \in {"ACTIVE", "INACTIVE"} : Update(status)
           \/ \E c \in Calls : DeleteRead(c) \/ DeleteBranch(c) \/ DeleteBelongings(c)
    PROVE  IInv'
<1>1. UNCHANGED <<manager, managed, inserted, fundings>>
  BY DEF ProposeBranch, DecideBranch, PersistBranch, OpenBalance, Update, DeleteRead,
     DeleteBranch, DeleteBelongings, People, Money
<1>2. CASE calls' = calls
  BY <1>1, <1>2 DEF IInv, TypeInv, ManagerIsReplaced
<1>3. ASSUME NEW c \in Calls, NEW op \in {"persist", "open_balance", "delete", "cascade"},
             calls' = [calls EXCEPT ![c] = Call(op, None, None, 0)], ~Inserting(calls[c])
      PROVE  IInv'
  <2>1. Shaped(Call(op, None, None, 0))
    BY CallShaped DEF Shaped
  <2>. QED  BY <1>1, <1>3, <2>1, QuietStep DEF IInv, TypeInv
<1>4. ASSUME NEW c \in Calls, calls' = [calls EXCEPT ![c] = Idle], ~Inserting(calls[c])
      PROVE  IInv'
  BY <1>1, <1>4, IdleShaped, QuietStep DEF IInv, TypeInv
<1>5. ASSUME NEW c \in Calls, calls[c] = Idle PROVE ~Inserting(calls[c])
  BY <1>5 DEF Idle, Call, Inserting
<1>6. CASE ProposeBranch \/ \E status \in {"ACTIVE", "INACTIVE"} : Update(status)
  BY <1>2, <1>6 DEF ProposeBranch, Update
<1>7. ASSUME NEW c \in Calls, NEW v \in {"APPROVED", "REJECTED"}, DecideBranch(c, v)
      PROVE  IInv'
  BY <1>2, <1>3, <1>5, <1>7 DEF DecideBranch, Enter
<1>8. ASSUME NEW c \in Calls, PersistBranch(c)
      PROVE  IInv'
  BY <1>3, <1>4, <1>8 DEF PersistBranch, Continue, At, Inserting
<1>9. ASSUME NEW c \in Calls, OpenBalance(c)
      PROVE  IInv'
  BY <1>4, <1>9 DEF OpenBalance, Continue, At, Inserting
<1>10. ASSUME NEW c \in Calls, DeleteRead(c)
       PROVE  IInv'
  BY <1>3, <1>5, <1>10 DEF DeleteRead, Enter
<1>11. ASSUME NEW c \in Calls, DeleteBranch(c)
       PROVE  IInv'
  BY <1>3, <1>11 DEF DeleteBranch, Continue, At, Inserting
<1>12. ASSUME NEW c \in Calls, DeleteBelongings(c)
       PROVE  IInv'
  BY <1>4, <1>12 DEF DeleteBelongings, Continue, At, Inserting
<1>. QED  BY <1>6, <1>7, <1>8, <1>9, <1>10, <1>11, <1>12

\* The manager: a call that has closed an assignment is one that will insert.
LEMMA PeopleInv ==
    ASSUME IInv,
           \/ \E c \in Calls, s \in Staff : ApproveNominee(c, s)
           \/ \E c \in Calls : \/ AssignRead(c) \/ CloseAssignment(c) \/ OpenAssignment(c)
                               \/ MoveStaff(c)
           \/ \E s \in Staff : PostElsewhere(s)
    PROVE  IInv'
<1>1. fundings' = fundings
  BY DEF ApproveNominee, AssignRead, CloseAssignment, OpenAssignment, MoveStaff,
     PostElsewhere, Money
<1>2. \A op \in {"assign", "open", "close", "move"} : \A arg, n : Shaped(Call(op, arg, None, n))
  BY CallShaped DEF Shaped
<1>3. ASSUME NEW c \in Calls, NEW s \in Staff, ApproveNominee(c, s)
      PROVE  IInv'
  BY <1>1, <1>2, <1>3, EnterStep DEF ApproveNominee, People
<1>4. ASSUME NEW c \in Calls, AssignRead(c)
      PROVE  IInv'
  <2>1. PICK k : /\ calls' = [calls EXCEPT ![c] = k]
                 /\ \/ k = Call("open", calls[c].arg, None, 0)
                    \/ k = Call("close", calls[c].arg, None, manager.no)
    BY <1>4 DEF AssignRead, Continue
  <2>2. Shaped(k)
    BY <1>2, <2>1
  <2>3. ~Inserting(calls[c]) /\ UNCHANGED <<manager, managed, inserted>>
    BY <1>4 DEF AssignRead, At, Inserting, People
  <2>. QED  BY <1>1, <2>1, <2>2, <2>3, QuietStep DEF IInv, TypeInv
<1>5. ASSUME NEW c \in Calls, CloseAssignment(c)
      PROVE  IInv'
  <2>1. PICK k : calls' = [calls EXCEPT ![c] = k] /\ k = Call("open", calls[c].arg, None, 0)
    BY <1>5 DEF CloseAssignment, Continue
  <2>2. Shaped(k) /\ k.op = "open"
    BY <1>2, <2>1, CallShaped
  <2>3. UNCHANGED <<managed, inserted>>
    BY <1>5 DEF CloseAssignment
  <2>4. TypeInv'
    BY <1>1, <2>1, <2>2, <2>3, CallsShaped DEF IInv, TypeInv
  <2>5. calls'[c].op = "open"
    BY <2>1, <2>2 DEF IInv, TypeInv
  <2>. QED  BY <2>4, <2>5 DEF IInv, ManagerIsReplaced
<1>6. ASSUME NEW c \in Calls, OpenAssignment(c)
      PROVE  IInv'
  <2>1. PICK k : /\ calls' = [calls EXCEPT ![c] = k]
                 /\ \/ k = Call("move", calls[c].arg, None, 0)
                    \/ k = Idle
    BY <1>6 DEF OpenAssignment, Continue
  <2>2. Shaped(k)
    BY <1>2, <2>1, IdleShaped
  <2>3. inserted' \in Nat /\ manager' # Nobody
    BY <1>6 DEF OpenAssignment, Nobody, IInv, TypeInv
  <2>4. TypeInv'
    BY <1>1, <2>1, <2>2, <2>3, CallsShaped DEF IInv, TypeInv
  <2>. QED  BY <2>3, <2>4 DEF IInv, ManagerIsReplaced
<1>7. ASSUME NEW c \in Calls, MoveStaff(c)
      PROVE  IInv'
  <2>1. calls' = [calls EXCEPT ![c] = Idle] /\ UNCHANGED <<manager, managed, inserted>>
    BY <1>7 DEF MoveStaff, Continue
  <2>2. ~Inserting(calls[c])
    BY <1>7 DEF MoveStaff, At, Inserting
  <2>. QED  BY <1>1, <2>1, <2>2, IdleShaped, QuietStep DEF IInv, TypeInv
<1>8. ASSUME NEW s \in Staff, PostElsewhere(s)
      PROVE  IInv'
  BY <1>8 DEF PostElsewhere, Money, IInv, TypeInv, ManagerIsReplaced
<1>. QED  BY <1>3, <1>4, <1>5, <1>6, <1>7, <1>8

-----------------------------------------------------------------------------
\* The bank accounts.
LEMMA AccountsInv ==
    ASSUME IInv,
           \/ \E c \in Calls, a \in Accounts, v \in {"yes", "no", "unsaid"} :
                 CreateAccountRead(c, a, v)
           \/ \E c \in Calls, a \in Accounts, v \in BOOLEAN : UpdateAccountRead(c, a, v)
           \/ \E c \in Calls : DeactivateOthers(c) \/ AddAccount(c) \/ SetAccount(c)
    PROVE  IInv'
<1>1. UNCHANGED <<manager, managed, inserted, fundings>>
  BY DEF CreateAccountRead, UpdateAccountRead, DeactivateOthers, AddAccount, SetAccount,
     People, Money
<1>2. \A op \in {"deactivate", "add", "add_active", "activate", "retire"} :
         \A arg, by, n : Shaped(Call(op, arg, by, n))
  BY CallShaped DEF Shaped
<1>3. ASSUME NEW c \in Calls, NEW a \in Accounts, NEW v \in {"yes", "no", "unsaid"},
             CreateAccountRead(c, a, v)
      PROVE  IInv'
  <2>1. Enter(c, Call("deactivate", a, None, 0)) \/ Enter(c, Call("add", a, None, 0))
    BY <1>3 DEF CreateAccountRead
  <2>. QED  BY <1>1, <1>2, <2>1, EnterStep
<1>4. ASSUME NEW c \in Calls, NEW a \in Accounts, NEW v \in BOOLEAN, UpdateAccountRead(c, a, v)
      PROVE  IInv'
  <2>1. Enter(c, Call("deactivate", a, None, 1)) \/ Enter(c, Call("retire", a, None, 1))
    BY <1>4 DEF UpdateAccountRead
  <2>. QED  BY <1>1, <1>2, <2>1, EnterStep
<1>5. ASSUME NEW c \in Calls, DeactivateOthers(c)
      PROVE  IInv'
  <2>1. PICK op \in {"add_active", "activate"} :
           calls' = [calls EXCEPT ![c] = [calls[c] EXCEPT !.op = op]]
    BY <1>5 DEF DeactivateOthers, Continue
  <2>2. calls[c] = Call(calls[c].op, calls[c].arg, calls[c].by, calls[c].n)
    BY DEF IInv, TypeInv, Shaped
  <2>3. PICK k : /\ k = Call(op, calls[c].arg, calls[c].by, calls[c].n)
                 /\ calls' = [calls EXCEPT ![c] = k]
    <3>1. \A o, a, b, n : [Call(o, a, b, n) EXCEPT !.op = op] = Call(op, a, b, n)
      BY DEF Call
    <3>2. [calls[c] EXCEPT !.op = op] = Call(op, calls[c].arg, calls[c].by, calls[c].n)
      BY <2>2, <3>1
    <3>. QED  BY <2>1, <3>2
  <2>4. Shaped(k) /\ ~Inserting(calls[c])
    BY <1>2, <1>5, <2>3 DEF DeactivateOthers, At, Inserting
  <2>. QED  BY <1>1, <2>3, <2>4, QuietStep DEF IInv, TypeInv
<1>6. ASSUME NEW c \in Calls, AddAccount(c) \/ SetAccount(c)
      PROVE  IInv'
  <2>1. calls' = [calls EXCEPT ![c] = Idle] /\ ~Inserting(calls[c])
    BY <1>6 DEF AddAccount, SetAccount, Continue, Inserting
  <2>. QED  BY <1>1, <2>1, IdleShaped, QuietStep DEF IInv, TypeInv
<1>. QED  BY <1>3, <1>4, <1>5, <1>6

-----------------------------------------------------------------------------
\* A verified or rejected funding keeps its status and verifier.
Stands(f) ==
    fundings[f].status \in {"VERIFIED", "REJECTED"} =>
        fundings'[f].status = fundings[f].status /\ fundings'[f].by = fundings[f].by

\* The fields of a funding that is written.
LEMMA FundingWritten ==
    ASSUME NEW k \in FundingType
    PROVE  /\ \A st \in {"VERIFIED", "REJECTED"} :
                 /\ [k EXCEPT !.status = st] \in FundingType
                 /\ \A s \in Staff : [k EXCEPT !.status = st, !.by = s] \in FundingType
           /\ \A d \in {"OPEN", "RESOLVED"} :
                 /\ [k EXCEPT !.dispute = d] \in FundingType
                 /\ [k EXCEPT !.dispute = d].status = k.status
                 /\ [k EXCEPT !.dispute = d].by = k.by
<1>1. ASSUME NEW st \in {"VERIFIED", "REJECTED"}
      PROVE  [k EXCEPT !.status = st] \in FundingType
  BY DEF FundingType
<1>2. ASSUME NEW st \in {"VERIFIED", "REJECTED"}, NEW s \in Staff
      PROVE  [k EXCEPT !.status = st, !.by = s] \in FundingType
  BY DEF FundingType
<1>3. ASSUME NEW d \in {"OPEN", "RESOLVED"}
      PROVE  /\ [k EXCEPT !.dispute = d] \in FundingType
             /\ [k EXCEPT !.dispute = d].status = k.status
             /\ [k EXCEPT !.dispute = d].by = k.by
  BY DEF FundingType
<1>. QED  BY <1>1, <1>2, <1>3

\* One funding is replaced.
LEMMA FundingStep ==
    ASSUME IInv, NEW f \in Fundings, NEW k \in FundingType,
           fundings' = [fundings EXCEPT ![f] = k],
           fundings[f].status \in {"VERIFIED", "REJECTED"} =>
              k.status = fundings[f].status /\ k.by = fundings[f].by
    PROVE  fundings' \in [Fundings -> FundingType] /\ \A g \in Fundings : Stands(g)
BY DEF IInv, TypeInv, Stands

\* The funding: whatever a call has checked, what it writes is guarded again.
LEMMA FundingInv ==
    ASSUME IInv,
           \/ \E c \in Calls, a \in Accounts, n \in Amounts : RecordRead(c, a, n)
           \/ \E c \in Calls, f \in Fundings : RecordFunding(c, f)
           \/ \E c \in Calls, f \in Fundings, s \in Staff, v \in {"verify", "reject"} :
                 DecideFundingRead(c, f, s, v)
           \/ \E c \in Calls : VerifyFunding(c) \/ RejectFunding(c) \/ WriteDispute(c)
           \/ \E c \in Calls, f \in Fundings, s \in Staff : DisputeRead(c, f, s)
           \/ \E c \in Calls, f \in Fundings : ResolveDisputeRead(c, f)
    PROVE  IInv' /\ \A f \in Fundings : Stands(f)
<1>1. UNCHANGED <<manager, managed, inserted>>
  BY DEF RecordRead, RecordFunding, DecideFundingRead, VerifyFunding, RejectFunding,
     WriteDispute, DisputeRead, ResolveDisputeRead, People
<1>2. ASSUME NEW c \in Calls, NEW k, Shaped(k), Enter(c, k), UNCHANGED fundings
      PROVE  IInv' /\ \A f \in Fundings : Stands(f)
  BY <1>1, <1>2, EnterStep DEF Stands
<1>3. ASSUME NEW c \in Calls, ~Inserting(calls[c]), calls' = [calls EXCEPT ![c] = Idle],
             fundings' \in [Fundings -> FundingType]
      PROVE  IInv'
  BY <1>1, <1>3, IdleShaped, QuietStep
<1>4. ASSUME NEW c \in Calls, NEW a \in Accounts, NEW n \in Amounts, RecordRead(c, a, n)
      PROVE  IInv' /\ \A f \in Fundings : Stands(f)
  <2>1. Shaped(Call("record", None, None, n))
    BY CallShaped DEF Shaped
  <2>. QED  BY <1>2, <1>4, <2>1 DEF RecordRead, Money
<1>5. ASSUME NEW c \in Calls, NEW f \in Fundings, NEW s \in Staff,
             NEW v \in {"verify", "reject"}, DecideFundingRead(c, f, s, v)
      PROVE  IInv' /\ \A g \in Fundings : Stands(g)
  <2>1. Shaped(Call(v, f, s, 0))
    BY CallShaped DEF Shaped
  <2>. QED  BY <1>2, <1>5, <2>1 DEF DecideFundingRead, Money
<1>6. ASSUME NEW c \in Calls, NEW f \in Fundings, NEW s \in Staff, DisputeRead(c, f, s)
      PROVE  IInv' /\ \A g \in Fundings : Stands(g)
  <2>1. Shaped(Call("dispute", f, s, 0))
    BY CallShaped DEF Shaped
  <2>. QED  BY <1>2, <1>6, <2>1 DEF DisputeRead, Money
<1>7. ASSUME NEW c \in Calls, NEW f \in Fundings, ResolveDisputeRead(c, f)
      PROVE  IInv' /\ \A g \in Fundings : Stands(g)
  <2>1. Shaped(Call("resolve", f, None, 0))
    BY CallShaped DEF Shaped
  <2>. QED  BY <1>2, <1>7, <2>1 DEF ResolveDisputeRead, Money
<1>8. ASSUME NEW c \in Calls, NEW f \in Fundings, RecordFunding(c, f)
      PROVE  IInv' /\ \A g \in Fundings : Stands(g)
  <2>1. calls[c].op = "record" /\ calls[c].n \in Amounts
    BY <1>8 DEF RecordFunding, At, IInv, TypeInv, Shaped
  <2>2. PICK k \in FundingType : fundings' = [fundings EXCEPT ![f] = k]
    BY <1>8, <2>1 DEF RecordFunding, FundingType
  <2>3. fundings[f].status = "ABSENT"
    BY <1>8 DEF RecordFunding, Unused
  <2>4. fundings' \in [Fundings -> FundingType] /\ \A g \in Fundings : Stands(g)
    BY <2>2, <2>3, FundingStep
  <2>. QED  BY <1>3, <1>8, <2>1, <2>4 DEF RecordFunding, Continue, Inserting
<1>9. ASSUME NEW c \in Calls, VerifyFunding(c) \/ RejectFunding(c)
      PROVE  IInv' /\ \A g \in Fundings : Stands(g)
  <2>1. PICK f \in Fundings : f = calls[c].arg
    BY <1>9 DEF VerifyFunding, RejectFunding, At, IInv, TypeInv, Shaped
  <2>2. CASE fundings' = fundings
    BY <1>3, <1>9, <2>2 DEF VerifyFunding, RejectFunding, Continue, At, Inserting, IInv,
       TypeInv, Stands
  <2>3. CASE VerifyFunding(c) /\ IsPending(f)
    <3>1. calls[c].by \in Staff
      BY <2>3 DEF VerifyFunding, At, IInv, TypeInv, Shaped
    <3>2. PICK k \in FundingType : k = [fundings[f] EXCEPT !.status = "VERIFIED", !.by = calls[c].by]
      BY <3>1, FundingWritten DEF IInv, TypeInv
    <3>3. fundings' = [fundings EXCEPT ![f] = k]
      BY <2>1, <2>3, <3>2 DEF VerifyFunding, IInv, TypeInv
    <3>4. fundings' \in [Fundings -> FundingType] /\ \A g \in Fundings : Stands(g)
      BY <2>3, <3>3, FundingStep DEF IsPending
    <3>. QED  BY <1>3, <2>3, <3>4 DEF VerifyFunding, Continue, At, Inserting
  <2>4. CASE RejectFunding(c) /\ IsPending(f)
    <3>a. fundings[f] \in FundingType
      BY DEF IInv, TypeInv
    <3>1. PICK k \in FundingType : k = [fundings[f] EXCEPT !.status = "REJECTED"]
      BY <3>a, FundingWritten
    <3>2. fundings' = [fundings EXCEPT ![f] = k]
      BY <2>1, <2>4, <3>1 DEF RejectFunding, IInv, TypeInv
    <3>3. fundings' \in [Fundings -> FundingType] /\ \A g \in Fundings : Stands(g)
      BY <2>4, <3>2, FundingStep DEF IsPending
    <3>. QED  BY <1>3, <2>4, <3>3 DEF RejectFunding, Continue, At, Inserting
  <2>. QED  BY <1>9, <2>1, <2>2, <2>3, <2>4 DEF VerifyFunding, RejectFunding, Money
<1>10. ASSUME NEW c \in Calls, WriteDispute(c)
       PROVE  IInv' /\ \A g \in Fundings : Stands(g)
  <2>1. PICK f \in Fundings : f = calls[c].arg
    BY <1>10 DEF WriteDispute, IInv, TypeInv, Shaped
  <2>2. PICK d \in {"OPEN", "RESOLVED"} : fundings' = [fundings EXCEPT ![f].dispute = d]
    BY <1>10, <2>1 DEF WriteDispute
  <2>3. PICK k \in FundingType : /\ k = [fundings[f] EXCEPT !.dispute = d]
                                 /\ k.status = fundings[f].status
                                 /\ k.by = fundings[f].by
    <3>1. fundings[f] \in FundingType
      BY DEF IInv, TypeInv
    <3>. QED  BY <3>1, FundingWritten
  <2>4. fundings' = [fundings EXCEPT ![f] = k]
    BY <2>2, <2>3 DEF IInv, TypeInv
  <2>5. fundings' \in [Fundings -> FundingType] /\ \A g \in Fundings : Stands(g)
    BY <2>3, <2>4, FundingStep
  <2>. QED  BY <1>3, <1>10, <2>5 DEF WriteDispute, Continue, Inserting
<1>. QED  BY <1>4, <1>5, <1>6, <1>7, <1>8, <1>9, <1>10

-----------------------------------------------------------------------------
\* A call that dies between two assignments is remembered.
LEMMA AbandonInv ==
    ASSUME IInv, NEW c \in Calls, Abandon(c)
    PROVE  IInv'
<1>1. PICK k : /\ calls' = [calls EXCEPT ![c] = k]
               /\ k \in {Died, DiedInserting}
               /\ At(c, "open") => k = DiedInserting
  BY DEF Abandon, Continue
<1>2. calls[c].op # "died_inserting" \/ Inserting(k)
  BY DEF Abandon, IInv, TypeInv, Shaped
<1>. QED  BY <1>1, <1>2, IdleShaped, QuietStep DEF Abandon, At, Inserting, People, Money, IInv, TypeInv

LEMMA NextInv == IInv /\ [Next]_vars => IInv' /\ \A f \in Fundings : Stands(f)
<1>. SUFFICES ASSUME IInv, [Next]_vars PROVE IInv' /\ \A f \in Fundings : Stands(f)
  OBVIOUS
<1>1. CASE UNCHANGED vars
  BY <1>1 DEF vars, IInv, TypeInv, ManagerIsReplaced, Stands
<1>2. CASE Next
  <2>1. CASE UNCHANGED fundings
    <3>1. \A f \in Fundings : Stands(f)
      BY <2>1 DEF Stands
    <3>. QED  BY <1>2, <3>1, SiteInv, PeopleInv, AccountsInv, FundingInv, AbandonInv DEF Next
  <2>2. CASE ~UNCHANGED fundings
    <3>1. \/ \E c \in Calls, f \in Fundings : RecordFunding(c, f)
          \/ \E c \in Calls : VerifyFunding(c) \/ RejectFunding(c) \/ WriteDispute(c)
      BY <1>2, <2>2 DEF Next, ProposeBranch, DecideBranch, PersistBranch, OpenBalance, Update,
         DeleteRead, DeleteBranch, DeleteBelongings, ApproveNominee, AssignRead,
         CloseAssignment, OpenAssignment, MoveStaff, PostElsewhere, CreateAccountRead,
         UpdateAccountRead, DeactivateOthers, AddAccount, SetAccount, RecordRead,
         DecideFundingRead, DisputeRead, ResolveDisputeRead, Abandon, Money
    <3>. QED  BY <3>1, FundingInv
  <2>. QED  BY <2>1, <2>2
<1>. QED  BY <1>1, <1>2

-----------------------------------------------------------------------------
(***************************************************************************)
(* The books: what the balance, the fundings and the managers of a branch  *)
(* have to do with each other, at every step of every call.                *)
(***************************************************************************)

\* Until the branch is created there is nothing to fund, and the balance is
\* only deleted once the branch is.
SiteKnown ==
    /\ branch \in {"ABSENT", "ACTIVE", "INACTIVE", "DELETED"}
    /\ \A c \in Calls :
          /\ calls[c].op \in {"record", "open_balance", "delete", "cascade"} => branch # "ABSENT"
          /\ calls[c].op = "cascade" => branch = "DELETED"
    /\ branch = "ABSENT" => balance = None /\ \A f \in Fundings : fundings[f].status = "ABSENT"

\* Whoever is about to verify a funding, or has verified one, was a manager.
VerifiersKnown ==
    /\ manager = Nobody \/ manager.staff \in managed
    /\ \A c \in Calls : calls[c].op = "verify" => calls[c].by \in managed
    /\ \A f \in Verified : fundings[f].by \in managed

BalanceKnown ==
    /\ balance \in Nat \union {None}
    /\ Standing => Held = Credit

BooksInv == SiteKnown /\ VerifiersKnown /\ BalanceKnown

LEMMA InitBooks == Init => BooksInv
<1>. SUFFICES ASSUME Init PROVE BooksInv
  OBVIOUS
<1>1. \A c \in Calls : calls[c].op = "idle"
  BY DEF Init, Idle, Call
<1>2. \A f \in Fundings : fundings[f].status = "ABSENT"
  BY DEF Init, NoFunding
<1>. QED  BY <1>1, <1>2 DEF Init, BooksInv, SiteKnown, VerifiersKnown, BalanceKnown, Verified,
          Standing

\* What a step of one call leaves true when it writes neither the branch, nor
\* its balance, nor a funding.
LEMMA QuietBooks ==
    ASSUME IInv, BooksInv, NEW c \in Calls, NEW k, calls' = [calls EXCEPT ![c] = k],
           UNCHANGED <<branch, balance, fundings>>,
           managed \subseteq managed',
           manager' = Nobody \/ manager'.staff \in managed',
           k.op = "verify" => k.by \in managed,
           k.op \in {"record", "open_balance", "delete", "cascade"} => branch # "ABSENT",
           k.op # "cascade"
    PROVE  BooksInv'
<1>1. \A d \in Calls : calls'[d] = IF d = c THEN k ELSE calls[d]
  BY DEF IInv, TypeInv
<1>2. SiteKnown'
  BY <1>1 DEF BooksInv, SiteKnown
<1>3. VerifiersKnown'
  BY <1>1 DEF BooksInv, VerifiersKnown, Verified
<1>4. BalanceKnown'
  BY DEF BooksInv, BalanceKnown, Standing, Held, Credit, Verified
<1>. QED  BY <1>2, <1>3, <1>4 DEF BooksInv

\* The commonest steps: no document is written but those a QuietBooks step may
\* ignore, and the call goes on to a step that writes none either, or ends.
LEMMA PlainBooks ==
    ASSUME IInv, BooksInv, NEW c \in Calls, NEW k, calls' = [calls EXCEPT ![c] = k],
           UNCHANGED <<branch, balance, fundings, manager, managed>>,
           k.op \notin {"verify", "record", "open_balance", "delete", "cascade"}
    PROVE  BooksInv'
BY QuietBooks DEF BooksInv, VerifiersKnown

\* The sum follows the fundings.
LEMMA CreditSame ==
    ASSUME IInv, fundings' \in [Fundings -> FundingType],
           \A g \in Fundings : /\ fundings'[g].status = "VERIFIED" <=> fundings[g].status = "VERIFIED"
                               /\ fundings[g].status = "VERIFIED" =>
                                     fundings'[g].amount = fundings[g].amount
    PROVE  Credit' = Credit /\ Verified' = Verified
<1>. DEFINE a == [f \in Fundings |-> fundings[f].amount]
            b == [f \in Fundings |-> fundings'[f].amount]
<1>1. Verified' = Verified
  BY DEF Verified
<1>2. IsFiniteSet(Verified)
  BY BranchConstants, FS_Subset DEF Verified
<1>3. \A f \in Verified : a[f] \in Int /\ b[f] = a[f]
  BY BranchConstants DEF Verified, IInv, TypeInv, FundingType
<1>4. Credit = SumFunctionOnSet(a, Verified) /\ Credit' = SumFunctionOnSet(b, Verified)
  BY <1>1 DEF Credit
<1>. HIDE DEF a, b
<1>5. SumFunctionOnSet(b, Verified) = SumFunctionOnSet(a, Verified)
  BY <1>2, <1>3, SumExtensional
<1>. QED  BY <1>1, <1>4, <1>5

LEMMA CreditMore ==
    ASSUME IInv, fundings' \in [Fundings -> FundingType], NEW f \in Fundings,
           fundings[f].status # "VERIFIED", fundings'[f].status = "VERIFIED",
           fundings'[f].amount = fundings[f].amount,
           \A g \in Fundings \ {f} : fundings'[g] = fundings[g]
    PROVE  /\ Credit \in Nat
           /\ Credit' = Credit + fundings[f].amount
           /\ Verified' = Verified \union {f}
<1>. DEFINE a == [g \in Fundings |-> fundings[g].amount]
            b == [g \in Fundings |-> fundings'[g].amount]
<1>1. Verified' = Verified \union {f} /\ Verified' \ {f} = Verified
  BY DEF Verified
<1>2. IsFiniteSet(Verified) /\ IsFiniteSet(Verified')
  BY BranchConstants, FS_Subset DEF Verified
<1>3. \A g \in Fundings : a[g] \in Nat /\ b[g] \in Nat /\ b[g] = a[g]
  <2>1. ASSUME NEW g \in Fundings
        PROVE  fundings[g].amount \in Nat /\ fundings'[g].amount = fundings[g].amount
    BY BranchConstants DEF IInv, TypeInv, FundingType
  <2>. QED  BY <2>1
<1>4. Credit = SumFunctionOnSet(a, Verified) /\ Credit' = SumFunctionOnSet(b, Verified')
  BY DEF Credit
<1>5. b[f] = fundings[f].amount
  OBVIOUS
<1>6. Verified \subseteq Fundings /\ Verified' \subseteq Fundings
  BY DEF Verified
<1>. HIDE DEF a, b
<1>7. SumFunctionOnSet(a, Verified) \in Nat
  BY <1>2, <1>3, <1>6, SumOfNaturals
<1>8. SumFunctionOnSet(b, Verified') = b[f] + SumFunctionOnSet(b, Verified' \ {f})
  <2>1. f \in Verified' /\ \A g \in Verified' : b[g] \in Int
    BY <1>1, <1>3, <1>6
  <2>. QED  BY <1>2, <2>1, SumRemove
<1>9. SumFunctionOnSet(b, Verified) = SumFunctionOnSet(a, Verified)
  <2>1. \A g \in Verified : a[g] \in Int /\ b[g] = a[g]
    BY <1>3, <1>6
  <2>. QED  BY <1>2, <2>1, SumExtensional
<1>10. b[f] \in Nat
  BY <1>3
<1>11. Credit' = b[f] + Credit
  BY <1>1, <1>4, <1>8, <1>9
<1>12. b[f] + Credit = Credit + b[f]
  BY <1>4, <1>7, <1>10
<1>. QED  BY <1>1, <1>4, <1>5, <1>7, <1>11, <1>12

-----------------------------------------------------------------------------
LEMMA SiteBooks ==
    ASSUME IInv, BooksInv,
           \/ ProposeBranch
           \/ \E c \in Calls, v \in {"APPROVED", "REJECTED"} : DecideBranch(c, v)
           \/ \E c \in Calls : PersistBranch(c) \/ OpenBalance(c)
           \/ \E status \in {"ACTIVE", "INACTIVE"} : Update(status)
           \/ \E c \in Calls : DeleteRead(c) \/ DeleteBranch(c) \/ DeleteBelongings(c)
    PROVE  BooksInv'
<1>1. UNCHANGED <<manager, managed, fundings>> /\ Credit' = Credit /\ Verified' = Verified
  BY DEF ProposeBranch, DecideBranch, PersistBranch, OpenBalance, Update, DeleteRead,
     DeleteBranch, DeleteBelongings, People, Money, Credit, Verified
\* Of the calls only the one that takes the step changes, and it verifies nothing.
<1>2. ASSUME NEW c \in Calls, NEW k, calls' = [calls EXCEPT ![c] = k]
      PROVE  \A d \in Calls : calls'[d] = IF d = c THEN k ELSE calls[d]
  BY <1>2 DEF IInv, TypeInv
<1>3. ASSUME NEW c \in Calls, NEW k, calls' = [calls EXCEPT ![c] = k], k.op # "verify"
      PROVE  VerifiersKnown'
  BY <1>1, <1>2, <1>3 DEF BooksInv, VerifiersKnown
<1>4. /\ Idle.op = "idle"
      /\ \A op, arg, n : Call(op, arg, None, n).op = op
  BY DEF Idle, Call
<1>5. CASE ProposeBranch \/ \E status \in {"ACTIVE", "INACTIVE"} : Update(status)
  <2>1. UNCHANGED <<calls, balance>>
    BY <1>5 DEF ProposeBranch, Update, Money
  <2>2. branch' = branch \/ (Standing /\ branch' \in {"ACTIVE", "INACTIVE"})
    BY <1>5 DEF ProposeBranch, Update
  <2>3. SiteKnown'
    BY <1>1, <2>1, <2>2 DEF BooksInv, SiteKnown, Standing
  <2>4. VerifiersKnown'
    BY <1>1, <2>1 DEF BooksInv, VerifiersKnown
  <2>5. BalanceKnown'
    BY <1>1, <2>1, <2>2 DEF BooksInv, BalanceKnown, Standing, Held
  <2>. QED  BY <2>3, <2>4, <2>5 DEF BooksInv
<1>6. ASSUME NEW c \in Calls, NEW v \in {"APPROVED", "REJECTED"}, DecideBranch(c, v)
      PROVE  BooksInv'
  <2>1. CASE v = "APPROVED"
    <3>1. calls' = [calls EXCEPT ![c] = Call("persist", None, None, 0)] /\ UNCHANGED <<branch, balance>>
      BY <1>6, <2>1 DEF DecideBranch, Enter, Money
    <3>2. Call("persist", None, None, 0).op = "persist"
      BY CallShaped
    <3>. QED  BY <1>1, <3>1, <3>2, PlainBooks
  <2>2. CASE v # "APPROVED"
    <3>1. UNCHANGED <<calls, branch, balance>>
      BY <1>6, <2>2 DEF DecideBranch, Money
    <3>. QED  BY <1>1, <3>1 DEF BooksInv, SiteKnown, VerifiersKnown, BalanceKnown, Standing, Held
  <2>. QED  BY <2>1, <2>2
\* The branch is created: nothing was funded before it, so that its balance,
\* whenever it is opened, owes nothing.
<1>7. ASSUME NEW c \in Calls, PersistBranch(c)
      PROVE  BooksInv'
  <2>1. CASE branch # "ABSENT"
    BY <1>1, <1>4, <1>7, <2>1, PlainBooks DEF PersistBranch, Continue, Money
  <2>2. CASE branch = "ABSENT"
    <3>1. /\ calls' = [calls EXCEPT ![c] = Call("open_balance", None, None, 0)]
          /\ branch' = "ACTIVE" /\ balance' = balance
      BY <1>7, <2>2 DEF PersistBranch, Continue, Money
    <3>a. PICK k : calls' = [calls EXCEPT ![c] = k] /\ k.op = "open_balance"
      <4>1. Call("open_balance", None, None, 0).op = "open_balance"
        BY CallShaped
      <4>. QED  BY <3>1, <4>1
    <3>2. SiteKnown'
      <4>1. \A d \in Calls : calls[d].op # "cascade"
        BY <2>2 DEF BooksInv, SiteKnown
      <4>2. \A d \in Calls : calls'[d].op # "cascade"
        BY <1>2, <3>a, <4>1
      <4>. QED  BY <3>1, <4>2 DEF SiteKnown
    <3>3. VerifiersKnown'
      BY <1>3, <3>a
    <3>4. Verified = {}
      BY <2>2 DEF BooksInv, SiteKnown, Verified
    <3>5. Credit = 0
      BY <3>4, SumEmpty DEF Credit
    <3>6. balance' = None
      BY <2>2, <3>1 DEF BooksInv, SiteKnown
    <3>7. BalanceKnown'
      BY <1>1, <3>5, <3>6 DEF BalanceKnown, Held
    <3>. QED  BY <3>2, <3>3, <3>7 DEF BooksInv
  <2>. QED  BY <2>1, <2>2
<1>8. ASSUME NEW c \in Calls, OpenBalance(c)
      PROVE  BooksInv'
  <2>1. /\ calls' = [calls EXCEPT ![c] = Idle] /\ branch' = branch /\ branch # "ABSENT"
        /\ balance' = IF balance = None THEN 0 ELSE balance
    BY <1>8 DEF OpenBalance, Continue, At, Site, BooksInv, SiteKnown
  <2>2. SiteKnown'
    BY <1>1, <1>2, <1>4, <2>1 DEF BooksInv, SiteKnown
  <2>3. VerifiersKnown'
    BY <1>3, <1>4, <2>1
  <2>4. BalanceKnown'
    BY <1>1, <2>1, BranchConstants DEF BooksInv, BalanceKnown, Standing, Held
  <2>. QED  BY <2>2, <2>3, <2>4 DEF BooksInv
<1>9. ASSUME NEW c \in Calls, DeleteRead(c)
      PROVE  BooksInv'
  <2>1. /\ calls' = [calls EXCEPT ![c] = Call("delete", None, None, 0)]
        /\ UNCHANGED <<branch, balance>> /\ branch # "ABSENT"
    BY <1>9 DEF DeleteRead, Enter, Money, Site, Standing
  <2>2. SiteKnown'
    BY <1>1, <1>2, <1>4, <2>1 DEF BooksInv, SiteKnown
  <2>3. VerifiersKnown'
    BY <1>3, <1>4, <2>1
  <2>4. BalanceKnown'
    BY <1>1, <2>1 DEF BooksInv, BalanceKnown, Standing, Held
  <2>. QED  BY <2>2, <2>3, <2>4 DEF BooksInv
<1>10. ASSUME NEW c \in Calls, DeleteBranch(c)
       PROVE  BooksInv'
  <2>1. /\ calls' = [calls EXCEPT ![c] = Call("cascade", None, None, 0)]
        /\ branch' = "DELETED" /\ balance' = balance
    BY <1>10 DEF DeleteBranch, Continue, Money
  <2>2. SiteKnown'
    BY <1>1, <1>2, <1>4, <2>1 DEF BooksInv, SiteKnown
  <2>3. VerifiersKnown'
    BY <1>3, <1>4, <2>1
  <2>4. BalanceKnown'
    BY <2>1 DEF BooksInv, BalanceKnown, Standing
  <2>. QED  BY <2>2, <2>3, <2>4 DEF BooksInv
<1>11. ASSUME NEW c \in Calls, DeleteBelongings(c)
       PROVE  BooksInv'
  <2>1. /\ calls' = [calls EXCEPT ![c] = Idle] /\ balance' = None
        /\ branch = "DELETED" /\ branch' = "DELETED"
    BY <1>11 DEF DeleteBelongings, Continue, At, Site, BooksInv, SiteKnown
  <2>2. SiteKnown'
    BY <1>1, <1>2, <1>4, <2>1 DEF BooksInv, SiteKnown
  <2>3. VerifiersKnown'
    BY <1>3, <1>4, <2>1
  <2>4. BalanceKnown'
    BY <2>1 DEF BalanceKnown, Standing
  <2>. QED  BY <2>2, <2>3, <2>4 DEF BooksInv
<1>. QED  BY <1>5, <1>6, <1>7, <1>8, <1>9, <1>10, <1>11

-----------------------------------------------------------------------------
\* The managers: whoever is made the manager joins their history.
LEMMA PeopleBooks ==
    ASSUME IInv, BooksInv,
           \/ \E c \in Calls, s \in Staff : ApproveNominee(c, s)
           \/ \E c \in Calls : \/ AssignRead(c) \/ CloseAssignment(c) \/ OpenAssignment(c)
                               \/ MoveStaff(c)
           \/ \E s \in Staff : PostElsewhere(s)
    PROVE  BooksInv'
<1>1. UNCHANGED <<branch, balance, fundings>>
  BY DEF ApproveNominee, AssignRead, CloseAssignment, OpenAssignment, MoveStaff,
     PostElsewhere, Money, Site
<1>2. \A op \in {"assign", "open", "close", "move"} : \A arg, n : Call(op, arg, None, n).op = op
  BY CallShaped
<1>3. ASSUME NEW c \in Calls, NEW s \in Staff, ApproveNominee(c, s)
      PROVE  BooksInv'
  <2>1. PICK k : calls' = [calls EXCEPT ![c] = k] /\ k = Call("assign", s, None, 0)
    BY <1>3 DEF ApproveNominee, Enter
  <2>2. k.op = "assign" /\ UNCHANGED <<manager, managed>>
    BY <1>2, <1>3, <2>1 DEF ApproveNominee, People
  <2>. QED  BY <1>1, <2>1, <2>2, PlainBooks
<1>4. ASSUME NEW c \in Calls, AssignRead(c)
      PROVE  BooksInv'
  <2>1. PICK k : /\ calls' = [calls EXCEPT ![c] = k]
                 /\ \/ k = Call("open", calls[c].arg, None, 0)
                    \/ k = Call("close", calls[c].arg, None, manager.no)
    BY <1>4 DEF AssignRead, Continue
  <2>2. k.op \in {"open", "close"} /\ UNCHANGED <<manager, managed>>
    BY <1>2, <1>4, <2>1 DEF AssignRead, People
  <2>. QED  BY <1>1, <2>1, <2>2, PlainBooks
<1>5. ASSUME NEW c \in Calls, CloseAssignment(c)
      PROVE  BooksInv'
  <2>1. PICK k : calls' = [calls EXCEPT ![c] = k] /\ k = Call("open", calls[c].arg, None, 0)
    BY <1>5 DEF CloseAssignment, Continue
  <2>2. k.op = "open" /\ managed' = managed /\ (manager' = Nobody \/ manager' = manager)
    BY <1>2, <1>5, <2>1 DEF CloseAssignment
  <2>. QED  BY <1>1, <2>1, <2>2, QuietBooks DEF BooksInv, VerifiersKnown
<1>6. ASSUME NEW c \in Calls, OpenAssignment(c)
      PROVE  BooksInv'
  <2>1. PICK k : /\ calls' = [calls EXCEPT ![c] = k]
                 /\ \/ k = Call("move", calls[c].arg, None, 0)
                    \/ k = Idle
    BY <1>6 DEF OpenAssignment, Continue
  <2>2. k.op \in {"move", "idle"}
    BY <1>2, <2>1 DEF Idle, Call
  <2>3. managed \subseteq managed'
    BY <1>6 DEF OpenAssignment
  <2>4. manager' = Nobody \/ manager'.staff \in managed'
    BY <1>6 DEF OpenAssignment, BooksInv, VerifiersKnown
  <2>. QED  BY <1>1, <2>1, <2>2, <2>3, <2>4, QuietBooks
<1>7. ASSUME NEW c \in Calls, MoveStaff(c)
      PROVE  BooksInv'
  <2>1. /\ calls' = [calls EXCEPT ![c] = Idle] /\ UNCHANGED <<manager, managed>>
        /\ Idle.op = "idle"
    BY <1>7 DEF MoveStaff, Continue, Idle, Call
  <2>. QED  BY <1>1, <2>1, PlainBooks
<1>8. ASSUME NEW s \in Staff, PostElsewhere(s)
      PROVE  BooksInv'
  <2>1. UNCHANGED <<manager, managed, calls>>
    BY <1>8 DEF PostElsewhere
  <2>. QED  BY <1>1, <2>1 DEF BooksInv, SiteKnown, VerifiersKnown, BalanceKnown, Verified, Standing,
            Held, Credit
<1>. QED  BY <1>3, <1>4, <1>5, <1>6, <1>7, <1>8

\* The bank accounts, and a call that dies: no part of the books.
LEMMA OtherBooks ==
    ASSUME IInv, BooksInv,
           \/ \E c \in Calls, a \in Accounts, v \in {"yes", "no", "unsaid"} :
                 CreateAccountRead(c, a, v)
           \/ \E c \in Calls, a \in Accounts, v \in BOOLEAN : UpdateAccountRead(c, a, v)
           \/ \E c \in Calls : DeactivateOthers(c) \/ AddAccount(c) \/ SetAccount(c) \/ Abandon(c)
    PROVE  BooksInv'
<1>1. UNCHANGED <<manager, managed, branch, balance, fundings>>
  BY DEF CreateAccountRead, UpdateAccountRead, DeactivateOthers, AddAccount, SetAccount, Abandon,
     People, Money, Site
<1>. DEFINE Steps == {"deactivate", "add", "add_active", "activate", "retire", "idle", "died",
                      "died_inserting"}
<1>2. \A op \in Steps : \A arg, by, n : Call(op, arg, by, n).op = op
  BY CallShaped
<1>3. Idle.op \in Steps /\ Died.op \in Steps /\ DiedInserting.op \in Steps
  BY DEF Idle, Died, DiedInserting, Call
<1>4. ASSUME NEW c \in Calls, NEW k, calls' = [calls EXCEPT ![c] = k], k.op \in Steps
      PROVE  BooksInv'
  BY <1>1, <1>4, PlainBooks
<1>5. ASSUME NEW c \in Calls, NEW a \in Accounts, NEW v \in {"yes", "no", "unsaid"},
             CreateAccountRead(c, a, v)
      PROVE  BooksInv'
  <2>1. PICK k : /\ calls' = [calls EXCEPT ![c] = k]
                 /\ k = Call("deactivate", a, None, 0) \/ k = Call("add", a, None, 0)
    BY <1>5 DEF CreateAccountRead, Enter
  <2>2. k.op \in Steps
    BY <1>2, <2>1
  <2>. QED  BY <1>4, <2>1, <2>2
<1>6. ASSUME NEW c \in Calls, NEW a \in Accounts, NEW v \in BOOLEAN, UpdateAccountRead(c, a, v)
      PROVE  BooksInv'
  <2>1. PICK k : /\ calls' = [calls EXCEPT ![c] = k]
                 /\ k = Call("deactivate", a, None, 1) \/ k = Call("retire", a, None, 1)
    BY <1>6 DEF UpdateAccountRead, Enter
  <2>2. k.op \in Steps
    BY <1>2, <2>1
  <2>. QED  BY <1>4, <2>1, <2>2
<1>7. ASSUME NEW c \in Calls, DeactivateOthers(c)
      PROVE  BooksInv'
  <2>1. PICK op \in {"add_active", "activate"} :
           calls' = [calls EXCEPT ![c] = [calls[c] EXCEPT !.op = op]]
    BY <1>7 DEF DeactivateOthers, Continue
  <2>2. \A o, a, b, n : [Call(o, a, b, n) EXCEPT !.op = op].op = op
    BY DEF Call
  <2>3. [calls[c] EXCEPT !.op = op].op = op
    BY <2>2 DEF IInv, TypeInv, Shaped
  <2>. QED  BY <1>4, <2>1, <2>3
<1>8. ASSUME NEW c \in Calls, AddAccount(c) \/ SetAccount(c)
      PROVE  BooksInv'
  BY <1>3, <1>4, <1>8 DEF AddAccount, SetAccount, Continue
<1>9. ASSUME NEW c \in Calls, Abandon(c)
      PROVE  BooksInv'
  BY <1>3, <1>4, <1>9 DEF Abandon, Continue
<1>. QED  BY <1>5, <1>6, <1>7, <1>8, <1>9

-----------------------------------------------------------------------------
\* A step that ends a call which wrote a funding: what is left to show is how the
\* balance and the fundings went together.
LEMMA WrittenBooks ==
    ASSUME IInv, BooksInv, NEW c \in Calls, calls' = [calls EXCEPT ![c] = Idle],
           UNCHANGED <<branch, manager, managed>>,
           branch # "ABSENT",
           \A f \in Verified' : fundings'[f].by \in managed,
           balance' \in Nat \union {None},
           Standing => Held' = Credit'
    PROVE  BooksInv'
<1>1. \A d \in Calls : calls'[d] = IF d = c THEN Idle ELSE calls[d]
  BY DEF IInv, TypeInv
<1>2. Idle.op = "idle"
  BY DEF Idle, Call
<1>3. SiteKnown'
  BY <1>1, <1>2 DEF BooksInv, SiteKnown
<1>4. VerifiersKnown'
  BY <1>1, <1>2 DEF BooksInv, VerifiersKnown
<1>5. BalanceKnown'
  BY DEF BalanceKnown, Standing
<1>. QED  BY <1>3, <1>4, <1>5 DEF BooksInv

\* The fundings: a verification adds its funding to the sum and to the balance
\* at once; nothing else moves either.
LEMMA FundingBooks ==
    ASSUME IInv, BooksInv,
           \/ \E c \in Calls, a \in Accounts, n \in Amounts : RecordRead(c, a, n)
           \/ \E c \in Calls, f \in Fundings : RecordFunding(c, f)
           \/ \E c \in Calls, f \in Fundings, s \in Staff, v \in {"verify", "reject"} :
                 DecideFundingRead(c, f, s, v)
           \/ \E c \in Calls : VerifyFunding(c) \/ RejectFunding(c) \/ WriteDispute(c)
           \/ \E c \in Calls, f \in Fundings, s \in Staff : DisputeRead(c, f, s)
           \/ \E c \in Calls, f \in Fundings : ResolveDisputeRead(c, f)
    PROVE  BooksInv'
<1>1. UNCHANGED <<branch, manager, managed>>
  BY DEF RecordRead, RecordFunding, DecideFundingRead, VerifyFunding, RejectFunding,
     WriteDispute, DisputeRead, ResolveDisputeRead, People, Site
<1>2. fundings' \in [Fundings -> FundingType]
  BY FundingInv DEF IInv, TypeInv
<1>3. \A op, arg, by, n : Call(op, arg, by, n).op = op /\ Call(op, arg, by, n).by = by
  BY CallShaped
<1>4. ASSUME NEW c \in Calls, NEW a \in Accounts, NEW n \in Amounts, RecordRead(c, a, n)
      PROVE  BooksInv'
  <2>1. PICK k : calls' = [calls EXCEPT ![c] = k] /\ k = Call("record", None, None, n)
    BY <1>4 DEF RecordRead, Enter
  <2>2. k.op = "record"
    BY <1>3, <2>1
  <2>3. UNCHANGED <<balance, fundings>> /\ branch # "ABSENT"
    BY <1>4 DEF RecordRead, Money
  <2>. QED  BY <1>1, <2>1, <2>2, <2>3, QuietBooks DEF BooksInv, VerifiersKnown
<1>5. ASSUME NEW c \in Calls, NEW f \in Fundings, NEW s \in Staff,
             NEW v \in {"verify", "reject"}, DecideFundingRead(c, f, s, v)
      PROVE  BooksInv'
  <2>1. PICK k : calls' = [calls EXCEPT ![c] = k] /\ k = Call(v, f, s, 0)
    BY <1>5 DEF DecideFundingRead, Enter
  <2>2. k.op = v /\ k.by = s
    BY <1>3, <2>1
  <2>3. UNCHANGED <<balance, fundings>> /\ s \in managed
    BY <1>5 DEF DecideFundingRead, Money, MayDecide, BooksInv, VerifiersKnown
  <2>. QED  BY <1>1, <2>1, <2>2, <2>3, QuietBooks DEF BooksInv, VerifiersKnown
<1>6. ASSUME NEW c \in Calls, NEW f \in Fundings,
             \/ \E s \in Staff : DisputeRead(c, f, s)
             \/ ResolveDisputeRead(c, f)
      PROVE  BooksInv'
  <2>1. PICK k : /\ calls' = [calls EXCEPT ![c] = k]
                 /\ \/ \E s \in Staff : k = Call("dispute", f, s, 0)
                    \/ k = Call("resolve", f, None, 0)
    BY <1>6 DEF DisputeRead, ResolveDisputeRead, Enter
  <2>2. k.op \in {"dispute", "resolve"}
    BY <1>3, <2>1
  <2>3. UNCHANGED <<balance, fundings>>
    BY <1>6 DEF DisputeRead, ResolveDisputeRead, Money
  <2>. QED  BY <1>1, <2>1, <2>2, <2>3, PlainBooks
<1>7. ASSUME NEW c \in Calls, NEW f \in Fundings, RecordFunding(c, f)
      PROVE  BooksInv'
  <2>1. calls' = [calls EXCEPT ![c] = Idle] /\ balance' = balance /\ branch # "ABSENT"
    BY <1>7 DEF RecordFunding, Continue, At, BooksInv, SiteKnown
  <2>2. /\ fundings[f].status # "VERIFIED" /\ fundings'[f].status # "VERIFIED"
        /\ \A g \in Fundings \ {f} : fundings'[g] = fundings[g]
    BY <1>7 DEF RecordFunding, Unused, IInv, TypeInv
  <2>3. Credit' = Credit /\ Verified' = Verified
    BY <1>2, <2>2, CreditSame
  <2>4. \A g \in Verified' : fundings'[g].by \in managed
    BY <2>2, <2>3 DEF BooksInv, VerifiersKnown, Verified
  <2>. QED  BY <1>1, <2>1, <2>3, <2>4, WrittenBooks DEF BooksInv, BalanceKnown, Held
<1>8. ASSUME NEW c \in Calls, VerifyFunding(c) \/ RejectFunding(c)
      PROVE  BooksInv'
  <2>1. PICK f \in Fundings : f = calls[c].arg
    BY <1>8 DEF VerifyFunding, RejectFunding, At, IInv, TypeInv, Shaped
  <2>2. calls' = [calls EXCEPT ![c] = Idle] /\ Idle.op = "idle"
    BY <1>8 DEF VerifyFunding, RejectFunding, Continue, Idle, Call
  <2>3. CASE ~IsPending(f)
    <3>1. UNCHANGED <<balance, fundings>>
      BY <1>8, <2>1, <2>3 DEF VerifyFunding, RejectFunding, Money
    <3>. QED  BY <1>1, <2>2, <3>1, PlainBooks
  <2>4. CASE VerifyFunding(c) /\ IsPending(f)
    <3>1. PICK k : k = fundings[f] /\ k \in FundingType
      BY DEF IInv, TypeInv
    <3>2. /\ fundings' = [fundings EXCEPT ![f] = [k EXCEPT !.status = "VERIFIED", !.by = calls[c].by]]
          /\ balance' = Held + k.amount
      BY <2>1, <2>4, <3>1 DEF VerifyFunding, IInv, TypeInv
    <3>3. /\ fundings'[f] = [k EXCEPT !.status = "VERIFIED", !.by = calls[c].by]
          /\ \A g \in Fundings \ {f} : fundings'[g] = fundings[g]
      BY <3>2 DEF IInv, TypeInv
    <3>4. /\ fundings'[f].status = "VERIFIED" /\ fundings'[f].amount = fundings[f].amount
          /\ fundings'[f].by = calls[c].by
      BY <3>1, <3>3 DEF FundingType
    <3>5. fundings[f].status = "PENDING_VERIFICATION" /\ fundings[f].status # "VERIFIED"
      BY <2>4 DEF IsPending
    <3>6. /\ Credit \in Nat /\ Credit' = Credit + fundings[f].amount
          /\ Verified' = Verified \union {f}
      BY <1>2, <3>3, <3>4, <3>5, CreditMore
    <3>7. branch # "ABSENT" /\ calls[c].by \in managed
      BY <2>4, <3>5 DEF BooksInv, SiteKnown, VerifiersKnown, VerifyFunding, At
    <3>8. \A g \in Verified' : fundings'[g].by \in managed
      <4>1. ASSUME NEW g \in Verified', g # f
            PROVE  fundings'[g].by \in managed
        BY <3>3, <3>6, <4>1 DEF BooksInv, VerifiersKnown, Verified
      <4>. QED  BY <3>4, <3>7, <4>1
    <3>9. Held \in Nat /\ k.amount \in Nat
      <4>1. Held \in Nat
        BY DEF BooksInv, BalanceKnown, Held
      <4>2. k.amount \in Amounts \union {0}
        BY <3>1 DEF FundingType
      <4>3. Amounts \subseteq Nat
        BY BranchConstants
      <4>4. k.amount \in Nat
        <5>1. CASE k.amount = 0
          BY <5>1
        <5>2. CASE k.amount \in Amounts
          BY <4>3, <5>2
        <5>. QED  BY <4>2, <5>1, <5>2
      <4>. QED  BY <4>1, <4>4
    <3>10. balance' \in Nat /\ Held' = Held + k.amount
      BY <3>2, <3>9, BranchConstants DEF Held
    <3>11. Standing => Held' = Credit'
      BY <3>1, <3>6, <3>10 DEF BooksInv, BalanceKnown
    <3>. QED  BY <1>1, <2>2, <3>7, <3>8, <3>10, <3>11, WrittenBooks
  <2>5. CASE RejectFunding(c) /\ IsPending(f)
    <3>1. PICK k : k = fundings[f] /\ k \in FundingType
      BY DEF IInv, TypeInv
    <3>2. fundings' = [fundings EXCEPT ![f] = [k EXCEPT !.status = "REJECTED"]] /\ balance' = balance
      BY <2>1, <2>5, <3>1 DEF RejectFunding, IInv, TypeInv
    <3>3. /\ fundings'[f] = [k EXCEPT !.status = "REJECTED"]
          /\ \A g \in Fundings \ {f} : fundings'[g] = fundings[g]
      BY <3>2 DEF IInv, TypeInv
    <3>4. fundings'[f].status # "VERIFIED" /\ fundings[f].status # "VERIFIED"
      BY <2>5, <3>1, <3>3 DEF FundingType, IsPending
    <3>5. Credit' = Credit /\ Verified' = Verified
      BY <1>2, <3>3, <3>4, CreditSame
    <3>6. branch # "ABSENT"
      BY <2>5 DEF BooksInv, SiteKnown, IsPending
    <3>7. \A g \in Verified' : fundings'[g].by \in managed
      BY <3>3, <3>4, <3>5 DEF BooksInv, VerifiersKnown, Verified
    <3>. QED  BY <1>1, <2>2, <3>2, <3>5, <3>6, <3>7, WrittenBooks DEF BooksInv, BalanceKnown, Held
  <2>. QED  BY <1>8, <2>3, <2>4, <2>5
<1>9. ASSUME NEW c \in Calls, WriteDispute(c)
      PROVE  BooksInv'
  <2>1. PICK f \in Fundings : f = calls[c].arg
    BY <1>9 DEF WriteDispute, IInv, TypeInv, Shaped
  <2>2. PICK d \in {"OPEN", "RESOLVED"} : fundings' = [fundings EXCEPT ![f].dispute = d]
    BY <1>9, <2>1 DEF WriteDispute
  <2>3. PICK k : k = fundings[f] /\ k \in FundingType
    BY DEF IInv, TypeInv
  <2>4. fundings'[f] = [k EXCEPT !.dispute = d] /\ \A g \in Fundings \ {f} : fundings'[g] = fundings[g]
    BY <2>2, <2>3 DEF IInv, TypeInv
  <2>5. /\ fundings'[f].status = fundings[f].status /\ fundings'[f].amount = fundings[f].amount
        /\ fundings'[f].by = fundings[f].by
    BY <2>3, <2>4 DEF FundingType
  <2>6. \A g \in Fundings : /\ fundings'[g].status = fundings[g].status
                            /\ fundings'[g].amount = fundings[g].amount
                            /\ fundings'[g].by = fundings[g].by
    BY <2>4, <2>5
  <2>7. Credit' = Credit /\ Verified' = Verified
    BY <1>2, <2>6, CreditSame
  <2>8. /\ calls' = [calls EXCEPT ![c] = Idle] /\ balance' = balance
        /\ Idle.op = "idle"
    BY <1>9 DEF WriteDispute, Continue, Idle, Call
  <2>9. \A e \in Calls : calls'[e] = IF e = c THEN Idle ELSE calls[e]
    BY <2>8 DEF IInv, TypeInv
  <2>10. SiteKnown'
    BY <1>1, <2>6, <2>8, <2>9 DEF BooksInv, SiteKnown
  <2>11. VerifiersKnown'
    BY <1>1, <2>6, <2>7, <2>8, <2>9 DEF BooksInv, VerifiersKnown, Verified
  <2>12. BalanceKnown'
    BY <1>1, <2>7, <2>8 DEF BooksInv, BalanceKnown, Standing, Held
  <2>. QED  BY <2>10, <2>11, <2>12 DEF BooksInv
<1>. QED  BY <1>4, <1>5, <1>6, <1>7, <1>8, <1>9

LEMMA NextBooks == IInv /\ BooksInv /\ [Next]_vars => BooksInv'
<1>. SUFFICES ASSUME IInv, BooksInv, [Next]_vars PROVE BooksInv'
  OBVIOUS
<1>1. CASE UNCHANGED vars
  BY <1>1 DEF vars, BooksInv, SiteKnown, VerifiersKnown, BalanceKnown, Verified, Standing, Held, Credit
<1>2. CASE Next
  BY <1>2, SiteBooks, PeopleBooks, OtherBooks, FundingBooks DEF Next
<1>. QED  BY <1>1, <1>2

-----------------------------------------------------------------------------
\* A branch that has had a manager is without one only while a call that inserts
\* the next assignment is in flight, or after it died (applyAssignment).
THEOREM ManagersAreReplaced == Spec => []ManagerIsReplaced
<1>1. IInv /\ [Next]_vars => IInv'
  BY NextInv
<1>. QED  BY <1>1, InitInv, PTL DEF Spec, IInv

\* A decision on a funding stands: no later decision, dispute or retry changes
\* its status or its verifier (verifyFunding, rejectFunding).
THEOREM DecisionsStand == Spec => DecisionStands
<1>1. IInv /\ [Next]_vars => IInv'
  BY NextInv
<1>2. IInv /\ [Next]_vars =>
         [\A f \in Fundings : fundings[f].status \in {"VERIFIED", "REJECTED"} =>
             /\ fundings'[f].status = fundings[f].status
             /\ fundings'[f].by = fundings[f].by]_vars
  BY NextInv DEF Stands
<1>. QED  BY <1>1, <1>2, InitInv, PTL DEF Spec, DecisionStands

\* The balance of a standing branch is what its verified fundings add up to, and
\* only somebody who has been its manager ever verified one, whenever the balance
\* document is created and whatever calls interleave or die (verifyFunding,
\* handleBranchCreated, deleteBranch).
THEOREM FundingsAreCreditedOnce == Spec => []CreditedOnce
<1>1. IInv /\ [Next]_vars => IInv'
  BY NextInv
<1>2. BooksInv => CreditedOnce
  BY DEF BooksInv, VerifiersKnown, BalanceKnown, CreditedOnce
<1>. QED  BY <1>1, <1>2, InitInv, InitBooks, NextBooks, PTL DEF Spec

-----------------------------------------------------------------------------
(* The catalogue *)

Freqs == {"ONE_TIME", "RECURRING"}
FeeType == [calc : {"ABSENT", "FIXED", "PERCENTAGE"}, basis : {"NULL", "SET"},
            freq : Freqs, interval : {"NULL", "SET"}]
FeeChanges == [calc : {"ABSENT", "FIXED", "PERCENTAGE", "KEEP"}, basis : {"NULL", "SET", "KEEP"},
               freq : Freqs \union {"KEEP"}, interval : {"NULL", "SET", "KEEP"}]
ProductType == [steps : Shapes \union {"ABSENT"}, terms : AllTerms \union {"ABSENT"}]
ProductChanges == [steps : Shapes \union {"KEEP"}, terms : AllTerms \union {"KEEP"}]

ProductOps == {"product_create", "product_update", "register"}
ConfigOps == {"config", "activate"}
CatalogueOps == {"idle", "died", "fee_create", "fee_update"} \union ProductOps \union ConfigOps

Approval == [op : CatalogueOps, request : Requests \union {NoRequestId},
             steps : Shapes \union {"ABSENT", "KEEP"}]
RequestType == [kind : {"NONE", "fee_create", "fee_update", "product_create", "product_update",
                        "config"},
                status : {"ABSENT", "OPEN", "APPROVED", "CLOSED"},
                payload : FeeChanges \union ProductChanges]

CatalogueTypeInv ==
    /\ fee \in FeeType
    /\ product \in ProductType
    /\ configs \in [Requests -> {"ABSENT", "ACTIVE", "INACTIVE"}]
    /\ requests \in [Requests -> RequestType]
    /\ catalogueCalls \in [CatalogueCalls -> Approval]
    /\ disturbed \in BOOLEAN

\* An interval goes with RECURRING and with nothing else.
Regular(f) == f.freq = "RECURRING" <=> f.interval = "SET"

\* What a request will write: both fields of the frequency or neither.
PayloadFits(q) ==
    /\ q.kind = "NONE" => q.status = "ABSENT"
    /\ q.kind = "fee_create" => q.payload \in FeeType /\ Regular(q.payload)
    /\ q.kind = "fee_update" =>
          /\ q.payload \in FeeChanges
          /\ \/ q.payload.freq = "KEEP" /\ q.payload.interval = "KEEP"
             \/ q.payload.freq \in Freqs /\ q.payload.interval # "KEEP" /\ Regular(q.payload)
    /\ q.kind = "product_create" => q.payload \in ProductType
    /\ q.kind = "product_update" => q.payload \in ProductChanges

Busy(c) == catalogueCalls[c].op # "idle"
KindOf(c) == requests[catalogueCalls[c].request].kind

\* The op of a call and the kind of the request that it handles.
OpFits(k) ==
    k.op # "idle" =>
       /\ k.request \in Requests
       /\ requests[k.request].status = "APPROVED"
       /\ k.op \in {"fee_create", "fee_update"} => requests[k.request].kind = k.op
       /\ k.op \in ProductOps => Family(requests[k.request].kind) = "product"
       /\ k.op \in {"product_create", "product_update"} => requests[k.request].kind = k.op
       /\ k.op \in ConfigOps => Family(requests[k.request].kind) = "config"

PayloadsInv ==
    /\ \A r \in Requests : PayloadFits(requests[r])
    /\ \A c \in CatalogueCalls : OpFits(catalogueCalls[c])
    /\ Regular(fee)

\* While nothing was disturbed: one approval of a family at a time, each handled
\* to its end.
QuietInv ==
    ~disturbed =>
       /\ \A c \in CatalogueCalls : catalogueCalls[c].op # "died"
       /\ \A c, d \in CatalogueCalls :
             c # d /\ Busy(c) /\ Busy(d) => Family(KindOf(c)) # Family(KindOf(d))

ChainInv ==
    ~disturbed =>
       /\ \A c \in CatalogueCalls : CatalogueAt(c, "register") =>
             catalogueCalls[c].steps = product.steps
       /\ (\A c \in CatalogueCalls : ~CatalogueAt(c, "register")) => chain = product.steps

ActiveInv ==
    ~disturbed =>
       /\ \A c \in CatalogueCalls : CatalogueAt(c, "activate") => Active = {}
       /\ (\A c \in CatalogueCalls : ~CatalogueAt(c, "activate")) =>
             \A r \in Requests : configs[r] # "ABSENT" => \E o \in Requests : Active = {o}

CatalogueIInv ==
    /\ CatalogueTypeInv
    /\ PayloadsInv
    /\ QuietInv
    /\ ChainInv
    /\ ActiveInv

-----------------------------------------------------------------------------
LEMMA CatalogueIdleFields ==
    /\ CatalogueIdle \in Approval
    /\ CatalogueIdle.op = "idle"
BY DEF CatalogueIdle, CatalogueCall, Approval, CatalogueOps

LEMMA CatalogueCallStep ==
    ASSUME CatalogueTypeInv, NEW c \in CatalogueCalls, NEW k, CatalogueContinue(c, k)
    PROVE  /\ \A d \in CatalogueCalls : catalogueCalls'[d] = IF d = c THEN k ELSE catalogueCalls[d]
           /\ k \in Approval => catalogueCalls' \in [CatalogueCalls -> Approval]
BY DEF CatalogueTypeInv, CatalogueContinue

\* A handler that goes on to its next step.
LEMMA StepOnly ==
    ASSUME CatalogueTypeInv, NEW c \in CatalogueCalls, NEW op \in CatalogueOps,
           CatalogueContinue(c, [catalogueCalls[c] EXCEPT !.op = op])
    PROVE  \E k \in Approval : /\ CatalogueContinue(c, k)
                               /\ k.op = op /\ k.request = catalogueCalls[c].request
<1>1. PICK b \in Approval : b = catalogueCalls[c]
  BY DEF CatalogueTypeInv
<1>2. PICK k : k = [b EXCEPT !.op = op]
  OBVIOUS
<1>3. k \in Approval /\ k.op = op /\ k.request = b.request
  BY <1>2 DEF Approval
<1>4. CatalogueContinue(c, k)
  BY <1>1, <1>2
<1>. QED  BY <1>1, <1>3, <1>4

LEMMA SetFee ==
    ASSUME NEW doc \in FeeType, NEW changes \in FeeChanges
    PROVE  /\ SetFields(doc, changes) \in FeeType
           /\ SetFields(doc, changes).freq = IF Given(changes.freq) THEN changes.freq ELSE doc.freq
           /\ SetFields(doc, changes).interval =
                 IF Given(changes.interval) THEN changes.interval ELSE doc.interval
<1>1. DOMAIN doc = {"calc", "basis", "freq", "interval"}
  BY DEF FeeType
<1>2. PICK new : new = [f \in {"calc", "basis", "freq", "interval"} |->
                           IF Given(changes[f]) THEN changes[f] ELSE doc[f]]
  OBVIOUS
<1>3. new = [calc |-> new.calc, basis |-> new.basis, freq |-> new.freq, interval |-> new.interval]
  BY <1>2
<1>4. /\ new.calc \in {"ABSENT", "FIXED", "PERCENTAGE"} /\ new.basis \in {"NULL", "SET"}
      /\ new.freq \in Freqs /\ new.interval \in {"NULL", "SET"}
  BY <1>2 DEF FeeType, FeeChanges, Given
<1>5. new \in FeeType
  BY <1>3, <1>4 DEF FeeType
<1>. QED  BY <1>1, <1>2, <1>5 DEF SetFields

LEMMA SetProduct ==
    ASSUME NEW doc \in ProductType, NEW changes \in ProductChanges
    PROVE  SetFields(doc, changes) \in ProductType
<1>1. DOMAIN doc = {"steps", "terms"}
  BY DEF ProductType
<1>2. PICK new : new = [f \in {"steps", "terms"} |->
                           IF Given(changes[f]) THEN changes[f] ELSE doc[f]]
  OBVIOUS
<1>3. new = [steps |-> new.steps, terms |-> new.terms]
  BY <1>2
<1>4. new.steps \in Shapes \union {"ABSENT"} /\ new.terms \in AllTerms \union {"ABSENT"}
  BY <1>2 DEF ProductType, ProductChanges, Given
<1>5. new \in ProductType
  BY <1>3, <1>4 DEF ProductType
<1>. QED  BY <1>1, <1>2, <1>5 DEF SetFields

LEMMA ChainKept ==
    ASSUME ChainInv, UNCHANGED <<product, chain>>, disturbed => disturbed',
           \A c \in CatalogueCalls :
              /\ CatalogueAt(c, "register")' <=> CatalogueAt(c, "register")
              /\ CatalogueAt(c, "register") => catalogueCalls'[c] = catalogueCalls[c]
    PROVE  ChainInv'
BY DEF ChainInv

LEMMA ActiveKept ==
    ASSUME ActiveInv, UNCHANGED configs, disturbed => disturbed',
           \A c \in CatalogueCalls : CatalogueAt(c, "activate")' <=> CatalogueAt(c, "activate")
    PROVE  ActiveInv'
BY DEF ActiveInv, Active

\* A handler at work: the request it handles and the other calls stay as they are.
LEMMA HandlerStep ==
    ASSUME CatalogueIInv, NEW c \in CatalogueCalls, Busy(c), NEW k \in Approval,
           CatalogueContinue(c, k), k.op # "died",
           k.op = "idle" \/ (k.request = catalogueCalls[c].request /\ OpFits(k)),
           UNCHANGED <<requests, disturbed>>
    PROVE  /\ catalogueCalls' \in [CatalogueCalls -> Approval]
           /\ \A d \in CatalogueCalls : catalogueCalls'[d] = IF d = c THEN k ELSE catalogueCalls[d]
           /\ \A d \in CatalogueCalls : OpFits(catalogueCalls[d])'
           /\ \A r \in Requests : PayloadFits(requests[r])'
           /\ QuietInv'
<1>. USE DEF CatalogueIInv
<1>1. /\ \A d \in CatalogueCalls : catalogueCalls'[d] = IF d = c THEN k ELSE catalogueCalls[d]
      /\ catalogueCalls' \in [CatalogueCalls -> Approval]
  BY CatalogueCallStep
<1>2. \A d \in CatalogueCalls : OpFits(catalogueCalls[d])'
  BY <1>1 DEF PayloadsInv, OpFits
<1>3. \A r \in Requests : PayloadFits(requests[r])'
  BY DEF PayloadsInv, PayloadFits
<1>4. \A d \in CatalogueCalls : Busy(d)' => Busy(d) /\ KindOf(d)' = KindOf(d)
  BY <1>1 DEF Busy, KindOf
<1>5. QuietInv'
  BY <1>1, <1>4 DEF QuietInv
<1>. QED  BY <1>1, <1>2, <1>3, <1>5

LEMMA CreateFeeInv ==
    ASSUME CatalogueIInv, NEW c \in CatalogueCalls, CreateFee(c) \/ UpdateFee(c)
    PROVE  CatalogueIInv'
<1>. USE DEF CatalogueIInv
<1>. DEFINE q == requests[catalogueCalls[c].request]
<1>1. /\ catalogueCalls[c].op \in {"fee_create", "fee_update"} /\ Busy(c)
      /\ CatalogueContinue(c, CatalogueIdle)
      /\ UNCHANGED <<product, chain, configs, requests, disturbed>>
  BY DEF CreateFee, UpdateFee, CatalogueAt, Busy
<1>2. /\ catalogueCalls' \in [CatalogueCalls -> Approval]
      /\ \A d \in CatalogueCalls : OpFits(catalogueCalls[d])'
      /\ \A r \in Requests : PayloadFits(requests[r])'
      /\ QuietInv'
  BY <1>1, HandlerStep, CatalogueIdleFields
<1>3. \A d \in CatalogueCalls :
         catalogueCalls'[d] = IF d = c THEN CatalogueIdle ELSE catalogueCalls[d]
  BY <1>1, CatalogueCallStep
<1>4. q.kind = catalogueCalls[c].op /\ PayloadFits(q)
  BY <1>1 DEF PayloadsInv, OpFits
<1>5. fee' \in FeeType /\ Regular(fee')
  <2>1. CASE CreateFee(c)
    BY <1>4, <2>1 DEF CreateFee, CatalogueAt, Payload, PayloadFits
  <2>2. CASE UpdateFee(c)
    <3>1. catalogueCalls[c].op = "fee_update"
      BY <2>2 DEF UpdateFee, CatalogueAt
    <3>2. PICK changes : changes = q.payload
      OBVIOUS
    <3>3. /\ changes \in FeeChanges
          /\ \/ changes.freq = "KEEP" /\ changes.interval = "KEEP"
             \/ changes.freq \in Freqs /\ changes.interval # "KEEP" /\ Regular(changes)
      BY <1>4, <3>1, <3>2 DEF PayloadFits
    <3>4. fee \in FeeType /\ Regular(fee) /\ fee' = SetFields(fee, changes)
      BY <2>2, <3>2 DEF UpdateFee, Payload, CatalogueTypeInv, PayloadsInv
    <3>. QED  BY <3>3, <3>4, SetFee DEF Regular, Given, Freqs
  <2>. QED  BY <2>1, <2>2
<1>6. \A d \in CatalogueCalls, op \in {"register", "activate"} :
         /\ CatalogueAt(d, op)' <=> CatalogueAt(d, op)
         /\ CatalogueAt(d, op) => catalogueCalls'[d] = catalogueCalls[d]
  BY <1>1, <1>3, CatalogueIdleFields DEF CatalogueAt
<1>7. ChainInv' /\ ActiveInv'
  BY <1>1, <1>6, ChainKept, ActiveKept
<1>8. CatalogueTypeInv'
  BY <1>1, <1>2, <1>5 DEF CatalogueTypeInv
<1>9. PayloadsInv'
  BY <1>2, <1>5 DEF PayloadsInv, Regular
<1>. QED  BY <1>2, <1>7, <1>8, <1>9
\* Undisturbed, the handler of a product has no rival, nor has one of a record.
LEMMA Alone ==
    ASSUME CatalogueIInv, ~disturbed, NEW c \in CatalogueCalls, NEW d \in CatalogueCalls, c # d
    PROVE  /\ catalogueCalls[c].op \in ProductOps => catalogueCalls[d].op \notin ProductOps
           /\ catalogueCalls[c].op \in ConfigOps => catalogueCalls[d].op \notin ConfigOps
<1>1. \A e \in CatalogueCalls :
         /\ catalogueCalls[e].op \in ProductOps => Busy(e) /\ Family(KindOf(e)) = "product"
         /\ catalogueCalls[e].op \in ConfigOps => Busy(e) /\ Family(KindOf(e)) = "config"
  BY DEF CatalogueIInv, PayloadsInv, OpFits, ProductOps, ConfigOps, Busy, KindOf
<1>2. Busy(c) /\ Busy(d) => Family(KindOf(c)) # Family(KindOf(d))
  BY DEF CatalogueIInv, QuietInv
<1>. QED  BY <1>1, <1>2

LEMMA WriteProductInv ==
    ASSUME CatalogueIInv, NEW c \in CatalogueCalls, CreateProduct(c) \/ UpdateProduct(c)
    PROVE  CatalogueIInv'
<1>. USE DEF CatalogueIInv
<1>. DEFINE q == requests[catalogueCalls[c].request]
<1>1. /\ catalogueCalls[c].op \in {"product_create", "product_update"} /\ Busy(c)
      /\ UNCHANGED <<fee, chain, configs, requests, disturbed>>
  BY DEF CreateProduct, UpdateProduct, CatalogueAt, Busy
<1>2. q.kind = catalogueCalls[c].op /\ PayloadFits(q) /\ OpFits(catalogueCalls[c])
  BY <1>1 DEF PayloadsInv, OpFits
<1>3. /\ product' \in ProductType
      /\ \E steps \in Shapes \union {"ABSENT", "KEEP"} :
            /\ Register(c, steps)
            /\ steps = product'.steps
  <2>1. CASE CreateProduct(c)
    <3>1. product' = q.payload /\ q.payload \in ProductType /\ Register(c, q.payload.steps)
      BY <1>2, <2>1 DEF CreateProduct, CatalogueAt, Payload, PayloadFits
    <3>2. q.payload.steps \in Shapes \union {"ABSENT"}
      BY <3>1 DEF ProductType
    <3>. QED  BY <3>1, <3>2
  <2>2. CASE UpdateProduct(c)
    <3>1. /\ product' = SetFields(product, q.payload) /\ q.payload \in ProductChanges
          /\ Register(c, product'.steps)
      BY <1>2, <2>2 DEF UpdateProduct, CatalogueAt, Payload, PayloadFits
    <3>2. product' \in ProductType
      BY <3>1, SetProduct DEF CatalogueTypeInv
    <3>3. product'.steps \in Shapes \union {"ABSENT"}
      BY <3>2 DEF ProductType
    <3>. QED  BY <3>1, <3>2, <3>3
  <2>. QED  BY <1>1, <2>1, <2>2
<1>4. PICK k \in Approval :
         /\ CatalogueContinue(c, k) /\ k.op = "register" /\ k.steps = product'.steps
         /\ k.request = catalogueCalls[c].request
  <2>1. PICK steps \in Shapes \union {"ABSENT", "KEEP"} : Register(c, steps) /\ steps = product'.steps
    BY <1>3
  <2>2. "register" \in CatalogueOps
    BY DEF CatalogueOps, ProductOps
  <2>3. PICK b \in Approval : b = catalogueCalls[c]
    BY DEF CatalogueTypeInv
  <2>4. PICK k : k = [b EXCEPT !.op = "register", !.steps = steps]
    OBVIOUS
  <2>5. k \in Approval /\ k.op = "register" /\ k.steps = steps /\ k.request = b.request
    BY <2>2, <2>4 DEF Approval
  <2>6. CatalogueContinue(c, k)
    BY <2>1, <2>3, <2>4 DEF Register
  <2>. QED  BY <2>1, <2>3, <2>5, <2>6
<1>5. OpFits(k)
  BY <1>1, <1>2, <1>4 DEF OpFits, ProductOps, ConfigOps
<1>6. /\ catalogueCalls' \in [CatalogueCalls -> Approval]
      /\ \A d \in CatalogueCalls : OpFits(catalogueCalls[d])'
      /\ \A r \in Requests : PayloadFits(requests[r])'
      /\ QuietInv'
  BY <1>1, <1>4, <1>5, HandlerStep
<1>7. \A d \in CatalogueCalls : catalogueCalls'[d] = IF d = c THEN k ELSE catalogueCalls[d]
  BY <1>4, CatalogueCallStep
<1>8. ChainInv'
  <2>1. ASSUME ~disturbed, NEW d \in CatalogueCalls, d # c
        PROVE  ~CatalogueAt(d, "register")'
    BY <1>1, <1>7, <2>1, Alone DEF CatalogueAt, ProductOps
  <2>. QED  BY <1>1, <1>4, <1>7, <2>1 DEF ChainInv, CatalogueAt
<1>9. ActiveInv'
  <2>1. \A d \in CatalogueCalls : CatalogueAt(d, "activate")' <=> CatalogueAt(d, "activate")
    BY <1>1, <1>4, <1>7 DEF CatalogueAt
  <2>. QED  BY <1>1, <2>1, ActiveKept
<1>10. CatalogueTypeInv'
  BY <1>1, <1>3, <1>6 DEF CatalogueTypeInv
<1>11. PayloadsInv'
  BY <1>1, <1>6 DEF PayloadsInv, Regular
<1>. QED  BY <1>6, <1>8, <1>9, <1>10, <1>11

LEMMA RegisterChainInv ==
    ASSUME CatalogueIInv, NEW c \in CatalogueCalls, RegisterChain(c)
    PROVE  CatalogueIInv'
<1>. USE DEF CatalogueIInv
<1>1. /\ catalogueCalls[c].op = "register" /\ Busy(c)
      /\ chain' = catalogueCalls[c].steps
      /\ CatalogueContinue(c, CatalogueIdle)
      /\ UNCHANGED <<fee, product, configs, requests, disturbed>>
  BY DEF RegisterChain, CatalogueAt, Busy
<1>2. /\ catalogueCalls' \in [CatalogueCalls -> Approval]
      /\ \A d \in CatalogueCalls : OpFits(catalogueCalls[d])'
      /\ \A r \in Requests : PayloadFits(requests[r])'
      /\ QuietInv'
  BY <1>1, HandlerStep, CatalogueIdleFields
<1>3. \A d \in CatalogueCalls :
         catalogueCalls'[d] = IF d = c THEN CatalogueIdle ELSE catalogueCalls[d]
  BY <1>1, CatalogueCallStep
<1>4. ChainInv'
  <2>1. ~disturbed => catalogueCalls[c].steps = product.steps
    BY <1>1 DEF ChainInv, CatalogueAt
  <2>2. ASSUME ~disturbed, NEW d \in CatalogueCalls
        PROVE  ~CatalogueAt(d, "register")'
    BY <1>1, <1>3, <2>2, Alone, CatalogueIdleFields DEF CatalogueAt, ProductOps
  <2>. QED  BY <1>1, <2>1, <2>2 DEF ChainInv
<1>5. ActiveInv'
  <2>1. \A d \in CatalogueCalls : CatalogueAt(d, "activate")' <=> CatalogueAt(d, "activate")
    BY <1>1, <1>3, CatalogueIdleFields DEF CatalogueAt
  <2>. QED  BY <1>1, <2>1, ActiveKept
<1>6. CatalogueTypeInv'
  BY <1>1, <1>2 DEF CatalogueTypeInv
<1>7. PayloadsInv'
  BY <1>1, <1>2 DEF PayloadsInv, Regular
<1>. QED  BY <1>2, <1>4, <1>5, <1>6, <1>7

LEMMA RetireActiveInv ==
    ASSUME CatalogueIInv, NEW c \in CatalogueCalls, RetireActive(c)
    PROVE  CatalogueIInv'
<1>. USE DEF CatalogueIInv
<1>1. /\ catalogueCalls[c].op = "config" /\ Busy(c)
      /\ configs' = Retired
      /\ UNCHANGED <<fee, product, chain, requests, disturbed>>
  BY DEF RetireActive, CatalogueAt, Busy
<1>2. PICK k \in Approval :
         /\ CatalogueContinue(c, k) /\ k.op = "activate"
         /\ k.request = catalogueCalls[c].request
  <2>1. "activate" \in CatalogueOps
    BY DEF CatalogueOps, ConfigOps
  <2>. QED  BY <2>1, StepOnly DEF RetireActive
<1>3. OpFits(catalogueCalls[c]) /\ OpFits(k)
  BY <1>1, <1>2 DEF PayloadsInv, OpFits, ProductOps, ConfigOps
<1>4. /\ catalogueCalls' \in [CatalogueCalls -> Approval]
      /\ \A d \in CatalogueCalls : OpFits(catalogueCalls[d])'
      /\ \A r \in Requests : PayloadFits(requests[r])'
      /\ QuietInv'
  BY <1>1, <1>2, <1>3, HandlerStep
<1>5. \A d \in CatalogueCalls : catalogueCalls'[d] = IF d = c THEN k ELSE catalogueCalls[d]
  BY <1>2, CatalogueCallStep
<1>6. \A d \in CatalogueCalls :
         /\ CatalogueAt(d, "register")' <=> CatalogueAt(d, "register")
         /\ CatalogueAt(d, "register") => catalogueCalls'[d] = catalogueCalls[d]
  BY <1>1, <1>2, <1>5 DEF CatalogueAt
<1>7. ChainInv'
  BY <1>1, <1>6, ChainKept
<1>8. /\ configs' \in [Requests -> {"ABSENT", "ACTIVE", "INACTIVE"}]
      /\ Active' = {}
  BY <1>1 DEF CatalogueTypeInv, Retired, Active
<1>9. ActiveInv'
  BY <1>2, <1>5, <1>8 DEF ActiveInv, CatalogueAt
<1>10. CatalogueTypeInv'
  BY <1>1, <1>4, <1>8 DEF CatalogueTypeInv
<1>11. PayloadsInv'
  BY <1>1, <1>4 DEF PayloadsInv, Regular
<1>. QED  BY <1>4, <1>7, <1>9, <1>10, <1>11

LEMMA CreateActiveInv ==
    ASSUME CatalogueIInv, NEW c \in CatalogueCalls, CreateActive(c)
    PROVE  CatalogueIInv'
<1>. USE DEF CatalogueIInv
<1>. DEFINE r == catalogueCalls[c].request
<1>1. /\ catalogueCalls[c].op = "activate" /\ Busy(c)
      /\ configs' = [configs EXCEPT ![r] = "ACTIVE"]
      /\ CatalogueContinue(c, CatalogueIdle)
      /\ UNCHANGED <<fee, product, chain, requests, disturbed>>
  BY DEF CreateActive, CatalogueAt, Busy
<1>2. /\ catalogueCalls' \in [CatalogueCalls -> Approval]
      /\ \A d \in CatalogueCalls : OpFits(catalogueCalls[d])'
      /\ \A s \in Requests : PayloadFits(requests[s])'
      /\ QuietInv'
  BY <1>1, HandlerStep, CatalogueIdleFields
<1>3. \A d \in CatalogueCalls :
         catalogueCalls'[d] = IF d = c THEN CatalogueIdle ELSE catalogueCalls[d]
  BY <1>1, CatalogueCallStep
<1>4. \A d \in CatalogueCalls :
         /\ CatalogueAt(d, "register")' <=> CatalogueAt(d, "register")
         /\ CatalogueAt(d, "register") => catalogueCalls'[d] = catalogueCalls[d]
  BY <1>1, <1>3, CatalogueIdleFields DEF CatalogueAt
<1>5. ChainInv'
  BY <1>1, <1>4, ChainKept
<1>6. r \in Requests
  BY <1>1 DEF PayloadsInv, OpFits
<1>7. \A s \in Requests : configs'[s] = IF s = r THEN "ACTIVE" ELSE configs[s]
  BY <1>1 DEF CatalogueTypeInv
<1>8. ActiveInv'
  <2>1. ASSUME ~disturbed
        PROVE  /\ Active' = {r}
               /\ \A d \in CatalogueCalls : ~CatalogueAt(d, "activate")'
    <3>1. Active = {}
      BY <1>1, <2>1 DEF ActiveInv, CatalogueAt
    <3>2. Active' = {r}
      BY <1>6, <1>7, <3>1 DEF Active
    <3>3. \A d \in CatalogueCalls : ~CatalogueAt(d, "activate")'
      BY <1>1, <1>3, <2>1, Alone, CatalogueIdleFields DEF CatalogueAt, ConfigOps
    <3>. QED  BY <3>2, <3>3
  <2>. QED  BY <1>1, <1>6, <2>1 DEF ActiveInv
<1>9. CatalogueTypeInv'
  BY <1>1, <1>2 DEF CatalogueTypeInv
<1>10. PayloadsInv'
  BY <1>1, <1>2 DEF PayloadsInv, Regular
<1>. QED  BY <1>2, <1>5, <1>8, <1>9, <1>10

-----------------------------------------------------------------------------
(* Requests *)

\* A request is proposed: nobody handles it yet.
LEMMA ProposeInv ==
    ASSUME CatalogueIInv, NEW r \in Requests, NEW kind, NEW payload,
           kind \in {"fee_create", "fee_update", "product_create", "product_update", "config"},
           payload \in FeeChanges \union ProductChanges,
           PayloadFits([kind |-> kind, status |-> "OPEN", payload |-> payload]),
           Propose(r, kind, payload)
    PROVE  CatalogueIInv'
<1>. USE DEF CatalogueIInv
<1>1. PICK q : q = [kind |-> kind, status |-> "OPEN", payload |-> payload]
  OBVIOUS
<1>2. q \in RequestType /\ PayloadFits(q) /\ q.status = "OPEN"
  BY <1>1 DEF RequestType
<1>3. /\ requests' = [requests EXCEPT ![r] = q]
      /\ requests[r].status = "ABSENT"
      /\ UNCHANGED <<fee, product, chain, configs, catalogueCalls, disturbed>>
  BY <1>1 DEF Propose, NoRequest
<1>4. /\ \A s \in Requests : requests'[s] = IF s = r THEN q ELSE requests[s]
      /\ requests' \in [Requests -> RequestType]
  BY <1>2, <1>3 DEF CatalogueTypeInv
<1>5. \A d \in CatalogueCalls : Busy(d) =>
         /\ catalogueCalls[d].request \in Requests
         /\ requests'[catalogueCalls[d].request] = requests[catalogueCalls[d].request]
  BY <1>3, <1>4 DEF PayloadsInv, OpFits, Busy
<1>6. \A d \in CatalogueCalls : OpFits(catalogueCalls[d])'
  BY <1>3, <1>5 DEF PayloadsInv, OpFits, Busy
<1>7. \A s \in Requests : PayloadFits(requests[s])'
  BY <1>2, <1>4 DEF PayloadsInv, PayloadFits
<1>8. PayloadsInv'
  BY <1>3, <1>6, <1>7 DEF PayloadsInv, Regular
<1>9. \A d \in CatalogueCalls : (Busy(d)' <=> Busy(d)) /\ (Busy(d) => KindOf(d)' = KindOf(d))
  BY <1>3, <1>5 DEF Busy, KindOf
<1>10. QuietInv'
  BY <1>3, <1>9 DEF QuietInv
<1>11. ChainInv' /\ ActiveInv'
  BY <1>3, ChainKept, ActiveKept DEF CatalogueAt
<1>12. CatalogueTypeInv'
  BY <1>3, <1>4 DEF CatalogueTypeInv
<1>. QED  BY <1>8, <1>10, <1>11, <1>12

LEMMA FeeRecord ==
    ASSUME NEW calc, NEW basis, NEW freq, NEW interval, NEW p,
           p = [calc |-> calc, basis |-> basis, freq |-> freq, interval |-> interval]
    PROVE  /\ p.calc = calc /\ p.basis = basis /\ p.freq = freq /\ p.interval = interval
           /\ /\ calc \in {"ABSENT", "FIXED", "PERCENTAGE"} /\ basis \in {"NULL", "SET"}
              /\ freq \in Freqs /\ interval \in {"NULL", "SET"}
              => p \in FeeType
           /\ /\ calc \in {"ABSENT", "FIXED", "PERCENTAGE", "KEEP"}
              /\ basis \in {"NULL", "SET", "KEEP"}
              /\ freq \in Freqs \union {"KEEP"} /\ interval \in {"NULL", "SET", "KEEP"}
              => p \in FeeChanges
BY DEF FeeType, FeeChanges

LEMMA FeeIsChange == FeeType \subseteq FeeChanges
<1>. SUFFICES ASSUME NEW p \in FeeType PROVE p \in FeeChanges
  OBVIOUS
<1>1. PICK calc \in {"ABSENT", "FIXED", "PERCENTAGE"}, basis \in {"NULL", "SET"},
           freq \in Freqs, interval \in {"NULL", "SET"} :
         p = [calc |-> calc, basis |-> basis, freq |-> freq, interval |-> interval]
  BY DEF FeeType
<1>. QED  BY <1>1, FeeRecord

LEMMA ProposeFeeInv ==
    ASSUME CatalogueIInv, NEW r \in Requests, ProposeFee(r)
    PROVE  CatalogueIInv'
<1>1. PICK calc \in {"FIXED", "PERCENTAGE"}, basis \in {"NULL", "SET"},
           freq \in {"ONE_TIME", "RECURRING"}, interval \in {"NULL", "SET"} :
          /\ IntervalAccepted(freq, interval)
          /\ Propose(r, "fee_create",
                [calc |-> calc, basis |-> Basis(calc, basis),
                 freq |-> freq, interval |-> Interval(freq, interval)])
  BY DEF ProposeFee
<1>2. PICK p : p = [calc |-> calc, basis |-> Basis(calc, basis),
                    freq |-> freq, interval |-> Interval(freq, interval)]
  OBVIOUS
<1>3. /\ Basis(calc, basis) \in {"NULL", "SET"}
      /\ Interval(freq, interval) \in {"NULL", "SET"}
      /\ freq = "RECURRING" <=> Interval(freq, interval) = "SET"
  BY <1>1 DEF Basis, Interval, IntervalAccepted
<1>4. /\ p \in FeeType
      /\ p.freq = "RECURRING" <=> p.interval = "SET"
  BY <1>2, <1>3, FeeRecord DEF Freqs
<1>5. PICK q : q = [kind |-> "fee_create", status |-> "OPEN", payload |-> p]
  OBVIOUS
<1>6. PayloadFits(q)
  BY <1>4, <1>5 DEF PayloadFits, Regular
<1>. QED  BY <1>1, <1>2, <1>4, <1>5, <1>6, FeeIsChange, ProposeInv

LEMMA ProposeFeeUpdateInv ==
    ASSUME CatalogueIInv, NEW r \in Requests, ProposeFeeUpdate(r)
    PROVE  CatalogueIInv'
<1>1. PICK calc \in {"KEEP", "FIXED", "PERCENTAGE"}, basis \in {"KEEP", "SET"},
           freq \in {"KEEP", "ONE_TIME", "RECURRING"}, interval \in {"KEEP", "SET"} :
          /\ Given(freq) \/ Given(interval) =>
               IntervalAccepted(Effective(freq, fee.freq), Effective(interval, fee.interval))
          /\ Propose(r, "fee_update",
                [calc |-> CalculationChanges(calc, basis).calc,
                 basis |-> CalculationChanges(calc, basis).basis,
                 freq |-> FrequencyChanges(freq, interval).freq,
                 interval |-> FrequencyChanges(freq, interval).interval])
  BY DEF ProposeFeeUpdate
<1>2. /\ fee.calc \in {"ABSENT", "FIXED", "PERCENTAGE"} /\ fee.basis \in {"NULL", "SET"}
      /\ fee.freq \in Freqs /\ fee.interval \in {"NULL", "SET"}
  BY DEF CatalogueIInv, CatalogueTypeInv, FeeType
<1>3. PICK how : how = CalculationChanges(calc, basis)
  OBVIOUS
<1>4. PICK often : often = FrequencyChanges(freq, interval)
  OBVIOUS
<1>5. /\ how.calc \in {"ABSENT", "FIXED", "PERCENTAGE", "KEEP"}
      /\ how.basis \in {"NULL", "SET", "KEEP"}
  BY <1>2, <1>3 DEF CalculationChanges, Given, Basis, Effective
<1>6. \/ often.freq = "KEEP" /\ often.interval = "KEEP"
      \/ /\ often.freq \in Freqs /\ often.interval \in {"NULL", "SET"}
         /\ often.freq = "RECURRING" <=> often.interval = "SET"
  <2>1. CASE ~Given(freq) /\ ~Given(interval)
    BY <1>4, <2>1 DEF FrequencyChanges
  <2>2. CASE Given(freq) \/ Given(interval)
    <3>1. PICK ef : ef = Effective(freq, fee.freq)
      OBVIOUS
    <3>2. PICK ei : ei = Effective(interval, fee.interval)
      OBVIOUS
    <3>3. ef \in Freqs /\ ei \in {"NULL", "SET"} /\ (ef = "RECURRING" => ei = "SET")
      BY <1>1, <1>2, <2>2, <3>1, <3>2 DEF Effective, Given, Freqs, IntervalAccepted
    <3>4. often.freq = ef /\ often.interval = IF ef = "RECURRING" THEN ei ELSE "NULL"
      BY <1>4, <2>2, <3>1, <3>2 DEF FrequencyChanges, Interval
    <3>. QED  BY <3>3, <3>4
  <2>. QED  BY <2>1, <2>2
<1>7. PICK p : p = [calc |-> how.calc, basis |-> how.basis,
                    freq |-> often.freq, interval |-> often.interval]
  OBVIOUS
<1>8. /\ p \in FeeChanges
      /\ \/ p.freq = "KEEP" /\ p.interval = "KEEP"
         \/ p.freq \in Freqs /\ p.interval # "KEEP" /\ Regular(p)
  <2>1. p.freq = often.freq /\ p.interval = often.interval
    BY <1>7
  <2>2. p \in FeeChanges
    <3>1. often.freq \in Freqs \union {"KEEP"} /\ often.interval \in {"NULL", "SET", "KEEP"}
      BY <1>6
    <3>. QED  BY <1>5, <1>7, <3>1, FeeRecord
  <2>. QED  BY <1>6, <2>1, <2>2 DEF Regular
<1>9. PICK q : q = [kind |-> "fee_update", status |-> "OPEN", payload |-> p]
  OBVIOUS
<1>10. PayloadFits(q)
  BY <1>8, <1>9 DEF PayloadFits
<1>11. Propose(r, "fee_update", p)
  BY <1>1, <1>3, <1>4, <1>7
<1>. QED  BY <1>8, <1>9, <1>10, <1>11, ProposeInv

LEMMA ProposeProductInv ==
    ASSUME CatalogueIInv, NEW r \in Requests, ProposeProduct(r) \/ ProposeProductUpdate(r)
    PROVE  CatalogueIInv'
<1>1. CASE ProposeProduct(r)
  <2>1. PICK steps \in Shapes, terms \in AllTerms :
           Propose(r, "product_create", [steps |-> steps, terms |-> terms])
    BY <1>1 DEF ProposeProduct
  <2>2. PICK p : p = [steps |-> steps, terms |-> terms]
    OBVIOUS
  <2>3. p \in ProductType /\ p \in ProductChanges
    BY <2>2 DEF ProductType, ProductChanges
  <2>4. PICK q : q = [kind |-> "product_create", status |-> "OPEN", payload |-> p]
    OBVIOUS
  <2>5. PayloadFits(q)
    BY <2>3, <2>4 DEF PayloadFits
  <2>. QED  BY <2>1, <2>2, <2>3, <2>4, <2>5, ProposeInv
<1>2. CASE ProposeProductUpdate(r)
  <2>1. PICK steps \in Shapes \union {"KEEP"}, terms \in AllTerms \union {"KEEP"} :
           Propose(r, "product_update", [steps |-> steps, terms |-> terms])
    BY <1>2 DEF ProposeProductUpdate
  <2>2. PICK p : p = [steps |-> steps, terms |-> terms]
    OBVIOUS
  <2>3. p \in ProductChanges
    BY <2>2 DEF ProductChanges
  <2>4. PICK q : q = [kind |-> "product_update", status |-> "OPEN", payload |-> p]
    OBVIOUS
  <2>5. PayloadFits(q)
    BY <2>3, <2>4 DEF PayloadFits
  <2>. QED  BY <2>1, <2>2, <2>3, <2>4, <2>5, ProposeInv
<1>. QED  BY <1>1, <1>2

LEMMA ProposeConfigInv ==
    ASSUME CatalogueIInv, NEW r \in Requests, ProposeConfig(r)
    PROVE  CatalogueIInv'
<1>1. NoFee \in FeeChanges
  BY FeeRecord DEF NoFee, Freqs
<1>2. PICK q : q = [kind |-> "config", status |-> "OPEN", payload |-> NoFee]
  OBVIOUS
<1>3. PayloadFits(q)
  BY <1>2 DEF PayloadFits
<1>. QED  BY <1>1, <1>2, <1>3, ProposeInv DEF ProposeConfig

\* A request's status changes: what it asks for does not.
LEMMA Restate ==
    ASSUME CatalogueIInv, NEW r \in Requests, NEW status,
           status \in {"APPROVED", "CLOSED"},
           requests[r].status = "OPEN",
           requests' = [requests EXCEPT ![r].status = status]
    PROVE  /\ requests' \in [Requests -> RequestType]
           /\ \A s \in Requests : requests'[s].kind = requests[s].kind
           /\ \A s \in Requests \ {r} : requests'[s] = requests[s]
           /\ requests'[r].status = status
           /\ \A s \in Requests : PayloadFits(requests[s])'
           /\ \A d \in CatalogueCalls : Busy(d) =>
                 /\ catalogueCalls[d].request \in Requests \ {r}
                 /\ requests'[catalogueCalls[d].request] = requests[catalogueCalls[d].request]
<1>. USE DEF CatalogueIInv
<1>1. PICK b \in RequestType : b = requests[r]
  BY DEF CatalogueTypeInv
<1>2. PICK q : q = [b EXCEPT !.status = status]
  OBVIOUS
<1>3. /\ q \in RequestType
      /\ q.kind = b.kind /\ q.payload = b.payload /\ q.status = status
  BY <1>2 DEF RequestType
<1>4. /\ \A s \in Requests : requests'[s] = IF s = r THEN q ELSE requests[s]
      /\ requests' \in [Requests -> RequestType]
  BY <1>1, <1>2, <1>3 DEF CatalogueTypeInv
<1>5. PayloadFits(b) /\ b.status = "OPEN"
  BY <1>1 DEF PayloadsInv
<1>6. PayloadFits(q)
  BY <1>3, <1>5 DEF PayloadFits
<1>7. \A s \in Requests : PayloadFits(requests[s])'
  BY <1>4, <1>6 DEF PayloadsInv, PayloadFits
<1>8. \A d \in CatalogueCalls : Busy(d) =>
         /\ catalogueCalls[d].request \in Requests \ {r}
         /\ requests'[catalogueCalls[d].request] = requests[catalogueCalls[d].request]
  BY <1>4 DEF PayloadsInv, OpFits, Busy
<1>. QED  BY <1>1, <1>3, <1>4, <1>7, <1>8

LEMMA DropInv ==
    ASSUME CatalogueIInv, NEW r \in Requests, Drop(r)
    PROVE  CatalogueIInv'
<1>. USE DEF CatalogueIInv
<1>1. /\ requests[r].status = "OPEN"
      /\ requests' = [requests EXCEPT ![r].status = "CLOSED"]
      /\ UNCHANGED <<fee, product, chain, configs, catalogueCalls, disturbed>>
  BY DEF Drop
<1>2. /\ requests' \in [Requests -> RequestType]
      /\ \A s \in Requests : PayloadFits(requests[s])'
      /\ \A d \in CatalogueCalls : Busy(d) =>
            requests'[catalogueCalls[d].request] = requests[catalogueCalls[d].request]
  BY <1>1, Restate
<1>3. \A d \in CatalogueCalls : OpFits(catalogueCalls[d])'
  BY <1>1, <1>2 DEF PayloadsInv, OpFits, Busy
<1>4. PayloadsInv'
  BY <1>1, <1>2, <1>3 DEF PayloadsInv, Regular
<1>5. \A d \in CatalogueCalls : (Busy(d)' <=> Busy(d)) /\ (Busy(d) => KindOf(d)' = KindOf(d))
  BY <1>1, <1>2 DEF Busy, KindOf
<1>6. QuietInv'
  BY <1>1, <1>5 DEF QuietInv
<1>7. ChainInv' /\ ActiveInv'
  BY <1>1, ChainKept, ActiveKept DEF CatalogueAt
<1>8. CatalogueTypeInv'
  BY <1>1, <1>2 DEF CatalogueTypeInv
<1>. QED  BY <1>4, <1>6, <1>7, <1>8

LEMMA ApproveInv ==
    ASSUME CatalogueIInv, NEW c \in CatalogueCalls, NEW r \in Requests, Approve(c, r)
    PROVE  CatalogueIInv'
<1>. USE DEF CatalogueIInv
<1>1. /\ catalogueCalls[c] = CatalogueIdle
      /\ requests[r].status = "OPEN"
      /\ requests' = [requests EXCEPT ![r].status = "APPROVED"]
      /\ CatalogueContinue(c, CatalogueCall(requests[r].kind, r))
      /\ UNCHANGED <<fee, product, chain, configs>>
  BY DEF Approve
<1>2. /\ requests' \in [Requests -> RequestType]
      /\ \A s \in Requests : requests'[s].kind = requests[s].kind
      /\ requests'[r].status = "APPROVED"
      /\ \A s \in Requests : PayloadFits(requests[s])'
      /\ \A d \in CatalogueCalls : Busy(d) =>
            /\ catalogueCalls[d].request \in Requests
            /\ requests'[catalogueCalls[d].request] = requests[catalogueCalls[d].request]
  BY <1>1, Restate
<1>3. requests[r].kind \in {"fee_create", "fee_update", "product_create", "product_update", "config"}
  BY <1>1 DEF CatalogueTypeInv, RequestType, PayloadsInv, PayloadFits
<1>4. PICK k : k = CatalogueCall(requests[r].kind, r)
  OBVIOUS
<1>5. /\ k \in Approval /\ k.op = requests[r].kind /\ k.request = r
      /\ k.op \notin {"idle", "died", "register", "activate"}
  BY <1>3, <1>4 DEF CatalogueCall, Approval, CatalogueOps, ProductOps, ConfigOps
<1>6. /\ \A d \in CatalogueCalls : catalogueCalls'[d] = IF d = c THEN k ELSE catalogueCalls[d]
      /\ catalogueCalls' \in [CatalogueCalls -> Approval]
  BY <1>1, <1>4, <1>5, CatalogueCallStep
<1>7. OpFits(k)'
  BY <1>2, <1>5 DEF OpFits, ProductOps, ConfigOps, Family
<1>8. \A d \in CatalogueCalls \ {c} : OpFits(catalogueCalls[d])'
  BY <1>2, <1>6 DEF PayloadsInv, OpFits, Busy
<1>9. PayloadsInv'
  BY <1>1, <1>2, <1>6, <1>7, <1>8 DEF PayloadsInv, OpFits, Regular
<1>10. /\ \A d \in CatalogueCalls \ {c} :
             (Busy(d)' <=> Busy(d)) /\ (Busy(d) => KindOf(d)' = KindOf(d))
       /\ KindOf(c)' = requests[r].kind
  BY <1>2, <1>5, <1>6 DEF Busy, KindOf
<1>11. ASSUME ~disturbed', NEW d \in CatalogueCalls \ {c}, Busy(d)
       PROVE  ~disturbed /\ Family(KindOf(d)) # Family(requests[r].kind)
  BY <1>11, CatalogueIdleFields DEF Approve, Busy, KindOf
<1>12. disturbed => disturbed'
  BY DEF Approve
<1>13. QuietInv'
  <2>. SUFFICES ASSUME ~disturbed' PROVE QuietInv'
    BY DEF QuietInv
  <2>1. ~disturbed
    BY <1>12
  <2>2. \A d \in CatalogueCalls : catalogueCalls'[d].op # "died"
    BY <1>5, <1>6, <2>1 DEF QuietInv
  <2>3. ASSUME NEW d \in CatalogueCalls, NEW e \in CatalogueCalls, d # e, Busy(d)', Busy(e)'
        PROVE  Family(KindOf(d)') # Family(KindOf(e)')
    <3>1. CASE d # c /\ e # c
      BY <1>10, <2>1, <2>3, <3>1 DEF QuietInv
    <3>2. CASE d = c
      BY <1>10, <1>11, <2>3, <3>2
    <3>3. CASE e = c
      BY <1>10, <1>11, <2>3, <3>3
    <3>. QED  BY <3>1, <3>2, <3>3
  <2>. QED  BY <2>2, <2>3 DEF QuietInv, Family
<1>14. \A d \in CatalogueCalls, op \in {"register", "activate"} :
         /\ CatalogueAt(d, op)' <=> CatalogueAt(d, op)
         /\ CatalogueAt(d, op) => catalogueCalls'[d] = catalogueCalls[d]
  BY <1>1, <1>5, <1>6, CatalogueIdleFields DEF CatalogueAt
<1>15. ChainInv' /\ ActiveInv'
  BY <1>1, <1>12, <1>14, ChainKept, ActiveKept
<1>16. CatalogueTypeInv'
  <2>1. disturbed' \in BOOLEAN
    BY DEF Approve, CatalogueTypeInv
  <2>. QED  BY <1>1, <1>2, <1>6, <2>1 DEF CatalogueTypeInv
<1>. QED  BY <1>9, <1>13, <1>15, <1>16

LEMMA AbandonApprovalInv ==
    ASSUME CatalogueIInv, NEW c \in CatalogueCalls, AbandonApproval(c)
    PROVE  CatalogueIInv'
<1>. USE DEF CatalogueIInv
<1>1. /\ Busy(c) /\ disturbed'
      /\ CatalogueContinue(c, [catalogueCalls[c] EXCEPT !.op = "died", !.steps = "ABSENT"])
      /\ UNCHANGED <<fee, product, chain, configs, requests>>
  BY DEF AbandonApproval, CatalogueAt, Busy
<1>2. PICK k \in Approval :
         /\ CatalogueContinue(c, k) /\ k.op = "died"
         /\ k.request = catalogueCalls[c].request
  <2>1. "died" \in CatalogueOps
    BY DEF CatalogueOps
  <2>2. PICK b \in Approval : b = catalogueCalls[c]
    BY DEF CatalogueTypeInv
  <2>3. PICK k : k = [b EXCEPT !.op = "died", !.steps = "ABSENT"]
    OBVIOUS
  <2>4. k \in Approval /\ k.op = "died" /\ k.request = b.request
    BY <2>1, <2>3 DEF Approval
  <2>5. CatalogueContinue(c, k)
    BY <1>1, <2>2, <2>3
  <2>. QED  BY <2>2, <2>4, <2>5
<1>3. /\ \A d \in CatalogueCalls : catalogueCalls'[d] = IF d = c THEN k ELSE catalogueCalls[d]
      /\ catalogueCalls' \in [CatalogueCalls -> Approval]
  BY <1>2, CatalogueCallStep
<1>4. OpFits(k)
  BY <1>1, <1>2 DEF PayloadsInv, OpFits, Busy, ProductOps, ConfigOps
<1>5. \A d \in CatalogueCalls : OpFits(catalogueCalls[d])'
  BY <1>1, <1>3, <1>4 DEF PayloadsInv, OpFits
<1>6. PayloadsInv'
  BY <1>1, <1>5 DEF PayloadsInv, PayloadFits, Regular
<1>7. QuietInv' /\ ChainInv' /\ ActiveInv'
  BY <1>1 DEF QuietInv, ChainInv, ActiveInv
<1>8. CatalogueTypeInv'
  <2>1. disturbed' = TRUE
    BY DEF AbandonApproval
  <2>. QED  BY <1>1, <1>3, <2>1 DEF CatalogueTypeInv
<1>. QED  BY <1>6, <1>7, <1>8

-----------------------------------------------------------------------------
(* The catalogue *)

LEMMA CatalogueInitInv == CatalogueInit => CatalogueIInv
<1>. SUFFICES ASSUME CatalogueInit PROVE CatalogueIInv
  OBVIOUS
<1>1. NoFee \in FeeType /\ Regular(NoFee)
  BY FeeRecord DEF NoFee, Freqs, Regular
<1>2. NoProduct \in ProductType /\ NoProduct.steps = "ABSENT"
  BY DEF NoProduct, ProductType
<1>3. NoRequest \in RequestType /\ PayloadFits(NoRequest)
  <2>1. NoFee \in FeeChanges
    BY <1>1, FeeIsChange
  <2>. QED  BY <2>1 DEF NoRequest, RequestType, PayloadFits
<1>4. /\ \A r \in Requests : requests[r] = NoRequest /\ configs[r] = "ABSENT"
      /\ \A c \in CatalogueCalls : catalogueCalls[c] = CatalogueIdle
  BY DEF CatalogueInit
<1>5. CatalogueTypeInv
  BY <1>1, <1>2, <1>3, CatalogueIdleFields DEF CatalogueInit, CatalogueTypeInv
<1>6. PayloadsInv
  BY <1>1, <1>3, <1>4, CatalogueIdleFields DEF CatalogueInit, PayloadsInv, OpFits
<1>7. QuietInv
  BY <1>4, CatalogueIdleFields DEF QuietInv, Busy
<1>8. ChainInv /\ ActiveInv
  BY <1>2, <1>4, CatalogueIdleFields DEF CatalogueInit, ChainInv, ActiveInv, CatalogueAt
<1>. QED  BY <1>5, <1>6, <1>7, <1>8 DEF CatalogueIInv

LEMMA CatalogueStutters ==
    ASSUME CatalogueIInv, UNCHANGED catalogueVars
    PROVE  CatalogueIInv'
<1>. USE DEF CatalogueIInv, catalogueVars
<1>1. CatalogueTypeInv'
  BY DEF CatalogueTypeInv
<1>2. PayloadsInv'
  BY DEF PayloadsInv, PayloadFits, OpFits, Regular
<1>3. QuietInv'
  BY DEF QuietInv, Busy, KindOf
<1>4. ChainInv' /\ ActiveInv'
  BY ChainKept, ActiveKept DEF CatalogueAt
<1>. QED  BY <1>1, <1>2, <1>3, <1>4

LEMMA CatalogueNextInv == CatalogueIInv /\ [CatalogueNext]_catalogueVars => CatalogueIInv'
<1>. SUFFICES ASSUME CatalogueIInv, [CatalogueNext]_catalogueVars PROVE CatalogueIInv'
  OBVIOUS
<1>1. ASSUME NEW r \in Requests, \/ ProposeFee(r) \/ ProposeFeeUpdate(r) \/ ProposeProduct(r)
                                 \/ ProposeProductUpdate(r) \/ ProposeConfig(r) \/ Drop(r)
      PROVE  CatalogueIInv'
  BY <1>1, ProposeFeeInv, ProposeFeeUpdateInv, ProposeProductInv, ProposeConfigInv, DropInv
<1>2. ASSUME NEW r \in Requests, NEW c \in CatalogueCalls, Approve(c, r)
      PROVE  CatalogueIInv'
  BY <1>2, ApproveInv
<1>3. ASSUME NEW c \in CatalogueCalls,
             \/ CreateFee(c) \/ UpdateFee(c) \/ CreateProduct(c) \/ UpdateProduct(c)
             \/ RegisterChain(c) \/ RetireActive(c) \/ CreateActive(c) \/ AbandonApproval(c)
      PROVE  CatalogueIInv'
  BY <1>3, CreateFeeInv, WriteProductInv, RegisterChainInv, RetireActiveInv, CreateActiveInv,
     AbandonApprovalInv
<1>. QED  BY <1>1, <1>2, <1>3, CatalogueStutters DEF CatalogueNext

\* The invariant of the catalogue: what each pending request will write, and
\* how far the approvals being handled have come.
THEOREM CatalogueIsSound == CatalogueSpec => []CatalogueIInv
<1>1. CatalogueInit => CatalogueIInv
  BY CatalogueInitInv
<1>2. CatalogueIInv /\ [CatalogueNext]_catalogueVars => CatalogueIInv'
  BY CatalogueNextInv
<1>. QED  BY <1>1, <1>2, PTL DEF CatalogueSpec

\* "A malformed RECURRING config can never be saved"
\* (fee-definitions.service.ts:121): a fee is RECURRING exactly when it has an
\* interval, in whatever order updates computed from older versions of it are
\* approved.
THEOREM FeeFrequencyIsWhole == CatalogueSpec => []RecurringHasInterval
<1>1. CatalogueIInv => RecurringHasInterval
  BY DEF CatalogueIInv, PayloadsInv, Regular, RecurringHasInterval
<1>. QED  BY <1>1, CatalogueIsSound, PTL

\* The chain of a product's loans and the active version of a configuration
\* record are what the approvals, handled one at a time and to the end, left
\* (loan-products.service.ts:328, versioned-config.service.base.ts).
THEOREM ApprovalsLeaveInStep == CatalogueSpec => []InStepUnlessDisturbed
<1>1. CatalogueIInv => InStepUnlessDisturbed
  <2>. SUFFICES ASSUME CatalogueIInv, ~disturbed,
                       \A c \in CatalogueCalls : catalogueCalls[c] = CatalogueIdle
                PROVE  /\ chain = product.steps
                       /\ Cardinality(Active) =
                             IF \E r \in Requests : configs[r] # "ABSENT" THEN 1 ELSE 0
    BY DEF InStepUnlessDisturbed
  <2>1. \A c \in CatalogueCalls : ~CatalogueAt(c, "register") /\ ~CatalogueAt(c, "activate")
    BY CatalogueIdleFields DEF CatalogueAt
  <2>2. chain = product.steps
    BY <2>1 DEF CatalogueIInv, ChainInv
  <2>3. CASE \E r \in Requests : configs[r] # "ABSENT"
    <3>1. PICK o \in Requests : Active = {o}
      BY <2>1, <2>3 DEF CatalogueIInv, ActiveInv
    <3>2. Cardinality({o}) = 1
      BY FS_Singleton
    <3>. QED  BY <2>2, <2>3, <3>1, <3>2
  <2>4. CASE \A r \in Requests : configs[r] = "ABSENT"
    <3>1. Active = {}
      BY <2>4 DEF Active
    <3>. QED  BY <2>2, <2>4, <3>1, FS_EmptySet
  <2>. QED  BY <2>3, <2>4
<1>. QED  BY <1>1, CatalogueIsSound, PTL

-----------------------------------------------------------------------------
(* Schedules *)

\* The quotient of integers, by what it leaves.
LEMMA Quotient ==
    ASSUME NEW a \in Int, NEW b \in Nat \ {0}
    PROVE  /\ a \div b \in Int
           /\ b * (a \div b) <= a /\ a < b * (a \div b) + b
OBVIOUS

LEMMA TimesMono ==
    ASSUME NEW a \in Int, NEW b \in Int, NEW c \in Nat, a <= b
    PROVE  c * a <= c * b
OBVIOUS

LEMMA QuotientIs ==
    ASSUME NEW a \in Int, NEW b \in Nat \ {0}, NEW q \in Int, b * q <= a, a < b * q + b
    PROVE  a \div b = q
OBVIOUS

LEMMA QuotientMono ==
    ASSUME NEW a \in Int, NEW c \in Int, NEW b \in Nat \ {0}, a <= c
    PROVE  a \div b <= c \div b
OBVIOUS

\* A schedule each of whose installments is made of its two parts is balanced.
LEMMA BalancedByParts ==
    ASSUME NEW n \in Nat, NEW p \in Int,
           NEW s \in [1..n -> [principal : Int, interest : Int, due : Int]],
           \A k \in 1..n : s[k].due = s[k].principal + s[k].interest,
           Principal(s) = p
    PROVE  Balanced(s, p)
<1>. DEFINE f == [k \in 1..n |-> s[k].principal]
            g == [k \in 1..n |-> s[k].interest]
            h == [k \in 1..n |-> s[k].due]
<1>1. \A k \in 1..n : f[k] \in Int /\ g[k] \in Int /\ h[k] = f[k] + g[k]
  OBVIOUS
<1>2. DOMAIN s = 1..n
  OBVIOUS
<1>3. /\ Principal(s) = SumFunctionOnSet(f, 1..n)
      /\ Charged(s) = SumFunctionOnSet(g, 1..n)
      /\ Due(s) = SumFunctionOnSet(h, 1..n)
  BY <1>2 DEF Principal, Charged, Due
<1>4. SumFunctionOnSet(h, 1..n) = SumFunctionOnSet(f, 1..n) + SumFunctionOnSet(g, 1..n)
  <2>. HIDE DEF f, g, h
  <2>. QED  BY <1>1, SumPlus
<1>. QED  BY <1>3, <1>4 DEF Balanced

LEMMA PortionBounds ==
    ASSUME NEW total \in Nat, NEW n \in Nat \ {0}
    PROVE  /\ total \div n \in Nat
           /\ \A k \in 1..n : Portion(total, n, k) \in Nat /\ Portion(total, n, k) >= total \div n
           /\ Portion(total, n, n) < total \div n + n
<1>. DEFINE q == total \div n
<1>1. q \in Int /\ n * q <= total /\ total < n * q + n
  BY Quotient
<1>2. q \in Nat
  <2>1. 0 \div n = 0
    BY QuotientIs
  <2>. QED  BY <1>1, <2>1, QuotientMono
<1>3. (n - 1) * q = n * q - q /\ (n - 1) * q \in Int
  <2>1. \A x \in Int : (n - 1) * x = n * x - x /\ (n - 1) * x \in Int
    OBVIOUS
  <2>. HIDE DEF q
  <2>. QED  BY <1>2, <2>1
<1>4. ASSUME NEW k \in 1..n
      PROVE  Portion(total, n, k) = IF k = n THEN total - (n - 1) * q ELSE q
  BY DEF Portion
<1>. HIDE DEF q
<1>5. ASSUME NEW k \in 1..n
      PROVE  Portion(total, n, k) \in Nat /\ Portion(total, n, k) >= q
  BY <1>1, <1>2, <1>3, <1>4
<1>6. Portion(total, n, n) < q + n
  BY <1>1, <1>2, <1>3, <1>4
<1>. QED  BY <1>2, <1>5, <1>6 DEF q

LEMMA FirstIsLeast ==
    ASSUME NEW total \in Nat, NEW n \in Nat \ {0}, NEW k \in 1..n
    PROVE  /\ Portion(total, n, 1) \in Nat /\ Portion(total, n, k) \in Nat
           /\ Portion(total, n, 1) <= Portion(total, n, k)
           /\ Portion(total, n, n) - Portion(total, n, 1) < n
<1>1. 1 \in 1..n /\ n \in 1..n
  OBVIOUS
<1>2. CASE n = 1
  BY <1>1, <1>2, PortionBounds
<1>3. CASE n # 1
  <2>1. Portion(total, n, 1) = total \div n
    BY <1>3 DEF Portion
  <2>2. /\ total \div n \in Nat /\ Portion(total, n, n) < total \div n + n
        /\ Portion(total, n, n) \in Nat
        /\ Portion(total, n, k) \in Nat /\ Portion(total, n, k) >= total \div n
    BY <1>1, PortionBounds
  <2>. QED  BY <2>1, <2>2
<1>. QED  BY <1>2, <1>3

\* The parts of a total make the total.
LEMMA PortionsAddUp ==
    ASSUME NEW total \in Nat, NEW n \in Nat \ {0}, NEW f,
           \A k \in 1..n : f[k] = Portion(total, n, k)
    PROVE  SumFunctionOnSet(f, 1..n) = total
<1>. DEFINE q == total \div n
            s == [k \in 0..n |-> IF k = n THEN total ELSE k * q]
<1>1. q \in Nat
  BY PortionBounds
<1>2. s \in [0..n -> Int] /\ s[0] = 0 /\ s[n] = total
  BY <1>1
<1>3. ASSUME NEW k \in 1..n
      PROVE  f[k] \in Int /\ s[k] = s[k - 1] + f[k]
  <2>1. f[k] \in Int
    BY PortionBounds
  <2>2. f[k] = IF k = n THEN total - (n - 1) * q ELSE q
    BY DEF Portion
  <2>3. k * q = (k - 1) * q + q /\ (k - 1) * q \in Int
    BY <1>1
  <2>4. k - 1 \in 0..n /\ k - 1 # n /\ k \in 0..n
    OBVIOUS
  <2>5. s[k - 1] = (k - 1) * q /\ s[k] = IF k = n THEN total ELSE k * q
    BY <2>4
  <2>. HIDE DEF q, s
  <2>. QED  BY <1>1, <2>1, <2>2, <2>3, <2>5
<1>. HIDE DEF s
<1>. QED  BY <1>2, <1>3, SumBySteps

LEMMA RoundingMono ==
    ASSUME NEW a \in Int, NEW c \in Int, NEW b \in Nat \ {0}, a <= c
    PROVE  /\ RoundHalfUp(a, b) \in Int
           /\ RoundHalfUp(a, b) <= RoundHalfUp(c, b)
<1>1. 2 * b \in Nat \ {0} /\ 2 * a + b \in Int /\ 2 * c + b \in Int /\ 2 * a + b <= 2 * c + b
  OBVIOUS
<1>. QED  BY <1>1, Quotient, QuotientMono DEF RoundHalfUp

LEMMA RoundingOfNothing ==
    ASSUME NEW b \in Nat \ {0}
    PROVE  RoundHalfUp(0, b) = 0
<1>1. 2 * 0 + b = b /\ 2 * b \in Nat \ {0}
  OBVIOUS
<1>2. b \div (2 * b) = 0
  BY <1>1, QuotientIs
<1>. QED  BY <1>1, <1>2 DEF RoundHalfUp

\* A flat schedule, for every principal, rate and number of installments: its
\* parts make the principal and the interest to the kobo, and only the last
\* differs (calculateFlatInterestSchedule).
THEOREM FlatSchedulesAddUp ==
    ASSUME NEW p \in Nat, NEW rate \in Nat, NEW n \in Nat \ {0}
    PROVE  FlatAddsUp(p, rate, n)
<1>. DEFINE s == FlatSchedule(p, rate, n)
            flat == FlatInterest(p, rate)
<1>1. flat \in Nat
  <2>1. p * rate \in Nat /\ 0 <= p * rate
    OBVIOUS
  <2>2. RoundHalfUp(0, Unit) = 0 /\ RoundHalfUp(0, Unit) <= RoundHalfUp(p * rate, Unit)
    BY <2>1, RoundingOfNothing, RoundingMono, ScheduleConstants
  <2>3. RoundHalfUp(p * rate, Unit) \in Int
    BY <2>1, RoundingMono, ScheduleConstants
  <2>. QED  BY <2>2, <2>3 DEF FlatInterest
<1>2. /\ DOMAIN s = 1..n
      /\ \A k \in 1..n : s[k] = [principal |-> Portion(p, n, k), interest |-> Portion(flat, n, k),
                                 due |-> Portion(p, n, k) + Portion(flat, n, k)]
  BY DEF FlatSchedule
<1>. HIDE DEF s, flat
<1>3. s \in [1..n -> [principal : Int, interest : Int, due : Int]]
  <2>1. s = [k \in 1..n |-> s[k]]
    BY DEF s, FlatSchedule
  <2>2. ASSUME NEW k \in 1..n
        PROVE  s[k] \in [principal : Int, interest : Int, due : Int]
    <3>1. Portion(p, n, k) \in Int /\ Portion(flat, n, k) \in Int
      BY <1>1, PortionBounds
    <3>. QED  BY <1>2, <3>1
  <2>. QED  BY <2>1, <2>2
<1>4. Principal(s) = p
  <2>. DEFINE f == [k \in 1..n |-> s[k].principal]
  <2>1. \A k \in 1..n : f[k] = Portion(p, n, k)
    BY <1>2
  <2>2. Principal(s) = SumFunctionOnSet(f, 1..n)
    BY <1>2 DEF Principal
  <2>. HIDE DEF f
  <2>. QED  BY <2>1, <2>2, PortionsAddUp
<1>5. Charged(s) = flat
  <2>. DEFINE f == [k \in 1..n |-> s[k].interest]
  <2>1. \A k \in 1..n : f[k] = Portion(flat, n, k)
    BY <1>2
  <2>2. Charged(s) = SumFunctionOnSet(f, 1..n)
    BY <1>2 DEF Charged
  <2>. HIDE DEF f
  <2>. QED  BY <1>1, <2>1, <2>2, PortionsAddUp
<1>6. Balanced(s, p)
  <2>1. \A k \in 1..n : s[k].due = s[k].principal + s[k].interest
    BY <1>2
  <2>. QED  BY <1>3, <1>4, <2>1, BalancedByParts
<1>7. ASSUME NEW k \in 1..n
      PROVE  0 <= s[1].due /\ s[1].due <= s[k].due
  <2>1. 1 \in 1..n
    OBVIOUS
  <2>2. /\ Portion(p, n, 1) \in Nat /\ Portion(p, n, 1) <= Portion(p, n, k)
        /\ Portion(flat, n, 1) \in Nat /\ Portion(flat, n, 1) <= Portion(flat, n, k)
    BY <1>1, <2>1, FirstIsLeast
  <2>3. Portion(p, n, k) \in Nat /\ Portion(flat, n, k) \in Nat
    BY <1>1, PortionBounds
  <2>. QED  BY <1>2, <2>1, <2>2, <2>3
<1>8. s[n].due - s[1].due < 2 * n
  <2>1. 1 \in 1..n /\ n \in 1..n
    OBVIOUS
  <2>2. /\ Portion(p, n, 1) \in Nat /\ Portion(p, n, n) \in Nat
        /\ Portion(p, n, n) - Portion(p, n, 1) < n
    BY <2>1, FirstIsLeast
  <2>3. /\ Portion(flat, n, 1) \in Nat /\ Portion(flat, n, n) \in Nat
        /\ Portion(flat, n, n) - Portion(flat, n, 1) < n
    BY <1>1, <2>1, FirstIsLeast
  <2>. QED  BY <1>2, <2>1, <2>2, <2>3
<1>. QED  BY <1>5, <1>6, <1>7, <1>8 DEF FlatAddsUp, s, flat

\* What the checks on a product let through.
TermsType == [type : {"FLAT", "REDUCING"}, rate : Nat, tenure : Nat \ {0}, period : Nat \ {0}]

LEMMA CountsCover ==
    ASSUME NEW tenure \in Nat \ {0}, NEW period \in Nat \ {0}
    PROVE  LET n == InstallmentCount(tenure, period)
           IN n \in Nat \ {0} /\ (n - 1) * period < tenure
<1>. DEFINE n == InstallmentCount(tenure, period)
<1>1. CASE tenure <= period
  BY <1>1 DEF InstallmentCount
<1>2. CASE tenure > period
  <2>1. n = (tenure + period - 1) \div period
    BY <1>2 DEF InstallmentCount
  <2>2. /\ n \in Int
        /\ period * n <= tenure + period - 1 /\ tenure + period - 1 < period * n + period
    BY <2>1, Quotient
  <2>. HIDE DEF n
  <2>3. period * n > 0 /\ (n - 1) * period = period * n - period
    BY <1>2, <2>2
  <2>4. n > 0
    BY <2>2, <2>3
  <2>. QED  BY <2>2, <2>3, <2>4 DEF n
<1>. QED  BY <1>1, <1>2

\* The installments fall due one after the other and the last on the last day of
\* the tenure, whether or not the period divides it (computeInstallmentDueDate).
THEOREM InstallmentsFallDueInOrder ==
    ASSUME NEW terms \in TermsType
    PROVE  DueInOrder(terms)
<1>. DEFINE tenure == terms.tenure
            period == terms.period
            n == InstallmentCount(tenure, period)
<1>1. tenure \in Nat \ {0} /\ period \in Nat \ {0}
  BY DEF TermsType
<1>2. n \in Nat \ {0} /\ (n - 1) * period < tenure
  BY <1>1, CountsCover
<1>3. \A k \in 1..n : DueDay(terms, k) = IF k = n THEN tenure ELSE k * period
  BY DEF DueDay
<1>4. ASSUME NEW k \in 2..n
      PROVE  DueDay(terms, k - 1) < DueDay(terms, k)
  <2>1. k \in 1..n /\ k - 1 \in 1..n /\ k - 1 # n
    BY <1>2
  <2>2. (k - 1) * period < k * period
    <3>. HIDE DEF period
    <3>. QED  BY <1>1
  <2>. HIDE DEF n, period, tenure
  <2>3. DueDay(terms, k - 1) = (k - 1) * period
        /\ DueDay(terms, k) = IF k = n THEN tenure ELSE k * period
    BY <1>3, <2>1
  <2>. QED  BY <1>2, <2>2, <2>3
<1>5. DueDay(terms, 1) > 0 /\ DueDay(terms, n) = tenure
  <2>. HIDE DEF n, period, tenure
  <2>. QED  BY <1>1, <1>2, <1>3
<1>. QED  BY <1>4, <1>5 DEF DueInOrder

-----------------------------------------------------------------------------
\* The recursive functions of the reducing balance, by their equations.
LEMMA PowersExist ==
    ASSUME NEW b \in Nat, NEW n \in Nat
    PROVE  \E f \in [0..n -> Nat] :
              f[0] = 1 /\ (\A k \in 1..n : f[k] = b * f[k - 1]) /\ Power(b, n) = f[n]
<1>. DEFINE F == [x \in Nat \X Nat |-> b * x[2]]
            Fits(g) == g = [k \in 0..n |-> IF k = 0 THEN 1 ELSE b * g[k - 1]]
<1>1. F \in [Nat \X Nat -> Nat]
  OBVIOUS
<1>0. PICK f \in [0..n -> Nat] : Recursive(f, 1, F, n)
  <2>. HIDE DEF F
  <2>. QED  BY <1>1, RecursionExists
<1>2. f[0] = 1 /\ \A k \in 1..n : f[k] = F[<<k, f[k - 1]>>]
  BY <1>0 DEF Recursive
<1>3. \A k \in 1..n : f[k] = b * f[k - 1]
  <2>1. \A k \in 1..n : <<k, f[k - 1]>> \in Nat \X Nat /\ <<k, f[k - 1]>>[2] = f[k - 1]
    OBVIOUS
  <2>2. \A x \in Nat \X Nat : F[x] = b * x[2]
    OBVIOUS
  <2>. HIDE DEF F
  <2>. QED  BY <1>2, <2>1, <2>2
<1>4. Fits(f)
  <2>1. f = [k \in 0..n |-> f[k]]
    OBVIOUS
  <2>2. \A k \in 0..n : f[k] = IF k = 0 THEN 1 ELSE b * f[k - 1]
    BY <1>2, <1>3
  <2>. QED  BY <2>1, <2>2, Zenon
<1>5. PICK g : g = (CHOOSE h : Fits(h))
  OBVIOUS
<1>6. Fits(g)
  BY <1>4, <1>5
<1>7. Power(b, n) = g[n]
  BY <1>5 DEF Power
<1>8. g[0] = 1 /\ \A k \in 1..n : g[k] = b * g[k - 1]
  BY <1>6
<1>9. \A k \in 0..n : g[k] = f[k]
  <2>. DEFINE T == {m \in Nat : m <= n => g[m] = f[m]}
  <2>1. 0 \in T
    BY <1>2, <1>8
  <2>2. ASSUME NEW m \in Nat, m \in T
        PROVE  m + 1 \in T
    <3>1. m + 1 <= n => m + 1 \in 1..n /\ (m + 1) - 1 = m /\ m <= n
      OBVIOUS
    <3>. QED  BY <1>3, <1>8, <2>2, <3>1
  <2>3. T = Nat
    <3>. HIDE DEF T
    <3>1. T \subseteq Nat
      BY DEF T
    <3>. QED  BY <2>1, <2>2, <3>1, NatInductiveSet
  <2>. QED  BY <2>3
<1>10. Power(b, n) = f[n]
  BY <1>7, <1>9
<1>. QED  BY <1>2, <1>3, <1>10

LEMMA PowersGrow ==
    ASSUME NEW b \in Nat, NEW c \in Nat, b < c, NEW n \in Nat \ {0}
    PROVE  /\ Power(b, n) \in Nat /\ Power(c, n) \in Nat
           /\ Power(b, n) < Power(c, n)
<1>1. PICK f \in [0..n -> Nat] :
              f[0] = 1 /\ (\A k \in 1..n : f[k] = b * f[k - 1]) /\ Power(b, n) = f[n]
  BY PowersExist
<1>2. PICK g \in [0..n -> Nat] :
              g[0] = 1 /\ (\A k \in 1..n : g[k] = c * g[k - 1]) /\ Power(c, n) = g[n]
  BY PowersExist
<1>. DEFINE T == {m \in Nat : m <= n => g[m] >= 1 /\ f[m] <= g[m] /\ (m > 0 => f[m] < g[m])}
<1>3. 0 \in T
  BY <1>1, <1>2
<1>4. ASSUME NEW m \in Nat, m \in T
      PROVE  m + 1 \in T
  <2>1. CASE m + 1 <= n
    <3>1. m + 1 \in 1..n /\ (m + 1) - 1 = m /\ m \in 0..n
      BY <2>1
    <3>2. PICK x \in Nat, y \in Nat : x = f[m] /\ y = g[m]
      BY <3>1
    <3>3. y >= 1 /\ x <= y
      BY <1>4, <3>1, <3>2
    <3>4. f[m + 1] = b * x /\ g[m + 1] = c * y
      BY <1>1, <1>2, <3>1, <3>2
    <3>5. b * x <= b * y /\ (b + 1) * y <= c * y /\ (b + 1) * y = b * y + y
      BY <3>3, TimesMono
    <3>6. PICK p \in Nat, q \in Nat, r \in Nat : p = b * x /\ q = b * y /\ r = c * y
      OBVIOUS
    <3>7. p <= q /\ q + y <= r
      BY <3>5, <3>6
    <3>8. p < r /\ r >= 1
      BY <3>3, <3>7
    <3>. QED  BY <3>4, <3>6, <3>8
  <2>. QED  BY <2>1
<1>5. T = Nat
  <2>. HIDE DEF T
  <2>1. T \subseteq Nat
    BY DEF T
  <2>. QED  BY <1>3, <1>4, <2>1, NatInductiveSet
<1>6. n \in 0..n /\ f[n] < g[n]
  BY <1>5
<1>. QED  BY <1>1, <1>2, <1>6

LEMMA QuotientCancel ==
    ASSUME NEW a \in Int, NEW b \in Nat \ {0}, NEW d \in Nat \ {0}
    PROVE  (a * d) \div (b * d) = a \div b
<1>1. PICK q \in Int : q = a \div b /\ b * q <= a /\ a < b * q + b
  BY Quotient
<1>2. b * d \in Nat \ {0} /\ a * d \in Int
  OBVIOUS
<1>3. (b * q) * d <= a * d /\ a * d < (b * q + b) * d
  BY <1>1
<1>4. (b * q) * d = (b * d) * q /\ (b * q + b) * d = (b * d) * q + b * d
  OBVIOUS
<1>5. (b * d) * q <= a * d /\ a * d < (b * d) * q + b * d
  BY <1>3, <1>4
<1>. QED  BY <1>1, <1>2, <1>5, QuotientIs

LEMMA RoundingCancel ==
    ASSUME NEW a \in Int, NEW b \in Nat \ {0}, NEW d \in Nat \ {0}
    PROVE  RoundHalfUp(a * d, b * d) = RoundHalfUp(a, b)
<1>1. 2 * (a * d) + b * d = (2 * a + b) * d /\ 2 * (b * d) = (2 * b) * d
  OBVIOUS
<1>2. PICK x \in Int, y \in Nat \ {0} : x = 2 * a + b /\ y = 2 * b
  OBVIOUS
<1>3. (x * d) \div (y * d) = x \div y
  BY QuotientCancel
<1>4. RoundHalfUp(a, b) = x \div y
  BY <1>2 DEF RoundHalfUp
<1>5. RoundHalfUp(a * d, b * d) = (x * d) \div (y * d)
  <2>1. RoundHalfUp(a * d, b * d) = (2 * (a * d) + b * d) \div (2 * (b * d))
    BY DEF RoundHalfUp
  <2>. QED  BY <1>1, <1>2, <2>1, Zenon
<1>. QED  BY <1>3, <1>4, <1>5

\* The annuity covers the interest on the principal, although both are rounded.
LEMMA AmountCoversInterest ==
    ASSUME NEW p \in Nat, NEW rate \in Nat, NEW n \in Nat \ {0}
    PROVE  /\ InstallmentAmount(p, rate, n) \in Nat
           /\ InterestOn(p, rate, n) <= InstallmentAmount(p, rate, n)
<1>. DEFINE whole == Unit * n
            amount == InstallmentAmount(p, rate, n)
<1>1. whole \in Nat \ {0}
  BY ScheduleConstants
<1>2. RoundHalfUp(0, whole) = 0 /\ RoundHalfUp(0, n) = 0
  BY <1>1, RoundingOfNothing
<1>3. CASE rate = 0
  <2>1. amount = RoundHalfUp(p, n)
    BY <1>3 DEF InstallmentAmount
  <2>2. InterestOn(p, rate, n) = 0
    <3>1. p * rate = 0
      BY <1>3
    <3>. QED  BY <1>2, <3>1 DEF InterestOn
  <2>3. 0 <= RoundHalfUp(p, n) /\ RoundHalfUp(p, n) \in Int
    BY <1>2, RoundingMono
  <2>. QED  BY <2>1, <2>2, <2>3
<1>4. CASE rate # 0
  <2>. DEFINE grown == Power(whole + rate, n)
              d == grown - Power(whole, n)
  <2>1. amount = RoundHalfUp(p * rate * grown, whole * d)
    BY <1>4 DEF InstallmentAmount
  <2>2. grown \in Nat /\ d \in Nat \ {0} /\ d <= grown
    <3>1. whole + rate \in Nat /\ whole < whole + rate
      BY <1>1, <1>4
    <3>2. Power(whole, n) \in Nat /\ grown \in Nat /\ Power(whole, n) < grown
      BY <1>1, <3>1, PowersGrow
    <3>. HIDE DEF grown
    <3>. QED  BY <3>2
  <2>. HIDE DEF whole, grown, d, amount
  <2>3. PICK r \in Nat : r = p * rate
    OBVIOUS
  <2>4. r * d <= r * grown /\ r * d \in Nat /\ r * grown \in Nat
    BY <2>2, TimesMono
  <2>5. whole * d \in Nat \ {0}
    BY <1>1, <2>2
  <2>6. /\ RoundHalfUp(r * d, whole * d) <= RoundHalfUp(r * grown, whole * d)
        /\ RoundHalfUp(r * grown, whole * d) \in Int
    BY <2>4, <2>5, RoundingMono
  <2>7. RoundHalfUp(r * d, whole * d) = RoundHalfUp(r, whole)
    <3>1. r \in Int /\ whole \in Nat \ {0} /\ d \in Nat \ {0}
      BY <1>1, <2>2
    <3>. QED  BY <3>1, RoundingCancel
  <2>8. 0 <= RoundHalfUp(r, whole) /\ RoundHalfUp(r, whole) \in Int
    <3>1. 0 \in Int /\ r \in Int /\ 0 <= r
      OBVIOUS
    <3>2. RoundHalfUp(r, whole) \in Int /\ RoundHalfUp(0, whole) <= RoundHalfUp(r, whole)
      BY <1>1, <3>1, RoundingMono
    <3>. QED  BY <1>2, <3>2
  <2>9. InterestOn(p, rate, n) = RoundHalfUp(r, whole)
    BY <2>3 DEF InterestOn, whole
  <2>10. amount = RoundHalfUp(r * grown, whole * d)
    BY <2>1, <2>3
  <2>. QED  BY <2>6, <2>7, <2>8, <2>9, <2>10 DEF amount
<1>. QED  BY <1>3, <1>4

\* On any balance up to the principal the annuity leaves something to repay.
LEMMA InterestWithinAmount ==
    ASSUME NEW p \in Nat, NEW rate \in Nat, NEW n \in Nat \ {0}, NEW b \in Int, b <= p
    PROVE  /\ InterestOn(b, rate, n) \in Int
           /\ InterestOn(b, rate, n) <= InstallmentAmount(p, rate, n)
           /\ \A c \in Int : c <= b => InterestOn(c, rate, n) <= InterestOn(b, rate, n)
<1>1. Unit * n \in Nat \ {0}
  BY ScheduleConstants
<1>2. ASSUME NEW c \in Int, NEW e \in Int, c <= e
      PROVE  /\ InterestOn(c, rate, n) \in Int
             /\ InterestOn(c, rate, n) <= InterestOn(e, rate, n)
  <2>1. c * rate <= e * rate /\ c * rate \in Int /\ e * rate \in Int
    BY <1>2
  <2>. QED  BY <1>1, <2>1, RoundingMono DEF InterestOn
<1>3. InterestOn(b, rate, n) \in Int /\ InterestOn(b, rate, n) <= InterestOn(p, rate, n)
  BY <1>2
<1>4. InterestOn(p, rate, n) \in Int
  BY <1>2
<1>5. /\ InstallmentAmount(p, rate, n) \in Nat
      /\ InterestOn(p, rate, n) <= InstallmentAmount(p, rate, n)
  BY AmountCoversInterest
<1>6. InterestOn(b, rate, n) <= InstallmentAmount(p, rate, n)
  BY <1>3, <1>4, <1>5
<1>7. \A c \in Int : c <= b => InterestOn(c, rate, n) <= InterestOn(b, rate, n)
  BY <1>2
<1>. QED  BY <1>3, <1>6, <1>7

\* What an installment repays: the balance, if it is the last, or what the
\* interest leaves of the annuity, which is never negative.
RepaidRightly(amount, b, rate, n, k) ==
    /\ Repaid(amount, b, rate, n, k) \in Int
    /\ k = n => Repaid(amount, b, rate, n, k) = b
    /\ k # n => /\ Repaid(amount, b, rate, n, k) = amount - InterestOn(b, rate, n)
                /\ Repaid(amount, b, rate, n, k) >= 0

LEMMA RepaidIs ==
    ASSUME NEW p \in Nat, NEW rate \in Nat, NEW n \in Nat \ {0},
           NEW amount, amount = InstallmentAmount(p, rate, n),
           NEW b \in Int, b <= p, NEW k \in Nat
    PROVE  RepaidRightly(amount, b, rate, n, k)
<1>1. PICK m \in Int : m = amount - InterestOn(b, rate, n) /\ m >= 0
  <2>1. InterestOn(b, rate, n) \in Int /\ InterestOn(b, rate, n) <= InstallmentAmount(p, rate, n)
    BY InterestWithinAmount
  <2>2. InstallmentAmount(p, rate, n) \in Nat
    BY AmountCoversInterest
  <2>. QED  BY <2>1, <2>2
<1>2. Max({0, m}) = m
  BY <1>1 DEF Max
<1>3. Repaid(amount, b, rate, n, k) = IF k = n THEN b ELSE m
  BY <1>1, <1>2 DEF Repaid
<1>. QED  BY <1>1, <1>3 DEF RepaidRightly

\* o holds the balance before each installment.
AreOpenings(o, p, rate, n) ==
    /\ o[1] = p
    /\ \A k \in 2..n :
          o[k] = o[k - 1] - Repaid(InstallmentAmount(p, rate, n), o[k - 1], rate, n, k - 1)
    /\ \A k \in 1..n : OpeningBalances(p, rate, n)[k] = o[k]

LEMMA OpeningsExist ==
    ASSUME NEW p \in Nat, NEW rate \in Nat, NEW n \in Nat \ {0}
    PROVE  \E o \in [1..n -> {b \in Int : b <= p}] : AreOpenings(o, p, rate, n)
<1>. DEFINE V == {b \in Int : b <= p}
            Rest(b, k) == b - Repaid(InstallmentAmount(p, rate, n), b, rate, n, k)
            F == [x \in Nat \X V |-> Rest(x[2], x[1])]
            Fits(g) == g = [k \in 1..n |-> IF k = 1 THEN p ELSE Rest(g[k - 1], k - 1)]
<1>1. ASSUME NEW b \in V, NEW k \in Nat
      PROVE  Rest(b, k) \in V
  <2>1. b \in Int /\ b <= p
    OBVIOUS
  <2>2. PICK m : m = Repaid(InstallmentAmount(p, rate, n), b, rate, n, k)
    OBVIOUS
  <2>3. m \in Int /\ (k = n => m = b) /\ (k # n => m >= 0)
    BY <2>1, <2>2, RepaidIs DEF RepaidRightly
  <2>4. b - m \in Int /\ b - m <= p
    BY <2>1, <2>3
  <2>. QED  BY <2>2, <2>4
<1>2. F \in [Nat \X V -> V]
  <2>. HIDE DEF V, Rest
  <2>. QED  BY <1>1
<1>3. p \in V /\ n - 1 \in Nat
  OBVIOUS
<1>4. PICK f \in [0..(n - 1) -> V] : Recursive(f, p, F, n - 1)
  <2>. HIDE DEF F, V
  <2>. QED  BY <1>2, <1>3, RecursionExists
<1>5. f[0] = p /\ \A k \in 1..(n - 1) : f[k] = Rest(f[k - 1], k)
  <2>1. f[0] = p /\ \A k \in 1..(n - 1) : f[k] = F[<<k, f[k - 1]>>]
    BY <1>4 DEF Recursive
  <2>. HIDE DEF V, Rest
  <2>2. ASSUME NEW k \in 1..(n - 1)
        PROVE  F[<<k, f[k - 1]>>] = Rest(f[k - 1], k)
    <3>1. k - 1 \in 0..(n - 1) /\ k \in Nat
      OBVIOUS
    <3>2. f[k - 1] \in V
      BY <3>1
    <3>. QED  BY <3>1, <3>2
  <2>. QED  BY <2>1, <2>2
<1>. DEFINE o == [k \in 1..n |-> f[k - 1]]
<1>6. o \in [1..n -> V]
  <2>. HIDE DEF V
  <2>1. \A k \in 1..n : k - 1 \in 0..(n - 1)
    OBVIOUS
  <2>. QED  BY <2>1
<1>7. o[1] = p /\ \A k \in 2..n : o[k] = Rest(o[k - 1], k - 1)
  <2>. HIDE DEF Rest
  <2>1. 1 \in 1..n /\ o[1] = f[0]
    OBVIOUS
  <2>2. ASSUME NEW k \in 2..n
        PROVE  o[k] = Rest(o[k - 1], k - 1)
    <3>1. k \in 1..n /\ k - 1 \in 1..n /\ k - 1 \in 1..(n - 1)
      OBVIOUS
    <3>2. o[k] = f[k - 1] /\ o[k - 1] = f[(k - 1) - 1]
      BY <3>1
    <3>. HIDE DEF o
    <3>. QED  BY <1>5, <3>1, <3>2
  <2>. QED  BY <1>5, <2>1, <2>2
<1>8. Fits(o)
  <2>1. \A k \in 1..n : o[k] = IF k = 1 THEN p ELSE Rest(o[k - 1], k - 1)
    <3>. HIDE DEF Rest, o
    <3>1. \A k \in 1..n : k # 1 => k \in 2..n
      OBVIOUS
    <3>. QED  BY <1>7, <3>1
  <2>2. o = [k \in 1..n |-> o[k]]
    BY <1>6
  <2>. HIDE DEF Rest, o
  <2>. QED  BY <2>1, <2>2, Zenon
<1>. HIDE DEF o
<1>9. PICK g : g = (CHOOSE h : Fits(h))
  OBVIOUS
<1>10. Fits(g)
  <2>. HIDE DEF Fits
  <2>. QED  BY <1>8, <1>9
<1>11. OpeningBalances(p, rate, n) = g
  BY <1>9 DEF OpeningBalances
<1>12. \A k \in 1..n : g[k] = IF k = 1 THEN p ELSE Rest(g[k - 1], k - 1)
  <2>. HIDE DEF Rest
  <2>. QED  BY <1>10
<1>13. \A k \in 1..n : g[k] = o[k]
  <2>. HIDE DEF Rest, Fits
  <2>. DEFINE T == {m \in Nat : m + 1 <= n => g[m + 1] = o[m + 1]}
  <2>1. 0 \in T
    BY <1>7, <1>12
  <2>2. ASSUME NEW m \in Nat, m \in T
        PROVE  m + 1 \in T
    <3>1. CASE m + 2 <= n
      <4>1. m + 2 \in 2..n /\ m + 2 \in 1..n /\ m + 2 # 1 /\ (m + 2) - 1 = m + 1 /\ m + 1 <= n
        BY <3>1
      <4>2. g[m + 2] = Rest(g[m + 1], m + 1)
        BY <1>12, <4>1
      <4>3. o[m + 2] = Rest(o[m + 1], m + 1)
        BY <1>7, <4>1
      <4>4. g[m + 1] = o[m + 1]
        BY <2>2, <4>1
      <4>5. (m + 1) + 1 = m + 2
        OBVIOUS
      <4>. QED  BY <4>2, <4>3, <4>4, <4>5
    <3>. QED  BY <3>1
  <2>3. T = Nat
    <3>. HIDE DEF T
    <3>1. T \subseteq Nat
      BY DEF T
    <3>. QED  BY <2>1, <2>2, <3>1, NatInductiveSet
  <2>4. ASSUME NEW k \in 1..n
        PROVE  g[k] = o[k]
    <3>1. k - 1 \in Nat /\ (k - 1) + 1 = k /\ k <= n
      OBVIOUS
    <3>2. k - 1 \in T
      <4>. HIDE DEF T
      <4>. QED  BY <2>3, <3>1
    <3>. QED  BY <3>1, <3>2
  <2>. QED  BY <2>4
<1>14. AreOpenings(o, p, rate, n)
  BY <1>7, <1>11, <1>13 DEF AreOpenings
<1>. QED  BY <1>6, <1>14

\* A schedule of reducing balance, for every principal, rate and number of
\* installments: "the schedule's principal portions always sum to exactly
\* `principalKobo`" (interest-schedule.ts:103-104), what falls due is principal
\* and interest, and the interest never grows.
THEOREM ReducingSchedulesAddUp ==
    ASSUME NEW p \in Nat, NEW rate \in Nat, NEW n \in Nat \ {0}
    PROVE  ReducingAddsUp(p, rate, n)
<1>. DEFINE s == ReducingSchedule(p, rate, n)
<1>1. PICK amount \in Nat : amount = InstallmentAmount(p, rate, n)
  BY AmountCoversInterest
<1>2. PICK o \in [1..n -> {b \in Int : b <= p}] : AreOpenings(o, p, rate, n)
  BY OpeningsExist
<1>10. /\ o[1] = p
       /\ \A k \in 2..n : o[k] = o[k - 1] - Repaid(amount, o[k - 1], rate, n, k - 1)
       /\ \A k \in 1..n : OpeningBalances(p, rate, n)[k] = o[k]
  BY <1>1, <1>2 DEF AreOpenings
<1>3. ASSUME NEW k \in 1..n
      PROVE  /\ o[k] \in Int /\ o[k] <= p
             /\ InterestOn(o[k], rate, n) \in Int
             /\ Repaid(amount, o[k], rate, n, k) \in Int
             /\ k = n => Repaid(amount, o[k], rate, n, k) = o[k]
             /\ k # n => /\ Repaid(amount, o[k], rate, n, k) = amount - InterestOn(o[k], rate, n)
                         /\ Repaid(amount, o[k], rate, n, k) >= 0
  <2>1. o[k] \in Int /\ o[k] <= p /\ k \in Nat
    BY <1>2
  <2>2. InterestOn(o[k], rate, n) \in Int
    BY <2>1, InterestWithinAmount
  <2>3. PICK b \in Int : b = o[k] /\ b <= p
    BY <2>1
  <2>4. RepaidRightly(amount, b, rate, n, k)
    BY <1>1, <2>1, <2>3, RepaidIs
  <2>. QED  BY <2>1, <2>2, <2>3, <2>4 DEF RepaidRightly
<1>4. /\ DOMAIN s = 1..n
      /\ \A k \in 1..n :
            s[k] = [principal |-> Repaid(amount, o[k], rate, n, k),
                    interest |-> InterestOn(o[k], rate, n),
                    due |-> IF k = n THEN o[k] + InterestOn(o[k], rate, n) ELSE amount]
  BY <1>1, <1>10 DEF ReducingSchedule
<1>5. s \in [1..n -> [principal : Int, interest : Int, due : Int]]
  <2>1. s = [k \in 1..n |-> s[k]]
    BY DEF ReducingSchedule
  <2>. HIDE DEF s
  <2>2. ASSUME NEW k \in 1..n
        PROVE  s[k] \in [principal : Int, interest : Int, due : Int]
    BY <1>3, <1>4
  <2>. QED  BY <2>1, <2>2
<1>. HIDE DEF s
<1>6. \A k \in 1..n : s[k].due = s[k].principal + s[k].interest
  BY <1>3, <1>4
<1>7. Principal(s) = p
  <2>. DEFINE f == [k \in 1..n |-> s[k].principal]
              r == [k \in 0..n |-> p - IF k = n THEN 0 ELSE o[k + 1]]
  <2>1. \A k \in 1..n : f[k] = Repaid(amount, o[k], rate, n, k)
    BY <1>4
  <2>2. r \in [0..n -> Int] /\ r[n] = p
    <3>1. ASSUME NEW k \in 0..n
          PROVE  (p - IF k = n THEN 0 ELSE o[k + 1]) \in Int
      <4>1. k # n => k + 1 \in 1..n
        OBVIOUS
      <4>. QED  BY <1>3, <4>1
    <3>. QED  BY <3>1
  <2>3. r[0] = 0
    BY <1>10
  <2>4. ASSUME NEW k \in 1..n
        PROVE  f[k] \in Int /\ r[k] = r[k - 1] + f[k]
    <3>1. k - 1 \in 0..n /\ k \in 0..n /\ k - 1 # n /\ (k - 1) + 1 = k
      OBVIOUS
    <3>2. r[k - 1] = p - o[k] /\ r[k] = p - IF k = n THEN 0 ELSE o[k + 1]
      BY <3>1
    <3>3. k # n => k + 1 \in 2..n /\ (k + 1) - 1 = k
      OBVIOUS
    <3>4. k # n => o[k + 1] = o[k] - f[k]
      BY <1>10, <2>1, <3>3
    <3>5. f[k] \in Int /\ o[k] \in Int /\ (k = n => f[k] = o[k])
      BY <1>3, <2>1
    <3>. HIDE DEF f, r
    <3>. QED  BY <3>2, <3>4, <3>5
  <2>5. Principal(s) = SumFunctionOnSet(f, 1..n)
    BY <1>4 DEF Principal
  <2>. HIDE DEF f, r
  <2>. QED  BY <2>2, <2>3, <2>4, <2>5, SumBySteps
<1>8. Balanced(s, p)
  <2>1. n \in Nat /\ p \in Int
    OBVIOUS
  <2>. QED  BY <1>5, <1>6, <1>7, <2>1, BalancedByParts
<1>9. ASSUME NEW k \in 2..n
      PROVE  s[k].interest <= s[k - 1].interest
  <2>1. k \in 1..n /\ k - 1 \in 1..n /\ k - 1 # n
    OBVIOUS
  <2>2. o[k] = o[k - 1] - Repaid(amount, o[k - 1], rate, n, k - 1)
    BY <1>10
  <2>3. o[k] \in Int /\ o[k - 1] \in Int /\ o[k - 1] <= p /\ o[k] <= o[k - 1]
    <3>1. PICK m : m = Repaid(amount, o[k - 1], rate, n, k - 1)
      OBVIOUS
    <3>2. m \in Int /\ m >= 0
      BY <1>3, <2>1, <3>1
    <3>3. o[k] = o[k - 1] - m
      BY <2>2, <3>1
    <3>. QED  BY <1>3, <2>1, <3>2, <3>3
  <2>4. InterestOn(o[k], rate, n) <= InterestOn(o[k - 1], rate, n)
    BY <2>3, InterestWithinAmount
  <2>. QED  BY <1>4, <2>1, <2>4
<1>. QED  BY <1>8, <1>9 DEF ReducingAddsUp, s

-----------------------------------------------------------------------------
(* The arithmetic of an ample principal p.  W is Unit * n, so that a rate r is *)
(* r / W a period; G and D are the n-th powers of W + r and of W, H is their   *)
(* difference and P is p * r, so that the interest of a period on p is P / W.  *)


\* A factor taken out of both sides.
LEMMA Cancel ==
    ASSUME NEW a \in Int, NEW b \in Int, NEW c \in Nat \ {0}, c * a <= c * b
    PROVE  a <= b
OBVIOUS

\* One more power of W + r and of W, q and w being the m-th: how far apart the two
\* can be.
LEMMA MeanStep ==
    ASSUME NEW W \in Nat, NEW r \in Nat, NEW q \in Nat, NEW w \in Nat, NEW m \in Nat,
           (q - w) * (W + r) <= m * r * q
    PROVE  ((W + r) * q - W * w) * (W + r) <= (m + 1) * r * ((W + r) * q)
<1>1. W * ((q - w) * (W + r)) <= W * (m * r * q)
  <2>1. (q - w) * (W + r) \in Int /\ m * r * q \in Int
    OBVIOUS
  <2>. QED  BY <2>1, TimesMono
<1>2. ((W + r) * q - W * w) * (W + r) = W * ((q - w) * (W + r)) + r * q * (W + r)
  OBVIOUS
<1>3. (m + 1) * r * ((W + r) * q) = W * (m * r * q) + m * r * r * q + r * q * (W + r)
  OBVIOUS
<1>4. m * r * r * q >= 0
  OBVIOUS
<1>. QED  BY <1>1, <1>2, <1>3, <1>4

\* ... and, while m * r <= W, that (1 + r/W)^m is at most 1 + m*r/W + (m*r/W)^2.
LEMMA BernoulliStep ==
    ASSUME NEW W \in Nat, NEW r \in Nat, NEW q \in Nat, NEW w \in Nat, NEW m \in Nat,
           m * r <= W,
           W * W * q <= (W * W + m * r * W + m * r * (m * r)) * w
    PROVE  W * W * ((W + r) * q)
              <= (W * W + (m + 1) * r * W + (m + 1) * r * ((m + 1) * r)) * (W * w)
<1>1. (W + r) * (W * W * q) <= (W + r) * ((W * W + m * r * W + m * r * (m * r)) * w)
  <2>1. W * W * q \in Int /\ (W * W + m * r * W + m * r * (m * r)) * w \in Int /\ W + r \in Nat
    OBVIOUS
  <2>. QED  BY <2>1, TimesMono
<1>2. r * r * (m * (m * r)) <= r * r * (m * W)
  <2>1. m * (m * r) <= m * W
    <3>1. m * r \in Int
      OBVIOUS
    <3>. QED  BY <3>1, TimesMono
  <2>2. r * r \in Nat /\ m * (m * r) \in Int /\ m * W \in Int
    OBVIOUS
  <2>. QED  BY <2>1, <2>2, TimesMono
<1>3. w * (r * r * (m * (m * r))) <= w * (r * r * (m * W))
  <2>1. r * r * (m * (m * r)) \in Int /\ r * r * (m * W) \in Int
    OBVIOUS
  <2>. QED  BY <1>2, <2>1, TimesMono
<1>4. (W * W + (m + 1) * r * W + (m + 1) * r * ((m + 1) * r)) * (W * w)
        = (W + r) * ((W * W + m * r * W + m * r * (m * r)) * w)
           + w * (r * r * (m * W)) - w * (r * r * (m * (m * r))) + w * (r * r * W)
  OBVIOUS
<1>5. w * (r * r * W) >= 0
  OBVIOUS
<1>6. W * W * ((W + r) * q) = (W + r) * (W * W * q)
  OBVIOUS
<1>. QED  BY <1>1, <1>3, <1>4, <1>5, <1>6

\* What a balance B keeps of its exact value with one more installment: I, the
\* interest, and A, the annuity, are off by at most half a unit each, and what
\* they were off before has grown by the rate.
LEMMA BalanceStep ==
    ASSUME NEW W \in Nat, NEW r \in Nat, NEW G \in Nat, NEW D \in Nat, NEW H \in Nat,
           NEW P \in Nat, NEW q \in Nat, NEW w \in Nat, NEW B \in Int, NEW I \in Int,
           NEW A \in Int,
           r * H * w * B >= P * (G * w - D * q) - (q - w) * W * H,
           2 * W * I >= 2 * r * B - W,
           2 * (W * H) * A <= 2 * (P * G) + W * H
    PROVE  r * H * (W * w) * (B + I - A)
              >= P * (G * (W * w) - D * ((W + r) * q)) - ((W + r) * q - W * w) * W * H
<1>1. (W + r) * (P * (G * w - D * q) - (q - w) * W * H) <= (W + r) * (r * H * w * B)
  <2>1. P * (G * w - D * q) - (q - w) * W * H \in Int /\ r * H * w * B \in Int /\ W + r \in Nat
    OBVIOUS
  <2>. QED  BY <2>1, TimesMono
<1>2. (r * w * H) * (2 * r * B - W) <= (r * w * H) * (2 * W * I)
  <2>1. 2 * r * B - W \in Int /\ 2 * W * I \in Int /\ r * w * H \in Nat
    OBVIOUS
  <2>. QED  BY <2>1, TimesMono
<1>3. (r * w) * (2 * (W * H) * A) <= (r * w) * (2 * (P * G) + W * H)
  <2>1. 2 * (W * H) * A \in Int /\ 2 * (P * G) + W * H \in Int /\ r * w \in Nat
    OBVIOUS
  <2>. QED  BY <2>1, TimesMono
<1>4. 2 * (r * H * (W * w) * (B + I - A))
        = 2 * (W * (r * H * w * B)) + (r * w * H) * (2 * W * I) - (r * w) * (2 * (W * H) * A)
  OBVIOUS
<1>5. (r * w * H) * (2 * r * B - W) = 2 * (r * (r * H * w * B)) - r * w * H * W
  OBVIOUS
<1>6. 2 * (r * H * (W * w) * (B + I - A))
        >= 2 * ((W + r) * (r * H * w * B)) - r * w * H * W - (r * w) * (2 * (P * G) + W * H)
  <2>1. (W + r) * (r * H * w * B) = W * (r * H * w * B) + r * (r * H * w * B)
    OBVIOUS
  <2>. QED  BY <1>2, <1>3, <1>4, <1>5, <2>1
<1>7. 2 * (P * (G * (W * w) - D * ((W + r) * q)) - ((W + r) * q - W * w) * W * H)
        = 2 * ((W + r) * (P * (G * w - D * q) - (q - w) * W * H))
            - r * w * H * W - (r * w) * (2 * (P * G) + W * H)
  OBVIOUS
<1>. QED  BY <1>1, <1>6, <1>7

\* An ample principal outweighs what the roundings have grown to when only the
\* last installment is left.
LEMMA LastBalance ==
    ASSUME NEW W \in Nat \ {0}, NEW r \in Nat, NEW n \in Nat \ {0},
           NEW q \in Nat, NEW w \in Nat, NEW p \in Nat, NEW H \in Nat,
           q >= w,
           (q - w) * (W + r) <= (n - 1) * r * q,
           H * (W + r) <= n * r * ((W + r) * q),
           4 * n * n * ((W + r) * q) <= p * (W * w)
    PROVE  p * r * (r * q * w) >= (q - w) * W * H
<1>. DEFINE c == W + r
            N == n * n
<1>1. c \in Nat \ {0} /\ W <= c /\ N \in Nat
  OBVIOUS
<1>2. H <= n * r * q
  <2>1. c * H <= c * (n * r * q)
    BY <1>1
  <2>2. n * r * q \in Int
    OBVIOUS
  <2>. QED  BY <1>1, <2>1, <2>2, Cancel
<1>3. (q - w) * W <= n * r * q
  <2>1. (q - w) * W <= (q - w) * c
    <3>1. q - w \in Nat
      OBVIOUS
    <3>. QED  BY <1>1, <3>1, TimesMono
  <2>2. (n - 1) * r * q <= n * r * q
    <3>1. r * q \in Nat /\ (n - 1) * r * q = n * r * q - r * q
      OBVIOUS
    <3>. QED  BY <3>1
  <2>. QED  BY <2>1, <2>2
<1>4. (q - w) * W * H <= N * (r * q * (r * q))
  <2>. DEFINE x == (q - w) * W
              y == n * r * q
  <2>1. x \in Nat /\ y \in Nat /\ y * y = N * (r * q * (r * q))
    OBVIOUS
  <2>. HIDE DEF x
  <2>2. x * H <= x * y
    <3>. HIDE DEF y
    <3>. QED  BY <1>2, <2>1, TimesMono DEF y
  <2>3. y * x <= y * y
    <3>. HIDE DEF y
    <3>. QED  BY <1>3, <2>1, TimesMono DEF x, y
  <2>4. x * y = y * x
    BY <2>1
  <2>. QED  BY <2>1, <2>2, <2>3, <2>4 DEF x
<1>5. N * (r * q * (r * q)) <= p * r * (r * q * w)
  <2>1. r * r * q * (4 * n * n * (c * q)) <= r * r * q * (p * (W * w))
    <3>1. r * r * q \in Nat /\ 4 * n * n * (c * q) \in Int /\ p * (W * w) \in Int
      OBVIOUS
    <3>. QED  BY <3>1, TimesMono
  <2>2. r * r * q * (4 * n * n * (c * q)) = c * (4 * (N * (r * q * (r * q))))
    OBVIOUS
  <2>3. r * r * q * (p * (W * w)) = W * (p * r * (r * q * w))
    OBVIOUS
  <2>4. PICK z \in Nat : z = N * (r * q * (r * q))
    OBVIOUS
  <2>5. W * z <= c * (4 * z)
    <3>1. W * z <= c * z
      BY <1>1
    <3>2. c * (4 * z) = 4 * (c * z) /\ c * z \in Nat
      OBVIOUS
    <3>. QED  BY <3>1, <3>2
  <2>6. W * z <= W * (p * r * (r * q * w))
    BY <2>1, <2>2, <2>3, <2>4, <2>5
  <2>7. p * r * (r * q * w) \in Int
    OBVIOUS
  <2>. QED  BY <2>4, <2>6, <2>7, Cancel
<1>. QED
  <2>1. /\ (q - w) * W * H \in Int /\ N * (r * q * (r * q)) \in Int
        /\ p * r * (r * q * w) \in Int
    OBVIOUS
  <2>. QED  BY <1>4, <1>5, <2>1

\* What the first installment repays of the principal, c, is so much that the flat
\* interest on it, c * r / Unit, is a unit: at a steep rate, r / W being one or
\* more,
LEMMA SteepDrop ==
    ASSUME NEW W \in Nat \ {0}, NEW r \in Nat \ {0}, NEW n \in Nat \ {0},
           NEW G \in Nat, NEW D \in Nat, NEW H \in Nat \ {0}, NEW p \in Nat, NEW c \in Int,
           H <= G, W <= r * n,
           W * H * c >= p * r * D - W * H,
           4 * n * n * G <= p * D
    PROVE  r * n * c >= W
<1>. DEFINE X == r * n
            z == W * H
<1>1. X \in Nat \ {0} /\ z \in Nat \ {0}
  OBVIOUS
<1>2. p * r * D >= 2 * z
  <2>1. r * (4 * n * n * G) <= r * (p * D)
    <3>1. 4 * n * n * G \in Int /\ p * D \in Int
      OBVIOUS
    <3>. QED  BY <3>1, TimesMono
  <2>2. r * (4 * n * n * G) = 4 * (n * (X * G)) /\ r * (p * D) = p * r * D
    OBVIOUS
  <2>3. W * H <= X * G
    <3>1. W * H <= W * G /\ G * W <= G * X
      BY TimesMono
    <3>. QED  BY <3>1
  <2>4. PICK y \in Nat : y = X * G
    OBVIOUS
  <2>5. n * y >= y
    BY <2>4
  <2>6. n * y \in Nat
    BY <2>4
  <2>. QED  BY <2>1, <2>2, <2>3, <2>4, <2>5, <2>6
<1>3. W * z <= X * z
  BY <1>1
<1>4. X * (z * c) >= X * (p * r * D - z)
  <2>1. z * c \in Int /\ p * r * D - z \in Int /\ z * c >= p * r * D - z
    OBVIOUS
  <2>. HIDE DEF X, z
  <2>. QED  BY <1>1, <2>1, TimesMono
<1>5. X * (p * r * D - z) >= X * z
  <2>1. p * r * D \in Int
    OBVIOUS
  <2>. HIDE DEF X, z
  <2>2. p * r * D - z >= z /\ p * r * D - z \in Int
    BY <1>1, <1>2, <2>1
  <2>. QED  BY <1>1, <2>2, TimesMono
<1>6. z * W <= z * (X * c)
  <2>1. X * (z * c) \in Int /\ X * (p * r * D - z) \in Int
    OBVIOUS
  <2>2. z * (X * c) = X * (z * c) /\ z * W = W * z
    OBVIOUS
  <2>. HIDE DEF X, z
  <2>. QED  BY <1>1, <1>3, <1>4, <1>5, <2>1, <2>2
<1>. QED
  <2>1. X * c \in Int
    OBVIOUS
  <2>. HIDE DEF z
  <2>. QED  BY <1>1, <1>6, <2>1, Cancel

\* ... at a gentle one, X being r * n, by the bound of BernoulliStep on the powers
LEMMA GentleDrop ==
    ASSUME NEW W \in Nat \ {0}, NEW X \in Nat \ {0},
           NEW D \in Nat \ {0}, NEW H \in Nat \ {0}, NEW P \in Nat, NEW c \in Int,
           W * W * H <= X * (W + X) * D,
           W * H * c >= P * D - W * H
    PROVE  X * (W + X) * (c + 1) >= P * W
<1>. DEFINE y == X * (W + X)
            z == W * H
<1>1. y \in Nat \ {0} /\ z \in Nat \ {0}
  OBVIOUS
<1>2. y * (z * (c + 1)) >= y * (P * D)
  <2>1. z * (c + 1) \in Int /\ P * D \in Int /\ z * (c + 1) >= P * D
    OBVIOUS
  <2>. HIDE DEF y, z
  <2>. QED  BY <1>1, <2>1, TimesMono
<1>3. P * (W * z) <= P * (y * D)
  <2>1. W * z \in Int /\ y * D \in Int /\ W * z <= y * D
    OBVIOUS
  <2>. HIDE DEF y, z
  <2>. QED  BY <2>1, TimesMono
<1>4. z * (P * W) <= z * (y * (c + 1))
  <2>1. y * (P * D) = P * (y * D) /\ P * (W * z) = z * (P * W)
        /\ y * (z * (c + 1)) = z * (y * (c + 1))
    OBVIOUS
  <2>2. y * (z * (c + 1)) \in Int /\ P * (y * D) \in Int /\ z * (P * W) \in Int
    OBVIOUS
  <2>. HIDE DEF y, z
  <2>. QED  BY <1>2, <1>3, <2>1, <2>2
<1>. QED
  <2>1. P * W \in Int /\ y * (c + 1) \in Int
    OBVIOUS
  <2>2. P * W <= y * (c + 1)
    <3>. HIDE DEF y, z
    <3>. QED  BY <1>1, <1>4, <2>1, Cancel
  <2>. QED  BY <2>2

\* if the interest of a period on the principal is a unit and a half or more;
LEMMA DropOfMany ==
    ASSUME NEW W \in Nat \ {0}, NEW X \in Nat \ {0}, NEW P \in Nat, NEW c \in Int,
           X < W, 8 * X <= P, 3 * W <= 2 * P,
           X * (W + X) * (c + 1) >= P * W
    PROVE  X * c >= W
<1>1. P * W >= (W + X) * (W + X)
  <2>1. (W + X) * (W + X) = W * W + 2 * (X * W) + X * X
    OBVIOUS
  <2>2. W * (3 * W) <= W * (2 * P) /\ W * (8 * X) <= W * P
    OBVIOUS
  <2>3. CASE P <= 2 * W
    <3>1. X * (4 * X) <= X * W
      BY <2>3
    <3>. QED  BY <2>1, <2>2, <3>1
  <2>4. CASE P > 2 * W
    <3>1. X * X <= X * W /\ W * (2 * W) <= W * P
      BY <2>4
    <3>. QED  BY <2>1, <2>2, <3>1
  <2>. QED  BY <2>3, <2>4
<1>2. (W + X) * (W + X) <= (W + X) * (X * (c + 1))
  <2>1. X * (W + X) * (c + 1) = (W + X) * (X * (c + 1)) /\ P * W \in Int
    OBVIOUS
  <2>2. (W + X) * (W + X) \in Int /\ (W + X) * (X * (c + 1)) \in Int
    OBVIOUS
  <2>. QED  BY <1>1, <2>1, <2>2
<1>3. W + X <= X * (c + 1)
  <2>1. W + X \in Nat \ {0} /\ X * (c + 1) \in Int
    OBVIOUS
  <2>. QED  BY <1>2, <2>1, Cancel
<1>. QED  BY <1>3

\* and if it is less than a unit, all but 1 / 2n of that interest.
LEMMA DropOfFew ==
    ASSUME NEW W \in Nat \ {0}, NEW X \in Nat \ {0}, NEW n \in Nat \ {0}, NEW P \in Nat,
           NEW c \in Int,
           P < W, 4 * n * X <= P,
           X * (W + X) * (c + 1) >= P * W
    PROVE  2 * n * (X * c) >= (2 * n - 1) * P
<1>. DEFINE Y == 2 * n * X
<1>1. Y \in Nat /\ 2 * Y <= P /\ X <= Y
  OBVIOUS
<1>2. P * W + P * X >= Y * P + Y * W + Y * X
  <2>. HIDE DEF Y
  <2>1. P * (2 * Y) <= P * W /\ W * (2 * Y) <= W * P
    BY <1>1
  <2>2. X * Y <= X * P
    BY <1>1
  <2>. QED  BY <1>1, <2>1, <2>2
<1>3. 2 * n * (X * (W + X) * (c + 1)) >= 2 * n * (P * W)
  <2>1. X * (W + X) * (c + 1) \in Int /\ P * W \in Int /\ 2 * n \in Nat
    OBVIOUS
  <2>. QED  BY <2>1, TimesMono
<1>4. (W + X) * (2 * n * (X * c))
        = 2 * n * (X * (W + X) * (c + 1)) - Y * W - Y * X
  OBVIOUS
<1>5. (W + X) * ((2 * n - 1) * P) = 2 * n * (P * W) + Y * P - P * W - P * X
  OBVIOUS
<1>6. (W + X) * ((2 * n - 1) * P) <= (W + X) * (2 * n * (X * c))
  <2>. HIDE DEF Y
  <2>1. /\ 2 * n * (X * (W + X) * (c + 1)) \in Int /\ 2 * n * (P * W) \in Int
        /\ Y * W \in Int /\ Y * X \in Int /\ Y * P \in Int /\ P * W \in Int /\ P * X \in Int
    BY <1>1
  <2>. QED  BY <1>2, <1>3, <1>4, <1>5, <2>1
<1>. QED
  <2>1. W + X \in Nat \ {0} /\ (2 * n - 1) * P \in Int /\ 2 * n * (X * c) \in Int
    OBVIOUS
  <2>. QED  BY <1>6, <2>1, Cancel

\* A quadratic form without zeros: a multiple of it is a square and a remainder.
LEMMA Discriminant ==
    ASSUME NEW W \in Nat \ {0}, NEW n \in Nat, n >= 2, NEW P \in Nat, P < W
    PROVE  2 * n * (2 * n - 1) * (P * P) + 2 * (n * n) * (W * W)
              > (2 * n - 1) * (P * W) + 4 * (n * n) * (P * W)
<1>1. CASE n = 2
  <2>1. (24 * P - 19 * W) * (24 * P - 19 * W) >= 0 /\ W * W > 0
    OBVIOUS
  <2>2. (24 * P - 19 * W) * (24 * P - 19 * W) = 576 * (P * P) - 912 * (P * W) + 361 * (W * W)
    OBVIOUS
  <2>3. P * P \in Int /\ P * W \in Int /\ W * W \in Int
    OBVIOUS
  <2>4. 12 * (P * P) + 8 * (W * W) > 19 * (P * W)
    BY <2>1, <2>2, <2>3
  <2>. QED  BY <1>1, <2>3, <2>4
<1>2. CASE n = 3
  <2>1. (60 * P - 41 * W) * (60 * P - 41 * W) >= 0 /\ W * W > 0
    OBVIOUS
  <2>2. (60 * P - 41 * W) * (60 * P - 41 * W) = 3600 * (P * P) - 4920 * (P * W) + 1681 * (W * W)
    OBVIOUS
  <2>3. P * P \in Int /\ P * W \in Int /\ W * W \in Int
    OBVIOUS
  <2>4. 30 * (P * P) + 18 * (W * W) > 41 * (P * W)
    BY <2>1, <2>2, <2>3
  <2>. QED  BY <1>2, <2>3, <2>4
<1>3. CASE n >= 4
  <2>. DEFINE s == n * (2 * P - W)
              a == P * P
              b == P * W
              d == W * W
  <2>1. s * s >= 0 /\ a <= b /\ b < d
    <3>1. s \in Int
      OBVIOUS
    <3>2. P * P <= P * W /\ W * P < W * W
      OBVIOUS
    <3>3. s * s >= 0
      <4>. HIDE DEF s
      <4>. QED  BY <3>1
    <3>. QED  BY <3>2, <3>3
  <2>2. s * s = 4 * (n * n) * a - 4 * (n * n) * b + (n * n) * d
    OBVIOUS
  <2>3. 2 * n * (2 * n - 1) * a = 4 * (n * n) * a - 2 * n * a
    OBVIOUS
  <2>4. (n * n) * d >= 4 * n * d
    <3>1. d * (n * n) >= d * (4 * n)
      <4>1. n * n >= 4 * n /\ n * n \in Int /\ 4 * n \in Int /\ d \in Nat
        BY <1>3
      <4>. HIDE DEF d
      <4>. QED  BY <4>1, TimesMono
    <3>. QED  BY <3>1
  <2>5. 2 * n * a <= 2 * n * d /\ (2 * n - 1) * b <= 2 * n * d - d
    <3>1. 2 * n * a <= 2 * n * d /\ (2 * n - 1) * b <= (2 * n - 1) * d
      <4>1. a \in Int /\ b \in Int /\ d \in Int /\ 2 * n \in Nat /\ 2 * n - 1 \in Nat
        OBVIOUS
      <4>. HIDE DEF a, b, d
      <4>2. a <= d /\ b <= d
        BY <2>1, <4>1
      <4>. QED  BY <4>1, <4>2, TimesMono
    <3>. QED  BY <3>1
  <2>6. d > 0
    OBVIOUS
  <2>7. /\ 2 * n * a \in Int /\ 2 * n * d \in Int /\ (2 * n - 1) * b \in Int /\ d \in Int
        /\ (n * n) * a \in Int /\ (n * n) * b \in Int /\ (n * n) * d \in Int
        /\ 4 * n * d = 2 * (2 * n * d)
    OBVIOUS
  <2>. QED
    <3>. HIDE DEF a, b, d, s
    <3>1. 2 * n * (2 * n - 1) * a + 2 * (n * n) * d > (2 * n - 1) * b + 4 * (n * n) * b
      <4>1. /\ 4 * (n * n) * a = 4 * ((n * n) * a) /\ 4 * (n * n) * b = 4 * ((n * n) * b)
            /\ 2 * (n * n) * d = 2 * ((n * n) * d)
        BY <2>7 DEF a, b, d
      <4>2. s * s \in Int
        BY <2>1 DEF s
      <4>. QED  BY <2>1, <2>2, <2>3, <2>4, <2>5, <2>6, <2>7, <4>1, <4>2
    <3>. QED  BY <3>1 DEF a, b, d
<1>. QED  BY <1>1, <1>2, <1>3

\* Where the interest of a period rounds to a unit at first (P / W is between a
\* half and one), the balance after t repayments of c bears one only if the flat
\* interest is t + 1 units or more.
LEMMA FewInstallments ==
    ASSUME NEW W \in Nat \ {0}, NEW r \in Nat \ {0}, NEW n \in Nat, n >= 2, NEW P \in Nat,
           NEW c \in Int, NEW t \in Nat,
           P < W, W <= 2 * P,
           2 * n * (r * n * c) >= (2 * n - 1) * P,
           2 * r * c * t <= 2 * P - W
    PROVE  2 * W * (t + 1) <= 2 * (n * P) + W
<1>. SUFFICES ASSUME 2 * W * (t + 1) > 2 * (n * P) + W PROVE FALSE
  OBVIOUS
<1>1. t * ((2 * n - 1) * P) <= t * (2 * n * (r * n * c))
  <2>1. (2 * n - 1) * P \in Int /\ 2 * n * (r * n * c) \in Int
    OBVIOUS
  <2>. QED  BY <2>1, TimesMono
<1>2. n * n * (2 * r * c * t) <= n * n * (2 * P - W)
  <2>1. 2 * r * c * t \in Int /\ 2 * P - W \in Int /\ n * n \in Nat
    OBVIOUS
  <2>. QED  BY <2>1, TimesMono
<1>3. t * ((2 * n - 1) * P) <= n * n * (2 * P - W)
  <2>1. t * (2 * n * (r * n * c)) = n * n * (2 * r * c * t)
    OBVIOUS
  <2>2. t * (2 * n * (r * n * c)) \in Int /\ t * ((2 * n - 1) * P) \in Int /\ n * n * (2 * P - W) \in Int
    OBVIOUS
  <2>. QED  BY <1>1, <1>2, <2>1, <2>2
<1>4. 2 * W * (t * ((2 * n - 1) * P)) <= 2 * W * (n * n * (2 * P - W))
  <2>1. t * ((2 * n - 1) * P) \in Int /\ n * n * (2 * P - W) \in Int /\ 2 * W \in Nat
    OBVIOUS
  <2>. QED  BY <1>3, <2>1, TimesMono
<1>5. ((2 * n - 1) * P) * (2 * (n * P) - W) <= ((2 * n - 1) * P) * (2 * W * t)
  <2>1. 2 * W * (t + 1) = 2 * W * t + 2 * W
    OBVIOUS
  <2>2. 2 * (n * P) - W \in Int /\ 2 * W * t \in Int /\ (2 * n - 1) * P \in Nat
    OBVIOUS
  <2>3. 2 * (n * P) - W <= 2 * W * t
    BY <2>1, <2>2
  <2>. QED  BY <2>2, <2>3, TimesMono
<1>6. ((2 * n - 1) * P) * (2 * (n * P) - W) = 2 * n * (2 * n - 1) * (P * P) - (2 * n - 1) * (P * W)
  OBVIOUS
<1>7. 2 * W * (n * n * (2 * P - W)) = 4 * (n * n) * (P * W) - 2 * (n * n) * (W * W)
  OBVIOUS
<1>8. ((2 * n - 1) * P) * (2 * W * t) = 2 * W * (t * ((2 * n - 1) * P))
  OBVIOUS
<1>9. 2 * n * (2 * n - 1) * (P * P) + 2 * (n * n) * (W * W)
        > (2 * n - 1) * (P * W) + 4 * (n * n) * (P * W)
  BY Discriminant
<1>10. /\ 2 * n * (2 * n - 1) * (P * P) \in Int /\ 2 * (n * n) * (W * W) \in Int
       /\ (2 * n - 1) * (P * W) \in Int /\ 4 * (n * n) * (P * W) \in Int
       /\ 2 * W * (t * ((2 * n - 1) * P)) \in Int
  OBVIOUS
<1>. QED  BY <1>4, <1>5, <1>6, <1>7, <1>8, <1>9, <1>10

-----------------------------------------------------------------------------
(* The schedule of an ample principal *)


\* A rounded quotient, by what it is multiplied with.
LEMMA RoundedIs ==
    ASSUME NEW a \in Int, NEW b \in Nat \ {0}
    PROVE  /\ RoundHalfUp(a, b) \in Int
           /\ 2 * b * RoundHalfUp(a, b) <= 2 * a + b
           /\ 2 * b * RoundHalfUp(a, b) > 2 * a - b
<1>1. PICK d \in Nat \ {0}, e \in Int : d = 2 * b /\ e = 2 * a + b
  OBVIOUS
<1>2. PICK q \in Int : q = e \div d /\ d * q <= e /\ e < d * q + d
  BY Quotient
<1>3. RoundHalfUp(a, b) = q
  BY <1>1, <1>2 DEF RoundHalfUp
<1>. QED  BY <1>1, <1>2, <1>3

\* ... and the largest integer that is not above it by more than half a unit.
LEMMA RoundedAtLeast ==
    ASSUME NEW a \in Int, NEW b \in Nat \ {0}, NEW z \in Int, 2 * b * z <= 2 * a + b
    PROVE  z <= RoundHalfUp(a, b)
<1>1. PICK q \in Int : q = RoundHalfUp(a, b) /\ 2 * b * q > 2 * a - b
  BY RoundedIs
<1>2. (2 * b) * z < (2 * b) * (q + 1)
  <2>1. (2 * b) * (q + 1) = 2 * b * q + 2 * b
    OBVIOUS
  <2>2. 2 * b * q \in Int /\ 2 * b * z \in Int
    OBVIOUS
  <2>. QED  BY <1>1, <2>1, <2>2
<1>3. z < q + 1
  BY <1>2
<1>. QED  BY <1>1, <1>3

\* f holds the powers of b up to the n-th.
Powers(f, b, n) ==
    /\ f \in [0..n -> Nat]
    /\ f[0] = 1
    /\ \A k \in 1..n : f[k] = b * f[k - 1]
    /\ Power(b, n) = f[n]

LEMMA PowersAre ==
    ASSUME NEW b \in Nat, NEW n \in Nat
    PROVE  \E f : Powers(f, b, n)
BY PowersExist DEF Powers

\* The powers of b + r and of b, up to the k-th: the larger is not far from the
\* smaller (MeanStep) and, for a small r, at most a quadratic (BernoulliStep).
LEMMA PowersApart ==
    ASSUME NEW b \in Nat \ {0}, NEW r \in Nat, NEW n \in Nat, NEW f, NEW g,
           Powers(f, b, n), Powers(g, b + r, n), NEW k \in 0..n
    PROVE  /\ f[k] >= 1 /\ g[k] >= f[k]
           /\ (g[k] - f[k]) * (b + r) <= k * r * g[k]
           /\ n * r <= b => b * b * g[k] <= (b * b + k * r * b + k * r * (k * r)) * f[k]
<1>. DEFINE Near(m) ==
              /\ f[m] >= 1 /\ g[m] >= f[m]
              /\ (g[m] - f[m]) * (b + r) <= m * r * g[m]
              /\ n * r <= b => b * b * g[m] <= (b * b + m * r * b + m * r * (m * r)) * f[m]
            T == {m \in Nat : m <= n => Near(m)}
<1>1. 0 \in T
  BY DEF Powers
<1>2. ASSUME NEW m \in Nat, m \in T
      PROVE  m + 1 \in T
  <2>. SUFFICES ASSUME m + 1 <= n PROVE Near(m + 1)
    OBVIOUS
  <2>1. m + 1 \in 1..n /\ (m + 1) - 1 = m /\ m \in 0..n /\ m + 1 \in 0..n
    OBVIOUS
  <2>2. PICK w \in Nat, q \in Nat : w = f[m] /\ q = g[m]
    BY <2>1 DEF Powers
  <2>3. f[m + 1] = b * w /\ g[m + 1] = (b + r) * q
    BY <2>1, <2>2 DEF Powers
  <2>4. w >= 1 /\ q >= w /\ (q - w) * (b + r) <= m * r * q
    BY <1>2, <2>1, <2>2
  <2>5. b * w >= 1 /\ (b + r) * q >= b * w
    <3>1. b * q >= b * w /\ r * q >= 0 /\ (b + r) * q = b * q + r * q /\ b * w >= w
      BY <2>4
    <3>2. b * q \in Int /\ r * q \in Int /\ b * w \in Int
      OBVIOUS
    <3>. QED  BY <2>4, <3>1, <3>2
  <2>6. ((b + r) * q - b * w) * (b + r) <= (m + 1) * r * ((b + r) * q)
    BY <2>4, MeanStep
  <2>7. n * r <= b =>
          b * b * ((b + r) * q)
            <= (b * b + (m + 1) * r * b + (m + 1) * r * ((m + 1) * r)) * (b * w)
    <3>. SUFFICES ASSUME n * r <= b
                  PROVE  b * b * ((b + r) * q)
                           <= (b * b + (m + 1) * r * b + (m + 1) * r * ((m + 1) * r)) * (b * w)
      OBVIOUS
    <3>1. m * r <= b
      <4>1. r * m <= r * n
        BY TimesMono
      <4>. QED  BY <4>1
    <3>2. b * b * q <= (b * b + m * r * b + m * r * (m * r)) * w
      BY <1>2, <2>1, <2>2
    <3>. QED  BY <3>1, <3>2, BernoulliStep
  <2>. QED  BY <2>3, <2>5, <2>6, <2>7
<1>3. T = Nat
  <2>. HIDE DEF T
  <2>1. T \subseteq Nat
    BY DEF T
  <2>. QED  BY <1>1, <1>2, <2>1, NatInductiveSet
<1>. QED  BY <1>3

\* The balances before each installment, none above the principal.
BalancesOf(o, p, rate, n) ==
    o \in [1..n -> {b \in Int : b <= p}] /\ AreOpenings(o, p, rate, n)

\* What becomes of the balance with the k-th installment.
Falls(o, p, rate, n, k) ==
    /\ o[k] \in Int /\ o[k] <= p /\ InterestOn(o[k], rate, n) \in Int
    /\ InterestOn(o[k], rate, n) <= InterestOn(p, rate, n)
    /\ InterestOn(p, rate, n) \in Int /\ InstallmentAmount(p, rate, n) \in Nat
    /\ k # n =>
         /\ o[k + 1] = o[k] + InterestOn(o[k], rate, n) - InstallmentAmount(p, rate, n)
         /\ o[k + 1] <= o[k]

LEMMA OpeningsFall ==
    ASSUME NEW p \in Nat, NEW rate \in Nat, NEW n \in Nat \ {0},
           NEW o, BalancesOf(o, p, rate, n), NEW k \in 1..n
    PROVE  Falls(o, p, rate, n, k)
<1>1. PICK b \in Int : b = o[k] /\ b <= p
  BY DEF BalancesOf
<1>2. PICK a \in Nat : a = InstallmentAmount(p, rate, n)
  BY AmountCoversInterest
<1>3. p \in Int /\ p <= p
  OBVIOUS
<1>4. /\ InterestOn(b, rate, n) \in Int /\ InterestOn(p, rate, n) \in Int
      /\ InterestOn(b, rate, n) <= InterestOn(p, rate, n)
  BY <1>1, <1>3, InterestWithinAmount
<1>5. ASSUME k # n
      PROVE  o[k + 1] = o[k] + InterestOn(o[k], rate, n) - a /\ o[k + 1] <= o[k]
  <2>1. k + 1 \in 2..n /\ (k + 1) - 1 = k
    BY <1>5
  <2>2. o[k + 1] = b - Repaid(a, b, rate, n, k)
    BY <1>1, <1>2, <2>1 DEF BalancesOf, AreOpenings
  <2>3. RepaidRightly(a, b, rate, n, k)
    <3>1. k \in Nat
      OBVIOUS
    <3>. QED  BY <1>1, <1>2, <3>1, RepaidIs
  <2>. QED  BY <1>1, <1>4, <1>5, <2>2, <2>3 DEF RepaidRightly
<1>. QED  BY <1>1, <1>2, <1>4, <1>5 DEF Falls

\* Every installment but the last repays at least what the first does, c, so that
\* the balances fall at least that fast, and the last one is the least.
LEMMA OpeningsDrop ==
    ASSUME NEW p \in Nat, NEW rate \in Nat, NEW n \in Nat \ {0},
           NEW o, BalancesOf(o, p, rate, n),
           NEW c \in Int, c = InstallmentAmount(p, rate, n) - InterestOn(p, rate, n),
           NEW k \in 1..n
    PROVE  o[k] <= p - (k - 1) * c /\ o[n] <= o[k]
<1>1. ASSUME NEW i \in 1..n
      PROVE  /\ o[i] \in Int /\ InterestOn(o[i], rate, n) \in Int
             /\ InterestOn(o[i], rate, n) <= InterestOn(p, rate, n)
             /\ InterestOn(p, rate, n) \in Int /\ InstallmentAmount(p, rate, n) \in Nat
             /\ i # n =>
                  /\ o[i + 1] = o[i] + InterestOn(o[i], rate, n)
                                   - InstallmentAmount(p, rate, n)
                  /\ o[i + 1] <= o[i]
  BY OpeningsFall DEF Falls
<1>2. o[1] = p
  BY DEF BalancesOf, AreOpenings
<1>. DEFINE T == {m \in Nat : m + 1 <= n => o[m + 1] <= p - m * c}
            U == {m \in Nat : m < n => o[n] <= o[n - m]}
<1>3. T = Nat
  <2>1. 0 \in T
    BY <1>2
  <2>2. ASSUME NEW m \in Nat, m \in T
        PROVE  m + 1 \in T
    <3>. SUFFICES ASSUME (m + 1) + 1 <= n PROVE o[(m + 1) + 1] <= p - (m + 1) * c
      OBVIOUS
    <3>1. m + 1 \in 1..n /\ m + 1 # n /\ m + 1 <= n
      OBVIOUS
    <3>2. PICK x \in Int : x = o[m + 1]
      BY <1>1, <3>1
    <3>6. PICK i \in Int : i = InterestOn(x, rate, n)
      BY <1>1, <3>1, <3>2
    <3>7. PICK j \in Int, a \in Int : j = InterestOn(p, rate, n) /\ a = InstallmentAmount(p, rate, n)
      BY <1>1, <3>1
    <3>3. o[(m + 1) + 1] = x + i - a /\ i <= j /\ c = a - j
      BY <1>1, <3>1, <3>2, <3>6, <3>7
    <3>4. x <= p - m * c
      BY <2>2, <3>1, <3>2
    <3>5. PICK y \in Int : y = m * c /\ (m + 1) * c = y + c
      OBVIOUS
    <3>8. x <= p - y
      BY <3>4, <3>5
    <3>. QED  BY <3>3, <3>5, <3>8
  <2>. HIDE DEF T
  <2>3. T \subseteq Nat
    BY DEF T
  <2>. QED  BY <2>1, <2>2, <2>3, NatInductiveSet
<1>4. U = Nat
  <2>1. 0 \in U
    <3>1. n - 0 = n /\ n \in 1..n
      OBVIOUS
    <3>. QED  BY <1>1, <3>1
  <2>2. ASSUME NEW m \in Nat, m \in U
        PROVE  m + 1 \in U
    <3>. SUFFICES ASSUME m + 1 < n PROVE o[n] <= o[n - (m + 1)]
      OBVIOUS
    <3>1. n - (m + 1) \in 1..n /\ n - (m + 1) # n /\ (n - (m + 1)) + 1 = n - m /\ m < n
          /\ n - m \in 1..n /\ n \in 1..n
      OBVIOUS
    <3>2. o[n - m] <= o[n - (m + 1)] /\ o[n - m] \in Int /\ o[n - (m + 1)] \in Int /\ o[n] \in Int
      BY <1>1, <3>1
    <3>3. o[n] <= o[n - m]
      BY <2>2, <3>1
    <3>. QED  BY <3>2, <3>3
  <2>. HIDE DEF U
  <2>3. U \subseteq Nat
    BY DEF U
  <2>. QED  BY <2>1, <2>2, <2>3, NatInductiveSet
<1>5. k - 1 \in Nat /\ n - k \in Nat /\ (k - 1) + 1 = k /\ n - (n - k) = k /\ n - k < n /\ k <= n
  OBVIOUS
<1>6. k - 1 \in T /\ n - k \in U
  <2>. HIDE DEF T, U
  <2>. QED  BY <1>3, <1>4, <1>5
<1>. QED  BY <1>5, <1>6

\* The annuity of a rate that is not nothing, by what it was rounded from.
AnnuityOf(W, G, D, A, p, rate, n) ==
    /\ W = Unit * n /\ G = Power(W + rate, n) /\ D = Power(W, n)
    /\ A = InstallmentAmount(p, rate, n)
    /\ W \in Nat \ {0} /\ G \in Nat /\ D \in Nat /\ G - D \in Nat \ {0} /\ A \in Nat
    /\ 2 * (W * (G - D)) * A <= 2 * (p * rate * G) + W * (G - D)
    /\ 2 * (W * (G - D)) * A > 2 * (p * rate * G) - W * (G - D)

LEMMA AnnuityExists ==
    ASSUME NEW p \in Nat, NEW rate \in Nat \ {0}, NEW n \in Nat \ {0}
    PROVE  \E W, G, D, A : AnnuityOf(W, G, D, A, p, rate, n)
<1>1. PICK W \in Nat \ {0} : W = Unit * n
  BY ScheduleConstants
<1>2. PICK G, D : G = Power(W + rate, n) /\ D = Power(W, n)
  OBVIOUS
<1>3. PICK A \in Nat : A = InstallmentAmount(p, rate, n)
  BY AmountCoversInterest
<1>4. D \in Nat /\ G \in Nat /\ D < G
  <2>1. W + rate \in Nat /\ W < W + rate
    BY <1>1
  <2>. QED  BY <1>1, <1>2, <2>1, PowersGrow
<1>5. G - D \in Nat \ {0}
  BY <1>4
<1>6. A = RoundHalfUp(p * rate * G, W * (G - D))
  BY <1>1, <1>2, <1>3 DEF InstallmentAmount
<1>7. /\ 2 * (W * (G - D)) * A <= 2 * (p * rate * G) + W * (G - D)
      /\ 2 * (W * (G - D)) * A > 2 * (p * rate * G) - W * (G - D)
  <2>1. PICK b \in Nat \ {0} : b = W * (G - D)
    BY <1>1, <1>5
  <2>2. PICK a \in Nat : a = p * rate * G
    BY <1>4
  <2>3. A = RoundHalfUp(a, b)
    BY <1>6, <2>1, <2>2
  <2>4. 2 * b * A <= 2 * a + b /\ 2 * b * A > 2 * a - b
    <3>1. a \in Int /\ b \in Nat \ {0}
      OBVIOUS
    <3>2. /\ 2 * b * RoundHalfUp(a, b) <= 2 * a + b
          /\ 2 * b * RoundHalfUp(a, b) > 2 * a - b
      BY <3>1, RoundedIs
    <3>. QED  BY <2>3, <3>2
  <2>. QED  BY <2>1, <2>2, <2>4
<1>. QED  BY <1>1, <1>2, <1>3, <1>4, <1>5, <1>7 DEF AnnuityOf

\* The interest of a period, by what it was rounded from.
LEMMA InterestIs ==
    ASSUME NEW W \in Nat \ {0}, NEW n \in Nat \ {0}, W = Unit * n,
           NEW b \in Int, NEW rate \in Nat
    PROVE  /\ InterestOn(b, rate, n) \in Int
           /\ 2 * W * InterestOn(b, rate, n) <= 2 * rate * b + W
           /\ 2 * W * InterestOn(b, rate, n) > 2 * rate * b - W
<1>1. PICK a \in Int : a = b * rate
  OBVIOUS
<1>2. InterestOn(b, rate, n) = RoundHalfUp(a, W)
  BY <1>1 DEF InterestOn
<1>3. 2 * rate * b = 2 * a
  BY <1>1
<1>. QED  BY <1>1, <1>2, <1>3, RoundedIs

\* Nothing is repaid beyond what is owed, at a rate that is not nothing.  What
\* the roundings have added up to is at most what one unit per installment
\* would have grown to.
LEMMA LastIsOwed ==
    ASSUME NEW p \in Nat, NEW rate \in Nat \ {0}, NEW n \in Nat \ {0},
           NEW o, BalancesOf(o, p, rate, n), Ample(p, rate, n)
    PROVE  o[n] >= 0
<1>1. PICK W, G, D, A : AnnuityOf(W, G, D, A, p, rate, n)
  BY AnnuityExists
<1>2. /\ W = Unit * n /\ G = Power(W + rate, n) /\ D = Power(W, n)
      /\ A = InstallmentAmount(p, rate, n)
      /\ W \in Nat \ {0} /\ G \in Nat /\ D \in Nat /\ A \in Nat
      /\ 2 * (W * (G - D)) * A <= 2 * (p * rate * G) + W * (G - D)
  BY <1>1 DEF AnnuityOf
<1>3. PICK H \in Nat \ {0} : H = G - D
  BY <1>1 DEF AnnuityOf
<1>4. PICK P \in Nat : P = p * rate
  OBVIOUS
<1>5. PICK f : Powers(f, W, n)
  <2>1. W \in Nat
    BY <1>2
  <2>. QED  BY <2>1, PowersAre
<1>6. PICK g : Powers(g, W + rate, n)
  <2>1. W + rate \in Nat
    BY <1>2
  <2>. QED  BY <2>1, PowersAre
<1>7. ASSUME NEW k \in 0..n
      PROVE  /\ f[k] \in Nat /\ g[k] \in Nat
             /\ f[k] >= 1 /\ g[k] >= f[k]
             /\ (g[k] - f[k]) * (W + rate) <= k * rate * g[k]
             /\ k # 0 => f[k] = W * f[k - 1] /\ g[k] = (W + rate) * g[k - 1]
  <2>1. f[k] >= 1 /\ g[k] >= f[k] /\ (g[k] - f[k]) * (W + rate) <= k * rate * g[k]
    BY <1>2, <1>5, <1>6, PowersApart
  <2>. QED  BY <1>5, <1>6, <2>1 DEF Powers
<1>8. f[0] = 1 /\ g[0] = 1 /\ f[n] = D /\ g[n] = G
  BY <1>2, <1>5, <1>6 DEF Powers
<1>. DEFINE Bounded(m) ==
              rate * H * f[m] * o[m + 1]
                >= P * (G * f[m] - D * g[m]) - (g[m] - f[m]) * W * H
            T == {m \in Nat : m < n => Bounded(m)}
<1>9. T = Nat
  <2>1. 0 \in T
    <3>1. o[0 + 1] = p
      BY DEF BalancesOf, AreOpenings
    <3>2. rate * H * 1 * p >= P * (G * 1 - D * 1) - (1 - 1) * W * H
      BY <1>2, <1>3, <1>4
    <3>. QED  BY <1>8, <3>1, <3>2
  <2>2. ASSUME NEW m \in Nat, m \in T
        PROVE  m + 1 \in T
    <3>. SUFFICES ASSUME m + 1 < n PROVE Bounded(m + 1)
      OBVIOUS
    <3>1. m + 1 \in 1..n /\ m + 1 # n /\ m < n /\ m \in 0..n /\ m + 1 \in 0..n
          /\ (m + 1) - 1 = m /\ m + 1 # 0
      OBVIOUS
    <3>2. PICK w \in Nat, q \in Nat : w = f[m] /\ q = g[m]
      BY <1>7, <3>1
    <3>3. f[m + 1] = W * w /\ g[m + 1] = (W + rate) * q
      BY <1>7, <3>1, <3>2
    <3>4. Falls(o, p, rate, n, m + 1)
      BY <3>1, OpeningsFall
    <3>5. PICK B \in Int : B = o[m + 1]
      BY <3>4 DEF Falls
    <3>6. PICK I \in Int : I = InterestOn(B, rate, n)
      BY <3>4, <3>5 DEF Falls
    <3>7. o[(m + 1) + 1] = B + I - A
      BY <1>2, <3>1, <3>4, <3>5, <3>6 DEF Falls
    <3>8. 2 * W * I >= 2 * rate * B - W
      <4>1. 2 * W * I > 2 * rate * B - W
        BY <1>2, <3>6, InterestIs
      <4>2. 2 * W * I \in Int /\ 2 * rate * B - W \in Int
        BY <1>2
      <4>. QED  BY <4>1, <4>2
    <3>9. rate * H * w * B >= P * (G * w - D * q) - (q - w) * W * H
      BY <2>2, <3>1, <3>2, <3>5
    <3>10. 2 * (W * H) * A <= 2 * (P * G) + W * H
      BY <1>2, <1>3, <1>4
    <3>11. rate * H * (W * w) * (B + I - A)
             >= P * (G * (W * w) - D * ((W + rate) * q)) - ((W + rate) * q - W * w) * W * H
      BY <1>2, <3>8, <3>9, <3>10, BalanceStep
    <3>. QED  BY <3>3, <3>7, <3>11
  <2>. HIDE DEF T
  <2>3. T \subseteq Nat
    BY DEF T
  <2>. QED  BY <2>1, <2>2, <2>3, NatInductiveSet
<1>10. n - 1 \in 0..n /\ n \in 0..n /\ n # 0 /\ (n - 1) + 1 = n /\ n - 1 \in Nat /\ n - 1 < n
  OBVIOUS
<1>11. Bounded(n - 1)
  <2>1. n - 1 \in T
    <3>. HIDE DEF T
    <3>. QED  BY <1>9, <1>10
  <2>. QED  BY <1>10, <2>1
<1>12. PICK w \in Nat, q \in Nat : w = f[n - 1] /\ q = g[n - 1]
  BY <1>7, <1>10
<1>13. D = W * w /\ G = (W + rate) * q
  BY <1>7, <1>8, <1>10, <1>12
<1>14. o[n] \in Int
  <2>1. n \in 1..n
    OBVIOUS
  <2>. QED  BY <2>1, OpeningsFall DEF Falls
<1>15. P * (G * w - D * q) = p * rate * (rate * q * w)
  BY <1>2, <1>4, <1>13
<1>16. p * rate * (rate * q * w) >= (q - w) * W * H
  <2>1. q >= w /\ (q - w) * (W + rate) <= (n - 1) * rate * q
    BY <1>7, <1>10, <1>12
  <2>2. H * (W + rate) <= n * rate * ((W + rate) * q)
    BY <1>3, <1>7, <1>8, <1>10, <1>13
  <2>3. 4 * n * n * ((W + rate) * q) <= p * (W * w)
    BY <1>2, <1>13 DEF Ample
  <2>. QED  BY <1>2, <2>1, <2>2, <2>3, LastBalance
<1>17. rate * H * w * o[n] >= 0
  <2>1. rate * H * w * o[n] >= P * (G * w - D * q) - (q - w) * W * H
    BY <1>10, <1>11, <1>12
  <2>2. /\ p * rate * (rate * q * w) \in Int /\ (q - w) * W * H \in Int
        /\ rate * H * w * o[n] \in Int
    BY <1>2, <1>14
  <2>. QED  BY <1>15, <1>16, <2>1, <2>2
<1>18. w >= 1
  BY <1>7, <1>10, <1>12
<1>. QED
  <2>1. rate * H * w \in Nat \ {0}
    BY <1>18
  <2>2. (rate * H * w) * 0 <= (rate * H * w) * o[n]
    BY <1>17
  <2>. QED  BY <1>14, <2>1, <2>2, Cancel

\* An ample principal is large, whatever the rate.
LEMMA AmpleIsLarge ==
    ASSUME NEW p \in Nat, NEW rate \in Nat, NEW n \in Nat \ {0}, Ample(p, rate, n)
    PROVE  p >= 4 * n * n
<1>1. PICK W \in Nat \ {0} : W = Unit * n
  BY ScheduleConstants
<1>2. PICK f : Powers(f, W, n)
  BY PowersAre
<1>3. PICK g : Powers(g, W + rate, n)
  <2>1. W + rate \in Nat
    OBVIOUS
  <2>. QED  BY <2>1, PowersAre
<1>4. n \in 0..n
  OBVIOUS
<1>5. PICK D \in Nat, G \in Nat : D = Power(W, n) /\ G = Power(W + rate, n) /\ D >= 1 /\ G >= D
  <2>1. f[n] \in Nat /\ g[n] \in Nat /\ Power(W, n) = f[n] /\ Power(W + rate, n) = g[n]
    BY <1>2, <1>3, <1>4 DEF Powers
  <2>2. f[n] >= 1 /\ g[n] >= f[n]
    BY <1>2, <1>3, <1>4, PowersApart
  <2>. QED  BY <2>1, <2>2
<1>6. 4 * n * n * G <= p * D
  BY <1>1, <1>5 DEF Ample
<1>7. (4 * n * n) * D <= (4 * n * n) * G
  <2>1. 4 * n * n \in Nat
    OBVIOUS
  <2>. QED  BY <1>5, <2>1, TimesMono
<1>8. D * (4 * n * n) <= D * p
  <2>1. (4 * n * n) * D = D * (4 * n * n) /\ p * D = D * p
    OBVIOUS
  <2>2. (4 * n * n) * D \in Int /\ (4 * n * n) * G \in Int /\ p * D \in Int
    OBVIOUS
  <2>. QED  BY <1>6, <1>7, <2>1, <2>2
<1>9. 4 * n * n \in Int /\ D \in Nat \ {0}
  BY <1>5
<1>10. 4 * n * n <= p
  BY <1>8, <1>9, Cancel
<1>. QED  BY <1>10

\* What the first installment repays, and no later one less: c.
\* At a steep rate or on a large principal, the flat interest on c is a unit.
LEMMA FirstRepays ==
    ASSUME NEW p \in Nat, NEW rate \in Nat \ {0}, NEW n \in Nat, n >= 2,
           Ample(p, rate, n), NEW W, W = Unit * n, NEW c,
           c = InstallmentAmount(p, rate, n) - InterestOn(p, rate, n)
    PROVE  /\ W \in Nat \ {0} /\ c \in Nat
           /\ 4 * n * (rate * n) <= p * rate
           /\ W <= rate * n \/ 3 * W <= 2 * (p * rate) => rate * n * c >= W
           /\ rate * n < W \/ W <= p * rate
           /\ rate * n < W /\ p * rate < W => 2 * n * (rate * n * c) >= (2 * n - 1) * (p * rate)
<1>1. PICK V, G, D, A : AnnuityOf(V, G, D, A, p, rate, n)
  <2>1. n \in Nat \ {0}
    OBVIOUS
  <2>. QED  BY <2>1, AnnuityExists
<1>2. /\ W = Unit * n /\ G = Power(W + rate, n) /\ D = Power(W, n)
      /\ A = InstallmentAmount(p, rate, n)
      /\ W \in Nat \ {0} /\ G \in Nat /\ D \in Nat /\ A \in Nat
      /\ 2 * (W * (G - D)) * A > 2 * (p * rate * G) - W * (G - D)
  BY <1>1 DEF AnnuityOf
<1>3. PICK H \in Nat \ {0} : H = G - D
  BY <1>1 DEF AnnuityOf
<1>4. PICK P \in Nat, X \in Nat \ {0} : P = p * rate /\ X = rate * n
  OBVIOUS
<1>5. PICK f : Powers(f, W, n)
  <2>1. W \in Nat
    BY <1>2
  <2>. QED  BY <2>1, PowersAre
<1>6. PICK g : Powers(g, W + rate, n)
  <2>1. W + rate \in Nat
    BY <1>2
  <2>. QED  BY <2>1, PowersAre
<1>7. D >= 1 /\ G >= D
      /\ (n * rate <= W => W * W * G <= (W * W + n * rate * W + n * rate * (n * rate)) * D)
  <2>1. n \in 0..n /\ f[n] = D /\ g[n] = G
    BY <1>2, <1>5, <1>6 DEF Powers
  <2>2. /\ f[n] >= 1 /\ g[n] >= f[n]
        /\ n * rate <= W => W * W * g[n] <= (W * W + n * rate * W + n * rate * (n * rate)) * f[n]
    BY <1>2, <1>5, <1>6, <2>1, PowersApart
  <2>. QED  BY <2>1, <2>2
<1>8. 4 * n * n * G <= p * D
  BY <1>2 DEF Ample
<1>9. c \in Nat /\ W * H * c >= P * D - W * H
  <2>1. PICK I \in Int : I = InterestOn(p, rate, n) /\ I <= A /\ 2 * W * I <= 2 * rate * p + W
    <3>1. /\ InterestOn(p, rate, n) \in Int
          /\ 2 * W * InterestOn(p, rate, n) <= 2 * rate * p + W
      <4>1. n \in Nat \ {0} /\ p \in Int /\ W \in Nat \ {0}
        BY <1>2
      <4>. QED  BY <4>1, InterestIs
    <3>2. InterestOn(p, rate, n) <= A
      BY <1>2, AmountCoversInterest
    <3>. QED  BY <3>1, <3>2
  <2>2. c = A - I
    BY <1>2, <2>1
  <2>3. H * (2 * W * I) <= H * (2 * rate * p + W)
    <3>1. 2 * W * I \in Int /\ 2 * rate * p + W \in Int
      BY <1>2
    <3>. QED  BY <2>1, <3>1, TimesMono
  <2>4. 2 * (W * H) * A > 2 * (P * G) - W * H
    BY <1>2, <1>3, <1>4
  <2>5. P * G = P * H + P * D
    BY <1>2, <1>3
  <2>6. H * (2 * W * I) = 2 * (W * H) * I /\ H * (2 * rate * p + W) = 2 * (P * H) + W * H
    BY <1>2, <1>4
  <2>7. 2 * (W * H * c) = 2 * (W * H) * A - 2 * (W * H) * I
    BY <1>2, <2>2
  <2>8. /\ 2 * (W * H) * A \in Int /\ 2 * (W * H) * I \in Int /\ P * H \in Int /\ P * D \in Int
        /\ W * H \in Int /\ W * H * c \in Int
    BY <1>2, <2>2
  <2>9. 2 * (W * H * c) > 2 * (P * D) - 2 * (W * H)
    BY <2>3, <2>4, <2>5, <2>6, <2>7, <2>8
  <2>. QED  BY <1>2, <2>1, <2>2, <2>8, <2>9
<1>10. p >= 4 * n * n
  <2>1. n \in Nat \ {0}
    OBVIOUS
  <2>. QED  BY <2>1, AmpleIsLarge
<1>11. 4 * n * X <= P
  <2>1. rate * (4 * n * n) <= rate * p
    <3>1. 4 * n * n \in Int /\ 4 * n * n <= p
      BY <1>10
    <3>. QED  BY <3>1, TimesMono
  <2>. QED  BY <1>4, <2>1
<1>12. 8 * X <= P
  <2>1. X * 2 <= X * n
    BY <1>4
  <2>2. 4 * n * X = 4 * (X * n) /\ X * n \in Int
    BY <1>4
  <2>. QED  BY <1>4, <1>11, <2>1, <2>2
<1>13. X < W => X * (W + X) * (c + 1) >= P * W
  <2>. SUFFICES ASSUME X < W PROVE X * (W + X) * (c + 1) >= P * W
    OBVIOUS
  <2>1. n * rate = X
    BY <1>4
  <2>2. W * W * G <= (W * W + X * W + X * X) * D
    <3>1. n * rate <= W
      BY <2>1
    <3>. QED  BY <1>7, <2>1, <3>1
  <2>3. W * W * H <= X * (W + X) * D
    <3>1. W * W * H = W * W * G - W * W * D
      BY <1>2, <1>3
    <3>2. (W * W + X * W + X * X) * D = W * W * D + X * (W + X) * D
      BY <1>2
    <3>3. W * W * G \in Int /\ W * W * D \in Int /\ X * (W + X) * D \in Int
      BY <1>2
    <3>. QED  BY <2>2, <3>1, <3>2, <3>3
  <2>4. D \in Nat \ {0} /\ c \in Int
    BY <1>2, <1>7, <1>9
  <2>. QED  BY <1>2, <1>9, <2>3, <2>4, GentleDrop
<1>14. W <= X => X * c >= W
  <2>. SUFFICES ASSUME W <= X PROVE X * c >= W
    OBVIOUS
  <2>1. W * H * c >= p * rate * D - W * H
    BY <1>4, <1>9
  <2>2. H <= G /\ W <= rate * n /\ n \in Nat \ {0} /\ c \in Int
    BY <1>2, <1>3, <1>4, <1>9
  <2>3. rate * n * c >= W
    BY <1>2, <1>8, <2>1, <2>2, SteepDrop
  <2>. QED  BY <1>4, <2>3
<1>15. X < W /\ 3 * W <= 2 * P => X * c >= W
  <2>1. c \in Int
    BY <1>9
  <2>. QED  BY <1>2, <1>12, <1>13, <2>1, DropOfMany
<1>16. X < W \/ W <= P
  BY <1>2, <1>4, <1>12
<1>17. X < W /\ P < W => 2 * n * (X * c) >= (2 * n - 1) * P
  <2>1. c \in Int /\ n \in Nat \ {0}
    BY <1>9
  <2>. QED  BY <1>2, <1>11, <1>13, <2>1, DropOfFew
<1>. QED
  <2>1. X < W \/ W <= X
    BY <1>2
  <2>2. rate * n = X /\ p * rate = P
    BY <1>4
  <2>3. rate * n * c = X * c
    BY <2>2
  <2>. QED  BY <1>2, <1>9, <1>11, <1>14, <1>15, <1>16, <1>17, <2>1, <2>2, <2>3

\* The interest on the balances, added up: where the flat interest on c is a unit
\* or more, what it takes off the later installments outweighs their roundings.
LEMMA InterestWithin ==
    ASSUME NEW p \in Nat, NEW rate \in Nat, NEW n \in Nat \ {0}, NEW o,
           NEW x, \A k \in 1..n : x[k] = InterestOn(o[k], rate, n) /\ x[k] \in Int,
           NEW W \in Nat \ {0}, W = Unit * n, NEW c \in Int, rate * n * c >= W,
           \A k \in 1..n : o[k] \in Int /\ o[k] <= p - (k - 1) * c
    PROVE  2 * W * SumFunctionOnSet(x, 1..n) <= 2 * (n * (p * rate)) + W
<1>. DEFINE P == p * rate
            e == rate * c
            s == [k \in 0..n |-> k * (2 * P + W) - e * (k * (k - 1))]
<1>1. P \in Int /\ e \in Int /\ 2 * W \in Nat
  OBVIOUS
<1>2. s \in [0..n -> Int] /\ s[0] = 0
  <2>. HIDE DEF P, e
  <2>. QED  BY <1>1
<1>3. ASSUME NEW k \in 1..n
      PROVE  x[k] \in Int /\ 2 * W * x[k] <= s[k] - s[k - 1]
  <2>1. PICK b \in Int : b = o[k] /\ b <= p - (k - 1) * c
    OBVIOUS
  <2>2. x[k] \in Int /\ 2 * W * x[k] <= 2 * rate * b + W
    <3>1. 2 * W * InterestOn(b, rate, n) <= 2 * rate * b + W
      BY InterestIs
    <3>. QED  BY <2>1, <3>1
  <2>3. 2 * rate * b <= 2 * P - 2 * (e * (k - 1))
    <3>1. rate * b <= rate * (p - (k - 1) * c)
      <4>1. p - (k - 1) * c \in Int
        OBVIOUS
      <4>. QED  BY <2>1, <4>1, TimesMono
    <3>2. rate * (p - (k - 1) * c) = P - e * (k - 1)
      OBVIOUS
    <3>. HIDE DEF P, e
    <3>. QED  BY <1>1, <3>1, <3>2
  <2>4. k \in 0..n /\ k - 1 \in 0..n
    OBVIOUS
  <2>5. /\ s[k] = k * (2 * P + W) - e * (k * (k - 1))
        /\ s[k - 1] = (k - 1) * (2 * P + W) - e * ((k - 1) * ((k - 1) - 1))
    BY <2>4
  <2>6. s[k] - s[k - 1] = (2 * P + W) - 2 * (e * (k - 1))
    <3>. HIDE DEF P, e, s
    <3>. QED  BY <1>1, <2>5
  <2>7. 2 * W * x[k] <= (2 * P + W) - 2 * (e * (k - 1))
    <3>1. 2 * W * x[k] \in Int /\ 2 * rate * b \in Int /\ e * (k - 1) \in Int
      BY <1>1, <2>2
    <3>. HIDE DEF P, e, s
    <3>. QED  BY <1>1, <2>2, <2>3, <3>1
  <2>. QED  BY <2>2, <2>6, <2>7
<1>4. 2 * W * SumFunctionOnSet(x, 1..n) <= s[n]
  <2>. HIDE DEF s
  <2>1. Bounds(s, 2 * W, x, n)
    BY <1>2, <1>3 DEF Bounds
  <2>2. n \in Nat
    OBVIOUS
  <2>. QED  BY <1>1, <2>1, <2>2, SumWithin
<1>5. s[n] = n * (2 * P + W) - e * (n * (n - 1))
  <2>1. n \in 0..n
    OBVIOUS
  <2>. QED  BY <2>1
<1>6. n * (2 * P + W) - e * (n * (n - 1)) <= 2 * (n * P) + W
  <2>1. (n - 1) * W <= (n - 1) * (rate * n * c)
    <3>1. n - 1 \in Nat /\ rate * n * c \in Int
      OBVIOUS
    <3>. QED  BY <3>1, TimesMono
  <2>2. (n - 1) * (rate * n * c) = e * (n * (n - 1)) /\ (n - 1) * W = n * W - W
    OBVIOUS
  <2>3. n * (2 * P + W) = 2 * (n * P) + n * W
    OBVIOUS
  <2>4. n * W \in Int /\ n * P \in Int /\ e * (n * (n - 1)) \in Int
    OBVIOUS
  <2>. HIDE DEF P, e
  <2>. QED  BY <2>1, <2>2, <2>3, <2>4
<1>7. SumFunctionOnSet(x, 1..n) \in Int
  <2>1. IsFiniteSet(1..n)
    BY FS_Interval
  <2>. QED  BY <2>1, SumType
<1>. QED
  <2>1. 2 * W * SumFunctionOnSet(x, 1..n) \in Int /\ n * P \in Int
    BY <1>1, <1>7
  <2>2. n * (2 * P + W) - e * (n * (n - 1)) \in Int
    BY <1>1
  <2>3. 2 * W * SumFunctionOnSet(x, 1..n) <= 2 * (n * P) + W
    <3>. HIDE DEF P, e, s
    <3>. QED  BY <1>4, <1>5, <1>6, <2>1, <2>2
  <2>. QED  BY <2>3

\* Where no installment bears more than a unit, only the first z do.
LEMMA UnitsWithin ==
    ASSUME NEW n \in Nat, NEW x, NEW z \in Nat,
           \A k \in 1..n : x[k] \in Int /\ x[k] <= 1 /\ (x[k] >= 1 => k <= z)
    PROVE  SumFunctionOnSet(x, 1..n) <= z
<1>. DEFINE s == [k \in 0..n |-> IF k <= z THEN k ELSE z]
<1>1. s \in [0..n -> Int] /\ s[0] = 0 /\ s[n] <= z
  OBVIOUS
<1>2. ASSUME NEW k \in 1..n
      PROVE  x[k] \in Int /\ 1 * x[k] <= s[k] - s[k - 1]
  <2>1. k \in 0..n /\ k - 1 \in 0..n
    OBVIOUS
  <2>2. /\ s[k] = IF k <= z THEN k ELSE z
        /\ s[k - 1] = IF k - 1 <= z THEN k - 1 ELSE z
    BY <2>1
  <2>. HIDE DEF s
  <2>3. x[k] \in Int /\ x[k] <= 1 /\ (x[k] >= 1 => k <= z)
    OBVIOUS
  <2>4. CASE k <= z
    BY <2>2, <2>3, <2>4
  <2>5. CASE k > z
    BY <2>2, <2>3, <2>5
  <2>. QED  BY <2>4, <2>5
<1>3. 1 * SumFunctionOnSet(x, 1..n) <= s[n]
  <2>. HIDE DEF s
  <2>1. 1 \in Nat
    OBVIOUS
  <2>2. Bounds(s, 1, x, n)
    BY <1>1, <1>2 DEF Bounds
  <2>. QED  BY <2>1, <2>2, SumWithin
<1>4. SumFunctionOnSet(x, 1..n) \in Int
  <2>1. IsFiniteSet(1..n)
    BY FS_Interval
  <2>. QED  BY <2>1, SumType
<1>5. s[n] \in Int
  BY <1>1
<1>. HIDE DEF s
<1>. QED  BY <1>1, <1>3, <1>4, <1>5

\* Without interest there is none on any balance.
LEMMA FreeOfInterest ==
    ASSUME NEW b \in Int, NEW n \in Nat \ {0}
    PROVE  InterestOn(b, 0, n) = 0
<1>1. b * 0 = 0 /\ Unit * n \in Nat \ {0}
  BY ScheduleConstants
<1>. QED  BY <1>1, RoundingOfNothing DEF InterestOn

\* Nothing is repaid beyond what is owed, without interest: n installments are
\* rounded by less than n units.
LEMMA LastIsOwedFree ==
    ASSUME NEW p \in Nat, NEW n \in Nat \ {0},
           NEW o, BalancesOf(o, p, 0, n), Ample(p, 0, n)
    PROVE  o[n] >= 0
<1>1. PICK A \in Nat : A = InstallmentAmount(p, 0, n)
  BY AmountCoversInterest
<1>2. 2 * n * A <= 2 * p + n
  <2>1. A = RoundHalfUp(p, n)
    BY <1>1 DEF InstallmentAmount
  <2>. QED  BY <2>1, RoundedIs
<1>. DEFINE T == {m \in Nat : m < n => o[m + 1] >= p - m * A}
<1>3. T = Nat
  <2>1. 0 \in T
    <3>1. o[0 + 1] = p
      BY DEF BalancesOf, AreOpenings
    <3>. QED  BY <3>1
  <2>2. ASSUME NEW m \in Nat, m \in T
        PROVE  m + 1 \in T
    <3>. SUFFICES ASSUME m + 1 < n PROVE o[(m + 1) + 1] >= p - (m + 1) * A
      OBVIOUS
    <3>1. m + 1 \in 1..n /\ m + 1 # n /\ m < n
      OBVIOUS
    <3>2. Falls(o, p, 0, n, m + 1)
      BY <3>1, OpeningsFall
    <3>3. PICK b \in Int : b = o[m + 1]
      BY <3>2 DEF Falls
    <3>4. InterestOn(b, 0, n) = 0
      BY FreeOfInterest
    <3>5. o[(m + 1) + 1] = b + 0 - A
      BY <1>1, <3>1, <3>2, <3>3, <3>4 DEF Falls
    <3>6. b >= p - m * A
      BY <2>2, <3>1, <3>3
    <3>7. (m + 1) * A = m * A + A /\ m * A \in Int
      OBVIOUS
    <3>. QED  BY <3>5, <3>6, <3>7
  <2>. HIDE DEF T
  <2>3. T \subseteq Nat
    BY DEF T
  <2>. QED  BY <2>1, <2>2, <2>3, NatInductiveSet
<1>4. PICK z \in Int : z = o[n]
  <2>1. n \in 1..n
    OBVIOUS
  <2>. QED  BY <2>1, OpeningsFall DEF Falls
<1>5. z >= p - (n - 1) * A
  <2>1. n - 1 \in Nat /\ n - 1 < n /\ (n - 1) + 1 = n
    OBVIOUS
  <2>2. n - 1 \in T
    <3>. HIDE DEF T
    <3>. QED  BY <1>3, <2>1
  <2>. QED  BY <1>4, <2>1, <2>2
<1>6. 2 * n * z >= 0
  <2>1. (2 * n) * (p - (n - 1) * A) <= (2 * n) * z
    <3>1. p - (n - 1) * A \in Int /\ 2 * n \in Nat
      OBVIOUS
    <3>. QED  BY <1>5, <3>1, TimesMono
  <2>2. (n - 1) * (2 * n * A) <= (n - 1) * (2 * p + n)
    <3>1. 2 * n * A \in Int /\ 2 * p + n \in Int /\ n - 1 \in Nat
      OBVIOUS
    <3>. QED  BY <1>2, <3>1, TimesMono
  <2>3. (2 * n) * (p - (n - 1) * A) = 2 * (n * p) - (n - 1) * (2 * n * A)
    OBVIOUS
  <2>4. (n - 1) * (2 * p + n) = 2 * (n * p) - 2 * p + n * n - n
    OBVIOUS
  <2>5. 4 * (n * n) <= p
    <3>1. p >= 4 * n * n
      BY AmpleIsLarge
    <3>. QED  BY <3>1
  <2>6. n * n \in Nat /\ n * n >= n /\ n * p \in Int /\ (n - 1) * (2 * n * A) \in Int
    OBVIOUS
  <2>7. (2 * n) * z \in Int /\ 2 * n * z = (2 * n) * z
    OBVIOUS
  <2>8. 2 * p - n * n + n >= 0
    BY <2>5, <2>6
  <2>. QED  BY <2>1, <2>2, <2>3, <2>4, <2>6, <2>7, <2>8
<1>7. (2 * n) * 0 <= (2 * n) * z /\ 2 * n \in Nat \ {0}
  BY <1>6
<1>8. 0 <= z
  BY <1>7, Cancel
<1>. QED  BY <1>4, <1>8

\* What n times the flat interest, before rounding, allows.
LEMMA WithinFlat ==
    ASSUME NEW p \in Nat, NEW rate \in Nat, NEW n \in Nat \ {0},
           NEW W, W = Unit * n, NEW z \in Int,
           2 * W * z <= 2 * (n * (p * rate)) + W
    PROVE  z <= FlatInterest(p, rate)
<1>1. PICK U \in Nat \ {0} : U = Unit
  BY ScheduleConstants
<1>2. PICK P \in Nat : P = p * rate
  OBVIOUS
<1>3. n * (2 * U * z) <= n * (2 * P + U)
  <2>1. 2 * W * z = n * (2 * U * z) /\ 2 * (n * P) + W = n * (2 * P + U)
    BY <1>1
  <2>. QED  BY <1>2, <2>1
<1>4. 2 * U * z <= 2 * P + U
  <2>1. 2 * U * z \in Int /\ 2 * P + U \in Int
    OBVIOUS
  <2>. QED  BY <1>3, <2>1, Cancel
<1>5. z <= RoundHalfUp(P, U)
  BY <1>4, RoundedAtLeast
<1>. QED  BY <1>1, <1>2, <1>5 DEF FlatInterest

\* x is the interest of each installment.
InterestsOf(x, o, rate, n) ==
    \A k \in 1..n : x[k] \in Int /\ x[k] = InterestOn(o[k], rate, n)

\* The interest of all installments is no more than the flat interest.  The cases
\* are those of the interest of a period on the principal, P / W: it rounds to
\* nothing; the loan is repaid at once; it is between one and one and a half, so
\* that no installment bears more than a unit and the flat interest is at least
\* n; it is less, and those that bear a unit are few (FewInstallments); it is
\* more, and the balances fall fast (InterestWithin).
LEMMA InterestCostsLess ==
    ASSUME NEW p \in Nat, NEW rate \in Nat, NEW n \in Nat \ {0}, Ample(p, rate, n),
           NEW o, BalancesOf(o, p, rate, n), NEW x, InterestsOf(x, o, rate, n)
    PROVE  SumFunctionOnSet(x, 1..n) <= FlatInterest(p, rate)
<1>. DEFINE P == p * rate
            flat == FlatInterest(p, rate)
            total == SumFunctionOnSet(x, 1..n)
<1>1. PICK W \in Nat \ {0} : W = Unit * n
  BY ScheduleConstants
<1>2. PICK c \in Int : c = InstallmentAmount(p, rate, n) - InterestOn(p, rate, n)
  <2>1. 1 \in 1..n
    OBVIOUS
  <2>. QED  BY <2>1, OpeningsFall DEF Falls
<1>3. ASSUME NEW k \in 1..n
      PROVE  /\ o[k] \in Int /\ o[k] <= p - (k - 1) * c
             /\ x[k] \in Int
             /\ 2 * W * x[k] <= 2 * rate * o[k] + W
             /\ 2 * W * x[k] <= 2 * P + W
  <2>1. PICK b \in Int : b = o[k] /\ b <= p
    BY OpeningsFall DEF Falls
  <2>2. o[k] <= p - (k - 1) * c
    BY <1>2, OpeningsDrop
  <2>3. x[k] = InterestOn(b, rate, n) /\ x[k] \in Int
    BY <2>1 DEF InterestsOf
  <2>4. 2 * W * x[k] <= 2 * rate * b + W
    BY <1>1, <2>3, InterestIs
  <2>5. 2 * rate * b <= 2 * P
    <3>1. rate * b <= rate * p
      BY <2>1, TimesMono
    <3>2. 2 * rate * b = 2 * (rate * b) /\ P = rate * p /\ rate * b \in Int /\ rate * p \in Int
      OBVIOUS
    <3>. QED  BY <3>1, <3>2
  <2>6. 2 * W * x[k] \in Int /\ 2 * rate * b \in Int /\ P \in Int
    BY <2>3
  <2>. QED  BY <2>1, <2>2, <2>3, <2>4, <2>5, <2>6
<1>4. flat \in Nat
  <2>1. 0 <= flat
    <3>1. 2 * W * 0 <= 2 * (n * (p * rate)) + W
      OBVIOUS
    <3>. QED  BY <1>1, <3>1, WithinFlat
  <2>2. flat \in Int
    <3>1. Unit \in Nat \ {0} /\ p * rate \in Int
      BY ScheduleConstants
    <3>. QED  BY <3>1, RoundedIs DEF FlatInterest
  <2>. QED  BY <2>1, <2>2
<1>5. total \in Int
  <2>1. IsFiniteSet(1..n) /\ \A k \in 1..n : x[k] \in Int
    BY <1>3, FS_Interval
  <2>. QED  BY <2>1, SumType
<1>6. ASSUME 2 * W * total <= 2 * (n * (p * rate)) + W
      PROVE  total <= flat
  <2>. HIDE DEF total
  <2>. QED  BY <1>1, <1>5, <1>6, WithinFlat
<1>. DEFINE Units(z) == \A k \in 1..n : x[k] <= 1 /\ (x[k] >= 1 => k <= z)
<1>7. ASSUME NEW z \in Nat, z <= flat, Units(z)
      PROVE  total <= flat
  <2>1. total <= z
    <3>1. \A k \in 1..n : x[k] \in Int
      BY <1>3
    <3>2. n \in Nat
      OBVIOUS
    <3>. QED  BY <1>7, <3>1, <3>2, UnitsWithin
  <2>. HIDE DEF total, flat
  <2>. QED  BY <1>4, <1>5, <1>7, <2>1
<1>8. CASE 2 * P < W
  <2>1. ASSUME NEW k \in 1..n
        PROVE  x[k] <= 0
    <3>1. PICK y \in Int : y = x[k] /\ 2 * W * y <= 2 * P + W
      BY <1>3
    <3>2. y <= 0
      <4>1. CASE y >= 1
        <5>1. W * 1 <= W * y
          BY <4>1, TimesMono
        <5>2. 2 * W * y = 2 * (W * y) /\ W * y \in Int /\ P \in Int
          OBVIOUS
        <5>. HIDE DEF P
        <5>. QED  BY <1>8, <3>1, <5>1, <5>2
      <4>. QED  BY <4>1
    <3>. QED  BY <3>1, <3>2
  <2>2. ASSUME NEW k \in 1..n
        PROVE  x[k] <= 1 /\ (x[k] >= 1 => k <= 0)
    <3>1. x[k] \in Int /\ x[k] <= 0
      BY <1>3, <2>1
    <3>. QED  BY <3>1
  <2>3. 0 \in Nat /\ 0 <= flat /\ Units(0)
    BY <1>4, <2>2
  <2>. HIDE DEF total, flat, Units
  <2>. QED  BY <1>7, <2>3 DEF total, flat
<1>9. CASE n = 1
  <2>1. rate = 0 \/ rate * n * W >= W
    BY <1>9
  <2>2. CASE rate = 0
    <3>1. P = 0
      BY <2>2
    <3>. QED  BY <1>8, <3>1
  <2>3. CASE rate * n * W >= W
    <3>1. \A k \in 1..n : o[k] \in Int /\ o[k] <= p - (k - 1) * W
      <4>. SUFFICES ASSUME NEW k \in 1..n
                    PROVE  o[k] \in Int /\ o[k] <= p - (k - 1) * W
        OBVIOUS
      <4>1. k - 1 = 0
        BY <1>9
      <4>. QED  BY <1>3, <4>1
    <3>2. \A k \in 1..n : x[k] = InterestOn(o[k], rate, n) /\ x[k] \in Int
      BY DEF InterestsOf
    <3>4. W \in Int
      OBVIOUS
    <3>3. 2 * W * total <= 2 * (n * (p * rate)) + W
      BY <1>1, <2>3, <3>1, <3>2, <3>4, InterestWithin
    <3>. QED  BY <1>6, <3>3
  <2>. QED  BY <2>1, <2>2, <2>3
<1>10. CASE W <= P /\ 2 * P < 3 * W
  <2>1. 2 * W * n <= 2 * (n * (p * rate)) + W
    <3>1. n * W <= n * P
      <4>1. W \in Int /\ P \in Int
        OBVIOUS
      <4>. HIDE DEF P
      <4>. QED  BY <1>10, <4>1, TimesMono
    <3>2. n * W \in Int /\ n * P \in Int /\ 2 * W * n = 2 * (n * W)
      OBVIOUS
    <3>. QED  BY <3>1, <3>2
  <2>2. ASSUME NEW k \in 1..n
        PROVE  x[k] <= 1 /\ (x[k] >= 1 => k <= n)
    <3>1. PICK y \in Int : y = x[k] /\ 2 * W * y <= 2 * P + W
      BY <1>3
    <3>2. y <= 1
      <4>1. CASE y >= 2
        <5>1. W * 2 <= W * y
          BY <4>1, TimesMono
        <5>2. 2 * W * y = 2 * (W * y) /\ W * y \in Int /\ P \in Int
          OBVIOUS
        <5>. HIDE DEF P
        <5>. QED  BY <1>10, <3>1, <5>1, <5>2
      <4>. QED  BY <4>1
    <3>. QED  BY <3>1, <3>2
  <2>3. n \in Nat /\ n <= flat /\ Units(n)
    <3>1. n \in Int
      OBVIOUS
    <3>. QED  BY <1>1, <2>1, <2>2, <3>1, WithinFlat
  <2>. HIDE DEF total, flat, Units
  <2>. QED  BY <1>7, <2>3 DEF total, flat
<1>11. CASE n >= 2 /\ W <= 2 * P /\ P < W
  <2>0. rate # 0
    <3>1. rate = 0 => P = 0
      OBVIOUS
    <3>. HIDE DEF P
    <3>. QED  BY <1>11, <3>1
  <2>1. /\ rate * n < W \/ W <= p * rate
        /\ rate * n < W /\ p * rate < W => 2 * n * (rate * n * c) >= (2 * n - 1) * (p * rate)
    <3>1. rate \in Nat \ {0} /\ n \in Nat /\ n >= 2
      BY <1>11, <2>0
    <3>. QED  BY <1>1, <1>2, <3>1, FirstRepays
  <2>2. 2 * n * (rate * n * c) >= (2 * n - 1) * P
    <3>1. p * rate = P /\ P \in Nat
      OBVIOUS
    <3>. HIDE DEF P
    <3>. QED  BY <1>11, <2>1, <3>1
  <2>3. ASSUME NEW k \in 1..n
        PROVE  x[k] <= 1 /\ (x[k] >= 1 => k <= flat)
    <3>1. PICK y \in Int : y = x[k] /\ 2 * W * y <= 2 * P + W
      BY <1>3
    <3>2. y <= 1
      <4>1. CASE y >= 2
        <5>1. W * 2 <= W * y
          BY <4>1, TimesMono
        <5>2. 2 * W * y = 2 * (W * y) /\ W * y \in Int /\ P \in Int
          OBVIOUS
        <5>. HIDE DEF P
        <5>. QED  BY <1>11, <3>1, <5>1, <5>2
      <4>. QED  BY <4>1
    <3>3. ASSUME y >= 1
          PROVE  k <= flat
      <4>1. PICK t \in Nat : t = k - 1
        OBVIOUS
      <4>2. PICK b \in Int : b = o[k] /\ b <= p - t * c /\ 2 * W * y <= 2 * rate * b + W
        BY <1>3, <3>1, <4>1
      <4>3. W * 1 <= W * y
        BY <3>3, TimesMono
      <4>4. rate * b <= rate * (p - t * c)
        <5>1. p - t * c \in Int
          OBVIOUS
        <5>. QED  BY <4>2, <5>1, TimesMono
      <4>5. rate * (p - t * c) = P - rate * c * t
        OBVIOUS
      <4>6. 2 * rate * c * t <= 2 * P - W
        <5>1. /\ 2 * W * y = 2 * (W * y) /\ W * y \in Int
              /\ 2 * rate * b = 2 * (rate * b) /\ rate * b \in Int
              /\ 2 * rate * c * t = 2 * (rate * c * t) /\ rate * c * t \in Int
              /\ P \in Int
          OBVIOUS
        <5>. HIDE DEF P
        <5>. QED  BY <4>2, <4>3, <4>4, <4>5, <5>1
      <4>7. 2 * W * (t + 1) <= 2 * (n * P) + W
        <5>1. P \in Nat /\ rate \in Nat \ {0} /\ n \in Nat /\ n >= 2
          BY <1>11, <2>0
        <5>. HIDE DEF P
        <5>. QED  BY <1>11, <2>2, <4>6, <5>1, FewInstallments
      <4>8. t + 1 = k /\ k \in Int
        BY <4>1
      <4>9. 2 * W * k <= 2 * (n * (p * rate)) + W
        BY <4>7, <4>8
      <4>. QED  BY <1>1, <4>8, <4>9, WithinFlat
    <3>. QED  BY <3>1, <3>2, <3>3
  <2>4. total <= flat
    <3>1. \A k \in 1..n : x[k] \in Int
      BY <1>3
    <3>2. n \in Nat
      OBVIOUS
    <3>. HIDE DEF flat
    <3>. QED  BY <1>4, <2>3, <3>1, <3>2, UnitsWithin
  <2>. QED  BY <2>4
<1>12. CASE n >= 2 /\ 3 * W <= 2 * P
  <2>0. rate # 0
    <3>1. rate = 0 => P = 0
      OBVIOUS
    <3>. HIDE DEF P
    <3>. QED  BY <1>12, <3>1
  <2>1. rate * n * c >= W
    <3>1. rate \in Nat \ {0} /\ n \in Nat /\ n >= 2
      BY <1>12, <2>0
    <3>2. 3 * W <= 2 * (p * rate)
      BY <1>12
    <3>. QED  BY <1>1, <1>2, <3>1, <3>2, FirstRepays
  <2>2. \A k \in 1..n : o[k] \in Int /\ o[k] <= p - (k - 1) * c
    BY <1>3
  <2>3. \A k \in 1..n : x[k] = InterestOn(o[k], rate, n) /\ x[k] \in Int
    BY DEF InterestsOf
  <2>4. 2 * W * total <= 2 * (n * (p * rate)) + W
    BY <1>1, <2>1, <2>2, <2>3, InterestWithin
  <2>. QED  BY <1>6, <2>4
<1>. QED
  <2>1. P \in Nat
    OBVIOUS
  <2>2. \/ 2 * P < W
        \/ n = 1
        \/ W <= P /\ 2 * P < 3 * W
        \/ n >= 2 /\ W <= 2 * P /\ P < W
        \/ n >= 2 /\ 3 * W <= 2 * P
    <3>. HIDE DEF P
    <3>. QED  BY <2>1
  <2>. QED  BY <1>8, <1>9, <1>10, <1>11, <1>12, <2>2

\* A loan of reducing balance costs no more than a flat one and its installments
\* repay no more than is owed, for every rate, every number of installments and
\* every ample principal ("reducing-balance is always cheaper than flat by
\* construction", interest-schedule.ts:111).
THEOREM ReducingLoansCostLess ==
    ASSUME NEW p \in Nat, NEW rate \in Nat, NEW n \in Nat \ {0}
    PROVE  ReducingCostsLess(p, rate, n)
<1>. DEFINE s == ReducingSchedule(p, rate, n)
<1>0. SUFFICES ASSUME Ample(p, rate, n)
               PROVE  /\ Charged(s) <= FlatInterest(p, rate)
                      /\ \A k \in 1..n : s[k].principal >= 0 /\ s[k].interest >= 0
  BY DEF ReducingCostsLess
<1>1. PICK amount \in Nat : amount = InstallmentAmount(p, rate, n)
  BY AmountCoversInterest
<1>2. PICK o : BalancesOf(o, p, rate, n)
  BY OpeningsExist DEF BalancesOf
<1>3. /\ DOMAIN s = 1..n
      /\ \A k \in 1..n :
            s[k].principal = Repaid(amount, o[k], rate, n, k)
            /\ s[k].interest = InterestOn(o[k], rate, n)
  BY <1>1, <1>2 DEF ReducingSchedule, BalancesOf, AreOpenings
<1>4. o[n] >= 0
  BY <1>0, <1>2, LastIsOwed, LastIsOwedFree
<1>5. ASSUME NEW k \in 1..n
      PROVE  o[k] \in Int /\ o[k] <= p /\ o[k] >= 0 /\ InterestOn(o[k], rate, n) \in Int
  <2>1. n \in 1..n
    OBVIOUS
  <2>2. /\ o[k] \in Int /\ o[k] <= p /\ InterestOn(o[k], rate, n) \in Int
        /\ o[n] \in Int /\ InterestOn(p, rate, n) \in Int
    BY <1>2, <2>1, OpeningsFall DEF Falls
  <2>3. PICK c \in Int : c = InstallmentAmount(p, rate, n) - InterestOn(p, rate, n)
    BY <1>1, <2>2
  <2>4. o[n] <= o[k]
    BY <1>2, <2>3, OpeningsDrop
  <2>. QED  BY <1>4, <2>2, <2>4
<1>6. Charged(s) <= FlatInterest(p, rate)
  <2>. DEFINE x == [k \in 1..n |-> s[k].interest]
  <2>1. Charged(s) = SumFunctionOnSet(x, 1..n)
    BY <1>3 DEF Charged
  <2>2. InterestsOf(x, o, rate, n)
    BY <1>3, <1>5 DEF InterestsOf
  <2>. HIDE DEF x, s
  <2>. QED  BY <1>0, <1>2, <2>1, <2>2, InterestCostsLess
<1>7. ASSUME NEW k \in 1..n
      PROVE  s[k].principal >= 0 /\ s[k].interest >= 0
  <2>1. PICK b \in Int : b = o[k] /\ b <= p /\ b >= 0
    BY <1>5
  <2>2. RepaidRightly(amount, b, rate, n, k)
    BY <1>1, <2>1, RepaidIs
  <2>3. InterestOn(b, rate, n) >= 0
    <3>1. InterestOn(0, rate, n) = 0
      <4>1. 0 * rate = 0 /\ Unit * n \in Nat \ {0}
        BY ScheduleConstants
      <4>. QED  BY <4>1, RoundingOfNothing DEF InterestOn
    <3>2. 0 \in Int /\ 0 <= b
      BY <2>1
    <3>3. InterestOn(0, rate, n) <= InterestOn(b, rate, n)
      BY <2>1, <3>2, InterestWithinAmount
    <3>. QED  BY <3>1, <3>3
  <2>. QED  BY <1>3, <2>1, <2>2, <2>3 DEF RepaidRightly
<1>. QED  BY <1>6, <1>7

-----------------------------------------------------------------------------
\* A product has terms from its creation on, and nothing takes them away.
TermsInv ==
    /\ product # NoProduct => product.terms \in AllTerms
    /\ \A r \in Requests :
          /\ requests[r].kind = "product_create" => requests[r].payload.terms \in AllTerms
          /\ requests[r].kind = "product_update" => product.terms \in AllTerms

LEMMA TermsUntouched ==
    ASSUME TermsInv, UNCHANGED product,
           \A r \in Requests :
              /\ requests'[r].kind = requests[r].kind
              /\ requests'[r].payload = requests[r].payload
    PROVE  TermsInv'
BY DEF TermsInv, NoProduct

\* A new request, of a known product if it is to change one.
LEMMA ProposeTerms ==
    ASSUME CatalogueIInv, TermsInv, NEW r \in Requests, NEW kind, NEW payload,
           Propose(r, kind, payload),
           kind = "product_create" => payload.terms \in AllTerms,
           kind = "product_update" => product # NoProduct
    PROVE  TermsInv'
<1>1. PICK q : q = [kind |-> kind, status |-> "OPEN", payload |-> payload]
  OBVIOUS
<1>2. /\ UNCHANGED product
      /\ \A s \in Requests : requests'[s] = IF s = r THEN q ELSE requests[s]
  BY <1>1 DEF Propose, CatalogueIInv, CatalogueTypeInv
<1>3. q.kind = kind /\ q.payload = payload
  BY <1>1
<1>. QED  BY <1>2, <1>3 DEF TermsInv, NoProduct

LEMMA WriteTerms ==
    ASSUME CatalogueIInv, TermsInv, NEW c \in CatalogueCalls, CreateProduct(c) \/ UpdateProduct(c)
    PROVE  TermsInv'
<1>. DEFINE r == catalogueCalls[c].request
<1>1. /\ catalogueCalls[c].op \in {"product_create", "product_update"}
      /\ CreateProduct(c) => catalogueCalls[c].op = "product_create"
      /\ UpdateProduct(c) => catalogueCalls[c].op = "product_update"
  BY DEF CreateProduct, UpdateProduct, CatalogueAt
<1>2. r \in Requests /\ requests[r].kind = catalogueCalls[c].op /\ PayloadFits(requests[r])
  BY <1>1 DEF CatalogueIInv, PayloadsInv, OpFits
<1>3. UNCHANGED requests
  BY DEF CreateProduct, UpdateProduct
<1>4. product'.terms \in AllTerms
  <2>1. CASE CreateProduct(c)
    BY <1>1, <1>2, <2>1 DEF CreateProduct, Payload, TermsInv
  <2>2. CASE UpdateProduct(c)
    <3>1. PICK changes \in ProductChanges : changes = Payload(c)
      BY <1>1, <1>2, <2>2 DEF Payload, PayloadFits
    <3>2. product \in ProductType /\ product.terms \in AllTerms
      BY <1>1, <1>2, <2>2 DEF TermsInv, CatalogueIInv, CatalogueTypeInv
    <3>3. "terms" \in DOMAIN product
      BY <3>2 DEF ProductType
    <3>4. product'["terms"] = IF Given(changes["terms"]) THEN changes["terms"] ELSE product["terms"]
      BY <2>2, <3>1, <3>3 DEF UpdateProduct, SetFields
    <3>5. changes.terms \in AllTerms \union {"KEEP"}
      BY DEF ProductChanges
    <3>. QED  BY <3>2, <3>4, <3>5 DEF Given
  <2>. QED  BY <2>1, <2>2
<1>. QED  BY <1>3, <1>4 DEF TermsInv

LEMMA NextTerms == CatalogueIInv /\ TermsInv /\ [CatalogueNext]_catalogueVars => TermsInv'
<1>. SUFFICES ASSUME CatalogueIInv, TermsInv, [CatalogueNext]_catalogueVars PROVE TermsInv'
  OBVIOUS
<1>1. ASSUME NEW r \in Requests, \/ ProposeFee(r) \/ ProposeFeeUpdate(r) \/ ProposeConfig(r)
      PROVE  TermsInv'
  <2>1. CASE ProposeFee(r)
    BY <2>1, ProposeTerms DEF ProposeFee
  <2>2. CASE ProposeFeeUpdate(r)
    BY <2>2, ProposeTerms DEF ProposeFeeUpdate
  <2>3. CASE ProposeConfig(r)
    BY <2>3, ProposeTerms DEF ProposeConfig
  <2>. QED  BY <1>1, <2>1, <2>2, <2>3
<1>2. ASSUME NEW r \in Requests, ProposeProduct(r) \/ ProposeProductUpdate(r)
      PROVE  TermsInv'
  <2>1. CASE ProposeProduct(r)
    <3>1. PICK steps \in Shapes, terms \in AllTerms :
             Propose(r, "product_create", [steps |-> steps, terms |-> terms])
      BY <2>1 DEF ProposeProduct
    <3>2. PICK p : p = [steps |-> steps, terms |-> terms]
      OBVIOUS
    <3>3. p.terms \in AllTerms
      BY <3>2
    <3>. QED  BY <3>1, <3>2, <3>3, ProposeTerms
  <2>2. CASE ProposeProductUpdate(r)
    BY <2>2, ProposeTerms DEF ProposeProductUpdate
  <2>. QED  BY <1>2, <2>1, <2>2
<1>3. ASSUME NEW r \in Requests, Drop(r) \/ \E c \in CatalogueCalls : Approve(c, r)
      PROVE  TermsInv'
  <2>1. requests \in [Requests -> RequestType]
    BY DEF CatalogueIInv, CatalogueTypeInv
  <2>2. ASSUME NEW s \in Requests
        PROVE  requests'[s].kind = requests[s].kind /\ requests'[s].payload = requests[s].payload
    BY <1>3, <2>1 DEF Drop, Approve, RequestType
  <2>3. UNCHANGED product
    BY <1>3 DEF Drop, Approve
  <2>. QED  BY <2>2, <2>3, TermsUntouched
<1>4. ASSUME NEW c \in CatalogueCalls, CreateProduct(c) \/ UpdateProduct(c)
      PROVE  TermsInv'
  BY <1>4, WriteTerms
<1>5. ASSUME NEW c \in CatalogueCalls,
             \/ CreateFee(c) \/ UpdateFee(c) \/ RegisterChain(c) \/ RetireActive(c)
             \/ CreateActive(c) \/ AbandonApproval(c)
      PROVE  TermsInv'
  <2>1. UNCHANGED <<product, requests>>
    BY <1>5 DEF CreateFee, UpdateFee, RegisterChain, RetireActive, CreateActive, AbandonApproval
  <2>. QED  BY <2>1, TermsUntouched
<1>6. ASSUME UNCHANGED catalogueVars
      PROVE  TermsInv'
  BY <1>6, TermsUntouched DEF catalogueVars
<1>. QED  BY <1>1, <1>2, <1>3, <1>4, <1>5, <1>6 DEF CatalogueNext

\* The schedules of all terms of the catalogue, flat or of reducing balance, add
\* up for every principal and fall due in order.
THEOREM AllTermsAreSound == Sound = AllTerms
<1>. SUFFICES ASSUME NEW t \in AllTerms PROVE t \in Sound
  BY DEF Sound
<1>. DEFINE terms == TermsOf[t]
            n == InstallmentCount(terms.tenure, terms.period)
<1>1. terms \in TermsType
  BY ProductConstants DEF TermsType
<1>2. terms.rate \in Nat /\ n \in Nat \ {0}
  BY <1>1, CountsCover DEF TermsType
<1>3. DueInOrder(terms)
  BY <1>1, InstallmentsFallDueInOrder
<1>4. \A p \in Principals : p \in Nat
  BY ScheduleConstants
<1>5. ASSUME NEW p \in Principals
      PROVE  /\ FlatAddsUp(p, terms.rate, n) /\ ReducingAddsUp(p, terms.rate, n)
             /\ ReducingCostsLess(p, terms.rate, n)
  <2>. HIDE DEF n
  <2>. QED  BY <1>2, <1>4, FlatSchedulesAddUp, ReducingSchedulesAddUp, ReducingLoansCostLess
<1>. QED  BY <1>3, <1>5 DEF Sound, AddsUp

\* Whatever product the approvals of the catalogue have left, the schedule of a
\* loan on it adds up to what the account owes and falls due in order
\* (interest-schedule.ts, loan-products.service.ts).
THEOREM SchedulesOfTheCatalogueAddUp == CatalogueSpec => []SchedulesAddUp
<1>1. CatalogueInit => TermsInv
  BY DEF CatalogueInit, TermsInv, NoRequest
<1>2. CatalogueIInv /\ TermsInv => SchedulesAddUp
  BY AllTermsAreSound DEF TermsInv, SchedulesAddUp
<1>. QED  BY <1>1, <1>2, CatalogueIsSound, NextTerms, PTL DEF CatalogueSpec

=============================================================================
