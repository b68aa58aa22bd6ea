----------------------------- MODULE Staff_proofs -----------------------------
(***************************************************************************)
(* Theorems about what the program keeps of its staff: their accounts and  *)
(* rights (Staff, with the routes of Access), for any seeded accounts,     *)
(* capabilities that change hands, number of edits and calls in flight;    *)
(* the sessions of one account (Sessions), for any number of tokens,       *)
(* challenges, attempts and calls; leave and salary (Leave), for any       *)
(* applications, proposals and calls; and inboxes (Notifications), for any *)
(* members of staff and jobs.                                              *)
(***************************************************************************)
EXTENDS Staff, Sessions, Leave, Notifications, SumTheorems, TLAPS

AnyRole == Roles \union {"NONE"}
AnyType == UserTypes \union {"NONE"}
Sponsors == {"seed", "direct", "profile"} \union AnyRole
Ops == {"idle", "approve", "create", "profile"}

AccountType == [role : AnyRole, userType : AnyType, token : AnyRole, modules : SUBSET ModuleNames]

RequestType == [status : {"ABSENT", "OPEN", "RETURNED", "REJECTED", "CANCELLED", "APPROVED"},
                maker : Accounts, role : AnyRole, userType : AnyType, by : AnyRole]

CallType == [op : Ops, account : Accounts, role : AnyRole, userType : AnyType]

TypeInv ==
    /\ accounts \in [Accounts -> AccountType]
    /\ request \in RequestType
    /\ given \in [Accounts -> Sponsors]
    /\ \A x \in Accounts : Exists(x) <=> accounts[x].role # "NONE"

\* What is proposed was checked against the token of whoever proposed it last.
RequestInv ==
    /\ request.role \in {"ADMIN", "APPROVER"} => request.by \in {"ADMIN", "SUPERADMIN"}
    /\ request.role = "MARKETER" => request.userType = "INITIATOR"
    /\ request.status # "ABSENT" => request.role \in Roles

DocsInv == TypeInv /\ RequestInv /\ ElevatedBySponsor /\ MarketersInitiate

Initiates(role, userType) == role = "MARKETER" => userType = "INITIATOR"

\* What a call in flight may rely on: an approved request is not rewritten, and
\* an edit meets the account as it read it, unless edits overlap.
Fit(call) ==
    /\ call.op = "create" =>
          /\ request.status = "APPROVED"
          /\ call.role = request.role /\ call.userType = request.userType
    /\ call.op = "profile" =>
          /\ Exists(call.account)
          /\ call.account \notin overlapped =>
                Initiates(Given(call.role, accounts[call.account].role),
                          Given(call.userType, accounts[call.account].userType))

\* Two edits of one profile overlap.
EditorsOverlap ==
    \A c, d \in Calls :
        /\ calls[c].op = "profile" /\ calls[d].op = "profile"
        /\ calls[c].account = calls[d].account
        => c = d \/ calls[c].account \in overlapped

CallsInv ==
    /\ calls \in [Calls -> CallType]
    /\ \A c \in Calls : Fit(calls[c])
    /\ EditorsOverlap

IInv == DocsInv /\ CallsInv

-----------------------------------------------------------------------------
\* What no step undoes.
Steady ==
    /\ request.status = "APPROVED" => request' = request
    /\ \A x \in Accounts : Exists(x) => Exists(x)'
    /\ overlapped \subseteq overlapped'

SameRights(x) ==
    accounts'[x].role = accounts[x].role /\ accounts'[x].userType = accounts[x].userType

LEMMA FitKept ==
    ASSUME Steady, NEW k \in CallType, Fit(k),
           k.op = "profile" /\ k.account \notin overlapped' => SameRights(k.account)
    PROVE  Fit(k)'
<1>1. k.account \in Accounts
  BY DEF CallType
<1>2. k.op = "create" => request' = request
  BY DEF Fit, Steady
<1>3. ASSUME k.op = "profile"
      PROVE  Exists(k.account)'
  BY <1>1, <1>3 DEF Fit, Steady
<1>4. ASSUME k.op = "profile", k.account \notin overlapped'
      PROVE  Initiates(Given(k.role, accounts[k.account].role),
                       Given(k.userType, accounts[k.account].userType))'
  <2>1. Initiates(Given(k.role, accounts[k.account].role),
                  Given(k.userType, accounts[k.account].userType))
    BY <1>4 DEF Fit, Steady
  <2>. QED  BY <1>4, <2>1 DEF SameRights, Initiates, Given
<1>. QED  BY <1>2, <1>3, <1>4 DEF Fit

\* A step of no call.
LEMMA CallsStay ==
    ASSUME IInv, Steady, UNCHANGED <<calls, overlapped>>,
           \A x \in Accounts : Exists(x) => SameRights(x)
    PROVE  CallsInv'
<1>1. ASSUME NEW d \in Calls
      PROVE  Fit(calls[d])'
  <2>1. PICK k \in CallType : k = calls[d] /\ Fit(k)
    BY DEF IInv, CallsInv
  <2>2. k.op = "profile" => SameRights(k.account)
    BY <2>1 DEF Fit, CallType
  <2>3. Fit(k)'
    BY <2>1, <2>2, FitKept
  <2>. QED  BY <2>1, <2>3
<1>. QED  BY <1>1 DEF IInv, CallsInv, EditorsOverlap

\* A step of one call that leaves the rights of the others' accounts alone.
LEMMA CallsKept ==
    ASSUME IInv, Steady, NEW c \in Calls, NEW k \in CallType,
           calls' = [calls EXCEPT ![c] = k], Fit(calls[c])',
           \A d \in Calls \ {c} :
              calls[d].op = "profile" /\ calls[d].account \notin overlapped' =>
                 /\ SameRights(calls[d].account)
                 /\ k.op = "profile" => k.account # calls[d].account
    PROVE  CallsInv'
<1>1. /\ calls' \in [Calls -> CallType]
      /\ calls'[c] = k
      /\ \A d \in Calls \ {c} : calls'[d] = calls[d]
  BY DEF IInv, CallsInv
<1>2. ASSUME NEW d \in Calls \ {c}
      PROVE  Fit(calls[d])'
  <2>1. PICK m \in CallType : m = calls[d] /\ Fit(m)
    BY DEF IInv, CallsInv
  <2>2. m.op = "profile" /\ m.account \notin overlapped' => SameRights(m.account)
    BY <2>1
  <2>3. Fit(m)'
    BY <2>1, <2>2, FitKept
  <2>. QED  BY <1>1, <2>1, <2>3
<1>3. EditorsOverlap'
  <2>1. overlapped \subseteq overlapped'
    BY DEF Steady
  <2>2. ASSUME NEW d \in Calls, NEW e \in Calls, d # e,
               calls'[d].op = "profile", calls'[e].op = "profile",
               calls'[d].account = calls'[e].account
        PROVE  calls'[d].account \in overlapped'
    <3>1. CASE d # c /\ e # c
      BY <1>1, <2>1, <2>2, <3>1 DEF IInv, CallsInv, EditorsOverlap
    <3>2. CASE d = c
      BY <1>1, <2>2, <3>2
    <3>3. CASE e = c
      BY <1>1, <2>2, <3>3
    <3>. QED  BY <3>1, <3>2, <3>3
  <2>. QED  BY <2>2 DEF EditorsOverlap
<1>. QED  BY <1>1, <1>2, <1>3 DEF CallsInv

LEMMA CallTypes ==
    ASSUME NEW op \in Ops, NEW x \in Accounts, NEW role \in AnyRole, NEW userType \in AnyType
    PROVE  /\ Call(op, x, role, userType) \in CallType
           /\ Call(op, x, role, userType).op = op
           /\ Call(op, x, role, userType).account = x
           /\ Call(op, x, role, userType).role = role
           /\ Call(op, x, role, userType).userType = userType
BY DEF Call, CallType

LEMMA IdleType == Idle \in CallType /\ Idle.op = "idle"
<1>1. /\ "idle" \in Ops /\ Newcomer \in Accounts
      /\ "NONE" \in AnyRole /\ "NONE" \in AnyType
  BY DEF Ops, Accounts, AnyRole, AnyType
<1>. QED  BY <1>1, CallTypes DEF Idle

LEMMA AccountTypes ==
    ASSUME NEW role \in Roles, NEW userType \in AnyType
    PROVE  /\ Account(role, userType) \in AccountType
           /\ Account(role, userType).role = role
           /\ Account(role, userType).userType = userType
BY DEF Account, AccountType, AnyRole

LEMMA NoAccountType == NoAccount \in AccountType /\ NoAccount.role = "NONE"
BY DEF NoAccount, AccountType, AnyRole, AnyType

LEMMA InitInv == Init => IInv
<1>. SUFFICES ASSUME Init PROVE IInv
  OBVIOUS
<1>1. ASSUME NEW x \in Seeded
      PROVE  /\ Profile[x][1] \in Roles /\ Profile[x][2] \in AnyType
             /\ Profile[x][1] = "MARKETER" => Profile[x][2] = "INITIATOR"
  BY StaffConstants DEF Assignable, AnyType, UserTypes
<1>2. "NONE" \notin Roles
  BY DEF Roles
<1>3. ASSUME NEW x \in Accounts
      PROVE  /\ accounts[x] \in AccountType
             /\ Exists(x) <=> accounts[x].role # "NONE"
             /\ accounts[x].role = "MARKETER" => accounts[x].userType = "INITIATOR"
  <2>1. CASE x \in Seeded
    <3>1. accounts[x] = Account(Profile[x][1], Profile[x][2])
      BY <2>1 DEF Init
    <3>2. /\ accounts[x] \in AccountType
          /\ accounts[x].role = Profile[x][1] /\ accounts[x].userType = Profile[x][2]
      BY <1>1, <2>1, <3>1, AccountTypes
    <3>3. accounts[x].role # "NONE"
      BY <1>1, <1>2, <2>1, <3>2
    <3>. QED  BY <1>1, <2>1, <3>2, <3>3, NoAccountType DEF Exists
  <2>2. CASE x \notin Seeded
    BY <2>2, NoAccountType DEF Init, Exists
  <2>. QED  BY <2>1, <2>2
<1>4. request \in RequestType /\ RequestInv
  BY DEF Init, NoRequest, RequestType, RequestInv, AnyRole, AnyType, Accounts
<1>5. accounts \in [Accounts -> AccountType] /\ given \in [Accounts -> Sponsors]
  BY <1>3 DEF Init, Sponsors
<1>6. ElevatedBySponsor /\ MarketersInitiate
  BY <1>3 DEF Init, ElevatedBySponsor, MarketersInitiate, Existing
<1>7. CallsInv
  BY IdleType DEF Init, CallsInv, Fit, EditorsOverlap
<1>. QED  BY <1>3, <1>4, <1>5, <1>6, <1>7 DEF IInv, DocsInv, TypeInv

-----------------------------------------------------------------------------
\* A step that writes no account.
LEMMA QuietStep ==
    ASSUME IInv, UNCHANGED <<accounts, given>>, request' \in RequestType, RequestInv',
           request.status = "APPROVED" => request' = request,
           overlapped \subseteq overlapped'
    PROVE  DocsInv' /\ Steady /\ \A x \in Accounts : SameRights(x)
<1>1. \A x \in Accounts : Exists(x)' <=> Exists(x)
  BY DEF Exists
<1>2. TypeInv'
  BY <1>1 DEF IInv, DocsInv, TypeInv
<1>3. ElevatedBySponsor'
  BY DEF IInv, DocsInv, ElevatedBySponsor
<1>4. MarketersInitiate'
  BY <1>1 DEF IInv, DocsInv, MarketersInitiate, Existing
<1>. QED  BY <1>1, <1>2, <1>3, <1>4 DEF DocsInv, Steady, SameRights

\* One account is written.
LEMMA AccountStep ==
    ASSUME IInv, NEW x \in Accounts, NEW acc \in AccountType,
           accounts' = [accounts EXCEPT ![x] = acc], UNCHANGED <<request, overlapped>>,
           given' \in [Accounts -> Sponsors],
           \A y \in Accounts \ {x} : given'[y] = given[y],
           acc.role # "NONE",
           acc.role \in {"ADMIN", "APPROVER"} =>
              given'[x] \in {"seed", "direct", "profile", "ADMIN", "SUPERADMIN"},
           x \notin overlapped => Initiates(acc.role, acc.userType)
    PROVE  DocsInv' /\ Steady /\ \A y \in Accounts \ {x} : SameRights(y)
<1>1. \A y \in Accounts : accounts'[y] = IF y = x THEN acc ELSE accounts[y]
  BY DEF IInv, DocsInv, TypeInv
<1>2. \A y \in Accounts : Exists(y)' <=> Exists(y) \/ y = x
  BY <1>1, NoAccountType DEF Exists
<1>3. TypeInv'
  BY <1>1, <1>2 DEF IInv, DocsInv, TypeInv
<1>4. RequestInv'
  BY DEF IInv, DocsInv, RequestInv
<1>5. ElevatedBySponsor'
  BY <1>1 DEF IInv, DocsInv, ElevatedBySponsor
<1>6. MarketersInitiate'
  BY <1>1, <1>2 DEF IInv, DocsInv, MarketersInitiate, Existing, Initiates
<1>. QED  BY <1>1, <1>2, <1>3, <1>4, <1>5, <1>6 DEF DocsInv, Steady, SameRights

-----------------------------------------------------------------------------
\* The proposal and what becomes of it.
LEMMA PayloadFits ==
    ASSUME IInv, NEW x \in Accounts, NEW role \in Offered, NEW t \in Assignable,
           CanProposeRole(role, accounts[x].token), ResolveUserType(role, t) # "NONE",
           request' = Payload(x, role, t)
    PROVE  request' \in RequestType /\ RequestInv'
<1>1. role \in AnyRole /\ role \in Roles
  BY StaffConstants DEF Onboardable, AnyRole
<1>2. PICK by \in AnyRole : by = accounts[x].token
  BY DEF IInv, DocsInv, TypeInv, AccountType
<1>3. PICK userType \in AnyType :
         /\ userType = ResolveUserType(role, t)
         /\ role = "MARKETER" => userType = "INITIATOR"
  BY DEF ResolveUserType, Assignable, AnyType, UserTypes
<1>4. request' = [status |-> "OPEN", maker |-> x, role |-> role, userType |-> userType, by |-> by]
  BY <1>2, <1>3 DEF Payload
<1>5. request' \in RequestType
  BY <1>1, <1>4 DEF RequestType
<1>6. RequestInv'
  BY <1>1, <1>2, <1>3, <1>4 DEF RequestInv, CanProposeRole
<1>. QED  BY <1>5, <1>6

LEMMA RequestStatus ==
    ASSUME IInv, NEW st \in {"CANCELLED", "RETURNED", "REJECTED", "APPROVED"},
           request.status # "ABSENT",
           request' = [request EXCEPT !.status = st]
    PROVE  /\ request' \in RequestType /\ RequestInv'
           /\ request'.status = st
           /\ request'.role = request.role /\ request'.userType = request.userType
<1>1. request \in RequestType
  BY DEF IInv, DocsInv, TypeInv
<1>2. /\ request' \in RequestType /\ request'.status = st
      /\ request'.role = request.role /\ request'.userType = request.userType
      /\ request'.by = request.by
  BY <1>1 DEF RequestType
<1>. QED  BY <1>2 DEF IInv, DocsInv, RequestInv

LEMMA ProposalInv ==
    ASSUME IInv, NEW x \in Accounts,
           \/ \E role \in Offered, t \in Assignable :
                 InitiateOnboarding(x, role, t) \/ ResubmitOnboarding(x, role, t)
           \/ WithdrawOnboarding(x)
           \/ \E st \in {"RETURNED", "REJECTED"} : SendBack(x, st)
    PROVE  IInv'
<1>1. /\ UNCHANGED <<accounts, calls, given, overlapped>>
      /\ request.status # "APPROVED"
  BY DEF InitiateOnboarding, ResubmitOnboarding, Resubmittable, WithdrawOnboarding,
     SendBack,
         MayAct, NoRequest
<1>2. request' \in RequestType /\ RequestInv'
  <2>1. CASE \E role \in Offered, t \in Assignable :
                InitiateOnboarding(x, role, t) \/ ResubmitOnboarding(x, role, t)
    BY <2>1, PayloadFits DEF InitiateOnboarding, ResubmitOnboarding
  <2>2. CASE WithdrawOnboarding(x)
    BY <2>2, RequestStatus DEF WithdrawOnboarding
  <2>3. CASE \E st \in {"RETURNED", "REJECTED"} : SendBack(x, st)
    BY <2>3, RequestStatus DEF SendBack, MayAct
  <2>. QED  BY <2>1, <2>2, <2>3
<1>3. DocsInv' /\ Steady /\ \A y \in Accounts : SameRights(y)
  BY <1>1, <1>2, QuietStep
<1>. QED  BY <1>1, <1>3, CallsStay DEF IInv

\* The matrix, which the theorems do not depend on.
LEMMA MatrixInv ==
    ASSUME IInv, UNCHANGED <<accounts, request, calls, given, overlapped>>
    PROVE  IInv'
<1>1. DocsInv' /\ Steady /\ \A y \in Accounts : SameRights(y)
  BY QuietStep DEF IInv, DocsInv, TypeInv, RequestInv
<1>. QED  BY <1>1, CallsStay DEF IInv

LEMMA MatrixActions ==
    ASSUME \E role \in Roles : \/ \E tracked \in SUBSET Tracked : SetCapabilities(role, tracked)
                               \/ \E capability \in Tracked : \/ AddCapability(role, capability)
                                                              \/ RemoveCapability(role, capability)
                               \/ Reconcile(role)
    PROVE  UNCHANGED <<accounts, request, calls, given, overlapped>>
BY DEF SetCapabilities, AddCapability, RemoveCapability, EditMatrix, Reconcile

\* A new token, or other modules: neither role nor user type.
LEMMA AsideInv ==
    ASSUME IInv, NEW x \in Accounts,
           Renew(x) \/ \E modules \in {{}, ModuleNames} : SetModules(x, modules)
    PROVE  IInv'
<1>1. PICK m \in AccountType : m = accounts[x] /\ m.role # "NONE" /\ Exists(x)
  BY DEF Renew, SetModules, IInv, DocsInv, TypeInv
<1>2. PICK acc \in AccountType : /\ accounts' = [accounts EXCEPT ![x] = acc]
                                 /\ acc.role = m.role /\ acc.userType = m.userType
  <2>1. CASE Renew(x)
    <3>1. accounts' = [accounts EXCEPT ![x] = [m EXCEPT !.token = m.role]]
      BY <1>1, <2>1 DEF Renew, IInv, DocsInv, TypeInv
    <3>2. /\ [m EXCEPT !.token = m.role] \in AccountType
          /\ [m EXCEPT !.token = m.role].role = m.role
          /\ [m EXCEPT !.token = m.role].userType = m.userType
      BY DEF AccountType
    <3>. QED  BY <3>1, <3>2
  <2>2. CASE \E modules \in {{}, ModuleNames} : SetModules(x, modules)
    <3>1. PICK modules \in SUBSET ModuleNames :
             accounts' = [accounts EXCEPT ![x] = [m EXCEPT !.modules = modules]]
      BY <1>1, <2>2 DEF SetModules, IInv, DocsInv, TypeInv
    <3>2. /\ [m EXCEPT !.modules = modules] \in AccountType
          /\ [m EXCEPT !.modules = modules].role = m.role
          /\ [m EXCEPT !.modules = modules].userType = m.userType
      BY DEF AccountType
    <3>. QED  BY <3>1, <3>2
  <2>. QED  BY <2>1, <2>2
<1>3. UNCHANGED <<request, calls, given, overlapped>>
  BY DEF Renew, SetModules
<1>4. x \notin overlapped => Initiates(acc.role, acc.userType)
  BY <1>1, <1>2 DEF IInv, DocsInv, MarketersInitiate, Existing, Initiates
<1>5. acc.role \in {"ADMIN", "APPROVER"} =>
         given'[x] \in {"seed", "direct", "profile", "ADMIN", "SUPERADMIN"}
  BY <1>1, <1>2, <1>3 DEF IInv, DocsInv, ElevatedBySponsor
<1>6. given' \in [Accounts -> Sponsors] /\ \A y \in Accounts \ {x} : given'[y] = given[y]
  BY <1>3 DEF IInv, DocsInv, TypeInv
<1>7. DocsInv' /\ Steady /\ \A y \in Accounts \ {x} : SameRights(y)
  BY <1>1, <1>2, <1>3, <1>4, <1>5, <1>6, AccountStep
<1>8. SameRights(x)
  BY <1>1, <1>2 DEF SameRights, IInv, DocsInv, TypeInv
<1>. QED  BY <1>3, <1>7, <1>8, CallsStay DEF IInv

-----------------------------------------------------------------------------
\* A call that ends.
LEMMA EndInv ==
    ASSUME IInv, NEW c \in Calls, calls' = [calls EXCEPT ![c] = Idle], DocsInv', Steady,
           \A d \in Calls \ {c} :
              calls[d].op = "profile" /\ calls[d].account \notin overlapped' =>
                 SameRights(calls[d].account)
    PROVE  IInv'
<1>1. PICK k \in CallType : k = Idle /\ k.op = "idle"
  BY IdleType
<1>2. calls'[c] = k
  BY <1>1 DEF IInv, CallsInv
<1>3. Fit(calls[c])'
  BY <1>1, <1>2 DEF Fit
<1>4. calls' = [calls EXCEPT ![c] = k]
  BY <1>1
<1>5. \A d \in Calls \ {c} :
         calls[d].op = "profile" /\ calls[d].account \notin overlapped' =>
            /\ SameRights(calls[d].account)
            /\ k.op = "profile" => k.account # calls[d].account
  BY <1>1
<1>. QED  BY <1>3, <1>4, <1>5, CallsKept DEF IInv

\* The account an edit is about.
LEMMA EditedAccounts ==
    ASSUME IInv, NEW d \in Calls, calls[d].op = "profile"
    PROVE  calls[d].account \in Accounts /\ Exists(calls[d].account)
BY DEF IInv, CallsInv, CallType, Fit

LEMMA AbandonInv ==
    ASSUME IInv, NEW c \in Calls, Abandon(c)
    PROVE  IInv'
<1>1. UNCHANGED <<accounts, request, given, overlapped>> /\ calls' = [calls EXCEPT ![c] = Idle]
  BY DEF Abandon, Continue
<1>2. DocsInv' /\ Steady /\ \A y \in Accounts : SameRights(y)
  BY <1>1, QuietStep DEF IInv, DocsInv, TypeInv, RequestInv
<1>. QED  BY <1>1, <1>2, EditedAccounts, EndInv

LEMMA ApproveInv ==
    ASSUME IInv, NEW c \in Calls, Approve(c) \/ \E x \in Accounts : ApproveRead(c, x)
    PROVE  IInv'
<1>1. UNCHANGED <<accounts, given, overlapped>>
  BY DEF Approve, ApproveRead
<1>2. CASE UNCHANGED request /\ calls' = [calls EXCEPT ![c] = Idle]
  <2>1. DocsInv' /\ Steady /\ \A y \in Accounts : SameRights(y)
    BY <1>1, <1>2, QuietStep DEF IInv, DocsInv, TypeInv, RequestInv
  <2>. QED  BY <1>2, <2>1, EditedAccounts, EndInv
<1>3. ASSUME NEW x \in Accounts, ApproveRead(c, x)
      PROVE  IInv'
  <2>1. PICK k \in CallType : k = Call("approve", x, "NONE", "NONE") /\ k.op = "approve"
    BY CallTypes DEF Ops, AnyRole, AnyType
  <2>2. calls' = [calls EXCEPT ![c] = k] /\ UNCHANGED request
    BY <1>3, <2>1 DEF ApproveRead, Continue
  <2>3. DocsInv' /\ Steady /\ \A y \in Accounts : SameRights(y)
    BY <1>1, <2>2, QuietStep DEF IInv, DocsInv, TypeInv, RequestInv
  <2>4. Fit(calls[c])'
    <3>1. calls'[c] = k
      BY <2>2 DEF IInv, CallsInv
    <3>. QED  BY <2>1, <3>1 DEF Fit
  <2>5. \A d \in Calls \ {c} :
           calls[d].op = "profile" /\ calls[d].account \notin overlapped' =>
              /\ SameRights(calls[d].account)
              /\ k.op = "profile" => k.account # calls[d].account
    BY <2>1, <2>3, EditedAccounts
  <2>. QED  BY <2>2, <2>3, <2>4, <2>5, CallsKept DEF IInv
<1>4. CASE /\ request.status = "OPEN" /\ request' = [request EXCEPT !.status = "APPROVED"]
           /\ calls' = [calls EXCEPT ![c] = Call("create", Newcomer, request.role, request.userType)]
  <2>1. /\ request' \in RequestType /\ RequestInv' /\ request'.status = "APPROVED"
        /\ request'.role = request.role /\ request'.userType = request.userType
    BY <1>4, RequestStatus
  <2>2. DocsInv' /\ Steady /\ \A y \in Accounts : SameRights(y)
    BY <1>1, <1>4, <2>1, QuietStep
  <2>3. PICK k \in CallType : /\ k = Call("create", Newcomer, request.role, request.userType)
                              /\ k.op = "create"
                              /\ k.role = request.role /\ k.userType = request.userType
    <3>1. request.role \in AnyRole /\ request.userType \in AnyType
      BY DEF IInv, DocsInv, TypeInv, RequestType
    <3>2. Newcomer \in Accounts /\ "create" \in Ops
      BY DEF Accounts, Ops
    <3>. QED  BY <3>1, <3>2, CallTypes
  <2>4. Fit(calls[c])'
    <3>1. calls'[c] = k
      BY <1>4, <2>3 DEF IInv, CallsInv
    <3>. QED  BY <2>1, <2>3, <3>1 DEF Fit
  <2>5. \A d \in Calls \ {c} :
           calls[d].op = "profile" /\ calls[d].account \notin overlapped' =>
              /\ SameRights(calls[d].account)
              /\ k.op = "profile" => k.account # calls[d].account
    BY <2>2, <2>3, EditedAccounts
  <2>. QED  BY <1>4, <2>2, <2>3, <2>4, <2>5, CallsKept DEF IInv
<1>. QED  BY <1>2, <1>3, <1>4 DEF Approve, Continue

\* A new account: the rights of the others stay, and no edit was about it.
LEMMA CreateInv ==
    ASSUME IInv, (\E c \in Calls : CreateAccount(c)) \/
                 \E role \in Offered, t \in Assignable : CreateDirect(role, t)
    PROVE  IInv'
<1>1. Newcomer \in Accounts /\ \A x \in Accounts \ {Newcomer} : x # Newcomer
  BY DEF Accounts
<1>2. ASSUME NEW c \in Calls, CreateAccount(c), Exists(Newcomer)
      PROVE  IInv'
  <2>1. UNCHANGED <<accounts, request, given, overlapped>> /\ calls' = [calls EXCEPT ![c] = Idle]
    BY <1>2 DEF CreateAccount, Continue
  <2>2. DocsInv' /\ Steady /\ \A y \in Accounts : SameRights(y)
    BY <2>1, QuietStep DEF IInv, DocsInv, TypeInv, RequestInv
  <2>. QED  BY <2>1, <2>2, EditedAccounts, EndInv
<1>3. ASSUME NEW c \in Calls, CreateAccount(c), ~Exists(Newcomer)
      PROVE  IInv'
  <2>1. UNCHANGED <<request, overlapped>> /\ calls' = [calls EXCEPT ![c] = Idle]
    BY <1>3 DEF CreateAccount, Continue
  <2>2. PICK role \in AnyRole, t \in AnyType, by \in AnyRole :
           role = request.role /\ t = request.userType /\ by = request.by
    BY DEF IInv, DocsInv, TypeInv, RequestType
  <2>3. calls[c].role = role /\ calls[c].userType = t
    BY <1>3, <2>2 DEF CreateAccount, At, IInv, CallsInv, Fit
  <2>4. role # "NONE"
    BY <1>3, <2>2 DEF CreateAccount, At, IInv, DocsInv, RequestInv, CallsInv, Fit, Roles
  <2>5. IInv'
    <3>1. PICK acc \in AccountType : /\ acc = Account(role, t)
                                     /\ acc.role = role /\ acc.userType = t
      BY <2>4, AccountTypes DEF AnyRole
    <3>2. accounts' = [accounts EXCEPT ![Newcomer] = acc]
      BY <1>3, <2>3, <3>1 DEF CreateAccount
    <3>3. given' = [given EXCEPT ![Newcomer] = by]
      BY <1>3, <2>2 DEF CreateAccount
    <3>4. /\ given' \in [Accounts -> Sponsors] /\ given'[Newcomer] = by
          /\ \A y \in Accounts \ {Newcomer} : given'[y] = given[y]
      BY <1>1, <3>3 DEF IInv, DocsInv, TypeInv, Sponsors
    <3>5. /\ role \in {"ADMIN", "APPROVER"} => by \in {"ADMIN", "SUPERADMIN"}
          /\ Initiates(role, t)
      BY <2>2 DEF IInv, DocsInv, RequestInv, Initiates
    <3>6. DocsInv' /\ Steady /\ \A y \in Accounts \ {Newcomer} : SameRights(y)
      BY <1>1, <2>1, <2>4, <3>1, <3>2, <3>4, <3>5, AccountStep
    <3>. QED  BY <1>3, <2>1, <3>6, EditedAccounts, EndInv
  <2>. QED  BY <2>5
<1>4. ASSUME NEW role \in Offered, NEW t \in Assignable, CreateDirect(role, t)
      PROVE  IInv'
  <2>1. /\ role \in Roles /\ role \notin {"NONE", "MARKETER"} /\ t \in AnyType
    BY <1>4 DEF CreateDirect, Roles, Assignable, AnyType, UserTypes
  <2>2. PICK acc \in AccountType : acc = Account(role, t) /\ acc.role = role /\ acc.userType = t
    BY <2>1, AccountTypes
  <2>3. /\ accounts' = [accounts EXCEPT ![Newcomer] = acc]
        /\ given' = [given EXCEPT ![Newcomer] = "direct"]
        /\ UNCHANGED <<request, overlapped, calls>> /\ ~Exists(Newcomer)
    BY <1>4, <2>2 DEF CreateDirect
  <2>4. /\ given' \in [Accounts -> Sponsors] /\ given'[Newcomer] = "direct"
        /\ \A y \in Accounts \ {Newcomer} : given'[y] = given[y]
    BY <1>1, <2>3 DEF IInv, DocsInv, TypeInv, Sponsors
  <2>5. DocsInv' /\ Steady /\ \A y \in Accounts \ {Newcomer} : SameRights(y)
    BY <1>1, <2>1, <2>2, <2>3, <2>4, AccountStep DEF Initiates
  <2>. QED  BY <2>3, <2>5, CallsStay DEF IInv
<1>. QED  BY <1>2, <1>3, <1>4

-----------------------------------------------------------------------------
\* The edit of a profile.
LEMMA ChangedGiven ==
    ASSUME NEW new, NEW old, new # "NONE"
    PROVE  Given(Changed(new, old), old) = new
BY DEF Given, Changed

LEMMA UpdateProfileReadInv ==
    ASSUME IInv, NEW c \in Calls, NEW y \in Accounts,
           NEW role \in Offered \union {"NONE"}, NEW t \in UserTypes \union {"NONE"},
           UpdateProfileRead(c, y, role, t)
    PROVE  IInv'
<1>1. PICK m \in AccountType : m = accounts[y] /\ m.role # "NONE"
  BY DEF UpdateProfileRead, IInv, DocsInv, TypeInv
<1>2. PICK newRole \in AnyRole : newRole = Given(role, m.role) /\ newRole # "NONE"
  BY <1>1, StaffConstants DEF Given, Onboardable, AnyRole, AccountType
<1>3. PICK newType \in AnyType : /\ newType = EditedType(y, role, t)
                                 /\ newType # "NONE" /\ Initiates(newRole, newType)
  BY <1>1, <1>2 DEF UpdateProfileRead, EditedType, ResolveUserType, Assignable, AnyType,
                    UserTypes, Initiates
<1>4. PICK r \in AnyRole, u \in AnyType :
         r = Changed(newRole, m.role) /\ u = Changed(newType, m.userType)
  BY DEF Changed, AnyRole, AnyType
<1>5. Given(r, m.role) = newRole /\ Given(u, m.userType) = newType
  BY <1>2, <1>3, <1>4, ChangedGiven
<1>6. PICK k \in CallType : /\ k = Call("profile", y, r, u)
                            /\ k.op = "profile" /\ k.account = y
                            /\ k.role = r /\ k.userType = u
  BY CallTypes DEF Ops
<1>7. calls' = [calls EXCEPT ![c] = k] /\ UNCHANGED <<accounts, request, given>>
  BY <1>1, <1>2, <1>3, <1>4, <1>6 DEF UpdateProfileRead, Continue
<1>8. overlapped \subseteq overlapped' /\ (Editing(y) => y \in overlapped')
  BY DEF UpdateProfileRead
<1>9. DocsInv' /\ Steady /\ \A x \in Accounts : SameRights(x)
  BY <1>7, <1>8, QuietStep DEF IInv, DocsInv, TypeInv, RequestInv
<1>10. Fit(calls[c])'
  <2>1. calls'[c] = k
    BY <1>7 DEF IInv, CallsInv
  <2>2. Exists(y)'
    BY <1>9 DEF Steady, UpdateProfileRead
  <2>3. Initiates(Given(k.role, accounts'[y].role), Given(k.userType, accounts'[y].userType))
    BY <1>1, <1>3, <1>5, <1>6, <1>7
  <2>. QED  BY <1>6, <2>1, <2>2, <2>3 DEF Fit, Initiates
<1>11. \A d \in Calls \ {c} :
          calls[d].op = "profile" /\ calls[d].account \notin overlapped' =>
             /\ SameRights(calls[d].account)
             /\ k.op = "profile" => k.account # calls[d].account
  BY <1>6, <1>8, <1>9, EditedAccounts DEF Editing, At
<1>. QED  BY <1>7, <1>9, <1>10, <1>11, CallsKept DEF IInv

LEMMA UpdateProfileInv ==
    ASSUME IInv, NEW c \in Calls, UpdateProfile(c)
    PROVE  IInv'
<1>1. PICK k \in CallType : k = calls[c] /\ Fit(k) /\ k.op = "profile"
  BY DEF UpdateProfile, At, IInv, CallsInv
<1>2. PICK x \in Accounts : x = k.account /\ Exists(x)
  BY <1>1 DEF Fit, CallType
<1>3. PICK m \in AccountType : m = accounts[x] /\ m.role # "NONE"
  BY <1>2 DEF IInv, DocsInv, TypeInv
<1>4. PICK r \in AnyRole, u \in AnyType :
         r = Given(k.role, m.role) /\ u = Given(k.userType, m.userType) /\ r # "NONE"
  BY <1>3 DEF Given, CallType, AccountType
<1>5. PICK acc \in AccountType :
         acc = [m EXCEPT !.role = r, !.userType = u] /\ acc.role = r /\ acc.userType = u
  <2>1. [m EXCEPT !.role = r, !.userType = u].role = r
    BY DEF AccountType
  <2>2. [m EXCEPT !.role = r, !.userType = u].userType = u
    BY DEF AccountType
  <2>3. [m EXCEPT !.role = r, !.userType = u] \in AccountType
    BY DEF AccountType
  <2>. QED  BY <2>1, <2>2, <2>3
<1>6. accounts' = [accounts EXCEPT ![x] = acc]
  <2>1. accounts' = [accounts EXCEPT ![x].role = r, ![x].userType = u]
    BY <1>1, <1>2, <1>3, <1>4 DEF UpdateProfile
  <2>. QED  BY <1>3, <1>5, <2>1 DEF IInv, DocsInv, TypeInv
<1>7. UNCHANGED <<request, overlapped>> /\ calls' = [calls EXCEPT ![c] = Idle]
  BY DEF UpdateProfile, Continue
<1>8. given' = IF k.role = "NONE" THEN given ELSE [given EXCEPT ![x] = "profile"]
  BY <1>1, <1>2 DEF UpdateProfile
<1>9. given' \in [Accounts -> Sponsors] /\ \A y \in Accounts \ {x} : given'[y] = given[y]
  BY <1>8 DEF IInv, DocsInv, TypeInv, Sponsors
<1>10. acc.role \in {"ADMIN", "APPROVER"} =>
          given'[x] \in {"seed", "direct", "profile", "ADMIN", "SUPERADMIN"}
  <2>1. CASE k.role = "NONE"
    BY <1>3, <1>4, <1>5, <1>8, <2>1 DEF Given, IInv, DocsInv, ElevatedBySponsor
  <2>2. CASE k.role # "NONE"
    BY <1>8, <2>2 DEF IInv, DocsInv, TypeInv
  <2>. QED  BY <2>1, <2>2
<1>11. x \notin overlapped => Initiates(acc.role, acc.userType)
  BY <1>1, <1>2, <1>3, <1>4, <1>5 DEF Fit
<1>12. DocsInv' /\ Steady /\ \A y \in Accounts \ {x} : SameRights(y)
  BY <1>4, <1>5, <1>6, <1>7, <1>9, <1>10, <1>11, AccountStep
<1>13. ASSUME NEW d \in Calls \ {c}, calls[d].op = "profile", calls[d].account \notin overlapped'
       PROVE  SameRights(calls[d].account)
  <2>1. calls[d].account # x
    BY <1>1, <1>2, <1>7, <1>13 DEF IInv, CallsInv, EditorsOverlap
  <2>. QED  BY <1>12, <1>13, <2>1, EditedAccounts
<1>. QED  BY <1>7, <1>12, <1>13, EndInv

-----------------------------------------------------------------------------
(***************************************************************************)
(* The routes.  No step is taken here: what a caller may do follows from   *)
(* the guards of the controllers, route by route, whatever the accounts,   *)
(* the tokens and the matrix have become.                                  *)
(***************************************************************************)

OpensNothing(r) == r.opens = ""

AsksOnlyFor(r, step) == r.needs # {} /\ \A capability \in r.needs : capability[1] = step

\* What the guard of a route must ask for.
Fine(r) ==
    /\ OpensNothing(r) \/ r.name \in Unfiltered \/ AsksOnlyFor(r, "initiate")
    /\ r.name \notin Deciding \/ AsksOnlyFor(r, "approve")

\* The same routes, whatever stands for no type of entity.
RoutesWith(component, needs, modules, handlers, nothing) ==
    {[name |-> <<component, h>>, needs |-> needs, modules |-> modules, opens |-> nothing] :
        h \in handlers}

LEMMA RouteFields ==
    ASSUME NEW component, NEW needs, NEW modules, NEW handlers, NEW nothing,
           NEW r \in RoutesWith(component, needs, modules, handlers, nothing)
    PROVE  /\ \E h \in handlers : r.name = <<component, h>>
           /\ r.needs = needs
           /\ r.opens = nothing
           /\ r = [name |-> r.name, needs |-> needs, modules |-> modules, opens |-> nothing]
BY DEF RoutesWith

LEMMA RouteShape ==
    ASSUME NEW component, NEW needs, NEW modules, NEW handlers,
           NEW r \in Route(component, needs, modules, handlers)
    PROVE  /\ \E h \in handlers : r.name = <<component, h>>
           /\ r.needs = needs
           /\ OpensNothing(r)
           /\ \E nothing : r = [name |-> r.name, needs |-> needs, modules |-> modules,
                                opens |-> nothing]
<1>1. PICK nothing :
         /\ Route(component, needs, modules, handlers)
               = RoutesWith(component, needs, modules, handlers, nothing)
         /\ \A q : q.opens = nothing => OpensNothing(q)
  <2>1. /\ Route(component, needs, modules, handlers)
               = RoutesWith(component, needs, modules, handlers, "")
        /\ \A q : q.opens = "" => OpensNothing(q)
    BY Zenon DEF Route, RoutesWith, OpensNothing
  <2>. QED  BY <2>1, Zenon
<1>. QED  BY <1>1, RouteFields

LEMMA OpeningShape ==
    ASSUME NEW component, NEW needs, NEW modules, NEW handlers, NEW type, NEW opening,
           NEW r \in Opening(type, opening, Route(component, needs, modules, handlers))
    PROVE  /\ \E h \in handlers : /\ r.name = <<component, h>>
                                  /\ h \in opening \/ OpensNothing(r)
           /\ r.needs = needs
<1>1. PICK q \in Route(component, needs, modules, handlers) :
         r = [q EXCEPT !.opens = IF q.name[2] \in opening THEN type ELSE q.opens]
  BY DEF Opening
<1>2. PICK nothing : q = [name |-> q.name, needs |-> needs, modules |-> modules, opens |-> nothing]
  BY RouteShape
<1>3. /\ r.name = q.name /\ r.needs = needs
      /\ r.opens = IF q.name[2] \in opening THEN type ELSE q.opens
  BY <1>1, <1>2
<1>4. PICK h \in handlers : q.name = <<component, h>>
  BY RouteShape
<1>5. q.name[2] = h
  BY <1>4
<1>6. h \in opening \/ r.opens = q.opens
  BY <1>3, <1>5
<1>7. OpensNothing(q)
  BY RouteShape
<1>8. h \in opening \/ OpensNothing(r)
  BY <1>6, <1>7, Zenon DEF OpensNothing
<1>. QED  BY <1>3, <1>4, <1>8

LEMMA Singleton ==
    ASSUME NEW r, NEW step, NEW type, r.needs = {<<step, type>>}
    PROVE  AsksOnlyFor(r, step)
BY DEF AsksOnlyFor

\* The three ways in which the guard of a handler may be as it should.
LEMMA QuietRoutes ==
    ASSUME NEW component, NEW needs, NEW modules, NEW handlers,
           \A h \in handlers : <<component, h>> \notin Deciding
    PROVE  \A r \in Route(component, needs, modules, handlers) : Fine(r)
<1>1. ASSUME NEW r \in Route(component, needs, modules, handlers)
      PROVE  OpensNothing(r) /\ r.name \notin Deciding
  <2>1. PICK h \in handlers : r.name = <<component, h>>
    BY RouteShape
  <2>. QED  BY <2>1, RouteShape
<1>. QED  BY <1>1 DEF Fine

LEMMA ApprovingRoutes ==
    ASSUME NEW component, NEW type, NEW handlers
    PROVE  \A r \in Guarded(component, <<"approve", type>>, handlers) : Fine(r)
<1>1. ASSUME NEW r \in Route(component, {<<"approve", type>>}, {}, handlers)
      PROVE  Fine(r)
  <2>1. OpensNothing(r) /\ r.needs = {<<"approve", type>>}
    BY <1>1, RouteShape
  <2>2. AsksOnlyFor(r, "approve")
    BY <2>1, Singleton
  <2>. QED  BY <2>1, <2>2 DEF Fine
<1>. QED  BY <1>1 DEF Guarded

LEMMA OpeningRoutes ==
    ASSUME NEW component, NEW needs, NEW modules, NEW handlers, NEW type, NEW opening,
           \A h \in handlers : <<component, h>> \notin Deciding,
           \/ \E t : needs = {<<"initiate", t>>}
           \/ \A h \in opening : <<component, h>> \in Unfiltered
    PROVE  \A r \in Opening(type, opening, Route(component, needs, modules, handlers)) : Fine(r)
<1>1. ASSUME NEW r \in Opening(type, opening, Route(component, needs, modules, handlers))
      PROVE  Fine(r)
  <2>1. PICK h \in handlers : r.name = <<component, h>> /\ (h \in opening \/ OpensNothing(r))
    BY OpeningShape
  <2>2. r.needs = needs
    BY OpeningShape
  <2>3. r.name \notin Deciding
    BY <2>1
  <2>4. CASE \E t : needs = {<<"initiate", t>>}
    <3>1. AsksOnlyFor(r, "initiate")
      BY <2>2, <2>4, Singleton
    <3>. QED  BY <2>3, <3>1 DEF Fine
  <2>5. CASE \A i \in opening : <<component, i>> \in Unfiltered
    <3>1. OpensNothing(r) \/ r.name \in Unfiltered
      BY <2>1, <2>5
    <3>. QED  BY <2>3, <3>1 DEF Fine
  <2>. QED  BY <2>4, <2>5
<1>. QED  BY <1>1

LEMMA DecidingPairs ==
    ASSUME NEW component, NEW h, <<component, h>> \in Deciding
    PROVE  \/ component = "customers" /\ h \in {"decideEditPrivilege", "disable", "enable",
                                                "manuallyVerifyNin"}
           \/ component = "groups" /\ h = "decideEditPrivilege"
           \/ component = "verification" /\ h = "resolveEscalation"
           \/ component = "repayments" /\ h = "resolveDispute"
           \/ component = "branch-requests" /\ h = "resolve"
           \/ component = "branches" /\ h = "remove"
           \/ component = "coverage" /\ h = "revoke"
BY DEF Deciding

LEMMA UnfilteredPairs ==
    /\ <<"groups", "reassignLeadership">> \in Unfiltered
    /\ <<"leave", "apply">> \in Unfiltered
    /\ <<"salary", "propose">> \in Unfiltered
    /\ <<"ledger", "proposeManualEntry">> \in Unfiltered
BY DEF Unfiltered

LEMMA CustomerRoutes ==
    \A r \in UNION {CustomerLookups, CustomerOnboarding, CustomerRecords} :
        Fine(r)
<1>1. \A r \in CustomerLookups : Fine(r)
  BY DecidingPairs, QuietRoutes DEF CustomerLookups, SignedIn, Guarded
<1>2. \A r \in CustomerOnboarding : Fine(r)
  BY DecidingPairs, OpeningRoutes, ApprovingRoutes, QuietRoutes DEF CustomerOnboarding,
     Guarded
<1>3. \A r \in CustomerRecords : Fine(r)
  BY DecidingPairs, QuietRoutes, ApprovingRoutes DEF CustomerRecords, SignedIn, Guarded
<1>. QED  BY <1>1, <1>2, <1>3

LEMMA GroupAndBranchRoutes ==
    \A r \in UNION {GroupProposals, GroupRecords, BranchRecords, BranchPeople, CoverageRoutes,
                    FundingRoutes, BankAccountRoutes, BranchRequestRoutes} :
        Fine(r)
<1>1. \A r \in GroupProposals : Fine(r)
  BY DecidingPairs, OpeningRoutes, QuietRoutes, UnfilteredPairs DEF GroupProposals, Guarded
<1>2. \A r \in GroupRecords : Fine(r)
  BY DecidingPairs, QuietRoutes, ApprovingRoutes DEF GroupRecords, SignedIn, Guarded
<1>3. \A r \in BranchRecords : Fine(r)
  BY DecidingPairs, QuietRoutes, OpeningRoutes, ApprovingRoutes DEF BranchRecords,
     SignedIn, Guarded
<1>4. \A r \in BranchPeople : Fine(r)
  BY DecidingPairs, QuietRoutes, OpeningRoutes DEF BranchPeople, SignedIn, Guarded
<1>5. \A r \in CoverageRoutes : Fine(r)
  BY DecidingPairs, QuietRoutes, OpeningRoutes, ApprovingRoutes DEF CoverageRoutes,
     SignedIn, Guarded
<1>6. \A r \in FundingRoutes : Fine(r)
  BY DecidingPairs, QuietRoutes DEF FundingRoutes, SignedIn, Guarded
<1>7. \A r \in BankAccountRoutes : Fine(r)
  BY DecidingPairs, QuietRoutes DEF BankAccountRoutes, SignedIn, Guarded
<1>8. \A r \in BranchRequestRoutes : Fine(r)
  BY DecidingPairs, QuietRoutes, ApprovingRoutes DEF BranchRequestRoutes, SignedIn, Guarded
<1>. QED  BY <1>1, <1>2, <1>3, <1>4, <1>5, <1>6, <1>7, <1>8

LEMMA StaffRoutes ==
    \A r \in UNION {StaffOnboarding, StaffAdministration, DepartmentRoutes, UnitRoutes,
                    LeaveRoutes, SalaryRoutes, LeaveTypeRoutes, AccountRoutes, LedgerRoutes} :
        Fine(r)
<1>1. \A r \in StaffOnboarding : Fine(r)
  BY DecidingPairs, QuietRoutes, OpeningRoutes DEF StaffOnboarding, SignedIn, Guarded
<1>2. \A r \in StaffAdministration : Fine(r)
  BY DecidingPairs, QuietRoutes DEF StaffAdministration, Guarded
<1>3. \A r \in DepartmentRoutes : Fine(r)
  BY DecidingPairs, QuietRoutes DEF DepartmentRoutes, Guarded
<1>4. \A r \in UnitRoutes : Fine(r)
  BY DecidingPairs, QuietRoutes DEF UnitRoutes, Guarded
<1>5. \A r \in LeaveRoutes : Fine(r)
  BY DecidingPairs, QuietRoutes, OpeningRoutes, UnfilteredPairs DEF LeaveRoutes, SignedIn
<1>6. \A r \in SalaryRoutes : Fine(r)
  BY DecidingPairs, QuietRoutes, OpeningRoutes, UnfilteredPairs DEF SalaryRoutes, SignedIn
<1>7. \A r \in LeaveTypeRoutes : Fine(r)
  BY DecidingPairs, QuietRoutes DEF LeaveTypeRoutes
<1>8. \A r \in AccountRoutes : Fine(r)
  BY DecidingPairs, QuietRoutes DEF AccountRoutes
<1>9. \A r \in LedgerRoutes : Fine(r)
  BY DecidingPairs, OpeningRoutes, QuietRoutes, UnfilteredPairs DEF LedgerRoutes
<1>. QED  BY <1>1, <1>2, <1>3, <1>4, <1>5, <1>6, <1>7, <1>8, <1>9

LEMMA LoanRoutes ==
    \A r \in UNION {LoanApplications, LoanRecords, VerificationRoutes, FeePaymentRoutes,
                    RepaymentRoutes, LiquidationRoutes, DetailRoutes, ReportRoutes,
                    RiskRoutes} :
        Fine(r)
<1>1. \A r \in LoanApplications : Fine(r)
  BY DecidingPairs, OpeningRoutes, QuietRoutes DEF LoanApplications, Guarded
<1>2. \A r \in LoanRecords : Fine(r)
  BY DecidingPairs, QuietRoutes DEF LoanRecords, SignedIn, Guarded
<1>3. \A r \in VerificationRoutes : Fine(r)
  BY DecidingPairs, ApprovingRoutes, QuietRoutes DEF VerificationRoutes, Guarded
<1>4. \A r \in FeePaymentRoutes : Fine(r)
  BY DecidingPairs, QuietRoutes DEF FeePaymentRoutes, SignedIn, Guarded
<1>5. \A r \in RepaymentRoutes : Fine(r)
  BY DecidingPairs, QuietRoutes, OpeningRoutes, ApprovingRoutes DEF RepaymentRoutes,
     SignedIn, Guarded
<1>6. \A r \in LiquidationRoutes : Fine(r)
  BY DecidingPairs, QuietRoutes, OpeningRoutes DEF LiquidationRoutes, SignedIn, Guarded
<1>7. \A r \in DetailRoutes : Fine(r)
  BY DecidingPairs, QuietRoutes DEF DetailRoutes, SignedIn
<1>8. \A r \in ReportRoutes : Fine(r)
  BY DecidingPairs, QuietRoutes DEF ReportRoutes, SignedIn
<1>9. \A r \in RiskRoutes : Fine(r)
  BY DecidingPairs, QuietRoutes DEF RiskRoutes, SignedIn
<1>. QED  BY <1>1, <1>2, <1>3, <1>4, <1>5, <1>6, <1>7, <1>8, <1>9

LEMMA PlatformRoutes ==
    \A r \in UNION {ProductRoutes, FeeRoutes, LoanConfigRoutes, PenaltyConfigRoutes,
                    BranchRulesRoutes, OrganisationRoutes, NotificationAdminRoutes, InboxRoutes,
                    AuthRoutes, ReferenceRoutes, RbacRoutes, WorkflowRoutes} :
        Fine(r)
<1>1. \A r \in ProductRoutes : Fine(r)
  BY DecidingPairs, QuietRoutes, OpeningRoutes DEF ProductRoutes, SignedIn, Guarded
<1>2. \A r \in FeeRoutes : Fine(r)
  BY DecidingPairs, QuietRoutes, OpeningRoutes DEF FeeRoutes, SignedIn, Guarded
<1>3. \A r \in LoanConfigRoutes : Fine(r)
  BY DecidingPairs, QuietRoutes, OpeningRoutes DEF LoanConfigRoutes, ConfigRoutes,
     SignedIn, Guarded
<1>4. \A r \in PenaltyConfigRoutes : Fine(r)
  BY DecidingPairs, QuietRoutes, OpeningRoutes DEF PenaltyConfigRoutes, ConfigRoutes,
     SignedIn, Guarded
<1>5. \A r \in BranchRulesRoutes : Fine(r)
  BY DecidingPairs, QuietRoutes, OpeningRoutes DEF BranchRulesRoutes, ConfigRoutes,
     SignedIn, Guarded
<1>6. \A r \in OrganisationRoutes : Fine(r)
  BY DecidingPairs, QuietRoutes DEF OrganisationRoutes, SignedIn, Guarded
<1>7. \A r \in NotificationAdminRoutes : Fine(r)
  BY DecidingPairs, QuietRoutes DEF NotificationAdminRoutes, Guarded
<1>8. \A r \in InboxRoutes : Fine(r)
  BY DecidingPairs, QuietRoutes DEF InboxRoutes, SignedIn
<1>9. \A r \in AuthRoutes : Fine(r)
  BY DecidingPairs, QuietRoutes DEF AuthRoutes, SignedIn
<1>10. \A r \in ReferenceRoutes : Fine(r)
  BY DecidingPairs, QuietRoutes DEF ReferenceRoutes, SignedIn
<1>11. \A r \in RbacRoutes : Fine(r)
  BY DecidingPairs, QuietRoutes DEF RbacRoutes, Guarded
<1>12. \A r \in WorkflowRoutes : Fine(r)
  BY DecidingPairs, QuietRoutes DEF WorkflowRoutes, SignedIn
<1>. QED  BY <1>1, <1>2, <1>3, <1>4, <1>5, <1>6, <1>7, <1>8, <1>9, <1>10, <1>11, <1>12

LEMMA EveryRoute == \A r \in Routes : Fine(r)
BY CustomerRoutes, GroupAndBranchRoutes, StaffRoutes, LoanRoutes, PlatformRoutes DEF Routes

-----------------------------------------------------------------------------
LEMMA NextInv == IInv /\ [Next]_vars => IInv'
<1>. SUFFICES ASSUME IInv, [Next]_vars PROVE IInv'
  OBVIOUS
<1>1. CASE UNCHANGED vars
  BY <1>1, MatrixInv DEF vars
<1>2. ASSUME NEW x \in Accounts,
             \/ \E role \in Offered, t \in Assignable :
                   InitiateOnboarding(x, role, t) \/ ResubmitOnboarding(x, role, t)
             \/ WithdrawOnboarding(x)
             \/ \E st \in {"RETURNED", "REJECTED"} : SendBack(x, st)
      PROVE  IInv'
  BY <1>2, ProposalInv
<1>3. ASSUME NEW x \in Accounts,
             Renew(x) \/ \E modules \in {{}, ModuleNames} : SetModules(x, modules)
      PROVE  IInv'
  BY <1>3, AsideInv
<1>4. ASSUME NEW role \in Roles,
             \/ \E tracked \in SUBSET Tracked : SetCapabilities(role, tracked)
             \/ \E capability \in Tracked : \/ AddCapability(role, capability)
                                            \/ RemoveCapability(role, capability)
             \/ Reconcile(role)
      PROVE  IInv'
  BY <1>4, MatrixActions, MatrixInv
<1>5. ASSUME \E role \in Offered, t \in Assignable : CreateDirect(role, t)
      PROVE  IInv'
  BY <1>5, CreateInv
<1>6. ASSUME NEW c \in Calls,
             \/ \E x \in Accounts, role \in Offered \union {"NONE"}, t \in UserTypes \union {"NONE"} :
                   UpdateProfileRead(c, x, role, t)
             \/ \E x \in Accounts : ApproveRead(c, x)
             \/ Approve(c)
             \/ CreateAccount(c)
             \/ UpdateProfile(c)
             \/ Abandon(c)
      PROVE  IInv'
  BY <1>6, UpdateProfileReadInv, ApproveInv, CreateInv, UpdateProfileInv, AbandonInv
<1>. QED  BY <1>1, <1>2, <1>3, <1>4, <1>5, <1>6 DEF Next

LEMMA SpecInv == Spec => []IInv
BY InitInv, NextInv, PTL DEF Spec

\* Whoever is an ADMIN or an APPROVER by way of the onboarding (staff.service.ts,
\* initiateOnboarding, resubmitOnboarding and the handler of the approval) was
\* put forward by an ADMIN or a SUPERADMIN: the role is checked at each rewrite
\* of the payload, and the payload that is approved is the one that is created.
THEOREM ElevatedAccountsHaveSponsors == Spec => []ElevatedBySponsor
<1>1. IInv => ElevatedBySponsor
  BY DEF IInv, DocsInv
<1>. QED  BY <1>1, SpecInv, PTL

\* resolveUserType is applied at every way to a role (onboarding, createDirect,
\* updateProfile): a marketer can only initiate, as long as two edits of the
\* profile, each of which saves the fields it changed, have not overlapped.
THEOREM MarketersAreInitiators == Spec => []MarketersInitiate
<1>1. IInv => MarketersInitiate
  BY DEF IInv, DocsInv
<1>. QED  BY <1>1, SpecInv, PTL

\* "Only Initiator can initiate, only Authorizer can review/approve": the guards
\* of the controllers ask for the right capability on every route that opens a
\* request or decides, the four unfiltered ones apart, and what a user type
\* leaves of a role holds whatever the matrix and the token say
\* (filterCapabilitiesByUserType).
THEOREM DutiesAreSeparated == Spec => []DutiesSeparated
<1>1. DutiesSeparated
  <2>1. SUFFICES ASSUME NEW x \in Existing, NEW r \in Routes, Passes(x, r)
                 PROVE  /\ ~OpensNothing(r) /\ r.name \notin Unfiltered =>
                              accounts[x].userType = "INITIATOR"
                        /\ r.name \in Deciding => accounts[x].userType = "AUTHORIZER"
    BY Zenon DEF DutiesSeparated, Sensitive, OpensNothing
  <2>2. \A capability \in r.needs : capability[1] = "initiate" /\ Holds(x, capability) =>
           accounts[x].userType = "INITIATOR"
    BY DEF Holds, Keeps
  <2>3. \A capability \in r.needs : capability[1] = "approve" /\ Holds(x, capability) =>
           accounts[x].userType = "AUTHORIZER"
    BY DEF Holds, Keeps
  <2>4. r.needs # {} => \E capability \in r.needs : Holds(x, capability)
    BY <2>1 DEF Passes
  <2>5. Fine(r)
    BY EveryRoute
  <2>. QED  BY <2>2, <2>3, <2>4, <2>5 DEF Fine, AsksOnlyFor
<1>. QED  BY <1>1, PTL
-----------------------------------------------------------------------------
(* The sessions of one account *)

TokenType == [status : {"ABSENT", "LIVE", "REVOKED"}, parent : Tokens \union {0}]

ChallengeType == [status : {"ABSENT", "OPEN", "CONSUMED", "GONE"}, attempts : Nat]

SessionOps == {"idle", "died", "challenge", "count", "consume", "check_owner", "revoke", "issue",
        "revoke_all", "disable", "enable", "set_password"}

SessionCallType == [op : SessionOps, token : Tokens \union {0},
             challenge : {"login", "reset"} \X Nat, seen : Nat]

Issued(t) == tokens[t].status # "ABSENT"
Revoked(t) == tokens[t].status = "REVOKED"

\* A call that rotates a token holds one that was issued, and by the time it
\* issues the successor the token is revoked.
CallHolds(call) ==
    /\ call.op = "revoke" => call.token # 0
    /\ call.token # 0 => Issued(call.token)
    /\ call.token # 0 /\ call.op = "issue" => Revoked(call.token)

SessionTypeInv ==
    /\ tokens \in [Tokens -> TokenType]
    /\ challenges \in [Challenges -> ChallengeType]
    /\ sessionCalls \in [SessionCalls -> SessionCallType]
    /\ earlier \in SUBSET Tokens

\* An absent token is no document at all, so that it has no predecessor.
AbsentIsNone == \A t \in Tokens : ~Issued(t) => tokens[t].parent = 0

CallsHold == \A c \in SessionCalls : CallHolds(sessionCalls[c])

ParentsRevoked == \A u \in Tokens : tokens[u].parent # 0 => Revoked(tokens[u].parent)

EarlierRevoked == \A t \in earlier : Revoked(t)

SessionIInv ==
    /\ SessionTypeInv
    /\ AbsentIsNone
    /\ CallsHold
    /\ ParentsRevoked
    /\ EarlierRevoked

-----------------------------------------------------------------------------
LEMMA BoundsTyped ==
    /\ MaxTokens \in Nat
    /\ 0 \notin Tokens
    /\ Challenges \subseteq {"login", "reset"} \X Nat
BY SessionConstants DEF Tokens, Challenges

\* A call without a token holds none.
LEMMA SessionCallTypes ==
    /\ SessionIdle \in SessionCallType /\ SessionIdle.token = 0 /\ SessionIdle.op = "idle"
    /\ Died \in SessionCallType /\ Died.token = 0 /\ Died.op = "died"
    /\ \A op \in SessionOps : Then(op) \in SessionCallType /\ Then(op).token = 0 /\ Then(op).op = op
BY DEF SessionIdle, Died, Then, SessionCall, NoneOf, SessionCallType, SessionOps

LEMMA IdleHolds ==
    /\ CallHolds(SessionIdle) /\ CallHolds(Died)
    /\ \A op \in SessionOps \ {"revoke"} : CallHolds(Then(op))
BY SessionCallTypes DEF CallHolds

\* A call that goes on without a token, or with one that it may hold.
LEMMA SessionCallStep ==
    ASSUME SessionIInv, NEW c \in SessionCalls, NEW k \in SessionCallType, CallHolds(k),
           sessionCalls' = [sessionCalls EXCEPT ![c] = k],
           UNCHANGED <<tokens, earlier>>,
           challenges' \in [Challenges -> ChallengeType]
    PROVE  SessionIInv'
<1>1. SessionTypeInv'
  BY DEF SessionIInv, SessionTypeInv
<1>2. AbsentIsNone' /\ ParentsRevoked' /\ EarlierRevoked'
  BY DEF SessionIInv, AbsentIsNone, ParentsRevoked, EarlierRevoked, Issued, Revoked
<1>3. CallsHold'
  <2>1. \A d \in SessionCalls : sessionCalls'[d] = IF d = c THEN k ELSE sessionCalls[d]
    BY DEF SessionIInv, SessionTypeInv
  <2>. QED  BY <2>1 DEF SessionIInv, CallsHold, CallHolds, Issued, Revoked
<1>. QED  BY <1>1, <1>2, <1>3 DEF SessionIInv

\* A call that only reads, with or without entering its slot.
LEMMA ReadStep ==
    ASSUME SessionIInv, NEW c \in SessionCalls, NEW k \in SessionCallType, CallHolds(k), Reads(c, k)
    PROVE  SessionIInv'
BY SessionCallStep DEF Reads, SessionContinue, SessionIInv, SessionTypeInv

\* Tokens are only ever issued and revoked: what was issued stays, and what was
\* revoked stays so.
Onward ==
    \A t \in Tokens :
        /\ Issued(t) => Issued(t)'
        /\ Revoked(t) => Revoked(t)'

\* A call that goes on with a token it may hold keeps what the others hold.
LEMMA HoldsOnward ==
    ASSUME SessionIInv, Onward, NEW c \in SessionCalls, NEW k \in SessionCallType,
           sessionCalls' = [sessionCalls EXCEPT ![c] = k],
           CallHolds(k)'
    PROVE  CallsHold' /\ sessionCalls' \in [SessionCalls -> SessionCallType]
<1>1. \A d \in SessionCalls : sessionCalls'[d] = IF d = c THEN k ELSE sessionCalls[d]
  BY DEF SessionIInv, SessionTypeInv
<1>2. ASSUME NEW d \in SessionCalls, d # c
      PROVE  CallHolds(sessionCalls[d])'
  <2>1. sessionCalls[d].token \in Tokens \union {0} /\ CallHolds(sessionCalls[d])
    BY DEF SessionIInv, SessionTypeInv, SessionCallType, CallsHold
  <2>2. sessionCalls'[d] = sessionCalls[d]
    BY <1>1, <1>2
  <2>. QED  BY <2>1, <2>2 DEF CallHolds, Onward, Issued, Revoked
<1>3. CallHolds(sessionCalls[c])'
  BY <1>1 DEF CallHolds, Issued, Revoked
<1>4. CallsHold'
  BY <1>2, <1>3 DEF CallsHold
<1>. QED  BY <1>4 DEF SessionIInv, SessionTypeInv

\* The steps that revoke tokens and issue none.
LEMMA RevokeStep ==
    ASSUME SessionIInv, NEW S \in SUBSET Tokens,
           tokens' \in [Tokens -> TokenType],
           \A t \in Tokens :
              /\ tokens'[t].parent = tokens[t].parent
              /\ tokens'[t].status = IF t \in S /\ tokens[t].status = "LIVE" THEN "REVOKED"
                                     ELSE tokens[t].status,
           challenges' = challenges,
           sessionCalls' \in [SessionCalls -> SessionCallType],
           CallsHold',
           earlier' \in SUBSET Tokens,
           \A t \in earlier' : t \in earlier \/ (t \in S /\ Issued(t))
    PROVE  SessionIInv'
<1>1. Onward
  BY DEF Onward, Issued, Revoked
<1>2. SessionTypeInv'
  BY DEF SessionIInv, SessionTypeInv
<1>3. AbsentIsNone'
  BY DEF SessionIInv, AbsentIsNone, Issued
<1>4. ParentsRevoked'
  BY <1>1 DEF SessionIInv, SessionTypeInv, TokenType, ParentsRevoked, Onward, Revoked
<1>5. EarlierRevoked'
  <2>. SUFFICES ASSUME NEW t \in earlier' PROVE tokens'[t].status = "REVOKED"
    BY DEF EarlierRevoked, Revoked
  <2>1. t \in Tokens /\ tokens[t] \in TokenType
    BY DEF SessionIInv, SessionTypeInv
  <2>. QED  BY <2>1 DEF SessionIInv, EarlierRevoked, Issued, Revoked, TokenType
<1>. QED  BY <1>2, <1>3, <1>4, <1>5 DEF SessionIInv

LEMMA RevokeTypes ==
    ASSUME SessionIInv, NEW t \in Tokens
    PROVE  /\ Revoke(t) \in [Tokens -> TokenType]
           /\ \A u \in Tokens :
                 /\ Revoke(t)[u].parent = tokens[u].parent
                 /\ Revoke(t)[u].status = IF u = t /\ tokens[u].status = "LIVE"
                                          THEN "REVOKED" ELSE tokens[u].status
BY DEF Revoke, SessionIInv, SessionTypeInv, TokenType

LEMMA RevokeAllTypes ==
    ASSUME SessionIInv
    PROVE  /\ RevokedAll \in [Tokens -> TokenType]
           /\ \A u \in Tokens :
                 /\ RevokedAll[u].parent = tokens[u].parent
                 /\ RevokedAll[u].status = IF tokens[u].status = "LIVE"
                                           THEN "REVOKED" ELSE tokens[u].status
<1>1. \A u \in Tokens : tokens[u] \in TokenType
  BY DEF SessionIInv, SessionTypeInv
<1>2. \A k \in TokenType : /\ [k EXCEPT !.status = "REVOKED"] \in TokenType
                           /\ [k EXCEPT !.status = "REVOKED"].status = "REVOKED"
                           /\ [k EXCEPT !.status = "REVOKED"].parent = k.parent
  BY DEF TokenType
<1>3. \A u \in Tokens : RevokedAll[u] = IF tokens[u].status = "LIVE"
                                        THEN [tokens[u] EXCEPT !.status = "REVOKED"]
                                        ELSE tokens[u]
  BY DEF RevokedAll
<1>4. \A u \in Tokens :
         /\ RevokedAll[u] \in TokenType
         /\ RevokedAll[u].parent = tokens[u].parent
         /\ RevokedAll[u].status = IF tokens[u].status = "LIVE"
                                   THEN "REVOKED" ELSE tokens[u].status
  <2>. SUFFICES ASSUME NEW u \in Tokens
                PROVE  /\ RevokedAll[u] \in TokenType
                       /\ RevokedAll[u].parent = tokens[u].parent
                       /\ RevokedAll[u].status = IF tokens[u].status = "LIVE"
                                                 THEN "REVOKED" ELSE tokens[u].status
    OBVIOUS
  <2>1. CASE tokens[u].status = "LIVE"
    <3>1. RevokedAll[u] = [tokens[u] EXCEPT !.status = "REVOKED"]
      BY <1>3, <2>1
    <3>2. tokens[u] \in TokenType
      BY <1>1
    <3>. QED  BY <1>2, <2>1, <3>1, <3>2
  <2>2. CASE tokens[u].status # "LIVE"
    BY <1>1, <1>3, <2>2
  <2>. QED  BY <2>1, <2>2
<1>5. RevokedAll \in [Tokens -> TokenType]
  BY <1>4 DEF RevokedAll
<1>. QED  BY <1>4, <1>5

-----------------------------------------------------------------------------
LEMMA SessionInitInv == SessionInit => SessionIInv
<1>. SUFFICES ASSUME SessionInit PROVE SessionIInv
  OBVIOUS
<1>1. NoToken \in TokenType /\ NoToken.status = "ABSENT" /\ NoToken.parent = 0
  BY DEF NoToken, TokenType
<1>2. NoChallenge \in ChallengeType
  BY DEF NoChallenge, ChallengeType
<1>3. SessionTypeInv
  BY <1>1, <1>2, SessionCallTypes DEF SessionInit, SessionTypeInv
<1>4. AbsentIsNone /\ ParentsRevoked /\ EarlierRevoked
  BY <1>1 DEF SessionInit, AbsentIsNone, ParentsRevoked, EarlierRevoked
<1>5. CallsHold
  BY IdleHolds DEF SessionInit, CallsHold
<1>. QED  BY <1>3, <1>4, <1>5 DEF SessionIInv

\* The successor is issued by a call whose token is revoked, and is itself
\* nobody's predecessor.
LEMMA IssueInv ==
    ASSUME SessionIInv, NEW c \in SessionCalls, IssueToken(c)
    PROVE  SessionIInv'
<1>1. PICK t \in Tokens :
         /\ tokens[t] = NoToken
         /\ tokens' = [tokens EXCEPT ![t] = [status |-> "LIVE", parent |-> sessionCalls[c].token]]
  BY DEF IssueToken
<1>2. /\ sessionCalls' = [sessionCalls EXCEPT ![c] = SessionIdle]
      /\ UNCHANGED <<challenges, earlier>>
      /\ sessionCalls[c].op = "issue"
  BY DEF IssueToken, SessionContinue, SessionAt
<1>3. sessionCalls[c].token \in Tokens \union {0} /\ CallHolds(sessionCalls[c])
  BY DEF SessionIInv, SessionTypeInv, SessionCallType, CallsHold
<1>4. \A u \in Tokens :
         tokens'[u] = IF u = t THEN [status |-> "LIVE", parent |-> sessionCalls[c].token] ELSE tokens[u]
  BY <1>1 DEF SessionIInv, SessionTypeInv
<1>5. tokens[t].status = "ABSENT"
  BY <1>1 DEF NoToken
<1>6. Onward
  BY <1>4, <1>5 DEF Onward, Issued, Revoked
<1>7. CallsHold' /\ sessionCalls' \in [SessionCalls -> SessionCallType]
  BY <1>2, <1>6, SessionCallTypes, IdleHolds, HoldsOnward DEF CallHolds
<1>8. SessionTypeInv'
  BY <1>1, <1>2, <1>3, <1>7 DEF SessionIInv, SessionTypeInv, TokenType
<1>9. AbsentIsNone'
  BY <1>4 DEF SessionIInv, AbsentIsNone, Issued
<1>10. ParentsRevoked'
  <2>. SUFFICES ASSUME NEW u \in Tokens, tokens'[u].parent # 0
                PROVE  tokens'[tokens'[u].parent].status = "REVOKED"
    BY DEF ParentsRevoked, Revoked
  <2>. DEFINE p == tokens'[u].parent
  <2>1. p \in Tokens /\ Revoked(p)
    BY <1>2, <1>3, <1>4 DEF SessionIInv, SessionTypeInv, TokenType, ParentsRevoked, CallHolds
  <2>. QED  BY <1>4, <1>5, <2>1 DEF Revoked
<1>11. EarlierRevoked'
  BY <1>2, <1>6 DEF SessionIInv, SessionTypeInv, EarlierRevoked, Onward
<1>. QED  BY <1>7, <1>8, <1>9, <1>10, <1>11 DEF SessionIInv

-----------------------------------------------------------------------------
\* The steps that issue challenges, try codes and consume challenges.
LEMMA ChallengeInv ==
    ASSUME SessionIInv, NEW c \in SessionCalls,
           \/ LoginRead(c) \/ RequestResetRead(c) \/ IssueChallenge(c)
           \/ \E k \in Challenges, right \in BOOLEAN : CodeRead(c, k, right)
           \/ CountAttempt(c) \/ ConsumeChallenge(c)
    PROVE  SessionIInv'
<1>1. CallHolds(SessionIdle) /\ \A op \in SessionOps \ {"revoke"} : CallHolds(Then(op))
  BY IdleHolds
<1>2. CASE LoginRead(c) \/ RequestResetRead(c)
  <2>1. ASSUME NEW kind \in {"login", "reset"}
        PROVE  /\ SessionCall("challenge", 0, NoneOf(kind), 0) \in SessionCallType
               /\ CallHolds(SessionCall("challenge", 0, NoneOf(kind), 0))
    BY DEF SessionCall, NoneOf, SessionCallType, SessionOps, CallHolds
  <2>. QED  BY <1>2, <2>1, ReadStep DEF LoginRead, RequestResetRead, Enter
<1>3. CASE IssueChallenge(c)
  <2>1. PICK k \in Challenges :
           challenges' = [challenges EXCEPT ![k] = [status |-> "OPEN", attempts |-> 0]]
    BY <1>3 DEF IssueChallenge
  <2>2. challenges' \in [Challenges -> ChallengeType]
    BY <2>1 DEF ChallengeType, SessionIInv, SessionTypeInv
  <2>3. sessionCalls' = [sessionCalls EXCEPT ![c] = SessionIdle] /\ UNCHANGED <<tokens, earlier>>
    BY <1>3 DEF IssueChallenge, SessionContinue
  <2>. QED  BY <1>1, <2>2, <2>3, SessionCallTypes, SessionCallStep
<1>4. ASSUME NEW k \in Challenges, NEW right \in BOOLEAN, CodeRead(c, k, right)
      PROVE  SessionIInv'
  <2>. DEFINE call == SessionCall(IF right THEN "consume" ELSE "count", 0, k, challenges[k].attempts)
  <2>1. challenges[k].attempts \in Nat
    BY DEF SessionIInv, SessionTypeInv, ChallengeType
  <2>2. call \in SessionCallType /\ CallHolds(call)
    BY <2>1, BoundsTyped DEF SessionCall, SessionCallType, SessionOps, CallHolds
  <2>. QED  BY <1>4, <2>2, ReadStep DEF CodeRead, Enter
<1>5. CASE CountAttempt(c)
  <2>. DEFINE k == sessionCalls[c].challenge
  <2>1. sessionCalls[c].seen \in Nat
    BY DEF SessionIInv, SessionTypeInv, SessionCallType
  <2>2. \/ challenges' = challenges
        \/ challenges' = [challenges EXCEPT ![k].attempts = sessionCalls[c].seen + 1]
    BY <1>5 DEF CountAttempt
  <2>3. challenges' \in [Challenges -> ChallengeType]
    BY <2>1, <2>2 DEF ChallengeType, SessionIInv, SessionTypeInv
  <2>4. sessionCalls' = [sessionCalls EXCEPT ![c] = SessionIdle] /\ UNCHANGED <<tokens, earlier>>
    BY <1>5 DEF CountAttempt, SessionContinue
  <2>. QED  BY <1>1, <2>3, <2>4, SessionCallTypes, SessionCallStep
<1>6. CASE ConsumeChallenge(c)
  <2>. DEFINE k == sessionCalls[c].challenge
  <2>1. challenges' = challenges \/ challenges' = [challenges EXCEPT ![k].status = "CONSUMED"]
    BY <1>6 DEF ConsumeChallenge
  <2>2. challenges' \in [Challenges -> ChallengeType]
    BY <2>1 DEF ChallengeType, SessionIInv, SessionTypeInv
  <2>3. PICK call \in {SessionIdle, Then("check_owner"), Then("set_password")} :
           sessionCalls' = [sessionCalls EXCEPT ![c] = call]
    BY <1>6 DEF ConsumeChallenge, SessionContinue
  <2>4. call \in SessionCallType /\ CallHolds(call)
    BY <1>1, SessionCallTypes DEF SessionOps
  <2>5. UNCHANGED <<tokens, earlier>>
    BY <1>6 DEF ConsumeChallenge
  <2>. QED  BY <2>2, <2>3, <2>4, <2>5, SessionCallStep
<1>. QED  BY <1>2, <1>3, <1>4, <1>5, <1>6

\* The steps of a rotation before the successor is issued.
LEMMA RotationInv ==
    ASSUME SessionIInv, NEW c \in SessionCalls,
           CheckOwner(c) \/ (\E t \in Tokens : RefreshRead(c, t)) \/ RotateToken(c)
    PROVE  SessionIInv'
<1>1. CallHolds(SessionIdle) /\ \A op \in SessionOps \ {"revoke"} : CallHolds(Then(op))
  BY IdleHolds
<1>2. sessionCalls[c] \in SessionCallType /\ CallHolds(sessionCalls[c])
  BY DEF SessionIInv, SessionTypeInv, CallsHold
<1>3. CASE CheckOwner(c)
  <2>. DEFINE call == [sessionCalls[c] EXCEPT !.op = "revoke"]
  <2>1. call \in SessionCallType /\ call.token = sessionCalls[c].token /\ call.op = "revoke"
    BY <1>2 DEF SessionCallType, SessionOps
  <2>2. CASE Reads(c, SessionIdle)
    BY <1>1, <2>2, SessionCallTypes, ReadStep
  <2>3. CASE Reads(c, Then("issue"))
    <3>1. Then("issue") \in SessionCallType /\ CallHolds(Then("issue"))
      BY <1>1, SessionCallTypes DEF SessionOps
    <3>. QED  BY <2>3, <3>1, ReadStep
  <2>4. CASE Reads(c, call) /\ sessionCalls[c].token # 0
    <3>1. CallHolds(call)
      BY <1>2, <2>1, <2>4 DEF CallHolds
    <3>. QED  BY <2>1, <2>4, <3>1, ReadStep
  <2>. QED  BY <1>3, <2>2, <2>3, <2>4 DEF CheckOwner
<1>4. ASSUME NEW t \in Tokens, RefreshRead(c, t)
      PROVE  SessionIInv'
  <2>. DEFINE call == SessionCall("check_owner", t, NoneOf("login"), 0)
  <2>1. call \in SessionCallType
    BY DEF SessionCall, NoneOf, SessionCallType, SessionOps
  <2>2. CallHolds(call)
    BY <1>4 DEF RefreshRead, SessionCall, CallHolds, Issued
  <2>. QED  BY <1>4, <2>1, <2>2, ReadStep DEF RefreshRead, Enter
<1>5. CASE RotateToken(c)
  <2>1. PICK t \in Tokens \union {0} : t = sessionCalls[c].token
    BY <1>2 DEF SessionCallType
  <2>2. /\ [sessionCalls[c] EXCEPT !.op = "issue"] \in SessionCallType
        /\ [sessionCalls[c] EXCEPT !.op = "issue"].token = sessionCalls[c].token
        /\ [sessionCalls[c] EXCEPT !.op = "issue"].op = "issue"
    BY <1>2 DEF SessionCallType, SessionOps
  <2>3. PICK call \in SessionCallType : /\ call = [sessionCalls[c] EXCEPT !.op = "issue"]
                                /\ call.token = t
                                /\ call.op = "issue"
    BY <2>1, <2>2
  <2>4. /\ sessionCalls' = [sessionCalls EXCEPT ![c] = call]
        /\ tokens' = Revoke(t)
        /\ UNCHANGED <<challenges, earlier>>
        /\ sessionCalls[c].op = "revoke"
    BY <1>5, <2>1, <2>3 DEF RotateToken, SessionContinue, SessionAt
  <2>5. CASE t \in Tokens
    <3>1. /\ tokens' \in [Tokens -> TokenType]
          /\ \A u \in Tokens :
                /\ tokens'[u].parent = tokens[u].parent
                /\ tokens'[u].status = IF u \in {t} /\ tokens[u].status = "LIVE"
                                       THEN "REVOKED" ELSE tokens[u].status
      BY <2>4, <2>5, RevokeTypes
    <3>2. Onward
      BY <3>1 DEF Onward, Issued, Revoked
    <3>3. tokens[t].status \in {"LIVE", "REVOKED"}
      BY <1>2, <2>1, <2>5, BoundsTyped DEF CallHolds, Issued, SessionIInv, SessionTypeInv,
         TokenType
    <3>4. tokens'[t].status = "REVOKED"
      BY <2>5, <3>1, <3>3
    <3>5. CallHolds(call)'
      BY <2>3, <3>4 DEF CallHolds, Issued, Revoked
    <3>6. CallsHold' /\ sessionCalls' \in [SessionCalls -> SessionCallType]
      BY <2>4, <2>3, <3>2, <3>5, HoldsOnward
    <3>7. earlier' = earlier /\ earlier' \in SUBSET Tokens /\ challenges' = challenges
      BY <2>4 DEF SessionIInv, SessionTypeInv
    <3>. QED  BY <2>5, <3>1, <3>6, <3>7, RevokeStep
  <2>6. t # 0
    BY <1>2, <2>1, <2>4 DEF CallHolds
  <2>. QED  BY <2>5, <2>6
<1>. QED  BY <1>3, <1>4, <1>5

\* disable, changePassword and resetPassword revoke whatever there is.
LEMMA AccountInv ==
    ASSUME SessionIInv, NEW c \in SessionCalls,
           \/ RevokeAllForStaff(c) \/ DisableRead(c) \/ Disable(c) \/ EnableRead(c)
           \/ Enable(c) \/ ChangePasswordRead(c) \/ SetPassword(c) \/ AbandonSession(c)
    PROVE  SessionIInv'
<1>1. CASE RevokeAllForStaff(c)
  <2>1. /\ sessionCalls' = [sessionCalls EXCEPT ![c] = SessionIdle]
        /\ tokens' = RevokedAll
        /\ earlier' = {t \in Tokens : tokens[t] # NoToken}
        /\ UNCHANGED challenges
    BY <1>1 DEF RevokeAllForStaff, SessionContinue
  <2>2. /\ tokens' \in [Tokens -> TokenType]
        /\ \A u \in Tokens :
              /\ tokens'[u].parent = tokens[u].parent
              /\ tokens'[u].status = IF u \in Tokens /\ tokens[u].status = "LIVE"
                                     THEN "REVOKED" ELSE tokens[u].status
    BY <2>1, RevokeAllTypes
  <2>3. Onward
    BY <2>2 DEF Onward, Issued, Revoked
  <2>4. CallsHold' /\ sessionCalls' \in [SessionCalls -> SessionCallType]
    BY <2>1, <2>3, SessionCallTypes, HoldsOnward DEF CallHolds
  <2>5. \A t \in earlier' : t \in Tokens /\ Issued(t)
    <3>. SUFFICES ASSUME NEW t \in Tokens, ~Issued(t) PROVE tokens[t] = NoToken
      BY <2>1
    <3>1. tokens[t] \in TokenType /\ tokens[t].status = "ABSENT" /\ tokens[t].parent = 0
      BY DEF SessionIInv, SessionTypeInv, AbsentIsNone, Issued
    <3>. QED  BY <3>1 DEF TokenType, NoToken
  <2>6. earlier' \in SUBSET Tokens
    BY <2>5
  <2>. QED  BY <2>1, <2>2, <2>4, <2>5, <2>6, RevokeStep
<1>2. ASSUME NEW op \in SessionOps \ {"revoke"},
             \/ sessionCalls' = [sessionCalls EXCEPT ![c] = Then(op)]
             \/ sessionCalls' = [sessionCalls EXCEPT ![c] = SessionIdle]
             \/ sessionCalls' = [sessionCalls EXCEPT ![c] = Died],
             UNCHANGED <<tokens, challenges, earlier>>
      PROVE  SessionIInv'
  <2>1. challenges' \in [Challenges -> ChallengeType]
    BY <1>2 DEF SessionIInv, SessionTypeInv
  <2>2. Then(op) \in SessionCallType /\ SessionIdle \in SessionCallType /\ Died \in SessionCallType
    BY SessionCallTypes
  <2>3. CallHolds(Then(op)) /\ CallHolds(SessionIdle) /\ CallHolds(Died)
    BY IdleHolds
  <2>. QED  BY <1>2, <2>1, <2>2, <2>3, SessionCallStep
<1>3. {"disable", "enable", "revoke_all", "set_password"} \subseteq SessionOps \ {"revoke"}
  BY DEF SessionOps
<1>4. CASE DisableRead(c) \/ EnableRead(c) \/ ChangePasswordRead(c)
  BY <1>2, <1>3, <1>4 DEF DisableRead, EnableRead, ChangePasswordRead, Enter, Reads,
     SessionContinue
<1>5. CASE Disable(c) \/ SetPassword(c) \/ Enable(c)
  BY <1>2, <1>3, <1>5 DEF Disable, SetPassword, Enable, SessionContinue
<1>6. CASE AbandonSession(c)
  BY <1>2, <1>3, <1>6 DEF AbandonSession, Reads, SessionContinue
<1>. QED  BY <1>1, <1>4, <1>5, <1>6

LEMMA SessionNextInv == SessionIInv /\ [SessionNext]_sessionVars => SessionIInv'
<1>. SUFFICES ASSUME SessionIInv, [SessionNext]_sessionVars PROVE SessionIInv'
  OBVIOUS
<1>1. CASE UNCHANGED sessionVars
  BY <1>1 DEF sessionVars, SessionIInv, SessionTypeInv, AbsentIsNone, CallsHold, CallHolds,
     ParentsRevoked,
     EarlierRevoked, Issued, Revoked
<1>2. ASSUME NEW k \in Challenges, ExpireChallenge(k)
      PROVE  SessionIInv'
  <2>1. challenges' \in [Challenges -> ChallengeType]
    BY <1>2 DEF ExpireChallenge, SessionIInv, SessionTypeInv, ChallengeType
  <2>2. UNCHANGED <<tokens, sessionCalls, earlier>>
    BY <1>2 DEF ExpireChallenge
  <2>. QED  BY <2>1, <2>2 DEF SessionIInv, SessionTypeInv, AbsentIsNone, CallsHold, CallHolds,
     ParentsRevoked,
               EarlierRevoked, Issued, Revoked
<1>3. ASSUME NEW t \in Tokens, Logout(t)
      PROVE  SessionIInv'
  <2>1. tokens' = Revoke(t) /\ UNCHANGED <<challenges, sessionCalls, earlier>>
    BY <1>3 DEF Logout
  <2>2. /\ tokens' \in [Tokens -> TokenType]
        /\ \A u \in Tokens :
              /\ tokens'[u].parent = tokens[u].parent
              /\ tokens'[u].status = IF u \in {t} /\ tokens[u].status = "LIVE"
                                     THEN "REVOKED" ELSE tokens[u].status
    BY <2>1, RevokeTypes
  <2>3. Onward
    BY <2>2 DEF Onward, Issued, Revoked
  <2>4. CallsHold'
    BY <2>1, <2>3 DEF SessionIInv, SessionTypeInv, SessionCallType, CallsHold, CallHolds, Onward
  <2>5. sessionCalls' \in [SessionCalls -> SessionCallType] /\ earlier' \in SUBSET Tokens
    BY <2>1 DEF SessionIInv, SessionTypeInv
  <2>. QED  BY <2>1, <2>2, <2>4, <2>5, RevokeStep
<1>4. CASE SessionNext
  BY <1>2, <1>3, <1>4, ChallengeInv, RotationInv, IssueInv, AccountInv DEF SessionNext
<1>. QED  BY <1>1, <1>4

LEMMA SessionSpecInv == SessionSpec => []SessionIInv
<1>. QED  BY SessionInitInv, SessionNextInv, PTL DEF SessionSpec

-----------------------------------------------------------------------------
\* A refresh token that has a successor is never usable again, however many
\* calls rotate it at once and wherever one of them dies (refresh, rotate).
THEOREM RotatedTokensAreRevoked == SessionSpec => []RotatedIsRevoked
<1>1. SessionIInv => RotatedIsRevoked
  BY BoundsTyped DEF SessionIInv, ParentsRevoked, RotatedIsRevoked, Revoked
<1>. QED  BY <1>1, SessionSpecInv, PTL

\* No token that was there when all were last revoked is usable again, after a
\* disabling, a change or a reset of the password (revokeAllForStaff).
THEOREM OldSessionsAreOver == SessionSpec => []NoSessionSurvives
<1>1. SessionIInv => NoSessionSurvives
  BY DEF SessionIInv, EarlierRevoked, NoSessionSurvives, Revoked
<1>. QED  BY <1>1, SessionSpecInv, PTL

-----------------------------------------------------------------------------
(* Leave and salary *)

Statuses == {"ABSENT", "PENDING_REVIEW", "APPROVED", "REJECTED", "CANCELLED"}
RequestStatuses == {"ABSENT", "OPEN", "APPROVED", "REJECTED", "RETURNED_TO_MAKER", "CANCELLED",
                    "DELETED"}

ApplicationType == [status : Statuses, days : Nat, applied : BOOLEAN]
SalaryType == [from : Dates \union {0}, to : Dates \union {0, Forever}]
LeaveCallType == [op     : {"idle", "died", "create", "initiate", "set_status", "use", "cancel",
                       "reverse", "activate"},
             id     : Applications \union Proposals \union {None},
             days   : Nat,
             status : Statuses \union {"none"}]

LeaveTypeInv ==
    /\ applications \in [Applications -> ApplicationType]
    /\ requests \in [Applications -> RequestStatuses]
    /\ balance \in [exists : BOOLEAN, used : Int]
    /\ salaries \in [Proposals -> SalaryType]
    /\ proposals \in [Proposals -> RequestStatuses]
    /\ leaveCalls \in [LeaveCalls -> LeaveCallType]

Made(a) == applications[a].status # "ABSENT"
Decided(a) == requests[a] \notin {"ABSENT", "OPEN"}

\* The calls that bring an application to its decision, of which there is one at
\* a time; and those that rest upon a decision that has been written.
Early(k) == k.op \in {"create", "initiate", "set_status"}
Late(k) == k.op \in {"use", "reverse"} \/ (k.op = "cancel" /\ k.status = "APPROVED")

\* What a call relies on at its next step, whatever others do in the meantime.
LeaveFit(k) ==
    /\ Early(k) \/ k.op \in {"use", "cancel", "reverse"} => k.id \in Applications
    /\ k.op = "create" => ~Made(k.id) /\ k.days \in NumberOfDays
    /\ k.op \in {"initiate", "set_status", "use", "cancel", "reverse"} => Made(k.id)
    /\ k.op \in {"create", "initiate"} => requests[k.id] = "ABSENT" /\ balance.exists
    /\ k.op = "set_status" => Decided(k.id) /\ k.status \in {"APPROVED", "REJECTED"}
    /\ Late(k) => Decided(k.id)
    /\ k.op = "reverse" => applications[k.id].status # "APPROVED"

Apart ==
    \A c, d \in LeaveCalls :
        c # d /\ Early(leaveCalls[c]) /\ leaveCalls[d].id = leaveCalls[c].id =>
            ~Early(leaveCalls[d]) /\ ~Late(leaveCalls[d])

\* A decision is written once: an approved application has no call left that
\* would decide it.
DecidedOnce ==
    \A a \in Applications : applications[a].status = "APPROVED" =>
        Decided(a) /\ \A c \in LeaveCalls : Early(leaveCalls[c]) => leaveCalls[c].id # a

MadeInv ==
    \A a \in Applications : IF Made(a) THEN balance.exists
                            ELSE requests[a] = "ABSENT" /\ ~applications[a].applied

ChargeInv == DaysAreCounted /\ ApprovedCounts

LeaveDocsInv ==
    /\ \A c \in LeaveCalls : LeaveFit(leaveCalls[c])
    /\ Apart
    /\ DecidedOnce
    /\ MadeInv
    /\ ChargeInv

\* A proposal is activated once, after its approval; one record is open, and a
\* closed one ends on the day another begins.
Recorded(p) == salaries[p] # NoSalary
Activating(k) == k.op = "activate"

ActivationInv ==
    /\ \A c \in LeaveCalls : Activating(leaveCalls[c]) =>
          /\ leaveCalls[c].id \in Proposals
          /\ leaveCalls[c].days \in Dates
          /\ proposals[leaveCalls[c].id] = "APPROVED"
          /\ ~Recorded(leaveCalls[c].id)
    /\ \A c, d \in LeaveCalls :
          c # d /\ Activating(leaveCalls[c]) /\ Activating(leaveCalls[d]) =>
             leaveCalls[c].id # leaveCalls[d].id
    /\ \A p \in Proposals : Recorded(p) => proposals[p] = "APPROVED"

RecordsInv ==
    /\ \A p \in Proposals : Recorded(p) =>
          \E o \in Proposals : Open(o) /\ \A q \in Proposals : Open(q) => q = o
    /\ \A p \in Proposals : Recorded(p) /\ ~Open(p) =>
          \E q \in Proposals : q # p /\ Recorded(q) /\ salaries[p].to = salaries[q].from

LeaveIInv ==
    /\ LeaveTypeInv
    /\ LeaveDocsInv
    /\ ActivationInv
    /\ RecordsInv

\* What counts, or is about to, is APPROVED or has its reversal ahead of it: only
\* a reversal that came before the use is over by the time the use is written.
Returning(a) ==
    \E c \in LeaveCalls : /\ leaveCalls[c].id = a
                          /\ LeaveAt(c, "reverse") \/ LeaveAt(c, "died")

ReversalInv ==
    \A a \in Applications : applications[a].applied \/ Using(a) =>
       applications[a].status = "APPROVED" \/ Returning(a) \/ a \in premature

-----------------------------------------------------------------------------
LEMMA CallFields ==
    ASSUME NEW op, NEW id, NEW days, NEW status
    PROVE  /\ LeaveCall(op, id, days, status).op = op
           /\ LeaveCall(op, id, days, status).id = id
           /\ LeaveCall(op, id, days, status).days = days
           /\ LeaveCall(op, id, days, status).status = status
BY DEF LeaveCall

LEMMA IdleFields == LeaveIdle \in LeaveCallType /\ LeaveIdle.op = "idle" /\ LeaveIdle.id = None
BY DEF LeaveIdle, LeaveCall, LeaveCallType

LEMMA LeaveCallStep ==
    ASSUME LeaveTypeInv, NEW c \in LeaveCalls, NEW k, LeaveContinue(c, k)
    PROVE  /\ \A d \in LeaveCalls : leaveCalls'[d] = IF d = c THEN k ELSE leaveCalls[d]
           /\ k \in LeaveCallType => leaveCalls' \in [LeaveCalls -> LeaveCallType]
BY DEF LeaveTypeInv, LeaveContinue

\* A call that goes on to its next step about the same application.
LEMMA ThenStep ==
    ASSUME LeaveTypeInv, NEW c \in LeaveCalls, NEW op \in {"initiate", "use", "reverse"},
           LeaveThen(c, op)
    PROVE  \E k \in LeaveCallType : /\ LeaveContinue(c, k)
                               /\ k.op = op /\ k.id = leaveCalls[c].id
                               /\ k.days = leaveCalls[c].days /\ k.status = leaveCalls[c].status
<1>1. PICK b \in LeaveCallType : b = leaveCalls[c]
  BY DEF LeaveTypeInv
<1>2. PICK k : k = [b EXCEPT !.op = op]
  OBVIOUS
<1>3. k \in LeaveCallType /\ k.op = op /\ k.id = b.id /\ k.days = b.days /\ k.status = b.status
  BY <1>2 DEF LeaveCallType
<1>. QED  BY <1>1, <1>2, <1>3 DEF LeaveThen

\* The sum of the days that count.
Days == [a \in Applications |-> applications[a].days]

LEMMA CountedFinite ==
    ASSUME LeaveTypeInv
    PROVE  /\ Counted \subseteq Applications /\ IsFiniteSet(Counted)
           /\ \A a \in Applications : Days[a] \in Int
<1>1. \A a \in Applications : applications[a].days \in Int
  BY DEF LeaveTypeInv, ApplicationType
<1>. QED  BY <1>1, LeaveConstants, FS_Subset DEF Counted, Days

\* A step that counts what was counted, and leaves its days alone.
LEMMA SameUsage ==
    ASSUME LeaveTypeInv, LeaveTypeInv',
           \A a \in Applications : /\ applications'[a].applied <=> applications[a].applied
                                   /\ applications[a].applied =>
                                         applications'[a].days = applications[a].days
    PROVE  SumFunctionOnSet(Days, Counted)' = SumFunctionOnSet(Days, Counted)
<1>1. Counted' = Counted
  BY DEF Counted
<1>2. \A a \in Counted : Days[a] \in Int /\ Days'[a] = Days[a]
  BY CountedFinite DEF Counted, Days
<1>3. SumFunctionOnSet(Days', Counted) = SumFunctionOnSet(Days, Counted)
  BY <1>2, CountedFinite, SumExtensional
<1>. QED  BY <1>1, <1>3
\* The step that counts an application, or counts it no more.
LEMMA Posted ==
    ASSUME LeaveTypeInv, MadeInv, ChargeInv,
           NEW a \in Applications, Made(a), NEW applied \in BOOLEAN, Post(a, applied)
    PROVE  /\ applications' \in [Applications -> ApplicationType]
           /\ balance' \in [exists : BOOLEAN, used : Int]
           /\ balance'.exists = balance.exists
           /\ \A b \in Applications :
                 /\ applications'[b].status = applications[b].status
                 /\ applications'[b].applied <=> IF b = a THEN applied ELSE applications[b].applied
           /\ balance'.used = SumFunctionOnSet(Days, Counted)'
<1>1. PICK x \in ApplicationType : x = applications[a]
  BY DEF LeaveTypeInv
<1>2. PICK r \in [exists : BOOLEAN, used : Int] : r = balance
  BY DEF LeaveTypeInv
<1>3. r.exists /\ x.days \in Nat /\ r.used = SumFunctionOnSet(Days, Counted)
  BY <1>1, <1>2 DEF MadeInv, ChargeInv, DaysAreCounted, ApprovedCounts, ApplicationType, Days
<1>4. CASE applications[a].applied <=> applied
  <2>1. UNCHANGED <<applications, balance>>
    BY <1>1, <1>4 DEF Post, ApplicationType
  <2>2. Days' = Days /\ Counted' = Counted
    BY <2>1 DEF Days, Counted
  <2>. QED  BY <2>1, <2>2, <1>2, <1>3, <1>4 DEF LeaveTypeInv
<1>5. CASE ~(applications[a].applied <=> applied)
  <2>1. PICK y : y = [x EXCEPT !.applied = applied]
    OBVIOUS
  <2>2. /\ y \in ApplicationType /\ y.status = x.status /\ y.days = x.days
        /\ y.applied <=> applied
    BY <2>1 DEF ApplicationType
  <2>3. applications' = [applications EXCEPT ![a] = y]
    BY <1>1, <1>5, <2>1 DEF Post, LeaveTypeInv
  <2>4. \A b \in Applications : applications'[b] = IF b = a THEN y ELSE applications[b]
    BY <2>3 DEF LeaveTypeInv
  <2>5. applications' \in [Applications -> ApplicationType]
    BY <2>2, <2>3 DEF LeaveTypeInv
  <2>6. \A b \in Applications :
           /\ applications'[b].status = applications[b].status
           /\ applications'[b].applied <=> IF b = a THEN applied ELSE applications[b].applied
    BY <1>1, <2>2, <2>4
  <2>7. Days' = Days
    BY <1>1, <2>2, <2>4 DEF Days
  <2>8. balance' = [r EXCEPT !.used = @ + (IF applied THEN x.days ELSE -x.days)]
    BY <1>1, <1>2, <1>3, <1>5 DEF Post, Charged
  <2>9. PICK n \in Int : n = r.used + (IF applied THEN x.days ELSE -x.days)
    BY <1>3
  <2>10. balance' = [exists |-> r.exists, used |-> n]
    BY <2>8, <2>9
  <2>11. n = SumFunctionOnSet(Days, Counted')
    <3>1. CASE applied
      <4>1. Counted = Counted' \ {a} /\ a \in Counted'
        BY <1>5, <2>6, <3>1 DEF Counted
      <4>2. IsFiniteSet(Counted') /\ \A b \in Counted' : Days[b] \in Int
        <5>1. Counted' \subseteq Applications
          BY DEF Counted
        <5>. QED  BY <5>1, CountedFinite, LeaveConstants, FS_Subset
      <4>3. SumFunctionOnSet(Days, Counted') = Days[a] + SumFunctionOnSet(Days, Counted)
        BY <4>1, <4>2, SumRemove
      <4>4. Days[a] = x.days
        BY <1>1 DEF Days
      <4>. QED  BY <1>3, <2>9, <3>1, <4>3, <4>4
    <3>2. CASE ~applied
      <4>1. Counted' = Counted \ {a} /\ a \in Counted
        BY <1>5, <2>6, <3>2 DEF Counted
      <4>2. SumFunctionOnSet(Days, Counted) = Days[a] + SumFunctionOnSet(Days, Counted')
        BY <4>1, CountedFinite, SumRemove
      <4>3. SumFunctionOnSet(Days, Counted') \in Int
        <5>1. IsFiniteSet(Counted')
          BY <4>1, CountedFinite, FS_Subset
        <5>. QED  BY <4>1, <5>1, CountedFinite, SumType
      <4>4. Days[a] = x.days
        BY <1>1 DEF Days
      <4>. QED  BY <1>3, <2>9, <3>2, <4>2, <4>3, <4>4
    <3>. QED  BY <3>1, <3>2
  <2>. QED  BY <1>2, <2>5, <2>6, <2>7, <2>10, <2>11
<1>. QED  BY <1>4, <1>5
-----------------------------------------------------------------------------
(* The applications *)

LEMMA DocsInit == LeaveInit => LeaveTypeInv /\ LeaveDocsInv
<1>. SUFFICES ASSUME LeaveInit PROVE LeaveTypeInv /\ LeaveDocsInv
  OBVIOUS
<1>1. LeaveTypeInv
  BY IdleFields, LeaveConstants
     DEF LeaveInit, LeaveTypeInv, NoApplication, NoSalary, ApplicationType, SalaryType, Statuses,
         RequestStatuses
<1>2. \A a \in Applications : applications[a] = NoApplication /\ requests[a] = "ABSENT"
  BY DEF LeaveInit
<1>3. \A c \in LeaveCalls : leaveCalls[c].op = "idle"
  BY IdleFields DEF LeaveInit
<1>4. Counted = {}
  BY <1>2 DEF Counted, NoApplication
<1>5. balance.used = SumFunctionOnSet(Days, Counted)
  BY <1>4, SumEmpty DEF LeaveInit
<1>6. ChargeInv
  BY <1>2, <1>5 DEF ChargeInv, DaysAreCounted, ApprovedCounts, Days, NoApplication
<1>7. /\ \A c \in LeaveCalls : LeaveFit(leaveCalls[c])
      /\ Apart
  BY <1>3 DEF LeaveFit, Early, Late, Apart
<1>8. DecidedOnce /\ MadeInv
  BY <1>2 DEF DecidedOnce, MadeInv, Made, NoApplication
<1>. QED  BY <1>1, <1>6, <1>7, <1>8 DEF LeaveDocsInv

\* A step that leaves the applications alone, and no call about one to be gone
\* on with.
LEMMA OtherCall ==
    ASSUME LeaveTypeInv, LeaveDocsInv, NEW c \in LeaveCalls, NEW k \in LeaveCallType,
           LeaveContinue(c, k), UNCHANGED <<applications, requests, balance>>,
           k.op \in {"idle", "died", "activate"},
           leaveCalls[c].op \in {"use", "died"} => k.op = "died" /\ k.id = leaveCalls[c].id
    PROVE  LeaveDocsInv'
<1>1. \A d \in LeaveCalls : leaveCalls'[d] = IF d = c THEN k ELSE leaveCalls[d]
  BY LeaveCallStep
<1>2. LeaveFit(k)' /\ ~Early(k) /\ ~Late(k)
  BY DEF LeaveFit, Early, Late
<1>3. \A d \in LeaveCalls : LeaveFit(leaveCalls[d]) => LeaveFit(leaveCalls[d])'
  BY <1>1, <1>2 DEF LeaveFit, Made, Decided
<1>4. Apart' /\ DecidedOnce'
  BY <1>1, <1>2 DEF LeaveDocsInv, Apart, DecidedOnce, Decided
<1>5. MadeInv'
  BY DEF LeaveDocsInv, MadeInv, Made
<1>6. ChargeInv'
  <2>1. balance.used' = SumFunctionOnSet([a \in Applications |-> applications[a].days], Counted)'
    BY DEF LeaveDocsInv, ChargeInv, DaysAreCounted, ApprovedCounts, Counted
  <2>2. applications' = applications
    OBVIOUS
  <2>3. ASSUME NEW a \in Applications, applications'[a].status = "APPROVED"
        PROVE  \/ applications'[a].applied
               \/ \E d \in LeaveCalls : /\ leaveCalls'[d].id = a
                                        /\ leaveCalls'[d].op = "use" \/ leaveCalls'[d].op = "died"
    <3>1. CASE applications[a].applied
      BY <2>2, <3>1
    <3>2. CASE ~applications[a].applied
      <4>1. PICK d \in LeaveCalls : /\ leaveCalls[d].id = a
                                    /\ leaveCalls[d].op = "use" \/ leaveCalls[d].op = "died"
        BY <2>2, <2>3, <3>2 DEF LeaveDocsInv, ChargeInv, DaysAreCounted, ApprovedCounts, LeaveAt
      <4>. QED  BY <1>1, <4>1
    <3>. QED  BY <3>1, <3>2
  <2>. QED  BY <2>1, <2>3 DEF ChargeInv, DaysAreCounted, ApprovedCounts, LeaveAt
<1>. QED  BY <1>3, <1>4, <1>5, <1>6, <1>1, <1>2 DEF LeaveDocsInv

LEMMA ApplyForLeaveDocs ==
    ASSUME LeaveTypeInv, LeaveDocsInv, NEW c \in LeaveCalls, NEW a \in Applications,
           ApplyForLeave(c, a)
    PROVE  LeaveTypeInv' /\ LeaveDocsInv'
<1>1. PICK days \in NumberOfDays : LeaveContinue(c, LeaveCall("create", a, days, "none"))
  BY DEF ApplyForLeave
<1>2. PICK k : k = LeaveCall("create", a, days, "none")
  OBVIOUS
<1>3. k.op = "create" /\ k.id = a /\ k.days = days /\ k.status = "none"
  BY <1>2, CallFields
<1>4. k \in LeaveCallType
  BY <1>2, LeaveConstants DEF LeaveCall, LeaveCallType, NumberOfDays
<1>5. /\ \A d \in LeaveCalls : leaveCalls'[d] = IF d = c THEN k ELSE leaveCalls[d]
      /\ leaveCalls' \in [LeaveCalls -> LeaveCallType]
  BY <1>1, <1>2, <1>4, LeaveCallStep
<1>6. PICK r \in [exists : BOOLEAN, used : Int] : r = balance
  BY DEF LeaveTypeInv
<1>7. balance' = [exists |-> TRUE, used |-> r.used]
  BY <1>6 DEF ApplyForLeave
<1>8. UNCHANGED <<applications, requests, salaries, proposals>>
  BY DEF ApplyForLeave
<1>9. LeaveTypeInv'
  BY <1>5, <1>7, <1>8 DEF LeaveTypeInv
<1>10. ~Made(a) /\ leaveCalls[c].op = "idle" /\ \A d \in LeaveCalls : leaveCalls[d].id # a
  BY IdleFields DEF ApplyForLeave, Made
<1>11. requests[a] = "ABSENT"
  BY <1>10 DEF LeaveDocsInv, MadeInv
<1>12. \A d \in LeaveCalls : LeaveFit(leaveCalls[d])'
  <2>1. LeaveFit(k)'
    BY <1>3, <1>7, <1>8, <1>10, <1>11 DEF LeaveFit, Early, Late, Made
  <2>2. \A d \in LeaveCalls : d # c => LeaveFit(leaveCalls[d])'
    BY <1>5, <1>7, <1>8 DEF LeaveDocsInv, LeaveFit, Made, Decided
  <2>. QED  BY <1>5, <2>1, <2>2
<1>13. Apart'
  BY <1>3, <1>5, <1>10 DEF LeaveDocsInv, Apart
<1>14. DecidedOnce'
  BY <1>3, <1>5, <1>8, <1>10 DEF LeaveDocsInv, DecidedOnce, Decided, Made
<1>15. MadeInv'
  BY <1>7, <1>8 DEF LeaveDocsInv, MadeInv, Made
<1>16. ChargeInv'
  <2>1. balance.used' = SumFunctionOnSet([x \in Applications |-> applications[x].days], Counted)'
    BY <1>6, <1>7, <1>8 DEF LeaveDocsInv, ChargeInv, DaysAreCounted, ApprovedCounts, Counted
  <2>2. \A d \in LeaveCalls : leaveCalls[d].op \in {"use", "died"} => leaveCalls'[d] = leaveCalls[d]
    BY <1>5, <1>10
  <2>. QED  BY <1>8, <2>1, <2>2 DEF LeaveDocsInv, ChargeInv, DaysAreCounted, ApprovedCounts, LeaveAt
<1>. QED  BY <1>9, <1>12, <1>13, <1>14, <1>15, <1>16 DEF LeaveDocsInv

LEMMA CreateApplicationDocs ==
    ASSUME LeaveTypeInv, LeaveDocsInv, NEW c \in LeaveCalls, CreateApplication(c)
    PROVE  LeaveTypeInv' /\ LeaveDocsInv'
<1>. DEFINE a == leaveCalls[c].id
<1>1. PICK k \in LeaveCallType : LeaveContinue(c, k) /\ k.op = "initiate" /\ k.id = a
  BY ThenStep DEF CreateApplication
<1>2. /\ \A d \in LeaveCalls : leaveCalls'[d] = IF d = c THEN k ELSE leaveCalls[d]
      /\ leaveCalls' \in [LeaveCalls -> LeaveCallType]
  BY <1>1, LeaveCallStep
<1>3. leaveCalls[c].op = "create" /\ leaveCalls[c].days \in Nat
  BY DEF CreateApplication, LeaveAt, LeaveTypeInv, LeaveCallType
<1>4. /\ a \in Applications /\ ~Made(a) /\ requests[a] = "ABSENT" /\ balance.exists
      /\ ~applications[a].applied
  BY <1>3 DEF LeaveDocsInv, LeaveFit, Early, MadeInv
<1>5. PICK y \in ApplicationType : /\ y.status = "PENDING_REVIEW" /\ ~y.applied
                                   /\ applications' = [applications EXCEPT ![a] = y]
  <2>1. [status |-> "PENDING_REVIEW", days |-> leaveCalls[c].days, applied |-> FALSE]
           \in ApplicationType
    BY <1>3 DEF ApplicationType, Statuses
  <2>. QED  BY <2>1 DEF CreateApplication
<1>6. \A b \in Applications : applications'[b] = IF b = a THEN y ELSE applications[b]
  BY <1>5 DEF LeaveTypeInv
<1>7. UNCHANGED <<requests, balance, salaries, proposals>>
  BY DEF CreateApplication
<1>8. LeaveTypeInv'
  BY <1>2, <1>5, <1>7 DEF LeaveTypeInv
<1>9. \A d \in LeaveCalls \ {c} : leaveCalls[d].id = a =>
         ~Early(leaveCalls[d]) /\ ~Late(leaveCalls[d]) /\ leaveCalls[d].op # "cancel"
  BY <1>3, <1>4 DEF LeaveDocsInv, Apart, Early, LeaveFit
<1>10. \A d \in LeaveCalls : LeaveFit(leaveCalls[d])'
  <2>1. LeaveFit(k)'
    BY <1>1, <1>4, <1>5, <1>6, <1>7 DEF LeaveFit, Early, Late, Made
  <2>2. ASSUME NEW d \in LeaveCalls \ {c} PROVE LeaveFit(leaveCalls[d])'
    <3>1. LeaveFit(leaveCalls[d]) /\ leaveCalls'[d] = leaveCalls[d]
      BY <1>2 DEF LeaveDocsInv
    <3>2. CASE leaveCalls[d].id = a
      BY <1>9, <3>1, <3>2 DEF LeaveFit, Early, Late
    <3>3. CASE leaveCalls[d].id # a
      BY <1>6, <1>7, <3>1, <3>3 DEF LeaveFit, Early, Made, Decided
    <3>. QED  BY <3>2, <3>3
  <2>. QED  BY <1>2, <2>1, <2>2
<1>11. Apart'
  BY <1>1, <1>2, <1>3, <1>9 DEF LeaveDocsInv, Apart, Early, Late
<1>12. DecidedOnce'
  <2>1. \A d \in LeaveCalls : Early(leaveCalls'[d]) => Early(leaveCalls[d])
    BY <1>2, <1>3 DEF Early
  <2>2. \A d \in LeaveCalls : leaveCalls'[d].id = leaveCalls[d].id
    BY <1>1, <1>2
  <2>. QED  BY <1>5, <1>6, <1>7, <2>1, <2>2 DEF LeaveDocsInv, DecidedOnce, Decided
<1>13. MadeInv'
  BY <1>4, <1>5, <1>6, <1>7 DEF LeaveDocsInv, MadeInv, Made
<1>14. ChargeInv'
  <2>1. balance'.used = SumFunctionOnSet(Days, Counted)'
    BY <1>4, <1>5, <1>6, <1>7, <1>8, SameUsage
       DEF LeaveDocsInv, ChargeInv, DaysAreCounted, ApprovedCounts, Days
  <2>2. \A d \in LeaveCalls : leaveCalls[d].op \in {"use", "died"} => leaveCalls'[d] = leaveCalls[d]
    BY <1>2, <1>3
  <2>. QED  BY <1>5, <1>6, <2>1, <2>2
       DEF LeaveDocsInv, ChargeInv, DaysAreCounted, ApprovedCounts, LeaveAt, Days
<1>. QED  BY <1>8, <1>10, <1>11, <1>12, <1>13, <1>14 DEF LeaveDocsInv
LEMMA InitiateApplicationDocs ==
    ASSUME LeaveTypeInv, LeaveDocsInv, NEW c \in LeaveCalls, InitiateApplication(c)
    PROVE  LeaveTypeInv' /\ LeaveDocsInv'
<1>. DEFINE a == leaveCalls[c].id
<1>1. /\ \A d \in LeaveCalls : leaveCalls'[d] = IF d = c THEN LeaveIdle ELSE leaveCalls[d]
      /\ leaveCalls' \in [LeaveCalls -> LeaveCallType]
  BY LeaveCallStep, IdleFields DEF InitiateApplication
<1>2. leaveCalls[c].op = "initiate"
  BY DEF InitiateApplication, LeaveAt
<1>3. a \in Applications /\ Made(a) /\ requests[a] = "ABSENT"
  BY <1>2 DEF LeaveDocsInv, LeaveFit, Early
<1>4. requests' = [requests EXCEPT ![a] = "OPEN"] /\ UNCHANGED <<applications, balance>>
  BY DEF InitiateApplication
<1>5. \A b \in Applications : requests'[b] = IF b = a THEN "OPEN" ELSE requests[b]
  BY <1>4 DEF LeaveTypeInv
<1>6. LeaveTypeInv'
  BY <1>1, <1>4 DEF LeaveTypeInv, RequestStatuses, InitiateApplication
<1>7. \A d \in LeaveCalls \ {c} : leaveCalls[d].id = a =>
         ~Early(leaveCalls[d]) /\ ~Late(leaveCalls[d])
  BY <1>2 DEF LeaveDocsInv, Apart, Early
<1>8. \A d \in LeaveCalls : LeaveFit(leaveCalls[d])'
  <2>1. LeaveFit(LeaveIdle)'
    BY IdleFields DEF LeaveFit, Early, Late
  <2>2. ASSUME NEW d \in LeaveCalls \ {c} PROVE LeaveFit(leaveCalls[d])'
    <3>1. LeaveFit(leaveCalls[d]) /\ leaveCalls'[d] = leaveCalls[d]
      BY <1>1 DEF LeaveDocsInv
    <3>2. CASE leaveCalls[d].id = a
      BY <1>4, <1>7, <3>1, <3>2 DEF LeaveFit, Early, Late, Made
    <3>3. CASE leaveCalls[d].id # a
      BY <1>4, <1>5, <3>1, <3>3 DEF LeaveFit, Early, Late, Made, Decided
    <3>. QED  BY <3>2, <3>3
  <2>. QED  BY <1>1, <2>1, <2>2
<1>9. Apart'
  BY <1>1, IdleFields DEF LeaveDocsInv, Apart, Early, Late
<1>10. DecidedOnce'
  <2>1. applications[a].status # "APPROVED"
    BY <1>3 DEF LeaveDocsInv, DecidedOnce, Decided
  <2>2. \A d \in LeaveCalls : Early(leaveCalls'[d]) => leaveCalls'[d] = leaveCalls[d]
    BY <1>1, IdleFields DEF Early
  <2>. QED  BY <1>4, <1>5, <2>1, <2>2 DEF LeaveDocsInv, DecidedOnce, Decided
<1>11. MadeInv'
  BY <1>3, <1>4, <1>5 DEF LeaveDocsInv, MadeInv, Made
<1>12. ChargeInv'
  <2>1. Counted' = Counted /\ UNCHANGED <<applications, balance>>
    BY <1>4 DEF Counted
  <2>2. \A d \in LeaveCalls : leaveCalls[d].op \in {"use", "died"} => leaveCalls'[d] = leaveCalls[d]
    BY <1>1, <1>2
  <2>. QED  BY <2>1, <2>2 DEF LeaveDocsInv, ChargeInv, DaysAreCounted, ApprovedCounts, LeaveAt
<1>. QED  BY <1>6, <1>8, <1>9, <1>10, <1>11, <1>12 DEF LeaveDocsInv

LEMMA DecideApplicationDocs ==
    ASSUME LeaveTypeInv, LeaveDocsInv, NEW c \in LeaveCalls, NEW a \in Applications,
           NEW verdict \in {"APPROVED", "REJECTED", "RETURNED_TO_MAKER"},
           DecideApplication(c, a, verdict)
    PROVE  LeaveTypeInv' /\ LeaveDocsInv'
<1>1. PICK k \in LeaveCallType :
         /\ LeaveContinue(c, k)
         /\ \/ verdict = "RETURNED_TO_MAKER" /\ k.op = "idle"
            \/ k.op = "set_status" /\ k.id = a /\ k.status = verdict
               /\ verdict \in {"APPROVED", "REJECTED"}
  <2>1. CASE verdict = "RETURNED_TO_MAKER"
    <3>1. leaveCalls' = [leaveCalls EXCEPT ![c] = LeaveIdle]
      BY <2>1 DEF DecideApplication, LeaveTypeInv
    <3>. QED  BY <2>1, <3>1, IdleFields DEF LeaveContinue
  <2>2. CASE verdict # "RETURNED_TO_MAKER"
    <3>1. PICK k : k = LeaveCall("set_status", a, 0, verdict)
      OBVIOUS
    <3>2. k \in LeaveCallType
      BY <2>2, <3>1 DEF LeaveCall, LeaveCallType, Statuses
    <3>. QED  BY <2>2, <3>1, <3>2, CallFields DEF DecideApplication
  <2>. QED  BY <2>1, <2>2
<1>2. /\ \A d \in LeaveCalls : leaveCalls'[d] = IF d = c THEN k ELSE leaveCalls[d]
      /\ leaveCalls' \in [LeaveCalls -> LeaveCallType]
  BY <1>1, LeaveCallStep
<1>3. leaveCalls[c].op = "idle" /\ requests[a] = "OPEN"
  BY IdleFields DEF DecideApplication
<1>4. requests' = [requests EXCEPT ![a] = verdict] /\ UNCHANGED <<applications, balance>>
  BY DEF DecideApplication
<1>5. \A b \in Applications : requests'[b] = IF b = a THEN verdict ELSE requests[b]
  BY <1>4 DEF LeaveTypeInv
<1>6. LeaveTypeInv'
  BY <1>2, <1>4 DEF LeaveTypeInv, RequestStatuses, DecideApplication
<1>7. Made(a) /\ applications[a].status # "APPROVED"
  BY <1>3 DEF LeaveDocsInv, MadeInv, DecidedOnce, Decided
<1>8. \A d \in LeaveCalls : leaveCalls[d].id = a =>
         ~Early(leaveCalls[d]) /\ ~Late(leaveCalls[d])
  BY <1>3 DEF LeaveDocsInv, LeaveFit, Decided, Early
<1>9. \A b \in Applications : Decided(b) => Decided(b)'
  BY <1>5 DEF Decided
<1>10. \A d \in LeaveCalls : LeaveFit(leaveCalls[d])'
  <2>1. LeaveFit(k)'
    BY <1>1, <1>4, <1>5, <1>7 DEF LeaveFit, Early, Late, Made, Decided
  <2>2. ASSUME NEW d \in LeaveCalls \ {c} PROVE LeaveFit(leaveCalls[d])'
    <3>1. LeaveFit(leaveCalls[d]) /\ leaveCalls'[d] = leaveCalls[d]
      BY <1>2 DEF LeaveDocsInv
    <3>2. CASE leaveCalls[d].id = a
      BY <1>4, <1>8, <3>1, <3>2 DEF LeaveFit, Early, Late, Made
    <3>3. CASE leaveCalls[d].id # a
      BY <1>4, <1>5, <3>1, <3>3 DEF LeaveFit, Early, Late, Made, Decided
    <3>. QED  BY <3>2, <3>3
  <2>. QED  BY <1>2, <2>1, <2>2
<1>11. Apart'
  BY <1>1, <1>2, <1>8 DEF LeaveDocsInv, Apart, Early, Late
<1>12. DecidedOnce'
  BY <1>1, <1>2, <1>4, <1>7, <1>9 DEF LeaveDocsInv, DecidedOnce, Early
<1>13. MadeInv'
  BY <1>4, <1>5, <1>7 DEF LeaveDocsInv, MadeInv, Made
<1>14. ChargeInv'
  <2>1. Counted' = Counted /\ UNCHANGED <<applications, balance>>
    BY <1>4 DEF Counted
  <2>2. \A d \in LeaveCalls : leaveCalls[d].op \in {"use", "died"} => leaveCalls'[d] = leaveCalls[d]
    BY <1>2, <1>3
  <2>. QED  BY <2>1, <2>2 DEF LeaveDocsInv, ChargeInv, DaysAreCounted, ApprovedCounts, LeaveAt
<1>. QED  BY <1>6, <1>10, <1>11, <1>12, <1>13, <1>14 DEF LeaveDocsInv

LEMMA CloseRequestDocs ==
    ASSUME LeaveTypeInv, LeaveDocsInv, NEW a \in Applications,
           NEW status \in {"CANCELLED", "DELETED"}, CloseRequest(a, status)
    PROVE  LeaveTypeInv' /\ LeaveDocsInv'
<1>1. requests' = [requests EXCEPT ![a] = status] /\ UNCHANGED <<applications, balance, leaveCalls>>
  BY DEF CloseRequest
<1>2. \A b \in Applications : requests'[b] = IF b = a THEN status ELSE requests[b]
  BY <1>1 DEF LeaveTypeInv
<1>3. requests[a] # "ABSENT"
  BY DEF CloseRequest
<1>4. \A b \in Applications : Decided(b) => Decided(b)'
  BY <1>2 DEF Decided
<1>5. \A d \in LeaveCalls : LeaveFit(leaveCalls[d])'
  BY <1>1, <1>2, <1>3, <1>4 DEF LeaveDocsInv, LeaveFit, Early, Late, Made
<1>6. Apart' /\ DecidedOnce'
  BY <1>1, <1>4 DEF LeaveDocsInv, Apart, DecidedOnce
<1>7. MadeInv'
  BY <1>1, <1>2, <1>3 DEF LeaveDocsInv, MadeInv, Made
<1>8. ChargeInv'
  BY <1>1 DEF LeaveDocsInv, ChargeInv, DaysAreCounted, ApprovedCounts, Counted, LeaveAt
<1>9. LeaveTypeInv'
  BY <1>1 DEF LeaveTypeInv, RequestStatuses, CloseRequest
<1>. QED  BY <1>1, <1>5, <1>6, <1>7, <1>8, <1>9 DEF LeaveDocsInv
LEMMA SetStatusDocs ==
    ASSUME LeaveTypeInv, LeaveDocsInv, NEW c \in LeaveCalls, SetStatus(c)
    PROVE  LeaveTypeInv' /\ LeaveDocsInv'
<1>. DEFINE a == leaveCalls[c].id
<1>1. /\ leaveCalls[c].op = "set_status" /\ a \in Applications /\ Made(a) /\ Decided(a)
      /\ leaveCalls[c].status \in {"APPROVED", "REJECTED"}
  BY DEF SetStatus, LeaveAt, LeaveDocsInv, LeaveFit, Early
<1>2. PICK s \in {"APPROVED", "REJECTED"} : s = leaveCalls[c].status
  BY <1>1
<1>3. PICK k \in LeaveCallType : /\ LeaveContinue(c, k)
                                 /\ \/ s = "APPROVED" /\ k.op = "use" /\ k.id = a
                                    \/ s = "REJECTED" /\ k.op = "idle"
  <2>1. CASE s = "APPROVED"
    BY <1>2, <2>1, ThenStep DEF SetStatus
  <2>2. CASE s = "REJECTED"
    BY <1>2, <2>2, IdleFields DEF SetStatus
  <2>. QED  BY <2>1, <2>2
<1>4. /\ \A d \in LeaveCalls : leaveCalls'[d] = IF d = c THEN k ELSE leaveCalls[d]
      /\ leaveCalls' \in [LeaveCalls -> LeaveCallType]
  BY <1>3, LeaveCallStep
<1>5. PICK x \in ApplicationType : x = applications[a]
  BY <1>1 DEF LeaveTypeInv
<1>6. PICK y \in ApplicationType : /\ y.status = s /\ y.days = x.days
                                   /\ y.applied <=> x.applied
                                   /\ applications' = [applications EXCEPT ![a] = y]
  <2>1. PICK y : y = [x EXCEPT !.status = s]
    OBVIOUS
  <2>2. y \in ApplicationType /\ y.status = s /\ y.days = x.days /\ y.applied = x.applied
    BY <2>1 DEF ApplicationType, Statuses
  <2>. QED  BY <1>2, <1>5, <2>1, <2>2 DEF SetStatus, LeaveTypeInv
<1>7. \A b \in Applications : applications'[b] = IF b = a THEN y ELSE applications[b]
  BY <1>6 DEF LeaveTypeInv
<1>8. UNCHANGED <<requests, balance, salaries, proposals>>
  BY DEF SetStatus
<1>9. LeaveTypeInv'
  BY <1>4, <1>6, <1>8 DEF LeaveTypeInv
<1>10. \A d \in LeaveCalls \ {c} : leaveCalls[d].id = a =>
          ~Early(leaveCalls[d]) /\ ~Late(leaveCalls[d])
  BY <1>1 DEF LeaveDocsInv, Apart, Early
<1>11. \A b \in Applications : Made(b) => Made(b)'
  BY <1>6, <1>7 DEF Made
<1>12. \A d \in LeaveCalls : LeaveFit(leaveCalls[d])'
  <2>1. LeaveFit(k)'
    BY <1>1, <1>3, <1>8, <1>11 DEF LeaveFit, Early, Late, Decided
  <2>2. ASSUME NEW d \in LeaveCalls \ {c} PROVE LeaveFit(leaveCalls[d])'
    <3>1. LeaveFit(leaveCalls[d]) /\ leaveCalls'[d] = leaveCalls[d]
      BY <1>4 DEF LeaveDocsInv
    <3>2. CASE leaveCalls[d].id = a
      BY <1>8, <1>10, <1>11, <3>1, <3>2 DEF LeaveFit, Early, Late
    <3>3. CASE leaveCalls[d].id # a
      BY <1>7, <1>8, <3>1, <3>3 DEF LeaveFit, Early, Late, Made, Decided
    <3>. QED  BY <3>2, <3>3
  <2>. QED  BY <1>4, <2>1, <2>2
<1>13. Apart'
  BY <1>3, <1>4, <1>10 DEF LeaveDocsInv, Apart, Early, Late
<1>14. DecidedOnce'
  <2>1. \A d \in LeaveCalls : Early(leaveCalls'[d]) => leaveCalls'[d] = leaveCalls[d] /\ d # c
    BY <1>3, <1>4 DEF Early
  <2>. QED  BY <1>1, <1>7, <1>8, <1>10, <2>1 DEF LeaveDocsInv, DecidedOnce, Decided
<1>15. MadeInv'
  BY <1>1, <1>5, <1>6, <1>7, <1>8 DEF LeaveDocsInv, MadeInv, Made
<1>16. ChargeInv'
  <2>1. balance'.used = SumFunctionOnSet(Days, Counted)'
    BY <1>5, <1>6, <1>7, <1>8, <1>9, SameUsage
       DEF LeaveDocsInv, ChargeInv, DaysAreCounted, ApprovedCounts, Days
  <2>2. \A d \in LeaveCalls : leaveCalls[d].op \in {"use", "died"} => leaveCalls'[d] = leaveCalls[d]
    BY <1>1, <1>4
  <2>3. ASSUME NEW b \in Applications, applications'[b].status = "APPROVED"
        PROVE  \/ applications'[b].applied
               \/ \E d \in LeaveCalls : /\ leaveCalls'[d].id = b
                                        /\ leaveCalls'[d].op = "use" \/ leaveCalls'[d].op = "died"
    <3>1. CASE b = a
      BY <1>3, <1>4, <1>6, <1>7, <2>3, <3>1
    <3>2. CASE b # a
      BY <1>7, <2>2, <2>3, <3>2 DEF LeaveDocsInv, ChargeInv, DaysAreCounted, ApprovedCounts, LeaveAt
    <3>. QED  BY <3>1, <3>2
  <2>. QED  BY <2>1, <2>3 DEF ChargeInv, DaysAreCounted, ApprovedCounts, LeaveAt, Days
<1>. QED  BY <1>9, <1>12, <1>13, <1>14, <1>15, <1>16 DEF LeaveDocsInv

LEMMA CancelReadDocs ==
    ASSUME LeaveTypeInv, LeaveDocsInv, NEW c \in LeaveCalls, NEW a \in Applications,
           CancelRead(c, a)
    PROVE  LeaveTypeInv' /\ LeaveDocsInv'
<1>1. PICK s \in {"PENDING_REVIEW", "APPROVED"} : s = applications[a].status
  BY DEF CancelRead
<1>2. PICK k : k = LeaveCall("cancel", a, 0, s)
  OBVIOUS
<1>3. k \in LeaveCallType /\ k.op = "cancel" /\ k.id = a /\ k.status = s
  BY <1>2, CallFields DEF LeaveCall, LeaveCallType, Statuses
<1>4. /\ \A d \in LeaveCalls : leaveCalls'[d] = IF d = c THEN k ELSE leaveCalls[d]
      /\ leaveCalls' \in [LeaveCalls -> LeaveCallType]
  BY <1>1, <1>2, <1>3, LeaveCallStep DEF CancelRead
<1>5. UNCHANGED <<applications, requests, balance, salaries, proposals>> /\ leaveCalls[c].op = "idle"
  BY IdleFields DEF CancelRead
<1>6. LeaveTypeInv'
  BY <1>4, <1>5 DEF LeaveTypeInv
<1>7. Made(a) /\ (s = "APPROVED" => Decided(a))
  BY <1>1 DEF Made, LeaveDocsInv, DecidedOnce
<1>8. \A d \in LeaveCalls : LeaveFit(leaveCalls[d])'
  <2>1. LeaveFit(k)'
    BY <1>3, <1>5, <1>7 DEF LeaveFit, Early, Late, Made, Decided
  <2>2. \A d \in LeaveCalls \ {c} : LeaveFit(leaveCalls[d])'
    BY <1>4, <1>5 DEF LeaveDocsInv, LeaveFit, Made, Decided
  <2>. QED  BY <1>4, <2>1, <2>2
<1>9. Apart'
  BY <1>1, <1>3, <1>4 DEF LeaveDocsInv, Apart, DecidedOnce, Early, Late
<1>10. DecidedOnce'
  BY <1>3, <1>4, <1>5 DEF LeaveDocsInv, DecidedOnce, Decided, Early
<1>11. MadeInv'
  BY <1>5 DEF LeaveDocsInv, MadeInv, Made
<1>12. ChargeInv'
  <2>1. Counted' = Counted /\ UNCHANGED <<applications, balance>>
    BY <1>5 DEF Counted
  <2>2. \A d \in LeaveCalls : leaveCalls[d].op \in {"use", "died"} => leaveCalls'[d] = leaveCalls[d]
    BY <1>4, <1>5
  <2>. QED  BY <2>1, <2>2 DEF LeaveDocsInv, ChargeInv, DaysAreCounted, ApprovedCounts, LeaveAt
<1>. QED  BY <1>6, <1>8, <1>9, <1>10, <1>11, <1>12 DEF LeaveDocsInv
LEMMA CancelDocs ==
    ASSUME LeaveTypeInv, LeaveDocsInv, NEW c \in LeaveCalls, Cancel(c)
    PROVE  LeaveTypeInv' /\ LeaveDocsInv'
<1>. DEFINE a == leaveCalls[c].id
<1>1. leaveCalls[c].op = "cancel" /\ a \in Applications /\ Made(a)
  BY DEF Cancel, LeaveAt, LeaveDocsInv, LeaveFit
<1>2. UNCHANGED <<requests, balance, salaries, proposals>>
  BY DEF Cancel
<1>3. CASE applications[a].status # leaveCalls[c].status
  <2>1. applications' = applications /\ LeaveContinue(c, LeaveIdle)
    BY <1>3 DEF Cancel
  <2>2. leaveCalls' \in [LeaveCalls -> LeaveCallType]
    BY <2>1, LeaveCallStep, IdleFields
  <2>3. LeaveDocsInv'
    BY <1>1, <1>2, <2>1, IdleFields, OtherCall
  <2>. QED  BY <1>2, <2>1, <2>2, <2>3 DEF LeaveTypeInv
<1>4. CASE applications[a].status = leaveCalls[c].status
  <2>1. PICK x \in ApplicationType : x = applications[a]
    BY <1>1 DEF LeaveTypeInv
  <2>2. PICK k \in LeaveCallType :
           /\ LeaveContinue(c, k)
           /\ \/ x.status = "APPROVED" /\ k.op = "reverse" /\ k.id = a
              \/ k.op = "idle"
    <3>1. CASE x.status = "APPROVED"
      BY <1>4, <2>1, <3>1, ThenStep DEF Cancel
    <3>2. CASE x.status # "APPROVED"
      BY <1>4, <2>1, <3>2, IdleFields DEF Cancel
    <3>. QED  BY <3>1, <3>2
  <2>3. /\ \A d \in LeaveCalls : leaveCalls'[d] = IF d = c THEN k ELSE leaveCalls[d]
        /\ leaveCalls' \in [LeaveCalls -> LeaveCallType]
    BY <2>2, LeaveCallStep
  <2>4. PICK y \in ApplicationType : /\ y.status = "CANCELLED" /\ y.days = x.days
                                     /\ y.applied <=> x.applied
                                     /\ applications' = [applications EXCEPT ![a] = y]
    <3>1. PICK y : y = [x EXCEPT !.status = "CANCELLED"]
      OBVIOUS
    <3>2. y \in ApplicationType /\ y.status = "CANCELLED" /\ y.days = x.days /\ y.applied = x.applied
      BY <3>1 DEF ApplicationType, Statuses
    <3>. QED  BY <1>4, <2>1, <3>1, <3>2 DEF Cancel, LeaveTypeInv
  <2>5. \A b \in Applications : applications'[b] = IF b = a THEN y ELSE applications[b]
    BY <2>4 DEF LeaveTypeInv
  <2>6. LeaveTypeInv'
    BY <1>2, <2>3, <2>4 DEF LeaveTypeInv
  <2>7. \A b \in Applications : Made(b)' <=> Made(b)
    BY <1>1, <2>4, <2>5 DEF Made
  <2>8. \A d \in LeaveCalls : LeaveFit(leaveCalls[d])'
    <3>1. LeaveFit(k)'
      <4>1. CASE k.op = "idle"
        BY <4>1 DEF LeaveFit, Early, Late
      <4>2. CASE x.status = "APPROVED" /\ k.op = "reverse" /\ k.id = a
        <5>1. Decided(a)
          BY <1>1, <2>1, <4>2 DEF LeaveDocsInv, DecidedOnce
        <5>. QED  BY <1>1, <1>2, <2>4, <2>5, <2>7, <4>2, <5>1 DEF LeaveFit, Early, Late, Decided
      <4>. QED  BY <2>2, <4>1, <4>2
    <3>2. ASSUME NEW d \in LeaveCalls \ {c} PROVE LeaveFit(leaveCalls[d])'
      <4>1. LeaveFit(leaveCalls[d]) /\ leaveCalls'[d] = leaveCalls[d]
        BY <2>3 DEF LeaveDocsInv
      <4>2. leaveCalls[d].op = "reverse" => applications'[leaveCalls[d].id].status # "APPROVED"
        BY <2>4, <2>5, <4>1 DEF LeaveFit
      <4>. QED  BY <1>2, <2>7, <4>1, <4>2 DEF LeaveFit, Early, Late, Decided
    <3>. QED  BY <2>3, <3>1, <3>2
  <2>9. Apart'
    <3>1. \A d \in LeaveCalls : Early(leaveCalls'[d]) => leaveCalls'[d] = leaveCalls[d]
      BY <2>2, <2>3 DEF Early
    <3>2. x.status = "APPROVED" => \A d \in LeaveCalls : Early(leaveCalls[d]) => leaveCalls[d].id # a
      BY <1>1, <2>1 DEF LeaveDocsInv, DecidedOnce
    <3>. QED  BY <2>2, <2>3, <3>1, <3>2 DEF LeaveDocsInv, Apart, Early, Late
  <2>10. DecidedOnce'
    <3>1. \A d \in LeaveCalls : Early(leaveCalls'[d]) => leaveCalls'[d] = leaveCalls[d]
      BY <2>2, <2>3 DEF Early
    <3>. QED  BY <1>2, <2>4, <2>5, <3>1 DEF LeaveDocsInv, DecidedOnce, Decided
  <2>11. MadeInv'
    BY <1>1, <1>2, <2>1, <2>4, <2>5, <2>7 DEF LeaveDocsInv, MadeInv
  <2>12. ChargeInv'
    <3>1. balance'.used = SumFunctionOnSet(Days, Counted)'
      BY <1>2, <2>1, <2>4, <2>5, <2>6, SameUsage
       DEF LeaveDocsInv, ChargeInv, DaysAreCounted, ApprovedCounts, Days
    <3>2. \A d \in LeaveCalls :
             leaveCalls[d].op \in {"use", "died"} => leaveCalls'[d] = leaveCalls[d]
      BY <1>1, <2>3
    <3>3. \A b \in Applications : applications'[b].status = "APPROVED" => b # a
      BY <2>4, <2>5
    <3>. QED  BY <2>5, <3>1, <3>2, <3>3
       DEF LeaveDocsInv, ChargeInv, DaysAreCounted, ApprovedCounts, LeaveAt, Days
  <2>. QED  BY <2>6, <2>8, <2>9, <2>10, <2>11, <2>12 DEF LeaveDocsInv
<1>. QED  BY <1>3, <1>4

\* The step of ApplyUsage and of ReverseUsage.
LEMMA PostDocs ==
    ASSUME LeaveTypeInv, LeaveDocsInv, NEW c \in LeaveCalls, leaveCalls[c].op \in {"use", "reverse"},
           NEW applied \in BOOLEAN, applied <=> leaveCalls[c].op = "use",
           Post(leaveCalls[c].id, applied),
           LeaveContinue(c, LeaveIdle), UNCHANGED <<requests, salaries, proposals>>
    PROVE  LeaveTypeInv' /\ LeaveDocsInv'
<1>. DEFINE a == leaveCalls[c].id
<1>1. a \in Applications /\ Made(a) /\ LeaveFit(leaveCalls[c])
  BY DEF LeaveDocsInv, LeaveFit
<1>2. /\ applications' \in [Applications -> ApplicationType]
      /\ balance' \in [exists : BOOLEAN, used : Int]
      /\ balance'.exists = balance.exists
      /\ balance'.used = SumFunctionOnSet(Days, Counted)'
  BY <1>1, Posted DEF LeaveDocsInv
<1>3. \A b \in Applications : applications'[b].status = applications[b].status
  BY <1>1, Posted DEF LeaveDocsInv
<1>4. \A b \in Applications :
         applications'[b].applied <=> IF b = a THEN applied ELSE applications[b].applied
  BY <1>1, Posted DEF LeaveDocsInv
<1>5. /\ \A d \in LeaveCalls : leaveCalls'[d] = leaveCalls[d] \/ (d = c /\ leaveCalls'[d] = LeaveIdle)
      /\ leaveCalls' \in [LeaveCalls -> LeaveCallType]
  BY LeaveCallStep, IdleFields DEF LeaveTypeInv
<1>6. LeaveTypeInv'
  BY <1>2, <1>5 DEF LeaveTypeInv
<1>7. \A d \in LeaveCalls : LeaveFit(leaveCalls[d])'
  <2>1. LeaveFit(LeaveIdle)'
    BY IdleFields DEF LeaveFit, Early, Late
  <2>2. \A d \in LeaveCalls : leaveCalls'[d] = leaveCalls[d] => LeaveFit(leaveCalls[d])'
    BY <1>2, <1>3 DEF LeaveDocsInv, LeaveFit, Early, Late, Made, Decided
  <2>. QED  BY <1>5, <2>1, <2>2
<1>8. \A d \in LeaveCalls : Early(leaveCalls'[d]) \/ Late(leaveCalls'[d]) =>
         leaveCalls'[d] = leaveCalls[d]
  BY <1>5, IdleFields DEF Early, Late
<1>9. Apart'
  BY <1>8 DEF LeaveDocsInv, Apart
<1>10. DecidedOnce'
  BY <1>3, <1>8 DEF LeaveDocsInv, DecidedOnce, Decided
<1>11. MadeInv'
  BY <1>1, <1>2, <1>3, <1>4 DEF LeaveDocsInv, MadeInv, Made
<1>12. ChargeInv'
  <2>1. ASSUME NEW b \in Applications, applications'[b].status = "APPROVED"
        PROVE  \/ applications'[b].applied
               \/ \E d \in LeaveCalls : /\ leaveCalls'[d].id = b
                                        /\ leaveCalls'[d].op = "use" \/ leaveCalls'[d].op = "died"
    <3>1. CASE b = a
      <4>1. leaveCalls[c].op # "reverse"
        BY <1>1, <1>3, <2>1, <3>1 DEF LeaveFit
      <4>. QED  BY <1>4, <3>1, <4>1
    <3>2. CASE b # a
      <4>1. applications[b].status = "APPROVED" /\ (applications'[b].applied <=> applications[b].applied)
        BY <1>3, <1>4, <2>1, <3>2
      <4>2. CASE applications[b].applied
        BY <4>1, <4>2
      <4>3. CASE ~applications[b].applied
        <5>1. PICK d \in LeaveCalls : /\ leaveCalls[d].id = b
                                      /\ leaveCalls[d].op = "use" \/ leaveCalls[d].op = "died"
          BY <4>1, <4>3 DEF LeaveDocsInv, ChargeInv, DaysAreCounted, ApprovedCounts, LeaveAt
        <5>. QED  BY <1>5, <3>2, <5>1
      <4>. QED  BY <4>2, <4>3
    <3>. QED  BY <3>1, <3>2
  <2>. QED  BY <1>2, <2>1 DEF ChargeInv, DaysAreCounted, ApprovedCounts, LeaveAt, Days
<1>. QED  BY <1>6, <1>7, <1>9, <1>10, <1>11, <1>12 DEF LeaveDocsInv

LEMMA ApplyUsageDocs ==
    ASSUME LeaveTypeInv, LeaveDocsInv, NEW c \in LeaveCalls, ApplyUsage(c)
    PROVE  LeaveTypeInv' /\ LeaveDocsInv'
BY PostDocs DEF ApplyUsage, LeaveAt

LEMMA ReverseUsageDocs ==
    ASSUME LeaveTypeInv, LeaveDocsInv, NEW c \in LeaveCalls, ReverseUsage(c)
    PROVE  LeaveTypeInv' /\ LeaveDocsInv'
BY PostDocs DEF ReverseUsage, LeaveAt
-----------------------------------------------------------------------------
(* The salaries *)

LEMMA SalariesInit == LeaveInit => ActivationInv /\ RecordsInv
BY IdleFields DEF LeaveInit, ActivationInv, RecordsInv, Recorded, Activating

\* A step that has nothing to do with salaries.
LEMMA OtherSalaries ==
    ASSUME ActivationInv, RecordsInv, UNCHANGED <<salaries, proposals>>,
           \A d \in LeaveCalls :
              leaveCalls'[d].op # "activate" \/ leaveCalls'[d] = leaveCalls[d]
    PROVE  ActivationInv' /\ RecordsInv'
<1>1. \A p : Recorded(p)' <=> Recorded(p)
  BY DEF Recorded
<1>2. ActivationInv'
  BY <1>1 DEF ActivationInv, Activating
<1>3. RecordsInv'
  BY <1>1 DEF RecordsInv, Open
<1>. QED  BY <1>2, <1>3

LEMMA ProposalsMove ==
    ASSUME LeaveTypeInv, ActivationInv, RecordsInv, NEW p \in Proposals, NEW status,
           proposals[p] # "APPROVED",
           proposals' = [proposals EXCEPT ![p] = status], UNCHANGED salaries,
           \A d \in LeaveCalls : leaveCalls'[d] = leaveCalls[d]
    PROVE  ActivationInv' /\ RecordsInv'
<1>1. \A q \in Proposals : proposals[q] = "APPROVED" => proposals'[q] = "APPROVED"
  BY DEF LeaveTypeInv
<1>2. \A q : Recorded(q)' <=> Recorded(q)
  BY DEF Recorded
<1>3. ActivationInv'
  BY <1>1, <1>2 DEF ActivationInv, Activating
<1>4. RecordsInv'
  BY <1>2 DEF RecordsInv, Open
<1>. QED  BY <1>3, <1>4

LEMMA DecideSalaryInv ==
    ASSUME LeaveIInv, NEW c \in LeaveCalls, NEW p \in Proposals,
           NEW verdict \in {"APPROVED", "REJECTED"}, DecideSalary(c, p, verdict)
    PROVE  LeaveIInv'
<1>. USE DEF LeaveIInv
<1>1. /\ proposals[p] = "OPEN" /\ proposals' = [proposals EXCEPT ![p] = verdict]
      /\ UNCHANGED <<applications, requests, balance, salaries>> /\ leaveCalls[c].op = "idle"
  BY IdleFields DEF DecideSalary
<1>2. proposals' \in [Proposals -> RequestStatuses]
  BY <1>1 DEF LeaveTypeInv, RequestStatuses
<1>3. CASE verdict # "APPROVED"
  <2>1. leaveCalls' = leaveCalls
    BY <1>3 DEF DecideSalary
  <2>2. ActivationInv' /\ RecordsInv'
    BY <1>1, <2>1, ProposalsMove
  <2>3. LeaveTypeInv'
    BY <1>1, <1>2, <2>1 DEF LeaveTypeInv
  <2>4. LeaveDocsInv'
    BY <1>1, <2>1 DEF LeaveDocsInv, LeaveFit, Early, Late, Made, Decided, Apart, DecidedOnce, MadeInv,
          ChargeInv, DaysAreCounted, ApprovedCounts, Counted, LeaveAt
  <2>. QED  BY <2>2, <2>3, <2>4
<1>4. CASE verdict = "APPROVED"
  <2>1. PICK date \in Dates : LeaveContinue(c, LeaveCall("activate", p, date, "none"))
    BY <1>4 DEF DecideSalary
  <2>2. PICK k : k = LeaveCall("activate", p, date, "none")
    OBVIOUS
  <2>3. k.op = "activate" /\ k.id = p /\ k.days = date
    BY <2>2, CallFields
  <2>4. k \in LeaveCallType
    BY <2>2, LeaveConstants DEF LeaveCall, LeaveCallType, Dates
  <2>5. /\ \A d \in LeaveCalls : leaveCalls'[d] = IF d = c THEN k ELSE leaveCalls[d]
        /\ leaveCalls' \in [LeaveCalls -> LeaveCallType]
    BY <2>1, <2>2, <2>4, LeaveCallStep
  <2>6. LeaveTypeInv'
    BY <1>1, <1>2, <2>5 DEF LeaveTypeInv
  <2>7. LeaveDocsInv'
    BY <1>1, <2>1, <2>2, <2>3, <2>4, OtherCall
  <2>8. \A q \in Proposals : proposals'[q] = IF q = p THEN "APPROVED" ELSE proposals[q]
    BY <1>1, <1>4 DEF LeaveTypeInv
  <2>9. \A q : Recorded(q)' <=> Recorded(q)
    BY <1>1 DEF Recorded
  <2>10. /\ ~Recorded(p)
         /\ \A d \in LeaveCalls : Activating(leaveCalls[d]) => leaveCalls[d].id # p
    BY <1>1 DEF ActivationInv
  <2>11. ActivationInv'
    BY <2>3, <2>5, <2>8, <2>9, <2>10 DEF ActivationInv, Activating
  <2>12. RecordsInv'
    BY <1>1, <2>9 DEF RecordsInv, Open
  <2>. QED  BY <2>6, <2>7, <2>11, <2>12
<1>. QED  BY <1>3, <1>4

LEMMA ActivateSalaryInv ==
    ASSUME LeaveIInv, NEW c \in LeaveCalls, ActivateSalary(c)
    PROVE  LeaveIInv'
<1>. USE DEF LeaveIInv
<1>. DEFINE p == leaveCalls[c].id
            date == leaveCalls[c].days
<1>1. leaveCalls[c].op = "activate"
  BY DEF ActivateSalary, LeaveAt
<1>2. p \in Proposals /\ date \in Dates /\ proposals[p] = "APPROVED" /\ ~Recorded(p)
  BY <1>1 DEF ActivationInv, Activating
<1>3. /\ \A d \in LeaveCalls : leaveCalls'[d] = IF d = c THEN LeaveIdle ELSE leaveCalls[d]
      /\ leaveCalls' \in [LeaveCalls -> LeaveCallType]
  BY LeaveCallStep, IdleFields DEF ActivateSalary
<1>4. UNCHANGED <<applications, requests, balance, proposals>>
  BY DEF ActivateSalary
<1>5. LeaveDocsInv'
  BY <1>1, <1>4, IdleFields, OtherCall DEF ActivateSalary
<1>6. PICK new \in SalaryType : /\ new = [from |-> date, to |-> Forever]
                                /\ new.from = date /\ new.to = Forever
  <2>1. [from |-> date, to |-> Forever] \in SalaryType
    BY <1>2 DEF SalaryType
  <2>. QED  BY <2>1
<1>7. Forever \notin Dates /\ 0 \notin Dates /\ Forever # 0
  BY LeaveConstants DEF Dates, Forever
<1>8. \A q \in Proposals :
         /\ ClosePrior(date)[q] \in SalaryType
         /\ ClosePrior(date)[q].from = salaries[q].from
         /\ ClosePrior(date)[q].to = IF Open(q) THEN date ELSE salaries[q].to
         /\ ~Open(q) => ClosePrior(date)[q] = salaries[q]
  <2>1. ASSUME NEW q \in Proposals
        PROVE  /\ ClosePrior(date)[q] \in SalaryType
               /\ ClosePrior(date)[q].from = salaries[q].from
               /\ ClosePrior(date)[q].to = IF Open(q) THEN date ELSE salaries[q].to
               /\ ~Open(q) => ClosePrior(date)[q] = salaries[q]
    <3>1. PICK s \in SalaryType : s = salaries[q]
      BY DEF LeaveTypeInv
    <3>2. PICK t : t = [s EXCEPT !.to = date]
      OBVIOUS
    <3>3. t \in SalaryType /\ t.from = s.from /\ t.to = date
      BY <1>2, <3>2 DEF SalaryType
    <3>4. ClosePrior(date)[q] = IF Open(q) THEN t ELSE s
      BY <3>1, <3>2 DEF ClosePrior
    <3>. QED  BY <3>1, <3>3, <3>4
  <2>. QED  BY <2>1
<1>9. salaries' = [ClosePrior(date) EXCEPT ![p] = new]
  BY <1>6 DEF ActivateSalary
<1>10. ClosePrior(date) \in [Proposals -> SalaryType]
  <2>1. ClosePrior(date) = [q \in Proposals |-> ClosePrior(date)[q]]
    BY DEF ClosePrior
  <2>. QED  BY <1>8, <2>1
<1>11. \A q \in Proposals : salaries'[q] = IF q = p THEN new ELSE ClosePrior(date)[q]
  BY <1>9, <1>10
<1>12. LeaveTypeInv'
  BY <1>3, <1>4, <1>9, <1>10 DEF LeaveTypeInv
<1>13. \A q \in Proposals : Recorded(q)' <=> q = p \/ Recorded(q)
  <2>1. \A s \in SalaryType : s = NoSalary <=> s.from = 0 /\ s.to = 0
    BY DEF SalaryType, NoSalary
  <2>2. new # NoSalary
    BY <1>6, <1>7, <2>1
  <2>3. ASSUME NEW q \in Proposals, q # p
        PROVE  Recorded(q)' <=> Recorded(q)
    <3>1. salaries'[q] = ClosePrior(date)[q] /\ salaries[q] \in SalaryType
      BY <1>11, <2>3 DEF LeaveTypeInv
    <3>2. CASE Open(q)
      <4>1. salaries'[q].to = date /\ salaries[q].to = Forever /\ salaries'[q] \in SalaryType
        BY <1>8, <3>1, <3>2 DEF Open
      <4>. QED  BY <1>2, <1>7, <2>1, <3>1, <4>1 DEF Recorded
    <3>3. CASE ~Open(q)
      BY <1>8, <3>1, <3>3 DEF Recorded
    <3>. QED  BY <3>2, <3>3
  <2>. QED  BY <1>2, <1>11, <2>2, <2>3 DEF Recorded
<1>14. ActivationInv'
  <2>1. \A d \in LeaveCalls : Activating(leaveCalls'[d]) =>
           d # c /\ leaveCalls'[d] = leaveCalls[d] /\ leaveCalls[d].id # p
    BY <1>1, <1>3, IdleFields DEF ActivationInv, Activating
  <2>. QED  BY <1>2, <1>4, <1>13, <2>1 DEF ActivationInv
<1>15. \A q \in Proposals : Open(q)' <=> q = p
  BY <1>2, <1>6, <1>7, <1>8, <1>11 DEF Open
<1>16. RecordsInv'
  <2>1. \A q \in Proposals : Recorded(q)' =>
           \E o \in Proposals : Open(o)' /\ \A r \in Proposals : Open(r)' => r = o
    BY <1>2, <1>15
  <2>2. ASSUME NEW q \in Proposals, Recorded(q)', q # p
        PROVE  \E r \in Proposals : r # q /\ Recorded(r)' /\ salaries'[q].to = salaries'[r].from
    <3>1. Recorded(q) /\ salaries'[q] = ClosePrior(date)[q]
      BY <1>11, <1>13, <2>2
    <3>2. CASE Open(q)
      <4>1. salaries'[q].to = date
        BY <1>8, <3>1, <3>2
      <4>. QED  BY <1>2, <1>6, <1>11, <1>13, <2>2, <4>1
    <3>3. CASE ~Open(q)
      <4>1. PICK r \in Proposals : r # q /\ Recorded(r) /\ salaries[q].to = salaries[r].from
        BY <3>1, <3>3 DEF RecordsInv
      <4>2. r # p
        BY <1>2, <4>1
      <4>3. salaries'[r].from = salaries[r].from /\ salaries'[q].to = salaries[q].to
        BY <1>8, <1>11, <3>1, <3>3, <4>2
      <4>. QED  BY <1>13, <4>1, <4>3
    <3>. QED  BY <3>2, <3>3
  <2>. QED  BY <1>15, <2>1, <2>2 DEF RecordsInv
<1>. QED  BY <1>5, <1>12, <1>14, <1>16
LEMMA SalaryNext ==
    ASSUME LeaveIInv, NEW p \in Proposals, ProposeSalary(p) \/ CloseProposal(p)
    PROVE  LeaveIInv'
<1>. USE DEF LeaveIInv
<1>1. PICK status \in {"OPEN", "CANCELLED"} : proposals' = [proposals EXCEPT ![p] = status]
  BY DEF ProposeSalary, CloseProposal
<1>2. proposals[p] # "APPROVED" /\ UNCHANGED <<applications, requests, balance, salaries, leaveCalls>>
  BY DEF ProposeSalary, CloseProposal
<1>3. ActivationInv' /\ RecordsInv'
  BY <1>1, <1>2, ProposalsMove
<1>4. LeaveTypeInv'
  BY <1>1, <1>2 DEF LeaveTypeInv, RequestStatuses
<1>5. LeaveDocsInv'
  BY <1>2 DEF LeaveDocsInv, LeaveFit, Early, Late, Made, Decided, Apart, DecidedOnce, MadeInv,
        ChargeInv, DaysAreCounted, ApprovedCounts, Counted, LeaveAt
<1>. QED  BY <1>3, <1>4, <1>5

LEMMA AbandonLeaveInv ==
    ASSUME LeaveIInv, NEW c \in LeaveCalls, AbandonLeave(c)
    PROVE  LeaveIInv'
<1>. USE DEF LeaveIInv
<1>1. PICK k : k = LeaveCall("died", leaveCalls[c].id, 0, "none")
  OBVIOUS
<1>2. k \in LeaveCallType /\ k.op = "died" /\ k.id = leaveCalls[c].id
  <2>1. leaveCalls[c].id \in Applications \union Proposals \union {None}
    BY DEF LeaveTypeInv, LeaveCallType
  <2>. QED  BY <1>1, <2>1, CallFields DEF LeaveCall, LeaveCallType
<1>3. UNCHANGED <<applications, requests, balance, salaries, proposals>> /\ LeaveContinue(c, k)
  BY <1>1 DEF AbandonLeave
<1>4. LeaveDocsInv'
  BY <1>2, <1>3, OtherCall
<1>5. /\ \A d \in LeaveCalls : leaveCalls'[d] = IF d = c THEN k ELSE leaveCalls[d]
      /\ leaveCalls' \in [LeaveCalls -> LeaveCallType]
  BY <1>2, <1>3, LeaveCallStep
<1>6. ActivationInv' /\ RecordsInv'
  BY <1>2, <1>3, <1>5, OtherSalaries
<1>7. LeaveTypeInv'
  BY <1>3, <1>5 DEF LeaveTypeInv
<1>. QED  BY <1>4, <1>6, <1>7

\* A step of one call about an application: no other call changes, and this one
\* does not activate a salary.
LEMMA ApplicationsNext ==
    ASSUME LeaveIInv, LeaveTypeInv', LeaveDocsInv', UNCHANGED <<salaries, proposals>>,
           NEW c \in LeaveCalls, NEW k, k.op # "activate",
           LeaveContinue(c, k) \/ UNCHANGED leaveCalls
    PROVE  LeaveIInv'
<1>1. \A d \in LeaveCalls : leaveCalls'[d] # leaveCalls[d] => leaveCalls'[d] = k
  BY DEF LeaveIInv, LeaveTypeInv, LeaveContinue
<1>2. ActivationInv' /\ RecordsInv'
  BY <1>1, OtherSalaries DEF LeaveIInv
<1>. QED  BY <1>2 DEF LeaveIInv

LEMMA ThenInv ==
    ASSUME LeaveIInv, LeaveTypeInv', LeaveDocsInv', UNCHANGED <<salaries, proposals>>,
           NEW c \in LeaveCalls, NEW op \in {"initiate", "use", "reverse"}, LeaveThen(c, op)
    PROVE  LeaveIInv'
<1>1. PICK k \in LeaveCallType : LeaveContinue(c, k) /\ k.op = op
  BY ThenStep DEF LeaveIInv
<1>. QED  BY <1>1, ApplicationsNext

LEMMA LeaveNextInv == LeaveIInv /\ [LeaveNext]_leaveVars => LeaveIInv'
<1>. SUFFICES ASSUME LeaveIInv, [LeaveNext]_leaveVars PROVE LeaveIInv'
  OBVIOUS
<1>1. LeaveTypeInv /\ LeaveDocsInv
  BY DEF LeaveIInv
<1>2. LeaveIdle.op # "activate"
  BY IdleFields
<1>3. ASSUME NEW c \in LeaveCalls, NEW a \in Applications, ApplyForLeave(c, a)
      PROVE  LeaveIInv'
  <2>1. PICK days \in NumberOfDays : LeaveContinue(c, LeaveCall("create", a, days, "none"))
    BY <1>3 DEF ApplyForLeave
  <2>2. LeaveCall("create", a, days, "none").op # "activate"
    BY CallFields
  <2>3. LeaveTypeInv' /\ LeaveDocsInv' /\ UNCHANGED <<salaries, proposals>>
    BY <1>1, <1>3, ApplyForLeaveDocs DEF ApplyForLeave
  <2>. QED  BY <2>1, <2>2, <2>3, ApplicationsNext
<1>4. ASSUME NEW c \in LeaveCalls, NEW a \in Applications,
             NEW verdict \in {"APPROVED", "REJECTED", "RETURNED_TO_MAKER"},
             DecideApplication(c, a, verdict)
      PROVE  LeaveIInv'
  <2>1. LeaveContinue(c, LeaveCall("set_status", a, 0, verdict)) \/ UNCHANGED leaveCalls
    BY <1>4 DEF DecideApplication
  <2>2. LeaveCall("set_status", a, 0, verdict).op # "activate"
    BY CallFields
  <2>3. LeaveTypeInv' /\ LeaveDocsInv' /\ UNCHANGED <<salaries, proposals>>
    BY <1>1, <1>4, DecideApplicationDocs DEF DecideApplication
  <2>. QED  BY <2>1, <2>2, <2>3, ApplicationsNext
<1>5. ASSUME NEW c \in LeaveCalls, NEW a \in Applications, CancelRead(c, a)
      PROVE  LeaveIInv'
  <2>1. LeaveContinue(c, LeaveCall("cancel", a, 0, applications[a].status))
    BY <1>5 DEF CancelRead
  <2>2. LeaveCall("cancel", a, 0, applications[a].status).op # "activate"
    BY CallFields
  <2>3. LeaveTypeInv' /\ LeaveDocsInv' /\ UNCHANGED <<salaries, proposals>>
    BY <1>1, <1>5, CancelReadDocs DEF CancelRead
  <2>. QED  BY <2>1, <2>2, <2>3, ApplicationsNext
<1>6. ASSUME NEW a \in Applications, NEW status \in {"CANCELLED", "DELETED"},
             CloseRequest(a, status)
      PROVE  LeaveIInv'
  <2>1. LeaveTypeInv' /\ LeaveDocsInv' /\ UNCHANGED <<salaries, proposals, leaveCalls>>
    BY <1>1, <1>6, CloseRequestDocs DEF CloseRequest
  <2>. QED  BY <2>1, OtherSalaries DEF LeaveIInv
<1>7. ASSUME NEW c \in LeaveCalls, CreateApplication(c)
      PROVE  LeaveIInv'
  <2>1. LeaveTypeInv' /\ LeaveDocsInv'
    BY <1>1, <1>7, CreateApplicationDocs
  <2>. QED  BY <1>7, <2>1, ThenInv DEF CreateApplication
<1>8. ASSUME NEW c \in LeaveCalls, InitiateApplication(c)
      PROVE  LeaveIInv'
  <2>1. LeaveTypeInv' /\ LeaveDocsInv'
    BY <1>1, <1>8, InitiateApplicationDocs
  <2>. QED  BY <1>2, <1>8, <2>1, ApplicationsNext DEF InitiateApplication
<1>9. ASSUME NEW c \in LeaveCalls, SetStatus(c)
      PROVE  LeaveIInv'
  <2>1. LeaveTypeInv' /\ LeaveDocsInv' /\ UNCHANGED <<salaries, proposals>>
    BY <1>1, <1>9, SetStatusDocs DEF SetStatus
  <2>2. LeaveThen(c, "use") \/ LeaveContinue(c, LeaveIdle)
    BY <1>9 DEF SetStatus
  <2>. QED  BY <1>2, <2>1, <2>2, ThenInv, ApplicationsNext
<1>10. ASSUME NEW c \in LeaveCalls, ApplyUsage(c)
       PROVE  LeaveIInv'
  <2>1. LeaveTypeInv' /\ LeaveDocsInv' /\ UNCHANGED <<salaries, proposals>>
    BY <1>1, <1>10, ApplyUsageDocs DEF ApplyUsage
  <2>2. LeaveContinue(c, LeaveIdle) \/ UNCHANGED leaveCalls
    BY <1>10 DEF ApplyUsage
  <2>. QED  BY <1>2, <2>1, <2>2, ApplicationsNext
<1>11. ASSUME NEW c \in LeaveCalls, Cancel(c)
       PROVE  LeaveIInv'
  <2>1. LeaveTypeInv' /\ LeaveDocsInv' /\ UNCHANGED <<salaries, proposals>>
    BY <1>1, <1>11, CancelDocs DEF Cancel
  <2>2. LeaveThen(c, "reverse") \/ LeaveContinue(c, LeaveIdle)
    BY <1>11 DEF Cancel
  <2>. QED  BY <1>2, <2>1, <2>2, ThenInv, ApplicationsNext
<1>12. ASSUME NEW c \in LeaveCalls, ReverseUsage(c)
       PROVE  LeaveIInv'
  <2>1. LeaveTypeInv' /\ LeaveDocsInv' /\ UNCHANGED <<salaries, proposals>>
    BY <1>1, <1>12, ReverseUsageDocs DEF ReverseUsage
  <2>. QED  BY <1>2, <1>12, <2>1, ApplicationsNext DEF ReverseUsage
<1>13. CASE UNCHANGED leaveVars
  <2>1. UNCHANGED <<applications, requests, balance, salaries, proposals, leaveCalls>>
    BY <1>13 DEF leaveVars
  <2>2. LeaveTypeInv'
    BY <1>1, <2>1 DEF LeaveTypeInv
  <2>3. LeaveDocsInv'
    BY <1>1, <2>1 DEF LeaveDocsInv, LeaveFit, Early, Late, Made, Decided, Apart, DecidedOnce, MadeInv,
          ChargeInv, DaysAreCounted, ApprovedCounts, Counted, LeaveAt
  <2>. QED  BY <2>1, <2>2, <2>3, OtherSalaries DEF LeaveIInv
<1>. QED  BY <1>3, <1>4, <1>5, <1>6, <1>7, <1>8, <1>9, <1>10, <1>11, <1>12, <1>13, SalaryNext,
             DecideSalaryInv, ActivateSalaryInv, AbandonLeaveInv DEF LeaveNext

LEMMA LeaveInitInv == LeaveInit => LeaveIInv
BY DocsInit, SalariesInit DEF LeaveIInv

-----------------------------------------------------------------------------
(* What counts is approved *)

\* A step that starts no use, ends no reversal and takes an approval back only
\* to reverse it.
LEMMA ReversalKept ==
    ASSUME LeaveTypeInv, ReversalInv, premature' = premature,
           NEW c \in LeaveCalls, NEW k, LeaveContinue(c, k), k.op # "use",
           leaveCalls[c].op \in {"reverse", "died"} => k.op = "died" /\ k.id = leaveCalls[c].id,
           \A b \in Applications :
              /\ applications'[b].applied => applications[b].applied
              /\ applications[b].status = "APPROVED" =>
                    applications'[b].status = "APPROVED" \/ (k.op = "reverse" /\ k.id = b)
    PROVE  ReversalInv'
<1>. SUFFICES ASSUME NEW b \in Applications, applications'[b].applied \/ Using(b)'
              PROVE  applications'[b].status = "APPROVED" \/ Returning(b)' \/ b \in premature'
  BY DEF ReversalInv
<1>1. \A d \in LeaveCalls : leaveCalls'[d] = IF d = c THEN k ELSE leaveCalls[d]
  BY LeaveCallStep
<1>2. applications[b].applied \/ Using(b)
  BY <1>1 DEF Using, LeaveAt
<1>3. Returning(b) => Returning(b)'
  BY <1>1 DEF Returning, LeaveAt
<1>4. k.op = "reverse" /\ k.id = b => Returning(b)'
  BY <1>1 DEF Returning, LeaveAt
<1>. QED  BY <1>2, <1>3, <1>4 DEF ReversalInv

LEMMA SetStatusReversal ==
    ASSUME LeaveIInv, ReversalInv, NEW c \in LeaveCalls, SetStatus(c)
    PROVE  ReversalInv'
<1>. DEFINE a == leaveCalls[c].id
<1>1. /\ leaveCalls[c].op = "set_status" /\ a \in Applications
      /\ leaveCalls[c].status \in {"APPROVED", "REJECTED"}
      /\ applications[a].status # "APPROVED"
  BY DEF SetStatus, LeaveAt, LeaveIInv, LeaveDocsInv, LeaveFit, Early, DecidedOnce
<1>2. LeaveTypeInv /\ premature' = premature
  BY DEF LeaveIInv, SetStatus
<1>3. \A b \in Applications :
         /\ applications'[b].applied <=> applications[b].applied
         /\ applications'[b].status = IF b = a THEN leaveCalls[c].status ELSE applications[b].status
  <2>1. PICK x \in ApplicationType : x = applications[a]
    BY <1>1, <1>2 DEF LeaveTypeInv
  <2>2. applications' = [applications EXCEPT ![a] = [x EXCEPT !.status = leaveCalls[c].status]]
    BY <1>2, <2>1 DEF SetStatus, LeaveTypeInv
  <2>. QED  BY <1>1, <1>2, <2>1, <2>2 DEF LeaveTypeInv, ApplicationType
<1>4. CASE leaveCalls[c].status = "REJECTED"
  <2>1. LeaveContinue(c, LeaveIdle)
    BY <1>4 DEF SetStatus
  <2>. QED  BY <1>1, <1>2, <1>3, <2>1, IdleFields, ReversalKept
<1>5. CASE leaveCalls[c].status = "APPROVED"
  <2>1. PICK k \in LeaveCallType : LeaveContinue(c, k) /\ k.op = "use" /\ k.id = a
    BY <1>2, <1>5, ThenStep DEF SetStatus
  <2>2. \A d \in LeaveCalls : leaveCalls'[d] = IF d = c THEN k ELSE leaveCalls[d]
    BY <1>2, <2>1, LeaveCallStep
  <2>3. ASSUME NEW b \in Applications, applications'[b].applied \/ Using(b)', b # a
        PROVE  applications'[b].status = "APPROVED" \/ Returning(b)' \/ b \in premature'
    <3>1. applications[b].applied \/ Using(b)
      BY <1>3, <2>1, <2>2, <2>3 DEF Using, LeaveAt
    <3>2. Returning(b) => Returning(b)'
      BY <1>1, <2>2 DEF Returning, LeaveAt
    <3>. QED  BY <1>2, <1>3, <2>3, <3>1, <3>2 DEF ReversalInv
  <2>. QED  BY <1>3, <1>5, <2>3 DEF ReversalInv
<1>. QED  BY <1>1, <1>4, <1>5

LEMMA PostReversal ==
    ASSUME LeaveIInv, ReversalInv, NEW c \in LeaveCalls, ApplyUsage(c) \/ ReverseUsage(c)
    PROVE  ReversalInv'
<1>. DEFINE a == leaveCalls[c].id
<1>1. PICK applied \in BOOLEAN : /\ Post(a, applied)
                                 /\ applied <=> leaveCalls[c].op = "use"
                                 /\ leaveCalls[c].op \in {"use", "reverse"}
  BY DEF ApplyUsage, ReverseUsage, LeaveAt
<1>2. a \in Applications /\ Made(a)
  BY <1>1 DEF LeaveIInv, LeaveDocsInv, LeaveFit
<1>3. \A b \in Applications :
         /\ applications'[b].status = applications[b].status
         /\ applications'[b].applied <=> IF b = a THEN applied ELSE applications[b].applied
  BY <1>1, <1>2, Posted DEF LeaveIInv, LeaveDocsInv, ChargeInv
<1>4. \A d \in LeaveCalls : leaveCalls'[d] = IF d = c THEN LeaveIdle ELSE leaveCalls[d]
  BY LeaveCallStep DEF LeaveIInv, ApplyUsage, ReverseUsage
<1>5. ASSUME NEW b \in Applications, applications'[b].applied \/ Using(b)'
      PROVE  applications'[b].status = "APPROVED" \/ Returning(b)' \/ b \in premature'
  <2>1. Using(b)' => Using(b)
    BY <1>4, IdleFields DEF Using, LeaveAt
  <2>2. CASE ReverseUsage(c)
    <3>1. premature' = premature \union {x \in {a} : Using(x)} /\ leaveCalls[c].op = "reverse"
      BY <2>2 DEF ReverseUsage, LeaveAt
    <3>2. CASE b = a
      <4>1. ~applications'[b].applied
        BY <1>1, <1>3, <3>1, <3>2
      <4>2. Using(b)
        BY <1>5, <2>1, <4>1
      <4>. QED  BY <3>1, <3>2, <4>2
    <3>3. CASE b # a
      <4>1. Returning(b) => Returning(b)'
        BY <1>4, <3>3 DEF Returning, LeaveAt
      <4>. QED  BY <1>3, <1>5, <2>1, <3>1, <3>3, <4>1 DEF ReversalInv
    <3>. QED  BY <3>2, <3>3
  <2>3. CASE ApplyUsage(c)
    <3>1. premature' = premature /\ leaveCalls[c].op = "use"
      BY <2>3 DEF ApplyUsage, LeaveAt
    <3>2. applications[b].applied \/ Using(b)
      BY <1>3, <1>5, <2>1, <3>1 DEF Using, LeaveAt
    <3>3. Returning(b) => Returning(b)'
      BY <1>4, <3>1 DEF Returning, LeaveAt
    <3>. QED  BY <1>3, <3>1, <3>2, <3>3 DEF ReversalInv
  <2>. QED  BY <2>2, <2>3
<1>. QED  BY <1>5 DEF ReversalInv

\* A step of another kind: on its way a call may begin, go on, fail or cancel.
LEMMA OtherReversal ==
    ASSUME LeaveIInv, ReversalInv, premature' = premature, UNCHANGED applications,
           NEW c \in LeaveCalls, NEW k, k.op # "use",
           leaveCalls[c].op \in {"reverse", "died"} => k.op = "died" /\ k.id = leaveCalls[c].id,
           LeaveContinue(c, k) \/ UNCHANGED leaveCalls
    PROVE  ReversalInv'
<1>1. CASE UNCHANGED leaveCalls
  BY <1>1 DEF ReversalInv, Returning, Using, LeaveAt
<1>2. CASE LeaveContinue(c, k)
  BY <1>2, ReversalKept DEF LeaveIInv
<1>. QED  BY <1>1, <1>2

LEMMA CancelReversal ==
    ASSUME LeaveIInv, ReversalInv, NEW c \in LeaveCalls, Cancel(c)
    PROVE  ReversalInv'
<1>. DEFINE a == leaveCalls[c].id
<1>1. /\ leaveCalls[c].op = "cancel" /\ a \in Applications /\ LeaveTypeInv
      /\ premature' = premature
  BY DEF Cancel, LeaveAt, LeaveIInv, LeaveDocsInv, LeaveFit
<1>2. CASE applications[a].status # leaveCalls[c].status
  <2>1. applications' = applications /\ LeaveContinue(c, LeaveIdle)
    BY <1>2 DEF Cancel
  <2>. QED  BY <1>1, <2>1, IdleFields, OtherReversal
<1>3. CASE applications[a].status = leaveCalls[c].status
  <2>1. PICK k : /\ LeaveContinue(c, k) /\ k.op # "use"
                 /\ leaveCalls[c].status = "APPROVED" => k.op = "reverse" /\ k.id = a
    <3>1. CASE leaveCalls[c].status = "APPROVED"
      BY <1>1, <1>3, <3>1, ThenStep DEF Cancel
    <3>2. CASE leaveCalls[c].status # "APPROVED"
      BY <1>3, <3>2, IdleFields DEF Cancel
    <3>. QED  BY <3>1, <3>2
  <2>2. \A b \in Applications :
           /\ applications'[b].applied <=> applications[b].applied
           /\ b # a => applications'[b].status = applications[b].status
    <3>1. PICK x \in ApplicationType : x = applications[a]
      BY <1>1 DEF LeaveTypeInv
    <3>2. applications' = [applications EXCEPT ![a] = [x EXCEPT !.status = "CANCELLED"]]
      BY <1>1, <1>3, <3>1 DEF Cancel, LeaveTypeInv
    <3>. QED  BY <1>1, <3>1, <3>2 DEF LeaveTypeInv, ApplicationType
  <2>. QED  BY <1>1, <1>3, <2>1, <2>2, ReversalKept
<1>. QED  BY <1>2, <1>3

LEMMA CreateReversal ==
    ASSUME LeaveIInv, ReversalInv, NEW c \in LeaveCalls, CreateApplication(c)
    PROVE  ReversalInv'
<1>. DEFINE a == leaveCalls[c].id
<1>1. /\ leaveCalls[c].op = "create" /\ a \in Applications /\ ~Made(a) /\ LeaveTypeInv
      /\ premature' = premature
  BY DEF CreateApplication, LeaveAt, LeaveIInv, LeaveDocsInv, LeaveFit, Early
<1>2. PICK k \in LeaveCallType : LeaveContinue(c, k) /\ k.op = "initiate"
  BY <1>1, ThenStep DEF CreateApplication
<1>3. \A b \in Applications :
         /\ applications'[b].applied => applications[b].applied
         /\ b # a => applications'[b] = applications[b]
  BY <1>1 DEF CreateApplication, LeaveTypeInv
<1>. QED  BY <1>1, <1>2, <1>3, ReversalKept DEF Made

LEMMA ReversalStep == LeaveIInv /\ ReversalInv /\ [LeaveNext]_leaveVars => ReversalInv'
<1>. SUFFICES ASSUME LeaveIInv, ReversalInv, [LeaveNext]_leaveVars PROVE ReversalInv'
  OBVIOUS
<1>1. \A op, id, days, status : LeaveCall(op, id, days, status).op = op
                             /\ LeaveCall(op, id, days, status).id = id
  BY CallFields
<1>2. CASE UNCHANGED <<applications, leaveCalls, premature>>
  BY <1>2 DEF ReversalInv, Returning, Using, LeaveAt
<1>3. ASSUME NEW c \in LeaveCalls, NEW a \in Applications, ApplyForLeave(c, a)
      PROVE  ReversalInv'
  BY <1>1, <1>3, IdleFields, OtherReversal DEF ApplyForLeave
<1>4. ASSUME NEW c \in LeaveCalls, NEW a \in Applications, NEW verdict,
             DecideApplication(c, a, verdict)
      PROVE  ReversalInv'
  BY <1>1, <1>4, IdleFields, OtherReversal DEF DecideApplication
<1>5. ASSUME NEW c \in LeaveCalls, NEW a \in Applications, CancelRead(c, a)
      PROVE  ReversalInv'
  BY <1>1, <1>5, IdleFields, OtherReversal DEF CancelRead
<1>6. ASSUME NEW c \in LeaveCalls, InitiateApplication(c)
      PROVE  ReversalInv'
  BY <1>6, IdleFields, OtherReversal DEF InitiateApplication, LeaveAt
<1>7. ASSUME NEW c \in LeaveCalls, ActivateSalary(c)
      PROVE  ReversalInv'
  BY <1>7, IdleFields, OtherReversal DEF ActivateSalary, LeaveAt
<1>8. ASSUME NEW c \in LeaveCalls, AbandonLeave(c)
      PROVE  ReversalInv'
  BY <1>1, <1>8, OtherReversal DEF AbandonLeave
<1>9. ASSUME NEW c \in LeaveCalls, NEW p \in Proposals, NEW verdict, DecideSalary(c, p, verdict)
      PROVE  ReversalInv'
  <2>1. leaveCalls[c].op = "idle" /\ UNCHANGED <<applications, premature>>
    BY <1>9, IdleFields DEF DecideSalary
  <2>2. PICK date : LeaveContinue(c, LeaveCall("activate", p, date, "none")) \/ UNCHANGED leaveCalls
    BY <1>9 DEF DecideSalary
  <2>. QED  BY <1>1, <2>1, <2>2, OtherReversal
<1>10. ASSUME NEW a \in Applications, NEW status, CloseRequest(a, status)
       PROVE  ReversalInv'
  BY <1>2, <1>10 DEF CloseRequest
<1>11. ASSUME NEW p \in Proposals, ProposeSalary(p) \/ CloseProposal(p)
       PROVE  ReversalInv'
  BY <1>2, <1>11 DEF ProposeSalary, CloseProposal
<1>12. CASE UNCHANGED leaveVars
  BY <1>2, <1>12 DEF leaveVars
<1>. QED  BY <1>3, <1>4, <1>5, <1>6, <1>7, <1>8, <1>9, <1>10, <1>11, <1>12, SetStatusReversal,
             PostReversal, CancelReversal, CreateReversal DEF LeaveNext

\* The days a member of staff has used are those of the applications that count,
\* and these are the approved ones, but for calls that died and for a cancellation
\* reversed before the use was written: for any number of applications and of
\* calls that decide, use, cancel and reverse them.
THEOREM UsageFollowsDecisions == LeaveSpec => []UsageIsCharged
<1>1. LeaveIInv /\ [LeaveNext]_leaveVars => LeaveIInv'
  BY LeaveNextInv
<1>2. LeaveInit => ReversalInv
  BY IdleFields DEF LeaveInit, ReversalInv, Using, LeaveAt, NoApplication
<1>3. LeaveIInv /\ ReversalInv => UsageIsCharged
  <2>1. LeaveIInv => DaysAreCounted /\ ApprovedCounts
    BY DEF LeaveIInv, LeaveDocsInv, ChargeInv
  <2>2. ReversalInv => OnlyApprovedCount
    BY DEF OnlyApprovedCount, ReversalInv, Returning
  <2>. QED  BY <2>1, <2>2 DEF UsageIsCharged
<1>. QED  BY <1>1, <1>2, <1>3, LeaveInitInv, ReversalStep, PTL DEF LeaveSpec

LEMMA OneOpenRecord == LeaveIInv => SalaryHistory
<1>. SUFFICES ASSUME LeaveIInv PROVE SalaryHistory
  OBVIOUS
<1>. DEFINE records == {p \in Proposals : salaries[p] # NoSalary}
<1>1. RecordsInv /\ \A p \in Proposals : p \in records <=> Recorded(p)
  BY DEF LeaveIInv, Recorded
<1>2. ASSUME records # {}
      PROVE  Cardinality({p \in records : Open(p)}) = 1
  <2>1. PICK o \in Proposals : Open(o) /\ \A q \in Proposals : Open(q) => q = o
    BY <1>1, <1>2 DEF RecordsInv
  <2>2. Recorded(o)
    BY <2>1, LeaveConstants DEF Recorded, NoSalary, Open, Forever
  <2>3. {p \in records : Open(p)} = {o}
    BY <1>1, <2>1, <2>2
  <2>. QED  BY <2>3, FS_Singleton
<1>3. \A p \in records : ~Open(p) => \E q \in records \ {p} : salaries[p].to = salaries[q].from
  BY <1>1 DEF RecordsInv
<1>. QED  BY <1>2, <1>3 DEF SalaryHistory

\* One salary record is open at a time and a closed one ends where another
\* begins, for any number of proposals, approved and activated in any order.
THEOREM OneSalaryAtATime == LeaveSpec => []SalaryHistory
<1>1. LeaveIInv /\ [LeaveNext]_leaveVars => LeaveIInv'
  BY LeaveNextInv
<1>. QED  BY <1>1, LeaveInitInv, OneOpenRecord, PTL DEF LeaveSpec

-----------------------------------------------------------------------------
(* Inboxes *)

InboxInv == copies \in [Staff -> [is : {"absent", "unread", "read"}, mirror : BOOLEAN]]

\* Nothing but the owner's reading and the worker's upserts writes a copy.
LEMMA InboxWrites ==
    ASSUME NotificationNext
    PROVE  \/ UNCHANGED copies
           \/ \E s \in Staff : MarkRead(s)
           \/ \E j \in Jobs : PersistCopies(j)
<1>1. ASSUME NEW s \in Addressed, Dispatch(s) PROVE UNCHANGED copies
  BY <1>1 DEF Dispatch
<1>2. ASSUME NEW j \in Jobs, Work(j) PROVE UNCHANGED copies \/ PersistCopies(j)
  BY <1>2 DEF Work, Start, SendLeg, Complete, Fail, Recover
<1>3. ASSUME NEW j \in Jobs, Handle(j) PROVE UNCHANGED copies
  BY <1>3 DEF Handle, OnFailed
<1>4. ASSUME NEW d \in Drains, DrainFind(d) \/ DrainMark(d) \/ DrainSkip(d) PROVE UNCHANGED copies
  BY <1>4 DEF DrainFind, DrainMark, DrainSkip, Draining
<1>5. ASSUME NEW d \in Drains, NEW e \in Entries, DrainEnqueue(d, e) PROVE UNCHANGED copies
  BY <1>5 DEF DrainEnqueue, Draining
<1>6. ASSUME Crash PROVE UNCHANGED copies
  BY <1>6 DEF Crash
<1>. QED  BY <1>1, <1>2, <1>3, <1>4, <1>5, <1>6 DEF NotificationNext

LEMMA InboxStep ==
    ASSUME InboxInv, [NotificationNext]_notificationVars
    PROVE  /\ InboxInv'
           /\ \A s \in Staff : copies[s].is = "read" => copies'[s] = copies[s]
<1>1. CASE UNCHANGED copies
  BY <1>1 DEF InboxInv
<1>2. ASSUME NEW s \in Staff, MarkRead(s)
      PROVE  /\ InboxInv'
             /\ \A t \in Staff : copies[t].is = "read" => copies'[t] = copies[t]
  <2>1. copies[s].is = "unread" /\ copies' = [copies EXCEPT ![s].is = "read"]
    BY <1>2 DEF MarkRead
  <2>. QED  BY <2>1 DEF InboxInv
<1>3. ASSUME NEW j \in Jobs, PersistCopies(j)
      PROVE  /\ InboxInv'
             /\ \A t \in Staff : copies[t].is = "read" => copies'[t] = copies[t]
  <2>1. PICK written :
           copies' = [s \in Staff |-> IF s \in written THEN Upserted(s, j) ELSE copies[s]]
    BY <1>3 DEF PersistCopies
  <2>2. \A s \in Staff : Upserted(s, j) \in [is : {"absent", "unread", "read"}, mirror : BOOLEAN]
    BY DEF InboxInv, Upserted
  <2>3. \A s \in Staff : copies[s].is = "read" => Upserted(s, j) = copies[s]
    BY DEF Upserted
  <2>. QED  BY <2>1, <2>2, <2>3 DEF InboxInv
<1>4. CASE UNCHANGED notificationVars
  BY <1>4, <1>1 DEF notificationVars
<1>. QED  BY <1>1, <1>2, <1>3, <1>4, InboxWrites

\* A copy that was read is never touched again, for any inboxes, jobs, retries,
\* overlapping drains and crashes.
THEOREM ReadCopiesStay == NotificationSpec => ReadStaysRead
<1>1. NotificationInit => InboxInv
  BY DEF NotificationInit, InboxInv, NoCopy
<1>2. InboxInv /\ [NotificationNext]_notificationVars => InboxInv'
  BY InboxStep
<1>3. InboxInv /\ [NotificationNext]_notificationVars =>
         [\A s \in Staff : copies[s].is = "read" => copies'[s] = copies[s]]_notificationVars
  BY InboxStep
<1>. QED  BY <1>1, <1>2, <1>3, PTL DEF NotificationSpec, ReadStaysRead
=============================================================================
