------------------------------- MODULE Staff --------------------------------
(***************************************************************************)
(* Staff accounts and their rights: onboarding by proposal and approval,   *)
(* direct creation, edits of a profile, and the administration of the      *)
(* capability matrix and of module access (src/src/modules/identity/       *)
(* staff.service.ts, src/src/platform/rbac/rbac.service.ts), each call     *)
(* behind the guard of its route in Access.                                *)
(*                                                                         *)
(* A request of a signed-in account is checked against the role in its     *)
(* access token, which is the role the account had when the token was      *)
(* issued, and against the user type and the matrix as they are now.       *)
(*                                                                         *)
(* Abstractions: one account can be onboarded or created (two accounts     *)
(* with one email or phone number cannot); of the matrix, the Tracked      *)
(* capabilities change and the others stay as seeded; an account presents  *)
(* its newest token; passwords, sessions and the status are in Sessions;   *)
(* departments, units, branches and personal details are left out.         *)
(***************************************************************************)
EXTENDS Access, Naturals

CONSTANTS
    Calls,       \* slots for calls in flight
    Seeded,      \* the accounts there are at first
    Newcomer,    \* the account that may be created
    Profile,     \* role and user type of each seeded account
    Tracked,     \* capabilities that change hands
    Offered,     \* bound: roles that are proposed and assigned
    MaxEdits     \* bound: edits of profiles, of the matrix and of module access

Accounts == Seeded \cup {Newcomer}
Onboardable == Roles \ {"SUPERADMIN"}
Assignable == {"INITIATOR", "AUTHORIZER"}

ASSUME StaffConstants ==
    /\ Newcomer \notin Seeded
    /\ Profile \in [Seeded -> Roles \X Assignable]
    /\ \A s \in Seeded : Profile[s][1] = "MARKETER" => Profile[s][2] = "INITIATOR"
    /\ Tracked \subseteq KnownCapabilities
    /\ Offered \subseteq Onboardable
    /\ MaxEdits \in Nat

VARIABLES
    accounts,     \* Staff documents, the role in the token, StaffModuleAccess
    matrix,       \* RoleCapabilities documents: the tracked ones of each role
    request,      \* the WorkflowRequest of the onboarding
    calls,        \* calls in flight
    edits,        \* edits made so far
    given,        \* history: what gave the account its role
    overlapped    \* history: accounts with two profile edits in flight at once

vars == <<accounts, matrix, request, calls, edits, given, overlapped>>

-----------------------------------------------------------------------------
NoAccount == [role |-> "NONE", userType |-> "NONE", token |-> "NONE", modules |-> {}]
Account(role, userType) ==
    [role |-> role, userType |-> userType, token |-> role, modules |-> {}]
NoRequest ==
    [status |-> "ABSENT", maker |-> Newcomer, role |-> "NONE", userType |-> "NONE", by |-> "NONE"]

Call(op, x, role, userType) == [op |-> op, account |-> x, role |-> role, userType |-> userType]
Idle == Call("idle", Newcomer, "NONE", "NONE")
At(c, op) == calls[c].op = op
Continue(c, call) == calls' = [calls EXCEPT ![c] = call]

Exists(x) == accounts[x] # NoAccount
Existing == {x \in Accounts : Exists(x)}

Seed(role) == DefaultCapabilities[role] \cap Tracked

\* resolveContext, on the principal that the JWT strategy returns: the matrix
\* of the token's role, narrowed by the user type.
Holds(x, capability) ==
    /\ capability \in IF capability \in Tracked THEN matrix[accounts[x].token]
                      ELSE DefaultCapabilities[accounts[x].token]
    /\ Keeps(accounts[x].userType, capability)

\* CapabilityGuard and ModuleAccessGuard: a route that asks for nothing lets
\* every signed-in account through.
Passes(x, route) ==
    /\ route.needs = {} \/ \E capability \in route.needs : Holds(x, capability)
    /\ route.modules \subseteq accounts[x].modules
MayCall(x, component, handler) == Exists(x) /\ Passes(x, RouteNamed[<<component, handler>>])
SomebodyMay(component, handler) == \E x \in Accounts : MayCall(x, component, handler)

Init ==
    /\ accounts = [x \in Accounts |->
                     IF x \in Seeded THEN Account(Profile[x][1], Profile[x][2]) ELSE NoAccount]
    /\ matrix = [role \in Roles |-> Seed(role)]
    /\ request = NoRequest
    /\ calls = [c \in Calls |-> Idle]
    /\ edits = 0
    /\ given = [x \in Accounts |-> "seed"]
    /\ overlapped = {}

\* A new access token carries the role of the account as it is now.
Renew(x) ==
    /\ Exists(x)
    /\ accounts' = [accounts EXCEPT ![x].token = accounts[x].role]
    /\ UNCHANGED <<matrix, request, calls, edits, given, overlapped>>

-----------------------------------------------------------------------------
(* Onboarding *)

\* The user type that is stored: "NONE" when the request is refused.
ResolveUserType(role, userType) ==
    IF role = "MARKETER" THEN "INITIATOR"
    ELSE IF userType \in Assignable THEN userType ELSE "NONE"

CanProposeRole(role, proposerRole) ==
    role \in {"ADMIN", "APPROVER"} => proposerRole \in {"ADMIN", "SUPERADMIN"}

Payload(x, role, userType) ==
    [status |-> "OPEN", maker |-> x, role |-> role,
     userType |-> ResolveUserType(role, userType), by |-> accounts[x].token]

InitiateOnboarding(x, role, userType) ==
    /\ request = NoRequest
    /\ MayCall(x, "staff", "onboard")
    /\ CanProposeRole(role, accounts[x].token)
    /\ ~Exists(Newcomer)
    /\ ResolveUserType(role, userType) # "NONE"
    /\ request' = Payload(x, role, userType)
    /\ UNCHANGED <<accounts, matrix, calls, edits, given, overlapped>>

Resubmittable(x) ==
    /\ request.status \in {"RETURNED", "REJECTED"}
    /\ x = request.maker
    /\ MayCall(x, "staff", "resubmitOnboarding")
    /\ ~Exists(Newcomer)

\* Mutant of ResubmitOnboarding: the role of the new payload is not checked.
ResubmitAnyRole(x, role, userType) ==
    /\ Resubmittable(x)
    /\ ResolveUserType(role, userType) # "NONE"
    /\ request' = Payload(x, role, userType)
    /\ UNCHANGED <<accounts, matrix, calls, edits, given, overlapped>>

ResubmitOnboarding(x, role, userType) ==
    /\ Resubmittable(x)
    /\ CanProposeRole(role, accounts[x].token)
    /\ ResolveUserType(role, userType) # "NONE"
    /\ request' = Payload(x, role, userType)
    /\ UNCHANGED <<accounts, matrix, calls, edits, given, overlapped>>

WithdrawOnboarding(x) ==
    /\ request.status \in {"OPEN", "RETURNED", "REJECTED"}
    /\ x = request.maker
    /\ MayCall(x, "workflow", "cancel")
    /\ request' = [request EXCEPT !.status = "CANCELLED"]
    /\ UNCHANGED <<accounts, matrix, calls, edits, given, overlapped>>

MayAct(x) ==
    /\ request.status = "OPEN"
    /\ x # request.maker
    /\ MayCall(x, "workflow", "act")
    /\ Holds(x, <<"approve", "STAFF">>)

SendBack(x, status) ==
    /\ MayAct(x)
    /\ request' = [request EXCEPT !.status = status]
    /\ UNCHANGED <<accounts, matrix, calls, edits, given, overlapped>>

\* The validator: the token's role of the approver, the stored role of the maker.
ApproveRead(c, x) ==
    /\ calls[c] = Idle
    /\ MayAct(x)
    /\ accounts[x].token = accounts[request.maker].role
    /\ Continue(c, Call("approve", x, "NONE", "NONE"))
    /\ UNCHANGED <<accounts, matrix, request, edits, given, overlapped>>

\* The write finds an open request again, whatever has become of its payload.
Approve(c) ==
    /\ At(c, "approve")
    /\ IF request.status = "OPEN"
       THEN /\ request' = [request EXCEPT !.status = "APPROVED"]
            /\ Continue(c, Call("create", Newcomer, request.role, request.userType))
       ELSE UNCHANGED request /\ Continue(c, Idle)
    /\ UNCHANGED <<accounts, matrix, edits, given, overlapped>>

\* The handler of the approval; the unique indexes refuse a second account.
CreateAccount(c) ==
    /\ At(c, "create")
    /\ IF Exists(Newcomer) THEN UNCHANGED <<accounts, given>>
       ELSE /\ accounts' = [accounts EXCEPT ![Newcomer] = Account(calls[c].role, calls[c].userType)]
            /\ given' = [given EXCEPT ![Newcomer] = request.by]
    /\ Continue(c, Idle)
    /\ UNCHANGED <<matrix, request, edits, overlapped>>

CreateDirect(role, userType) ==
    /\ ~Exists(Newcomer)
    /\ SomebodyMay("staff", "createDirect")
    /\ role \in Offered \cap {"MANAGER", "ADMIN", "APPROVER"}
    /\ ResolveUserType(role, userType) # "NONE"
    /\ accounts' = [accounts EXCEPT ![Newcomer] = Account(role, userType)]
    /\ given' = [given EXCEPT ![Newcomer] = "direct"]
    /\ UNCHANGED <<matrix, request, calls, edits, overlapped>>

-----------------------------------------------------------------------------
(* The edit of a profile: "NONE" is a field that is not given *)

Given(change, field) == IF change = "NONE" THEN field ELSE change
\* The save sends the fields that differ from what was read.
Changed(new, old) == IF new = old THEN "NONE" ELSE new

\* Mutant of EditedType: the user type is looked at only when it is given.
EditedTypeIfGiven(x, role, userType) ==
    IF userType = "NONE" THEN accounts[x].userType
    ELSE ResolveUserType(Given(role, accounts[x].role), userType)

EditedType(x, role, userType) ==
    ResolveUserType(Given(role, accounts[x].role), Given(userType, accounts[x].userType))

Editing(x) == \E c \in Calls : At(c, "profile") /\ calls[c].account = x

UpdateProfileRead(c, y, role, userType) ==
    /\ calls[c] = Idle
    /\ edits < MaxEdits
    /\ Exists(y)
    /\ "SUPERADMIN" \notin {accounts[y].role, role}
    /\ EditedType(y, role, userType) # "NONE"
    /\ SomebodyMay("staff", "updateProfile")
    /\ Continue(c, Call("profile", y, Changed(Given(role, accounts[y].role), accounts[y].role),
                        Changed(EditedType(y, role, userType), accounts[y].userType)))
    /\ calls'[c] # Call("profile", y, "NONE", "NONE")
    /\ edits' = edits + 1
    /\ overlapped' = overlapped \cup (IF Editing(y) THEN {y} ELSE {})
    /\ UNCHANGED <<accounts, matrix, request, given>>

UpdateProfile(c) ==
    /\ At(c, "profile")
    /\ LET x == calls[c].account IN
          /\ accounts' = [accounts EXCEPT
                ![x].role = Given(calls[c].role, accounts[x].role),
                ![x].userType = Given(calls[c].userType, accounts[x].userType)]
          /\ given' = IF calls[c].role = "NONE" THEN given ELSE [given EXCEPT ![x] = "profile"]
    /\ Continue(c, Idle)
    /\ UNCHANGED <<matrix, request, edits, overlapped>>

-----------------------------------------------------------------------------
(* The matrix and the module access, each written in one update *)

EditMatrix(handler, role, tracked) ==
    /\ edits < MaxEdits
    /\ matrix[role] # tracked
    /\ SomebodyMay("rbac", handler)
    /\ matrix' = [matrix EXCEPT ![role] = tracked]
    /\ edits' = edits + 1
    /\ UNCHANGED <<accounts, request, calls, given, overlapped>>

SetCapabilities(role, tracked) == EditMatrix("updateRoleCapabilities", role, tracked)
AddCapability(role, c) == EditMatrix("addRoleCapability", role, matrix[role] \cup {c})
RemoveCapability(role, c) == EditMatrix("removeRoleCapability", role, matrix[role] \ {c})

\* A redeployment seeds the roles without a document, so none; the script that
\* reconciles adds what is missing, what was taken away included.
Reconcile(role) ==
    /\ ~(Seed(role) \subseteq matrix[role])
    /\ matrix' = [matrix EXCEPT ![role] = matrix[role] \cup Seed(role)]
    /\ UNCHANGED <<accounts, request, calls, edits, given, overlapped>>

SetModules(y, modules) ==
    /\ edits < MaxEdits
    /\ Exists(y)
    /\ accounts[y].modules # modules
    /\ SomebodyMay("rbac", "updateStaffModuleAccess")
    /\ accounts' = [accounts EXCEPT ![y].modules = modules]
    /\ edits' = edits + 1
    /\ UNCHANGED <<matrix, request, calls, given, overlapped>>

-----------------------------------------------------------------------------
\* The call ends at an await: the process stops, or what it awaits throws.
Abandon(c) ==
    /\ calls[c] # Idle
    /\ Continue(c, Idle)
    /\ UNCHANGED <<accounts, matrix, request, edits, given, overlapped>>

Next ==
    \/ \E x \in Accounts :
          \/ Renew(x)
          \/ WithdrawOnboarding(x)
          \/ \E status \in {"RETURNED", "REJECTED"} : SendBack(x, status)
          \/ \E role \in Offered, t \in Assignable :
                InitiateOnboarding(x, role, t) \/ ResubmitOnboarding(x, role, t)
          \/ \E modules \in {{}, ModuleNames} : SetModules(x, modules)
    \/ \E role \in Roles :
          \/ \E tracked \in SUBSET Tracked : SetCapabilities(role, tracked)
          \/ \E capability \in Tracked : AddCapability(role, capability) \/ RemoveCapability(role, capability)
          \/ Reconcile(role)
    \/ \E role \in Offered, t \in Assignable : CreateDirect(role, t)
    \/ \E c \in Calls :
          \/ \E x \in Accounts, role \in Offered \cup {"NONE"}, t \in UserTypes \cup {"NONE"} :
                UpdateProfileRead(c, x, role, t)
          \/ \E x \in Accounts : ApproveRead(c, x)
          \/ Approve(c)
          \/ CreateAccount(c)
          \/ UpdateProfile(c)
          \/ Abandon(c)

Spec == Init /\ [][Next]_vars

-----------------------------------------------------------------------------
\* An account onboarded as ADMIN or APPROVER was proposed by somebody signed in
\* as ADMIN or SUPERADMIN ("Only an Admin or SuperAdmin may onboard a staff
\* member as" one), however often the proposal was sent back and rewritten.
ElevatedBySponsor ==
    \A x \in Accounts :
        accounts[x].role \in {"ADMIN", "APPROVER"} =>
            given[x] \in {"seed", "direct", "profile", "ADMIN", "SUPERADMIN"}

\* A marketer only ever initiates (resolveUserType), whatever created or edited
\* the account, unless two edits of the profile were in flight at once.
MarketersInitiate ==
    \A x \in Existing \ overlapped :
        accounts[x].role = "MARKETER" => accounts[x].userType = "INITIATOR"

\* What opens a request without asking for a right to initiate.
Unfiltered ==
    {<<"groups", "reassignLeadership">>, <<"leave", "apply">>, <<"salary", "propose">>,
     <<"ledger", "proposeManualEntry">>}

\* What decides on the work of others, beside the act of the workflow engine.
Deciding ==
    {<<"customers", "decideEditPrivilege">>, <<"customers", "disable">>, <<"customers", "enable">>,
     <<"customers", "manuallyVerifyNin">>, <<"groups", "decideEditPrivilege">>,
     <<"verification", "resolveEscalation">>, <<"repayments", "resolveDispute">>,
     <<"branch-requests", "resolve">>, <<"branches", "remove">>, <<"coverage", "revoke">>}

Sensitive == {r \in Routes : r.opens # "" \/ r.name \in Deciding}

\* "Only Initiator can initiate, only Authorizer can review/approve": whatever
\* the token, the matrix and the module access have become, only an initiator
\* reaches a route that opens a request, the four unfiltered ones apart, and
\* only an authorizer reaches one that decides.
DutiesSeparated ==
    \A x \in Existing, r \in Sensitive :
        Passes(x, r) =>
            /\ (r.opens # "" /\ r.name \notin Unfiltered) => accounts[x].userType = "INITIATOR"
            /\ r.name \in Deciding => accounts[x].userType = "AUTHORIZER"
=============================================================================
