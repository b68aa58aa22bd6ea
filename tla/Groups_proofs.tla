---------------------------- MODULE Groups_proofs ----------------------------
(***************************************************************************)
(* Theorems about the membership of a group, for any number of customers,  *)
(* founders, requests and calls in flight.                                 *)
(***************************************************************************)
EXTENDS Groups, FiniteSetTheorems, TLAPS

Statuses == {"ABSENT", "PENDING_REVIEW", "PENDING_APPROVAL", "APPROVED", "REJECTED",
             "RETURNED_TO_MAKER", "CANCELLED", "DELETED"}
Kinds == {"ADD", "REMOVE", "REASSIGN"}
Roles == LeadershipRoles \union {"MEMBER"}
Anyone == Customers \union {None}

RowType == [customer : Anyone, role : Roles, open : BOOLEAN]
RequestType == [kind : Kinds, status : Statuses, customer : Anyone, role : Roles]
ProposalType == [status : Statuses, members : Proposals \union {<<>>}, version : Nat]

Begun == Kinds \union {"lock", "unlock", "revert", "approve", "handle", "leave_role", "take_role"}
Ops == {"idle", "died", "approve_proposal", "create_group"} \union Begun

CallType == [op : Ops, n : Nat, customer : Anyone, value : Roles \union {""}]

TypeInv ==
    /\ group \in {"ABSENT", "ACTIVE", "PENDING"}
    /\ memberships \in [Rows -> RowType]
    /\ proposal \in ProposalType
    /\ requests \in [Requests -> RequestType]
    /\ customers \in [Customers -> {"DRAFT", "ACTIVE"}]
    /\ stale \in BOOLEAN

\* The group comes with the approval of its proposal, and nothing is asked of
\* it before.
BirthInv ==
    /\ proposal.status # "ABSENT" => proposal.members \in Proposals
    /\ proposal.status # "APPROVED" => group = "ABSENT"
    /\ group = "ABSENT" => /\ requests = [r \in Requests |-> NoRequest]
                           /\ memberships = [i \in Rows |-> NoRow]

\* A request that was raised names a customer, and so does a row.
NamedInv ==
    /\ \A r \in Requests : requests[r].status \notin {"ABSENT", "DELETED"} =>
          requests[r].customer \in Customers
    /\ \A i \in Rows : memberships[i] # NoRow => memberships[i].customer \in Customers

OneRowEach ==
    \A i, j \in OpenRows : memberships[i].customer = memberships[j].customer => i = j

OneHolder == \A role \in LeadershipRoles : \A i, j \in Holders(role) : i = j

RowsInv == OneRowEach /\ OneHolder /\ MembersWereApproved /\ MembersLeaveByDecision

DocsInv == TypeInv /\ BirthInv /\ NamedInv /\ RowsInv

\* A request that has had its first review.
Reviewed(r) == requests[r].status \notin {"ABSENT", "PENDING_REVIEW"}

\* What a call in flight may rely on, whatever happened since it read: of all
\* that a final approval validated, only what cannot be undone.
Fit(call) ==
    /\ call.op = "approve_proposal" =>
          /\ proposal.status # "ABSENT"
          /\ proposal.status # "APPROVED" =>
                /\ call.n <= proposal.version
                /\ call.n = proposal.version => Vetted(proposal.members)
    /\ call.op = "create_group" =>
          /\ group = "ABSENT" /\ proposal.status = "APPROVED"
          /\ stale \/ Vetted(proposal.members)
    /\ call.op \in Begun => group # "ABSENT"
    /\ call.op \in Kinds => call.customer \in Customers
    /\ call.op = "REASSIGN" => call.value \in Roles
    /\ call.op = "approve" =>
          /\ call.n \in Requests /\ Reviewed(call.n)
          /\ requests[call.n].status = "PENDING_APPROVAL" /\ requests[call.n].kind = "ADD" =>
                customers[requests[call.n].customer] # "DRAFT"
    /\ call.op = "handle" =>
          /\ call.n \in Requests /\ requests[call.n].status = "APPROVED"
          /\ requests[call.n].customer = call.customer
          /\ call.customer \in Customers /\ call.value \in Roles
          /\ requests[call.n].kind = "ADD" => customers[call.customer] # "DRAFT"
    /\ call.op \in {"leave_role", "take_role"} =>
          /\ call.customer \in Customers /\ call.value \in Roles
          /\ Approved("REASSIGN", call.customer)
    /\ call.op = "leave_role" =>
          call.n \in Rows /\ memberships[call.n].customer = call.customer

\* One call at most creates the group.
OneCreates ==
    \A c, d \in Calls : calls[c].op = "create_group" /\ calls[d].op = "create_group" => c = d

CallsInv ==
    /\ calls \in [Calls -> CallType]
    /\ \A c \in Calls : Fit(calls[c])
    /\ OneCreates

IInv == DocsInv /\ CallsInv

-----------------------------------------------------------------------------
\* What no step undoes.
Steady ==
    /\ group # "ABSENT" => group' # "ABSENT"
    /\ \A r \in Requests : Reviewed(r) =>
          Reviewed(r)' /\ (requests'[r] = requests[r] \/ requests'[r].status # "PENDING_APPROVAL")
    /\ \A r \in Requests : requests[r].status = "APPROVED" => requests'[r] = requests[r]
    /\ \A x \in Customers : customers[x] = "ACTIVE" => customers'[x] = "ACTIVE"
    /\ \A i \in Rows : memberships[i] # NoRow =>
          memberships'[i].customer = memberships[i].customer
    /\ proposal.status # "ABSENT" => proposal'.status # "ABSENT"
    /\ proposal.status = "APPROVED" => proposal' = proposal /\ stale' = stale
    /\ proposal'.status # "APPROVED" =>
          /\ proposal.version <= proposal'.version /\ proposal'.version \in Nat
          /\ proposal.version = proposal'.version => proposal'.members = proposal.members

LEMMA ApprovedKept ==
    ASSUME Steady, NEW kind, NEW x, Approved(kind, x)
    PROVE  Approved(kind, x)'
BY DEF Steady, Approved

LEMMA VettedKept ==
    ASSUME IInv, Steady, NEW s \in Proposals, Vetted(s)
    PROVE  Vetted(s)'
BY DEF Vetted, Steady, Proposals

\* What a call relies on survives every step but the creation of the group.
LEMMA FitKept ==
    ASSUME IInv, Steady, NEW k \in CallType, Fit(k),
           k.op = "create_group" => group' = "ABSENT"
    PROVE  Fit(k)'
<1>1. ASSUME k.op = "approve_proposal"
      PROVE  /\ proposal'.status # "ABSENT"
             /\ proposal'.status # "APPROVED" =>
                  /\ k.n <= proposal'.version
                  /\ k.n = proposal'.version => Vetted(proposal.members)'
  <2>1. /\ proposal.status # "ABSENT" /\ proposal.members \in Proposals
        /\ proposal.status # "APPROVED" =>
              /\ k.n <= proposal.version
              /\ k.n = proposal.version => Vetted(proposal.members)
    BY <1>1 DEF Fit, IInv, DocsInv, BirthInv
  <2>2. proposal.version \in Nat /\ k.n \in Nat
    BY DEF IInv, DocsInv, TypeInv, ProposalType, CallType
  <2>3. PICK s \in Proposals : s = proposal.members
    BY <2>1
  <2>4. CASE proposal'.status # "APPROVED"
    <3>1. /\ proposal.status # "APPROVED" /\ proposal.version <= proposal'.version
          /\ proposal'.version \in Nat
          /\ proposal.version = proposal'.version => proposal'.members = s
      BY <2>3, <2>4 DEF Steady
    <3>2. CASE k.n = proposal'.version /\ proposal'.version = proposal.version
      <4>1. Vetted(s)'
        BY <2>1, <2>3, <3>1, <3>2, VettedKept
      <4>2. Vetted(proposal.members)'
        BY <3>1, <3>2, <4>1 DEF Vetted
      <4>. QED  BY <2>1, <3>1, <3>2, <4>2 DEF Steady
    <3>3. CASE proposal'.version = proposal.version /\ k.n # proposal'.version
      BY <2>1, <2>2, <3>1, <3>3 DEF Steady
    <3>4. CASE proposal'.version # proposal.version
      <4>1. k.n <= proposal'.version /\ k.n # proposal'.version
        BY <2>1, <2>2, <3>1, <3>4
      <4>. QED  BY <2>1, <4>1 DEF Steady
    <3>. QED  BY <3>2, <3>3, <3>4
  <2>. QED  BY <2>1, <2>4 DEF Steady
<1>2. ASSUME k.op = "create_group"
      PROVE  /\ group' = "ABSENT" /\ proposal'.status = "APPROVED"
             /\ stale' \/ Vetted(proposal.members)'
  <2>1. proposal' = proposal /\ stale' = stale /\ proposal.members \in Proposals
    BY <1>2 DEF Fit, Steady, IInv, DocsInv, BirthInv
  <2>2. PICK s \in Proposals : s = proposal.members
    BY <2>1
  <2>3. Vetted(s) => Vetted(s)'
    BY VettedKept
  <2>. QED  BY <1>2, <2>1, <2>2, <2>3 DEF Fit, Vetted
<1>3. ASSUME k.op = "approve"
      PROVE  /\ k.n \in Requests /\ Reviewed(k.n)'
             /\ requests'[k.n].status = "PENDING_APPROVAL" /\ requests'[k.n].kind = "ADD" =>
                   customers'[requests'[k.n].customer] # "DRAFT"
  <2>1. PICK r \in Requests : r = k.n /\ Reviewed(r)
    BY <1>3 DEF Fit
  <2>2. Reviewed(r)'
    BY <2>1 DEF Steady
  <2>3. ASSUME requests'[r].status = "PENDING_APPROVAL", requests'[r].kind = "ADD"
        PROVE  customers'[requests'[r].customer] # "DRAFT"
    <3>1. requests'[r] = requests[r]
      BY <2>1, <2>3 DEF Steady
    <3>2. requests[r].customer \in Customers
      BY <2>3, <3>1 DEF IInv, DocsInv, NamedInv
    <3>3. customers[requests[r].customer] = "ACTIVE"
      BY <1>3, <2>1, <2>3, <3>1, <3>2 DEF Fit, IInv, DocsInv, TypeInv
    <3>. QED  BY <3>1, <3>2, <3>3 DEF Steady
  <2>. QED  BY <2>1, <2>2, <2>3 DEF Reviewed
<1>4. ASSUME k.op = "handle"
      PROVE  /\ requests'[k.n] = requests[k.n]
             /\ requests[k.n].kind = "ADD" => customers'[k.customer] # "DRAFT"
  BY <1>4 DEF Fit, Steady, IInv, DocsInv, TypeInv
<1>5. k.op \in {"leave_role", "take_role"} => Approved("REASSIGN", k.customer)'
  BY ApprovedKept DEF Fit
<1>6. ASSUME k.op = "leave_role"
      PROVE  memberships'[k.n].customer = k.customer
  BY <1>6, GroupConstants DEF Fit, Steady, NoRow
<1>7. k.op \in Begun => group' # "ABSENT"
  BY DEF Fit, Steady
<1>. QED  BY <1>1, <1>2, <1>3, <1>4, <1>5, <1>6, <1>7 DEF Fit

\* A step of one call.
LEMMA CallsKept ==
    ASSUME IInv, Steady, NEW c \in Calls, NEW k \in CallType,
           calls' = [calls EXCEPT ![c] = k], Fit(calls[c])',
           \A d \in Calls \ {c} : calls[d].op = "create_group" =>
              group' = "ABSENT" /\ k.op # "create_group"
    PROVE  CallsInv'
<1>1. /\ calls' \in [Calls -> CallType]
      /\ calls'[c] = k
      /\ \A d \in Calls \ {c} : calls'[d] = calls[d]
  BY DEF IInv, CallsInv
<1>2. ASSUME NEW d \in Calls \ {c}
      PROVE  Fit(calls[d])'
  <2>1. PICK m \in CallType : m = calls[d] /\ Fit(m)
    BY DEF IInv, CallsInv
  <2>2. Fit(m)'
    BY <2>1, FitKept
  <2>. QED  BY <1>1, <2>1, <2>2
<1>3. OneCreates'
  BY <1>1 DEF IInv, CallsInv, OneCreates
<1>. QED  BY <1>1, <1>2, <1>3 DEF CallsInv

\* A step of none.
LEMMA CallsStay ==
    ASSUME IInv, Steady, UNCHANGED <<calls, group>>
    PROVE  CallsInv'
<1>1. ASSUME NEW d \in Calls
      PROVE  Fit(calls[d])'
  <2>1. PICK m \in CallType : m = calls[d] /\ Fit(m)
    BY DEF IInv, CallsInv
  <2>2. m.op = "create_group" => group' = "ABSENT"
    BY <2>1 DEF Fit
  <2>3. Fit(m)'
    BY <2>1, <2>2, FitKept
  <2>. QED  BY <2>1, <2>3
<1>. QED  BY <1>1 DEF IInv, CallsInv, OneCreates

LEMMA CallTypes ==
    ASSUME NEW op \in Ops, NEW n \in Nat, NEW x \in Anyone, NEW v \in Roles \union {""}
    PROVE  Call(op, n, x, v) \in CallType
BY DEF Call, CallType


LEMMA InitInv == Init => IInv
<1>. SUFFICES ASSUME Init PROVE IInv
  OBVIOUS
<1>1. NoRow \in RowType /\ NoRequest \in RequestType /\ Idle \in CallType /\ Idle.op = "idle"
  <2>1. NoRow \in RowType
    BY DEF NoRow, RowType, Roles, Anyone
  <2>2. NoRequest \in RequestType
    BY DEF NoRequest, RequestType, Roles, Anyone, Kinds, Statuses
  <2>3. Idle \in CallType /\ Idle.op = "idle"
    BY CallTypes DEF Idle, Ops, Anyone, Call
  <2>. QED  BY <2>1, <2>2, <2>3
<1>2. TypeInv
  BY <1>1 DEF Init, TypeInv, ProposalType, Statuses
<1>3. BirthInv /\ NamedInv
  BY DEF Init, BirthInv, NamedInv, NoRequest
<1>4. RowsInv
  BY DEF Init, RowsInv, OneRowEach, OneHolder, MembersWereApproved, MembersLeaveByDecision,
         Members, Holders, OpenRows, NoRow
<1>5. CallsInv
  BY <1>1 DEF Init, CallsInv, Fit, OneCreates, Begun, Kinds
<1>. QED  BY <1>2, <1>3, <1>4, <1>5 DEF IInv, DocsInv

-----------------------------------------------------------------------------
\* A step that writes no row.
LEMMA RowsKept ==
    ASSUME IInv, Steady, UNCHANGED <<memberships, stale>>
    PROVE  RowsInv'
<1>1. Members' = Members /\ OpenRows' = OpenRows /\ \A r : Holders(r)' = Holders(r)
  BY DEF Members, OpenRows, Holders
<1>2. OneRowEach' /\ OneHolder'
  BY <1>1 DEF IInv, DocsInv, RowsInv, OneRowEach, OneHolder
<1>3. \A x : Approved("REASSIGN", x) => Approved("REASSIGN", x)'
  BY ApprovedKept
<1>4. \A x : Approved("REMOVE", x) => Approved("REMOVE", x)'
  BY ApprovedKept
<1>5. MembersWereApproved'
  <2>1. ASSUME NEW x \in Members
        PROVE  customers'[x] # "DRAFT" \/ Approved("REASSIGN", x)' \/ stale'
    <3>1. x \in Customers
      BY DEF Members, OpenRows, NoRow, IInv, DocsInv, NamedInv
    <3>2. customers[x] # "DRAFT" => customers'[x] # "DRAFT"
      BY <3>1 DEF Steady, IInv, DocsInv, TypeInv
    <3>3. customers[x] # "DRAFT" \/ Approved("REASSIGN", x) \/ stale
      BY DEF IInv, DocsInv, RowsInv, MembersWereApproved
    <3>. QED  BY <1>3, <3>2, <3>3
  <2>. QED  BY <1>1, <2>1 DEF MembersWereApproved
<1>6. MembersLeaveByDecision'
  BY <1>1, <1>3, <1>4 DEF IInv, DocsInv, RowsInv, MembersLeaveByDecision
<1>. QED  BY <1>2, <1>5, <1>6 DEF RowsInv

\* A step that writes neither a row nor the requests, nor brings the group about.
LEMMA DocsKept ==
    ASSUME IInv, Steady, UNCHANGED <<memberships, stale, requests>>,
           TypeInv', group' = group \/ group # "ABSENT",
           proposal'.status # "ABSENT" => proposal'.members \in Proposals,
           proposal'.status # "APPROVED" => proposal.status # "APPROVED"
    PROVE  DocsInv'
<1>1. BirthInv'
  BY DEF IInv, DocsInv, BirthInv, Steady
<1>2. NamedInv'
  BY DEF IInv, DocsInv, NamedInv
<1>. QED  BY <1>1, <1>2, RowsKept DEF DocsInv

\* A step that writes no document but for the state of the group.
LEMMA QuietSteady ==
    ASSUME IInv, UNCHANGED <<memberships, stale, requests, proposal, customers>>,
           group' \in {"ABSENT", "ACTIVE", "PENDING"},
           group' = group \/ (group # "ABSENT" /\ group' # "ABSENT")
    PROVE  DocsInv' /\ Steady
<1>1. TypeInv'
  BY DEF IInv, DocsInv, TypeInv
<1>2. Steady
  BY DEF Steady, IInv, DocsInv, TypeInv, ProposalType, Reviewed
<1>3. \/ proposal'.status = "ABSENT"
      \/ proposal'.members \in Proposals
  BY DEF IInv, DocsInv, BirthInv
<1>. QED  BY <1>1, <1>2, <1>3, DocsKept

\* A call that ends, or dies.
LEMMA EndInv ==
    ASSUME IInv, NEW c \in Calls, DocsInv', Steady,
           calls' = [calls EXCEPT ![c] = Idle] \/ calls' = [calls EXCEPT ![c] = Died],
           \A d \in Calls \ {c} : calls[d].op = "create_group" => group' = "ABSENT"
    PROVE  IInv'
<1>1. PICK k \in CallType : k.op \in {"idle", "died"} /\ calls' = [calls EXCEPT ![c] = k]
  <2>1. Idle \in CallType /\ Idle.op = "idle" /\ Died \in CallType /\ Died.op = "died"
    BY CallTypes DEF Idle, Died, Ops, Anyone, Call
  <2>. QED  BY <2>1
<1>2. calls'[c] = k
  BY <1>1 DEF IInv, CallsInv
<1>3. Fit(calls[c])'
  BY <1>1, <1>2 DEF Fit, Begun, Kinds
<1>. QED  BY <1>1, <1>3, CallsKept DEF IInv

\* A call that begins relies on what it has just read.
LEMMA EnterInv ==
    ASSUME IInv, NEW c \in Calls, NEW k \in CallType, Enter(c, k), Fit(k),
           k.op # "create_group"
    PROVE  IInv'
<1>1. /\ UNCHANGED <<group, memberships, proposal, requests, customers, stale>>
      /\ calls' = [calls EXCEPT ![c] = k]
  BY DEF Enter, Continue
<1>2. DocsInv' /\ Steady
  BY <1>1, QuietSteady DEF IInv, DocsInv, TypeInv
<1>3. Fit(k)'
  BY <1>1, <1>2, FitKept
<1>4. Fit(calls[c])'
  <2>1. calls'[c] = k
    BY <1>1 DEF IInv, CallsInv
  <2>. QED  BY <1>3, <2>1
<1>5. \A d \in Calls : calls[d].op = "create_group" => group' = "ABSENT"
  BY <1>1 DEF IInv, CallsInv, Fit
<1>. QED  BY <1>1, <1>2, <1>4, <1>5, CallsKept DEF IInv

\* The calls that begin with what they read.
LEMMA ReadInv ==
    ASSUME IInv, NEW c \in Calls,
           \/ \E x \in Customers : \/ AdditionRead(c, x) \/ RemovalRead(c, x)
                                   \/ \E role \in LeadershipRoles : ReassignRead(c, x, role)
           \/ \E r \in Requests : ApproveRead(c, r)
           \/ ApproveProposalRead(c)
    PROVE  IInv'
<1>1. ASSUME NEW x \in Customers, NEW op \in Kinds, NEW v \in Roles \union {""},
             op = "REASSIGN" => v \in Roles, Enter(c, Call(op, 0, x, v)), group = "ACTIVE"
      PROVE  IInv'
  <2>1. Call(op, 0, x, v) \in CallType
    BY CallTypes DEF Ops, Begun, Anyone
  <2>2. Fit(Call(op, 0, x, v))
    BY <1>1 DEF Call, Fit, Kinds
  <2>3. Call(op, 0, x, v).op = op
    BY DEF Call
  <2>. QED  BY <1>1, <2>1, <2>2, <2>3, EnterInv DEF Kinds
<1>2. ASSUME NEW r \in Requests, ApproveRead(c, r)
      PROVE  IInv'
  <2>1. Call("approve", r, None, "") \in CallType
    <3>1. r \in Nat
      BY GroupConstants DEF Requests
    <3>. QED  BY <3>1, CallTypes DEF Ops, Begun, Anyone
  <2>2. group # "ABSENT" /\ Reviewed(r)
    <3>1. requests[r].status = "PENDING_APPROVAL"
      BY <1>2 DEF ApproveRead
    <3>2. requests[r] # NoRequest
      BY <3>1 DEF NoRequest
    <3>. QED  BY <3>1, <3>2 DEF IInv, DocsInv, BirthInv, Reviewed
  <2>3. Fit(Call("approve", r, None, ""))
    BY <1>2, <2>2 DEF ApproveRead, Call, Fit, Kinds
  <2>4. Call("approve", r, None, "").op = "approve"
    BY DEF Call
  <2>. QED  BY <1>2, <2>1, <2>3, <2>4, EnterInv DEF ApproveRead
<1>3. ASSUME ApproveProposalRead(c)
      PROVE  IInv'
  <2>1. Call("approve_proposal", proposal.version, None, "") \in CallType
    BY CallTypes DEF Ops, Anyone, IInv, DocsInv, TypeInv, ProposalType
  <2>2. Fit(Call("approve_proposal", proposal.version, None, ""))
    <3>1. proposal.version \in Nat
      BY DEF IInv, DocsInv, TypeInv, ProposalType
    <3>2. proposal.status = "PENDING_APPROVAL" /\ Vetted(proposal.members)
      BY <1>3 DEF ApproveProposalRead
    <3>3. /\ Call("approve_proposal", proposal.version, None, "").op = "approve_proposal"
          /\ Call("approve_proposal", proposal.version, None, "").n = proposal.version
      BY DEF Call
    <3>4. PICK k \in CallType : /\ k = Call("approve_proposal", proposal.version, None, "")
                                /\ k.op = "approve_proposal" /\ k.n = proposal.version
      BY <2>1, <3>3
    <3>5. Fit(k)
      <4>1. k.op \notin Begun /\ k.op \notin Kinds
        BY <3>4 DEF Begun, Kinds
      <4>2. k.op = "approve_proposal" /\ k.n = proposal.version
        BY <3>4
      <4>3. k.n <= proposal.version
        BY <3>1, <4>2
      <4>. QED  BY <3>2, <4>1, <4>2, <4>3 DEF Fit
    <3>. QED  BY <3>4, <3>5
  <2>3. Call("approve_proposal", proposal.version, None, "").op = "approve_proposal"
    BY DEF Call
  <2>. QED  BY <1>3, <2>1, <2>2, <2>3, EnterInv DEF ApproveProposalRead
<1>. QED  BY <1>1, <1>2, <1>3 DEF AdditionRead, RemovalRead, ReassignRead, Kinds, Roles

-----------------------------------------------------------------------------
\* The steps of the proposal that no call remembers.
LEMMA ProposalInv ==
    ASSUME IInv, UNCHANGED <<group, memberships, requests, customers, calls, stale>>,
           proposal' \in ProposalType,
           proposal.status # "APPROVED" /\ proposal'.status \notin {"APPROVED", "ABSENT"},
           proposal'.members \in Proposals,
           \/ proposal'.version > proposal.version
           \/ proposal'.version = proposal.version /\ proposal'.members = proposal.members
    PROVE  IInv'
<1>1. TypeInv'
  BY DEF IInv, DocsInv, TypeInv
<1>2. Steady
  BY DEF Steady, IInv, DocsInv, TypeInv, ProposalType, Reviewed
<1>3. DocsInv'
  BY <1>1, <1>2, DocsKept
<1>. QED  BY <1>2, <1>3, CallsStay DEF IInv

LEMMA SubmitInv ==
    ASSUME IInv, InitiateCreation \/ UpdateProposal \/ ReviseAndResubmit
    PROVE  IInv'
<1>1. PICK s \in Proposals : Submit(s) /\ proposal.status # "APPROVED"
  BY DEF InitiateCreation, UpdateProposal, ReviseAndResubmit
<1>2. PICK n \in Nat : n = proposal.version + 1 /\ n > proposal.version
  BY DEF IInv, DocsInv, TypeInv, ProposalType
<1>3. proposal' = [status |-> "PENDING_REVIEW", members |-> s, version |-> n]
  BY <1>1, <1>2 DEF Submit
<1>4. /\ proposal' \in ProposalType
      /\ proposal'.status = "PENDING_REVIEW" /\ proposal'.members = s /\ proposal'.version = n
  BY <1>3 DEF ProposalType, Statuses
<1>. QED  BY <1>1, <1>2, <1>4, ProposalInv DEF Submit

LEMMA SetProposalInv ==
    ASSUME IInv, ReviewProposal \/ WithdrawProposal
    PROVE  IInv'
<1>1. PICK st \in Statuses : /\ SetProposal(st)
                             /\ st \notin {"ABSENT", "APPROVED"}
                             /\ proposal.status \notin {"ABSENT", "APPROVED"}
  BY DEF ReviewProposal, WithdrawProposal, Statuses
<1>2. proposal \in ProposalType /\ proposal.members \in Proposals
  BY <1>1 DEF IInv, DocsInv, TypeInv, BirthInv
<1>3. /\ proposal' \in ProposalType
      /\ proposal'.status = st /\ proposal'.members = proposal.members
      /\ proposal'.version = proposal.version
  BY <1>1, <1>2 DEF SetProposal, ProposalType
<1>. QED  BY <1>1, <1>2, <1>3, ProposalInv DEF SetProposal

\* The final approval: the payload it validated, or stale.
LEMMA ApproveProposalInv ==
    ASSUME IInv, NEW c \in Calls, ApproveProposal(c)
    PROVE  IInv'
<1>1. UNCHANGED <<group, memberships, requests, customers>>
  BY DEF ApproveProposal
<1>2. CASE proposal.status # "PENDING_APPROVAL"
  <2>1. UNCHANGED <<proposal, stale>> /\ calls' = [calls EXCEPT ![c] = Idle]
    BY <1>2 DEF ApproveProposal, Continue
  <2>2. DocsInv' /\ Steady
    BY <1>1, <2>1, QuietSteady DEF IInv, DocsInv, TypeInv
  <2>3. \A d \in Calls : calls[d].op = "create_group" => group' = "ABSENT"
    BY <1>1 DEF IInv, CallsInv, Fit
  <2>. QED  BY <2>1, <2>2, <2>3, EndInv
<1>3. CASE proposal.status = "PENDING_APPROVAL"
  <2>1. PICK n \in Nat : n = calls[c].n
    BY DEF IInv, CallsInv, CallType
  <2>2. /\ proposal' = [proposal EXCEPT !.status = "APPROVED", !.version = 0]
        /\ stale' = (proposal.version # n)
        /\ calls' = [calls EXCEPT ![c] = Call("create_group", 0, None, "")]
    BY <1>3, <2>1 DEF ApproveProposal, Continue
  <2>3. PICK s \in Proposals : s = proposal.members
    BY <1>3 DEF IInv, DocsInv, BirthInv
  <2>4. proposal' \in ProposalType /\ proposal'.status = "APPROVED" /\ proposal'.members = s
    BY <2>2, <2>3 DEF IInv, DocsInv, TypeInv, ProposalType, Statuses
  <2>5. group = "ABSENT" /\ memberships = [i \in Rows |-> NoRow]
    BY <1>3 DEF IInv, DocsInv, BirthInv
  <2>6. stale' \/ Vetted(s)
    BY <1>3, <2>1, <2>2, <2>3 DEF ApproveProposal, At, IInv, CallsInv, Fit
  <2>7. Steady
    BY <1>1, <1>3, <2>4 DEF Steady, Reviewed
  <2>8. DocsInv'
    <3>1. TypeInv'
      BY <1>1, <2>2, <2>4 DEF IInv, DocsInv, TypeInv
    <3>2. BirthInv' /\ NamedInv'
      BY <1>1, <2>4 DEF IInv, DocsInv, BirthInv, NamedInv
    <3>3. memberships' = [i \in Rows |-> NoRow] => RowsInv'
      BY DEF RowsInv, OneRowEach, OneHolder, MembersWereApproved, MembersLeaveByDecision,
             Members, Holders, OpenRows, NoRow
    <3>. QED  BY <1>1, <2>5, <3>1, <3>2, <3>3 DEF DocsInv
  <2>9. PICK k \in CallType : k = Call("create_group", 0, None, "") /\ k.op = "create_group"
    <3>1. Call("create_group", 0, None, "") \in CallType
      BY CallTypes DEF Ops, Anyone
    <3>2. Call("create_group", 0, None, "").op = "create_group"
      BY DEF Call
    <3>. QED  BY <3>1, <3>2
  <2>10. calls'[c] = k
    BY <2>2, <2>9 DEF IInv, CallsInv
  <2>11. Fit(calls[c])'
    <3>1. Vetted(s) => Vetted(s)'
      BY <2>7, VettedKept
    <3>2. group' = "ABSENT"
      BY <1>1, <2>5
    <3>3. stale' \/ Vetted(proposal.members)'
      BY <2>4, <2>6, <3>1 DEF Vetted
    <3>. QED  BY <2>4, <2>9, <2>10, <3>2, <3>3 DEF Fit, Begun, Kinds
  <2>12. \A d \in Calls : calls[d].op # "create_group"
    BY <1>3 DEF IInv, CallsInv, Fit
  <2>. QED  BY <2>2, <2>7, <2>8, <2>9, <2>11, <2>12, CallsKept DEF IInv
<1>. QED  BY <1>2, <1>3

-----------------------------------------------------------------------------
LEMMA LeadersDiffer ==
    ASSUME NEW i \in Nat \ {0}, NEW j \in Nat \ {0},
           RoleForProposedIndex(i) = RoleForProposedIndex(j),
           RoleForProposedIndex(i) \in LeadershipRoles
    PROVE  i = j
<1>1. \A n \in Nat \ {0} : n <= 3 => n = 1 \/ n = 2 \/ n = 3
  OBVIOUS
<1>2. /\ RoleForProposedIndex(1) = "GROUP_HEAD"
      /\ RoleForProposedIndex(2) = "GROUP_HEAD_ASSISTANT"
      /\ RoleForProposedIndex(3) = "COORDINATOR"
  BY DEF RoleForProposedIndex
<1>3. \A n \in Nat \ {0} : ~(n <= 3) => RoleForProposedIndex(n) = "MEMBER"
  BY DEF RoleForProposedIndex
<1>4. "MEMBER" \notin LeadershipRoles
  BY DEF LeadershipRoles
<1>5. i <= 3 /\ j <= 3
  BY <1>3, <1>4
<1>6. (i = 1 \/ i = 2 \/ i = 3) /\ (j = 1 \/ j = 2 \/ j = 3)
  BY <1>1, <1>5
<1>. QED  BY <1>2, <1>6

LEMMA CreateGroupInv ==
    ASSUME IInv, NEW c \in Calls, CreateGroup(c)
    PROVE  IInv'
<1>1. /\ group' = "ACTIVE"
      /\ UNCHANGED <<proposal, requests, customers, stale>>
      /\ calls' = [calls EXCEPT ![c] = Idle]
  BY DEF CreateGroup, Continue
<1>2. /\ group = "ABSENT" /\ proposal.status = "APPROVED"
      /\ stale \/ Vetted(proposal.members)
  BY DEF CreateGroup, At, IInv, CallsInv, Fit
<1>3. PICK s \in Proposals : s = proposal.members
  BY <1>2 DEF IInv, DocsInv, BirthInv
<1>4. /\ s \in [1..Founders -> Customers]
      /\ \A i, j \in 1..Founders : s[i] = s[j] => i = j
  BY DEF Proposals, IsInjective
<1>5. 1..Founders \subseteq Rows /\ 1..Founders \subseteq Nat \ {0}
  BY GroupConstants DEF Rows
<1>6. /\ \A i \in 1..Founders : /\ memberships'[i].customer = s[i] /\ memberships'[i].open
                                /\ memberships'[i].role = RoleForProposedIndex(i)
                                /\ memberships'[i] = Row(s[i], RoleForProposedIndex(i))
      /\ \A i \in Rows \ 1..Founders : memberships'[i] = NoRow
  <2>1. memberships' = [i \in Rows |-> IF i \in 1..Founders
                                       THEN Row(s[i], RoleForProposedIndex(i)) ELSE NoRow]
    BY <1>3 DEF CreateGroup
  <2>. QED  BY <1>5, <2>1 DEF Row
<1>7. \A i \in 1..Founders : RoleForProposedIndex(i) \in Roles
  <2>1. ASSUME NEW i \in 1..Founders, i <= 3
        PROVE  RoleForProposedIndex(i) \in Roles
    <3>1. i = 1 \/ i = 2 \/ i = 3
      BY <1>5, <2>1
    <3>. QED  BY <2>1, <3>1 DEF RoleForProposedIndex, Roles, LeadershipRoles
  <2>2. ASSUME NEW i \in 1..Founders, ~(i <= 3)
        PROVE  RoleForProposedIndex(i) \in Roles
    BY <2>2 DEF RoleForProposedIndex, Roles
  <2>. QED  BY <2>1, <2>2
<1>8. TypeInv'
  <2>1. NoRow \in RowType
    BY DEF NoRow, RowType, Roles, Anyone
  <2>2. \A i \in 1..Founders : Row(s[i], RoleForProposedIndex(i)) \in RowType
    BY <1>4, <1>7 DEF Row, RowType, Anyone
  <2>3. memberships' = [i \in Rows |-> memberships'[i]]
    BY DEF CreateGroup
  <2>4. memberships' \in [Rows -> RowType]
    BY <1>6, <2>1, <2>2, <2>3
  <2>. QED  BY <1>1, <2>4 DEF IInv, DocsInv, TypeInv
<1>9. OpenRows' = 1..Founders
  BY <1>5, <1>6 DEF OpenRows, NoRow
<1>10. RowsInv'
  <2>1. OneRowEach'
    BY <1>4, <1>6, <1>9 DEF OneRowEach
  <2>2. OneHolder'
    BY <1>5, <1>6, <1>9, LeadersDiffer DEF OneHolder, Holders
  <2>3. MembersWereApproved'
    <3>1. ASSUME NEW x \in Members', ~stale'
          PROVE  customers'[x] # "DRAFT"
      <4>1. PICK i \in 1..Founders : x = s[i]
        BY <1>6, <1>9 DEF Members
      <4>2. customers[s[i]] = "ACTIVE"
        BY <1>1, <1>2, <1>3, <3>1 DEF Vetted
      <4>. QED  BY <1>1, <4>1, <4>2
    <3>. QED  BY <3>1 DEF MembersWereApproved
  <2>4. MembersLeaveByDecision'
    BY <1>6, <1>9 DEF MembersLeaveByDecision, Members
  <2>. QED  BY <2>1, <2>2, <2>3, <2>4 DEF RowsInv
<1>11. BirthInv'
  BY <1>1, <1>2 DEF IInv, DocsInv, BirthInv
<1>12. NamedInv'
  BY <1>1, <1>4, <1>6 DEF IInv, DocsInv, NamedInv
<1>13. Steady
  <2>1. \A i \in Rows : memberships[i] = NoRow
    BY <1>2 DEF IInv, DocsInv, BirthInv
  <2>. QED  BY <1>1, <1>2, <2>1 DEF Steady, Reviewed
<1>14. \A d \in Calls \ {c} : calls[d].op # "create_group"
  BY DEF CreateGroup, At, IInv, CallsInv, OneCreates
<1>. QED  BY <1>1, <1>8, <1>10, <1>11, <1>12, <1>13, <1>14, EndInv DEF DocsInv

-----------------------------------------------------------------------------
\* One request is written: what was approved stays, and what was reviewed does
\* not go back.
LEMMA RequestStep ==
    ASSUME IInv, NEW r \in Requests, NEW req \in RequestType, group # "ABSENT",
           requests' = [requests EXCEPT ![r] = req],
           UNCHANGED <<group, memberships, proposal, customers, stale>>,
           requests[r].status # "APPROVED", req.status # "ABSENT",
           Reviewed(r) => req.status \notin {"PENDING_REVIEW", "PENDING_APPROVAL"},
           req.status # "DELETED" => req.customer \in Customers
    PROVE  DocsInv' /\ Steady
<1>1. \A q \in Requests : requests'[q] = IF q = r THEN req ELSE requests[q]
  BY DEF IInv, DocsInv, TypeInv
<1>2. Steady
  BY <1>1 DEF Steady, Reviewed, IInv, DocsInv, TypeInv, ProposalType
<1>3. TypeInv' /\ BirthInv'
  BY DEF IInv, DocsInv, TypeInv, BirthInv
<1>4. NamedInv'
  BY <1>1 DEF IInv, DocsInv, NamedInv
<1>. QED  BY <1>2, <1>3, <1>4, RowsKept DEF DocsInv

\* A row is inserted that clashes with none.
LEMMA InsertStep ==
    ASSUME IInv, NEW row \in RowType, Insert(row), ~Clashes(row), group # "ABSENT",
           UNCHANGED <<group, requests, proposal, customers, stale>>,
           row.open, row.customer \in Customers,
           customers[row.customer] # "DRAFT" \/ Approved("REASSIGN", row.customer)
    PROVE  DocsInv' /\ Steady
<1>1. PICK i \in Rows : memberships[i] = NoRow /\ memberships' = [memberships EXCEPT ![i] = row]
  BY DEF Insert, Unused
<1>2. \A j \in Rows : memberships'[j] = IF j = i THEN row ELSE memberships[j]
  BY <1>1 DEF IInv, DocsInv, TypeInv
<1>3. OpenRows' = OpenRows \union {i} /\ i \notin OpenRows
  BY <1>1, <1>2 DEF OpenRows, NoRow
<1>4. Members' = Members \union {row.customer}
  BY <1>2, <1>3 DEF Members, OpenRows
<1>5. Steady
  BY <1>1, <1>2 DEF Steady, Reviewed, IInv, DocsInv, TypeInv, ProposalType
<1>6. \A x, kind : Approved(kind, x)' <=> Approved(kind, x)
  BY DEF Approved
<1>7. OneRowEach'
  BY <1>2, <1>3 DEF IInv, DocsInv, RowsInv, OneRowEach, Clashes, RowOf, OpenRows
<1>8. OneHolder'
  BY <1>2, <1>3 DEF IInv, DocsInv, RowsInv, OneHolder, Clashes, Holders, OpenRows
<1>9. MembersWereApproved'
  BY <1>4, <1>6 DEF IInv, DocsInv, RowsInv, MembersWereApproved
<1>10. MembersLeaveByDecision'
  BY <1>2, <1>4, <1>6 DEF IInv, DocsInv, RowsInv, MembersLeaveByDecision
<1>11. TypeInv' /\ BirthInv' /\ NamedInv'
  BY <1>1, <1>2 DEF IInv, DocsInv, TypeInv, BirthInv, NamedInv
<1>. QED  BY <1>5, <1>7, <1>8, <1>9, <1>10, <1>11 DEF DocsInv, RowsInv

\* A row is closed that was decided upon.
LEMMA CloseStep ==
    ASSUME IInv, NEW i \in Rows, group # "ABSENT",
           memberships' = [memberships EXCEPT ![i].open = FALSE],
           UNCHANGED <<group, requests, proposal, customers, stale>>,
           memberships[i].customer \in Customers,
           \/ Approved("REMOVE", memberships[i].customer)
           \/ Approved("REASSIGN", memberships[i].customer)
    PROVE  DocsInv' /\ Steady
<1>1. PICK k \in RowType : k = memberships[i]
  BY DEF IInv, DocsInv, TypeInv
<1>2. PICK row \in RowType : /\ row = [k EXCEPT !.open = FALSE]
                             /\ row.customer = k.customer /\ row.role = k.role /\ ~row.open
  <2>1. /\ [k EXCEPT !.open = FALSE] \in RowType
        /\ [k EXCEPT !.open = FALSE].customer = k.customer
        /\ [k EXCEPT !.open = FALSE].role = k.role
        /\ ~[k EXCEPT !.open = FALSE].open
    BY DEF RowType
  <2>. QED  BY <2>1
<1>3. memberships' = [memberships EXCEPT ![i] = row]
  BY <1>1, <1>2 DEF IInv, DocsInv, TypeInv
<1>4. \A j \in Rows : memberships'[j] = IF j = i THEN row ELSE memberships[j]
  BY <1>3 DEF IInv, DocsInv, TypeInv
<1>5. \A j \in Rows : /\ memberships'[j].customer = memberships[j].customer
                      /\ memberships'[j].role = memberships[j].role
  BY <1>1, <1>2, <1>4
<1>6. OpenRows' = OpenRows \ {i}
  BY <1>2, <1>4 DEF OpenRows
<1>7. Steady
  BY <1>5 DEF Steady, Reviewed, IInv, DocsInv, TypeInv, ProposalType
<1>8. \A x, kind : Approved(kind, x)' <=> Approved(kind, x)
  BY DEF Approved
<1>9. OneRowEach' /\ OneHolder'
  BY <1>5, <1>6 DEF IInv, DocsInv, RowsInv, OneRowEach, OneHolder, Holders, OpenRows
<1>10. Members' \subseteq Members /\ Members \subseteq Members' \union {memberships[i].customer}
  BY <1>5, <1>6 DEF Members, OpenRows
<1>11. MembersWereApproved'
  BY <1>8, <1>10 DEF IInv, DocsInv, RowsInv, MembersWereApproved
<1>12. MembersLeaveByDecision'
  BY <1>1, <1>4, <1>5, <1>8, <1>10, GroupConstants
     DEF IInv, DocsInv, RowsInv, MembersLeaveByDecision, NoRow
<1>13. TypeInv' /\ BirthInv'
  BY <1>3 DEF IInv, DocsInv, TypeInv, BirthInv
<1>14. NamedInv'
  BY <1>4, <1>5 DEF IInv, DocsInv, NamedInv
<1>. QED  BY <1>7, <1>9, <1>11, <1>12, <1>13, <1>14 DEF DocsInv, RowsInv

\* While a call is under way in a group, no call is to create it.
LEMMA UnderWay ==
    ASSUME IInv, group # "ABSENT"
    PROVE  \A d \in Calls : calls[d].op # "create_group"
BY DEF IInv, CallsInv, Fit

LEMMA BegunInGroup ==
    ASSUME IInv, NEW c \in Calls, calls[c].op \in Begun
    PROVE  group # "ABSENT"
BY DEF IInv, CallsInv, Fit

\* A call goes on within the group.
LEMMA MoveInv ==
    ASSUME IInv, NEW c \in Calls, NEW k \in CallType, calls' = [calls EXCEPT ![c] = k],
           DocsInv', Steady, group # "ABSENT", Fit(k)'
    PROVE  IInv'
<1>1. calls'[c] = k
  BY DEF IInv, CallsInv
<1>2. Fit(calls[c])'
  BY <1>1
<1>. QED  BY <1>2, UnderWay, CallsKept DEF IInv

\* What the call in slot c remembers.
LEMMA Remembers ==
    ASSUME IInv, NEW c \in Calls
    PROVE  calls[c] \in CallType /\ Fit(calls[c])
BY DEF IInv, CallsInv

-----------------------------------------------------------------------------
LEMMA InitiateInv ==
    ASSUME IInv, NEW c \in Calls,
           InitiateAddition(c) \/ InitiateRemoval(c) \/ InitiateReassignment(c)
    PROVE  IInv'
<1>1. PICK kind \in Kinds, role \in Roles, k \in CallType :
         Initiate(c, kind, calls[c].customer, role, k) /\ k.op \in {"idle", "lock"}
  <2>1. Idle \in CallType /\ Idle.op = "idle"
    BY CallTypes DEF Idle, Ops, Anyone, Call
  <2>2. Call("lock", 0, None, "") \in CallType
    BY CallTypes DEF Ops, Begun, Anyone
  <2>3. Call("lock", 0, None, "").op = "lock"
    BY DEF Call
  <2>4. CASE InitiateAddition(c)
    <3>1. PICK k \in CallType : k = Call("lock", 0, None, "") /\ k.op = "lock"
      BY <2>2, <2>3
    <3>2. Initiate(c, "ADD", calls[c].customer, "MEMBER", k)
      BY <2>4, <3>1 DEF InitiateAddition
    <3>. QED  BY <3>1, <3>2 DEF Kinds, Roles
  <2>5. CASE InitiateRemoval(c)
    BY <2>1, <2>5 DEF InitiateRemoval, Kinds, Roles
  <2>6. CASE InitiateReassignment(c)
    <3>1. calls[c].value \in Roles
      BY <2>6, Remembers DEF InitiateReassignment, Initiate, At, Fit
    <3>. QED  BY <2>1, <2>6, <3>1 DEF InitiateReassignment, Kinds
  <2>. QED  BY <2>4, <2>5, <2>6
<1>2. calls[c].op = kind
  BY <1>1 DEF Initiate, At
<1>3. PICK x \in Customers : x = calls[c].customer
  BY <1>2, Remembers DEF Fit
<1>4. group # "ABSENT"
  BY <1>2, BegunInGroup DEF Begun
<1>5. PICK r \in Requests, st \in {"PENDING_APPROVAL", "PENDING_REVIEW"} :
         /\ requests[r] = NoRequest
         /\ requests' = [requests EXCEPT ![r] = [kind |-> kind, status |-> st,
                                                 customer |-> x, role |-> role]]
  BY <1>1, <1>3 DEF Initiate
<1>6. PICK req \in RequestType :
         /\ req = [kind |-> kind, status |-> st, customer |-> x, role |-> role]
         /\ req.status = st /\ req.customer = x
  <2>1. [kind |-> kind, status |-> st, customer |-> x, role |-> role] \in RequestType
    BY DEF RequestType, Statuses, Anyone
  <2>. QED  BY <2>1
<1>7. DocsInv' /\ Steady
  <2>1. ~Reviewed(r) /\ requests[r].status # "APPROVED"
    BY <1>5 DEF Reviewed, NoRequest
  <2>2. UNCHANGED <<group, memberships, proposal, customers, stale>>
    BY <1>1 DEF Initiate
  <2>. QED  BY <1>4, <1>5, <1>6, <2>1, <2>2, RequestStep
<1>8. calls' = [calls EXCEPT ![c] = k]
  BY <1>1 DEF Initiate, Continue
<1>9. Fit(k)'
  <2>1. group' # "ABSENT"
    BY <1>4, <1>7 DEF Steady
  <2>. QED  BY <1>1, <2>1 DEF Fit, Kinds
<1>. QED  BY <1>4, <1>7, <1>8, <1>9, MoveInv

LEMMA ReviewInv ==
    ASSUME IInv, NEW r \in Requests, Review(r)
    PROVE  IInv'
<1>1. PICK k \in RequestType : k = requests[r] /\ k.status = "PENDING_REVIEW"
  BY DEF Review, IInv, DocsInv, TypeInv
<1>2. PICK req \in RequestType : /\ req = [k EXCEPT !.status = "PENDING_APPROVAL"]
                                 /\ req.status = "PENDING_APPROVAL"
                                 /\ req.customer = k.customer
  <2>1. /\ [k EXCEPT !.status = "PENDING_APPROVAL"] \in RequestType
        /\ [k EXCEPT !.status = "PENDING_APPROVAL"].status = "PENDING_APPROVAL"
        /\ [k EXCEPT !.status = "PENDING_APPROVAL"].customer = k.customer
    BY DEF RequestType, Statuses
  <2>. QED  BY <2>1
<1>3. requests' = [requests EXCEPT ![r] = req]
  BY <1>1, <1>2 DEF Review
<1>4. group # "ABSENT"
  BY <1>1 DEF IInv, DocsInv, BirthInv, NoRequest
<1>5. k.customer \in Customers /\ ~Reviewed(r)
  BY <1>1 DEF IInv, DocsInv, NamedInv, Reviewed
<1>6. UNCHANGED <<group, memberships, proposal, customers, stale, calls>>
  BY DEF Review
<1>7. DocsInv' /\ Steady
  BY <1>1, <1>2, <1>3, <1>4, <1>5, <1>6, RequestStep
<1>. QED  BY <1>6, <1>7, CallsStay DEF IInv

LEMMA ApproveInv ==
    ASSUME IInv, NEW c \in Calls, Approve(c)
    PROVE  IInv'
<1>1. calls[c].op = "approve"
  BY DEF Approve, At
<1>2. PICK r \in Requests : r = calls[c].n /\ Reviewed(r)
  BY <1>1, Remembers DEF Fit
<1>3. group # "ABSENT"
  BY <1>1, BegunInGroup DEF Begun
<1>4. UNCHANGED <<group, memberships, proposal, customers, stale>>
  BY DEF Approve
<1>5. CASE requests[r].status # "PENDING_APPROVAL"
  <2>1. UNCHANGED requests /\ calls' = [calls EXCEPT ![c] = Idle]
    BY <1>2, <1>5 DEF Approve, Continue
  <2>2. DocsInv' /\ Steady
    BY <1>4, <2>1, QuietSteady DEF IInv, DocsInv, TypeInv
  <2>. QED  BY <1>3, <2>1, <2>2, UnderWay, EndInv
<1>6. CASE requests[r].status = "PENDING_APPROVAL"
  <2>1. PICK m \in RequestType : m = requests[r]
    BY DEF IInv, DocsInv, TypeInv
  <2>2. m.customer \in Customers /\ (m.kind = "ADD" => customers[m.customer] # "DRAFT")
    BY <1>1, <1>2, <1>6, <2>1, Remembers DEF Fit, IInv, DocsInv, NamedInv
  <2>3. PICK req \in RequestType : /\ req = [m EXCEPT !.status = "APPROVED"]
                                   /\ req.status = "APPROVED" /\ req.customer = m.customer
                                   /\ req.kind = m.kind
    <3>1. /\ [m EXCEPT !.status = "APPROVED"] \in RequestType
          /\ [m EXCEPT !.status = "APPROVED"].status = "APPROVED"
          /\ [m EXCEPT !.status = "APPROVED"].customer = m.customer
          /\ [m EXCEPT !.status = "APPROVED"].kind = m.kind
      BY DEF RequestType, Statuses
    <3>. QED  BY <3>1
  <2>4. requests' = [requests EXCEPT ![r] = req]
    BY <1>2, <1>6, <2>1, <2>3 DEF Approve
  <2>5. DocsInv' /\ Steady
    BY <1>3, <1>4, <1>6, <2>1, <2>2, <2>3, <2>4, RequestStep
  <2>6. PICK k \in CallType : /\ k = Call("handle", r, m.customer, m.role)
                              /\ k.op = "handle" /\ k.n = r /\ k.customer = m.customer
                              /\ k.value = m.role
    <3>1. r \in Nat
      BY GroupConstants DEF Requests
    <3>2. Call("handle", r, m.customer, m.role) \in CallType
      BY <3>1, CallTypes DEF Ops, Begun, RequestType
    <3>. QED  BY <3>2 DEF Call
  <2>7. calls' = [calls EXCEPT ![c] = k]
    BY <1>2, <1>6, <2>1, <2>6 DEF Approve, Continue
  <2>8. requests'[r] = req /\ group' # "ABSENT" /\ m.role \in Roles
    BY <1>3, <1>4, <2>4 DEF IInv, DocsInv, TypeInv, RequestType
  <2>9. Fit(k)'
    <3>1. /\ requests'[k.n].status = "APPROVED" /\ requests'[k.n].customer = k.customer
          /\ requests'[k.n].kind = "ADD" => customers'[k.customer] # "DRAFT"
          /\ k.customer \in Customers /\ k.value \in Roles
      <4>1. requests'[k.n] = req /\ k.customer = m.customer /\ k.value = m.role
        BY <2>6, <2>8
      <4>2. customers' = customers
        BY <1>4
      <4>. QED  BY <2>2, <2>3, <2>8, <4>1, <4>2
    <3>. QED  BY <2>6, <2>8, <3>1 DEF Fit, Kinds
  <2>. QED  BY <1>3, <2>5, <2>7, <2>9, MoveInv
<1>. QED  BY <1>5, <1>6

LEMMA CloseInv ==
    ASSUME IInv, NEW c \in Calls, NEW r \in Requests,
           NEW st \in {"REJECTED", "RETURNED_TO_MAKER", "CANCELLED", "DELETED"}, Close(c, r, st)
    PROVE  IInv'
<1>1. PICK m \in RequestType : m = requests[r] /\ m.status \notin {"ABSENT", "DELETED", "APPROVED"}
  BY DEF Close, Actionable, IInv, DocsInv, TypeInv
<1>2. m.customer \in Customers
  BY <1>1 DEF IInv, DocsInv, NamedInv
<1>3. group # "ABSENT"
  BY <1>1 DEF IInv, DocsInv, BirthInv, NoRequest
<1>4. PICK req \in RequestType :
         /\ requests' = [requests EXCEPT ![r] = req]
         /\ req.status = st
         /\ req.status # "DELETED" => req.customer \in Customers
  <2>1. CASE st = "DELETED"
    <3>1. [NoRequest EXCEPT !.status = st] \in RequestType
          /\ [NoRequest EXCEPT !.status = st].status = st
      BY DEF NoRequest, RequestType, Statuses, Kinds, Anyone, Roles
    <3>2. requests' = [requests EXCEPT ![r] = [NoRequest EXCEPT !.status = st]]
      BY <2>1 DEF Close
    <3>. QED  BY <2>1, <3>1, <3>2
  <2>2. CASE st # "DELETED"
    <3>1. /\ [m EXCEPT !.status = st] \in RequestType
          /\ [m EXCEPT !.status = st].status = st
          /\ [m EXCEPT !.status = st].customer = m.customer
      BY DEF RequestType, Statuses
    <3>2. requests' = [requests EXCEPT ![r] = [m EXCEPT !.status = st]]
      BY <1>1, <2>2 DEF Close
    <3>. QED  BY <1>2, <3>1, <3>2
  <2>. QED  BY <2>1, <2>2
<1>5. UNCHANGED <<group, memberships, proposal, customers, stale>>
  BY DEF Close
<1>6. DocsInv' /\ Steady
  BY <1>1, <1>3, <1>4, <1>5, RequestStep
<1>7. CASE UNCHANGED calls
  BY <1>5, <1>6, <1>7, CallsStay DEF IInv
<1>8. CASE calls' = [calls EXCEPT ![c] = Call("revert", 0, None, "")]
  <2>1. PICK k \in CallType : k = Call("revert", 0, None, "") /\ k.op = "revert"
    <3>1. Call("revert", 0, None, "") \in CallType
      BY CallTypes DEF Ops, Begun, Anyone
    <3>2. Call("revert", 0, None, "").op = "revert"
      BY DEF Call
    <3>. QED  BY <3>1, <3>2
  <2>2. Fit(k)'
    BY <1>3, <1>5, <2>1 DEF Fit, Kinds
  <2>. QED  BY <1>3, <1>6, <1>8, <2>1, <2>2, MoveInv
<1>. QED  BY <1>7, <1>8 DEF Close, Continue

\* The steps that lock and unlock the group, and a call that dies.
LEMMA GroupStatusInv ==
    ASSUME IInv, NEW c \in Calls, LockGroup(c) \/ UnlockGroup(c) \/ RevertGroup(c) \/ Abandon(c)
    PROVE  IInv'
<1>1. UNCHANGED <<memberships, stale, requests, proposal, customers>>
  BY DEF LockGroup, UnlockGroup, RevertGroup, SetGroupStatus, Abandon
<1>2. /\ calls' = [calls EXCEPT ![c] = Idle] \/ calls' = [calls EXCEPT ![c] = Died]
      /\ group' = group \/ (group # "ABSENT" /\ group' \in {"ACTIVE", "PENDING"})
  <2>1. CASE Abandon(c)
    BY <2>1 DEF Abandon, Continue
  <2>2. CASE ~Abandon(c)
    <3>1. calls[c].op \in Begun
      BY <2>2 DEF LockGroup, UnlockGroup, RevertGroup, At, Begun
    <3>2. group # "ABSENT" /\ group \in {"ABSENT", "ACTIVE", "PENDING"}
      BY <3>1, BegunInGroup DEF IInv, DocsInv, TypeInv
    <3>. QED  BY <2>2, <3>2 DEF LockGroup, UnlockGroup, RevertGroup, SetGroupStatus, Continue
  <2>. QED  BY <2>1, <2>2
<1>3. DocsInv' /\ Steady
  BY <1>1, <1>2, QuietSteady DEF IInv, DocsInv, TypeInv
<1>4. \A d \in Calls : calls[d].op = "create_group" => group' = "ABSENT"
  BY <1>2 DEF IInv, CallsInv, Fit
<1>. QED  BY <1>2, <1>3, <1>4, EndInv

-----------------------------------------------------------------------------
\* The listeners of an approved request.
LEMMA AddMemberInv ==
    ASSUME IInv, NEW c \in Calls, AddMember(c)
    PROVE  IInv'
<1>1. calls[c].op = "handle" /\ requests[calls[c].n].kind = "ADD"
  BY DEF AddMember, Handling, At
<1>2. PICK x \in Customers : x = calls[c].customer /\ customers[x] # "DRAFT"
  BY <1>1, Remembers DEF Fit
<1>3. group # "ABSENT"
  BY <1>1, BegunInGroup DEF Begun
<1>4. UNCHANGED <<group, proposal, requests, customers, stale>>
  BY DEF AddMember
<1>5. PICK row \in RowType : /\ row = Row(x, "MEMBER") /\ row.open /\ row.customer = x
  <2>1. Row(x, "MEMBER") \in RowType /\ Row(x, "MEMBER").open /\ Row(x, "MEMBER").customer = x
    BY DEF Row, RowType, Roles, Anyone
  <2>. QED  BY <2>1
<1>6. CASE Clashes(row)
  <2>1. UNCHANGED memberships /\ calls' = [calls EXCEPT ![c] = Idle]
    BY <1>2, <1>5, <1>6 DEF AddMember, Continue
  <2>2. DocsInv' /\ Steady
    BY <1>4, <2>1, QuietSteady DEF IInv, DocsInv, TypeInv
  <2>. QED  BY <1>3, <2>1, <2>2, UnderWay, EndInv
<1>7. CASE ~Clashes(row)
  <2>1. Insert(row)
    BY <1>2, <1>5, <1>7 DEF AddMember
  <2>2. DocsInv' /\ Steady
    BY <1>2, <1>3, <1>4, <1>5, <1>7, <2>1, InsertStep
  <2>3. PICK k \in CallType : k = Call("unlock", 0, None, "") /\ k.op = "unlock"
    <3>1. Call("unlock", 0, None, "") \in CallType
      BY CallTypes DEF Ops, Begun, Anyone
    <3>2. Call("unlock", 0, None, "").op = "unlock"
      BY DEF Call
    <3>. QED  BY <3>1, <3>2
  <2>4. calls' = [calls EXCEPT ![c] = k]
    BY <1>2, <1>5, <1>7, <2>3 DEF AddMember, Continue
  <2>5. Fit(k)'
    BY <1>3, <1>4, <2>3 DEF Fit, Kinds
  <2>. QED  BY <1>3, <2>2, <2>4, <2>5, MoveInv
<1>. QED  BY <1>6, <1>7

LEMMA RemoveMemberInv ==
    ASSUME IInv, NEW c \in Calls, RemoveMember(c)
    PROVE  IInv'
<1>1. calls[c].op = "handle" /\ requests[calls[c].n].kind = "REMOVE"
  BY DEF RemoveMember, Handling, At
<1>2. PICK x \in Customers : x = calls[c].customer /\ Approved("REMOVE", x)
  BY <1>1, Remembers DEF Fit, Approved
<1>3. group # "ABSENT"
  BY <1>1, BegunInGroup DEF Begun
<1>4. UNCHANGED <<group, proposal, requests, customers, stale>>
      /\ calls' = [calls EXCEPT ![c] = Idle]
  BY DEF RemoveMember, Continue
<1>5. DocsInv' /\ Steady
  <2>1. CASE RowOf(x) = {}
    <3>1. UNCHANGED memberships
      BY <1>2, <2>1 DEF RemoveMember
    <3>. QED  BY <1>4, <3>1, QuietSteady DEF IInv, DocsInv, TypeInv
  <2>2. CASE RowOf(x) # {}
    <3>1. PICK i \in RowOf(x) : memberships' = [memberships EXCEPT ![i].open = FALSE]
      BY <1>2, <2>2 DEF RemoveMember, CloseMembership
    <3>2. i \in Rows /\ memberships[i].customer = x
      BY <3>1 DEF RowOf, OpenRows
    <3>. QED  BY <1>2, <1>3, <1>4, <3>1, <3>2, CloseStep
  <2>. QED  BY <2>1, <2>2
<1>. QED  BY <1>3, <1>4, <1>5, UnderWay, EndInv

\* A call of a reassignment that goes on with another step.
LEMMA OnwardTypes ==
    ASSUME NEW m \in CallType, NEW op \in Ops
    PROVE  /\ [m EXCEPT !.op = op] \in CallType
           /\ [m EXCEPT !.op = op].op = op
           /\ [m EXCEPT !.op = op].customer = m.customer
           /\ [m EXCEPT !.op = op].value = m.value
BY DEF CallType

LEMMA ReassignFindInv ==
    ASSUME IInv, NEW c \in Calls, ReassignFind(c)
    PROVE  IInv'
<1>1. calls[c].op = "handle" /\ requests[calls[c].n].kind = "REASSIGN"
  BY DEF ReassignFind, Handling, At
<1>2. PICK m \in CallType : /\ m = calls[c] /\ m.customer \in Customers /\ m.value \in Roles
                            /\ Approved("REASSIGN", m.customer)
  BY <1>1, Remembers DEF Fit, Approved
<1>3. group # "ABSENT"
  BY <1>1, BegunInGroup DEF Begun
<1>4. UNCHANGED <<group, memberships, proposal, requests, customers, stale>>
  BY DEF ReassignFind
<1>5. DocsInv' /\ Steady
  BY <1>4, QuietSteady DEF IInv, DocsInv, TypeInv
<1>6. Approved("REASSIGN", m.customer)'
  BY <1>2, <1>4 DEF Approved
<1>7. "take_role" \in Ops /\ "leave_role" \in Ops
  BY DEF Ops, Begun
<1>8. PICK k \in CallType :
         /\ calls' = [calls EXCEPT ![c] = k]
         /\ k.op \in {"leave_role", "take_role"}
         /\ k.customer = m.customer /\ k.value = m.value
         /\ k.op = "leave_role" => k.n \in Rows /\ memberships[k.n].customer = m.customer
  <2>1. CASE RowOf(m.customer) = {}
    <3>1. calls' = [calls EXCEPT ![c] = [m EXCEPT !.op = "take_role"]]
      BY <1>2, <2>1 DEF ReassignFind, Continue
    <3>. QED  BY <1>7, <3>1, OnwardTypes
  <2>2. CASE RowOf(m.customer) # {}
    <3>1. PICK i \in RowOf(m.customer) :
             calls' = [calls EXCEPT ![c] = [m EXCEPT !.op = "leave_role", !.n = i]]
      BY <1>2, <2>2 DEF ReassignFind, Continue
    <3>2. i \in Rows /\ memberships[i].customer = m.customer
      BY DEF RowOf, OpenRows
    <3>3. i \in Nat
      BY <3>2, GroupConstants DEF Rows
    <3>4. PICK k \in CallType : /\ k = [m EXCEPT !.op = "leave_role", !.n = i]
                                /\ k.op = "leave_role" /\ k.n = i
                                /\ k.customer = m.customer /\ k.value = m.value
      <4>1. [m EXCEPT !.op = "leave_role", !.n = i] \in CallType
        BY <1>7, <3>3 DEF CallType
      <4>. WITNESS [m EXCEPT !.op = "leave_role", !.n = i] \in CallType
      <4>. QED  BY DEF CallType
    <3>. QED  BY <3>1, <3>2, <3>4
  <2>. QED  BY <2>1, <2>2
<1>9. Fit(k)'
  BY <1>2, <1>3, <1>4, <1>6, <1>8 DEF Fit, Kinds
<1>. QED  BY <1>3, <1>5, <1>8, <1>9, MoveInv

LEMMA LeaveRoleInv ==
    ASSUME IInv, NEW c \in Calls, LeaveRole(c)
    PROVE  IInv'
<1>1. calls[c].op = "leave_role"
  BY DEF LeaveRole, At
<1>2. PICK m \in CallType : /\ m = calls[c] /\ m.customer \in Customers /\ m.value \in Roles
                            /\ Approved("REASSIGN", m.customer)
                            /\ m.n \in Rows /\ memberships[m.n].customer = m.customer
  BY <1>1, Remembers DEF Fit
<1>3. group # "ABSENT"
  BY <1>1, BegunInGroup DEF Begun
<1>4. /\ UNCHANGED <<group, proposal, requests, customers, stale>>
      /\ memberships' = [memberships EXCEPT ![m.n].open = FALSE]
  BY <1>2 DEF LeaveRole
<1>5. DocsInv' /\ Steady
  BY <1>2, <1>3, <1>4, CloseStep
<1>6. Approved("REASSIGN", m.customer)'
  BY <1>2, <1>4 DEF Approved
<1>7. PICK k \in CallType : /\ calls' = [calls EXCEPT ![c] = k] /\ k.op = "take_role"
                            /\ k.customer = m.customer /\ k.value = m.value
  <2>1. "take_role" \in Ops
    BY DEF Ops, Begun
  <2>2. calls' = [calls EXCEPT ![c] = [m EXCEPT !.op = "take_role"]]
    BY <1>2 DEF LeaveRole, Continue
  <2>. QED  BY <2>1, <2>2, OnwardTypes
<1>8. Fit(k)'
  BY <1>2, <1>3, <1>4, <1>6, <1>7 DEF Fit, Kinds
<1>. QED  BY <1>3, <1>5, <1>7, <1>8, MoveInv

LEMMA TakeRoleInv ==
    ASSUME IInv, NEW c \in Calls, TakeRole(c)
    PROVE  IInv'
<1>1. calls[c].op = "take_role"
  BY DEF TakeRole, At
<1>2. PICK x \in Customers : x = calls[c].customer /\ Approved("REASSIGN", x)
  BY <1>1, Remembers DEF Fit
<1>3. PICK role \in Roles : role = calls[c].value
  BY <1>1, Remembers DEF Fit
<1>4. group # "ABSENT"
  BY <1>1, BegunInGroup DEF Begun
<1>5. UNCHANGED <<group, proposal, requests, customers, stale>>
      /\ calls' = [calls EXCEPT ![c] = Idle]
  BY DEF TakeRole, Continue
<1>6. PICK row \in RowType : row = Row(x, role) /\ row.open /\ row.customer = x
  <2>1. Row(x, role) \in RowType /\ Row(x, role).open /\ Row(x, role).customer = x
    BY DEF Row, RowType, Anyone
  <2>. QED  BY <2>1
<1>7. DocsInv' /\ Steady
  <2>1. CASE Clashes(row)
    <3>1. UNCHANGED memberships
      BY <1>2, <1>3, <1>6, <2>1 DEF TakeRole
    <3>. QED  BY <1>5, <3>1, QuietSteady DEF IInv, DocsInv, TypeInv
  <2>2. CASE ~Clashes(row)
    <3>1. Insert(row)
      BY <1>2, <1>3, <1>6, <2>2 DEF TakeRole
    <3>. QED  BY <1>2, <1>4, <1>5, <1>6, <2>2, <3>1, InsertStep
  <2>. QED  BY <2>1, <2>2
<1>. QED  BY <1>4, <1>5, <1>7, UnderWay, EndInv

LEMMA ApproveCustomerInv ==
    ASSUME IInv, NEW x \in Customers, ApproveCustomer(x)
    PROVE  IInv'
<1>1. /\ customers' = [customers EXCEPT ![x] = "ACTIVE"]
      /\ UNCHANGED <<group, memberships, proposal, requests, calls, stale>>
  BY DEF ApproveCustomer
<1>2. TypeInv'
  BY <1>1 DEF IInv, DocsInv, TypeInv
<1>3. Steady
  BY <1>1 DEF Steady, Reviewed, IInv, DocsInv, TypeInv, ProposalType
<1>4. DocsInv'
  BY <1>1, <1>2, <1>3, DocsKept DEF IInv, DocsInv, BirthInv
<1>. QED  BY <1>1, <1>3, <1>4, CallsStay DEF IInv

-----------------------------------------------------------------------------
LEMMA NextInv == IInv /\ [Next]_vars => IInv'
<1>. SUFFICES ASSUME IInv, [Next]_vars PROVE IInv'
  OBVIOUS
<1>1. CASE InitiateCreation \/ UpdateProposal \/ ReviseAndResubmit
  BY <1>1, SubmitInv
<1>2. CASE ReviewProposal \/ WithdrawProposal
  BY <1>2, SetProposalInv
<1>3. CASE \E c \in Calls : \/ ApproveProposalRead(c)
                            \/ \E x \in Customers : \/ AdditionRead(c, x) \/ RemovalRead(c, x)
                                                    \/ \E role \in LeadershipRoles :
                                                          ReassignRead(c, x, role)
                            \/ \E r \in Requests : ApproveRead(c, r)
  BY <1>3, ReadInv
<1>4. CASE \E c \in Calls : ApproveProposal(c) \/ CreateGroup(c)
  BY <1>4, ApproveProposalInv, CreateGroupInv
<1>5. CASE \E c \in Calls : \/ InitiateAddition(c) \/ InitiateRemoval(c)
                            \/ InitiateReassignment(c) \/ Approve(c)
  BY <1>5, InitiateInv, ApproveInv
<1>6. CASE \E c \in Calls : LockGroup(c) \/ UnlockGroup(c) \/ RevertGroup(c) \/ Abandon(c)
  BY <1>6, GroupStatusInv
<1>7. CASE \E c \in Calls : \/ AddMember(c) \/ RemoveMember(c) \/ ReassignFind(c)
                            \/ LeaveRole(c) \/ TakeRole(c)
  BY <1>7, AddMemberInv, RemoveMemberInv, ReassignFindInv, LeaveRoleInv, TakeRoleInv
<1>8. CASE \E r \in Requests : \/ Review(r)
                               \/ \E c \in Calls, s \in {"REJECTED", "RETURNED_TO_MAKER",
                                                         "CANCELLED", "DELETED"} : Close(c, r, s)
  BY <1>8, ReviewInv, CloseInv
<1>9. CASE \E x \in Customers : ApproveCustomer(x)
  BY <1>9, ApproveCustomerInv
<1>10. CASE UNCHANGED vars
  <2>1. DocsInv' /\ Steady
    BY <1>10, QuietSteady DEF vars, IInv, DocsInv, TypeInv
  <2>. QED  BY <1>10, <2>1, CallsStay DEF vars, IInv
<1>. QED  BY <1>1, <1>2, <1>3, <1>4, <1>5, <1>6, <1>7, <1>8, <1>9, <1>10 DEF Next

LEMMA SpecInv == Spec => []IInv
BY InitInv, NextInv, PTL DEF Spec

\* The partial unique indexes over open rows are enough: whatever additions,
\* removals, reassignments and creations overlap, a customer has one open
\* membership and a leader's role one holder (RoleForProposedIndex gives the
\* founders different roles, which no index looks at in time).
THEOREM MembershipsAreUnique == Spec => []OneMembershipEach
<1>1. IInv => OneMembershipEach
  <2>. SUFFICES ASSUME IInv PROVE OneMembershipEach
    OBVIOUS
  <2>1. ASSUME NEW role \in LeadershipRoles
        PROVE  Cardinality(Holders(role)) <= 1
    <3>1. CASE Holders(role) = {}
      BY <3>1, FS_EmptySet
    <3>2. CASE Holders(role) # {}
      <4>1. PICK i \in Holders(role) : Holders(role) = {i}
        BY <3>2 DEF IInv, DocsInv, RowsInv, OneHolder
      <4>2. Cardinality({i}) = 1
        BY FS_Singleton
      <4>. QED  BY <4>1, <4>2
    <3>. QED  BY <3>1, <3>2
  <2>. QED  BY <2>1 DEF OneMembershipEach, IInv, DocsInv, RowsInv, OneRowEach
<1>. QED  BY <1>1, SpecInv, PTL

\* A member was an approved customer: the validator reads before the decision
\* is taken and the listener acts after it, and yet only a reassignment, or a
\* payload replaced between validation and approval, lets a draft in.
THEOREM MembersAreCustomers == Spec => []MembersWereApproved
<1>1. IInv => MembersWereApproved
  BY DEF IInv, DocsInv, RowsInv
<1>. QED  BY <1>1, SpecInv, PTL

\* Nobody drops out of a group but by an approved removal or reassignment, also
\* when a listener dies between closing a row and opening the next.
THEOREM MembersStay == Spec => []MembersLeaveByDecision
<1>1. IInv => MembersLeaveByDecision
  BY DEF IInv, DocsInv, RowsInv
<1>. QED  BY <1>1, SpecInv, PTL

=============================================================================
