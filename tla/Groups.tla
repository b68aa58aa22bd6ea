------------------------------- MODULE Groups -------------------------------
(***************************************************************************)
(* A borrowers' group from its proposal to the changes of its membership   *)
(* (src/src/modules/groups/groups.service.ts and its schemas).             *)
(*                                                                         *)
(* The proposal and the later requests are WorkflowRequests; a final step  *)
(* runs the pre-approval validator on what it read, commits if status and  *)
(* step are still those, and its call then runs the listener on the latest *)
(* payload.  Memberships are rows that are closed and never deleted; the   *)
(* two unique indexes are over the open ones.                              *)
(*                                                                         *)
(* Abstractions: one group and one proposal, for one maker, in a branch    *)
(* that exists; the intake fields and the privilege to edit them, which is *)
(* a customer's over again (see Customers).  Customers exist and change    *)
(* their status alone; whether one owes a loan, which additions and        *)
(* removals ask first, may be answered either way.                         *)
(***************************************************************************)
EXTENDS Integers, FiniteSets, Functions

CONSTANTS
    Customers,      \* identities of customers
    Calls,          \* slots for calls in flight
    None,           \* no customer
    Founders,       \* members proposed; the code asks for at least 3
    MaxRequests,    \* bound: membership and leadership requests
    MaxVersions     \* bound: payloads of the proposal

ASSUME GroupConstants ==
    /\ Founders \in Nat \ {0}
    /\ MaxRequests \in Nat
    /\ MaxVersions \in Nat \ {0}
    /\ None \notin Customers

LeadershipRoles == {"GROUP_HEAD", "GROUP_HEAD_ASSISTANT", "COORDINATOR"}
Requests == 1..MaxRequests
Rows == 1..(Founders + MaxRequests)   \* a row per founder and per request at most

VARIABLES
    group,        \* the status of the Group document
    memberships,  \* GroupMembership rows
    proposal,     \* the GROUP/CREATE request: status, members, version
    requests,     \* the other WorkflowRequests
    customers,    \* the status of each customer
    calls,        \* calls in flight
    stale         \* history: founders voted in on a payload nobody validated

vars == <<group, memberships, proposal, requests, customers, calls, stale>>

-----------------------------------------------------------------------------
NoRow == [customer |-> None, role |-> "MEMBER", open |-> FALSE]
NoRequest == [kind |-> "ADD", status |-> "ABSENT", customer |-> None, role |-> "MEMBER"]

Row(x, r) == [customer |-> x, role |-> r, open |-> TRUE]

Call(op, n, x, value) == [op |-> op, n |-> n, customer |-> x, value |-> value]
Idle == Call("idle", 0, None, "")
Died == Call("died", 0, None, "")

At(c, op) == calls[c].op = op
Continue(c, call) == calls' = [calls EXCEPT ![c] = call]

\* A call begins: it reads and remembers, and writes nothing yet.
Enter(c, call) ==
    /\ calls[c] = Idle
    /\ Continue(c, call)
    /\ UNCHANGED <<group, memberships, proposal, requests, customers, stale>>

OpenRows == {i \in Rows : memberships[i].open}
Members == {memberships[i].customer : i \in OpenRows}
RowOf(x) == {i \in OpenRows : memberships[i].customer = x}
Holders(role) == {i \in OpenRows : memberships[i].role = role}
Unused == {i \in Rows : memberships[i] = NoRow}

\* Mutant of Clashes: no index over the open rows of a customer.
ClashesInRole(row) == row.role \in LeadershipRoles /\ Holders(row.role) # {}

\* The partial unique indexes: one open row per customer, and per leader's role.
Clashes(row) ==
    \/ RowOf(row.customer) # {}
    \/ row.role \in LeadershipRoles /\ Holders(row.role) # {}

\* One row is created after the others.
Insert(row) ==
    \E i \in Unused :
        /\ \A j \in Unused : i <= j
        /\ memberships' = [memberships EXCEPT ![i] = row]

Init ==
    /\ group = "ABSENT"
    /\ memberships = [i \in Rows |-> NoRow]
    /\ proposal = [status |-> "ABSENT", members |-> <<>>, version |-> 0]
    /\ requests = [r \in Requests |-> NoRequest]
    /\ customers = [x \in Customers |-> "DRAFT"]
    /\ calls = [c \in Calls |-> Idle]
    /\ stale = FALSE

-----------------------------------------------------------------------------
(* The proposal *)

\* The members of a proposal: distinct customers.
Proposals == {s \in [1..Founders -> Customers] : IsInjective(s)}

Submit(members) ==
    /\ proposal.version < MaxVersions
    /\ proposal' = [status  |-> "PENDING_REVIEW",
                    members |-> members,
                    version |-> proposal.version + 1]
    /\ UNCHANGED <<group, memberships, requests, customers, calls, stale>>

InitiateCreation == \E s \in Proposals : proposal.status = "ABSENT" /\ Submit(s)

\* updateProposal, before the first review; reviseAndResubmit, after a refusal
\* or a return.  Both replace the payload in one compare and set.
UpdateProposal == \E s \in Proposals : proposal.status = "PENDING_REVIEW" /\ Submit(s)

ReviseAndResubmit ==
    \E s \in Proposals : proposal.status \in {"REJECTED", "RETURNED_TO_MAKER"} /\ Submit(s)

SetProposal(status) ==
    /\ proposal' = [proposal EXCEPT !.status = status]
    /\ UNCHANGED <<group, memberships, requests, customers, calls, stale>>

\* A first review, or a refusal or return at either step.
ReviewProposal ==
    \/ proposal.status = "PENDING_REVIEW" /\ SetProposal("PENDING_APPROVAL")
    \/ /\ proposal.status \in {"PENDING_REVIEW", "PENDING_APPROVAL"}
       /\ \E s \in {"REJECTED", "RETURNED_TO_MAKER"} : SetProposal(s)

\* Mutant of Vetted: one approved founder is enough.
VettedHead(s) == customers[s[1]] = "ACTIVE"

\* The validator of GROUP/CREATE.
Vetted(s) == \A i \in 1..Founders : customers[s[i]] = "ACTIVE"

ApproveProposalRead(c) ==
    /\ proposal.status = "PENDING_APPROVAL"
    /\ Vetted(proposal.members)
    /\ Enter(c, Call("approve_proposal", proposal.version, None, ""))

\* The filter knows the status, not the payload that was validated.
ApproveProposal(c) ==
    /\ At(c, "approve_proposal")
    /\ IF proposal.status = "PENDING_APPROVAL"
       THEN /\ proposal' = [proposal EXCEPT !.status = "APPROVED", !.version = 0]
            /\ stale' = (proposal.version # calls[c].n)
            /\ Continue(c, Call("create_group", 0, None, ""))
       ELSE UNCHANGED <<proposal, stale>> /\ Continue(c, Idle)
    /\ UNCHANGED <<group, memberships, requests, customers>>

RoleForProposedIndex(i) ==
    IF i <= 3 THEN <<"GROUP_HEAD", "GROUP_HEAD_ASSISTANT", "COORDINATOR">>[i] ELSE "MEMBER"

\* onGroupCreationApproved: the group and its memberships, in a transaction.
CreateGroup(c) ==
    /\ At(c, "create_group")
    /\ group' = "ACTIVE"
    /\ memberships' = [i \in Rows |-> IF i \in 1..Founders
                                      THEN Row(proposal.members[i], RoleForProposedIndex(i))
                                      ELSE NoRow]
    /\ Continue(c, Idle)
    /\ UNCHANGED <<proposal, requests, customers, stale>>

\* The maker withdraws the proposal: cancel, or deleteProposal, which goes on
\* to delete the members it may: a change of the customers, below.
WithdrawProposal ==
    \/ /\ proposal.status \in {"PENDING_REVIEW", "PENDING_APPROVAL", "REJECTED",
                               "RETURNED_TO_MAKER"}
       /\ SetProposal("CANCELLED")
    \/ /\ proposal.status \in {"PENDING_REVIEW", "REJECTED"}
       /\ SetProposal("DELETED")

-----------------------------------------------------------------------------
(* Requests about a group that exists *)

Actionable == {"PENDING_REVIEW", "PENDING_APPROVAL"}

\* WorkflowEngineService.initiate; a chain of one step starts at its approval.
Initiate(c, kind, x, role, next) ==
    /\ At(c, kind)
    /\ \E r \in Requests :
          /\ requests[r] = NoRequest
          /\ \A q \in 1..(r - 1) : requests[q] # NoRequest
          /\ requests' = [requests EXCEPT ![r] =
                [kind     |-> kind,
                 status   |-> IF kind = "REASSIGN" THEN "PENDING_APPROVAL" ELSE "PENDING_REVIEW",
                 customer |-> x,
                 role     |-> role]]
    /\ Continue(c, next)
    /\ UNCHANGED <<group, memberships, proposal, customers, stale>>

\* initiateMemberAddition.  The group is locked after the request exists.
AdditionRead(c, x) ==
    /\ group = "ACTIVE"
    /\ x \notin Members
    /\ Enter(c, Call("ADD", 0, x, ""))

InitiateAddition(c) ==
    Initiate(c, "ADD", calls[c].customer, "MEMBER", Call("lock", 0, None, ""))

SetGroupStatus(c, status) ==
    /\ group' = status
    /\ Continue(c, Idle)
    /\ UNCHANGED <<memberships, proposal, requests, customers, stale>>

LockGroup(c) == At(c, "lock") /\ SetGroupStatus(c, "PENDING")

\* initiateMemberRemoval.
RemovalRead(c, x) ==
    /\ group = "ACTIVE"
    /\ x \in Members
    /\ Enter(c, Call("REMOVE", 0, x, ""))

InitiateRemoval(c) == Initiate(c, "REMOVE", calls[c].customer, "MEMBER", Idle)

\* reassignLeadershipRole of a vacant role.
ReassignRead(c, x, role) ==
    /\ group = "ACTIVE"
    /\ Holders(role) = {}
    /\ Enter(c, Call("REASSIGN", 0, x, role))

InitiateReassignment(c) == Initiate(c, "REASSIGN", calls[c].customer, calls[c].value, Idle)

\* The first of the two steps of an addition or a removal.
Review(r) ==
    /\ requests[r].status = "PENDING_REVIEW"
    /\ requests' = [requests EXCEPT ![r].status = "PENDING_APPROVAL"]
    /\ UNCHANGED <<group, memberships, proposal, customers, calls, stale>>

\* The final step.  The validator of an addition asks for an ACTIVE customer.
ApproveRead(c, r) ==
    /\ requests[r].status = "PENDING_APPROVAL"
    /\ requests[r].kind = "ADD" => customers[requests[r].customer] = "ACTIVE"
    /\ Enter(c, Call("approve", r, None, ""))

Approve(c) ==
    /\ At(c, "approve")
    /\ LET r == calls[c].n IN
          IF requests[r].status = "PENDING_APPROVAL"
          THEN /\ requests' = [requests EXCEPT ![r].status = "APPROVED"]
               /\ Continue(c, Call("handle", r, requests[r].customer, requests[r].role))
          ELSE UNCHANGED requests /\ Continue(c, Idle)
    /\ UNCHANGED <<group, memberships, proposal, customers, stale>>

\* handleWorkflowApproved goes by the kind of the request.
Handling(c, kind) == At(c, "handle") /\ requests[calls[c].n].kind = kind

\* onMemberAdditionApproved; the index may refuse the row, and the listener
\* then ends here, with the group still locked.
AddMember(c) ==
    /\ Handling(c, "ADD")
    /\ LET row == Row(calls[c].customer, "MEMBER") IN
          IF Clashes(row)
          THEN UNCHANGED memberships /\ Continue(c, Idle)
          ELSE Insert(row) /\ Continue(c, Call("unlock", 0, None, ""))
    /\ UNCHANGED <<group, proposal, requests, customers, stale>>

UnlockGroup(c) == At(c, "unlock") /\ SetGroupStatus(c, "ACTIVE")

\* Mutant of CloseMembership: the id of the group is the whole filter.
CloseAnyMembership(x) ==
    \E i \in OpenRows : memberships' = [memberships EXCEPT ![i].open = FALSE]

\* findOneAndUpdate of the customer's open row.
CloseMembership(x) ==
    \E i \in RowOf(x) : memberships' = [memberships EXCEPT ![i].open = FALSE]

\* onMemberRemovalApproved, of whatever role; it throws if the row is closed.
RemoveMember(c) ==
    /\ Handling(c, "REMOVE")
    /\ IF RowOf(calls[c].customer) = {} THEN UNCHANGED memberships
       ELSE CloseMembership(calls[c].customer)
    /\ Continue(c, Idle)
    /\ UNCHANGED <<group, proposal, requests, customers, stale>>

\* onLeadershipReassignmentApproved: the open row that was read is closed by
\* its id, and a row with the role is opened; the index may refuse it.
ReassignFind(c) ==
    /\ Handling(c, "REASSIGN")
    /\ IF RowOf(calls[c].customer) = {}
       THEN Continue(c, [calls[c] EXCEPT !.op = "take_role"])
       ELSE \E i \in RowOf(calls[c].customer) :
               Continue(c, [calls[c] EXCEPT !.op = "leave_role", !.n = i])
    /\ UNCHANGED <<group, memberships, proposal, requests, customers, stale>>

LeaveRole(c) ==
    /\ At(c, "leave_role")
    /\ memberships' = [memberships EXCEPT ![calls[c].n].open = FALSE]
    /\ Continue(c, [calls[c] EXCEPT !.op = "take_role"])
    /\ UNCHANGED <<group, proposal, requests, customers, stale>>

TakeRole(c) ==
    /\ At(c, "take_role")
    /\ LET row == Row(calls[c].customer, calls[c].value) IN
          IF Clashes(row) THEN UNCHANGED memberships ELSE Insert(row)
    /\ Continue(c, Idle)
    /\ UNCHANGED <<group, proposal, requests, customers, stale>>

\* A refusal, a return, a cancellation or a deletion.  The first, third and
\* fourth of an addition go on to revertGroupFromPendingAddition.
Close(c, r, status) ==
    /\ calls[c] = Idle
    /\ \/ requests[r].status \in Actionable /\ status \in {"REJECTED", "RETURNED_TO_MAKER"}
       \/ /\ requests[r].status \in Actionable \union {"REJECTED", "RETURNED_TO_MAKER"}
          /\ status = "CANCELLED"
       \/ requests[r].status \in {"PENDING_REVIEW", "REJECTED"} /\ status = "DELETED"
    /\ requests' = [requests EXCEPT ![r] = [IF status = "DELETED" THEN NoRequest ELSE @
                                            EXCEPT !.status = status]]
    /\ IF requests[r].kind = "ADD" /\ status # "RETURNED_TO_MAKER"
       THEN Continue(c, Call("revert", 0, None, ""))
       ELSE UNCHANGED calls
    /\ UNCHANGED <<group, memberships, proposal, customers, stale>>

RevertGroup(c) ==
    /\ At(c, "revert")
    /\ SetGroupStatus(c, IF group = "PENDING" THEN "ACTIVE" ELSE group)

-----------------------------------------------------------------------------
\* The approval of a customer.  Bound: none is disabled afterwards.
ApproveCustomer(x) ==
    /\ customers[x] = "DRAFT"
    /\ customers' = [customers EXCEPT ![x] = "ACTIVE"]
    /\ UNCHANGED <<group, memberships, proposal, requests, calls, stale>>

\* A call that dies at one of its awaits.  Bound: its slot is not used again.
Abandon(c) ==
    /\ calls[c] \notin {Idle, Died}
    /\ Continue(c, Died)
    /\ UNCHANGED <<group, memberships, proposal, requests, customers, stale>>

Next ==
    \/ InitiateCreation
    \/ UpdateProposal
    \/ ReviewProposal
    \/ ReviseAndResubmit
    \/ WithdrawProposal
    \/ \E c \in Calls, x \in Customers :
          \/ AdditionRead(c, x)
          \/ RemovalRead(c, x)
          \/ \E role \in LeadershipRoles : ReassignRead(c, x, role)
    \/ \E c \in Calls :
          \/ ApproveProposalRead(c)
          \/ ApproveProposal(c)
          \/ CreateGroup(c)
          \/ InitiateAddition(c)
          \/ LockGroup(c)
          \/ InitiateRemoval(c)
          \/ InitiateReassignment(c)
          \/ Approve(c)
          \/ AddMember(c)
          \/ UnlockGroup(c)
          \/ RemoveMember(c)
          \/ ReassignFind(c)
          \/ LeaveRole(c)
          \/ TakeRole(c)
          \/ RevertGroup(c)
          \/ Abandon(c)
    \/ \E r \in Requests : Review(r)
    \/ \E c \in Calls, r \in Requests :
          \/ ApproveRead(c, r)
          \/ \E s \in {"REJECTED", "RETURNED_TO_MAKER", "CANCELLED", "DELETED"} : Close(c, r, s)
    \/ \E x \in Customers : ApproveCustomer(x)

Spec == Init /\ [][Next]_vars

-----------------------------------------------------------------------------
\* "A customer can only hold one active membership in a given group at a time"
\* and "exactly one active holder per leadership role per group", whatever
\* additions, removals and reassignments overlap.
OneMembershipEach ==
    /\ \A i, j \in OpenRows : memberships[i].customer = memberships[j].customer => i = j
    /\ \A role \in LeadershipRoles : Cardinality(Holders(role)) <= 1

Approved(kind, x) ==
    \E r \in Requests : /\ requests[r].kind = kind
                        /\ requests[r].customer = x
                        /\ requests[r].status = "APPROVED"

\* "All proposed members must be approved before this group can be approved":
\* whoever is in the group was at some time an approved customer, unless a
\* reassignment, which asks for nothing, made it a leader, or the final
\* approval met a payload that was resubmitted after its validation.
MembersWereApproved ==
    \A x \in Members : customers[x] # "DRAFT" \/ Approved("REASSIGN", x) \/ stale

\* "The only sanctioned way": a member leaves the group only by an approved
\* removal of that member, or by a reassignment of a role to it.
MembersLeaveByDecision ==
    \A i \in Rows :
        LET x == memberships[i].customer IN
        memberships[i] # NoRow /\ x \notin Members =>
            Approved("REMOVE", x) \/ Approved("REASSIGN", x)
=============================================================================
