----------------------------- MODULE Customers ------------------------------
(***************************************************************************)
(* The customer records made for one person, that is for one BVN, from its *)
(* verification to the approval, disabling or deletion of the record       *)
(* (src/src/modules/customers/customer.service.ts and its schemas).        *)
(*                                                                         *)
(* A Customer and its KycRecord are two documents.  bvnHash is unique, so  *)
(* that there is at most one KycRecord here; nothing makes the Customer    *)
(* unique.  Every write is a step of its own and a call remembers what it  *)
(* read before it.  The two steps of the CUSTOMER chain are folded into    *)
(* one decision; the call that acts emits the event after its write.       *)
(*                                                                         *)
(* Abstractions: one creator; names, phone numbers and which fields were   *)
(* flagged; previews of the BVN are interchangeable; the NIN, the identity *)
(* document and the photos, on which nothing here depends.                 *)
(***************************************************************************)
EXTENDS Integers, FiniteSetsExt

CONSTANTS
    Customers,     \* identities of Customer documents
    CustomerCalls, \* slots for calls in flight
    NoCustomerId,  \* no customer
    MaxRequests    \* bound: workflow requests ever initiated

ASSUME CustomerConstants == MaxRequests \in Nat /\ NoCustomerId \notin Customers

Requests == 1..MaxRequests

VARIABLES
    preview,       \* an unconsumed, unexpired BvnVerificationPreview exists
    customers,     \* Customer documents
    kyc,           \* the KycRecord of the BVN: owner, biometric, open flags
    requests,      \* WorkflowRequest documents of the CUSTOMER chain
    customerCalls, \* calls in flight
    deletions      \* history: customers whose deletion has written something

customerVars == <<preview, customers, kyc, requests, customerCalls, deletions>>

-----------------------------------------------------------------------------
NoCustomer == [status |-> "ABSENT", kycStatus |-> "INCOMPLETE", privilege |-> "NONE"]
NoKyc == [owner |-> NoCustomerId, biometric |-> FALSE, flagged |-> FALSE]
NoRequest == [status |-> "ABSENT", customer |-> NoCustomerId, linked |-> FALSE]

CustomerCall(op, x, n, value) == [op |-> op, customer |-> x, request |-> n, value |-> value]
CustomerIdle == CustomerCall("idle", NoCustomerId, 0, "NONE")
CustomerDied == CustomerCall("died", NoCustomerId, 0, "NONE")
PendingCall(op, x) == CustomerCall(op, x, 0, "NONE")

Subject(c) == customerCalls[c].customer
CustomerAt(c, op) == customerCalls[c].op = op
CustomerContinue(c, call) == customerCalls' = [customerCalls EXCEPT ![c] = call]

\* A call begins: it reads and remembers, and writes nothing yet.
EnterCustomerCall(c, call) ==
    /\ customerCalls[c] = CustomerIdle
    /\ CustomerContinue(c, call)
    /\ UNCHANGED <<preview, customers, kyc, requests, deletions>>

Exists(x) == customers[x].status # "ABSENT"
HasKyc(x) == kyc.owner = x
Unused == {x \in Customers : ~Exists(x) /\ x \notin deletions}

\* getHistory finds the requests by their linked entity.
History(x) ==
    {r \in Requests : /\ requests[r].linked
                      /\ requests[r].customer = x
                      /\ requests[r].status # "DELETED"}

Active == {"OPEN", "RETURNED_TO_MAKER"}

CustomerInit ==
    /\ preview = FALSE
    /\ customers = [x \in Customers |-> NoCustomer]
    /\ kyc = NoKyc
    /\ requests = [r \in Requests |-> NoRequest]
    /\ customerCalls = [c \in CustomerCalls |-> CustomerIdle]
    /\ deletions = {}

\* A save of the document that the call loaded; of a document deleted since,
\* it throws.
Save(c, field, value, next) ==
    /\ LET x == Subject(c) IN
          IF Exists(x)
          THEN /\ customers' = [customers EXCEPT ![x] = [@ EXCEPT ![field] = value]]
               /\ CustomerContinue(c, next)
          ELSE UNCHANGED customers /\ CustomerContinue(c, CustomerIdle)
    /\ UNCHANGED <<preview, kyc, requests, deletions>>

-----------------------------------------------------------------------------
(* BVN verification and creation *)

\* previewBvn: the BVN is not registered, as read by resolveBvnDetails.
PreviewBvn ==
    /\ ~preview
    /\ kyc.owner = NoCustomerId
    /\ preview' = TRUE
    /\ UNCHANGED <<customers, kyc, requests, customerCalls, deletions>>

\* The index of the previews drops the expired ones.
ExpirePreview ==
    /\ preview
    /\ preview' = FALSE
    /\ UNCHANGED <<customers, kyc, requests, customerCalls, deletions>>

\* confirmCustomerFromPreview creates a DRAFT whose flags are resolved;
\* verifyBvnAndCreateCustomer one that awaits approval, flagged or not.
ConfirmRead(c) ==
    /\ preview
    /\ kyc.owner = NoCustomerId
    /\ EnterCustomerCall(c, CustomerCall("create", NoCustomerId, 0, "DRAFT"))

VerifyRead(c) ==
    /\ kyc.owner = NoCustomerId
    /\ EnterCustomerCall(c, CustomerCall("create", NoCustomerId, 0, "PENDING_APPROVAL"))

Create(c) ==
    /\ CustomerAt(c, "create")
    /\ \E x \in Unused :
          /\ customers' = [customers EXCEPT ![x].status = customerCalls[c].value]
          /\ CustomerContinue(c, CustomerCall("create_kyc", x, 0, customerCalls[c].value))
    /\ UNCHANGED <<preview, kyc, requests, deletions>>

\* Mutant of CreateKyc: the index on bvnHash does not refuse a second record.
CreateKycAnyway(c) ==
    /\ CustomerAt(c, "create_kyc")
    /\ kyc' = [owner |-> Subject(c), biometric |-> FALSE, flagged |-> FALSE]
    /\ CustomerContinue(c, CustomerIdle)
    /\ UNCHANGED <<preview, customers, requests, deletions>>

\* The unique bvnHash refuses a second record; the Customer stays without one.
CreateKyc(c) ==
    /\ CustomerAt(c, "create_kyc")
    /\ IF kyc.owner = NoCustomerId
       THEN \E flagged \in IF customerCalls[c].value = "DRAFT" THEN {FALSE} ELSE BOOLEAN :
               /\ kyc' = [owner |-> Subject(c), biometric |-> FALSE, flagged |-> flagged]
               /\ CustomerContinue(c,
                     IF customerCalls[c].value = "DRAFT"
                     THEN PendingCall("consume_preview", Subject(c)) ELSE CustomerIdle)
       ELSE UNCHANGED kyc /\ CustomerContinue(c, CustomerIdle)
    /\ UNCHANGED <<preview, customers, requests, deletions>>

ConsumePreview(c) ==
    /\ CustomerAt(c, "consume_preview")
    /\ preview' = FALSE
    /\ CustomerContinue(c, CustomerIdle)
    /\ UNCHANGED <<customers, kyc, requests, deletions>>

-----------------------------------------------------------------------------
(* KYC capture and the status derived from it *)

Capturing == {"DRAFT", "PENDING_APPROVAL", "REJECTED"}

\* captureBiometric, then recomputeKycStatus.
CaptureRead(c, x) ==
    /\ customers[x].status \in Capturing
    /\ EnterCustomerCall(c, PendingCall("capture", x))

Capture(c) ==
    /\ CustomerAt(c, "capture")
    /\ LET x == Subject(c) IN
          IF HasKyc(x)
          THEN /\ kyc' = [kyc EXCEPT !.biometric = TRUE]
               /\ CustomerContinue(c, PendingCall("recompute", x))
          ELSE UNCHANGED kyc /\ CustomerContinue(c, CustomerIdle)
    /\ UNCHANGED <<preview, customers, requests, deletions>>

\* resolveIdentityMismatch settles every open flag, then recomputes.
ResolveMismatchRead(c, x) ==
    /\ Exists(x)
    /\ HasKyc(x) /\ kyc.flagged
    /\ EnterCustomerCall(c, PendingCall("resolve", x))

Resolve(c) ==
    /\ CustomerAt(c, "resolve")
    /\ LET x == Subject(c) IN
          IF HasKyc(x)
          THEN /\ kyc' = [kyc EXCEPT !.flagged = FALSE]
               /\ CustomerContinue(c, PendingCall("recompute", x))
          ELSE UNCHANGED kyc /\ CustomerContinue(c, CustomerIdle)
    /\ UNCHANGED <<preview, customers, requests, deletions>>

\* Mutant of KycStatus: open flags do not count.
KycStatusUnflagged == IF kyc.biometric THEN "VERIFIED" ELSE "INCOMPLETE"

KycStatus ==
    IF ~kyc.biometric THEN "INCOMPLETE"
    ELSE IF kyc.flagged THEN "MISMATCH_FLAGGED" ELSE "VERIFIED"

\* recomputeKycStatus reads the record and writes the customer.
RecomputeRead(c) ==
    /\ CustomerAt(c, "recompute")
    /\ CustomerContinue(c,
          IF HasKyc(Subject(c)) THEN CustomerCall("score", Subject(c), 0, KycStatus) ELSE CustomerIdle)
    /\ UNCHANGED <<preview, customers, kyc, requests, deletions>>

Score(c) == CustomerAt(c, "score") /\ Save(c, "kycStatus", customerCalls[c].value, CustomerIdle)

-----------------------------------------------------------------------------
(* Submission and decision *)

\* Mutant of Submittable: the biometric is not asked for.
SubmittableBare(x) == HasKyc(x)

Submittable(x) == HasKyc(x) /\ kyc.biometric

\* submitForApproval: nothing submitted yet, as the history says.
SubmitRead(c, x) ==
    /\ customers[x].status \in {"DRAFT", "PENDING_APPROVAL"}
    /\ History(x) = {}
    /\ Submittable(x)
    /\ EnterCustomerCall(c, PendingCall("submit", x))

Submit(c) ==
    /\ CustomerAt(c, "submit")
    /\ Save(c, "status", "PENDING_APPROVAL", PendingCall("initiate", Subject(c)))

Initiate(c) ==
    /\ CustomerAt(c, "initiate")
    /\ \E r \in Requests :
          /\ requests[r].status = "ABSENT"
          /\ \A q \in 1..(r - 1) : requests[q].status # "ABSENT"
          /\ requests' = [requests EXCEPT ![r] = [status   |-> "OPEN",
                                                  customer |-> Subject(c),
                                                  linked   |-> FALSE]]
          /\ CustomerContinue(c, CustomerCall("link", Subject(c), r, "NONE"))
    /\ UNCHANGED <<preview, customers, kyc, deletions>>

LinkEntity(c) ==
    /\ CustomerAt(c, "link")
    /\ requests' = [requests EXCEPT ![customerCalls[c].request].linked = TRUE]
    /\ CustomerContinue(c, CustomerIdle)
    /\ UNCHANGED <<preview, customers, kyc, deletions>>

\* resubmitForApproval sends the latest request round again.
ResubmitRead(c, x) ==
    /\ customers[x].status = "REJECTED"
    /\ Submittable(x)
    /\ History(x) # {}
    /\ EnterCustomerCall(c, CustomerCall("resubmit", x, Max(History(x)), "NONE"))

Resubmit(c) ==
    /\ CustomerAt(c, "resubmit")
    /\ LET r == customerCalls[c].request IN
          IF requests[r].status \in {"REJECTED", "RETURNED_TO_MAKER"}
          THEN /\ requests' = [requests EXCEPT ![r].status = "OPEN"]
               /\ CustomerContinue(c,
                     CustomerCall("handle", Subject(c), 0, "PENDING_APPROVAL"))
          ELSE UNCHANGED requests /\ CustomerContinue(c, CustomerIdle)
    /\ UNCHANGED <<preview, customers, kyc, deletions>>

\* What the listener writes for a decision.
Outcome(verdict) == IF verdict = "APPROVED" THEN "ACTIVE" ELSE "REJECTED"

\* The final decision; an event without an entity is ignored.
DecideCustomer(c, r, verdict) ==
    /\ customerCalls[c] = CustomerIdle
    /\ requests[r].status = "OPEN"
    /\ requests' = [requests EXCEPT ![r].status = verdict]
    /\ IF requests[r].linked /\ verdict # "RETURNED_TO_MAKER"
       THEN CustomerContinue(c, CustomerCall("handle", requests[r].customer, 0, Outcome(verdict)))
       ELSE UNCHANGED customerCalls
    /\ UNCHANGED <<preview, customers, kyc, deletions>>

\* handleWorkflowApproved, handleWorkflowRejected, handleWorkflowResubmitted:
\* the status, whatever it has become.
Handle(c) == CustomerAt(c, "handle") /\ Save(c, "status", customerCalls[c].value, CustomerIdle)

\* The maker cancels or deletes the request itself: no listener of this module.
CloseRequest(r, status) ==
    /\ requests[r].status \in {"OPEN", "REJECTED"} \union
                             (IF status = "CANCELLED" THEN {"RETURNED_TO_MAKER"} ELSE {})
    /\ requests' = [requests EXCEPT ![r].status = status]
    /\ UNCHANGED <<preview, customers, kyc, customerCalls, deletions>>

-----------------------------------------------------------------------------
(* Deletion *)

Deletable == Capturing

ActiveRequests(x) == {r \in History(x) : requests[r].status \in Active}

DeleteRead(c, x) ==
    /\ customers[x].status \in Deletable
    /\ IF ActiveRequests(x) = {} THEN EnterCustomerCall(c, PendingCall("delete_kyc", x))
       ELSE \E r \in ActiveRequests(x) : EnterCustomerCall(c, CustomerCall("cancel", x, r, "NONE"))

\* A request decided in the meantime cannot be cancelled: the deletion fails.
DeleteCancel(c) ==
    /\ CustomerAt(c, "cancel")
    /\ LET r == customerCalls[c].request IN
          IF requests[r].status \in Active
          THEN /\ requests' = [requests EXCEPT ![r].status = "CANCELLED"]
               /\ CustomerContinue(c, PendingCall("delete_kyc", Subject(c)))
          ELSE UNCHANGED requests /\ CustomerContinue(c, CustomerIdle)
    /\ UNCHANGED <<preview, customers, kyc, deletions>>

DeleteKyc(c) ==
    /\ CustomerAt(c, "delete_kyc")
    /\ LET x == Subject(c) IN
          /\ kyc' = IF HasKyc(x) THEN NoKyc ELSE kyc
          /\ deletions' = deletions \union {x}
          /\ CustomerContinue(c, PendingCall("delete", x))
    /\ UNCHANGED <<preview, customers, requests>>

Delete(c) ==
    /\ CustomerAt(c, "delete")
    /\ customers' = [customers EXCEPT ![Subject(c)] = NoCustomer]
    /\ CustomerContinue(c, CustomerIdle)
    /\ UNCHANGED <<preview, kyc, requests, deletions>>

-----------------------------------------------------------------------------
(* Disabling, and the privilege to edit an approved customer *)

DisableRead(c, x) ==
    /\ customers[x].status = "ACTIVE"
    /\ EnterCustomerCall(c, CustomerCall("handle", x, 0, "DISABLED"))

EnableRead(c, x) ==
    /\ customers[x].status = "DISABLED"
    /\ EnterCustomerCall(c, CustomerCall("handle", x, 0, "ACTIVE"))

PrivilegeRequestRead(c, x) ==
    /\ customers[x].status = "ACTIVE"
    /\ customers[x].privilege # "PENDING"
    /\ EnterCustomerCall(c, CustomerCall("privilege", x, 0, "PENDING"))

\* decideEditPrivilege; a refused privilege counts as none.
PrivilegeDecisionRead(c, x, granted) ==
    /\ customers[x].privilege = "PENDING"
    /\ EnterCustomerCall(c,
          CustomerCall("privilege", x, 0, IF granted THEN "GRANTED" ELSE "NONE"))

\* updateOnboardingDetails of an ACTIVE customer: consumeEditPrivilegeIfUsed
\* goes by what was loaded here.  Other edits change nothing modelled.
EditRead(c, x) ==
    /\ customers[x].status = "ACTIVE"
    /\ customers[x].privilege = "GRANTED"
    /\ EnterCustomerCall(c, CustomerCall("privilege", x, 0, "NONE"))

SetPrivilege(c) ==
    /\ CustomerAt(c, "privilege")
    /\ Save(c, "privilege", customerCalls[c].value, CustomerIdle)

\* A call that dies at one of its awaits.  Bound: its slot is not used again.
AbandonCustomerCall(c) ==
    /\ customerCalls[c] \notin {CustomerIdle, CustomerDied}
    /\ CustomerContinue(c, CustomerDied)
    /\ UNCHANGED <<preview, customers, kyc, requests, deletions>>

CustomerNext ==
    \/ PreviewBvn
    \/ ExpirePreview
    \/ \E c \in CustomerCalls, x \in Customers :
          \/ CaptureRead(c, x)
          \/ ResolveMismatchRead(c, x)
          \/ SubmitRead(c, x)
          \/ ResubmitRead(c, x)
          \/ DeleteRead(c, x)
          \/ DisableRead(c, x)
          \/ EnableRead(c, x)
          \/ PrivilegeRequestRead(c, x)
          \/ \E granted \in BOOLEAN : PrivilegeDecisionRead(c, x, granted)
          \/ EditRead(c, x)
    \/ \E c \in CustomerCalls :
          \/ ConfirmRead(c)
          \/ VerifyRead(c)
          \/ Create(c)
          \/ CreateKyc(c)
          \/ ConsumePreview(c)
          \/ Capture(c)
          \/ Resolve(c)
          \/ RecomputeRead(c)
          \/ Score(c)
          \/ Submit(c)
          \/ Initiate(c)
          \/ LinkEntity(c)
          \/ Resubmit(c)
          \/ Handle(c)
          \/ DeleteCancel(c)
          \/ DeleteKyc(c)
          \/ Delete(c)
          \/ SetPrivilege(c)
          \/ AbandonCustomerCall(c)
    \/ \E c \in CustomerCalls, r \in Requests,
          v \in {"APPROVED", "REJECTED", "RETURNED_TO_MAKER"} :
          DecideCustomer(c, r, v)
    \/ \E r \in Requests, v \in {"CANCELLED", "DELETED"} : CloseRequest(r, v)

CustomerSpec == CustomerInit /\ [][CustomerNext]_customerVars

-----------------------------------------------------------------------------
Approved(x) == \E r \in Requests : requests[r].customer = x /\ requests[r].status = "APPROVED"

\* A customer is ACTIVE or DISABLED only if a workflow request for it has been
\* approved and its face has been captured, whichever resubmissions, repeated
\* submissions, cancellations and deletions overlap.
ActiveWasVetted ==
    \A x \in Customers : customers[x].status \in {"ACTIVE", "DISABLED"} =>
        /\ Approved(x)
        /\ HasKyc(x) => kyc.biometric

\* "MISMATCH_FLAGGED blocks loan eligibility": a customer counts as VERIFIED
\* only while the KycRecord has a biometric and no open flag, although the
\* record is read and the customer written later.
VerifiedIsEarned ==
    \A x \in Customers : customers[x].kycStatus = "VERIFIED" /\ HasKyc(x) =>
        kyc.biometric /\ ~kyc.flagged

\* "This BVN is already registered to another customer": two customers of one
\* BVN are both vetted only if the deletion of one of them has begun.  A
\* confirmation used twice leaves a DRAFT that can go no further.
OneRecordPerPerson ==
    \A x, y \in Customers :
        /\ customers[x].status \in {"ACTIVE", "DISABLED"}
        /\ customers[y].status \in {"ACTIVE", "DISABLED"}
        => x = y \/ deletions \intersect {x, y} # {}
=============================================================================
