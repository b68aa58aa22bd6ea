------------------------------ MODULE Products ------------------------------
(***************************************************************************)
(* The catalogue an administrator configures by maker and checker: a fee   *)
(* definition, a loan product with the approval chain of its loans, and    *)
(* the versions of a configuration record                                  *)
(* (src/src/modules/loan-products/fee-definitions.service.ts,              *)
(* loan-products.service.ts and                                            *)
(* src/src/modules/platform-config/versioned-config.service.base.ts with   *)
(* its three subclasses).                                                  *)
(*                                                                         *)
(* Every change is a WorkflowRequest of one step: what an update will      *)
(* write is computed from the document as it was when the update was       *)
(* proposed, and written as it is when the request is approved, however    *)
(* many others have been approved in between.                              *)
(*                                                                         *)
(* Abstractions: of a fee, how it is calculated and how often; of a        *)
(* product, the terms a schedule is computed from, replaced together, and  *)
(* the steps of its chain; of a configuration record, its status.  Names,  *)
(* values, penalty rules and the fees a product lists are left out.  The   *)
(* three configuration services are one.                                   *)
(***************************************************************************)
EXTENDS Schedules

CONSTANTS
    Requests,         \* identities of workflow requests
    CatalogueCalls,   \* slots for approvals being handled
    NoRequestId,      \* no request
    Shapes,           \* the step lists a product may have
    AllTerms,         \* names of the terms a product may have
    TermsOf           \* interest type, rate, tenure and repayment period of each

\* The checks of initiateCreation and initiateUpdate.
ASSUME ProductConstants ==
    /\ TermsOf \in [AllTerms -> [type : {"FLAT", "REDUCING"}, rate : Nat, tenure : Nat,
                                 period : Nat \ {0}]]
    /\ \A t \in AllTerms : TermsOf[t].tenure >= 14

VARIABLES
    fee,              \* the FeeDefinition document
    product,          \* the LoanProduct document
    chain,            \* the WorkflowChainConfig LOAN/APPROVE_<productId>
    configs,          \* the status of the record each request created
    requests,         \* WorkflowRequest: kind, status and payload
    catalogueCalls,   \* approvals being handled
    disturbed         \* history: two approvals of one entity were handled at
                      \* the same time, or the handling of one stopped half way

catalogueVars == <<fee, product, chain, configs, requests, catalogueCalls, disturbed>>

-----------------------------------------------------------------------------
NoFee == [calc |-> "ABSENT", basis |-> "NULL", freq |-> "ONE_TIME", interval |-> "NULL"]
NoProduct == [steps |-> "ABSENT", terms |-> "ABSENT"]
NoRequest == [kind |-> "NONE", status |-> "ABSENT", payload |-> NoFee]

CatalogueCall(op, r) == [op |-> op, request |-> r, steps |-> "ABSENT"]
CatalogueIdle == CatalogueCall("idle", NoRequestId)
CatalogueAt(c, op) == catalogueCalls[c].op = op
CatalogueContinue(c, call) == catalogueCalls' = [catalogueCalls EXCEPT ![c] = call]
Payload(c) == requests[catalogueCalls[c].request].payload

CatalogueInit ==
    /\ fee = NoFee
    /\ product = NoProduct
    /\ chain = "ABSENT"
    /\ configs = [r \in Requests |-> "ABSENT"]
    /\ requests = [r \in Requests |-> NoRequest]
    /\ catalogueCalls = [c \in CatalogueCalls |-> CatalogueIdle]
    /\ disturbed = FALSE

\* A request is initiated; the payload is all that is kept of the proposal.
Propose(r, kind, payload) ==
    /\ requests[r] = NoRequest
    /\ requests' = [requests EXCEPT ![r] =
                      [kind |-> kind, status |-> "OPEN", payload |-> payload]]
    /\ UNCHANGED <<fee, product, chain, configs, catalogueCalls, disturbed>>

NobodyProposed(kind) == \A r \in Requests : requests[r].kind # kind

\* The fields of changes that are given replace those of the document: $set.
Given(field) == field # "KEEP"
SetFields(doc, changes) ==
    [f \in DOMAIN doc |-> IF Given(changes[f]) THEN changes[f] ELSE doc[f]]

-----------------------------------------------------------------------------
(* Fee definitions *)

\* resolvePercentageOf: required of a percentage, dropped otherwise.
BasisAccepted(calc, basis) == calc = "PERCENTAGE" => basis = "SET"
Basis(calc, basis) == IF calc = "PERCENTAGE" THEN basis ELSE "NULL"

\* resolveFrequencyFields: an interval is required of RECURRING.
IntervalAccepted(freq, interval) == freq = "RECURRING" => interval = "SET"
Interval(freq, interval) == IF freq = "RECURRING" THEN interval ELSE "NULL"

ProposeFee(r) ==
    /\ NobodyProposed("fee_create")
    /\ \E calc \in {"FIXED", "PERCENTAGE"}, basis \in {"NULL", "SET"},
          freq \in {"ONE_TIME", "RECURRING"}, interval \in {"NULL", "SET"} :
          /\ BasisAccepted(calc, basis)
          /\ IntervalAccepted(freq, interval)
          /\ Propose(r, "fee_create",
                [calc |-> calc, basis |-> Basis(calc, basis),
                 freq |-> freq, interval |-> Interval(freq, interval)])

\* What a field will be if the update is written now.
Effective(given, existing) == IF Given(given) THEN given ELSE existing

\* Mutant of FrequencyChanges: the fields that were given, and no others.
FrequencyChangesGiven(freq, interval) == [freq |-> freq, interval |-> interval]

\* Nothing if no field of the frequency was given, else all of them.
FrequencyChanges(freq, interval) ==
    IF ~Given(freq) /\ ~Given(interval) THEN [freq |-> "KEEP", interval |-> "KEEP"]
    ELSE LET effective == Effective(freq, fee.freq) IN
         [freq |-> effective,
          interval |-> Interval(effective, Effective(interval, fee.interval))]

CalculationChanges(calc, basis) ==
    IF ~Given(calc) /\ ~Given(basis) THEN [calc |-> "KEEP", basis |-> "KEEP"]
    ELSE [calc |-> calc,
          basis |-> Basis(Effective(calc, fee.calc), Effective(basis, fee.basis))]

\* initiateUpdate: checked against the document as it is now.
ProposeFeeUpdate(r) ==
    /\ fee # NoFee
    /\ \E calc \in {"KEEP", "FIXED", "PERCENTAGE"}, basis \in {"KEEP", "SET"},
          freq \in {"KEEP", "ONE_TIME", "RECURRING"}, interval \in {"KEEP", "SET"} :
          LET how == CalculationChanges(calc, basis)
              often == FrequencyChanges(freq, interval)
          IN /\ Given(calc) \/ Given(basis) \/ Given(freq) \/ Given(interval)
             /\ Given(calc) \/ Given(basis) =>
                  BasisAccepted(Effective(calc, fee.calc), Effective(basis, fee.basis))
             /\ Given(freq) \/ Given(interval) =>
                  IntervalAccepted(Effective(freq, fee.freq), Effective(interval, fee.interval))
             /\ Propose(r, "fee_update",
                   [calc |-> how.calc, basis |-> how.basis,
                    freq |-> often.freq, interval |-> often.interval])

CreateFee(c) ==
    /\ CatalogueAt(c, "fee_create")
    /\ fee' = Payload(c)
    /\ CatalogueContinue(c, CatalogueIdle)
    /\ UNCHANGED <<product, chain, configs, requests, disturbed>>

UpdateFee(c) ==
    /\ CatalogueAt(c, "fee_update")
    /\ fee' = SetFields(fee, Payload(c))
    /\ CatalogueContinue(c, CatalogueIdle)
    /\ UNCHANGED <<product, chain, configs, requests, disturbed>>

-----------------------------------------------------------------------------
(* Loan products *)

ProposeProduct(r) ==
    /\ NobodyProposed("product_create")
    /\ \E steps \in Shapes, terms \in AllTerms :
          Propose(r, "product_create", [steps |-> steps, terms |-> terms])

ProposeProductUpdate(r) ==
    /\ product # NoProduct
    /\ \E steps \in Shapes \union {"KEEP"}, terms \in AllTerms \union {"KEEP"} :
          Propose(r, "product_update", [steps |-> steps, terms |-> terms])

\* What is left to do: registerLoanApprovalChain, with these steps.
Register(c, steps) ==
    CatalogueContinue(c, [catalogueCalls[c] EXCEPT !.op = "register", !.steps = steps])

\* The document first, then the chain of its loans.
CreateProduct(c) ==
    /\ CatalogueAt(c, "product_create")
    /\ product' = Payload(c)
    /\ Register(c, Payload(c).steps)
    /\ UNCHANGED <<fee, chain, configs, requests, disturbed>>

\* findByIdAndUpdate returns the document the chain is then derived from.
UpdateProduct(c) ==
    /\ CatalogueAt(c, "product_update")
    /\ product' = SetFields(product, Payload(c))
    /\ Register(c, product'.steps)
    /\ UNCHANGED <<fee, chain, configs, requests, disturbed>>

\* registerLoanApprovalChain.
RegisterChain(c) ==
    /\ CatalogueAt(c, "register")
    /\ chain' = catalogueCalls[c].steps
    /\ CatalogueContinue(c, CatalogueIdle)
    /\ UNCHANGED <<fee, product, configs, requests, disturbed>>

-----------------------------------------------------------------------------
(* Configuration records *)

ProposeConfig(r) == Propose(r, "config", NoFee)

Active == {r \in Requests : configs[r] = "ACTIVE"}

\* Mutant of Retired: the record that was active stays so.
RetiredNone == configs

Retired == [r \in Requests |-> IF r \in Active THEN "INACTIVE" ELSE configs[r]]

\* handleApproved: updateMany, and then create.
RetireActive(c) ==
    /\ CatalogueAt(c, "config")
    /\ configs' = Retired
    /\ CatalogueContinue(c, [catalogueCalls[c] EXCEPT !.op = "activate"])
    /\ UNCHANGED <<fee, product, chain, requests, disturbed>>

CreateActive(c) ==
    /\ CatalogueAt(c, "activate")
    /\ configs' = [configs EXCEPT ![catalogueCalls[c].request] = "ACTIVE"]
    /\ CatalogueContinue(c, CatalogueIdle)
    /\ UNCHANGED <<fee, product, chain, requests, disturbed>>

-----------------------------------------------------------------------------
(* Decisions *)

Family(kind) == IF kind \in {"product_create", "product_update"} THEN "product" ELSE kind

\* The one step of the chain is approved: handleWorkflowApproved begins.
Approve(c, r) ==
    /\ catalogueCalls[c] = CatalogueIdle
    /\ requests[r].status = "OPEN"
    /\ requests' = [requests EXCEPT ![r].status = "APPROVED"]
    /\ CatalogueContinue(c, CatalogueCall(requests[r].kind, r))
    /\ disturbed' = (disturbed \/ \E d \in CatalogueCalls \ {c} :
                        /\ catalogueCalls[d] # CatalogueIdle
                        /\ Family(requests[catalogueCalls[d].request].kind)
                              = Family(requests[r].kind))
    /\ UNCHANGED <<fee, product, chain, configs>>

\* Rejected, returned, cancelled or deleted: nothing was written.
Drop(r) ==
    /\ requests[r].status = "OPEN"
    /\ requests' = [requests EXCEPT ![r].status = "CLOSED"]
    /\ UNCHANGED <<fee, product, chain, configs, catalogueCalls, disturbed>>

\* The process stops, or a write throws, between two steps of a handler.
AbandonApproval(c) ==
    /\ ~CatalogueAt(c, "idle") /\ ~CatalogueAt(c, "died")
    /\ CatalogueContinue(c, [catalogueCalls[c] EXCEPT !.op = "died", !.steps = "ABSENT"])
    /\ disturbed' = TRUE
    /\ UNCHANGED <<fee, product, chain, configs, requests>>

CatalogueNext ==
    \/ \E r \in Requests :
          \/ ProposeFee(r)
          \/ ProposeFeeUpdate(r)
          \/ ProposeProduct(r)
          \/ ProposeProductUpdate(r)
          \/ ProposeConfig(r)
          \/ Drop(r)
          \/ \E c \in CatalogueCalls : Approve(c, r)
    \/ \E c \in CatalogueCalls :
          \/ CreateFee(c)
          \/ UpdateFee(c)
          \/ CreateProduct(c)
          \/ UpdateProduct(c)
          \/ RegisterChain(c)
          \/ RetireActive(c)
          \/ CreateActive(c)
          \/ AbandonApproval(c)

CatalogueSpec == CatalogueInit /\ [][CatalogueNext]_catalogueVars

-----------------------------------------------------------------------------
(* Properties *)

\* "A malformed RECURRING config can never be saved"
\* (fee-definitions.service.ts:121): whatever updates were computed from older
\* versions of the fee and whichever order they are approved in, a RECURRING
\* fee has its interval and a ONE_TIME fee has none.
RecurringHasInterval == fee.freq = "RECURRING" <=> fee.interval = "SET"

\* The terms whose schedules add up, for every principal.
Sound ==
    {t \in AllTerms :
        /\ DueInOrder(TermsOf[t])
        /\ \A p \in Principals : AddsUp(TermsOf[t], p)}

\* Whatever product is in the catalogue, the schedule of a loan on it adds up
\* to what the account owes, and falls due in order within the tenure.
SchedulesAddUp ==
    product # NoProduct => product.terms \in Sound

\* Loans are approved under the steps of their product, and one version of a
\* configuration record is active from the first approval on, when approvals
\* of an entity are handled one at a time and to the end: "avoids a conditional
\* that could drift out of sync" (loan-products.service.ts:328).
InStepUnlessDisturbed ==
    ~disturbed /\ (\A c \in CatalogueCalls : catalogueCalls[c] = CatalogueIdle) =>
        /\ chain = product.steps
        /\ Cardinality(Active) =
              IF \E r \in Requests : configs[r] # "ABSENT" THEN 1 ELSE 0

=============================================================================
