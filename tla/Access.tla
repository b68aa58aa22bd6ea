------------------------------- MODULE Access -------------------------------
(***************************************************************************)
(* Who may call what: the default capabilities of the roles, the narrowing *)
(* by the user type of the account, and the guards of every controller     *)
(* (src/src/platform/rbac and the controllers of src/src).                 *)
(*                                                                         *)
(* A capability is a pair: a step of the workflow and the type of entity   *)
(* it is about, or "flat" and a name.  A route is a record: its name       *)
(* (component and handler), the capabilities one of which the caller needs *)
(* (none needed: {}), the modules the caller needs, and the type of entity *)
(* of the workflow request the handler opens or puts forward ("" if none). *)
(* A route without any guard beyond a valid token has {} for both.         *)
(*                                                                         *)
(* Abstractions: paths, bodies and answers; what a handler does is in the  *)
(* module of its component; the view scopes of reads (a caller sees the    *)
(* records of the own branch) are checks of the services, left out.        *)
(***************************************************************************)
EXTENDS FiniteSets

Roles == {"MARKETER", "MANAGER", "ADMIN", "SUPERADMIN", "APPROVER"}
UserTypes == {"INITIATOR", "AUTHORIZER", "REVIEWER"}
ModuleNames == {"LOANS", "ACCOUNTING", "HR"}

Maker ==
    {"CUSTOMER", "GROUP", "GROUP_MEMBERSHIP", "LOAN", "REPAYMENT_RECORD",
     "EARLY_LIQUIDATION", "LEAVE_APPLICATION"}
Config ==
    {"LOAN_PRODUCT", "FEE_DEFINITION", "SALARY_RECORD", "LOAN_CONFIG",
     "REPAYMENT_PENALTY_CONFIG", "BRANCH_RULES_CONFIG", "BRANCH",
     "BRANCH_MANAGER_ASSIGNMENT", "BRANCH_ROLE_ASSIGNMENT"}
EntityTypes == Maker \cup Config \cup {"STAFF", "MANUAL_JOURNAL_ENTRY"}

To(step, types) == {<<step, type>> : type \in types}
Flat(names) == To("flat", names)

FlatCapabilities == Flat(
    {"staff:disable", "rbac:manage", "org:manage", "staff:create-direct",
     "branch:manage_accounts", "branch:fund", "branch:verify_funding",
     "group:reassign_leadership", "loan:disbursement_ops",
     "accounting:manage_accounts", "notifications:manage_dispatch",
     "organisation:manage", "hr:salary:manage", "leave:cancel_approved",
     "hr:leave_types:manage"})
KnownCapabilities ==
    FlatCapabilities \cup UNION {To(step, EntityTypes) : step \in {"initiate", "review", "approve"}}

-----------------------------------------------------------------------------
(* What a role is seeded with *)

AdminCapabilities ==
    To("review", EntityTypes) \cup To("approve", EntityTypes) \cup To("initiate", Config)
    \cup (FlatCapabilities
            \ Flat({"rbac:manage", "staff:create-direct", "branch:verify_funding"}))

DefaultCapabilities ==
    [role \in Roles |->
        IF role = "MARKETER" THEN
            To("initiate", Maker) \cup Flat({"loan:disbursement_ops"})
        ELSE IF role = "MANAGER" THEN
            To("initiate", Maker \cup {"STAFF"}) \cup To("review", Maker \cup {"STAFF"})
            \cup To("approve", {"STAFF"})
            \cup Flat({"branch:verify_funding", "loan:disbursement_ops"})
        ELSE IF role = "ADMIN" THEN AdminCapabilities
        ELSE IF role = "SUPERADMIN" THEN
            AdminCapabilities \cup Flat({"rbac:manage", "staff:create-direct"})
            \cup To("initiate", {"STAFF"})
        ELSE To("approve", EntityTypes) \cup To("initiate", {"BRANCH"})]

\* Mutant of Keeps: the role alone decides.
KeepsAll(userType, capability) == userType \in UserTypes /\ capability \in KnownCapabilities

\* filterCapabilitiesByUserType: what the user type leaves of a role's rights.
Keeps(userType, capability) ==
    /\ capability[1] = "initiate" => userType = "INITIATOR"
    /\ capability[1] \in {"review", "approve"} => userType = "AUTHORIZER"

-----------------------------------------------------------------------------
(* The routes, controller by controller *)

Route(component, needs, modules, handlers) ==
    {[name |-> <<component, h>>, needs |-> needs, modules |-> modules, opens |-> ""] : h \in handlers}
Guarded(component, capability, handlers) == Route(component, {capability}, {}, handlers)
SignedIn(component, handlers) == Route(component, {}, {}, handlers)
\* The handlers among them that open a request, or put it forward again.
Opening(type, handlers, routes) ==
    {[r EXCEPT !.opens = IF r.name[2] \in handlers THEN type ELSE r.opens] : r \in routes}

CustomerLookups ==
    Guarded("customers", <<"initiate", "CUSTOMER">>, {"verifyBvn", "confirmBvnVerification"})
    \cup SignedIn("customers", {"findAll", "findOne", "getAuditTrail", "getKycCaptureStatus"})
CustomerOnboarding ==
    Opening("CUSTOMER", {"submitForApproval", "resubmitForApproval"},
        Guarded("customers", <<"initiate", "CUSTOMER">>,
            {"updateOnboardingDetails", "captureBiometric", "captureIdDocument", "recordNin",
             "submitForApproval", "resubmitForApproval", "remove"}))
    \cup Guarded("customers", <<"approve", "CUSTOMER">>, {"disable", "enable", "manuallyVerifyNin"})
\* The first two are open to a reviewer or an approver: checked in the handlers.
CustomerRecords ==
    Route("customers", {<<"review", "CUSTOMER">>, <<"approve", "CUSTOMER">>}, {},
        {"getMismatchFlags", "getBvnReviewComparison"})
    \cup Guarded("customers", <<"initiate", "CUSTOMER">>,
        {"requestEditPrivilege", "resolveIdentityMismatch"})
    \cup Guarded("customers", <<"approve", "CUSTOMER">>,
        {"decideEditPrivilege", "getEditPrivilegeSignatureUrl", "getDecryptedBvn"})
    \cup SignedIn("customers",
        {"getDecryptedNin", "getBiometricSignedUrl", "getIdDocumentSignedUrl"})

GroupProposals ==
    Opening("GROUP", {"create", "reviseAndResubmit"},
        Guarded("groups", <<"initiate", "GROUP">>,
            {"create", "reviseAndResubmit", "updateProposal", "deleteProposal"}))
    \cup Opening("GROUP_MEMBERSHIP", {"addMember", "removeMember"},
        Guarded("groups", <<"initiate", "GROUP_MEMBERSHIP">>, {"addMember", "removeMember"}))
    \cup Opening("GROUP", {"reassignLeadership"},
        Guarded("groups", <<"flat", "group:reassign_leadership">>, {"reassignLeadership"}))
GroupRecords ==
    Guarded("groups", <<"initiate", "GROUP">>, {"requestEditPrivilege", "updateDetails"})
    \cup Guarded("groups", <<"approve", "GROUP">>, {"decideEditPrivilege"})
    \cup SignedIn("groups", {"findAll", "findOne", "getActiveMembers", "getLeadership", "getEligibility"})

BranchRecords ==
    Opening("BRANCH", {"create"}, Guarded("branches", <<"initiate", "BRANCH">>, {"create"}))
    \cup Guarded("branches", <<"flat", "org:manage">>, {"update"})
    \cup Guarded("branches", <<"approve", "BRANCH">>, {"remove"})
    \cup SignedIn("branches", {"findAll", "findOne", "getActivity"})
BranchPeople ==
    Opening("BRANCH_MANAGER_ASSIGNMENT", {"assignManager"},
        Guarded("branches", <<"initiate", "BRANCH_MANAGER_ASSIGNMENT">>, {"assignManager"}))
    \cup SignedIn("branches",
        {"getCurrentManager", "getManagerHistory", "getStaffAssignments",
         "getStaffAssignmentsHistory", "getStats", "getBalance"})

CoverageRoutes ==
    Opening("BRANCH_ROLE_ASSIGNMENT", {"assign"},
        Guarded("coverage", <<"initiate", "BRANCH_ROLE_ASSIGNMENT">>, {"assign"}))
    \cup Guarded("coverage", <<"approve", "BRANCH_ROLE_ASSIGNMENT">>, {"revoke"})
    \cup Guarded("coverage", <<"flat", "org:manage">>, {"getForStaff"})
    \cup SignedIn("coverage", {"getMine"})

FundingRoutes ==
    Guarded("funding", <<"flat", "branch:fund">>, {"record", "nudge", "resolveDispute"})
    \cup Guarded("funding", <<"flat", "branch:verify_funding">>, {"verify", "reject", "raiseDispute"})
    \cup SignedIn("funding", {"findAll", "findOne", "getDisputeEvidenceUrl"})

BankAccountRoutes ==
    Guarded("bank-accounts", <<"flat", "branch:manage_accounts">>, {"create", "update"})
    \cup SignedIn("bank-accounts", {"findAll", "findOne"})

BranchRequestRoutes ==
    Guarded("branch-requests", <<"approve", "BRANCH">>, {"resolve"})
    \cup SignedIn("branch-requests", {"create", "findAll", "findOne"})

StaffOnboarding ==
    Opening("STAFF", {"onboard", "resubmitOnboarding"},
        Guarded("staff", <<"initiate", "STAFF">>, {"onboard", "resubmitOnboarding"}))
    \cup Guarded("staff", <<"flat", "staff:create-direct">>, {"createDirect"})
    \cup Guarded("staff", <<"flat", "org:manage">>, {"updateDocuments"})
    \cup SignedIn("staff", {"verifyBvnPreview", "findMe", "updateMe"})
StaffAdministration ==
    Guarded("staff", <<"flat", "org:manage">>,
        {"findAll", "findWithUnverifiedBvn", "findOne", "updateProfile", "updateCompliance",
         "getPerformance", "getActivity"})
    \cup Guarded("staff", <<"flat", "staff:disable">>, {"verifyBvn", "disable", "enable"})

DepartmentRoutes ==
    Guarded("departments", <<"flat", "org:manage">>, {"create", "findAll", "findOne", "update", "remove"})
UnitRoutes ==
    Guarded("units", <<"flat", "org:manage">>, {"create", "findAll", "findOne", "update", "remove"})

LeaveRoutes ==
    Opening("LEAVE_APPLICATION", {"apply"},
        Route("leave", {}, {"HR"}, {"apply", "cancel", "getStaffBalance", "getStaffApplications"}))
    \cup SignedIn("leave", {"getMyBalance"})
SalaryRoutes ==
    Opening("SALARY_RECORD", {"propose"},
        Route("salary", {<<"flat", "hr:salary:manage">>}, {"HR"},
            {"getForStaff", "getHistoryForStaff", "propose"}))
    \cup SignedIn("salary", {"getMine"})
LeaveTypeRoutes ==
    Route("leave-types", {<<"flat", "hr:leave_types:manage">>}, {"HR"},
        {"create", "update", "findAll", "findOne"})

AccountRoutes ==
    Route("accounts", {<<"flat", "accounting:manage_accounts">>}, {"ACCOUNTING"},
        {"createAccount", "updateAccount", "findAllAccounts", "findAccount", "listMappings", "setMapping"})
LedgerRoutes ==
    Opening("MANUAL_JOURNAL_ENTRY", {"proposeManualEntry"},
        Route("ledger", {}, {"ACCOUNTING"},
            {"getAccountBalance", "getTrialBalance", "getLedgerEntries", "proposeManualEntry"}))

LoanApplications ==
    Opening("LOAN", {"raiseApplication"},
        Guarded("loans", <<"initiate", "LOAN">>,
            {"requestConsent", "raiseApplication", "uploadApplicantPhoto"}))
LoanRecords ==
    Guarded("loans", <<"initiate", "LOAN">>, {"updatePending", "remove"})
    \cup SignedIn("loans",
        {"getApplicantPhotoSignedUrl", "getMemberLoanAccountsForCustomer", "listForActor", "findOne",
         "getMemberLoanAccounts"})
VerificationRoutes ==
    Guarded("verification", <<"flat", "loan:disbursement_ops">>,
        {"initiateMemberVerification", "checkAndDisburse", "confirmChequeHandover"})
    \cup Guarded("verification", <<"approve", "LOAN">>, {"resolveEscalation"})
FeePaymentRoutes ==
    Guarded("fee-payments", <<"flat", "loan:disbursement_ops">>, {"recordPayment"})
    \cup SignedIn("fee-payments", {"listAvailableFees", "listForCustomer"})

RepaymentRoutes ==
    Opening("REPAYMENT_RECORD", {"recordRepayment"},
        Guarded("repayments", <<"initiate", "REPAYMENT_RECORD">>,
            {"recordRepayment", "recordProofOfPayment", "raiseDispute"}))
    \cup Guarded("repayments", <<"approve", "REPAYMENT_RECORD">>, {"resolveDispute", "findStaleDisputes"})
    \cup SignedIn("repayments", {"findOne"})
LiquidationRoutes ==
    Opening("EARLY_LIQUIDATION", {"initiate"},
        Guarded("liquidations", <<"initiate", "EARLY_LIQUIDATION">>, {"initiate"}))
    \cup Guarded("liquidations", <<"initiate", "REPAYMENT_RECORD">>, {"linkRepayment"})
    \cup SignedIn("liquidations", {"findOne"})
DetailRoutes == SignedIn("loan-detail", {"getDetail", "listForActor"})
ReportRoutes == SignedIn("loan-reports", {"getReports"})
RiskRoutes == SignedIn("risk", {"getRepaymentRisk"})

ProductRoutes ==
    Opening("LOAN_PRODUCT", {"create", "update"},
        Guarded("products", <<"initiate", "LOAN_PRODUCT">>, {"create", "update"}))
    \cup SignedIn("products", {"findAll", "findOne"})
FeeRoutes ==
    Opening("FEE_DEFINITION", {"create", "update"},
        Guarded("fees", <<"initiate", "FEE_DEFINITION">>, {"create", "update"}))
    \cup SignedIn("fees", {"findAll", "findOne"})

ConfigRoutes(component, type) ==
    Opening(type, {"create"}, Guarded(component, <<"initiate", type>>, {"create"}))
    \cup SignedIn(component, {"findAll", "findActive", "findOne"})
LoanConfigRoutes == ConfigRoutes("loan-config", "LOAN_CONFIG")
PenaltyConfigRoutes == ConfigRoutes("penalty-config", "REPAYMENT_PENALTY_CONFIG")
BranchRulesRoutes == ConfigRoutes("branch-rules", "BRANCH_RULES_CONFIG")

OrganisationRoutes ==
    Guarded("organisation", <<"flat", "organisation:manage">>, {"create", "update", "remove", "uploadCacDoc"})
    \cup SignedIn("organisation", {"findOne", "getCacDocSignedUrl"})
NotificationAdminRoutes ==
    Guarded("notification-admin", <<"flat", "notifications:manage_dispatch">>,
        {"drainBacklog", "findDeadLetters"})
InboxRoutes == SignedIn("notifications", {"findMine", "markRead", "markAllRead"})
\* The other routes of the controller are public: see Sessions.
AuthRoutes == SignedIn("auth", {"changePassword"})
ReferenceRoutes == SignedIn("reference-data", {"listStates", "listCitiesByState"})
RbacRoutes ==
    Guarded("rbac", <<"flat", "rbac:manage">>,
        {"listRoleCapabilities", "updateRoleCapabilities", "addRoleCapability", "removeRoleCapability",
         "updateStaffModuleAccess"})
\* act is open to every account: the engine asks for the capability of the step.
WorkflowRoutes ==
    SignedIn("workflow",
        {"getPending", "getPendingByEntityType", "getRejectedByEntityType", "getHistory", "getById",
         "cancel", "remove", "act"})

Routes ==
    UNION {CustomerLookups, CustomerOnboarding, CustomerRecords, GroupProposals, GroupRecords,
           BranchRecords, BranchPeople, CoverageRoutes, FundingRoutes, BankAccountRoutes,
           BranchRequestRoutes, StaffOnboarding, StaffAdministration, DepartmentRoutes, UnitRoutes,
           LeaveRoutes, SalaryRoutes, LeaveTypeRoutes, AccountRoutes, LedgerRoutes, LoanApplications,
           LoanRecords, VerificationRoutes, FeePaymentRoutes, RepaymentRoutes, LiquidationRoutes,
           DetailRoutes, ReportRoutes, RiskRoutes, ProductRoutes, FeeRoutes, LoanConfigRoutes,
           PenaltyConfigRoutes, BranchRulesRoutes, OrganisationRoutes, NotificationAdminRoutes,
           InboxRoutes, AuthRoutes, ReferenceRoutes, RbacRoutes, WorkflowRoutes}
RouteNamed == [name \in {r.name : r \in Routes} |-> CHOOSE r \in Routes : r.name = name]
=============================================================================
