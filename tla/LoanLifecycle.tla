--------------------------- MODULE LoanLifecycle ----------------------------
(***************************************************************************)
(* Group loans of one branch, from the application to the disbursement     *)
(* (src/src/modules/loans/loans.service.ts, loan-verification.service.ts   *)
(* and src/src/modules/branches/branch-fund-balance.service.ts).           *)
(*                                                                         *)
(* Each loan has a Loan document, one MemberLoanAccount and one            *)
(* DisbursementVerification per borrower, and a WorkflowRequest, of which  *)
(* only the status matters here (WorkflowEngine models it in full).  The   *)
(* branch has one fund balance.                                            *)
(*                                                                         *)
(* A call in flight is a slot holding the next write it will make and what *)
(* it remembers from its reads; every write to the database outside a      *)
(* transaction is a step of its own, so calls interleave at every write.   *)
(* Consecutive reads are one step.  A disbursement transaction is one      *)
(* step: MongoDB aborts and retries the callback when it meets a           *)
(* concurrent write, and the callback takes no new decision on a retry.    *)
(*                                                                         *)
(* Abstractions: money is a small number of units; group eligibility,      *)
(* consent codes, fees, products and schedules are left out; so is the     *)
(* loan's life after disbursement.                                         *)
(***************************************************************************)
EXTENDS Naturals, FiniteSets, Functions

CONSTANTS
    Loans,      \* identifiers of the loans that may be raised
    Members,    \* customers
    Asks,       \* the request bodies: what each member asks for, 0 if not named
    Calls,      \* slots for calls in flight
    MaxFunds,   \* bound: everything ever credited to the branch
    None        \* no loan, no member

ASSUME LoanConstants ==
    /\ IsFiniteSet(Loans) /\ IsFiniteSet(Members)
    /\ Asks \subseteq [Members -> Nat]
    /\ MaxFunds \in Nat
    /\ None \notin Loans \union Members

VARIABLES
    loans,          \* Loan documents: status and cumulativeAmountKobo
    accounts,       \* MemberLoanAccount documents: status and principal
    verifications,  \* DisbursementVerification documents: status
    workflow,       \* status of each loan's WorkflowRequest
    balance,        \* BranchFundBalance.availableAmount
    calls,          \* calls in flight
    paidOut,        \* history: what the branch was debited for each loan
    cleared,        \* history: the members whose verification was ever PASSED
    stalled         \* history: the loans a call on which died or was refused funds

vars == <<loans, accounts, verifications, workflow, balance, calls,
          paidOut, cleared, stalled>>

documents == <<loans, accounts, verifications, workflow, balance, paidOut, cleared>>

-----------------------------------------------------------------------------
NothingAsked == [m \in Members |-> 0]

Named(ask) == {m \in Members : ask[m] > 0}

Total(ask) == SumFunctionOnSet(ask, Members)

Call(op, l, m, ask, amount) ==
    [op |-> op, loan |-> l, member |-> m, ask |-> ask, amount |-> amount]

Idle == Call("idle", None, None, NothingAsked, 0)

\* A call that has nothing but its loan, and maybe a member, to remember.
Pending(op, l, m) == Call(op, l, m, NothingAsked, 0)

Enter(c, call) ==
    /\ calls[c] = Idle
    /\ calls' = [calls EXCEPT ![c] = call]
    /\ UNCHANGED <<documents, stalled>>

Continue(c, call) == calls' = [calls EXCEPT ![c] = call] /\ UNCHANGED stalled

NoAccount == [status |-> "ABSENT", principal |-> 0]

Borrowers(l) == {m \in Members : accounts[l][m].status # "ABSENT"}

Blocking == {"PENDING", "ACTIVE"}

SetLoanStatus(l, status) == loans' = [loans EXCEPT ![l].status = status]

LoanExists(l) == loans[l].status \notin {"ABSENT", "DELETED"}

-----------------------------------------------------------------------------
Init ==
    /\ loans = [l \in Loans |-> [status |-> "ABSENT", amount |-> 0]]
    /\ accounts = [l \in Loans |-> [m \in Members |-> NoAccount]]
    /\ verifications = [l \in Loans |-> [m \in Members |-> "NONE"]]
    /\ workflow = [l \in Loans |-> "NONE"]
    /\ balance = 0
    /\ calls = [c \in Calls |-> Idle]
    /\ paidOut = [l \in Loans |-> 0]
    /\ cleared = [l \in Loans |-> {}]
    /\ stalled = {}

\* BranchFundBalanceService.credit, in the transaction of verifyFunding.
Credit ==
    /\ balance + SumFunctionOnSet(paidOut, Loans) < MaxFunds
    /\ balance' = balance + 1
    /\ UNCHANGED <<loans, accounts, verifications, workflow, calls, paidOut,
                   cleared, stalled>>

-----------------------------------------------------------------------------
\* raiseApplication: nobody named may have an unresolved loan, and the branch
\* must be able to cover the sum; both are only read.
RaiseRead(c, ask) ==
    /\ Named(ask) # {}
    /\ \A l \in Loans, m \in Named(ask) : accounts[l][m].status \notin Blocking
    /\ Total(ask) <= balance
    /\ Enter(c, Call("raise", None, None, ask, 0))

\* The transaction that creates the loan and its accounts.
RaiseCommit(c, l) ==
    /\ calls[c].op = "raise"
    /\ loans[l].status = "ABSENT"
    /\ loans' = [loans EXCEPT ![l] = [status |-> "PENDING_APPROVAL",
                                      amount |-> Total(calls[c].ask)]]
    /\ accounts' = [accounts EXCEPT ![l] =
          [m \in Members |->
              IF m \in Named(calls[c].ask)
              THEN [status |-> "PENDING", principal |-> calls[c].ask[m]]
              ELSE NoAccount]]
    /\ Continue(c, Pending("initiate", l, None))
    /\ UNCHANGED <<verifications, workflow, balance, paidOut, cleared>>

\* Only then is the workflow request initiated, on a chain of one or more steps.
RaiseInitiate(c) ==
    /\ calls[c].op = "initiate"
    /\ \E status \in {"PENDING_REVIEW", "PENDING_APPROVAL"} :
          workflow' = [workflow EXCEPT ![calls[c].loan] = status]
    /\ Continue(c, Idle)
    /\ UNCHANGED <<loans, accounts, verifications, balance, paidOut, cleared>>

-----------------------------------------------------------------------------
WorkflowWaits(l) == workflow[l] \in {"PENDING_REVIEW", "PENDING_APPROVAL"}

\* The engine's act.  The events of the final approval and of a rejection are
\* emitted by the call that acted, after its write.
Review(l) ==
    /\ workflow[l] = "PENDING_REVIEW"
    /\ \E status \in {"PENDING_REVIEW", "PENDING_APPROVAL"} :
          workflow' = [workflow EXCEPT ![l] = status]
    /\ UNCHANGED <<loans, accounts, verifications, balance, calls, paidOut,
                   cleared, stalled>>

Decide(c, l, verdict) ==
    /\ calls[c] = Idle
    /\ WorkflowWaits(l)
    /\ verdict = "APPROVED" => workflow[l] = "PENDING_APPROVAL"
    /\ workflow' = [workflow EXCEPT ![l] = verdict]
    /\ Continue(c, IF verdict = "APPROVED" THEN Pending("approved", l, None)
                   ELSE IF verdict = "REJECTED" THEN Pending("reject", l, None)
                   ELSE Idle)
    /\ UNCHANGED <<loans, accounts, verifications, balance, paidOut, cleared>>

\* The raiser cancels or deletes the request through the generic endpoints: no
\* listener of this module hears of it.
Withdraw(l) ==
    /\ workflow[l] \in {"PENDING_REVIEW", "PENDING_APPROVAL", "RETURNED_TO_MAKER",
                        "REJECTED"}
    /\ workflow' = [workflow EXCEPT ![l] = "WITHDRAWN"]
    /\ UNCHANGED <<loans, accounts, verifications, balance, calls, paidOut,
                   cleared, stalled>>

\* handleWorkflowApproved: a compare-and-set on PENDING_APPROVAL.
OnApproved(c) ==
    /\ calls[c].op = "approved"
    /\ LET l == calls[c].loan IN
          IF loans[l].status = "PENDING_APPROVAL"
          THEN SetLoanStatus(l, "APPROVED")
          ELSE UNCHANGED loans
    /\ Continue(c, Idle)
    /\ UNCHANGED <<accounts, verifications, workflow, balance, paidOut, cleared>>

\* rejectLoan, for handleWorkflowRejected and for resolveEscalation: the loan
\* whatever its status, then all its accounts.
RejectLoan(c) ==
    /\ calls[c].op = "reject"
    /\ LET l == calls[c].loan IN
          IF LoanExists(l)
          THEN /\ SetLoanStatus(l, "REJECTED")
               /\ Continue(c, Pending("close", l, None))
          ELSE UNCHANGED loans /\ Continue(c, Idle)
    /\ UNCHANGED <<accounts, verifications, workflow, balance, paidOut, cleared>>

CloseAccounts(c) ==
    /\ calls[c].op = "close"
    /\ LET l == calls[c].loan IN
          accounts' = [accounts EXCEPT ![l] =
              [m \in Members |-> IF m \in Borrowers(l)
                                 THEN [@[m] EXCEPT !.status = "CLOSED"]
                                 ELSE @[m]]]
    /\ Continue(c, Idle)
    /\ UNCHANGED <<loans, verifications, workflow, balance, paidOut, cleared>>

-----------------------------------------------------------------------------
\* updatePendingApplication: accounts are saved one by one, then the loan.
EditRead(c, l, ask) ==
    /\ loans[l].status = "PENDING_APPROVAL"
    /\ Named(ask) \subseteq Borrowers(l)
    /\ Named(ask) # {}
    /\ Enter(c, Call("edit", l, None, ask, loans[l].amount))

\* Saving an account that is gone throws.
EditAccount(c, m) ==
    /\ calls[c].op = "edit"
    /\ m \in Named(calls[c].ask)
    /\ LET l == calls[c].loan IN
          IF m \in Borrowers(l)
          THEN /\ accounts' = [accounts EXCEPT ![l][m].principal = calls[c].ask[m]]
               /\ Continue(c, [calls[c] EXCEPT !.ask[m] = 0])
          ELSE UNCHANGED accounts /\ Continue(c, Idle)
    /\ UNCHANGED <<loans, verifications, workflow, balance, paidOut, cleared>>

Principals(l) == [m \in Members |-> accounts[l][m].principal]

\* Mongoose sends the total only when it differs from the one that was loaded.
EditLoan(c) ==
    /\ calls[c].op = "edit"
    /\ calls[c].ask = NothingAsked
    /\ LET l == calls[c].loan
           sum == Total(Principals(l))
       IN IF LoanExists(l) /\ sum # calls[c].amount
          THEN loans' = [loans EXCEPT ![l].amount = sum]
          ELSE UNCHANGED loans
    /\ Continue(c, Idle)
    /\ UNCHANGED <<accounts, verifications, workflow, balance, paidOut, cleared>>

\* deleteLoan: the active request is cancelled, then accounts and loan go.
DeleteRead(c, l) ==
    /\ loans[l].status = "PENDING_APPROVAL"
    /\ Enter(c, Pending("delete", l, None))

DeleteWorkflow(c) ==
    /\ calls[c].op = "delete"
    /\ LET l == calls[c].loan IN
          IF WorkflowWaits(l) \/ workflow[l] = "RETURNED_TO_MAKER"
          THEN workflow' = [workflow EXCEPT ![l] = "WITHDRAWN"]
          ELSE UNCHANGED workflow
    /\ Continue(c, [calls[c] EXCEPT !.op = "purge"])
    /\ UNCHANGED <<loans, accounts, verifications, balance, paidOut, cleared>>

DeleteAccounts(c) ==
    /\ calls[c].op = "purge"
    /\ accounts' = [accounts EXCEPT ![calls[c].loan] = [m \in Members |-> NoAccount]]
    /\ Continue(c, [calls[c] EXCEPT !.op = "erase"])
    /\ UNCHANGED <<loans, verifications, workflow, balance, paidOut, cleared>>

DeleteLoan(c) ==
    /\ calls[c].op = "erase"
    /\ SetLoanStatus(calls[c].loan, "DELETED")
    /\ Continue(c, Idle)
    /\ UNCHANGED <<accounts, verifications, workflow, balance, paidOut, cleared>>

-----------------------------------------------------------------------------
\* Mutant of VerifyRead: a loan still under approval is verified too.
VerifyReadUnapproved(c, l, m) ==
    /\ loans[l].status \in {"PENDING_APPROVAL", "APPROVED", "VERIFICATION_IN_PROGRESS"}
    /\ accounts[l][m].status = "PENDING"
    /\ Enter(c, Pending("begin", l, m))

\* initiateMemberVerification: the loan accepts verification and the account
\* awaits disbursement.
VerifyRead(c, l, m) ==
    /\ loans[l].status \in {"APPROVED", "VERIFICATION_IN_PROGRESS"}
    /\ accounts[l][m].status = "PENDING"
    /\ Enter(c, Pending(IF loans[l].status = "APPROVED" THEN "begin" ELSE "compare", l, m))

\* The first verification moves the loan on, whatever it has become meanwhile.
VerifyBegin(c) ==
    /\ calls[c].op = "begin"
    /\ LET l == calls[c].loan IN
          IF LoanExists(l) THEN SetLoanStatus(l, "VERIFICATION_IN_PROGRESS")
                           ELSE UNCHANGED loans
    /\ Continue(c, [calls[c] EXCEPT !.op = "compare"])
    /\ UNCHANGED <<accounts, verifications, workflow, balance, paidOut, cleared>>

RecordPassed(l, m) ==
    /\ verifications' = [verifications EXCEPT ![l][m] = "PASSED"]
    /\ cleared' = [cleared EXCEPT ![l] = @ \union {m}]

\* The BVN recheck and the face comparison are external: they pass, and the
\* call goes on to disburse, or they fail and the verification is escalated.
VerifyPassed(c) ==
    /\ calls[c].op = "compare"
    /\ RecordPassed(calls[c].loan, calls[c].member)
    /\ Continue(c, Pending("check", calls[c].loan, None))
    /\ UNCHANGED <<loans, accounts, workflow, balance, paidOut>>

VerifyEscalated(c) ==
    /\ calls[c].op = "compare"
    /\ verifications' = [verifications EXCEPT ![calls[c].loan][calls[c].member] = "ESCALATED"]
    /\ Continue(c, Idle)
    /\ UNCHANGED <<loans, accounts, workflow, balance, paidOut, cleared>>

\* resolveEscalation looks at the verification alone.
ResolveRead(c, l, m, resolution) ==
    /\ verifications[l][m] = "ESCALATED"
    /\ Enter(c, Pending(resolution, l, IF resolution = "override" THEN m ELSE None))

\* Mutant of OverridePass: an override does not go on to disburse.
OverridePassOnly(c) ==
    /\ calls[c].op = "override"
    /\ RecordPassed(calls[c].loan, calls[c].member)
    /\ Continue(c, Idle)
    /\ UNCHANGED <<loans, accounts, workflow, balance, paidOut>>

OverridePass(c) ==
    /\ calls[c].op = "override"
    /\ RecordPassed(calls[c].loan, calls[c].member)
    /\ Continue(c, Pending("check", calls[c].loan, None))
    /\ UNCHANGED <<loans, accounts, workflow, balance, paidOut>>

-----------------------------------------------------------------------------
\* The retry endpoint calls checkAndDisburse directly.
CheckRetry(c, l) ==
    /\ LoanExists(l)
    /\ Enter(c, Pending("check", l, None))

\* Mutant of AllPassed: one passed borrower is enough.
SomePassed(l) == \E m \in Borrowers(l) : verifications[l][m] = "PASSED"

AllPassed(l) ==
    /\ Borrowers(l) # {}
    /\ \A m \in Borrowers(l) : verifications[l][m] = "PASSED"

ReadyToDisburse(l) == loans[l].status = "VERIFICATION_IN_PROGRESS" /\ AllPassed(l)

\* checkAndDisburse: the loan and its accounts, as read here, are disbursed.
CheckRead(c) ==
    /\ calls[c].op = "check"
    /\ LET l == calls[c].loan IN
          Continue(c, IF ReadyToDisburse(l)
                      THEN Call("disburse", l, None, Principals(l), loans[l].amount)
                      ELSE Idle)
    /\ UNCHANGED documents

\* Mutant of Debit: the balance is not compared.
DebitUnguarded(amount) == balance' = balance - amount

\* BranchFundBalanceService.debit: the guarded decrement.
Debit(amount) ==
    /\ balance >= amount
    /\ balance' = balance - amount

\* Mutant of Activated: only one of the accounts is activated.
ActivatedOne(l, ask) ==
    [accounts EXCEPT ![l] =
        [m \in Members |-> IF m = CHOOSE n \in Named(ask) : TRUE
                           THEN [@[m] EXCEPT !.status = "ACTIVE"]
                           ELSE @[m]]]

\* Activation of the accounts that were read and still exist.
Activated(l, ask) ==
    [accounts EXCEPT ![l] =
        [m \in Members |-> IF m \in Named(ask) \intersect Borrowers(l)
                           THEN [@[m] EXCEPT !.status = "ACTIVE"]
                           ELSE @[m]]]

\* Mutant of Disburse: a refused debit does not abort the transaction.
DisburseUnfunded(c) ==
    /\ calls[c].op = "disburse"
    /\ LET l == calls[c].loan IN
          /\ accounts' = Activated(l, calls[c].ask)
          /\ IF LoanExists(l) THEN SetLoanStatus(l, "DISBURSED") ELSE UNCHANGED loans
          /\ IF balance >= calls[c].amount
             THEN /\ balance' = balance - calls[c].amount
                  /\ paidOut' = [paidOut EXCEPT ![l] = @ + calls[c].amount]
             ELSE UNCHANGED <<balance, paidOut>>
    /\ Continue(c, Idle)
    /\ UNCHANGED <<verifications, workflow, cleared>>

\* The disbursement transaction.
Disburse(c) ==
    /\ calls[c].op = "disburse"
    /\ Debit(calls[c].amount)
    /\ LET l == calls[c].loan IN
          /\ accounts' = Activated(l, calls[c].ask)
          /\ IF LoanExists(l) THEN SetLoanStatus(l, "DISBURSED") ELSE UNCHANGED loans
          /\ paidOut' = [paidOut EXCEPT ![l] = @ + calls[c].amount]
    /\ Continue(c, Idle)
    /\ UNCHANGED <<verifications, workflow, cleared>>

\* InsufficientBranchFundsException aborts it and is logged.
InsufficientFunds(c) ==
    /\ calls[c].op = "disburse"
    /\ balance < calls[c].amount
    /\ calls' = [calls EXCEPT ![c] = Idle]
    /\ stalled' = stalled \union {calls[c].loan}
    /\ UNCHANGED documents

\* A call that dies at one of its awaits: a port or an audit write throws, an
\* edit names a value that is refused, or the process stops.
Abandon(c) ==
    /\ calls[c] # Idle
    /\ calls' = [calls EXCEPT ![c] = Idle]
    /\ stalled' = stalled \union ({calls[c].loan} \intersect Loans)
    /\ UNCHANGED documents

-----------------------------------------------------------------------------
\* The next step of a call in flight.
Proceed(c) ==
    \/ \E l \in Loans : RaiseCommit(c, l)
    \/ RaiseInitiate(c)
    \/ OnApproved(c)
    \/ RejectLoan(c)
    \/ CloseAccounts(c)
    \/ \E m \in Members : EditAccount(c, m)
    \/ EditLoan(c)
    \/ DeleteWorkflow(c)
    \/ DeleteAccounts(c)
    \/ DeleteLoan(c)
    \/ VerifyBegin(c)
    \/ VerifyPassed(c)
    \/ VerifyEscalated(c)
    \/ OverridePass(c)
    \/ CheckRead(c)
    \/ Disburse(c)
    \/ InsufficientFunds(c)

Next ==
    \/ Credit
    \/ \E l \in Loans : Review(l)
    \/ \E l \in Loans : Withdraw(l)
    \/ \E c \in Calls, ask \in Asks : RaiseRead(c, ask)
    \/ \E c \in Calls, l \in Loans, v \in {"APPROVED", "REJECTED", "RETURNED_TO_MAKER"} :
          Decide(c, l, v)
    \/ \E c \in Calls, l \in Loans, ask \in Asks : EditRead(c, l, ask)
    \/ \E c \in Calls, l \in Loans : DeleteRead(c, l)
    \/ \E c \in Calls, l \in Loans, m \in Members : VerifyRead(c, l, m)
    \/ \E c \in Calls, l \in Loans, m \in Members, r \in {"override", "reject"} :
          ResolveRead(c, l, m, r)
    \/ \E c \in Calls, l \in Loans : CheckRetry(c, l)
    \/ \E c \in Calls : Proceed(c)
    \/ \E c \in Calls : Abandon(c)

Spec == Init /\ [][Next]_vars

\* Node resumes every call whose await has settled, so a call that does not
\* die takes its next step; nobody is obliged to make a new call.
FairSpec == Spec /\ \A c \in Calls : WF_vars(Proceed(c))

-----------------------------------------------------------------------------
LoanStatuses == {"ABSENT", "PENDING_APPROVAL", "APPROVED", "REJECTED", "DELETED",
                 "VERIFICATION_IN_PROGRESS", "DISBURSED"}

AccountStatuses == {"ABSENT", "PENDING", "ACTIVE", "CLOSED"}

Ops == {"idle", "raise", "initiate", "approved", "reject", "close", "edit", "delete",
        "purge", "erase", "begin", "compare", "override", "check", "disburse"}

\* Every variable has its type; in particular no interleaving of disbursements
\* overdraws the branch (BranchFundBalanceService.debit).
TypeOK ==
    /\ loans \in [Loans -> [status : LoanStatuses, amount : Nat]]
    /\ accounts \in [Loans -> [Members -> [status : AccountStatuses,
                                           principal : Nat]]]
    /\ verifications \in [Loans -> [Members -> {"NONE", "PASSED", "ESCALATED"}]]
    /\ workflow \in [Loans -> {"NONE", "PENDING_REVIEW", "PENDING_APPROVAL", "APPROVED",
                               "REJECTED", "RETURNED_TO_MAKER", "WITHDRAWN"}]
    /\ balance \in Nat
    /\ calls \in [Calls -> [op : Ops, loan : Loans \union {None},
                            member : Members \union {None}, ask : [Members -> Nat], amount : Nat]]
    /\ paidOut \in [Loans -> Nat]
    /\ cleared \in [Loans -> SUBSET Members]
    /\ stalled \subseteq Loans

IsActive(l, m) == accounts[l][m].status = "ACTIVE"

\* All-or-nothing group disbursement: once one borrower's account is ACTIVE no
\* other borrower of the loan is still waiting (the disbursement transaction).
AllOrNothing ==
    \A l \in Loans :
        (\E m \in Members : IsActive(l, m)) =>
            \A m \in Members : accounts[l][m].status # "PENDING"

\* No loan is verified or disbursed, and no account activated, unless the
\* loan's approval chain ended in APPROVED, whatever edits, deletions and
\* withdrawals raced with it.
ApprovedFirst ==
    \A l \in Loans :
        \/ loans[l].status \in {"APPROVED", "VERIFICATION_IN_PROGRESS", "DISBURSED"}
        \/ \E m \in Members : IsActive(l, m)
        => workflow[l] = "APPROVED"

\* No borrower's account is ACTIVE unless that borrower was at some time found
\* PASSED, by the checks or by an override (checkAndDisburse against
\* initiateMemberVerification and resolveEscalation).
OnlyClearedBorrowers ==
    \A l \in Loans, m \in Members : IsActive(l, m) => m \in cleared[l]

\* Money moves with the accounts: an account is ACTIVE, or a loan DISBURSED,
\* only if the branch was debited for that loan in the same transaction.
ActiveIsDebited ==
    \A l \in Loans :
        loans[l].status = "DISBURSED" \/ (\E m \in Members : IsActive(l, m))
            => paidOut[l] > 0

\* A loan all of whose borrowers have passed does not wait for ever: the call
\* that recorded the last pass disburses it, without a further call, unless a
\* call on it died or was refused funds (tryCheckAndDisburse after every PASSED).
PassedIsDisbursed ==
    \A l \in Loans :
        ReadyToDisburse(l)
            ~> (~ReadyToDisburse(l) \/ l \in stalled)
=============================================================================
