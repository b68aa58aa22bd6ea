# BCKash backend: TLA+ models and proofs

BCKash is the back end of a cooperative's group-loan platform: one NestJS process
(or several, behind a load balancer) over a MongoDB replica set, with BullMQ jobs.
Every decision goes through a generic maker-checker engine, and most state is a
MongoDB document that a handler reads, checks, and then, after one or more awaits,
writes. This directory models the parts of that system where the order of those
reads and writes matters, checks them with TLC and proves the most important
properties with TLAPS.

Paths below are relative to the repository, whose TypeScript is under `src/`
(`src/src/...` in `PROJECT.json`).

## 1. Inventory

### Components, state, operations

| Component | State | Operations | Correct when |
| --- | --- | --- | --- |
| Workflow engine (`platform/workflow-engine`) | chain configs; `WorkflowRequest`: status, step records, current step, payload history, maker, entity link | register or replace a chain, initiate, act, updatePendingPayload, resubmit, cancel, deleteRequest, linkEntity | an approval means every step was approved by an entitled person other than the maker; decisions are final; events agree with the document |
| Loans (`modules/loans/loans.service.ts`) | `Loan` status and total, one `MemberLoanAccount` per borrower | raise, edit, delete, approve and reject handlers, completion resync | no money before approval; all borrowers or none |
| Verification and disbursement (`loan-verification.service.ts`) | `DisbursementVerification` per borrower | verify a member, resolve an escalation, check and disburse | only cleared borrowers are paid; a ready loan is disbursed |
| Repayments (`modules/repayments/repayments.service.ts`) | `RepaymentRecord`, account balance and status | record, approve, reject, apply, reverse, dispute, resolve | applied while approved; the balance is never negative nor inflated; a settled account is closed |
| Penalty sweep (`penalty-sweep.service.ts`) | `PenaltyCharge`, delay charges | daily sweep | one charge per installment and period |
| Early liquidation (`early-liquidation.service.ts`) | `EarlyLiquidationRequest` | propose, decide, link a repayment, complete | completes only when a linked repayment had paid it; what it closed is reopened by a dispute alone |
| Ledger posting (`modules/accounting`) | journal entries by source | idempotent postings, manual entries | one entry per source, never rewritten |
| Branches (`modules/branches`) | branch, fund balance, manager assignments, bank accounts, fundings | create, update, delete, assign, open, record, verify, reject, dispute | the balance is what was verified, once; a manager is only ever replaced; a decision on a funding stands |
| Customers (`modules/customers`) | customer, KYC record, workflow requests | preview, confirm, capture, submit, decide, flag, resolve, edit, disable, delete | who is active was vetted; who counts as verified has an unflagged record; one person is accepted once |
| Groups (`modules/groups`) | group status, memberships, leaders' roles | propose, decide, add, remove, reassign | memberships and leaders unique; members join and leave by decision |
| Leave and salary (`modules/hr`) | applications, balances, salary records | apply, cancel, decide, activate | used days are those of the leave that counts; one open salary record |
| Products and configuration (`modules/loan-products`, `modules/platform-config`) | fees, products, chains, versioned records, schedules | propose, update, deactivate; compute | usable recurrences, schedules that add up, chain and product in step |
| Authentication (`modules/identity`) | account, refresh tokens, one-time codes | login, rotate, reset, change password, disable, enable | rotated tokens and ended sessions stay dead |
| Staff and RBAC (`modules/identity/staff.service.ts`, `platform/rbac`) | accounts, role capabilities, module access | onboard, create, edit, grant, revoke, narrow | roles given by those who may; who initiates does not decide |
| Notifications (`modules/notifications`) | queue, inbox, dead letters, backlog | dispatch, process with retries, drain, read | nothing is lost unnoticed; what was read stays read |
| Organisation, reference data, audit, integrations, encryption, seed and bootstrap | configuration, logs, adapters | reads and whole writes | not modelled (section 6) |

### How they interact

* **Calls.** A controller calls a service; the domain services call the workflow
  engine (`initiate`, `cancel`, `linkEntity`), the loan services call the branch
  fund balance, repayments call `syncCompletionStatus`.
* **Events.** The engine emits `workflow.approved`, `rejected`, `returned`,
  `resubmitted`, `cancelled` and `deleted` in the call that made the decision,
  after its write and its audit record (`emitAsync`, awaited). The domain services
  listen and act on their own documents. Listeners filter by entity type, so an
  event of the generic cancel and delete endpoints may have no listener.
* **Shared documents.** A loan's status is written by the loan handlers, by
  verification, by disbursement and by the completion resync; an account's balance
  by repayments, penalties and liquidations; a customer's status by the decision,
  the resubmission, the KYC recomputation and the deletion.

### What is hard

* *Read, await, write.* Some writes repeat in their filter what was read
  (compare-and-set: `act`, `cancel`, `debit`, `verifyFunding`), some repeat only a
  part, and some nothing (`initiateMemberVerification`, `rejectLoan`,
  `raiseDispute`, `syncCompletionStatus`, `recomputeKycStatus`).
* *ABA.* The engine's filter holds the status and step index; a return and a
  resubmission restore both.
* *Calls that die.* An await may throw or the process may stop between two writes
  or between a write and its event. There is no recovery job.
* *Two sources of truth.* The chain's progress is in the workflow request, the
  entity's status in its own document; a customer and its KYC record, a product
  and its chain, a balance and its ledger entry are two documents each.
* *Work that is done again.* Jobs are retried and requeued, backlogs drained twice,
  sweeps and webhooks repeated.

`PROJECT.json` lists each hazard at its line with the properties that cover it.

## 2. Modules

| Module | Models | Instance | Proofs |
| --- | --- | --- | --- |
| `Approval` | what the engine promises: one decision process, without calls or races | (refined) | |
| `WorkflowEngine` | one request, its chain, calls in flight, events | `MCWorkflowEngine` | `WorkflowEngine_proofs` |
| `LoanLifecycle` | loans of a branch up to disbursement | `MCLoanLifecycle` | `LoanLifecycle_proofs` |
| `Debt` | what an account promises: one debt that is paid, given back, charged and settled | (refined twice) | |
| `Repayments` | one disbursed account, repayments, disputes, penalties, completion | `MCRepayments` | `Repayments_proofs` |
| `Liquidation` | early liquidation of one account, penalties, delay charges, ledger entries | `MCLiquidation` | `Liquidation_proofs` |
| `Branches` | one branch, its manager, bank accounts, fundings and fund balance | `MCBranches` | `Branches_proofs` |
| `Customers` | the customer records of one person and their KYC record | `MCCustomers` | `Repayments_proofs` |
| `Groups` | one group from its proposal to changes of its membership | `MCGroups` | `Groups_proofs` |
| `Leave` | leave of one kind and the salary history of one staff member | `MCLeave` | `Staff_proofs` |
| `Schedules` | installment schedules, flat and reducing | | `Branches_proofs` |
| `Products` | a fee, a product with its chain, a versioned record; extends `Schedules` | `MCProducts` | `Branches_proofs` |
| `Access` | roles, capabilities, narrowing, the guards of every controller | | `Staff_proofs` |
| `Staff` | accounts and the administration of their rights; extends `Access` | `MCStaff` | `Staff_proofs` |
| `Sessions` | login, tokens, passwords of one account | `MCSessions` | `Staff_proofs` |
| `Notifications` | queue, worker, inbox, dead letters, drain | `MCNotifications` | `Staff_proofs` |
| `SumTheorems` | (lemmas) induction, recursion, sums over finite sets | | |

A proof module extends the specifications it is about: one proof module may serve
several components that belong together (staff, their sessions, leave and inboxes; a
branch and its catalogue; borrowers and their debt). Specifications that share a proof
module have distinct names (`LeaveSpec`, `CustomerCall`, `AbandonSession`); the others use the
short ones (`Spec`, `Call`).

The specifications share one scheme. A **call in flight** is a slot (`calls[c]`)
that holds the next write it will make and what it remembers of its reads. Entering
a slot (`...Read`, `Enter`) is the handler's first half: its reads and checks,
together, since consecutive reads that decide nothing until the last of them only
make the window longer. Every write to the database is then a step of its own, so
other calls come in between; a MongoDB transaction is one step, because it aborts on
a write conflict. `Abandon` is a call that dies at any of its awaits. History
variables (`paidOut`, `cleared`, `stalled`, `taken`, `managed`, `deletions`,
`stale`, `earlier`, `everApplied`, `everLinked`, `premature`, `disturbed`, `given`,
`overlapped`, `fate`) are named as such where they are declared; no guard of the program depends on them.

How state and actions correspond to the code, module by module:

* **`WorkflowEngine`.** `chain` is the `WorkflowChainConfig`, `editable` tells the
  chains that `replaceChainConfig` may overwrite from the insert-only ones. `request`
  is the document: `caps` and `steps` together are the code's `steps` array, `index`
  is `currentStepIndex + 1`, `version` is the length of `payloadHistory`, `linked`
  stands for `entityId`. `ActRead`/`ActCommit` and so on are the two halves of the
  five operations; `FilterMatches` is the filter of their writes; `Conflict` the
  `ConflictException`; `Emit` is `emitAsync`. Comments, times, audit records and the
  queries are left out, and what a pre-approval validator decides (it throws or not:
  `Abandon`).
* **`LoanLifecycle`.** `loans`, `accounts`, `verifications`, `balance` are the
  documents; `workflow` is the status of the loan's request, and `Review`, `Decide`,
  `Withdraw` the engine as `Approval` describes it. `RaiseRead`, `RaiseCommit`,
  `RaiseInitiate`: `raiseApplication`, whose transaction creates the loan before
  the request exists. `OnApproved`, `RejectLoan`, `CloseAccounts`: the listeners.
  `EditRead`, `EditAccount`, `EditLoan`: one save per account and one for the loan.
  `VerifyRead` ... `OverridePass`: verification, whose external checks may pass or
  fail. `CheckRetry`, `CheckRead`, `Disburse`, `InsufficientFunds`:
  `checkAndDisburse`; the transaction activates the accounts that were read, debits
  the amount that was read, and writes `DISBURSED`.
* **`Repayments`.** `awaiting` holds the records whose workflow request is
  undecided, `charged` the `PenaltyCharge`s. `Approve`, `Reject`: the listeners and
  the two resolutions of a dispute, whose writes are the same. `Apply`, `Reverse`:
  the transactions of `applyToBalance` and `reverseBalance`. `SyncRead`, `SyncWrite`:
  `syncCompletionStatus`. `SweepRead`, `Charge`: the sweep. `Ledger` is the account as
  `Debt` sees it: the balance, the status, the records that are applied, what the
  reversal of each would return (`Refund`), the periods charged.
* **`Liquidation`.** The same account with the requests that may close it: what is
  payable is computed once, in `InitiateRead`; `LinkRead`, `Link` tie a repayment to
  it; `Apply` is followed by `PostRepayment` (the ledger entry, idempotent by source,
  whose failure is only logged) and by the listener `AppliedRead`, `CheckRead`,
  `Complete`. `PenaltyRead`, `Penalise`, `PostPenalty`: penalties, which reach the
  account whatever it has become. `SweepRead`, `ChargeDelay`, `PostDelay`: delay charges.
* **`Branches`.** `ProposeBranch` ... `OpenBalance` create the branch and, by an
  event, its balance document; `AssignRead`, `CloseAssignment`, `OpenAssignment`,
  `MoveStaff` are `applyAssignment`; `DeactivateOthers`, `AddAccount`, `SetAccount`
  the bank accounts; `RecordFunding`, `VerifyFunding` (a transaction with the credit),
  `RejectFunding`, `WriteDispute` the fundings; `DeleteBranch`, `DeleteBelongings`
  the deletion with its cascade.
* **`Customers`.** Two documents per customer: the record and the `KycRecord`, unique
  per BVN. The decision on a request and its listener, the recomputation of the KYC
  status, the flags and their resolution, the edit privilege and the deletion are
  separate reads and writes.
* **`Groups`.** The proposal with its payload versions; `requests` are the additions,
  removals and reassignments; `memberships` are rows that are closed, never deleted;
  `Clashes` is the pair of partial unique indexes. `LockGroup`, `UnlockGroup`,
  `RevertGroup` are the writes of the group's status that repeat no check.
* **`Leave`.** A leave application and its request, decided once, the status its
  listener writes whatever it has become, and then the transactions that use and
  give back days, guarded by `balanceApplied`; salary records that are closed and
  opened by an activation.
* **`Products`, `Schedules`.** Proposals whose payload is computed when they are
  made and written when they are approved. `Schedules` has the schedules in kobo with
  the code's rounding, one operator for each line of the loop; the annuity is a quotient
  of integers where the code computes in floating point. `Ample` is the principal from
  which the roundings cannot outweigh what an installment repays.
* **`Access`, `Staff`.** `Routes` are all guarded routes with the capabilities and
  modules they require and the type of request they open. `Staff` moves the accounts,
  the matrix, the module access and one onboarding request behind those guards; a
  caller is judged by the role in the token.
* **`Sessions`.** Tokens and challenges as documents; a login (`challenge`, `consume`,
  `issue`), a rotation (`revoke`, `issue`), a reset and a change of password
  (`set_password`, `revoke_all`) as the sequences of writes they are.
* **`Notifications`.** `job` is the queue by name, external: one job per name, a retry
  after a throw, a requeue after the first stall, removal when finished. The worker
  writes the copies, sends over each channel, completes or fails; `OnFailed` writes
  the dead letter; `DrainFind`, `DrainEnqueue`, `DrainMark` are `drain`; `Crash`
  stops the process.

## 3. Runs

Every run passes. Two call slots are enough for each race below, which needs one
call that has read and one that writes; a third call only repeats the role of one of
them. Slots, and identities no guard tells apart, are symmetric, except in the two runs
that check liveness (`loan`, `notifications`). `CHECK_DEADLOCK FALSE` is said everywhere: with its
identifiers used up and every call ended, the system has nothing left to do, and
that is a legitimate end.

| Run | Instance | Shows |
| --- | --- | --- |
| `engine` | a maker, a reviewer and an approver, chains of one to three steps, two payload versions | status and step records agree; only entitled staff act; decisions, payloads and events stand; the engine implements `Approval` |
| `loan` | one loan, two customers, three units of money | all borrowers or none, after approval, only cleared ones, and debited; a loan whose borrowers have passed is disbursed |
| `repayments` | two repayments as large as the debt, one penalty period | the account implements `Debt`; approved is applied; what a reversal gives back was taken |
| `liquidation` | one request, two repayments of one or two units, one penalty, one delay charge | a completion was paid by a linked repayment; the account implements `Debt`; the ledger has one entry for each event |
| `branches` | two nominees, two bank accounts, two fundings, at most four records at once | the balance is the verified fundings; a manager is only replaced; decisions stand |
| `customers` | two records of one person, two requests | active was vetted; verified is earned; one record per BVN |
| `groups` | three customers, two founders, two requests, two payloads | memberships and leaders unique; members vetted; nobody leaves undecided |
| `leave` | two applications and two salaries, two days, two dates | days used are those of the leave that counts, which is the approved one but for dead calls and reversals before their use; one open salary record |
| `products` | three proposals on one fee, one product, one versioned record; principals at and around the rounding boundaries, below and above an ample one, six terms, a rate of 250 % among them | recurring fees have an interval; schedules add up; product and chain agree |
| `staff` | two Super Admins, two managers of either user type, a newcomer, one tracked capability, two edits | elevated accounts have a sponsor; marketers initiate; duties separated |
| `sessions` | three tokens, a login and a reset code, two attempts | rotated and ended sessions stay dead |
| `notifications` | one addressee, one Super Admin, one backlog entry, two drains, two attempts, two crashes | every accepted job is sent or has a dead letter; what was read stays read |

*Bounds, and why they are enough.* Two documents of a kind meet every uniqueness check
and every "close the old, open the new"; two repayments of the whole debt make one of
them an overpayment, so capping, closing and reopening happen in each order; two of
the group's requests collide on one member or one role; three tokens hold a session, its rotation and a
concurrent rotation; two attempts separate a retry from a last attempt; a second
crash on one job is what loses it. In `branches` bank accounts, fundings and
assignments are four at most (`FewRecords`), so that each kind meets each other and two
of a kind meet any two more. In `liquidation` a penalty meets one repayment, with the
request and its delay charge (`PenaltyMeetsOne`): two repayments with penalties are the
run `repayments`, whose `Apply` and `Reverse` are the same. In `repayments` at most one call dies
(`OneStalled`), and in `branches` a slot whose call died is not used again: a second death only adds to what the property already excuses, and
without these bounds the runs take too long. In `staff` capabilities that
are not tracked stay as seeded; what `DutiesSeparated` says of a matrix that has been
edited arbitrarily comes from `Keeps`, which no edit of the matrix reaches.

*Fairness.* `LoanLifecycle.FairSpec` gives each call weak fairness on `Proceed(c)`, its
next step: Node resumes a call whose await has settled. It does not oblige anybody
to make a call, and `Abandon` is not fair nor excluded, so `PassedIsDisbursed`
excuses the loans on which a call died or was refused funds (`stalled`).
`Notifications` has strong fairness on `Work(j)` (BullMQ gives the worker each waiting
job sooner or later although crashes disable it again and again) and weak fairness
on `Handle(j)` (the failure handler, once called, runs to its end); nobody is obliged
to drain, and providers may fail for ever. The other modules need no fairness.

*Mutants.* Each property has a definition beside the one it replaces ("Mutant of ...")
that changes the model as a plausible bug would: a dropped filter, a check of the
wrong document, a missing reset. Under it the run finds the property violated.

### What the code does not keep

Building the models met behaviour that a reader might take for granted, or that a
comment states, and that does not hold. The properties above are stated as what does
hold; these are the reasons for their exceptions.

* **Engine.** One person may act on two steps of one chain: the check at
  `workflow-engine.service.ts:281` is on the document that was read, and a return with
  a resubmission restores status and index. A `resubmit` whose read is stale restores
  the approvals of a submission that has been rejected and restarted since, against
  lines 500-504 ("a fresh review cycle"). `cancel` emits an event its doc comment
  does not mention.
* **Loans.** The lock "once acted on" (`loans.service.ts:590`) is checked at the read;
  the total drifts from the principals when an edit stops half-way (658, against 603);
  a rejection that was decided on an older verification overwrites a disbursed loan
  (515); a verification that read the loan before its rejection brings it back and may
  disburse it (`loan-verification.service.ts:139`); a retry that overlaps debits the branch a second time
  (470, against 359, "idempotent").
* **Repayments.** `overpaymentAmountKobo` keeps what an earlier application found
  (`repayments.service.ts:404`); a rejection may leave an applied repayment (315);
  `syncCompletionStatus` may write a status that is no longer true; the sweep may
  charge an account closed meanwhile (`penalty-sweep.service.ts:308`).
* **Liquidation.** A completion zeroes the balance whatever penalties were added, and
  a penalty read before makes a CLOSED account owe again without reopening it; a
  repayment linked after it was applied never completes its request; a delay charge may land between the
  check and the completion; a failed posting is logged and never repeated, and a
  reversal is not posted, so the ledger keeps the first amount.
* **Branches.** Two bank accounts may be active (against `branch-bank-accounts.service.ts:10-17`);
  a dispute may be raised on a funding decided meanwhile; the counts before a deletion
  are reads.
* **Customers.** Two submissions may both be accepted; a late RESUBMITTED overwrites
  ACTIVE; a recomputation may overwrite VERIFIED with what it read, so the status does
  not always clear (`customer.service.ts:922`, against 901); an edit privilege
  may be used twice; a customer approved meanwhile may be deleted; a returned
  request has no way forward.
* **Groups.** A late PENDING overwrites a decision (`groups.service.ts:528`); two
  additions may be pending (552); a removal may be decided although the member has
  since raised a loan (611); a returned or failed addition leaves the group PENDING;
  a member is lost when the second half of a reassignment collides or dies; a leader by reassignment need not be an
  approved customer, nor a founder of a payload replaced after its validation (171).
* **Sessions.** Two rotations of one token leave two live successors; attempts at a
  code are counted from what was read; one code may be consumed twice; a login
  challenge outlives a change of password; a token whose reads came before a
  disabling is issued after it.
* **Leave.** A cancelled application may still be APPROVED, since its request stays
  open; a cancellation whose reversal comes before the use of the days leaves them used
  (`premature`); a salary
  may take effect before its predecessor did.
* **Products.** Two overlapping updates of a product, or a stop, leave its chain with
  other steps (`loan-products.service.ts:328`); two overlapping approvals leave two ACTIVE
  versions, or a stop none (`versioned-config.service.base.ts:83-86`); "reducing-balance
  is always cheaper than flat by construction" (`interest-schedule.ts:111`) is so from an
  ample principal on: at 750 % over three installments 9 kobo cost 69, and flat 68.
* **Staff and access.** "Only Initiator can initiate ... across every single workflow
  entity type" (`rbac.service.ts:63-65`) is not so for leave applications, salary
  proposals, reassigned leadership and manual journal entries, whose routes ask for
  something else. Two overlapping edits of a profile leave a marketer AUTHORIZER. A
  role in a token outlives a demotion. An approver may approve a payload resubmitted
  since it was read. Reconciliation gives back what an administrator took away.
* **Notifications.** A retry sends again over the channel that worked; a second event
  of the same type, source and recipient is absorbed while the first is queued; a
  crash between the removal of a job and its dead letter loses it; a drain whose job
  has completed sends again, since completed jobs are removed.

## 4. Proofs

Eight modules prove, for every value of the constants (any number of staff, loans,
tokens, calls in flight, any amounts):

| Module | Theorem | States |
| --- | --- | --- |
| `WorkflowEngine_proofs` | `TypeCorrect` | `TypeOK` |
| | `ApprovalIsComplete` | `StepsFollowStatus` |
| | `OnlyEntitledActors` | `ActorsEntitled` |
| | `DecisionsAreFinal` | `DecisionIsFinal` |
| | `OutcomesAgree` | `OutcomeEventsAgree` |
| | `PayloadStable` | `PayloadStableUnderApproval` |
| | `EngineImplementsApproval` | `ImplementsApproval` |
| `LoanLifecycle_proofs` | `LoansAreWellTyped` | `TypeOK` |
| | `GroupsAreDisbursedWhole` | `AllOrNothing` |
| | `NoMoneyWithoutApproval` | `ApprovedFirst` |
| | `OnlyThePassedArePaid` | `OnlyClearedBorrowers` |
| | `MoneyMovesWithTheAccounts` | `ActiveIsDebited` |
| `Repayments_proofs` | `RepaymentsImplementDebt` | `ImplementsDebt` |
| | `SettledAccountsAreClosed` | `SettledIsClosed` |
| | `ApprovedIsApplied` | `RestingApprovedIsApplied` |
| | `DebtIsNeverInflated` | `DebtNeverInflated` |
| | `ActiveCustomersWereVetted` | `ActiveWasVetted` |
| | `VerifiedIsEarnedAlways` | `VerifiedIsEarned` |
| | `RecordsArePersons` | `OneRecordPerPerson` |
| `Liquidation_proofs` | `LiquidationsArePaid` | `CompletedWasPaid` |
| | `LiquidationsImplementDebt` | `ImplementsDebt` |
| | `ClosedAccountsStay` | `ClosedStaysClosed` |
| | `EntriesStay` | `PostedOnce` |
| `Branches_proofs` | `ManagersAreReplaced` | `ManagerIsReplaced` |
| | `DecisionsStand` | `DecisionStands` |
| | `FundingsAreCreditedOnce` | `CreditedOnce` |
| | `FeeFrequencyIsWhole` | `RecurringHasInterval` |
| | `ApprovalsLeaveInStep` | `InStepUnlessDisturbed` |
| | `SchedulesOfTheCatalogueAddUp` | `SchedulesAddUp` |
| | `FlatSchedulesAddUp`, `ReducingSchedulesAddUp`, `ReducingLoansCostLess`, `InstallmentsFallDueInOrder`, `AllTermsAreSound` | its parts, without a state |
| `Groups_proofs` | `MembershipsAreUnique` | `OneMembershipEach` |
| | `MembersAreCustomers` | `MembersWereApproved` |
| | `MembersStay` | `MembersLeaveByDecision` |
| `Staff_proofs` | `ElevatedAccountsHaveSponsors` | `ElevatedBySponsor` |
| | `MarketersAreInitiators` | `MarketersInitiate` |
| | `DutiesAreSeparated` | `DutiesSeparated` |
| | `RotatedTokensAreRevoked` | `RotatedIsRevoked` |
| | `OldSessionsAreOver` | `NoSessionSurvives` |
| | `UsageFollowsDecisions` | `UsageIsCharged` |
| | `OneSalaryAtATime` | `SalaryHistory` |
| | `ReadCopiesStay` | `ReadStaysRead` |

The eighth module, `SumTheorems`, holds the lemmas about sums.

*Assumptions.* Only those on the constants, named where they are declared
(`LoanConstants`, `StaffConstants`, ...): identities differ from `None`, amounts are
positive naturals, chains are what `validateSteps` accepts, terms are what the checks
on a product accept, a seeded marketer is an initiator. Where money or days are summed
(loans and members, repayments, fundings, leave applications) the set is finite, as any
collection is. TLC evaluates each on its instance.

*Argument.* No property is inductive, because a write depends on what its call read
some steps before. Each component has an inductive invariant (`IInv`, `CustomerIInv`, ...),
checked with TLC before it was proved:
the property, what the documents owe each other, and for each call in flight what it may still
rely on when it writes (`CallsInv`, and in it `Fit` or its like). The proof of a step
is then twofold: the call that steps finds its reads confirmed by `Fit`; every other
call keeps its `Fit`, because what it relies on is `Steady`, something no step of
anybody undoes (a document that exists, a decision, an approved payload, a cleared borrower, an
amount). Where two calls must not do the same, the invariant says that at most one is
under way (`OneInitiates`, `OneCreates`, `EditorsOverlap`, `Lone`).

* *Engine.* `DecidedGood`: the filter on status and index is enough for a stale
  verdict to leave a consistent document, since all steps before the index are
  approved and all later ones untouched in the document that was read *and* in the
  stored one. `ResubmittedGood` does the same for `resubmit`. `NothingMatches`: no
  pending filter matches a decided request.
* *Refinement.* `Approval` has a phase (open, approved, rejected, ...), who has signed each step
  and the payload that counts; the mapping reads them off the document and forgets
  calls, indices and events. `EngineImplementsApproval` shows from `IInv` that each
  commit whose filter matches is a step of the abstract process and every other step
  stutters. The other modules use the engine as `Approval` describes it: an open request
  is decided or withdrawn once, and the listener runs after it, or never.
* *One debt, refined twice.* `Debt` knows an amount owed, a status, the payments that
  count and what giving each back returns. The transactions are its steps: `Apply` is
  `Pay`, `Reverse` `GiveBack`, `Charge` `Add`, `Complete` `Settle`; a transaction that
  finds its work done, and every other read and write, stutters. For `Repayments` this
  follows from `IInv` and `LedgerInv`. For `Liquidation`, where a request must settle at
  most once, it needs that no decision overwrites a completion: `OnceInv` says that a
  request awaiting its decision is either open or in the hands of a single call, and
  that only decided requests are linked to, charged, checked and completed. Two
  properties are consequences of the refinement and are proved directly as well, each from its component's
  invariant: `SettledIsClosed` and `ClosedStaysClosed`. The runs check the refinement.
* *Sums.* The provers cannot use the induction theorems of the library, which take an
  operator; `NatInductiveSet` takes a set instead (by a smallest counterexample), and
  from it `SumTheorems` has what a sum over a finite set does when one value changes
  (`SumUpdate`), how sums compare (`SumMonotone`), sums whose partial sums are known
  or bounded (`SumBySteps`, `SumWithin`), and the existence of a function defined by
  recursion on `0..n` (`RecursionExists`).
* *Loans.* `BorrowersOwe`, `UnraisedIsBare`, `EscalatedIsRaised` and `PassedIsCleared`
  tie accounts and verifications to a raised loan; `Fit` keeps for a pending
  disbursement that the loan was approved and its borrowers cleared. The invariant of the money (`MoneyInv`) says that
  a debit only follows a loan with something to pay out and that what is
  active was part of it.
* *Repayments.* `OverWithinAmount` keeps a reversal from taking, and `ApprovedIsAttended` says
  that each approved and unapplied repayment has a call that will apply it or one that died.
  For `DebtNeverInflated` the invariant carries the ledger (`LedgerInv`): balance plus what the applied
  repayments took, summed over all records, against the opening balance and penalties.
* *Customers.* What is vetted is tied to a request (`RequestFits`), what a call
  carries to what it has read (`CustomerCallFits`). Once submitted, a customer keeps the
  biometric until the deletion begins (`Kept`), and the `KycRecord` is unique per BVN, so two
  vetted customers mean a deletion. The call that will make that record is the only one on
  its customer, captures and deletions apart (`Lone`).
* *Liquidation.* `Fit` of a completion: a repayment linked to the request and applied
  before covers what was payable at the proposal, whatever charges come in between
  (`Payable` is constant). `PostInv`: what is about to be posted has been applied, or
  charged. `ClosedStaysClosed` is proved only.
* *Branches.* `ManagerIsReplaced` with the shape of the calls; `DecisionsStand` because
  every write to a funding's status filters on what is pending; `CreditedOnce` because
  that write and the credit are one transaction, and because the balance document starts
  at nothing, before any funding can be verified.
* *Catalogue.* `PayloadsInv`: each pending request carries both fields of the frequency or
  neither, and a product is proposed with steps and terms. `QuietInv`: undisturbed, at most
  one approval per family is under way and none has died. `ChainInv` and `ActiveInv`: the
  chain and the active version then lag only by what that approval is about to write.
* *Schedules.* The loop's recurrence is turned into equations (`OpeningsExist`); the partial
  sums of the principal are what the balance has come down by. That the annuity covers the interest
  (`AmountCoversInterest`) comes from (1 + r)^n > 1 and the monotonicity of rounding, so
  no installment repays less than nothing: the guard against it
  (`interest-schedule.ts:157`) never acts. `TermsInv`: a product has terms from its
  creation on, whatever updates of it are approved.
* *What roundings add up to* (`ReducingLoansCostLess`). Each installment is off by at
  most half a kobo of interest and half a kobo of annuity, and what a balance is off by
  grows by the rate each period: `LastIsOwed` follows a balance with exactly that error,
  as an inequality between integers, and an ample principal, 4 n² (1 + r)^n, outweighs
  it before the last installment. So the last balance, which is the least, is not
  negative. For the cost, `FirstRepays` bounds from below what the first installment
  repays, c, by a second-order bound on (1 + r)^n (`BernoulliStep`), and no later one
  repays less. If the flat interest on c is a kobo, the interest saved on later
  installments outweighs their roundings (`InterestWithin`). Otherwise a period bears
  less than a kobo and a half: then either n is no more than the flat interest, or the
  installments that bear a kobo are fewer than it (`FewInstallments`, a quadratic
  inequality in the principal).
* *Groups.* `OneRowEach` and `OneHolder` restate uniqueness without cardinality;
  `BirthInv` and `NamedInv` relate the group to the payload and the requests that name its members.
* *Sessions.* `ParentsRevoked` and `EarlierRevoked`: a token with a successor, and one
  from before the last revocation of all, is revoked, and no call that has read it active
  can make it so again.
* *Staff.* `RequestInv`: a proposed ADMIN or APPROVER was proposed by whoever may;
  `Fit` of a creation: an approved payload is not rewritten; `EditorsOverlap`: two edits of one
  profile put the account among the overlapped. `DutiesSeparated` is shown route by route
  from what the narrowing leaves of any set of capabilities.
* *Leave.* An application counts exactly while `applied`, and each write that sets or clears
  it moves the sum by its days. `ReversalInv`: what counts, or is about to, is APPROVED or
  has its reversal ahead of it, but for the `premature` ones; it rests on an application
  being decided once. A closed salary record ends where the next begins, since an
  activation closes the open record and inserts its own in one transaction, and each
  proposal is activated by at most one call (`ActivationInv`).
* *Inboxes.* `ReadStaysRead` needs only that copies are copies: the upsert of a later
  attempt writes nothing when the copy exists.

*Only model-checked.* Liveness (`PassedIsDisbursed`, `EveryJobIsAnswered`): fairness
and ENABLED are out of the prover's reach. Every other property a run checks has a theorem.

## 5. Plan

Done: the engine with its abstract specification and the refinement; loans;
repayments and liquidations with theirs; branches, groups, customers; leave and salaries; products,
schedules, versioned configuration; authentication, staff, access; notifications; a
theorem for every safety property.

What would add most, in this order:

1. An abstract specification of an inbox, refined as the engine refines `Approval`.
2. A run with two loans of one customer: the check of one open loan
   (`loans.service.ts:281`) is a read before the transaction.
3. Consent codes and fee payments of loans; the ledger postings and transfers
   after a disbursement.
4. `Sessions` composed with `Staff`: the role in a token, its renewal, the revocation.

## 6. Not modelled

* **Loans**: consent codes, fee payments (one upsert and its posting, which keeps the
  first amount), group eligibility: the guards of `raiseApplication` that read them
  are dropped, so the model raises more loans than the code, never fewer. Cheque
  handover, which sets a date. Two loans at once (see the plan).
* **Money after the commit of a disbursement**: ledger postings, transfers. Reversals
  are not posted by the code.
* **Accounting**: manual entries (validated when proposed, posted when approved),
  the chart of accounts, the trial balance (reads without a snapshot).
* **Groups**: the privilege to edit a group, the eligibility query. **Customers**: the
  identity document and the NIN, which nothing modelled reads; the uniqueness of phone numbers.
* **Branches**: role assignments, which repeat the manager's; branch requests; nudges.
* **HR**: the CRUD of leave types. **Products**: penalty rules, the fee list
  of a product, the switching off of a fee or product.
* **Staff**: compliance data, documents, BVN updates; departments and units (one
  document each, with a uniqueness check).
* **Notifications**: which listener addresses whom, the templates.
* **Organisation, reference data, reports, risk, audit**: reads, or writes of one
  document as a whole, from which nothing else decides.
* **Integrations, encryption, seeds, bootstrap, validation of bodies**: adapters and
  framework code; the answers of external services are nondeterministic.
