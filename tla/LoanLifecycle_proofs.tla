------------------------ MODULE LoanLifecycle_proofs ------------------------
(***************************************************************************)
(* Theorems about the loans of a branch, for any number of loans, members  *)
(* and calls in flight, and every request body.                            *)
(***************************************************************************)
EXTENDS LoanLifecycle, SumTheorems, TLAPS

\* A sum of amounts asked for is an amount, and it is at least each of them.
LEMMA TotalType ==
    ASSUME NEW ask \in [Members -> Nat]
    PROVE  Total(ask) \in Nat /\ \A m \in Members : Total(ask) >= ask[m]
BY LoanConstants, SumOfNaturals DEF Total

LoanType == [status : LoanStatuses, amount : Nat]

AccountType == [status : AccountStatuses, principal : Nat]

Verdicts == {"NONE", "PASSED", "ESCALATED"}

Workflows == {"NONE", "PENDING_REVIEW", "PENDING_APPROVAL", "APPROVED",
              "REJECTED", "RETURNED_TO_MAKER", "WITHDRAWN"}

CallType == [op : Ops, loan : Loans \union {None}, member : Members \union {None},
             ask : [Members -> Nat], amount : Nat]

TypeInv ==
    /\ loans \in [Loans -> LoanType]
    /\ accounts \in [Loans -> [Members -> AccountType]]
    /\ verifications \in [Loans -> [Members -> Verdicts]]
    /\ workflow \in [Loans -> Workflows]
    /\ cleared \in [Loans -> SUBSET Members]

Raised(l) == loans[l].status # "ABSENT"

\* Exactly the members with a principal have an account.
BorrowersOwe ==
    \A l \in Loans, m \in Members : accounts[l][m].principal # 0 <=> m \in Borrowers(l)

\* A loan that was not raised has no accounts and no request.
UnraisedIsBare ==
    \A l \in Loans : ~Raised(l) => Borrowers(l) = {} /\ workflow[l] = "NONE"

EscalatedIsRaised ==
    \A l \in Loans, m \in Members : verifications[l][m] = "ESCALATED" => Raised(l)

PassedIsCleared ==
    \A l \in Loans, m \in Members : verifications[l][m] = "PASSED" => m \in cleared[l]

DocsInv ==
    /\ TypeInv
    /\ BorrowersOwe
    /\ UnraisedIsBare
    /\ EscalatedIsRaised
    /\ PassedIsCleared
    /\ AllOrNothing
    /\ ApprovedFirst
    /\ OnlyClearedBorrowers

\* What a call in flight may rely on: its loan was raised; the request of a loan
\* about to be initiated does not exist; what follows an approval follows an
\* approval that stands; a disbursement has every borrower, and they all passed.
Fit(call) ==
    /\ call.op \notin {"idle", "raise"} => call.loan \in Loans /\ Raised(call.loan)
    /\ call.op \in {"begin", "compare", "override"} => call.member \in Members
    /\ call.op = "initiate" => workflow[call.loan] = "NONE"
    /\ call.op \in {"approved", "begin", "disburse"} => workflow[call.loan] = "APPROVED"
    /\ call.op = "disburse" => /\ Borrowers(call.loan) \subseteq Named(call.ask)
                               /\ Named(call.ask) \subseteq cleared[call.loan]

\* Only the call that raised a loan initiates its request.
OneInitiates ==
    \A c, d \in Calls :
        calls[c].op = "initiate" /\ calls[d].op = "initiate" /\ calls[c].loan = calls[d].loan
            => c = d

CallsInv ==
    /\ calls \in [Calls -> CallType]
    /\ \A c \in Calls : Fit(calls[c])
    /\ OneInitiates

IInv == DocsInv /\ CallsInv

-----------------------------------------------------------------------------
\* What no step undoes: a raised loan stays raised and gets no further
\* borrowers, an approval stands, and a member who was cleared was cleared.
Steady ==
    \A l \in Loans :
        /\ Raised(l) => Raised(l)' /\ Borrowers(l)' \subseteq Borrowers(l)
        /\ workflow[l] = "APPROVED" => workflow'[l] = "APPROVED"
        /\ cleared[l] \subseteq cleared'[l]

\* A steady step keeps what a call that does not move may rely on.
LEMMA FitKept ==
    ASSUME IInv, Steady, NEW d \in Calls, calls'[d] = calls[d],
           calls[d].op = "initiate" => workflow'[calls[d].loan] = "NONE"
    PROVE  Fit(calls[d])'
BY DEF IInv, CallsInv, CallType, Fit, Steady

\* A step of one call, other than the two that concern initiation.
LEMMA CallsKept ==
    ASSUME IInv, Steady, NEW c \in Calls, NEW k \in CallType,
           calls' = [calls EXCEPT ![c] = k],
           k.op # "initiate",
           \A l \in Loans : workflow[l] = "NONE" => workflow'[l] = "NONE",
           Fit(calls[c])'
    PROVE  CallsInv'
<1>1. /\ calls' \in [Calls -> CallType]
      /\ calls'[c] = k
      /\ \A d \in Calls \ {c} : calls'[d] = calls[d]
  BY DEF IInv, CallsInv
<1>2. ASSUME NEW d \in Calls, d # c
      PROVE  Fit(calls[d])'
  <2>1. calls[d].op = "initiate" => workflow'[calls[d].loan] = "NONE"
    BY DEF IInv, CallsInv, Fit
  <2>. QED  BY <1>1, <1>2, <2>1, FitKept
<1>3. OneInitiates'
  BY <1>1 DEF IInv, CallsInv, OneInitiates
<1>. QED  BY <1>1, <1>2, <1>3 DEF CallsInv

\* A step of the engine or of another module, that moves no call.
LEMMA CallsUnmoved ==
    ASSUME IInv, Steady, calls' = calls,
           \A l \in Loans : workflow[l] = "NONE" => workflow'[l] = "NONE"
    PROVE  CallsInv'
<1>1. ASSUME NEW d \in Calls
      PROVE  Fit(calls[d])'
  <2>1. calls[d].op = "initiate" => workflow'[calls[d].loan] = "NONE"
    BY DEF IInv, CallsInv, Fit
  <2>. QED  BY <2>1, FitKept
<1>. QED  BY <1>1 DEF IInv, CallsInv, OneInitiates

-----------------------------------------------------------------------------
Docs == <<loans, accounts, verifications, workflow, cleared>>

\* No document that matters here is written.
LEMMA QuietDocs ==
    ASSUME IInv, UNCHANGED Docs
    PROVE  DocsInv' /\ Steady
BY DEF Docs, IInv, DocsInv, TypeInv, BorrowersOwe, UnraisedIsBare, EscalatedIsRaised, PassedIsCleared,
       AllOrNothing, ApprovedFirst, OnlyClearedBorrowers, Steady, Raised, Borrowers, IsActive

\* One loan that was raised is written, and only its status and amount.
LEMMA LoanStep ==
    ASSUME IInv, NEW x \in Loans, NEW loan \in LoanType, Raised(x),
           loans' = [loans EXCEPT ![x] = loan],
           UNCHANGED <<accounts, verifications, workflow, cleared>>,
           loan.status # "ABSENT",
           loan.status \in {"APPROVED", "VERIFICATION_IN_PROGRESS", "DISBURSED"}
              => workflow[x] = "APPROVED"
    PROVE  DocsInv' /\ Steady
<1>1. \A l \in Loans : loans'[l] = IF l = x THEN loan ELSE loans[l]
  BY DEF IInv, DocsInv, TypeInv
<1>2. TypeInv'
  BY DEF IInv, DocsInv, TypeInv
<1>3. Steady
  BY <1>1 DEF Steady, Raised, Borrowers
<1>4. BorrowersOwe' /\ PassedIsCleared' /\ AllOrNothing' /\ OnlyClearedBorrowers'
  BY DEF IInv, DocsInv, BorrowersOwe, PassedIsCleared, AllOrNothing, OnlyClearedBorrowers,
         Borrowers, IsActive
<1>5. UnraisedIsBare' /\ EscalatedIsRaised'
  BY <1>1 DEF IInv, DocsInv, UnraisedIsBare, EscalatedIsRaised, Raised, Borrowers
<1>6. ApprovedFirst'
  BY <1>1 DEF IInv, DocsInv, ApprovedFirst, IsActive
<1>. QED  BY <1>2, <1>3, <1>4, <1>5, <1>6 DEF DocsInv

\* The request of a loan moves on from a status that is neither NONE nor APPROVED.
LEMMA WorkflowStep ==
    ASSUME IInv, NEW x \in Loans, NEW status \in Workflows,
           workflow[x] \notin {"NONE", "APPROVED"},
           workflow' = [workflow EXCEPT ![x] = status],
           UNCHANGED <<loans, accounts, verifications, cleared>>
    PROVE  /\ DocsInv' /\ Steady
           /\ \A l \in Loans : workflow[l] = "NONE" => workflow'[l] = "NONE"
<1>1. \A l \in Loans : workflow'[l] = IF l = x THEN status ELSE workflow[l]
  BY DEF IInv, DocsInv, TypeInv
<1>2. TypeInv'
  BY DEF IInv, DocsInv, TypeInv
<1>3. Steady
  BY <1>1 DEF Steady, Raised, Borrowers
<1>4. BorrowersOwe' /\ PassedIsCleared' /\ AllOrNothing' /\ OnlyClearedBorrowers'
  BY DEF IInv, DocsInv, BorrowersOwe, PassedIsCleared, AllOrNothing, OnlyClearedBorrowers,
         Borrowers, IsActive
<1>5. UnraisedIsBare' /\ EscalatedIsRaised'
  BY <1>1 DEF IInv, DocsInv, UnraisedIsBare, EscalatedIsRaised, Raised, Borrowers
<1>6. ApprovedFirst'
  BY <1>1 DEF IInv, DocsInv, ApprovedFirst, IsActive
<1>. QED  BY <1>1, <1>2, <1>3, <1>4, <1>5, <1>6 DEF DocsInv

-----------------------------------------------------------------------------
LEMMA IdleFits ==
    /\ Idle \in CallType /\ Idle.op = "idle"
    /\ \A c \in Calls : calls'[c] = Idle => Fit(calls[c])'
BY DEF Idle, Call, NothingAsked, CallType, Ops, Fit

\* A call that has nothing but its loan and its member to remember.
LEMMA PendingTypes ==
    ASSUME NEW op \in Ops, NEW l \in Loans \union {None}, NEW m \in Members \union {None}
    PROVE  /\ Pending(op, l, m) \in CallType
           /\ Pending(op, l, m).op = op
           /\ Pending(op, l, m).loan = l
           /\ Pending(op, l, m).member = m
BY DEF Pending, Call, NothingAsked, CallType

LEMMA InitInv == Init => IInv
<1>. SUFFICES ASSUME Init PROVE IInv
  OBVIOUS
<1>1. NoAccount \in AccountType /\ NoAccount.status = "ABSENT" /\ NoAccount.principal = 0
  BY DEF NoAccount, AccountType, AccountStatuses
<1>2. TypeInv
  BY <1>1 DEF Init, TypeInv, LoanType, LoanStatuses, Verdicts, Workflows
<1>3. \A l \in Loans : Borrowers(l) = {} /\ workflow[l] = "NONE" /\ ~Raised(l)
  BY <1>1 DEF Init, Borrowers, Raised
<1>4. BorrowersOwe /\ UnraisedIsBare /\ EscalatedIsRaised /\ PassedIsCleared
  BY <1>1, <1>3 DEF Init, BorrowersOwe, UnraisedIsBare, EscalatedIsRaised, PassedIsCleared
<1>5. AllOrNothing /\ ApprovedFirst /\ OnlyClearedBorrowers
  BY <1>1 DEF Init, AllOrNothing, ApprovedFirst, OnlyClearedBorrowers, IsActive
<1>6. CallsInv
  BY IdleFits DEF Init, CallsInv, Fit, OneInitiates
<1>. QED  BY <1>2, <1>4, <1>5, <1>6 DEF IInv, DocsInv

-----------------------------------------------------------------------------
\* What happens to a loan and its request outside the calls of this module.
LEMMA ExternalInv ==
    ASSUME IInv,
           Credit \/ (\E l \in Loans : Review(l) \/ Withdraw(l))
    PROVE  IInv'
<1>1. CASE Credit
  <2>1. UNCHANGED Docs /\ calls' = calls
    BY <1>1 DEF Credit, Docs
  <2>. QED  BY <2>1, QuietDocs, CallsUnmoved DEF IInv, Docs
<1>2. ASSUME NEW l \in Loans, Review(l) \/ Withdraw(l)
      PROVE  IInv'
  <2>1. PICK status \in Workflows : workflow' = [workflow EXCEPT ![l] = status]
    BY <1>2 DEF Review, Withdraw, Workflows
  <2>2. /\ workflow[l] \notin {"NONE", "APPROVED"}
        /\ UNCHANGED <<loans, accounts, verifications, cleared, calls>>
    BY <1>2 DEF Review, Withdraw
  <2>. QED  BY <2>1, <2>2, WorkflowStep, CallsUnmoved DEF IInv
<1>. QED  BY <1>1, <1>2

\* A call that enters its slot relies on what it has just read.
LEMMA EnterInv ==
    ASSUME IInv, NEW c \in Calls, NEW k \in CallType, Enter(c, k),
           k.op # "initiate",
           Fit(k)
    PROVE  IInv'
<1>1. UNCHANGED Docs /\ calls' = [calls EXCEPT ![c] = k]
  BY DEF Enter, documents, Docs
<1>2. calls'[c] = k
  BY <1>1 DEF IInv, CallsInv
<1>3. Fit(calls[c])'
  BY <1>1, <1>2 DEF Fit, Docs, Raised, Borrowers
<1>. QED  BY <1>1, <1>3, QuietDocs, CallsKept DEF IInv, Docs

LEMMA ReadInv ==
    ASSUME IInv,
           \/ \E c \in Calls, ask \in Asks : RaiseRead(c, ask)
           \/ \E c \in Calls, l \in Loans, ask \in Asks : EditRead(c, l, ask)
           \/ \E c \in Calls, l \in Loans : DeleteRead(c, l)
           \/ \E c \in Calls, l \in Loans, m \in Members : VerifyRead(c, l, m)
           \/ \E c \in Calls, l \in Loans, m \in Members, r \in {"override", "reject"} :
                 ResolveRead(c, l, m, r)
           \/ \E c \in Calls, l \in Loans : CheckRetry(c, l)
    PROVE  IInv'
<1>1. ASSUME NEW c \in Calls, NEW ask \in Asks, RaiseRead(c, ask)
      PROVE  IInv'
  <2>. DEFINE k == Call("raise", None, None, ask, 0)
  <2>1. k \in CallType /\ k.op = "raise"
    BY LoanConstants DEF Call, CallType, Ops
  <2>. QED  BY <1>1, <2>1, EnterInv DEF RaiseRead, Fit
<1>2. ASSUME NEW c \in Calls, NEW l \in Loans, NEW ask \in Asks, EditRead(c, l, ask)
      PROVE  IInv'
  <2>1. PICK amount \in Nat : amount = loans[l].amount
    BY DEF IInv, DocsInv, TypeInv, LoanType
  <2>. DEFINE k == Call("edit", l, None, ask, amount)
  <2>2. k \in CallType /\ k.op = "edit" /\ k.loan = l
    BY LoanConstants DEF Call, CallType, Ops
  <2>3. Fit(k)
    BY <1>2, <2>2 DEF EditRead, Fit, Raised
  <2>. QED  BY <1>2, <2>1, <2>2, <2>3, EnterInv DEF EditRead
<1>3. ASSUME NEW c \in Calls, NEW l \in Loans, DeleteRead(c, l)
      PROVE  IInv'
  <2>. DEFINE k == Pending("delete", l, None)
  <2>1. k \in CallType /\ k.op = "delete" /\ k.loan = l
    BY PendingTypes DEF Ops
  <2>. QED  BY <1>3, <2>1, EnterInv DEF DeleteRead, Fit, Raised
<1>4. ASSUME NEW c \in Calls, NEW l \in Loans, NEW m \in Members, VerifyRead(c, l, m)
      PROVE  IInv'
  <2>1. PICK op \in {"begin", "compare"} : Enter(c, Pending(op, l, m))
    BY <1>4 DEF VerifyRead
  <2>. DEFINE k == Pending(op, l, m)
  <2>2. k \in CallType /\ k.op = op /\ k.loan = l /\ k.member = m
    BY PendingTypes DEF Ops
  <2>3. Raised(l) /\ workflow[l] = "APPROVED"
    BY <1>4 DEF VerifyRead, Raised, IInv, DocsInv, ApprovedFirst
  <2>4. Fit(k)
    BY <2>2, <2>3 DEF Fit
  <2>. QED  BY <2>1, <2>2, <2>4, EnterInv
<1>5. ASSUME NEW c \in Calls, NEW l \in Loans, NEW m \in Members,
             NEW r \in {"override", "reject"}, ResolveRead(c, l, m, r)
      PROVE  IInv'
  <2>. DEFINE k == Pending(r, l, IF r = "override" THEN m ELSE None)
  <2>1. k \in CallType /\ k.op = r /\ k.loan = l /\ (r = "override" => k.member = m)
    BY PendingTypes DEF Ops
  <2>2. Raised(l)
    BY <1>5 DEF ResolveRead, IInv, DocsInv, EscalatedIsRaised
  <2>3. Fit(k)
    BY <2>1, <2>2 DEF Fit
  <2>. QED  BY <1>5, <2>1, <2>3, EnterInv DEF ResolveRead
<1>6. ASSUME NEW c \in Calls, NEW l \in Loans, CheckRetry(c, l)
      PROVE  IInv'
  <2>. DEFINE k == Pending("check", l, None)
  <2>1. k \in CallType /\ k.op = "check" /\ k.loan = l
    BY PendingTypes DEF Ops
  <2>2. Fit(k)
    BY <1>6, <2>1 DEF CheckRetry, LoanExists, Raised, Fit
  <2>. QED  BY <1>6, <2>1, <2>2, EnterInv DEF CheckRetry
<1>. QED  BY <1>1, <1>2, <1>3, <1>4, <1>5, <1>6

-----------------------------------------------------------------------------
\* The calls that write no document, or that die.
LEMMA StopInv ==
    ASSUME IInv, NEW c \in Calls, calls' = [calls EXCEPT ![c] = Idle],
           DocsInv', Steady,
           \A l \in Loans : workflow[l] = "NONE" => workflow'[l] = "NONE"
    PROVE  IInv'
<1>1. calls'[c] = Idle
  BY DEF IInv, CallsInv
<1>. QED  BY <1>1, IdleFits, CallsKept DEF IInv

\* A step after which call c has its loan, and maybe a member, to remember.
LEMMA PendingInv ==
    ASSUME IInv, NEW c \in Calls, NEW op \in Ops \ {"initiate", "disburse"},
           NEW l \in Loans, NEW m \in Members \union {None},
           calls' = [calls EXCEPT ![c] = Pending(op, l, m)],
           DocsInv', Steady,
           \A x \in Loans : workflow[x] = "NONE" => workflow'[x] = "NONE",
           Raised(l),
           op \in {"begin", "compare", "override"} => m \in Members,
           op \in {"approved", "begin"} => workflow'[l] = "APPROVED"
    PROVE  IInv'
<1>1. Pending(op, l, m) \in CallType /\ Pending(op, l, m).op = op
      /\ Pending(op, l, m).loan = l /\ Pending(op, l, m).member = m
  BY PendingTypes
<1>2. calls'[c] = Pending(op, l, m)
  BY <1>1 DEF IInv, CallsInv
<1>3. Fit(calls[c])'
  BY <1>1, <1>2 DEF Fit, Steady
<1>. QED  BY <1>1, <1>3, CallsKept DEF IInv

\* A step after which call c goes on to another operation on what it remembers.
LEMMA GoesOnInv ==
    ASSUME IInv, NEW c \in Calls, NEW op \in {"compare", "purge", "erase"},
           calls[c].op \notin {"idle", "raise"},
           op = "compare" => calls[c].op = "begin",
           calls' = [calls EXCEPT ![c] = [calls[c] EXCEPT !.op = op]],
           DocsInv', Steady,
           \A x \in Loans : workflow[x] = "NONE" => workflow'[x] = "NONE"
    PROVE  IInv'
<1>1. calls[c] \in CallType /\ Fit(calls[c])
  BY DEF IInv, CallsInv
<1>2. /\ [calls[c] EXCEPT !.op = op] \in CallType
      /\ [calls[c] EXCEPT !.op = op].op = op
      /\ [calls[c] EXCEPT !.op = op].loan = calls[c].loan
      /\ [calls[c] EXCEPT !.op = op].member = calls[c].member
  BY <1>1 DEF CallType, Ops
<1>3. PICK k \in CallType : /\ k = [calls[c] EXCEPT !.op = op]
                            /\ k.op = op
                            /\ k.loan = calls[c].loan
                            /\ k.member = calls[c].member
  BY <1>2
<1>4. calls'[c] = k
  BY <1>3 DEF IInv, CallsInv
<1>5. Fit(calls[c])'
  BY <1>1, <1>3, <1>4 DEF Fit, Steady, CallType
<1>. QED  BY <1>3, <1>5, CallsKept DEF IInv

-----------------------------------------------------------------------------
\* The events of the final approval and of a rejection follow the decision.
LEMMA DecideInv ==
    ASSUME IInv, NEW c \in Calls, NEW l \in Loans,
           NEW v \in {"APPROVED", "REJECTED", "RETURNED_TO_MAKER"}, Decide(c, l, v)
    PROVE  IInv'
<1>1. /\ workflow' = [workflow EXCEPT ![l] = v]
      /\ workflow[l] \notin {"NONE", "APPROVED"}
      /\ UNCHANGED <<loans, accounts, verifications, cleared>>
  BY DEF Decide, WorkflowWaits
<1>2. /\ DocsInv' /\ Steady
      /\ \A x \in Loans : workflow[x] = "NONE" => workflow'[x] = "NONE"
  BY <1>1, WorkflowStep DEF Workflows
<1>3. Raised(l) /\ workflow'[l] = v
  BY <1>1 DEF IInv, DocsInv, TypeInv, UnraisedIsBare
<1>4. CASE v = "APPROVED"
  <2>1. calls' = [calls EXCEPT ![c] = Pending("approved", l, None)]
    BY <1>4 DEF Decide, Continue
  <2>2. "approved" \in Ops \ {"initiate", "disburse"}
    BY DEF Ops
  <2>. QED  BY <1>2, <1>3, <1>4, <2>1, <2>2, PendingInv
<1>5. CASE v = "REJECTED"
  <2>1. calls' = [calls EXCEPT ![c] = Pending("reject", l, None)]
    BY <1>5 DEF Decide, Continue
  <2>2. "reject" \in Ops \ {"initiate", "disburse"}
    BY DEF Ops
  <2>. QED  BY <1>2, <1>3, <1>5, <2>1, <2>2, PendingInv
<1>6. CASE v = "RETURNED_TO_MAKER"
  BY <1>2, <1>6, StopInv DEF Decide, Continue
<1>. QED  BY <1>4, <1>5, <1>6

\* A status that may be written to a loan that was raised.
LEMMA StatusStep ==
    ASSUME IInv, NEW x \in Loans, NEW status \in LoanStatuses \ {"ABSENT"}, Raised(x),
           SetLoanStatus(x, status),
           UNCHANGED <<accounts, verifications, workflow, cleared>>,
           status \in {"APPROVED", "VERIFICATION_IN_PROGRESS", "DISBURSED"}
              => workflow[x] = "APPROVED"
    PROVE  DocsInv' /\ Steady
<1>1. loans[x] \in LoanType
  BY DEF IInv, DocsInv, TypeInv
<1>2. /\ [loans[x] EXCEPT !.status = status] \in LoanType
      /\ [loans[x] EXCEPT !.status = status].status = status
  BY <1>1 DEF LoanType
<1>3. loans' = [loans EXCEPT ![x] = [loans[x] EXCEPT !.status = status]]
  BY DEF SetLoanStatus, IInv, DocsInv, TypeInv
<1>. QED  BY <1>2, <1>3, LoanStep

\* The steps that write the status of the loan of their call.
LEMMA StatusInv ==
    ASSUME IInv, NEW c \in Calls,
           OnApproved(c) \/ RejectLoan(c) \/ DeleteLoan(c) \/ VerifyBegin(c)
    PROVE  IInv'
<1>1. PICK l \in Loans : l = calls[c].loan /\ Raised(l)
  BY DEF OnApproved, RejectLoan, DeleteLoan, VerifyBegin, IInv, CallsInv, Fit
<1>2. \A x \in Loans : workflow'[x] = workflow[x]
  BY DEF OnApproved, RejectLoan, DeleteLoan, VerifyBegin
<1>3. UNCHANGED loans => DocsInv' /\ Steady
  BY QuietDocs DEF OnApproved, RejectLoan, DeleteLoan, VerifyBegin, Docs
<1>4. CASE OnApproved(c)
  <2>1. workflow[l] = "APPROVED" /\ calls' = [calls EXCEPT ![c] = Idle]
    BY <1>1, <1>4 DEF OnApproved, Continue, IInv, CallsInv, Fit
  <2>2. DocsInv' /\ Steady
    BY <1>1, <1>3, <1>4, <2>1, StatusStep DEF OnApproved, LoanStatuses
  <2>. QED  BY <1>2, <2>1, <2>2, StopInv
<1>5. CASE RejectLoan(c)
  <2>1. DocsInv' /\ Steady
    BY <1>1, <1>3, <1>5, StatusStep DEF RejectLoan, LoanStatuses
  <2>2. \/ calls' = [calls EXCEPT ![c] = Idle]
        \/ calls' = [calls EXCEPT ![c] = Pending("close", l, None)]
    BY <1>1, <1>5 DEF RejectLoan, Continue
  <2>. QED  BY <1>1, <1>2, <2>1, <2>2, StopInv, PendingInv DEF Ops
<1>6. CASE DeleteLoan(c)
  <2>1. DocsInv' /\ Steady
    BY <1>1, <1>6, StatusStep DEF DeleteLoan, LoanStatuses
  <2>. QED  BY <1>2, <1>6, <2>1, StopInv DEF DeleteLoan, Continue
<1>7. CASE VerifyBegin(c)
  <2>1. workflow[l] = "APPROVED"
    BY <1>1, <1>7 DEF VerifyBegin, IInv, CallsInv, Fit
  <2>2. DocsInv' /\ Steady
    BY <1>1, <1>3, <1>7, <2>1, StatusStep DEF VerifyBegin, LoanStatuses
  <2>. QED  BY <1>2, <1>7, <2>2, GoesOnInv DEF VerifyBegin, Continue
<1>. QED  BY <1>4, <1>5, <1>6, <1>7

-----------------------------------------------------------------------------
\* A loan gets its borrowers once, with a principal each; nothing of it existed.
LEMMA RaiseInv ==
    ASSUME IInv, NEW c \in Calls, NEW l \in Loans, RaiseCommit(c, l)
    PROVE  IInv'
<1>. DEFINE ask == calls[c].ask
            k == Pending("initiate", l, None)
<1>1. /\ calls' = [calls EXCEPT ![c] = k]
      /\ ~Raised(l)
      /\ UNCHANGED <<verifications, workflow, cleared>>
      /\ calls[c].op = "raise"
  BY DEF RaiseCommit, Continue, Raised
<1>2. /\ ask \in [Members -> Nat]
      /\ \A m \in Members : m \in Named(ask) <=> ask[m] > 0
  BY DEF IInv, CallsInv, CallType, Named
<1>3. \A m \in Members : accounts'[l][m] = IF m \in Named(ask)
                                           THEN [status |-> "PENDING", principal |-> ask[m]]
                                           ELSE NoAccount
  BY DEF RaiseCommit, IInv, DocsInv, TypeInv
<1>4. \A x \in Loans \ {l} : accounts'[x] = accounts[x] /\ loans'[x] = loans[x]
  BY DEF RaiseCommit, IInv, DocsInv, TypeInv
<1>5. /\ loans'[l].status = "PENDING_APPROVAL"
      /\ loans' \in [Loans -> LoanType]
  <2>1. [status |-> "PENDING_APPROVAL", amount |-> Total(ask)] \in LoanType
    BY <1>2, TotalType DEF LoanType, LoanStatuses
  <2>. QED  BY <2>1 DEF RaiseCommit, IInv, DocsInv, TypeInv
<1>6. accounts' \in [Loans -> [Members -> AccountType]]
  <2>1. \A m \in Members : (IF m \in Named(ask)
                           THEN [status |-> "PENDING", principal |-> ask[m]]
                           ELSE NoAccount) \in AccountType
    BY <1>2 DEF NoAccount, AccountType, AccountStatuses
  <2>. QED  BY <2>1 DEF RaiseCommit, IInv, DocsInv, TypeInv
<1>7. TypeInv'
  BY <1>1, <1>5, <1>6 DEF IInv, DocsInv, TypeInv
<1>8. \A m \in Members : /\ accounts'[l][m].status \in {"ABSENT", "PENDING"}
                         /\ accounts'[l][m].principal # 0 <=> accounts'[l][m].status # "ABSENT"
  <2>. SUFFICES ASSUME NEW m \in Members
                PROVE  /\ accounts'[l][m].status \in {"ABSENT", "PENDING"}
                       /\ accounts'[l][m].principal # 0 <=> accounts'[l][m].status # "ABSENT"
    OBVIOUS
  <2>1. CASE m \in Named(ask)
    <3>1. accounts'[l][m] = [status |-> "PENDING", principal |-> ask[m]]
      BY <1>3, <2>1
    <3>2. ask[m] # 0
      BY <1>2, <2>1
    <3>3. accounts'[l][m].status = "PENDING" /\ accounts'[l][m].principal # 0
      BY <3>1, <3>2
    <3>. QED  BY <3>3
  <2>2. CASE m \notin Named(ask)
    <3>1. accounts'[l][m] = NoAccount
      BY <1>3, <2>2
    <3>2. accounts'[l][m].status = "ABSENT" /\ accounts'[l][m].principal = 0
      BY <3>1 DEF NoAccount
    <3>. QED  BY <3>2
  <2>. QED  BY <2>1, <2>2
<1>9. BorrowersOwe'
  BY <1>4, <1>8 DEF IInv, DocsInv, BorrowersOwe, Borrowers
<1>10. UnraisedIsBare' /\ EscalatedIsRaised' /\ PassedIsCleared'
  BY <1>1, <1>4, <1>5 DEF IInv, DocsInv, UnraisedIsBare, EscalatedIsRaised, PassedIsCleared,
     Raised, Borrowers
<1>11. AllOrNothing' /\ OnlyClearedBorrowers'
  BY <1>1, <1>4, <1>8 DEF IInv, DocsInv, AllOrNothing, OnlyClearedBorrowers, IsActive
<1>12. ApprovedFirst'
  BY <1>1, <1>4, <1>5, <1>8 DEF IInv, DocsInv, ApprovedFirst, IsActive
<1>13. Steady
  BY <1>1, <1>4 DEF Steady, Raised, Borrowers
<1>14. CallsInv'
  <2>1. k \in CallType /\ k.op = "initiate" /\ k.loan = l
    BY PendingTypes DEF Ops
  <2>2. /\ calls' \in [Calls -> CallType]
        /\ calls'[c] = k
        /\ \A d \in Calls \ {c} : calls'[d] = calls[d]
    BY <1>1, <2>1 DEF IInv, CallsInv
  <2>3. ASSUME NEW d \in Calls \ {c}
        PROVE  Fit(calls[d])' /\ (calls[d].op = "initiate" => calls[d].loan # l)
    <3>1. calls[d].op = "initiate" => workflow[calls[d].loan] = "NONE" /\ Raised(calls[d].loan)
      BY DEF IInv, CallsInv, Fit
    <3>. QED  BY <1>1, <1>13, <2>2, <3>1, FitKept
  <2>4. Fit(calls[c])'
    BY <1>1, <1>5, <2>1, <2>2 DEF Fit, Raised, IInv, DocsInv, UnraisedIsBare
  <2>5. OneInitiates'
    BY <2>1, <2>2, <2>3 DEF IInv, CallsInv, OneInitiates
  <2>. QED  BY <2>2, <2>3, <2>4, <2>5 DEF CallsInv
<1>. QED  BY <1>7, <1>9, <1>10, <1>11, <1>12, <1>14 DEF IInv, DocsInv

\* The one call that initiates a loan's request finds none.
LEMMA InitiateInv ==
    ASSUME IInv, NEW c \in Calls, RaiseInitiate(c)
    PROVE  IInv'
<1>1. PICK l \in Loans : l = calls[c].loan /\ Raised(l) /\ workflow[l] = "NONE"
  BY DEF RaiseInitiate, IInv, CallsInv, Fit
<1>2. PICK status \in Workflows :
         workflow' = [workflow EXCEPT ![l] = status]
  BY <1>1 DEF RaiseInitiate, Workflows
<1>3. \A x \in Loans : workflow'[x] = IF x = l THEN status ELSE workflow[x]
  BY <1>2 DEF IInv, DocsInv, TypeInv
<1>4. UNCHANGED <<loans, accounts, verifications, cleared>>
      /\ calls' = [calls EXCEPT ![c] = Idle] /\ calls[c].op = "initiate"
  BY DEF RaiseInitiate, Continue
<1>5. TypeInv'
  BY <1>2, <1>4 DEF IInv, DocsInv, TypeInv
<1>6. Steady
  BY <1>1, <1>3, <1>4 DEF Steady, Raised, Borrowers
<1>7. BorrowersOwe' /\ PassedIsCleared' /\ AllOrNothing' /\ OnlyClearedBorrowers'
  BY <1>4 DEF IInv, DocsInv, BorrowersOwe, PassedIsCleared, AllOrNothing,
     OnlyClearedBorrowers, Borrowers, IsActive
<1>8. UnraisedIsBare' /\ EscalatedIsRaised'
  BY <1>1, <1>3, <1>4 DEF IInv, DocsInv, UnraisedIsBare, EscalatedIsRaised, Raised, Borrowers
<1>9. ApprovedFirst'
  BY <1>1, <1>3, <1>4 DEF IInv, DocsInv, ApprovedFirst, IsActive
<1>10. CallsInv'
  <2>1. /\ calls' \in [Calls -> CallType]
        /\ calls'[c] = Idle
        /\ \A d \in Calls \ {c} : calls'[d] = calls[d]
    BY <1>4, IdleFits DEF IInv, CallsInv
  <2>2. ASSUME NEW d \in Calls \ {c}
        PROVE  Fit(calls[d])'
    <3>1. calls[d].op = "initiate" => calls[d].loan # l /\ calls[d].loan \in Loans
                                     /\ workflow[calls[d].loan] = "NONE"
      BY <1>1, <1>4 DEF IInv, CallsInv, OneInitiates, Fit
    <3>. QED  BY <1>3, <1>6, <2>1, <3>1, FitKept
  <2>3. OneInitiates'
    BY <2>1, IdleFits DEF IInv, CallsInv, OneInitiates
  <2>. QED  BY <2>1, <2>2, <2>3, IdleFits DEF CallsInv
<1>. QED  BY <1>5, <1>7, <1>8, <1>9, <1>10 DEF IInv, DocsInv

-----------------------------------------------------------------------------
\* The accounts of one loan are written: nobody becomes a borrower, waits or is
\* activated who was not before.
LEMMA AccountsStep ==
    ASSUME IInv, NEW x \in Loans, NEW new \in [Members -> AccountType],
           accounts' = [accounts EXCEPT ![x] = new],
           UNCHANGED <<loans, verifications, workflow, cleared>>,
           \A m \in Members :
              /\ new[m].principal # 0 <=> new[m].status # "ABSENT"
              /\ new[m].status # "ABSENT" => accounts[x][m].status # "ABSENT"
              /\ new[m].status \in {"PENDING", "ACTIVE"} => accounts[x][m].status = new[m].status
    PROVE  DocsInv' /\ Steady
<1>1. /\ accounts'[x] = new
      /\ \A l \in Loans \ {x} : accounts'[l] = accounts[l]
  BY DEF IInv, DocsInv, TypeInv
<1>2. TypeInv'
  BY DEF IInv, DocsInv, TypeInv
<1>3. Steady
  BY <1>1 DEF Steady, Raised, Borrowers
<1>4. BorrowersOwe'
  BY <1>1 DEF IInv, DocsInv, BorrowersOwe, Borrowers
<1>5. UnraisedIsBare' /\ EscalatedIsRaised' /\ PassedIsCleared'
  BY <1>1 DEF IInv, DocsInv, UnraisedIsBare, EscalatedIsRaised, PassedIsCleared, Raised, Borrowers
<1>6. AllOrNothing' /\ OnlyClearedBorrowers'
  BY <1>1 DEF IInv, DocsInv, AllOrNothing, OnlyClearedBorrowers, IsActive
<1>7. ApprovedFirst'
  BY <1>1 DEF IInv, DocsInv, ApprovedFirst, IsActive
<1>. QED  BY <1>2, <1>3, <1>4, <1>5, <1>6, <1>7 DEF DocsInv

\* An account keeps its principal when its status is written.
LEMMA AccountWritten ==
    ASSUME IInv, NEW l \in Loans, NEW m \in Members, NEW status \in AccountStatuses
    PROVE  /\ accounts[l][m] \in AccountType
           /\ accounts[l][m].principal # 0 <=> accounts[l][m].status # "ABSENT"
           /\ [accounts[l][m] EXCEPT !.status = status] \in AccountType
           /\ [accounts[l][m] EXCEPT !.status = status].status = status
           /\ [accounts[l][m] EXCEPT !.status = status].principal = accounts[l][m].principal
<1>1. accounts[l][m] \in AccountType
  BY DEF IInv, DocsInv, TypeInv
<1>2. accounts[l][m].principal # 0 <=> accounts[l][m].status # "ABSENT"
  BY DEF IInv, DocsInv, BorrowersOwe, Borrowers
<1>3. \A a \in AccountType :
         /\ [a EXCEPT !.status = status] \in AccountType
         /\ [a EXCEPT !.status = status].status = status
         /\ [a EXCEPT !.status = status].principal = a.principal
  BY DEF AccountType
<1>. QED  BY <1>1, <1>2, <1>3

LEMMA CloseInv ==
    ASSUME IInv, NEW c \in Calls, CloseAccounts(c)
    PROVE  IInv'
<1>1. PICK l \in Loans : l = calls[c].loan
  BY DEF CloseAccounts, IInv, CallsInv, Fit
<1>. DEFINE new == [m \in Members |-> IF m \in Borrowers(l)
                                     THEN [accounts[l][m] EXCEPT !.status = "CLOSED"]
                                     ELSE accounts[l][m]]
<1>2. accounts' = [accounts EXCEPT ![l] = new]
  BY <1>1 DEF CloseAccounts, IInv, DocsInv, TypeInv
<1>3. ASSUME NEW m \in Members
      PROVE  /\ new[m] \in AccountType
             /\ new[m].principal # 0 <=> new[m].status # "ABSENT"
             /\ new[m].status # "ABSENT" => accounts[l][m].status # "ABSENT"
             /\ new[m].status \in {"PENDING", "ACTIVE"} => accounts[l][m].status = new[m].status
  <2>1. CASE m \in Borrowers(l)
    <3>1. new[m] = [accounts[l][m] EXCEPT !.status = "CLOSED"] /\ accounts[l][m].status # "ABSENT"
      BY <2>1 DEF Borrowers
    <3>2. "CLOSED" \in AccountStatuses
      BY DEF AccountStatuses
    <3>. HIDE DEF new
    <3>. QED  BY <3>1, <3>2, AccountWritten
  <2>2. CASE m \notin Borrowers(l)
    <3>1. new[m] = accounts[l][m]
      BY <2>2
    <3>2. "CLOSED" \in AccountStatuses
      BY DEF AccountStatuses
    <3>3. /\ accounts[l][m] \in AccountType
          /\ accounts[l][m].principal # 0 <=> accounts[l][m].status # "ABSENT"
      BY <3>2, AccountWritten
    <3>. HIDE DEF new
    <3>. QED  BY <3>1, <3>3
  <2>. QED  BY <2>1, <2>2
<1>4. new \in [Members -> AccountType]
  BY <1>3
<1>. HIDE DEF new
<1>5. PICK accts \in [Members -> AccountType] : accts = new
  BY <1>4
<1>6. DocsInv' /\ Steady
  BY <1>2, <1>3, <1>5, AccountsStep DEF CloseAccounts
<1>. QED  BY <1>6, StopInv DEF CloseAccounts, Continue

LEMMA DeleteInv ==
    ASSUME IInv, NEW c \in Calls, DeleteWorkflow(c) \/ DeleteAccounts(c)
    PROVE  IInv'
<1>1. PICK l \in Loans : l = calls[c].loan
  BY DEF DeleteWorkflow, DeleteAccounts, IInv, CallsInv, Fit
<1>2. CASE DeleteWorkflow(c)
  <2>1. /\ DocsInv' /\ Steady
        /\ \A x \in Loans : workflow[x] = "NONE" => workflow'[x] = "NONE"
    <3>1. CASE WorkflowWaits(l) \/ workflow[l] = "RETURNED_TO_MAKER"
      BY <1>1, <1>2, <3>1, WorkflowStep DEF DeleteWorkflow, WorkflowWaits, Workflows
    <3>2. CASE ~(WorkflowWaits(l) \/ workflow[l] = "RETURNED_TO_MAKER")
      BY <1>1, <1>2, <3>2, QuietDocs DEF DeleteWorkflow, Docs
    <3>. QED  BY <3>1, <3>2
  <2>. QED  BY <1>2, <2>1, GoesOnInv DEF DeleteWorkflow, Continue
<1>3. CASE DeleteAccounts(c)
  <2>1. PICK new \in [Members -> AccountType] : new = [m \in Members |-> NoAccount]
    BY DEF NoAccount, AccountType, AccountStatuses
  <2>2. \A m \in Members : new[m].status = "ABSENT" /\ new[m].principal = 0
    BY <2>1 DEF NoAccount
  <2>3. accounts' = [accounts EXCEPT ![l] = new]
    BY <1>1, <1>3, <2>1 DEF DeleteAccounts
  <2>4. \A m \in Members :
           /\ new[m].principal # 0 <=> new[m].status # "ABSENT"
           /\ new[m].status # "ABSENT" => accounts[l][m].status # "ABSENT"
           /\ new[m].status \in {"PENDING", "ACTIVE"} => accounts[l][m].status = new[m].status
    BY <2>2
  <2>5. UNCHANGED <<loans, verifications, workflow, cleared>>
    BY <1>3 DEF DeleteAccounts
  <2>6. DocsInv' /\ Steady
    BY <2>3, <2>4, <2>5, AccountsStep
  <2>. QED  BY <1>3, <2>6, GoesOnInv DEF DeleteAccounts, Continue
<1>. QED  BY <1>2, <1>3

\* An edit writes what it asks of a borrower, which is something, and the loan.
LEMMA EditInv ==
    ASSUME IInv, NEW c \in Calls,
           (\E m \in Members : EditAccount(c, m)) \/ EditLoan(c)
    PROVE  IInv'
<1>1. PICK l \in Loans : l = calls[c].loan /\ Raised(l)
  BY DEF EditAccount, EditLoan, IInv, CallsInv, Fit
<1>2. PICK ask \in [Members -> Nat] : ask = calls[c].ask
  BY DEF IInv, CallsInv, CallType
<1>3. \A x \in Loans : workflow'[x] = workflow[x]
  BY DEF EditAccount, EditLoan
<1>4. ASSUME NEW m \in Members, EditAccount(c, m)
      PROVE  IInv'
  <2>. DEFINE account == [accounts[l][m] EXCEPT !.principal = ask[m]]
  <2>1. CASE m \in Borrowers(l)
    <3>1. PICK a \in AccountType : /\ a = account
                                   /\ a.principal = ask[m]
                                   /\ a.status = accounts[l][m].status
      <4>1. \A a \in AccountType, n \in Nat :
               /\ [a EXCEPT !.principal = n] \in AccountType
               /\ [a EXCEPT !.principal = n].principal = n
               /\ [a EXCEPT !.principal = n].status = a.status
        BY DEF AccountType
      <4>2. accounts[l][m] \in AccountType /\ ask[m] \in Nat
        BY DEF IInv, DocsInv, TypeInv
      <4>. QED  BY <4>1, <4>2
    <3>2. PICK new \in [Members -> AccountType] : new = [accounts[l] EXCEPT ![m] = a]
      BY DEF IInv, DocsInv, TypeInv
    <3>3. new[m] = a /\ \A n \in Members \ {m} : new[n] = accounts[l][n]
      BY <3>2 DEF IInv, DocsInv, TypeInv
    <3>4. accounts' = [accounts EXCEPT ![l] = new]
      BY <1>1, <1>2, <1>4, <2>1, <3>1, <3>2 DEF EditAccount, IInv, DocsInv, TypeInv
    <3>5. a.principal # 0 /\ a.status # "ABSENT"
      BY <1>2, <1>4, <2>1, <3>1 DEF EditAccount, Named, Borrowers
    <3>6. \A n \in Members :
             /\ new[n].principal # 0 <=> new[n].status # "ABSENT"
             /\ new[n].status # "ABSENT" => accounts[l][n].status # "ABSENT"
             /\ new[n].status \in {"PENDING", "ACTIVE"} => accounts[l][n].status = new[n].status
      BY <3>1, <3>3, <3>5 DEF IInv, DocsInv, BorrowersOwe, Borrowers
    <3>7. UNCHANGED <<loans, verifications, workflow, cleared>>
      BY <1>4 DEF EditAccount
    <3>8. DocsInv' /\ Steady
      BY <3>4, <3>6, <3>7, AccountsStep
    <3>9. calls' = [calls EXCEPT ![c] = [calls[c] EXCEPT !.ask[m] = 0]] /\ calls[c].op = "edit"
      BY <1>1, <1>4, <2>1 DEF EditAccount, Continue
    <3>10. PICK k \in CallType : /\ k = [calls[c] EXCEPT !.ask[m] = 0]
                                 /\ k.op = "edit"
                                 /\ k.loan = l
      <4>1. PICK rest \in [Members -> Nat] : rest = [ask EXCEPT ![m] = 0]
        OBVIOUS
      <4>2. [calls[c] EXCEPT !.ask[m] = 0] = [calls[c] EXCEPT !.ask = rest]
        BY <1>2, <4>1
      <4>3. \A k \in CallType : /\ [k EXCEPT !.ask = rest] \in CallType
                                /\ [k EXCEPT !.ask = rest].op = k.op
                                /\ [k EXCEPT !.ask = rest].loan = k.loan
        BY DEF CallType
      <4>4. calls[c] \in CallType
        BY DEF IInv, CallsInv
      <4>. QED  BY <1>1, <3>9, <4>2, <4>3, <4>4
    <3>11. calls'[c] = k
      BY <3>9, <3>10 DEF IInv, CallsInv
    <3>12. Fit(calls[c])'
      BY <1>1, <3>8, <3>10, <3>11 DEF Fit, Steady
    <3>. QED  BY <1>3, <3>8, <3>9, <3>10, <3>12, CallsKept DEF IInv
  <2>2. CASE m \notin Borrowers(l)
    <3>1. UNCHANGED Docs /\ calls' = [calls EXCEPT ![c] = Idle]
      BY <1>1, <1>4, <2>2 DEF EditAccount, Continue, Docs
    <3>. QED  BY <1>3, <3>1, QuietDocs, StopInv
  <2>. QED  BY <2>1, <2>2
<1>5. CASE EditLoan(c)
  <2>1. /\ UNCHANGED <<accounts, verifications, workflow, cleared>>
        /\ calls' = [calls EXCEPT ![c] = Idle]
    BY <1>5 DEF EditLoan, Continue
  <2>2. CASE loans' = loans
    BY <1>3, <2>1, <2>2, QuietDocs, StopInv DEF Docs
  <2>3. CASE LoanExists(l) /\ loans' = [loans EXCEPT ![l].amount = Total(Principals(l))]
    <3>1. Principals(l) \in [Members -> Nat]
      BY DEF Principals, IInv, DocsInv, TypeInv, AccountType
    <3>2. PICK amount \in Nat : amount = Total(Principals(l))
      BY <3>1, TotalType
    <3>3. PICK loan \in LoanType : /\ loan = [loans[l] EXCEPT !.amount = amount]
                                   /\ loan.status = loans[l].status
      <4>1. \A loan \in LoanType : /\ [loan EXCEPT !.amount = amount] \in LoanType
                                   /\ [loan EXCEPT !.amount = amount].status = loan.status
        BY DEF LoanType
      <4>2. loans[l] \in LoanType
        BY DEF IInv, DocsInv, TypeInv
      <4>. QED  BY <4>1, <4>2
    <3>4. loans' = [loans EXCEPT ![l] = loan]
      BY <2>3, <3>2, <3>3 DEF IInv, DocsInv, TypeInv
    <3>5. DocsInv' /\ Steady
      BY <1>1, <2>1, <3>3, <3>4, LoanStep DEF Raised, IInv, DocsInv, ApprovedFirst
    <3>. QED  BY <1>3, <2>1, <3>5, StopInv
  <2>. QED  BY <1>1, <1>5, <2>2, <2>3 DEF EditLoan
<1>. QED  BY <1>4, <1>5

-----------------------------------------------------------------------------
\* A verification of a raised loan is written; a member who passes is cleared.
LEMMA VerificationStep ==
    ASSUME IInv, NEW x \in Loans, NEW m \in Members, NEW verdict \in Verdicts, Raised(x),
           verifications' = [verifications EXCEPT ![x][m] = verdict],
           cleared' \in [Loans -> SUBSET Members],
           \A l \in Loans : cleared[l] \subseteq cleared'[l],
           verdict = "PASSED" => m \in cleared'[x],
           UNCHANGED <<loans, accounts, workflow>>
    PROVE  DocsInv' /\ Steady
<1>1. \A l \in Loans, n \in Members :
         verifications'[l][n] = IF l = x /\ n = m THEN verdict ELSE verifications[l][n]
  BY DEF IInv, DocsInv, TypeInv
<1>2. TypeInv'
  BY DEF IInv, DocsInv, TypeInv
<1>3. Steady
  BY DEF Steady, Raised, Borrowers
<1>4. BorrowersOwe' /\ UnraisedIsBare' /\ AllOrNothing' /\ ApprovedFirst'
  BY DEF IInv, DocsInv, BorrowersOwe, UnraisedIsBare, AllOrNothing, ApprovedFirst, Raised,
     Borrowers, IsActive
<1>5. EscalatedIsRaised'
  BY <1>1 DEF IInv, DocsInv, EscalatedIsRaised, Raised
<1>6. PassedIsCleared'
  BY <1>1 DEF IInv, DocsInv, PassedIsCleared
<1>7. OnlyClearedBorrowers'
  BY DEF IInv, DocsInv, OnlyClearedBorrowers, IsActive
<1>. QED  BY <1>2, <1>3, <1>4, <1>5, <1>6, <1>7 DEF DocsInv

LEMMA VerifyInv ==
    ASSUME IInv, NEW c \in Calls,
           VerifyPassed(c) \/ OverridePass(c) \/ VerifyEscalated(c)
    PROVE  IInv'
<1>1. PICK l \in Loans : l = calls[c].loan /\ Raised(l)
  BY DEF VerifyPassed, OverridePass, VerifyEscalated, IInv, CallsInv, Fit
<1>2. PICK m \in Members : m = calls[c].member
  BY DEF VerifyPassed, OverridePass, VerifyEscalated, IInv, CallsInv, Fit
<1>3. \A x \in Loans : workflow'[x] = workflow[x]
  BY DEF VerifyPassed, OverridePass, VerifyEscalated
<1>4. CASE VerifyPassed(c) \/ OverridePass(c)
  <2>1. /\ verifications' = [verifications EXCEPT ![l][m] = "PASSED"]
        /\ cleared' = [cleared EXCEPT ![l] = @ \union {m}]
        /\ calls' = [calls EXCEPT ![c] = Pending("check", l, None)]
        /\ UNCHANGED <<loans, accounts, workflow>>
    BY <1>1, <1>2, <1>4 DEF VerifyPassed, OverridePass, RecordPassed, Continue
  <2>2. /\ cleared' \in [Loans -> SUBSET Members]
        /\ \A x \in Loans : cleared[x] \subseteq cleared'[x]
        /\ m \in cleared'[l]
    BY <2>1 DEF IInv, DocsInv, TypeInv
  <2>3. DocsInv' /\ Steady
    BY <1>1, <2>1, <2>2, VerificationStep DEF Verdicts
  <2>4. "check" \in Ops \ {"initiate", "disburse"}
    BY DEF Ops
  <2>. QED  BY <1>1, <1>3, <2>1, <2>3, <2>4, PendingInv
<1>5. CASE VerifyEscalated(c)
  <2>1. /\ verifications' = [verifications EXCEPT ![l][m] = "ESCALATED"]
        /\ calls' = [calls EXCEPT ![c] = Idle]
        /\ UNCHANGED <<loans, accounts, workflow, cleared>>
    BY <1>1, <1>2, <1>5 DEF VerifyEscalated, Continue
  <2>2. cleared' \in [Loans -> SUBSET Members]
    BY <2>1 DEF IInv, DocsInv, TypeInv
  <2>3. DocsInv' /\ Steady
    BY <1>1, <2>1, <2>2, VerificationStep DEF Verdicts
  <2>. QED  BY <1>3, <2>1, <2>3, StopInv
<1>. QED  BY <1>4, <1>5

-----------------------------------------------------------------------------
\* checkAndDisburse reads every borrower, and that they all have passed.
LEMMA CheckInv ==
    ASSUME IInv, NEW c \in Calls, CheckRead(c)
    PROVE  IInv'
<1>1. PICK l \in Loans : l = calls[c].loan /\ Raised(l)
  BY DEF CheckRead, IInv, CallsInv, Fit
<1>2. UNCHANGED Docs
  BY DEF CheckRead, documents, Docs
<1>3. DocsInv' /\ Steady /\ \A x \in Loans : workflow'[x] = workflow[x]
  BY <1>2, QuietDocs DEF Docs
<1>4. CASE ReadyToDisburse(l)
  <2>1. PICK ask \in [Members -> Nat], amount \in Nat :
           ask = Principals(l) /\ amount = loans[l].amount
    BY DEF Principals, IInv, DocsInv, TypeInv, AccountType, LoanType
  <2>. DEFINE k == Call("disburse", l, None, ask, amount)
  <2>2. k \in CallType /\ k.op = "disburse" /\ k.loan = l /\ k.ask = ask
    BY DEF Call, CallType, Ops
  <2>3. calls' = [calls EXCEPT ![c] = k]
    BY <1>1, <1>4, <2>1 DEF CheckRead, Continue
  <2>4. \A m \in Members : m \in Borrowers(l) <=> ask[m] # 0
    BY <2>1 DEF Principals, IInv, DocsInv, BorrowersOwe
  <2>5. Borrowers(l) \subseteq Members /\ Named(ask) = Borrowers(l)
    BY <2>4 DEF Named, Borrowers
  <2>6. Borrowers(l) \subseteq cleared[l] /\ workflow[l] = "APPROVED"
    BY <1>4, <2>5 DEF ReadyToDisburse, AllPassed, IInv, DocsInv, PassedIsCleared, ApprovedFirst
  <2>7. calls'[c] = k
    BY <2>2, <2>3 DEF IInv, CallsInv
  <2>8. Borrowers(l)' = Borrowers(l) /\ cleared' = cleared /\ Raised(l)'
    BY <1>1, <1>2 DEF Docs, Borrowers, Raised
  <2>9. Fit(calls[c])'
    <3>1. /\ calls'[c].loan = l /\ calls'[c].op = "disburse"
          /\ Named(calls'[c].ask) = Borrowers(l)
      BY <2>2, <2>5, <2>7
    <3>. QED  BY <1>3, <2>6, <2>8, <3>1 DEF Fit, Named
  <2>. QED  BY <1>3, <2>2, <2>3, <2>9, CallsKept DEF IInv
<1>5. CASE ~ReadyToDisburse(l)
  BY <1>1, <1>3, <1>5, StopInv DEF CheckRead, Continue
<1>. QED  BY <1>4, <1>5

\* Disbursement activates every borrower the loan still has.
LEMMA DisburseInv ==
    ASSUME IInv, NEW c \in Calls, Disburse(c)
    PROVE  IInv'
<1>1. PICK l \in Loans : /\ l = calls[c].loan /\ Raised(l)
                         /\ workflow[l] = "APPROVED"
                         /\ Borrowers(l) \subseteq Named(calls[c].ask)
                         /\ Named(calls[c].ask) \subseteq cleared[l]
  BY DEF Disburse, IInv, CallsInv, Fit
<1>2. /\ calls' = [calls EXCEPT ![c] = Idle]
      /\ UNCHANGED <<verifications, workflow, cleared>>
      /\ accounts' = Activated(l, calls[c].ask)
      /\ loans' = loans \/ SetLoanStatus(l, "DISBURSED")
  BY <1>1 DEF Disburse, Continue
<1>. DEFINE new == [m \in Members |-> IF m \in Borrowers(l)
                                     THEN [accounts[l][m] EXCEPT !.status = "ACTIVE"]
                                     ELSE accounts[l][m]]
<1>3. \A m \in Members : m \in Named(calls[c].ask) \intersect Borrowers(l) <=> m \in Borrowers(l)
  BY <1>1
<1>4. accounts' = [accounts EXCEPT ![l] = new]
  BY <1>2, <1>3 DEF Activated, IInv, DocsInv, TypeInv
<1>5. \A m \in Members :
         /\ new[m] \in AccountType
         /\ new[m].principal # 0 <=> new[m].status # "ABSENT"
         /\ new[m].status # "ABSENT" <=> accounts[l][m].status # "ABSENT"
         /\ new[m].status \in {"ABSENT", "ACTIVE"}
  <2>. SUFFICES ASSUME NEW m \in Members
                PROVE  /\ new[m] \in AccountType
                       /\ new[m].principal # 0 <=> new[m].status # "ABSENT"
                       /\ new[m].status # "ABSENT" <=> accounts[l][m].status # "ABSENT"
                       /\ new[m].status \in {"ABSENT", "ACTIVE"}
    OBVIOUS
  <2>1. "ACTIVE" \in AccountStatuses
    BY DEF AccountStatuses
  <2>2. /\ accounts[l][m] \in AccountType
        /\ accounts[l][m].principal # 0 <=> accounts[l][m].status # "ABSENT"
    BY <2>1, AccountWritten
  <2>3. CASE m \in Borrowers(l)
    <3>1. new[m] = [accounts[l][m] EXCEPT !.status = "ACTIVE"] /\ accounts[l][m].status # "ABSENT"
      BY <2>3 DEF Borrowers
    <3>. HIDE DEF new
    <3>. QED  BY <2>1, <2>2, <3>1, AccountWritten
  <2>4. CASE m \notin Borrowers(l)
    <3>1. new[m] = accounts[l][m] /\ accounts[l][m].status = "ABSENT"
      BY <2>4 DEF Borrowers
    <3>. HIDE DEF new
    <3>. QED  BY <2>2, <3>1
  <2>. QED  BY <2>3, <2>4
<1>6. new \in [Members -> AccountType]
  BY <1>5
<1>. HIDE DEF new
<1>7. /\ accounts' \in [Loans -> [Members -> AccountType]]
      /\ accounts'[l] = new
      /\ \A x \in Loans \ {l} : accounts'[x] = accounts[x]
  BY <1>4, <1>6 DEF IInv, DocsInv, TypeInv
<1>8. /\ loans' \in [Loans -> LoanType]
      /\ loans'[l].status # "ABSENT"
      /\ \A x \in Loans \ {l} : loans'[x] = loans[x]
  <2>1. CASE loans' = loans
    BY <1>1, <2>1 DEF IInv, DocsInv, TypeInv, Raised
  <2>2. CASE SetLoanStatus(l, "DISBURSED")
    <3>1. /\ [loans[l] EXCEPT !.status = "DISBURSED"] \in LoanType
          /\ [loans[l] EXCEPT !.status = "DISBURSED"].status = "DISBURSED"
      BY DEF IInv, DocsInv, TypeInv, LoanType, LoanStatuses
    <3>2. loans' = [loans EXCEPT ![l] = [loans[l] EXCEPT !.status = "DISBURSED"]]
      BY <2>2 DEF SetLoanStatus, IInv, DocsInv, TypeInv
    <3>. QED  BY <3>1, <3>2 DEF IInv, DocsInv, TypeInv
  <2>. QED  BY <1>2, <2>1, <2>2
<1>9. TypeInv'
  BY <1>2, <1>7, <1>8 DEF IInv, DocsInv, TypeInv
<1>10. Steady
  BY <1>2, <1>5, <1>7, <1>8 DEF Steady, Raised, Borrowers
<1>11. BorrowersOwe'
  BY <1>5, <1>7 DEF IInv, DocsInv, BorrowersOwe, Borrowers
<1>12. UnraisedIsBare' /\ EscalatedIsRaised' /\ PassedIsCleared'
  <2>1. ASSUME NEW x \in Loans
        PROVE  Raised(x)' \/ (x # l /\ ~Raised(x))
    BY <1>8, <2>1 DEF Raised
  <2>2. ASSUME NEW x \in Loans \ {l}
        PROVE  Borrowers(x)' = Borrowers(x)
    BY <1>7, <2>2 DEF Borrowers
  <2>3. UNCHANGED <<verifications, workflow, cleared>>
    BY <1>2
  <2>4. UnraisedIsBare'
    BY <2>1, <2>2, <2>3 DEF IInv, DocsInv, UnraisedIsBare
  <2>5. \A x \in Loans : Raised(x) => Raised(x)'
    BY <1>8 DEF Raised
  <2>6. EscalatedIsRaised' /\ PassedIsCleared'
    BY <2>3, <2>5 DEF IInv, DocsInv, EscalatedIsRaised, PassedIsCleared
  <2>. QED  BY <2>4, <2>6
<1>13. AllOrNothing'
  BY <1>5, <1>7 DEF IInv, DocsInv, AllOrNothing, IsActive
<1>14. ApprovedFirst'
  BY <1>1, <1>2, <1>7, <1>8 DEF IInv, DocsInv, ApprovedFirst, IsActive
<1>15. OnlyClearedBorrowers'
  BY <1>1, <1>2, <1>5, <1>7 DEF IInv, DocsInv, OnlyClearedBorrowers, IsActive, Borrowers
<1>16. DocsInv'
  BY <1>9, <1>11, <1>12, <1>13, <1>14, <1>15 DEF DocsInv
<1>. QED  BY <1>2, <1>10, <1>16, StopInv

LEMMA NextInv == IInv /\ [Next]_vars => IInv'
<1>. SUFFICES ASSUME IInv, [Next]_vars PROVE IInv'
  OBVIOUS
<1>1. CASE UNCHANGED vars
  BY <1>1, QuietDocs, CallsUnmoved DEF vars, Docs, IInv
<1>2. ASSUME NEW c \in Calls, InsufficientFunds(c) \/ Abandon(c)
      PROVE  IInv'
  BY <1>2, QuietDocs, StopInv DEF InsufficientFunds, Abandon, documents, Docs
<1>3. ASSUME NEW c \in Calls, Proceed(c)
      PROVE  IInv'
  BY <1>2, <1>3, RaiseInv, InitiateInv, StatusInv, CloseInv, EditInv, DeleteInv, VerifyInv,
     CheckInv, DisburseInv DEF Proceed
<1>4. CASE Next
  BY <1>2, <1>3, <1>4, ExternalInv, ReadInv, DecideInv DEF Next
<1>. QED  BY <1>1, <1>4

LEMMA SpecInv == Spec => []IInv
<1>. QED  BY InitInv, NextInv, PTL DEF Spec

-----------------------------------------------------------------------------
(* Money.  A loan with borrowers has an amount, so that a disbursement       *)
(* debits the branch of something.                                           *)

\* A loan with borrowers has an amount.  An edit may save a total of zero, of a
\* loan whose accounts are deleted meanwhile; but such a loan is not disbursed.
Counted == \A l \in Loans : Borrowers(l) # {} => loans[l].amount > 0

Worth(call) ==
    /\ call.op = "raise" => Named(call.ask) # {}
    /\ call.op = "disburse" => call.amount > 0

MoneyInv ==
    /\ balance \in Nat
    /\ paidOut \in [Loans -> Nat]
    /\ stalled \subseteq Loans
    /\ Counted
    /\ \A c \in Calls : Worth(calls[c])
    /\ ActiveIsDebited

\* The step of one call, or of none, keeps what the calls rely on.
LEMMA WorthKept ==
    ASSUME IInv, MoneyInv,
           \/ calls' = calls
           \/ \E c \in Calls, k \in CallType :
                 calls' = [calls EXCEPT ![c] = k] /\ Worth(k)
    PROVE  \A c \in Calls : Worth(calls'[c])
<1>1. CASE calls' = calls
  BY <1>1 DEF MoneyInv
<1>2. ASSUME NEW c \in Calls, NEW k \in CallType, calls' = [calls EXCEPT ![c] = k], Worth(k)
      PROVE  \A d \in Calls : Worth(calls'[d])
  <2>1. \A d \in Calls : calls'[d] = IF d = c THEN k ELSE calls[d]
    BY <1>2 DEF IInv, CallsInv
  <2>. QED  BY <1>2, <2>1 DEF MoneyInv
<1>. QED  BY <1>1, <1>2

\* No step but a disbursement moves the branch's money, activates an account
\* or marks a loan DISBURSED.
Unpaid ==
    /\ balance' \in Nat /\ paidOut' = paidOut
    /\ stalled' \subseteq Loans
    /\ \A l \in Loans : loans'[l].status = "DISBURSED" => loans[l].status = "DISBURSED"
    /\ \A l \in Loans, m \in Members :
          accounts'[l][m].status = "ACTIVE" => accounts[l][m].status = "ACTIVE"

LEMMA UnpaidKept ==
    ASSUME IInv, MoneyInv, Unpaid, Counted', \A c \in Calls : Worth(calls'[c])
    PROVE  MoneyInv'
BY DEF MoneyInv, Unpaid, ActiveIsDebited, IsActive, Worth, Named

\* Nobody becomes a borrower and no amount is written.
LEMMA CountedKept ==
    ASSUME IInv, MoneyInv,
           \A l \in Loans : /\ loans'[l].amount = loans[l].amount
                            /\ Borrowers(l)' \subseteq Borrowers(l)
    PROVE  Counted'
BY DEF MoneyInv, Counted

\* The steps that write no loan and no account.
LEMMA QuietMoney ==
    ASSUME IInv, MoneyInv, UNCHANGED <<loans, accounts, paidOut>>,
           balance' \in Nat, stalled' \subseteq Loans,
           \A c \in Calls : Worth(calls'[c])
    PROVE  MoneyInv'
<1>1. Counted'
  BY CountedKept DEF Borrowers
<1>2. Unpaid
  BY DEF Unpaid
<1>. QED  BY <1>1, <1>2, UnpaidKept

LEMMA PlainCalls ==
    /\ Idle \in CallType /\ Worth(Idle)
    /\ \A op \in Ops \ {"raise", "disburse"}, l \in Loans \union {None}, m \in Members \union {None} :
          Pending(op, l, m) \in CallType /\ Worth(Pending(op, l, m))
<1>1. Idle \in CallType /\ Worth(Idle)
  BY IdleFits DEF Worth
<1>2. ASSUME NEW op \in Ops \ {"raise", "disburse"},
             NEW l \in Loans \union {None}, NEW m \in Members \union {None}
      PROVE  Pending(op, l, m) \in CallType /\ Worth(Pending(op, l, m))
  BY PendingTypes DEF Worth
<1>. QED  BY <1>1, <1>2

\* A call that goes on to a later write of the same handler.
LEMMA GoesOnWorth ==
    ASSUME IInv, NEW c \in Calls, NEW op \in Ops \ {"raise", "disburse"}
    PROVE  [calls[c] EXCEPT !.op = op] \in CallType /\ Worth([calls[c] EXCEPT !.op = op])
<1>1. calls[c] \in CallType
  BY DEF IInv, CallsInv
<1>2. \A k \in CallType : [k EXCEPT !.op = op] \in CallType /\ [k EXCEPT !.op = op].op = op
  BY DEF CallType
<1>. QED  BY <1>1, <1>2 DEF Worth

LEMMA EnterMoney ==
    ASSUME IInv, MoneyInv, NEW c \in Calls, NEW k \in CallType, Enter(c, k), Worth(k)
    PROVE  MoneyInv'
<1>1. \A d \in Calls : Worth(calls'[d])
  BY WorthKept DEF Enter
<1>. QED  BY <1>1, QuietMoney DEF Enter, documents, MoneyInv

\* The reads, the engine's decisions and the writes to other documents.
LEMMA ReadsMoney ==
    ASSUME IInv, MoneyInv,
           \/ \E c \in Calls, ask \in Asks : RaiseRead(c, ask)
           \/ \E c \in Calls, l \in Loans, ask \in Asks : EditRead(c, l, ask)
           \/ \E c \in Calls, l \in Loans : DeleteRead(c, l)
           \/ \E c \in Calls, l \in Loans, m \in Members : VerifyRead(c, l, m)
           \/ \E c \in Calls, l \in Loans, m \in Members, r \in {"override", "reject"} :
                 ResolveRead(c, l, m, r)
           \/ \E c \in Calls, l \in Loans : CheckRetry(c, l)
    PROVE  MoneyInv'
<1>1. ASSUME NEW c \in Calls, NEW ask \in Asks, RaiseRead(c, ask)
      PROVE  MoneyInv'
  <2>. DEFINE k == Call("raise", None, None, ask, 0)
  <2>1. k \in CallType /\ k.op = "raise" /\ k.ask = ask
    BY LoanConstants DEF Call, CallType, Ops
  <2>. QED  BY <1>1, <2>1, EnterMoney DEF RaiseRead, Worth
<1>2. ASSUME NEW c \in Calls, NEW l \in Loans, NEW ask \in Asks, EditRead(c, l, ask)
      PROVE  MoneyInv'
  <2>1. PICK amount \in Nat : amount = loans[l].amount
    BY DEF IInv, DocsInv, TypeInv, LoanType
  <2>. DEFINE k == Call("edit", l, None, ask, amount)
  <2>2. k \in CallType /\ k.op = "edit"
    BY LoanConstants DEF Call, CallType, Ops
  <2>. QED  BY <1>2, <2>1, <2>2, EnterMoney DEF EditRead, Worth
<1>3. ASSUME NEW c \in Calls, NEW l \in Loans, DeleteRead(c, l) \/ CheckRetry(c, l)
      PROVE  MoneyInv'
  BY <1>3, PlainCalls, EnterMoney DEF DeleteRead, CheckRetry, Ops
<1>4. ASSUME NEW c \in Calls, NEW l \in Loans, NEW m \in Members, VerifyRead(c, l, m)
      PROVE  MoneyInv'
  <2>1. PICK op \in {"begin", "compare"} : Enter(c, Pending(op, l, m))
    BY <1>4 DEF VerifyRead
  <2>. QED  BY <2>1, PlainCalls, EnterMoney DEF Ops
<1>5. ASSUME NEW c \in Calls, NEW l \in Loans, NEW m \in Members,
             NEW r \in {"override", "reject"}, ResolveRead(c, l, m, r)
      PROVE  MoneyInv'
  <2>1. PICK n \in Members \union {None} : Enter(c, Pending(r, l, n))
    BY <1>5 DEF ResolveRead
  <2>. QED  BY <2>1, PlainCalls, EnterMoney DEF Ops
<1>. QED  BY <1>1, <1>2, <1>3, <1>4, <1>5

LEMMA DecisionsMoney ==
    ASSUME IInv, MoneyInv,
           \/ Credit
           \/ \E l \in Loans : Review(l) \/ Withdraw(l)
           \/ \E c \in Calls, l \in Loans, v \in {"APPROVED", "REJECTED", "RETURNED_TO_MAKER"} :
                 Decide(c, l, v)
    PROVE  MoneyInv'
<1>1. CASE Credit
  BY <1>1, WorthKept, QuietMoney DEF Credit, MoneyInv
<1>2. ASSUME NEW l \in Loans, Review(l) \/ Withdraw(l)
      PROVE  MoneyInv'
  BY <1>2, WorthKept, QuietMoney DEF Review, Withdraw, MoneyInv
<1>3. ASSUME NEW c \in Calls, NEW l \in Loans,
             NEW v \in {"APPROVED", "REJECTED", "RETURNED_TO_MAKER"}, Decide(c, l, v)
      PROVE  MoneyInv'
  <2>1. PICK k \in {Idle, Pending("approved", l, None), Pending("reject", l, None)} :
           calls' = [calls EXCEPT ![c] = k]
    BY <1>3 DEF Decide, Continue
  <2>2. k \in CallType /\ Worth(k)
    BY PlainCalls DEF Ops
  <2>. QED  BY <1>3, <2>1, <2>2, WorthKept, QuietMoney DEF Decide, Continue, MoneyInv
<1>. QED  BY <1>1, <1>2, <1>3

\* The steps of a call that write the request or a verification, or nothing.
LEMMA QuietSteps ==
    ASSUME IInv, MoneyInv, NEW c \in Calls,
           \/ RaiseInitiate(c) \/ DeleteWorkflow(c)
           \/ VerifyPassed(c) \/ VerifyEscalated(c) \/ OverridePass(c)
           \/ InsufficientFunds(c) \/ Abandon(c)
    PROVE  MoneyInv'
<1>1. calls[c].op \notin {"idle", "raise"} => calls[c].loan \in Loans
  BY DEF IInv, CallsInv, Fit
<1>2. PICK k \in CallType : calls' = [calls EXCEPT ![c] = k] /\ Worth(k)
  <2>1. CASE calls' = [calls EXCEPT ![c] = Idle]
    BY <2>1, PlainCalls
  <2>2. CASE VerifyPassed(c) \/ OverridePass(c)
    <3>1. /\ calls' = [calls EXCEPT ![c] = Pending("check", calls[c].loan, None)]
          /\ calls[c].loan \in Loans
      BY <1>1, <2>2 DEF VerifyPassed, OverridePass, Continue
    <3>. QED  BY <3>1, PlainCalls DEF Ops
  <2>3. CASE DeleteWorkflow(c)
    <3>1. calls' = [calls EXCEPT ![c] = [calls[c] EXCEPT !.op = "purge"]]
      BY <2>3 DEF DeleteWorkflow, Continue
    <3>. QED  BY <3>1, GoesOnWorth DEF Ops
  <2>. QED  BY <2>1, <2>2, <2>3 DEF RaiseInitiate, VerifyEscalated, InsufficientFunds, Abandon, Continue
<1>4. UNCHANGED <<loans, accounts, paidOut, balance>>
  BY DEF RaiseInitiate, DeleteWorkflow, VerifyPassed, VerifyEscalated, OverridePass,
     InsufficientFunds, Abandon, documents
<1>5. stalled' \subseteq Loans
  BY <1>1 DEF RaiseInitiate, DeleteWorkflow, VerifyPassed, VerifyEscalated, OverridePass,
     InsufficientFunds, Abandon, Continue, MoneyInv
<1>. QED  BY <1>2, <1>4, <1>5, WorthKept, QuietMoney DEF MoneyInv

\* The steps that write the status of the loan of their call, but no amount.
LEMMA StatusMoney ==
    ASSUME IInv, MoneyInv, NEW c \in Calls,
           OnApproved(c) \/ RejectLoan(c) \/ DeleteLoan(c) \/ VerifyBegin(c)
    PROVE  MoneyInv'
<1>1. calls[c].loan \in Loans
  BY DEF OnApproved, RejectLoan, DeleteLoan, VerifyBegin, IInv, CallsInv, Fit
<1>2. PICK status \in {"APPROVED", "REJECTED", "DELETED", "VERIFICATION_IN_PROGRESS"} :
         loans' = loans \/ SetLoanStatus(calls[c].loan, status)
  BY DEF OnApproved, RejectLoan, DeleteLoan, VerifyBegin
<1>3. \A l \in Loans : /\ loans'[l].amount = loans[l].amount
                       /\ loans'[l].status \in {loans[l].status, status}
  <2>1. CASE loans' = loans
    BY <2>1
  <2>2. CASE SetLoanStatus(calls[c].loan, status)
    <3>1. \A loan \in LoanType : /\ [loan EXCEPT !.status = status].amount = loan.amount
                                 /\ [loan EXCEPT !.status = status].status = status
      BY DEF LoanType
    <3>2. loans \in [Loans -> LoanType]
      BY DEF IInv, DocsInv, TypeInv
    <3>3. \A l \in Loans : loans'[l] = IF l = calls[c].loan
                                       THEN [loans[l] EXCEPT !.status = status] ELSE loans[l]
      BY <1>1, <2>2, <3>2 DEF SetLoanStatus
    <3>4. ASSUME NEW l \in Loans
          PROVE  /\ loans'[l].amount = loans[l].amount
                 /\ loans'[l].status \in {loans[l].status, status}
      <4>1. PICK loan \in LoanType : loan = loans[l]
        BY <3>2
      <4>2. loans'[l] = IF l = calls[c].loan THEN [loan EXCEPT !.status = status] ELSE loan
        BY <3>3, <4>1
      <4>. QED  BY <3>1, <4>1, <4>2
    <3>. QED  BY <3>4
  <2>. QED  BY <1>2, <2>1, <2>2
<1>4. UNCHANGED <<accounts, paidOut, balance, stalled>>
  BY DEF OnApproved, RejectLoan, DeleteLoan, VerifyBegin, Continue
<1>5. \A d \in Calls : Worth(calls'[d])
  <2>1. \/ calls' = [calls EXCEPT ![c] = Idle]
        \/ calls' = [calls EXCEPT ![c] = Pending("close", calls[c].loan, None)]
        \/ calls' = [calls EXCEPT ![c] = [calls[c] EXCEPT !.op = "compare"]]
    BY DEF OnApproved, RejectLoan, DeleteLoan, VerifyBegin, Continue
  <2>2. CASE calls' = [calls EXCEPT ![c] = Idle]
    BY <2>2, PlainCalls, WorthKept
  <2>3. CASE calls' = [calls EXCEPT ![c] = Pending("close", calls[c].loan, None)]
    BY <1>1, <2>3, PlainCalls, WorthKept DEF Ops
  <2>4. CASE calls' = [calls EXCEPT ![c] = [calls[c] EXCEPT !.op = "compare"]]
    BY <2>4, GoesOnWorth, WorthKept DEF Ops
  <2>. QED  BY <2>1, <2>2, <2>3, <2>4
<1>6. Counted'
  BY <1>3, <1>4, CountedKept DEF Borrowers
<1>7. Unpaid
  BY <1>3, <1>4 DEF Unpaid, MoneyInv
<1>. QED  BY <1>5, <1>6, <1>7, UnpaidKept

\* The accounts of a new loan are those of the members the body names, and its
\* amount is the sum of what it names.
LEMMA RaiseMoney ==
    ASSUME IInv, IInv', MoneyInv, NEW c \in Calls, NEW l \in Loans, RaiseCommit(c, l)
    PROVE  MoneyInv'
<1>. DEFINE ask == calls[c].ask
<1>1. ask \in [Members -> Nat] /\ Named(ask) # {}
  BY DEF RaiseCommit, IInv, CallsInv, CallType, MoneyInv, Worth
<1>2. Total(ask) > 0
  <2>1. PICK m \in Members : ask[m] > 0
    BY <1>1 DEF Named
  <2>. HIDE DEF ask
  <2>2. Total(ask) \in Nat /\ Total(ask) >= ask[m] /\ ask[m] \in Nat
    BY <1>1, TotalType
  <2>. QED  BY <2>1, <2>2
<1>3. /\ loans'[l].amount = Total(ask) /\ loans'[l].status = "PENDING_APPROVAL"
      /\ \A x \in Loans \ {l} : loans'[x] = loans[x] /\ accounts'[x] = accounts[x]
      /\ \A m \in Members : accounts'[l][m].status \in {"PENDING", "ABSENT"}
  BY DEF RaiseCommit, NoAccount, IInv, DocsInv, TypeInv
<1>4. Counted'
  BY <1>2, <1>3 DEF Counted, Borrowers, MoneyInv
<1>5. Unpaid
  BY <1>3 DEF Unpaid, RaiseCommit, Continue, MoneyInv
<1>6. \A d \in Calls : Worth(calls'[d])
  BY PlainCalls, WorthKept DEF RaiseCommit, Continue, Ops
<1>. QED  BY <1>4, <1>5, <1>6, UnpaidKept

\* The steps that write the accounts of the loan of their call.
LEMMA AccountsMoney ==
    ASSUME IInv, MoneyInv, NEW c \in Calls,
           CloseAccounts(c) \/ DeleteAccounts(c) \/ \E m \in Members : EditAccount(c, m)
    PROVE  MoneyInv'
<1>1. PICK l \in Loans : l = calls[c].loan
  BY DEF CloseAccounts, DeleteAccounts, EditAccount, IInv, CallsInv, Fit
<1>2. \A a \in AccountType, n \in Nat :
         /\ [a EXCEPT !.status = "CLOSED"].status = "CLOSED"
         /\ [a EXCEPT !.principal = n].status = a.status
  BY DEF AccountType
<1>3. accounts \in [Loans -> [Members -> AccountType]] /\ calls[c].ask \in [Members -> Nat]
  BY DEF IInv, DocsInv, TypeInv, CallsInv, CallType
<1>4. \A x \in Loans, m \in Members :
         accounts'[x][m].status = accounts[x][m].status \/
            (accounts'[x][m].status \in {"CLOSED", "ABSENT"}
                /\ (accounts[x][m].status = "ABSENT" => accounts'[x][m].status = "ABSENT"))
  <2>1. CASE CloseAccounts(c)
    <3>1. \A x \in Loans, m \in Members :
             accounts'[x][m] = IF x = l /\ m \in Borrowers(l)
                               THEN [accounts[x][m] EXCEPT !.status = "CLOSED"]
                               ELSE accounts[x][m]
      BY <1>1, <1>3, <2>1 DEF CloseAccounts
    <3>2. ASSUME NEW x \in Loans, NEW m \in Members
          PROVE  \/ accounts'[x][m].status = accounts[x][m].status
                 \/ accounts'[x][m].status = "CLOSED" /\ accounts[x][m].status # "ABSENT"
      <4>1. PICK a \in AccountType : a = accounts[x][m]
        BY <1>3
      <4>2. accounts'[x][m] = IF x = l /\ m \in Borrowers(l)
                              THEN [a EXCEPT !.status = "CLOSED"] ELSE a
        BY <3>1, <4>1
      <4>. QED  BY <1>2, <4>1, <4>2 DEF Borrowers
    <3>. QED  BY <3>2
  <2>2. CASE DeleteAccounts(c)
    <3>1. \A x \in Loans, m \in Members :
             accounts'[x][m] = IF x = l THEN NoAccount ELSE accounts[x][m]
      BY <1>1, <1>3, <2>2 DEF DeleteAccounts
    <3>. QED  BY <3>1 DEF NoAccount
  <2>3. ASSUME NEW n \in Members, EditAccount(c, n)
        PROVE  \A x \in Loans, m \in Members : accounts'[x][m].status = accounts[x][m].status
    <3>1. CASE accounts' = accounts
      BY <3>1
    <3>2. CASE accounts' = [accounts EXCEPT ![l][n].principal = calls[c].ask[n]]
      <4>1. PICK amount \in Nat : amount = calls[c].ask[n]
        BY <1>3
      <4>2. \A x \in Loans, m \in Members :
               accounts'[x][m] = IF x = l /\ m = n
                                 THEN [accounts[x][m] EXCEPT !.principal = amount]
                                 ELSE accounts[x][m]
        BY <1>3, <3>2, <4>1
      <4>3. ASSUME NEW x \in Loans, NEW m \in Members
            PROVE  accounts'[x][m].status = accounts[x][m].status
        <5>1. PICK a \in AccountType : a = accounts[x][m]
          BY <1>3
        <5>2. accounts'[x][m] = IF x = l /\ m = n THEN [a EXCEPT !.principal = amount] ELSE a
          BY <4>2, <5>1
        <5>. QED  BY <1>2, <5>1, <5>2
      <4>. QED  BY <4>3
    <3>. QED  BY <1>1, <2>3, <3>1, <3>2 DEF EditAccount
  <2>. QED  BY <2>1, <2>2, <2>3
<1>5. UNCHANGED <<loans, paidOut, balance, stalled>>
  BY DEF CloseAccounts, DeleteAccounts, EditAccount, Continue
<1>6. Counted'
  <2>1. \A x \in Loans : Borrowers(x)' \subseteq Borrowers(x)
    BY <1>4 DEF Borrowers
  <2>. QED  BY <1>5, <2>1, CountedKept
<1>7. Unpaid
  BY <1>4, <1>5 DEF Unpaid, MoneyInv
<1>8. \A d \in Calls : Worth(calls'[d])
  <2>1. CASE calls' = [calls EXCEPT ![c] = Idle]
    BY <2>1, PlainCalls, WorthKept
  <2>2. CASE calls' = [calls EXCEPT ![c] = [calls[c] EXCEPT !.op = "erase"]]
    BY <2>2, GoesOnWorth, WorthKept DEF Ops
  <2>3. ASSUME NEW m \in Members, calls[c].op = "edit",
               calls' = [calls EXCEPT ![c] = [calls[c] EXCEPT !.ask[m] = 0]]
        PROVE  \A d \in Calls : Worth(calls'[d])
    <3>1. PICK rest \in [Members -> Nat] : rest = [calls[c].ask EXCEPT ![m] = 0]
      BY <1>3
    <3>2. \A k \in CallType : /\ [k EXCEPT !.ask = rest] \in CallType
                              /\ [k EXCEPT !.ask = rest].op = k.op
      BY DEF CallType
    <3>3. calls[c] \in CallType
      BY DEF IInv, CallsInv
    <3>4. PICK k \in CallType : k = [calls[c] EXCEPT !.ask[m] = 0] /\ k.op = "edit"
      BY <2>3, <3>1, <3>2, <3>3
    <3>. QED  BY <2>3, <3>4, WorthKept DEF Worth
  <2>. QED  BY <2>1, <2>2, <2>3 DEF CloseAccounts, DeleteAccounts, EditAccount, Continue
<1>. QED  BY <1>6, <1>7, <1>8, UnpaidKept

\* The total that an edit saves is the sum of the principals it reads.
LEMMA EditMoney ==
    ASSUME IInv, MoneyInv, NEW c \in Calls, EditLoan(c)
    PROVE  MoneyInv'
<1>1. PICK l \in Loans : l = calls[c].loan
  BY DEF EditLoan, IInv, CallsInv, Fit
<1>. DEFINE sum == Total(Principals(l))
<1>2. Principals(l) \in [Members -> Nat]
  BY DEF Principals, IInv, DocsInv, TypeInv, AccountType
<1>3. Borrowers(l) # {} => sum > 0
  <2>1. SUFFICES ASSUME NEW m \in Borrowers(l)
                 PROVE  sum > 0
    BY DEF Borrowers
  <2>2. m \in Members /\ Principals(l)[m] # 0
    BY DEF Borrowers, Principals, IInv, DocsInv, BorrowersOwe
  <2>3. sum \in Nat /\ sum >= Principals(l)[m] /\ Principals(l)[m] \in Nat
    BY <1>2, <2>2, TotalType
  <2>. QED  BY <2>2, <2>3
<1>. HIDE DEF sum
<1>4. UNCHANGED <<accounts, paidOut, balance, stalled>>
  BY DEF EditLoan, Continue
<1>5. \A x \in Loans : /\ loans'[x].status = loans[x].status
                       /\ loans'[x].amount = loans[x].amount \/ (x = l /\ loans'[x].amount = sum)
  <2>1. CASE loans' = loans
    BY <2>1
  <2>2. CASE loans' = [loans EXCEPT ![l].amount = sum]
    <3>1. \A loan \in LoanType : /\ [loan EXCEPT !.amount = sum].amount = sum
                                 /\ [loan EXCEPT !.amount = sum].status = loan.status
      BY DEF LoanType
    <3>2. loans \in [Loans -> LoanType]
      BY DEF IInv, DocsInv, TypeInv
    <3>3. \A x \in Loans : loans'[x] = IF x = l THEN [loans[x] EXCEPT !.amount = sum] ELSE loans[x]
      BY <2>2, <3>2
    <3>4. ASSUME NEW x \in Loans
          PROVE  /\ loans'[x].status = loans[x].status
                 /\ loans'[x].amount = loans[x].amount \/ (x = l /\ loans'[x].amount = sum)
      <4>1. PICK loan \in LoanType : loan = loans[x]
        BY <3>2
      <4>2. loans'[x] = IF x = l THEN [loan EXCEPT !.amount = sum] ELSE loan
        BY <3>3, <4>1
      <4>. QED  BY <3>1, <4>1, <4>2
    <3>. QED  BY <3>4
  <2>. QED  BY <1>1, <2>1, <2>2 DEF EditLoan, sum
<1>6. Counted'
  BY <1>3, <1>4, <1>5 DEF Counted, Borrowers, MoneyInv
<1>7. Unpaid
  BY <1>4, <1>5 DEF Unpaid, MoneyInv
<1>8. \A d \in Calls : Worth(calls'[d])
  BY PlainCalls, WorthKept DEF EditLoan, Continue
<1>. QED  BY <1>6, <1>7, <1>8, UnpaidKept

\* What checkAndDisburse read of a loan with borrowers is more than nothing.
LEMMA CheckMoney ==
    ASSUME IInv, MoneyInv, NEW c \in Calls, CheckRead(c)
    PROVE  MoneyInv'
<1>1. PICK l \in Loans : l = calls[c].loan
  BY DEF CheckRead, IInv, CallsInv, Fit
<1>2. \A d \in Calls : Worth(calls'[d])
  <2>1. CASE ReadyToDisburse(l)
    <3>1. PICK ask \in [Members -> Nat], amount \in Nat :
             ask = Principals(l) /\ amount = loans[l].amount
      BY DEF Principals, IInv, DocsInv, TypeInv, AccountType, LoanType
    <3>2. amount > 0
      BY <2>1, <3>1 DEF ReadyToDisburse, AllPassed, MoneyInv, Counted
    <3>. DEFINE k == Call("disburse", l, None, ask, amount)
    <3>3. k \in CallType /\ k.op = "disburse" /\ k.amount = amount
      BY DEF Call, CallType, Ops
    <3>4. calls' = [calls EXCEPT ![c] = k]
      BY <1>1, <2>1, <3>1 DEF CheckRead, Continue
    <3>5. Worth(k)
      BY <3>2, <3>3 DEF Worth
    <3>. QED  BY <3>3, <3>4, <3>5, WorthKept
  <2>2. CASE ~ReadyToDisburse(l)
    BY <1>1, <2>2, PlainCalls, WorthKept DEF CheckRead, Continue
  <2>. QED  BY <2>1, <2>2
<1>. QED  BY <1>2, QuietMoney DEF CheckRead, Continue, documents, MoneyInv

\* The debit, the activation and the status are one transaction.
LEMMA DisburseMoney ==
    ASSUME IInv, MoneyInv, NEW c \in Calls, Disburse(c)
    PROVE  MoneyInv'
<1>1. PICK l \in Loans, amount \in Nat : l = calls[c].loan /\ amount = calls[c].amount /\ amount > 0
  BY DEF Disburse, IInv, CallsInv, CallType, Fit, MoneyInv, Worth
<1>2. /\ balance >= amount /\ balance' = balance - amount
      /\ paidOut' = [paidOut EXCEPT ![l] = @ + amount]
      /\ stalled' = stalled
  BY <1>1 DEF Disburse, Debit, Continue
<1>3. balance' \in Nat /\ paidOut' \in [Loans -> Nat] /\ stalled' \subseteq Loans
  BY <1>2 DEF MoneyInv
<1>4. /\ paidOut'[l] > 0
      /\ \A x \in Loans \ {l} : paidOut'[x] = paidOut[x]
  BY <1>1, <1>2 DEF MoneyInv
<1>5. loans \in [Loans -> LoanType] /\ accounts \in [Loans -> [Members -> AccountType]]
  BY DEF IInv, DocsInv, TypeInv
<1>6. \A x \in Loans : /\ loans'[x].amount = loans[x].amount
                       /\ x # l => loans'[x] = loans[x]
  <2>1. CASE loans' = loans
    BY <2>1
  <2>2. CASE SetLoanStatus(l, "DISBURSED")
    <3>1. \A loan \in LoanType : [loan EXCEPT !.status = "DISBURSED"].amount = loan.amount
      BY DEF LoanType
    <3>2. \A x \in Loans : loans'[x] = IF x = l THEN [loans[x] EXCEPT !.status = "DISBURSED"]
                                                ELSE loans[x]
      BY <1>5, <2>2 DEF SetLoanStatus
    <3>. QED  BY <1>5, <3>1, <3>2
  <2>. QED  BY <1>1, <2>1, <2>2 DEF Disburse
<1>7. \A x \in Loans : /\ Borrowers(x)' \subseteq Borrowers(x)
                       /\ x # l => accounts'[x] = accounts[x]
  <2>1. \A x \in Loans \ {l} : accounts'[x] = accounts[x]
    BY <1>1, <1>5 DEF Disburse, Activated
  <2>2. \A m \in Members : m \notin Borrowers(l) => accounts'[l][m] = accounts[l][m]
    BY <1>1, <1>5 DEF Disburse, Activated
  <2>3. Borrowers(l)' \subseteq Borrowers(l)
    BY <2>2 DEF Borrowers
  <2>. QED  BY <2>1, <2>3 DEF Borrowers
<1>8. Counted'
  BY <1>6, <1>7, CountedKept
<1>9. ActiveIsDebited'
  BY <1>4, <1>6, <1>7 DEF ActiveIsDebited, IsActive, MoneyInv
<1>10. \A d \in Calls : Worth(calls'[d])
  BY PlainCalls, WorthKept DEF Disburse, Continue
<1>. QED  BY <1>3, <1>8, <1>9, <1>10 DEF MoneyInv, Worth, Named

LEMMA InitMoney == Init => MoneyInv
<1>. SUFFICES ASSUME Init PROVE MoneyInv
  OBVIOUS
<1>1. \A l \in Loans : Borrowers(l) = {}
  BY DEF Init, Borrowers, NoAccount
<1>2. \A l \in Loans, m \in Members : ~IsActive(l, m)
  BY DEF Init, IsActive, NoAccount
<1>3. \A c \in Calls : Worth(calls[c])
  BY PlainCalls DEF Init
<1>. QED  BY <1>1, <1>2, <1>3 DEF Init, MoneyInv, Counted, ActiveIsDebited

LEMMA NextMoney == IInv /\ IInv' /\ MoneyInv /\ [Next]_vars => MoneyInv'
<1>. SUFFICES ASSUME IInv, IInv', MoneyInv, [Next]_vars PROVE MoneyInv'
  OBVIOUS
<1>1. CASE UNCHANGED vars
  BY <1>1, WorthKept, QuietMoney DEF vars, MoneyInv
<1>2. ASSUME NEW c \in Calls, Proceed(c)
      PROVE  MoneyInv'
  BY <1>2, RaiseMoney, QuietSteps, StatusMoney, AccountsMoney, EditMoney, CheckMoney,
     DisburseMoney DEF Proceed
<1>3. CASE Next
  BY <1>2, <1>3, ReadsMoney, DecisionsMoney, QuietSteps DEF Next
<1>. QED  BY <1>1, <1>3

LEMMA SpecMoney == Spec => []MoneyInv
<1>. QED  BY SpecInv, InitMoney, NextMoney, PTL DEF Spec

-----------------------------------------------------------------------------
\* Every variable of the loans' life has its type; in particular no interleaving
\* of disbursements overdraws the branch (BranchFundBalanceService.debit).
THEOREM LoansAreWellTyped == Spec => []TypeOK
<1>1. IInv /\ MoneyInv => TypeOK
  BY DEF IInv, DocsInv, TypeInv, CallsInv, MoneyInv, TypeOK, LoanType, AccountType, Verdicts,
     Workflows, CallType
<1>. QED  BY <1>1, SpecInv, SpecMoney, PTL

\* An account is ACTIVE, or a loan DISBURSED, only if the branch was debited for
\* that loan: the transaction of checkAndDisburse is all or nothing, and never
\* for a sum of zero, although edits and deletions race with what it read.
THEOREM MoneyMovesWithTheAccounts == Spec => []ActiveIsDebited
<1>. QED  BY SpecMoney, PTL DEF MoneyInv

\* All-or-nothing group disbursement: no borrower waits once another is ACTIVE,
\* although the accounts are read before the transaction that activates them
\* (checkAndDisburse against edits, rejections and deletions).
THEOREM GroupsAreDisbursedWhole == Spec => []AllOrNothing
<1>. QED  BY SpecInv, PTL DEF IInv, DocsInv

\* Nothing is verified, disbursed or activated unless the approval chain of the
\* loan ended in APPROVED (handleWorkflowApproved, initiateMemberVerification).
THEOREM NoMoneyWithoutApproval == Spec => []ApprovedFirst
<1>. QED  BY SpecInv, PTL DEF IInv, DocsInv

\* No account is ACTIVE whose borrower was never PASSED (checkAndDisburse,
\* initiateMemberVerification, resolveEscalation).
THEOREM OnlyThePassedArePaid == Spec => []OnlyClearedBorrowers
<1>. QED  BY SpecInv, PTL DEF IInv, DocsInv
=============================================================================
