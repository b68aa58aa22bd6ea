----------------------------- MODULE Schedules ------------------------------
(***************************************************************************)
(* The repayment schedule of a member's account, computed when a loan is   *)
(* quoted and when it is disbursed                                         *)
(* (src/src/modules/loan-products/calculations/interest-schedule.ts and    *)
(* rounding.util.ts).                                                      *)
(*                                                                         *)
(* Amounts are kobo.  A rate is so many parts of Unit, for the whole       *)
(* tenure: basis points and 10000 in the code.  The floating-point annuity *)
(* formula is computed exactly, as a quotient of integers.                 *)
(***************************************************************************)
EXTENDS Integers, FiniteSetsExt

CONSTANTS
    Unit,         \* parts of a whole rate
    Principals    \* bound: the principals the schedules are checked for

ASSUME ScheduleConstants == Unit \in Nat \ {0} /\ Principals \subseteq Nat

\* Math.round of a / b: halves are rounded up.
RoundHalfUp(a, b) == (2 * a + b) \div (2 * b)

\* One installment per repayment period, at least one.
InstallmentCount(tenure, period) ==
    IF tenure <= period THEN 1 ELSE (tenure + period - 1) \div period

FlatInterest(p, rate) == RoundHalfUp(p * rate, Unit)

\* Mutant of Portion: the last installment is like the others.
PortionRounded(total, n, k) == total \div n

\* The k-th of n parts of a total: the last absorbs the remainder.
Portion(total, n, k) ==
    IF k = n THEN total - (n - 1) * (total \div n) ELSE total \div n

\* calculateFlatInterestSchedule.
FlatSchedule(p, rate, n) ==
    [k \in 1..n |->
       LET principal == Portion(p, n, k)
           interest == Portion(FlatInterest(p, rate), n, k)
       IN [principal |-> principal, interest |-> interest, due |-> principal + interest]]

Power(b, n) ==
    LET power[k \in 0..n] == IF k = 0 THEN 1 ELSE b * power[k - 1]
    IN power[n]

\* p * r * (1 + r)^n / ((1 + r)^n - 1), where r is rate / (Unit * n).
InstallmentAmount(p, rate, n) ==
    IF rate = 0 THEN RoundHalfUp(p, n)
    ELSE LET whole == Unit * n
             grown == Power(whole + rate, n)
         IN RoundHalfUp(p * rate * grown, whole * (grown - Power(whole, n)))

InterestOn(balance, rate, n) == RoundHalfUp(balance * rate, Unit * n)

\* The last installment pays off the balance, and no other pays less than no
\* principal.
Repaid(amount, balance, rate, n, k) ==
    IF k = n THEN balance ELSE Max({0, amount - InterestOn(balance, rate, n)})

OpeningBalances(p, rate, n) ==
    LET amount == InstallmentAmount(p, rate, n)
        opening[k \in 1..n] ==
            IF k = 1 THEN p
            ELSE opening[k - 1] - Repaid(amount, opening[k - 1], rate, n, k - 1)
    IN opening

\* calculateReducingBalanceSchedule: interest on what is still owed.
ReducingSchedule(p, rate, n) ==
    LET amount == InstallmentAmount(p, rate, n)
        opening == OpeningBalances(p, rate, n)
    IN [k \in 1..n |->
          [principal |-> Repaid(amount, opening[k], rate, n, k),
           interest |-> InterestOn(opening[k], rate, n),
           due |-> IF k = n THEN opening[k] + InterestOn(opening[k], rate, n) ELSE amount]]

Schedule(terms, p) ==
    LET n == InstallmentCount(terms.tenure, terms.period) IN
    IF terms.type = "FLAT" THEN FlatSchedule(p, terms.rate, n)
    ELSE ReducingSchedule(p, terms.rate, n)

\* computeInstallmentDueDate, in days after the anchor.
DueDay(terms, k) ==
    IF k = InstallmentCount(terms.tenure, terms.period) THEN terms.tenure
    ELSE k * terms.period

-----------------------------------------------------------------------------
(* What a schedule must be *)

Principal(s) == SumFunctionOnSet([k \in DOMAIN s |-> s[k].principal], DOMAIN s)
Charged(s) == SumFunctionOnSet([k \in DOMAIN s |-> s[k].interest], DOMAIN s)
Due(s) == SumFunctionOnSet([k \in DOMAIN s |-> s[k].due], DOMAIN s)

\* The installments repay the principal exactly and ask for what the account
\* opens with, principal and interest.  A flat loan costs its rate to the kobo
\* and no installment differs from the first by more than the remainders.  The
\* interest of one of reducing balance never grows; it costs no more than a flat
\* one and nothing is repaid beyond what is owed, this for an ample principal:
\* on less, n roundings may outweigh what an installment repays.
Balanced(s, p) == Principal(s) = p /\ Due(s) = p + Charged(s)

FlatAddsUp(p, rate, n) ==
    LET s == FlatSchedule(p, rate, n) IN
    /\ Balanced(s, p)
    /\ Charged(s) = FlatInterest(p, rate)
    /\ \A k \in 1..n : 0 <= s[1].due /\ s[1].due <= s[k].due
    /\ s[n].due - s[1].due < 2 * n

ReducingAddsUp(p, rate, n) ==
    LET s == ReducingSchedule(p, rate, n) IN
    /\ Balanced(s, p)
    /\ \A k \in 2..n : s[k].interest <= s[k - 1].interest

\* p >= 4 * n * n * (1 + r)^n, where r is rate / (Unit * n).
Ample(p, rate, n) ==
    LET whole == Unit * n
    IN 4 * n * n * Power(whole + rate, n) <= p * Power(whole, n)

ReducingCostsLess(p, rate, n) ==
    LET s == ReducingSchedule(p, rate, n) IN
    Ample(p, rate, n) =>
        /\ Charged(s) <= FlatInterest(p, rate)
        /\ \A k \in 1..n : s[k].principal >= 0 /\ s[k].interest >= 0

AddsUp(terms, p) ==
    LET n == InstallmentCount(terms.tenure, terms.period) IN
    IF terms.type = "FLAT" THEN FlatAddsUp(p, terms.rate, n)
    ELSE ReducingAddsUp(p, terms.rate, n) /\ ReducingCostsLess(p, terms.rate, n)

\* The installments fall due one after the other, the last on the last day of
\* the tenure.
DueInOrder(terms) ==
    LET n == InstallmentCount(terms.tenure, terms.period) IN
    /\ \A k \in 2..n : DueDay(terms, k - 1) < DueDay(terms, k)
    /\ DueDay(terms, 1) > 0 /\ DueDay(terms, n) = terms.tenure

=============================================================================
