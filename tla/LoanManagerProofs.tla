--------------------------- MODULE LoanManagerProofs ---------------------------
(* Each operation of the loan manager keeps the loans well formed, whoever  *)
(* composes it: the first part is about single operations, and VaultProofs  *)
(* cites it.  The second part proves what LoanHistory says of the contract  *)
(* on its own.  Its invariants are not inductive: what a loan costs follows *)
(* from what it has been charged and what is still to come, which depends   *)
(* on where its accrual anchor stands.                                      *)
EXTENDS LoanHistory, TLAPS

\* The inductive part of every proof: types, well-formed loans, a clock that has started.
LMInv == LMTypeOK /\ LoanOK /\ now > 0

\* A step that touches no other borrower's loan.
OnlyLoanOf(b) == \A y \in Borrowers \ {b} : loan'[y] = loan[y]

\* The quotient of naturals by a positive number is a natural.
LEMMA DivType ==
  ASSUME NEW a \in Int, NEW d \in Nat \ {0}
  PROVE  /\ a \div d \in Int
         /\ a >= 0 => a \div d \in Nat
         /\ (a \div d) * d <= a
         /\ a < (a \div d) * d + d
OBVIOUS

\* Products of naturals are naturals.
LEMMA NatProduct ==
  ASSUME NEW a \in Nat, NEW b \in Nat
  PROVE  a * b \in Nat
OBVIOUS

\* Products of positive naturals are positive.
LEMMA PosProduct ==
  ASSUME NEW a \in Nat \ {0}, NEW b \in Nat \ {0}
  PROVE  a * b \in Nat \ {0}
OBVIOUS

\* Accrual only ever adds to what a loan owes.
LEMMA AccruedDueGrows ==
  ASSUME NEW l \in Loan, l.tenor_days > 0, NEW rate \in Nat, NEW t \in Nat
  PROVE  accrued_due(l, rate, t) \in Nat /\ accrued_due(l, rate, t) >= l.amount_due
<1> USE LoanManagerAssumption
<1>1. interest(l, t) \in Nat
  <2>1. ASSUME NEW ts \in Nat PROVE cum(l, ts) \in Int
    <3>1. BPS_DENOM * (l.tenor_days * SECONDS_PER_DAY) \in Nat \ {0}
      BY PosProduct DEF BPS_DENOM, Loan
    <3>2. elapsed(l, ts) \in Int
      BY DEF elapsed, Lesser, Loan
    <3>3. l.principal * l.fee_bps * elapsed(l, ts) \in Int
      BY <3>2 DEF Loan
    <3> QED
      BY <3>1, <3>3, DivType DEF cum
  <2>2. accrual_from(l) \in Nat /\ Lesser(t, l.due) \in Nat
    BY DEF accrual_from, Lesser, Loan
  <2> QED
    BY <2>1, <2>2 DEF interest, Greater
<1>2. ASSUME NEW x \in Nat PROVE late_fee(l, rate, t, x) \in Nat
  <2> DEFINE span == t - Greater(accrual_from(l), l.due + l.grace_period)
  <2>1. span \in Int
    BY DEF Greater, accrual_from, Loan
  <2>2. CASE span > 0
    <3>1. rate * span * x \in Nat
      BY <2>1, <2>2, NatProduct
    <3>2. (rate * span * x) \div WAD \in Nat
      BY <3>1, DivType
    <3> QED
      BY <3>2 DEF late_fee
  <2>3. CASE ~(span > 0)
    BY <2>3 DEF late_fee
  <2> QED
    BY <2>2, <2>3
<1>3. l.amount_due + interest(l, t) \in Nat
  BY <1>1 DEF Loan
<1>4. late_fee(l, rate, t, l.amount_due + interest(l, t)) \in Nat
  BY <1>2, <1>3
<1>5. l.amount_due \in Nat
  BY DEF Loan
<1> QED
  BY <1>1, <1>4, <1>5 DEF accrued_due

\* A new balance leaves the other fields of a loan record alone.
LEMMA SetAmountDue ==
  ASSUME NEW l \in Loan, NEW n \in Nat
  PROVE  LET m == [l EXCEPT !.amount_due = n]
         IN  /\ m \in Loan
             /\ m.amount_due = n
             /\ m.principal = l.principal /\ m.start = l.start /\ m.due = l.due
             /\ m.grace_period = l.grace_period /\ m.tenor_days = l.tenor_days
             /\ m.active = l.active /\ m.defaulted = l.defaulted
             /\ m.last_accrued = l.last_accrued /\ m.fee_bps = l.fee_bps
BY DEF Loan

\* Accruing a loan changes what it owes and its anchor, both upwards.
LEMMA AccrueLoan ==
  ASSUME NEW l \in Loan, NEW rate \in Nat, NEW t \in Nat, l.active, LoanShape(l, t)
  PROVE  LET a == accrue(l, rate, t)
         IN  /\ a \in Loan
             /\ LoanShape(a, t)
             /\ a.active
             /\ a.principal = l.principal
             /\ a.amount_due >= l.amount_due
             /\ a.defaulted = l.defaulted
             /\ a.start = l.start
             /\ a.tenor_days = l.tenor_days
             /\ a.amount_due = accrued_in_memory(l, rate, t).amount_due
             /\ a.due = l.due /\ a.grace_period = l.grace_period /\ a.fee_bps = l.fee_bps
             /\ a.last_accrued = Greater(l.last_accrued, t)
<1> USE LoanManagerAssumption
<1>1. l.tenor_days > 0 /\ l # NoLoan
  BY DEF LoanShape, NoLoan, Loan
<1>2. accrued_due(l, rate, t) \in Nat /\ accrued_due(l, rate, t) >= l.amount_due
  BY <1>1, AccruedDueGrows
<1> DEFINE m == accrued_in_memory(l, rate, t)
<1> HIDE DEF m
<1>3. /\ m \in Loan /\ m.amount_due >= l.amount_due
      /\ m.principal = l.principal /\ m.start = l.start /\ m.due = l.due
      /\ m.grace_period = l.grace_period /\ m.tenor_days = l.tenor_days
      /\ m.active = l.active /\ m.defaulted = l.defaulted
      /\ m.last_accrued = l.last_accrued /\ m.fee_bps = l.fee_bps
  <2>1. CASE t <= accrual_from(l)
    <3>1. m = l
      BY <2>1 DEF m, accrued_in_memory
    <3>2. l.amount_due >= l.amount_due
      BY DEF Loan
    <3> QED
      BY <3>1, <3>2, Zenon
  <2>2. CASE ~(t <= accrual_from(l))
    <3> DEFINE d == accrued_due(l, rate, t)
    <3>1. m = [l EXCEPT !.amount_due = d]
      BY <2>2 DEF m, accrued_in_memory
    <3>2. d \in Nat /\ d >= l.amount_due
      BY <1>2
    <3> HIDE DEF d
    <3>3. m \in Loan /\ m.amount_due = d
      BY <3>1, <3>2 DEF Loan
    <3>4. /\ m.principal = l.principal /\ m.start = l.start /\ m.due = l.due
          /\ m.grace_period = l.grace_period /\ m.tenor_days = l.tenor_days
          /\ m.active = l.active /\ m.defaulted = l.defaulted
          /\ m.last_accrued = l.last_accrued /\ m.fee_bps = l.fee_bps
      BY <3>1 DEF Loan
    <3> QED
      BY <3>2, <3>3, <3>4, Zenon
  <2> QED
    BY <2>1, <2>2
<1> DEFINE a == [m EXCEPT !.last_accrued = Greater(@, t)]
<1>4. accrue(l, rate, t) = a
  BY DEF accrue, m
<1>5. /\ a \in Loan
      /\ a.principal = l.principal /\ a.amount_due = m.amount_due
      /\ a.active = l.active /\ a.defaulted = l.defaulted /\ a.start = l.start
      /\ a.due = l.due /\ a.grace_period = l.grace_period
      /\ a.tenor_days = l.tenor_days /\ a.last_accrued >= l.last_accrued
      /\ a.fee_bps = l.fee_bps /\ a.last_accrued = Greater(l.last_accrued, t)
  <2>1. Greater(m.last_accrued, t) \in Nat /\ Greater(m.last_accrued, t) >= m.last_accrued
    BY <1>3 DEF Loan, Greater
  <2>2. a = [m EXCEPT !.last_accrued = Greater(m.last_accrued, t)]
    BY <1>3 DEF Loan
  <2> QED
    BY <2>1, <1>3 DEF Loan
<1> HIDE DEF a
<1>6. LoanShape(a, t)
  <2>1. l.principal <= a.amount_due
    BY <1>1, <1>3, <1>5 DEF LoanShape, Loan
  <2>2. l.start < a.last_accrued
    BY <1>1, <1>5 DEF LoanShape, Loan
  <2> QED
    BY <1>1, <1>5, <2>1, <2>2 DEF LoanShape
<1> QED
  BY <1>3, <1>4, <1>5, <1>6 DEF m

\* Interest first, principal next; a payment short of the debt leaves some principal.
LEMMA SplitFacts ==
  ASSUME NEW l \in Loan, l.principal <= l.amount_due, NEW paid \in Nat
  PROVE  LET s == split(l, paid)
         IN  /\ s.principal_paid \in Nat /\ s.interest_paid \in Nat /\ s.remaining \in Nat
             /\ s.principal_paid <= l.principal
             /\ s.principal_paid + s.interest_paid = paid
             /\ paid >= l.amount_due => s.principal_paid = l.principal /\ s.remaining = 0
             /\ paid < l.amount_due =>
                  /\ s.remaining = l.amount_due - paid
                  /\ s.remaining > 0
                  /\ 0 < l.principal => s.principal_paid < l.principal
                  /\ l.principal - s.principal_paid <= s.remaining
BY DEF split, Lesser, Loan

\* A loan record open_loan writes is well formed and owes its principal and a fee.
LEMMA NewLoanShape ==
  ASSUME NEW principal \in Nat \ {0}, NEW tenor \in Tenors, NEW fee_bps \in Nat,
         NEW t \in Nat \ {0}, NEW g \in Nat
  PROVE  LET n == new_loan(principal, tenor, fee_bps, t, g)
         IN  /\ n \in Loan
             /\ LoanShape(n, t)
             /\ n.principal = principal
             /\ n.active
             /\ ~n.defaulted
<1> USE LoanManagerAssumption
<1>1. full_fee(principal, fee_bps) \in Nat
  <2>1. principal * fee_bps \in Nat
    BY NatProduct
  <2> QED
    BY <2>1, DivType DEF full_fee, BPS_DENOM
<1>2. day_fee(principal, tenor, fee_bps) \in Nat
  BY <1>1, DivType DEF day_fee
<1>3. opening_fee(principal, tenor, fee_bps) \in Nat
  BY <1>1, <1>2 DEF opening_fee
<1>4. tenor * SECONDS_PER_DAY \in Nat \ {0}
  BY PosProduct
<1> DEFINE due == t + tenor * SECONDS_PER_DAY
           anchor == IF day_fee(principal, tenor, fee_bps) > 0
                     THEN Lesser(t + SECONDS_PER_DAY, due) ELSE due
           owed == principal + opening_fee(principal, tenor, fee_bps)
           n == new_loan(principal, tenor, fee_bps, t, g)
<1>5. due \in Nat /\ due > t /\ anchor \in Nat /\ anchor > t
  BY <1>4 DEF Lesser
<1>6. owed \in Nat /\ owed >= principal
  BY <1>3
<1>7. n = [principal |-> principal, amount_due |-> owed, start |-> t, due |-> due,
           fee_bps |-> fee_bps, grace_period |-> g, tenor_days |-> tenor,
           active |-> TRUE, defaulted |-> FALSE, last_accrued |-> anchor]
  BY DEF new_loan
<1>8. due = t + tenor * SECONDS_PER_DAY
  OBVIOUS
<1> HIDE DEF n, due, anchor, owed
<1>9. n \in Loan
  BY <1>5, <1>6, <1>7 DEF Loan
<1>10. n.principal = principal /\ n.active /\ ~n.defaulted
  BY <1>7
<1>11. LoanShape(n, t)
  BY <1>5, <1>6, <1>7, <1>8 DEF LoanShape
<1> QED
  BY <1>9, <1>10, <1>11 DEF n

\* Writing one well-formed loan record keeps every record well formed.
LEMMA LoanUpdate ==
  ASSUME LMTypeOK, LoanOK, NEW b \in Borrowers, NEW l \in Loan, LoanShape(l, now),
         loan' = [loan EXCEPT ![b] = l], now' = now
  PROVE  loan' \in [Borrowers -> Loan] /\ LoanOK'
<1>1. loan' \in [Borrowers -> Loan]
  BY DEF LMTypeOK
<1>2. ASSUME NEW x \in Borrowers PROVE LoanShape(loan'[x], now)
  BY DEF LMTypeOK, LoanOK
<1> QED
  BY <1>1, <1>2 DEF LoanOK, LoanShape

\* open_loan preserves the invariant and touches one loan: it writes a well
\* formed one.
LEMMA OpenLoanStep ==
  ASSUME LMInv, NEW caller, NEW b \in Borrowers, NEW principal \in Nat, NEW tenor \in Tenors,
         NEW fee_bps \in Nat, open_loan(caller, b, principal, tenor, fee_bps)
  PROVE  /\ LMInv'
         /\ principal > 0
         /\ ~loan[b].active
         /\ OnlyLoanOf(b)
         /\ loan'[b].principal = principal /\ loan'[b].active /\ ~loan'[b].defaulted
<1> DEFINE n == new_loan(principal, tenor, fee_bps, now, grace)
<1>1. principal > 0 /\ ~loan[b].active /\ loan' = [loan EXCEPT ![b] = n] /\ now' = now
  BY DEF open_loan
<1>2. n \in Loan /\ LoanShape(n, now) /\ n.principal = principal /\ n.active /\ ~n.defaulted
  BY <1>1, NewLoanShape DEF LMInv, LMTypeOK
<1> HIDE DEF n
<1>3. loan' \in [Borrowers -> Loan] /\ LoanOK'
  BY <1>1, <1>2, LoanUpdate DEF LMInv
<1>4. offer' \in [Borrowers -> Offer]
  BY DEF open_loan, LMInv, LMTypeOK, Offer, NoOffer
<1>5. LMInv'
  BY <1>3, <1>4 DEF LMInv, LMTypeOK, open_loan, config_vars
<1>6. OnlyLoanOf(b) /\ loan'[b] = n
  BY <1>1 DEF OnlyLoanOf, LMInv, LMTypeOK
<1> QED
  BY <1>1, <1>2, <1>5, <1>6

\* What a payment on an active loan is split into, and what the loan owes before it.
LEMMA PaymentFacts ==
  ASSUME LMInv, NEW b \in Borrowers, loan[b].active, NEW paid \in Nat
  PROVE  LET l == accrue(loan[b], late_rate[b], now)
             s == payment(b, paid)
         IN  /\ l \in Loan /\ LoanShape(l, now) /\ l.active
             /\ l.principal = loan[b].principal /\ l.defaulted = loan[b].defaulted
             /\ preview_owed(b) = l.amount_due
             /\ preview_owed(b) \in Nat /\ preview_owed(b) >= loan[b].principal
             /\ loan[b].principal > 0
             /\ s.principal_paid \in Nat /\ s.interest_paid \in Nat /\ s.remaining \in Nat
             /\ s.principal_paid <= l.principal
             /\ s.principal_paid + s.interest_paid = paid
             /\ paid >= l.amount_due => s.principal_paid = l.principal /\ s.remaining = 0
             /\ paid < l.amount_due =>
                  /\ s.remaining = l.amount_due - paid
                  /\ s.remaining > 0
                  /\ s.principal_paid < l.principal
                  /\ l.principal - s.principal_paid <= s.remaining
<1> DEFINE l == accrue(loan[b], late_rate[b], now)
<1>1. loan[b] \in Loan /\ LoanShape(loan[b], now) /\ late_rate[b] \in Nat /\ now \in Nat
  BY DEF LMInv, LMTypeOK, LoanOK
<1>2. /\ l \in Loan /\ LoanShape(l, now) /\ l.active
      /\ l.principal = loan[b].principal /\ l.defaulted = loan[b].defaulted
      /\ l.amount_due = preview_owed(b)
  BY <1>1, AccrueLoan DEF preview_owed
<1> HIDE DEF l
<1>3. l.principal > 0 /\ l.principal <= l.amount_due /\ l.amount_due \in Nat
  BY <1>2 DEF LoanShape, NoLoan, Loan
<1>4. payment(b, paid) = split(l, paid)
  BY DEF payment, l
<1>5. loan[b].principal > 0 /\ preview_owed(b) \in Nat /\ preview_owed(b) >= loan[b].principal
  <2>1. loan[b].principal \in Nat
    BY <1>1 DEF Loan
  <2> QED
    BY <1>2, <1>3, <2>1
<1>6. LET s == payment(b, paid)
      IN  /\ s.principal_paid \in Nat /\ s.interest_paid \in Nat /\ s.remaining \in Nat
          /\ s.principal_paid <= l.principal
          /\ s.principal_paid + s.interest_paid = paid
          /\ paid >= l.amount_due => s.principal_paid = l.principal /\ s.remaining = 0
          /\ paid < l.amount_due =>
               /\ s.remaining = l.amount_due - paid
               /\ s.remaining > 0
               /\ s.principal_paid < l.principal
               /\ l.principal - s.principal_paid <= s.remaining
  BY <1>2, <1>3, <1>4, SplitFacts
<1> QED
  BY <1>2, <1>3, <1>5, <1>6 DEF l

\* Closing writes the zero record and a time for the next loan.
LEMMA FinishCloseStep ==
  ASSUME LMInv, NEW b \in Borrowers, NEW l \in Loan, LoanShape(l, now), l.active,
         finish_close(b, l), UNCHANGED <<now, config_vars, risk, offer, late_rate>>
  PROVE  LMInv' /\ OnlyLoanOf(b) /\ loan'[b] = NoLoan
<1>1. NoLoan \in Loan /\ LoanShape(NoLoan, now)
  BY DEF NoLoan, Loan, LoanShape
<1>2. loan' = [loan EXCEPT ![b] = NoLoan] /\ now' = now
  BY DEF finish_close
<1>3. loan' \in [Borrowers -> Loan] /\ LoanOK'
  BY <1>1, <1>2, LoanUpdate DEF LMInv
<1>4. l.tenor_days \in Tenors
  BY DEF LoanShape, NoLoan
<1>5. Greater(now, l.start + min_hold[l.tenor_days]) \in Nat
  BY <1>4 DEF Greater, Loan, LMInv, LMTypeOK
<1>6. next_borrow' \in [Borrowers -> Nat]
  BY <1>5 DEF finish_close, LMInv, LMTypeOK
<1>7. OnlyLoanOf(b) /\ loan'[b] = NoLoan
  BY <1>2 DEF OnlyLoanOf, LMInv, LMTypeOK
<1> QED
  BY <1>2, <1>3, <1>6, <1>7 DEF LMInv, LMTypeOK, config_vars

\* close_loan preserves the invariant: it only ends in finish_close.
LEMMA CloseLoanStep ==
  ASSUME LMInv, NEW caller, NEW b \in Borrowers, NEW paid, close_loan(caller, b, paid)
  PROVE  LMInv' /\ OnlyLoanOf(b) /\ loan'[b] = NoLoan
<1>1. loan[b] \in Loan /\ LoanShape(loan[b], now)
  BY DEF LMInv, LMTypeOK, LoanOK
<1> QED
  BY <1>1, FinishCloseStep DEF close_loan

\* A payment of the whole debt closes the loan; a smaller one lowers its principal
\* by the part split off for it, and never to zero.
LEMMA ApplyPaymentStep ==
  ASSUME LMInv, NEW caller, NEW b \in Borrowers, NEW paid \in Nat, apply_payment(caller, b, paid)
  PROVE  /\ LMInv'
         /\ paid > 0 /\ loan[b].active
         /\ OnlyLoanOf(b)
         /\ paid >= preview_owed(b) => loan'[b] = NoLoan
         /\ paid < preview_owed(b) =>
              /\ ~loan[b].defaulted
              /\ loan'[b].principal = loan[b].principal - payment(b, paid).principal_paid
<1> DEFINE l == accrue(loan[b], late_rate[b], now)
           s == split(l, paid)
           x == [l EXCEPT !.amount_due = s.remaining, !.principal = @ - s.principal_paid]
<1>1. paid > 0 /\ loan[b].active /\ now' = now
  BY DEF apply_payment
<1>2. s = payment(b, paid)
  BY DEF payment
<1>3. /\ l \in Loan /\ LoanShape(l, now) /\ l.active
      /\ l.principal = loan[b].principal /\ l.defaulted = loan[b].defaulted
      /\ preview_owed(b) = l.amount_due
      /\ s.principal_paid \in Nat /\ s.remaining \in Nat
      /\ paid < l.amount_due =>
           /\ s.remaining > 0
           /\ s.principal_paid < l.principal
           /\ l.principal - s.principal_paid <= s.remaining
  BY <1>1, PaymentFacts DEF payment
<1>4. UNCHANGED <<now, config_vars, risk, offer, late_rate>>
  BY DEF apply_payment
<1>5. CASE paid >= l.amount_due
  <2>1. finish_close(b, l)
    BY <1>3, <1>5 DEF apply_payment, Loan
  <2>2. LMInv' /\ OnlyLoanOf(b) /\ loan'[b] = NoLoan
    BY <1>3, <1>4, <2>1, FinishCloseStep
  <2>3. ~(paid < preview_owed(b))
    BY <1>3, <1>5 DEF Loan
  <2> QED
    BY <1>1, <2>2, <2>3
<1>6. CASE paid < l.amount_due
  <2>1. /\ ~l.defaulted
        /\ loan' = [loan EXCEPT ![b] = x]
        /\ next_borrow' = next_borrow
    BY <1>3, <1>6 DEF apply_payment, Loan
  <2> HIDE DEF l, s
  <2>2. /\ x \in Loan /\ x.principal = l.principal - s.principal_paid
        /\ x.amount_due = s.remaining /\ x.active /\ ~x.defaulted
        /\ x.start = l.start /\ x.due = l.due /\ x.tenor_days = l.tenor_days
        /\ x.last_accrued = l.last_accrued
    <3> DEFINE r == s.remaining
               p == s.principal_paid
    <3>1. r \in Nat /\ p \in Nat /\ p <= l.principal /\ l \in Loan
      BY <1>3, <1>6 DEF Loan
    <3>2. x = [l EXCEPT !.amount_due = r, !.principal = @ - p]
      OBVIOUS
    <3> HIDE DEF r, p, x
    <3>3. /\ x \in Loan /\ x.principal = l.principal - p /\ x.amount_due = r
          /\ x.active = l.active /\ x.defaulted = l.defaulted
          /\ x.start = l.start /\ x.due = l.due /\ x.tenor_days = l.tenor_days
          /\ x.last_accrued = l.last_accrued
      <4>1. l.principal - p \in Nat
        BY <3>1 DEF Loan
      <4>2. x \in Loan /\ x.principal = l.principal - p /\ x.amount_due = r
        BY <3>1, <3>2, <4>1 DEF Loan
      <4>3. /\ x.start = l.start /\ x.due = l.due
            /\ x.tenor_days = l.tenor_days /\ x.last_accrued = l.last_accrued
        BY <3>1, <3>2 DEF Loan
      <4>4. x.active = l.active /\ x.defaulted = l.defaulted
        BY <3>1, <3>2 DEF Loan
      <4> QED
        BY <4>2, <4>3, <4>4
    <3> QED
      BY <1>3, <2>1, <3>3 DEF r, p
  <2> HIDE DEF x
  <2>3. LoanShape(x, now)
    <3>1. l.start > 0 /\ l.start < l.last_accrued /\ l.start <= now
          /\ l.tenor_days \in Tenors /\ l.due = l.start + l.tenor_days * SECONDS_PER_DAY
      BY <1>3 DEF LoanShape, NoLoan
    <3>2. 0 < x.principal /\ x.principal <= x.amount_due
      BY <1>3, <1>6, <2>2 DEF Loan
    <3> QED
      BY <2>2, <3>1, <3>2 DEF LoanShape
  <2>4. loan' \in [Borrowers -> Loan] /\ LoanOK'
    BY <1>1, <2>1, <2>2, <2>3, LoanUpdate DEF LMInv
  <2>5. LMInv'
    BY <1>4, <2>1, <2>4 DEF LMInv, LMTypeOK, config_vars
  <2>6. ~(paid >= preview_owed(b))
    BY <1>3, <1>6 DEF Loan
  <2>7. x.principal = loan[b].principal - payment(b, paid).principal_paid
    BY <1>2, <1>3, <2>2
  <2>8. OnlyLoanOf(b) /\ loan'[b] = x
    BY <2>1 DEF OnlyLoanOf, LMInv, LMTypeOK
  <2> QED
    BY <1>1, <1>3, <2>1, <2>5, <2>6, <2>7, <2>8
<1> QED
  BY <1>3, <1>5, <1>6 DEF Loan

\* mark_default preserves the invariant: the flag is set past the grace
\* period only.
LEMMA MarkDefaultStep ==
  ASSUME LMInv, NEW b \in Borrowers, mark_default(b)
  PROVE  /\ LMInv'
         /\ loan[b].active
         /\ OnlyLoanOf(b)
         /\ loan'[b].active /\ loan'[b].defaulted /\ loan'[b].principal = loan[b].principal
<1> USE LoanManagerAssumption
<1> DEFINE l == loan[b]
           x == [l EXCEPT !.defaulted = TRUE]
<1>1. l \in Loan /\ LoanShape(l, now)
  BY DEF LMInv, LMTypeOK, LoanOK
<1>2. l.active /\ now > l.due + l.grace_period + DEFAULT_LATE_PERIOD /\ now' = now
  BY DEF mark_default
<1>3. loan' = [loan EXCEPT ![b] = x]
  BY DEF mark_default
<1> HIDE DEF l
<1>4. /\ x \in Loan /\ x.defaulted
      /\ x.principal = l.principal /\ x.amount_due = l.amount_due
      /\ x.start = l.start /\ x.due = l.due /\ x.tenor_days = l.tenor_days
      /\ x.grace_period = l.grace_period /\ x.last_accrued = l.last_accrued
  BY <1>1 DEF Loan
<1>5. x.active
  BY <1>1, <1>2 DEF Loan
<1> HIDE DEF x
<1>6. DEFAULT_LATE_PERIOD \in Nat /\ DEFAULT_COOLDOWN \in Nat
  BY DEF DEFAULT_LATE_PERIOD, DEFAULT_COOLDOWN
<1>7. LoanShape(x, now)
  <2>1. now > l.due + l.grace_period
    BY <1>1, <1>2, <1>6 DEF Loan, LMInv, LMTypeOK
  <2> QED
    BY <1>1, <1>2, <1>4, <1>5, <2>1 DEF LoanShape, NoLoan
<1>8. loan' \in [Borrowers -> Loan] /\ LoanOK'
  BY <1>2, <1>3, <1>4, <1>7, LoanUpdate DEF LMInv
<1>9. risk' \in [Borrowers -> Risk]
  BY DEF mark_default, LMInv, LMTypeOK, Risk
<1>10. next_borrow' \in [Borrowers -> Nat]
  BY <1>6 DEF mark_default, LMInv, LMTypeOK
<1>11. LMInv'
  BY <1>2, <1>8, <1>9, <1>10 DEF LMInv, LMTypeOK, mark_default, config_vars
<1>12. OnlyLoanOf(b) /\ loan'[b] = x
  BY <1>3 DEF OnlyLoanOf, LMInv, LMTypeOK
<1> QED
  BY <1>2, <1>4, <1>5, <1>11, <1>12 DEF l

\* accrue_late preserves the invariant and no principal changes.
LEMMA AccrueLateStep ==
  ASSUME LMInv, NEW b \in Borrowers, accrue_late(b)
  PROVE  /\ LMInv'
         /\ loan[b].active
         /\ OnlyLoanOf(b)
         /\ loan'[b].active /\ loan'[b].principal = loan[b].principal
         /\ loan'[b].defaulted = loan[b].defaulted
<1> DEFINE x == accrue(loan[b], late_rate[b], now)
<1>1. loan[b].active /\ loan' = [loan EXCEPT ![b] = x] /\ now' = now
  BY DEF accrue_late
<1>2. /\ x \in Loan /\ LoanShape(x, now) /\ x.active
      /\ x.principal = loan[b].principal /\ x.defaulted = loan[b].defaulted
  BY <1>1, PaymentFacts
<1> HIDE DEF x
<1>3. loan' \in [Borrowers -> Loan] /\ LoanOK'
  BY <1>1, <1>2, LoanUpdate DEF LMInv
<1>4. LMInv'
  BY <1>1, <1>3 DEF LMInv, LMTypeOK, accrue_late, config_vars
<1>5. OnlyLoanOf(b) /\ loan'[b] = x
  BY <1>1 DEF OnlyLoanOf, LMInv, LMTypeOK
<1> QED
  BY <1>1, <1>2, <1>4, <1>5

\* The passing of time preserves the invariant.
LEMMA CloseLedgerStep ==
  ASSUME LMInv, NEW t \in Timestamps, close_ledger(t)
  PROVE  LMInv' /\ loan' = loan
<1> USE LoanManagerAssumption
<1>1. now' = t /\ t > now /\ t \in Nat /\ now \in Nat /\ loan' = loan
  BY DEF close_ledger, LMInv, LMTypeOK
<1>2. ASSUME NEW b \in Borrowers PROVE LoanShape(loan[b], t)
  <2>1. loan[b] \in Loan /\ LoanShape(loan[b], now)
    BY DEF LMInv, LMTypeOK, LoanOK
  <2> QED
    BY <1>1, <2>1 DEF LoanShape, Loan
<1>3. LoanOK'
  BY <1>1, <1>2 DEF LoanOK, LoanShape
<1> QED
  BY <1>1, <1>3 DEF LMInv, LMTypeOK, close_ledger, config_vars

\* The operator's calls leave the loans alone.
LEMMA SettersStep ==
  ASSUME LMInv,
         \/ \E v \in Vaults : set_vault(v)
         \/ \E g \in GracePeriods : set_default_grace_period(g)
         \/ \E t \in Tenors, d \in MinHoldDays : set_min_hold_for_tenor(t, d)
         \/ \E b \in Borrowers, r \in RiskProfiles : set_user_risk(b, r)
         \/ \E b \in Borrowers, o \in OfferTerms : set_loan_offer(b, o)
         \/ \E b \in Borrowers, x \in LateRates : set_premium_config(b, x)
  PROVE  LMInv' /\ loan' = loan
<1> USE LoanManagerAssumption
<1>1. ASSUME loan' = loan, now' = now PROVE LoanOK' /\ now' > 0 /\ now' \in Nat
  BY <1>1 DEF LMInv, LMTypeOK, LoanOK, LoanShape
<1>2. CASE \E v \in Vaults : set_vault(v)
  BY <1>1, <1>2 DEF set_vault, LMInv, LMTypeOK
<1>3. CASE \E g \in GracePeriods : set_default_grace_period(g)
  BY <1>1, <1>3 DEF set_default_grace_period, LMInv, LMTypeOK
<1>4. CASE \E t \in Tenors, d \in MinHoldDays : set_min_hold_for_tenor(t, d)
  <2>1. PICK t \in Tenors, d \in MinHoldDays : set_min_hold_for_tenor(t, d)
    BY <1>4
  <2>2. d * SECONDS_PER_DAY \in Nat
    BY NatProduct
  <2> QED
    BY <1>1, <2>1, <2>2 DEF set_min_hold_for_tenor, LMInv, LMTypeOK
<1>5. CASE \E b \in Borrowers, r \in RiskProfiles : set_user_risk(b, r)
  BY <1>1, <1>5 DEF set_user_risk, config_vars, LMInv, LMTypeOK, Risk
<1>6. CASE \E b \in Borrowers, o \in OfferTerms : set_loan_offer(b, o)
  <2>1. PICK b \in Borrowers, o \in OfferTerms : set_loan_offer(b, o)
    BY <1>6
  <2>2. o \in Offer
    BY DEF Offer
  <2> QED
    BY <1>1, <2>1, <2>2 DEF set_loan_offer, config_vars, LMInv, LMTypeOK
<1>7. CASE \E b \in Borrowers, x \in LateRates : set_premium_config(b, x)
  BY <1>1, <1>7 DEF set_premium_config, config_vars, LMInv, LMTypeOK
<1> QED
  BY <1>2, <1>3, <1>4, <1>5, <1>6, <1>7

\* What the constructor leaves behind satisfies the invariant.
LEMMA LMInitInv ==
  ASSUME LMInit
  PROVE  LMInv
<1> USE LoanManagerAssumption
<1>1. NoRisk \in Risk /\ NoOffer \in Offer /\ NoLoan \in Loan
  BY DEF NoRisk, NoOffer, NoLoan, Risk, Offer, Loan
<1>2. ASSUME NEW t \in Tenors PROVE default_min_hold(t) * SECONDS_PER_DAY \in Nat
  BY NatProduct DEF default_min_hold
<1>3. LMTypeOK
  BY <1>1, <1>2 DEF LMInit, LMTypeOK
<1> QED
  BY <1>3 DEF LMInit, LMInv, LoanOK, LoanShape

-----------------------------------------------------------------------------
(* Whole-number division, as the pro-rata interest uses it.                 *)

\* Multiplying by a natural keeps an order.
LEMMA ProductMonotone ==
  ASSUME NEW x \in Int, NEW y \in Int, x <= y, NEW d \in Nat
  PROVE  x * d <= y * d
<1>1. (y - x) \in Nat
  OBVIOUS
<1>2. (y - x) * d \in Nat
  BY <1>1, NatProduct
<1>3. (y - x) * d = y * d - x * d
  OBVIOUS
<1> QED
  BY <1>2, <1>3

\* A quotient is determined by the two bounds on it.
LEMMA DivUnique ==
  ASSUME NEW a \in Int, NEW d \in Nat \ {0}, NEW q \in Int, q * d <= a, a < q * d + d
  PROVE  a \div d = q
<1> DEFINE r == a \div d
<1>1. r \in Int /\ r * d <= a /\ a < r * d + d
  BY DivType
<1> HIDE DEF r
<1>2. ~(r < q)
  <2>1. ASSUME r < q PROVE FALSE
    <3>1. (r + 1) * d <= q * d
      BY <1>1, <2>1, ProductMonotone
    <3>2. (r + 1) * d = r * d + d
      BY <1>1
    <3> QED
      BY <1>1, <3>1, <3>2
  <2> QED
    BY <2>1
<1>3. ~(q < r)
  <2>1. ASSUME q < r PROVE FALSE
    <3>1. (q + 1) * d <= r * d
      BY <1>1, <2>1, ProductMonotone
    <3>2. (q + 1) * d = q * d + d
      BY <1>1
    <3> QED
      BY <1>1, <3>1, <3>2
  <2> QED
    BY <2>1
<1>4. r = q
  BY <1>1, <1>2, <1>3
<1> QED
  BY <1>4 DEF r

\* A larger dividend has no smaller quotient.
LEMMA DivMonotone ==
  ASSUME NEW a \in Int, NEW b \in Int, a <= b, NEW d \in Nat \ {0}
  PROVE  a \div d <= b \div d
<1> DEFINE q == a \div d
           r == b \div d
<1>1. q \in Int /\ q * d <= a /\ r \in Int /\ b < r * d + d
  BY DivType
<1> HIDE DEF q, r
<1>2. ASSUME r < q PROVE FALSE
  <2>1. (r + 1) * d <= q * d
    BY <1>1, <1>2, ProductMonotone
  <2>2. (r + 1) * d = r * d + d
    BY <1>1
  <2> QED
    BY <1>1, <2>1, <2>2
<1>3. q <= r
  BY <1>1, <1>2
<1> QED
  BY <1>3 DEF q, r

\* A common factor cancels.
LEMMA DivCancel ==
  ASSUME NEW a \in Int, NEW d \in Nat \ {0}, NEW k \in Nat \ {0}
  PROVE  (a * k) \div (d * k) = a \div d
<1> DEFINE q == a \div d
<1>1. q \in Int /\ q * d <= a /\ a < q * d + d
  BY DivType
<1> HIDE DEF q
<1>2. (q * d) * k <= a * k
  BY <1>1, ProductMonotone
<1>3. (a + 1) * k <= (q * d + d) * k
  BY <1>1, ProductMonotone
<1>4. (a + 1) * k = a * k + k /\ (q * d + d) * k = q * (d * k) + d * k
      /\ (q * d) * k = q * (d * k)
  BY <1>1
<1>5. d * k \in Nat \ {0} /\ a * k \in Int
  BY PosProduct
<1>6. q * (d * k) <= a * k /\ a * k < q * (d * k) + d * k
  BY <1>1, <1>2, <1>3, <1>4, <1>5
<1>7. (a * k) \div (d * k) = q
  BY <1>1, <1>5, <1>6, DivUnique
<1> QED
  BY <1>7 DEF q

\* Dividing twice is dividing by the product.
LEMMA DivTwice ==
  ASSUME NEW a \in Int, NEW d \in Nat \ {0}, NEW k \in Nat \ {0}
  PROVE  (a \div d) \div k = a \div (d * k)
<1> DEFINE p == a \div d
           q == p \div k
<1>1. p \in Int /\ p * d <= a /\ a < p * d + d
  BY DivType
<1> HIDE DEF p
<1>2. q \in Int /\ q * k <= p /\ p < q * k + k
  BY <1>1, DivType
<1> HIDE DEF q
<1>3. (q * k) * d <= p * d
  BY <1>1, <1>2, ProductMonotone
<1>4. (p + 1) * d <= (q * k + k) * d
  BY <1>1, <1>2, ProductMonotone
<1>5. (p + 1) * d = p * d + d /\ (q * k + k) * d = q * (d * k) + d * k
      /\ (q * k) * d = q * (d * k)
  BY <1>1, <1>2
<1>6. d * k \in Nat \ {0}
  BY PosProduct
<1>7. q * (d * k) <= a /\ a < q * (d * k) + d * k
  BY <1>1, <1>2, <1>3, <1>4, <1>5, <1>6
<1>8. a \div (d * k) = q
  BY <1>2, <1>6, <1>7, DivUnique
<1> QED
  BY <1>8 DEF q, p

\* Two roundings cost at most a unit: a smaller increase of the dividend gives an
\* increase of the quotient at most one larger.
LEMMA DivDifference ==
  ASSUME NEW a \in Int, NEW b \in Int, NEW x \in Int, NEW y \in Int,
         NEW d \in Nat \ {0}, a - b <= x - y
  PROVE  a \div d - b \div d <= x \div d - y \div d + 1
<1> DEFINE qa == a \div d
           qb == b \div d
           qx == x \div d
           qy == y \div d
<1>1. /\ qa \in Int /\ qb \in Int /\ qx \in Int /\ qy \in Int
      /\ qa * d <= a /\ b < qb * d + d /\ x < qx * d + d /\ qy * d <= y
  BY DivType
<1> HIDE DEF qa, qb, qx, qy
<1>2. ASSUME qa - qb > qx - qy + 1 PROVE FALSE
  <2> DEFINE m == qa - qb - qx + qy - 2
  <2>1. m \in Nat
    BY <1>1, <1>2
  <2>2. m * d \in Nat
    BY <2>1, NatProduct
  <2>3. m * d = qa * d - qb * d - qx * d + qy * d - 2 * d
    BY <1>1
  <2>4. /\ qa * d \in Int /\ qb * d \in Int /\ qx * d \in Int /\ qy * d \in Int
    BY <1>1
  <2> HIDE DEF m
  <2> QED
    BY <1>1, <2>2, <2>3, <2>4
<1>3. qa - qb <= qx - qy + 1
  BY <1>1, <1>2
<1> QED
  BY <1>3 DEF qa, qb, qx, qy

-----------------------------------------------------------------------------
(* The loan manager on its own: the specification HSpec of LoanHistory.     *)

Hist == [borrowed: Nat, paid: Nat, payments: Nat, defaulted_at: Nat, rescored: BOOLEAN]

\* What the history of a borrower says of a loan.
HistFollowsLoan(l, h) ==
  /\ ~l.active => h.paid = 0 /\ h.payments = 0
  /\ l.active /\ h.payments = 0 => h.paid = 0 /\ l.principal = h.borrowed

\* Interest of a loan that is still to come.
Unearned(l) == cum(l, l.due) - cum(l, l.last_accrued)

\* Charged so far and still to come, an instalment loan costs its full fee and
\* a unit of rounding for each payment.
CostIsBounded(l, h, t) ==
  l.active /\ t <= l.due + l.grace_period =>
    l.amount_due + h.paid - h.borrowed + Unearned(l)
      <= full_fee(h.borrowed, l.fee_bps) + h.payments

\* Where open_loan puts the accrual anchor of a loan nobody has paid on.
opening_anchor(l) ==
  IF day_fee(l.principal, l.tenor_days, l.fee_bps) > 0
  THEN Lesser(l.start + SECONDS_PER_DAY, l.due) ELSE l.due

\* Without a payment the debt is the principal and the interest accumulated up to
\* the anchor, which is ahead of the clock only where open_loan put it.
AccruedToAnchor(l, h, t) ==
  l.active /\ t <= l.due + l.grace_period /\ h.payments = 0 /\ InterestFits(l) =>
    /\ l.amount_due = l.principal + cum(l, l.last_accrued)
    /\ l.last_accrued >= opening_anchor(l)
    /\ l.last_accrued > t => l.last_accrued = opening_anchor(l)

LoanHistOK(l, h, t) == HistFollowsLoan(l, h) /\ CostIsBounded(l, h, t) /\ AccruedToAnchor(l, h, t)

HInv ==
  /\ LMInv
  /\ hist \in [Borrowers -> Hist]
  /\ \A b \in Borrowers :
       /\ LoanHistOK(loan[b], hist[b], now)
       /\ ~hist[b].rescored => risk[b].limit = 0

-----------------------------------------------------------------------------
(* The interest accumulated on a loan.                                      *)

\* What an open loan gives the interest to work with.
LEMMA ActiveLoan ==
  ASSUME NEW l \in Loan, l.active, NEW t, LoanShape(l, t)
  PROVE  /\ l.tenor_days \in Nat \ {0}
         /\ l.tenor_days * SECONDS_PER_DAY \in Nat \ {0}
         /\ BPS_DENOM * (l.tenor_days * SECONDS_PER_DAY) \in Nat \ {0}
         /\ l.due = l.start + l.tenor_days * SECONDS_PER_DAY
         /\ l.principal \in Nat \ {0} /\ l.amount_due \in Nat /\ l.fee_bps \in Nat
         /\ l.start \in Nat \ {0} /\ l.due \in Nat /\ l.grace_period \in Nat
         /\ l.last_accrued \in Nat /\ l.start < l.last_accrued
         /\ l.principal * l.fee_bps \in Nat
         /\ accrual_from(l) = l.last_accrued
<1> USE LoanManagerAssumption
<1>1. /\ l.tenor_days \in Nat \ {0}
      /\ l.due = l.start + l.tenor_days * SECONDS_PER_DAY
      /\ l.principal > 0 /\ l.start > 0 /\ l.start < l.last_accrued
  <2>1. l # NoLoan
    BY DEF NoLoan
  <2>2. l.tenor_days \in Tenors
    BY <2>1 DEF LoanShape
  <2> QED
    BY <2>1, <2>2 DEF LoanShape
<1>2. /\ l.principal \in Nat /\ l.amount_due \in Nat /\ l.fee_bps \in Nat /\ l.start \in Nat
      /\ l.due \in Nat /\ l.grace_period \in Nat /\ l.last_accrued \in Nat
  BY DEF Loan
<1>3. l.tenor_days * SECONDS_PER_DAY \in Nat \ {0}
  BY <1>1, PosProduct
<1>4. BPS_DENOM * (l.tenor_days * SECONDS_PER_DAY) \in Nat \ {0}
  BY <1>3, PosProduct DEF BPS_DENOM
<1>5. l.principal * l.fee_bps \in Nat
  BY <1>2, NatProduct
<1>6. accrual_from(l) = l.last_accrued
  BY <1>1, <1>2 DEF accrual_from
<1> QED
  BY <1>1, <1>2, <1>3, <1>4, <1>5, <1>6

\* Interest accumulates with time, and stops at the due date.
LEMMA CumGrows ==
  ASSUME NEW l \in Loan, l.active, NEW t, LoanShape(l, t), NEW s \in Nat, NEW u \in Nat
  PROVE  /\ cum(l, s) \in Int
         /\ s <= u => cum(l, s) <= cum(l, u)
         /\ s >= l.due => cum(l, s) = cum(l, l.due)
         /\ cum(l, Lesser(s, l.due)) = cum(l, s)
         /\ cum(l, s) <= cum(l, l.due)
<1> DEFINE D == BPS_DENOM * (l.tenor_days * SECONDS_PER_DAY)
           R == l.principal * l.fee_bps
<1>1. D \in Nat \ {0} /\ R \in Nat /\ l.due \in Nat /\ l.start \in Nat
  BY ActiveLoan
<1>2. ASSUME NEW x \in Nat
      PROVE  elapsed(l, x) \in Int /\ cum(l, x) = (R * elapsed(l, x)) \div D
  BY <1>1 DEF elapsed, Lesser, cum
<1> HIDE DEF D, R
<1>3. ASSUME NEW x \in Nat, NEW y \in Nat, elapsed(l, x) <= elapsed(l, y)
      PROVE  cum(l, x) \in Int /\ cum(l, x) <= cum(l, y)
  <2>1. elapsed(l, x) \in Int /\ elapsed(l, y) \in Int
    BY <1>2
  <2>2. elapsed(l, x) * R <= elapsed(l, y) * R
    BY <1>1, <1>3, <2>1, ProductMonotone
  <2>3. /\ R * elapsed(l, x) \in Int /\ R * elapsed(l, y) \in Int
        /\ R * elapsed(l, x) <= R * elapsed(l, y)
    BY <1>1, <2>1, <2>2
  <2>4. (R * elapsed(l, x)) \div D \in Int
    BY <1>1, <2>3, DivType
  <2> QED
    BY <1>1, <1>2, <2>3, <2>4, DivMonotone
<1>4. s <= u => elapsed(l, s) <= elapsed(l, u)
  BY <1>1 DEF elapsed, Lesser
<1>5. elapsed(l, s) <= elapsed(l, s) /\ elapsed(l, s) <= elapsed(l, l.due)
  BY <1>1 DEF elapsed, Lesser
<1>6. s >= l.due => elapsed(l, s) = elapsed(l, l.due)
  BY <1>1 DEF elapsed, Lesser
<1>7. Lesser(s, l.due) \in Nat /\ elapsed(l, Lesser(s, l.due)) = elapsed(l, s)
  BY <1>1 DEF elapsed, Lesser
<1>8. cum(l, s) \in Int /\ cum(l, s) <= cum(l, l.due)
  BY <1>1, <1>3, <1>5
<1>9. s <= u => cum(l, s) <= cum(l, u)
  BY <1>3, <1>4
<1>10. s >= l.due => cum(l, s) = cum(l, l.due)
  BY <1>1, <1>2, <1>6
<1>11. cum(l, Lesser(s, l.due)) = cum(l, s)
  BY <1>2, <1>7
<1> QED
  BY <1>8, <1>9, <1>10, <1>11

\* Over its whole life a loan accumulates the full fee, and up to the anchor that
\* open_loan sets, the opening charge.
LEMMA CumAtAnchors ==
  ASSUME NEW l \in Loan, l.active, NEW t, LoanShape(l, t)
  PROVE  /\ cum(l, l.due) = full_fee(l.principal, l.fee_bps)
         /\ cum(l, opening_anchor(l)) = opening_fee(l.principal, l.tenor_days, l.fee_bps)
         /\ opening_anchor(l) \in Nat /\ opening_anchor(l) <= l.due
<1> USE LoanManagerAssumption
<1> DEFINE T == l.tenor_days
           R == l.principal * l.fee_bps
<1>1. /\ T \in Nat \ {0} /\ R \in Nat /\ l.start \in Nat /\ l.due \in Nat
      /\ T * SECONDS_PER_DAY \in Nat \ {0}
      /\ l.due = l.start + T * SECONDS_PER_DAY
      /\ SECONDS_PER_DAY \in Nat \ {0} /\ BPS_DENOM \in Nat \ {0}
  BY ActiveLoan DEF BPS_DENOM
<1>2. /\ full_fee(l.principal, l.fee_bps) = R \div BPS_DENOM
      /\ day_fee(l.principal, T, l.fee_bps) = (R \div BPS_DENOM) \div T
  BY DEF full_fee, day_fee
<1>3. ASSUME NEW x \in Nat
      PROVE  cum(l, x) = (R * elapsed(l, x)) \div (BPS_DENOM * (T * SECONDS_PER_DAY))
  BY DEF cum
<1> HIDE DEF T, R
<1>4. cum(l, l.due) = R \div BPS_DENOM
  <2>1. elapsed(l, l.due) = T * SECONDS_PER_DAY
    BY <1>1 DEF elapsed, Lesser
  <2> QED
    <3>1. cum(l, l.due) = (R * (T * SECONDS_PER_DAY)) \div (BPS_DENOM * (T * SECONDS_PER_DAY))
      BY <1>1, <1>3, <2>1
    <3>2. R \in Int
      BY <1>1
    <3> QED
      BY <1>1, <3>1, <3>2, DivCancel
<1>5. SECONDS_PER_DAY <= T * SECONDS_PER_DAY
  <2>1. 1 * SECONDS_PER_DAY <= T * SECONDS_PER_DAY
    BY <1>1, ProductMonotone
  <2> QED
    BY <1>1, <2>1
<1>6. CASE day_fee(l.principal, T, l.fee_bps) > 0
  <2>1. opening_anchor(l) = l.start + SECONDS_PER_DAY
    BY <1>1, <1>5, <1>6 DEF opening_anchor, Lesser, T
  <2>2. opening_anchor(l) \in Nat /\ opening_anchor(l) <= l.due
    BY <1>1, <1>5, <2>1
  <2>3. elapsed(l, opening_anchor(l)) = SECONDS_PER_DAY
    BY <1>1, <2>1, <2>2 DEF elapsed, Lesser
  <2>4. BPS_DENOM * (T * SECONDS_PER_DAY) = (BPS_DENOM * T) * SECONDS_PER_DAY
        /\ BPS_DENOM * T \in Nat \ {0}
    BY <1>1, PosProduct
  <2>5. cum(l, opening_anchor(l))
          = (R * SECONDS_PER_DAY) \div ((BPS_DENOM * T) * SECONDS_PER_DAY)
    BY <1>3, <2>2, <2>3, <2>4
  <2>6. cum(l, opening_anchor(l)) = R \div (BPS_DENOM * T)
    BY <1>1, <2>4, <2>5, DivCancel
  <2>7. (R \div BPS_DENOM) \div T = R \div (BPS_DENOM * T)
    <3>1. R \in Int
      BY <1>1
    <3> QED
      BY <1>1, <3>1, DivTwice
  <2>8. cum(l, opening_anchor(l)) = opening_fee(l.principal, T, l.fee_bps)
    BY <1>2, <1>6, <2>6, <2>7 DEF opening_fee
  <2> QED
    BY <1>2, <1>4, <2>2, <2>8 DEF T
<1>7. CASE ~(day_fee(l.principal, T, l.fee_bps) > 0)
  <2>1. opening_anchor(l) = l.due
    BY <1>7 DEF opening_anchor, T
  <2>2. opening_fee(l.principal, T, l.fee_bps) = full_fee(l.principal, l.fee_bps)
    BY <1>7 DEF opening_fee
  <2> QED
    BY <1>1, <1>2, <1>4, <2>1, <2>2 DEF T
<1> QED
  BY <1>6, <1>7

\* If the interest up to the due date can be computed, so can all before it.
LEMMA FitsBefore ==
  ASSUME NEW l \in Loan, l.active, NEW t, LoanShape(l, t), NEW s \in Nat, InterestFits(l)
  PROVE  cum_fits(l, s)
<1> USE LoanManagerAssumption
<1> DEFINE R == l.principal * l.fee_bps
<1>1. R \in Nat /\ l.due \in Nat /\ l.start \in Nat
  BY ActiveLoan
<1>2. elapsed(l, s) \in Int /\ elapsed(l, l.due) \in Int /\ elapsed(l, s) <= elapsed(l, l.due)
  BY <1>1 DEF elapsed, Lesser
<1>3. fits(R) /\ fits(R * elapsed(l, l.due))
  BY DEF InterestFits, cum_fits
<1> HIDE DEF R
<1>4. elapsed(l, s) * R <= elapsed(l, l.due) * R
  BY <1>1, <1>2, ProductMonotone
<1>5. R * elapsed(l, s) <= R * elapsed(l, l.due)
      /\ R * elapsed(l, s) \in Int /\ R * elapsed(l, l.due) \in Int
  BY <1>1, <1>2, <1>4
<1>6. fits(R * elapsed(l, s))
  BY <1>3, <1>5 DEF fits
<1> QED
  BY <1>3, <1>6 DEF cum_fits, R

\* Before late fees a loan is charged the interest from its anchor to the clock,
\* or less where a multiplication overflows.
LEMMA OwedBeforeLateFees ==
  ASSUME NEW l \in Loan, l.active, NEW rate \in Nat, NEW t \in Nat, LoanShape(l, t),
         t <= l.due + l.grace_period
  PROVE  LET o == accrued_in_memory(l, rate, t).amount_due
             u == Greater(l.last_accrued, t)
         IN  /\ o \in Nat /\ u \in Nat
             /\ o <= l.amount_due + (cum(l, u) - cum(l, l.last_accrued))
             /\ InterestFits(l) => o = l.amount_due + (cum(l, u) - cum(l, l.last_accrued))
<1> DEFINE f == l.last_accrued
           o == accrued_in_memory(l, rate, t).amount_due
           u == Greater(f, t)
<1>1. /\ f \in Nat /\ l.due \in Nat /\ l.grace_period \in Nat /\ l.amount_due \in Nat
      /\ accrual_from(l) = f
  BY ActiveLoan
<1>2. u \in Nat /\ f <= u
  BY <1>1 DEF Greater
<1>3. cum(l, f) \in Int /\ cum(l, u) \in Int
  BY <1>1, <1>2, CumGrows
<1>4. CASE t <= f
  <2>1. u = f
    BY <1>1, <1>4 DEF Greater
  <2>2. o = l.amount_due
    BY <1>1, <1>4 DEF accrued_in_memory
  <2> QED
    BY <1>1, <1>2, <1>3, <2>1, <2>2
<1>5. CASE ~(t <= f)
  <2>1. u = t
    BY <1>1, <1>5 DEF Greater
  <2>2. accrued_in_memory(l, rate, t) = [l EXCEPT !.amount_due = accrued_due(l, rate, t)]
    BY <1>1, <1>5 DEF accrued_in_memory
  <2>3. o = accrued_due(l, rate, t)
    BY <2>2 DEF Loan
  <2>4. ASSUME NEW x \in Nat PROVE late_fee(l, rate, t, x) = 0
    <3>1. ~(t - Greater(accrual_from(l), l.due + l.grace_period) > 0)
      BY <1>1 DEF Greater
    <3> QED
      BY <3>1 DEF late_fee
  <2> DEFINE to == Lesser(t, l.due)
             i == interest(l, t)
  <2>5. to \in Nat /\ cum(l, to) = cum(l, t) /\ cum(l, f) <= cum(l, t)
    <3>1. to \in Nat
      BY <1>1 DEF Lesser
    <3> QED
      BY <1>1, <1>5, <3>1, CumGrows
  <2>6. i = IF to > f /\ cum_fits(l, to) /\ cum_fits(l, f)
            THEN Greater(cum(l, to) - cum(l, f), 0) ELSE 0
    BY <1>1 DEF interest
  <2> HIDE DEF i
  <2>7. i \in Nat /\ i <= cum(l, t) - cum(l, f)
    BY <1>3, <2>1, <2>5, <2>6 DEF Greater
  <2>8. ASSUME InterestFits(l) PROVE i = cum(l, t) - cum(l, f)
    <3>1. cum_fits(l, to) /\ cum_fits(l, f)
      BY <1>1, <2>5, <2>8, FitsBefore
    <3>2. CASE to > f
      BY <1>3, <2>1, <2>5, <2>6, <3>1, <3>2 DEF Greater
    <3>3. CASE ~(to > f)
      <4>1. f >= l.due /\ t >= l.due
        BY <1>1, <1>5, <3>3 DEF Lesser
      <4>2. cum(l, f) = cum(l, l.due) /\ cum(l, t) = cum(l, l.due)
        BY <1>1, <4>1, CumGrows
      <4> QED
        BY <1>3, <2>6, <3>3, <4>2
    <3> QED
      BY <3>2, <3>3
  <2>9. o = l.amount_due + i
    BY <1>1, <2>3, <2>4, <2>7 DEF accrued_due, i
  <2> QED
    BY <1>1, <1>2, <1>3, <2>1, <2>7, <2>8, <2>9
<1> QED
  BY <1>1, <1>4, <1>5

-----------------------------------------------------------------------------
(* What each operation does to a loan and its history.                      *)

\* Cumulative interest depends on these fields only.
LEMMA CumFields ==
  ASSUME NEW l \in Loan, NEW m \in Loan,
         m.principal = l.principal, m.fee_bps = l.fee_bps, m.start = l.start,
         m.due = l.due, m.tenor_days = l.tenor_days
  PROVE  /\ \A s \in Nat : cum(m, s) = cum(l, s)
         /\ InterestFits(m) = InterestFits(l)
         /\ opening_anchor(m) = opening_anchor(l)
<1>1. \A s \in Nat : cum(m, s) = cum(l, s)
  BY DEF cum, elapsed
<1>2. InterestFits(m) = InterestFits(l)
  BY DEF InterestFits, cum_fits, elapsed
<1>3. opening_anchor(m) = opening_anchor(l)
  BY DEF opening_anchor
<1> QED
  BY <1>1, <1>2, <1>3

\* A full fee is a natural number.
LEMMA FullFeeType ==
  ASSUME NEW p \in Nat, NEW fee_bps \in Nat
  PROVE  full_fee(p, fee_bps) \in Nat
<1>1. p * fee_bps \in Nat
  BY NatProduct
<1> QED
  BY <1>1, DivType DEF full_fee, BPS_DENOM

\* open_loan: charged is the interest up to the anchor, the rest is still to come.
LEMMA OpenedLoan ==
  ASSUME NEW principal \in Nat \ {0}, NEW tenor \in Tenors, NEW fee_bps \in Nat,
         NEW t \in Nat \ {0}, NEW g \in Nat, NEW h \in Hist,
         h.borrowed = principal, h.paid = 0, h.payments = 0
  PROVE  LoanHistOK(new_loan(principal, tenor, fee_bps, t, g), h, t)
<1> DEFINE n == new_loan(principal, tenor, fee_bps, t, g)
<1>1. n \in Loan /\ LoanShape(n, t) /\ n.active /\ n.principal = principal
  BY NewLoanShape
<1>2. /\ n.fee_bps = fee_bps /\ n.tenor_days = tenor /\ n.start = t
      /\ n.due = t + tenor * SECONDS_PER_DAY
      /\ n.amount_due = principal + opening_fee(principal, tenor, fee_bps)
      /\ n.last_accrued = IF day_fee(principal, tenor, fee_bps) > 0
                          THEN Lesser(t + SECONDS_PER_DAY, t + tenor * SECONDS_PER_DAY)
                          ELSE t + tenor * SECONDS_PER_DAY
  BY DEF new_loan
<1> HIDE DEF n
<1>3. n.last_accrued = opening_anchor(n)
  BY <1>1, <1>2 DEF opening_anchor
<1>4. /\ cum(n, n.due) = full_fee(principal, fee_bps)
      /\ cum(n, n.last_accrued) = opening_fee(principal, tenor, fee_bps)
      /\ n.last_accrued \in Nat
  BY <1>1, <1>2, <1>3, CumAtAnchors
<1>5. full_fee(principal, fee_bps) \in Nat
  BY FullFeeType
<1>6. opening_fee(principal, tenor, fee_bps) \in Int
  BY <1>1, <1>4, CumGrows
<1>7. HistFollowsLoan(n, h)
  BY <1>1 DEF HistFollowsLoan
<1>8. CostIsBounded(n, h, t)
  BY <1>2, <1>4, <1>5, <1>6 DEF CostIsBounded, Unearned
<1>9. AccruedToAnchor(n, h, t)
  BY <1>1, <1>2, <1>3, <1>4 DEF AccruedToAnchor
<1> QED
  BY <1>7, <1>8, <1>9 DEF LoanHistOK, n

\* accrue_late, and the first half of a payment: the slice of interest moves from
\* what is to come to what is charged.
LEMMA AccruedLoan ==
  ASSUME NEW l \in Loan, l.active, NEW rate \in Nat, NEW t \in Nat, LoanShape(l, t),
         NEW h \in Hist, LoanHistOK(l, h, t)
  PROVE  LoanHistOK(accrue(l, rate, t), h, t)
<1> DEFINE a == accrue(l, rate, t)
           u == Greater(l.last_accrued, t)
<1>1. /\ a \in Loan /\ LoanShape(a, t) /\ a.active /\ a.principal = l.principal
      /\ a.start = l.start /\ a.tenor_days = l.tenor_days /\ a.due = l.due
      /\ a.grace_period = l.grace_period /\ a.fee_bps = l.fee_bps
      /\ a.last_accrued = u /\ a.amount_due = accrued_in_memory(l, rate, t).amount_due
  BY AccrueLoan
<1>2. /\ l.amount_due \in Nat /\ l.last_accrued \in Nat /\ l.due \in Nat /\ l.principal \in Nat
      /\ u \in Nat /\ l.fee_bps \in Nat /\ l.grace_period \in Nat
  BY ActiveLoan DEF Greater
<1> HIDE DEF a, u
<1>3. /\ cum(a, l.due) = cum(l, l.due) /\ cum(a, u) = cum(l, u)
      /\ InterestFits(a) = InterestFits(l) /\ opening_anchor(a) = opening_anchor(l)
  BY <1>1, <1>2, CumFields
<1>4. cum(l, l.due) \in Int /\ cum(l, u) \in Int /\ cum(l, l.last_accrued) \in Int
  BY <1>2, CumGrows
<1>5. h.borrowed \in Nat /\ h.paid \in Nat /\ h.payments \in Nat
  BY DEF Hist
<1>6. HistFollowsLoan(a, h)
  BY <1>1 DEF LoanHistOK, HistFollowsLoan
<1>7. ASSUME t <= l.due + l.grace_period
      PROVE  /\ a.amount_due \in Nat
             /\ a.amount_due <= l.amount_due + (cum(l, u) - cum(l, l.last_accrued))
             /\ InterestFits(l) =>
                  a.amount_due = l.amount_due + (cum(l, u) - cum(l, l.last_accrued))
  BY <1>1, <1>7, OwedBeforeLateFees DEF u
<1>8. CostIsBounded(a, h, t)
  <2>1. full_fee(h.borrowed, l.fee_bps) \in Nat
    BY <1>2, <1>5, FullFeeType
  <2>2. CASE t <= l.due + l.grace_period
    <3>1. l.amount_due + h.paid - h.borrowed + (cum(l, l.due) - cum(l, l.last_accrued))
            <= full_fee(h.borrowed, l.fee_bps) + h.payments
      BY <2>2 DEF LoanHistOK, CostIsBounded, Unearned
    <3>2. a.amount_due + h.paid - h.borrowed + (cum(l, l.due) - cum(l, u))
            <= full_fee(h.borrowed, l.fee_bps) + h.payments
      BY <1>2, <1>4, <1>5, <1>7, <2>1, <2>2, <3>1
    <3> QED
      BY <1>1, <1>3, <3>2 DEF CostIsBounded, Unearned
  <2>3. CASE ~(t <= l.due + l.grace_period)
    BY <1>1, <2>3 DEF CostIsBounded
  <2> QED
    BY <2>2, <2>3
<1>9. AccruedToAnchor(a, h, t)
  <2>1. SUFFICES ASSUME t <= l.due + l.grace_period, h.payments = 0, InterestFits(l)
                 PROVE  /\ a.amount_due = l.principal + cum(l, u)
                        /\ u >= opening_anchor(l)
                        /\ u > t => u = opening_anchor(l)
    BY <1>1, <1>3 DEF AccruedToAnchor
  <2>2. /\ l.amount_due = l.principal + cum(l, l.last_accrued)
        /\ l.last_accrued >= opening_anchor(l)
        /\ l.last_accrued > t => l.last_accrued = opening_anchor(l)
    BY <2>1 DEF LoanHistOK, AccruedToAnchor
  <2>3. a.amount_due = l.principal + cum(l, u)
    BY <1>2, <1>4, <1>7, <2>1, <2>2
  <2>4. opening_anchor(l) \in Nat
    BY CumAtAnchors
  <2> QED
    BY <1>2, <2>2, <2>3, <2>4 DEF u, Greater
<1> QED
  BY <1>6, <1>8, <1>9 DEF LoanHistOK, a

\* The second half of a payment: rounding restarts on the reduced principal, which
\* costs at most a unit.
LEMMA PaidLoan ==
  ASSUME NEW l \in Loan, l.active, NEW t \in Nat, LoanShape(l, t),
         NEW h \in Hist, LoanHistOK(l, h, t),
         NEW m \in Loan, m.active, LoanShape(m, t), m.principal <= l.principal,
         m.start = l.start, m.due = l.due, m.tenor_days = l.tenor_days, m.fee_bps = l.fee_bps,
         m.grace_period = l.grace_period, m.last_accrued = l.last_accrued,
         NEW paid \in Nat, m.amount_due = l.amount_due - paid,
         NEW k \in Hist, k.borrowed = h.borrowed, k.paid = h.paid + paid,
         k.payments = h.payments + 1
  PROVE  LoanHistOK(m, k, t)
<1>1. h.borrowed \in Nat /\ h.paid \in Nat /\ h.payments \in Nat
  BY DEF Hist
<1>2. HistFollowsLoan(m, k) /\ AccruedToAnchor(m, k, t)
  BY <1>1 DEF HistFollowsLoan, AccruedToAnchor
<1>3. Unearned(m) <= Unearned(l) + 1 /\ Unearned(m) \in Int /\ Unearned(l) \in Int
  <2> DEFINE D == BPS_DENOM * (l.tenor_days * SECONDS_PER_DAY)
             E == elapsed(l, l.due)
             e == elapsed(l, l.last_accrued)
             R == l.principal * l.fee_bps
             S == m.principal * l.fee_bps
  <2>1. /\ D \in Nat \ {0} /\ R \in Nat /\ S \in Nat /\ l.due \in Nat /\ l.start \in Nat
        /\ l.last_accrued \in Nat /\ l.fee_bps \in Nat
    BY ActiveLoan
  <2>2. E \in Int /\ e \in Int /\ E - e \in Nat
    BY <2>1 DEF elapsed, Lesser
  <2>3. S <= R
    BY <2>1, ProductMonotone DEF Loan
  <2>4. /\ cum(l, l.due) = (R * E) \div D /\ cum(l, l.last_accrued) = (R * e) \div D
        /\ cum(m, m.due) = (S * E) \div D /\ cum(m, m.last_accrued) = (S * e) \div D
    BY DEF cum, elapsed
  <2> HIDE DEF D, E, e, R, S
  <2>5. S * (E - e) <= R * (E - e)
    BY <2>1, <2>2, <2>3, ProductMonotone
  <2>6. /\ S * E \in Int /\ S * e \in Int /\ R * E \in Int /\ R * e \in Int
        /\ S * E - S * e <= R * E - R * e
    BY <2>1, <2>2, <2>5
  <2>7. (S * E) \div D - (S * e) \div D <= (R * E) \div D - (R * e) \div D + 1
    BY <2>1, <2>6, DivDifference
  <2>8. /\ (S * E) \div D \in Int /\ (S * e) \div D \in Int
        /\ (R * E) \div D \in Int /\ (R * e) \div D \in Int
    BY <2>1, <2>6, DivType
  <2> QED
    BY <2>4, <2>7, <2>8 DEF Unearned
<1>4. CostIsBounded(m, k, t)
  <2>1. l.amount_due \in Nat /\ l.due \in Nat /\ l.grace_period \in Nat /\ l.fee_bps \in Nat
    BY DEF Loan
  <2>2. full_fee(h.borrowed, l.fee_bps) \in Nat
    BY <1>1, <2>1, FullFeeType
  <2>3. SUFFICES ASSUME t <= l.due + l.grace_period
                 PROVE  l.amount_due - paid + (h.paid + paid) - h.borrowed + Unearned(m)
                          <= full_fee(h.borrowed, l.fee_bps) + (h.payments + 1)
    BY DEF CostIsBounded
  <2>4. l.amount_due + h.paid - h.borrowed + Unearned(l)
          <= full_fee(h.borrowed, l.fee_bps) + h.payments
    BY <2>3 DEF LoanHistOK, CostIsBounded
  <2> QED
    BY <1>1, <1>3, <2>1, <2>2, <2>4
<1> QED
  BY <1>2, <1>4 DEF LoanHistOK

\* The clock only moves away from late fees' start and past the anchor.
LEMMA LaterLoan ==
  ASSUME NEW l \in Loan, NEW h \in Hist, NEW t \in Nat, LoanHistOK(l, h, t),
         NEW u \in Nat, u >= t
  PROVE  LoanHistOK(l, h, u)
<1>1. l.due \in Nat /\ l.grace_period \in Nat /\ l.last_accrued \in Nat
  BY DEF Loan
<1>2. CostIsBounded(l, h, u)
  BY <1>1 DEF LoanHistOK, CostIsBounded
<1>3. AccruedToAnchor(l, h, u)
  BY <1>1 DEF LoanHistOK, AccruedToAnchor
<1> QED
  BY <1>2, <1>3 DEF LoanHistOK

\* A closed loan leaves nothing to say.
LEMMA ClosedLoan ==
  ASSUME NEW h \in Hist, NEW t \in Nat
  PROVE  Forget(h) \in Hist /\ Forget(h).rescored = h.rescored /\ LoanHistOK(NoLoan, Forget(h), t)
<1>1. /\ Forget(h) \in Hist /\ Forget(h).paid = 0 /\ Forget(h).payments = 0
      /\ Forget(h).rescored = h.rescored
  BY DEF Forget, Hist
<1> QED
  BY <1>1 DEF NoLoan, LoanHistOK, HistFollowsLoan, CostIsBounded, AccruedToAnchor

\* HOpen writes one new loan and remembers what was lent.
LEMMA OpenEffect ==
  ASSUME HInv, NEW b \in Borrowers, NEW p \in Principals, HOpen(b, p)
  PROVE  /\ LMInv' /\ now' = now /\ risk' = risk /\ OnlyLoanOf(b)
         /\ ~loan[b].active
         /\ risk[b].limit > 0
         /\ LET k == [hist[b] EXCEPT !.borrowed = p]
            IN  hist' = [hist EXCEPT ![b] = k] /\ k \in Hist /\ LoanHistOK(loan'[b], k, now)
                /\ k.rescored = hist[b].rescored
<1> USE LoanManagerAssumption
<1> DEFINE k == [hist[b] EXCEPT !.borrowed = p]
<1>1. PICK c \in Vaults, o \in OfferTerms : open_loan(c, b, p, o.tenor_days, o.fee_bps)
  BY DEF HOpen
<1>2. p \in Nat /\ o.tenor_days \in Tenors /\ o.fee_bps \in Nat
  OBVIOUS
<1>3. LMInv' /\ p > 0 /\ ~loan[b].active /\ OnlyLoanOf(b)
  BY <1>1, <1>2, OpenLoanStep DEF HInv
<1>4. now' = now /\ risk' = risk
  BY <1>1 DEF open_loan
<1>5. loan'[b] = new_loan(p, o.tenor_days, o.fee_bps, now, grace)
  BY <1>1 DEF open_loan, HInv, LMInv, LMTypeOK
<1>6. risk[b].limit > 0
  <2>1. p <= credit_limit(b)
    BY <1>1 DEF open_loan
  <2>2. risk[b].limit \in Nat
    BY DEF HInv, LMInv, LMTypeOK, Risk
  <2> QED
    BY <1>2, <1>3, <2>1, <2>2 DEF credit_limit
<1>7. hist[b] \in Hist /\ hist[b].paid = 0 /\ hist[b].payments = 0
  BY <1>3 DEF HInv, LoanHistOK, HistFollowsLoan
<1>8. /\ k \in Hist /\ k.borrowed = p /\ k.paid = 0 /\ k.payments = 0
      /\ k.rescored = hist[b].rescored
  BY <1>2, <1>7 DEF Hist
<1>9. hist' = [hist EXCEPT ![b] = k]
  BY DEF HOpen, HInv
<1>10. LoanHistOK(loan'[b], k, now)
  <2>1. p \in Nat \ {0} /\ now \in Nat \ {0} /\ grace \in Nat
    BY <1>2, <1>3 DEF HInv, LMInv, LMTypeOK
  <2> HIDE DEF k
  <2>2. LoanHistOK(new_loan(p, o.tenor_days, o.fee_bps, now, grace), k, now)
    BY <1>2, <1>8, <2>1, OpenedLoan
  <2> QED
    BY <1>5, <2>2
<1> QED
  BY <1>3, <1>4, <1>6, <1>8, <1>9, <1>10

\* HClose zeroes one loan and forgets its history.
LEMMA CloseEffect ==
  ASSUME HInv, NEW b \in Borrowers, NEW p \in Payments, HClose(b, p)
  PROVE  /\ LMInv' /\ now' = now /\ risk' = risk /\ OnlyLoanOf(b)
         /\ loan'[b] = NoLoan
         /\ hist' = [hist EXCEPT ![b] = Forget(hist[b])]
<1>1. PICK c \in Vaults : close_loan(c, b, p)
  BY DEF HClose
<1>2. LMInv' /\ OnlyLoanOf(b) /\ loan'[b] = NoLoan
  BY <1>1, CloseLoanStep DEF HInv
<1>3. now' = now /\ risk' = risk
  BY <1>1 DEF close_loan
<1>4. hist' = [hist EXCEPT ![b] = Forget(hist[b])]
  BY DEF HClose, HInv
<1> QED
  BY <1>2, <1>3, <1>4

\* What an instalment adds to the history of a loan.
LEMMA InstalmentRecord ==
  ASSUME NEW h \in Hist, NEW p \in Nat
  PROVE  LET k == Instalment(h, p)
         IN  /\ k \in Hist /\ k.borrowed = h.borrowed
             /\ k.paid = h.paid + p /\ k.payments = h.payments + 1
             /\ k.rescored = h.rescored
<1>1. h.paid + p \in Nat /\ h.payments + 1 \in Nat
  BY DEF Hist
<1> QED
  BY <1>1 DEF Instalment, Hist

\* HPay closes the loan, or accrues it and lowers its principal.
LEMMA PayEffect ==
  ASSUME HInv, NEW b \in Borrowers, NEW p \in Payments, HPay(b, p)
  PROVE  /\ LMInv' /\ now' = now /\ risk' = risk /\ OnlyLoanOf(b)
         /\ loan[b].active
         /\ \/ /\ loan'[b] = NoLoan
               /\ hist' = [hist EXCEPT ![b] = Forget(hist[b])]
            \/ LET a == accrue(loan[b], late_rate[b], now)
                   m == loan'[b]
                   k == Instalment(hist[b], p)
               IN  /\ m \in Loan /\ LoanShape(m, now) /\ m.active
                   /\ m.principal <= a.principal /\ m.amount_due = a.amount_due - p
                   /\ m.start = a.start /\ m.due = a.due /\ m.tenor_days = a.tenor_days
                   /\ m.fee_bps = a.fee_bps /\ m.grace_period = a.grace_period
                   /\ m.last_accrued = a.last_accrued
                   /\ hist' = [hist EXCEPT ![b] = k]
                   /\ k \in Hist /\ k.borrowed = hist[b].borrowed
                   /\ k.paid = hist[b].paid + p /\ k.payments = hist[b].payments + 1
                   /\ k.rescored = hist[b].rescored
<1> USE LoanManagerAssumption
<1> DEFINE a == accrue(loan[b], late_rate[b], now)
           s == split(a, p)
           k == Instalment(hist[b], p)
<1>1. PICK c \in Vaults : apply_payment(c, b, p)
  BY DEF HPay
<1>2. p \in Nat
  OBVIOUS
<1>3. LMInv' /\ loan[b].active /\ OnlyLoanOf(b) /\ (p >= preview_owed(b) => loan'[b] = NoLoan)
  BY <1>1, <1>2, ApplyPaymentStep DEF HInv
<1>4. now' = now /\ risk' = risk
  BY <1>1 DEF apply_payment
<1>5. /\ a \in Loan /\ a.active
      /\ preview_owed(b) = a.amount_due /\ preview_owed(b) \in Nat
      /\ s.principal_paid \in Nat /\ s.remaining \in Nat /\ s.principal_paid <= a.principal
      /\ p < a.amount_due => s.remaining = a.amount_due - p
  BY <1>2, <1>3, PaymentFacts DEF HInv, payment
<1>6. hist[b] \in Hist /\ hist \in [Borrowers -> Hist]
  BY DEF HInv
<1>7. hist' = [hist EXCEPT ![b] = IF loan'[b].active THEN k ELSE Forget(hist[b])]
  BY <1>6 DEF HPay
<1>8. CASE p >= preview_owed(b)
  <2>1. loan'[b] = NoLoan
    BY <1>3, <1>8
  <2>2. ~loan'[b].active
    BY <2>1 DEF NoLoan
  <2>3. hist' = [hist EXCEPT ![b] = Forget(hist[b])]
    BY <1>7, <2>2
  <2> QED
    BY <1>3, <1>4, <2>1, <2>3
<1>9. CASE p < preview_owed(b)
  <2>1. loan' = [loan EXCEPT ![b] =
                   [a EXCEPT !.amount_due = s.remaining, !.principal = @ - s.principal_paid]]
    BY <1>1, <1>2, <1>5, <1>9 DEF apply_payment
  <2>2. loan'[b] = [a EXCEPT !.amount_due = s.remaining, !.principal = @ - s.principal_paid]
    BY <2>1 DEF HInv, LMInv, LMTypeOK
  <2> DEFINE m == loan'[b]
             r == s.remaining
             q == s.principal_paid
  <2>3. r \in Nat /\ q \in Nat /\ q <= a.principal /\ r = a.amount_due - p /\ a.principal \in Nat
    BY <1>5, <1>9 DEF Loan
  <2>4. m = [a EXCEPT !.amount_due = r, !.principal = @ - q]
    BY <2>2
  <2> HIDE DEF a, r, q, m
  <2>5. /\ m.principal = a.principal - q /\ m.amount_due = r
        /\ m.start = a.start /\ m.due = a.due /\ m.tenor_days = a.tenor_days
        /\ m.fee_bps = a.fee_bps /\ m.grace_period = a.grace_period
        /\ m.last_accrued = a.last_accrued
        /\ a.active => m.active
    <3>1. a \in Loan /\ a.principal - q \in Nat
      BY <1>5, <2>3
    <3>2. m.principal = a.principal - q /\ m.amount_due = r
      BY <2>3, <2>4, <3>1 DEF Loan
    <3>3. /\ m.start = a.start /\ m.due = a.due /\ m.tenor_days = a.tenor_days
          /\ m.fee_bps = a.fee_bps /\ m.grace_period = a.grace_period
          /\ m.last_accrued = a.last_accrued
      BY <2>4, <3>1 DEF Loan
    <3>4. a.active => m.active
      BY <2>4, <3>1 DEF Loan
    <3> QED
      BY <3>2, <3>3, <3>4
  <2>6. m.active
    BY <1>5, <2>5
  <2>7. m \in Loan /\ LoanShape(m, now)
    BY <1>3, <1>4 DEF m, LMInv, LMTypeOK, LoanOK
  <2>8. m.principal <= a.principal
    BY <2>3, <2>5
  <2>9. hist' = [hist EXCEPT ![b] = k]
    BY <1>7, <2>6 DEF m
  <2>10. /\ k \in Hist /\ k.borrowed = hist[b].borrowed /\ k.rescored = hist[b].rescored
         /\ k.paid = hist[b].paid + p /\ k.payments = hist[b].payments + 1
    BY <1>2, <1>6, InstalmentRecord
  <2> QED
    BY <1>3, <1>4, <2>3, <2>5, <2>6, <2>7, <2>8, <2>9, <2>10 DEF m, a
<1> QED
  BY <1>2, <1>5, <1>8, <1>9

\* HDefault only flags the loan, past its grace period, and zeroes the limit.
LEMMA DefaultEffect ==
  ASSUME HInv, NEW b \in Borrowers, HDefault(b)
  PROVE  /\ LMInv' /\ now' = now /\ OnlyLoanOf(b)
         /\ \A y \in Borrowers \ {b} : risk'[y] = risk[y]
         /\ risk'[b].limit = 0
         /\ loan[b].active /\ now > loan[b].due + loan[b].grace_period
         /\ loan'[b] = [loan[b] EXCEPT !.defaulted = TRUE]
         /\ LET k == [hist[b] EXCEPT !.defaulted_at = now, !.rescored = FALSE]
            IN  /\ hist' = [hist EXCEPT ![b] = k] /\ k \in Hist
                /\ k.borrowed = hist[b].borrowed /\ k.paid = hist[b].paid
                /\ k.payments = hist[b].payments
<1> USE LoanManagerAssumption
<1>1. mark_default(b)
  BY DEF HDefault
<1>2. LMInv' /\ OnlyLoanOf(b) /\ loan[b].active
  BY <1>1, MarkDefaultStep DEF HInv
<1>3. now' = now
  BY <1>1 DEF mark_default
<1>4. (\A y \in Borrowers \ {b} : risk'[y] = risk[y]) /\ risk'[b].limit = 0
  BY <1>1 DEF mark_default, HInv, LMInv, LMTypeOK, Risk
<1>5. loan'[b] = [loan[b] EXCEPT !.defaulted = TRUE]
  BY <1>1 DEF mark_default, HInv, LMInv, LMTypeOK
<1>6. now > loan[b].due + loan[b].grace_period
  <2>1. loan[b].due \in Nat /\ loan[b].grace_period \in Nat /\ now \in Nat
    BY DEF HInv, LMInv, LMTypeOK, Loan
  <2> QED
    BY <1>1, <2>1 DEF mark_default, DEFAULT_LATE_PERIOD
<1> DEFINE k == [hist[b] EXCEPT !.defaulted_at = now, !.rescored = FALSE]
<1>7. hist[b] \in Hist /\ hist \in [Borrowers -> Hist] /\ now \in Nat
  BY DEF HInv, LMInv, LMTypeOK
<1>8. hist' = [hist EXCEPT ![b] = k]
  BY <1>7 DEF HDefault
<1>9. /\ k \in Hist /\ k.borrowed = hist[b].borrowed /\ k.paid = hist[b].paid
      /\ k.payments = hist[b].payments
  BY <1>7 DEF Hist
<1> QED
  BY <1>2, <1>3, <1>4, <1>5, <1>6, <1>8, <1>9

\* HScore writes a risk profile and no loan.
LEMMA ScoreEffect ==
  ASSUME HInv, NEW b \in Borrowers, NEW r \in RiskProfiles, HScore(b, r)
  PROVE  /\ LMInv' /\ now' = now /\ loan' = loan
         /\ \A y \in Borrowers \ {b} : risk'[y] = risk[y]
         /\ LET k == [hist[b] EXCEPT !.rescored = TRUE]
            IN  /\ hist' = [hist EXCEPT ![b] = k] /\ k \in Hist /\ k.rescored
                /\ k.borrowed = hist[b].borrowed /\ k.paid = hist[b].paid
                /\ k.payments = hist[b].payments
<1>1. set_user_risk(b, r)
  BY DEF HScore
<1>2. LMInv' /\ loan' = loan
  BY <1>1, SettersStep DEF HInv
<1>3. now' = now /\ (\A y \in Borrowers \ {b} : risk'[y] = risk[y])
  BY <1>1 DEF set_user_risk, HInv, LMInv, LMTypeOK
<1> DEFINE k == [hist[b] EXCEPT !.rescored = TRUE]
<1>4. hist[b] \in Hist /\ hist \in [Borrowers -> Hist]
  BY DEF HInv
<1>5. hist' = [hist EXCEPT ![b] = k]
  BY <1>4 DEF HScore
<1>6. /\ k \in Hist /\ k.rescored /\ k.borrowed = hist[b].borrowed /\ k.paid = hist[b].paid
      /\ k.payments = hist[b].payments
  BY <1>4 DEF Hist
<1> QED
  BY <1>2, <1>3, <1>5, <1>6

\* HOther accrues one loan, or moves the clock, or leaves loans and clock alone.
LEMMA OtherEffect ==
  ASSUME HInv, HOther
  PROVE  /\ LMInv' /\ hist' = hist /\ risk' = risk
         /\ \/ loan' = loan /\ now' \in Nat /\ now' >= now
            \/ /\ now' = now /\ late_rate' = late_rate
               /\ \E b \in Borrowers :
                    /\ loan[b].active /\ OnlyLoanOf(b)
                    /\ loan'[b] = accrue(loan[b], late_rate[b], now)
<1> USE LoanManagerAssumption
<1>1. hist' = hist /\ now \in Nat /\ LMInv
  BY DEF HOther, HInv, LMInv, LMTypeOK
<1>2. CASE \/ \E v \in Vaults : set_vault(v)
           \/ \E g \in GracePeriods : set_default_grace_period(g)
           \/ \E t \in Tenors, d \in MinHoldDays : set_min_hold_for_tenor(t, d)
           \/ \E b \in Borrowers, o \in OfferTerms : set_loan_offer(b, o)
           \/ \E b \in Borrowers, x \in LateRates : set_premium_config(b, x)
  <2>1. LMInv' /\ loan' = loan
    BY <1>1, <1>2, SettersStep
  <2>2. now' = now /\ risk' = risk
    BY <1>2 DEF set_vault, set_default_grace_period, set_min_hold_for_tenor, set_loan_offer,
                set_premium_config
  <2> QED
    BY <1>1, <2>1, <2>2
<1>3. CASE \E b \in Borrowers : accrue_late(b)
  <2>1. PICK b \in Borrowers : accrue_late(b)
    BY <1>3
  <2>2. LMInv' /\ loan[b].active /\ OnlyLoanOf(b)
    BY <1>1, <2>1, AccrueLateStep
  <2>3. loan'[b] = accrue(loan[b], late_rate[b], now)
    BY <1>1, <2>1 DEF accrue_late, LMInv, LMTypeOK
  <2>4. now' = now /\ risk' = risk /\ late_rate' = late_rate
    BY <2>1 DEF accrue_late
  <2> QED
    BY <1>1, <2>2, <2>3, <2>4
<1>4. CASE \E t \in Timestamps : close_ledger(t)
  <2>1. PICK t \in Timestamps : close_ledger(t)
    BY <1>4
  <2>2. LMInv' /\ loan' = loan
    BY <1>1, <2>1, CloseLedgerStep
  <2>3. now' \in Nat /\ now' >= now /\ risk' = risk
    BY <1>1, <2>1 DEF close_ledger
  <2> QED
    BY <1>1, <2>2, <2>3
<1> QED
  BY <1>2, <1>3, <1>4 DEF HOther

\* A step that concerns one borrower keeps the invariant if it does so for that one.
LEMMA OneBorrower ==
  ASSUME HInv, LMInv', now' = now, NEW b \in Borrowers, OnlyLoanOf(b),
         \A y \in Borrowers \ {b} : risk'[y] = risk[y],
         NEW k \in Hist, hist' = [hist EXCEPT ![b] = k],
         LoanHistOK(loan'[b], k, now),
         ~k.rescored => risk'[b].limit = 0
  PROVE  HInv'
<1>1. hist' \in [Borrowers -> Hist]
  BY DEF HInv
<1>2. ASSUME NEW y \in Borrowers
      PROVE  /\ LoanHistOK(loan'[y], hist'[y], now')
             /\ ~hist'[y].rescored => risk'[y].limit = 0
  <2>1. CASE y = b
    <3>1. hist'[y] = k
      BY <2>1 DEF HInv
    <3> QED
      BY <2>1, <3>1
  <2>2. CASE y # b
    <3>1. hist'[y] = hist[y] /\ loan'[y] = loan[y] /\ risk'[y] = risk[y]
      BY <2>2 DEF HInv, OnlyLoanOf
    <3>2. LoanHistOK(loan[y], hist[y], now) /\ (~hist[y].rescored => risk[y].limit = 0)
      BY DEF HInv
    <3> QED
      BY <3>1, <3>2
  <2> QED
    BY <2>1, <2>2
<1> QED
  BY <1>1, <1>2 DEF HInv, LoanHistOK, HistFollowsLoan, CostIsBounded, AccruedToAnchor

\* The history of a loan matters through what was lent, paid and how often.
LEMMA SameHist ==
  ASSUME NEW l, NEW h, NEW k, NEW t, LoanHistOK(l, h, t),
         k.borrowed = h.borrowed, k.paid = h.paid, k.payments = h.payments
  PROVE  LoanHistOK(l, k, t)
BY DEF LoanHistOK, HistFollowsLoan, CostIsBounded, AccruedToAnchor

\* Every step of the loan manager keeps the invariant.
LEMMA HNextStep ==
  ASSUME HInv, [HNext]_h_vars
  PROVE  HInv'
<1>1. /\ LMInv /\ now \in Nat
      /\ \A y \in Borrowers :
           /\ loan[y] \in Loan /\ LoanShape(loan[y], now) /\ hist[y] \in Hist
           /\ late_rate[y] \in Nat
           /\ LoanHistOK(loan[y], hist[y], now)
           /\ ~hist[y].rescored => risk[y].limit = 0
  BY DEF HInv, LMInv, LMTypeOK, LoanOK
<1>2. ASSUME NEW b \in Borrowers, NEW p \in Principals, HOpen(b, p) PROVE HInv'
  <2> DEFINE k == [hist[b] EXCEPT !.borrowed = p]
  <2>1. /\ LMInv' /\ now' = now /\ risk' = risk /\ OnlyLoanOf(b)
        /\ hist' = [hist EXCEPT ![b] = k] /\ k \in Hist /\ LoanHistOK(loan'[b], k, now)
        /\ k.rescored = hist[b].rescored
    BY <1>2, OpenEffect
  <2> HIDE DEF k
  <2>2. ~k.rescored => risk'[b].limit = 0
    BY <1>1, <2>1
  <2> QED
    BY <2>1, <2>2, OneBorrower
<1>3. ASSUME NEW b \in Borrowers, NEW p \in Payments, HClose(b, p) PROVE HInv'
  <2>1. /\ LMInv' /\ now' = now /\ risk' = risk /\ OnlyLoanOf(b) /\ loan'[b] = NoLoan
        /\ hist' = [hist EXCEPT ![b] = Forget(hist[b])]
    BY <1>3, CloseEffect
  <2>2. /\ Forget(hist[b]) \in Hist /\ Forget(hist[b]).rescored = hist[b].rescored
        /\ LoanHistOK(NoLoan, Forget(hist[b]), now)
    BY <1>1, ClosedLoan
  <2> QED
    BY <1>1, <2>1, <2>2, OneBorrower
<1>4. ASSUME NEW b \in Borrowers, NEW p \in Payments, HPay(b, p) PROVE HInv'
  <2> DEFINE a == accrue(loan[b], late_rate[b], now)
             k == Instalment(hist[b], p)
             m == loan'[b]
  <2>1. LMInv' /\ now' = now /\ risk' = risk /\ OnlyLoanOf(b) /\ loan[b].active
    BY <1>4, PayEffect
  <2>2. CASE loan'[b] = NoLoan /\ hist' = [hist EXCEPT ![b] = Forget(hist[b])]
    <3>1. /\ Forget(hist[b]) \in Hist /\ Forget(hist[b]).rescored = hist[b].rescored
          /\ LoanHistOK(NoLoan, Forget(hist[b]), now)
      BY <1>1, ClosedLoan
    <3> QED
      BY <1>1, <2>1, <2>2, <3>1, OneBorrower
  <2>3. CASE /\ m \in Loan /\ LoanShape(m, now) /\ m.active
             /\ m.principal <= a.principal /\ m.amount_due = a.amount_due - p
             /\ m.start = a.start /\ m.due = a.due /\ m.tenor_days = a.tenor_days
             /\ m.fee_bps = a.fee_bps /\ m.grace_period = a.grace_period
             /\ m.last_accrued = a.last_accrued
             /\ hist' = [hist EXCEPT ![b] = k]
             /\ k \in Hist /\ k.borrowed = hist[b].borrowed
             /\ k.paid = hist[b].paid + p /\ k.payments = hist[b].payments + 1
             /\ k.rescored = hist[b].rescored
    <3>1. a \in Loan /\ LoanShape(a, now) /\ a.active
      BY <1>1, <2>1, AccrueLoan
    <3>2. LoanHistOK(a, hist[b], now)
      BY <1>1, <2>1, AccruedLoan
    <3>3. p \in Nat
      BY LoanManagerAssumption
    <3> HIDE DEF a, k, m
    <3>4. LoanHistOK(m, k, now)
      BY <1>1, <2>3, <3>1, <3>2, <3>3, PaidLoan
    <3>5. ~k.rescored => risk'[b].limit = 0
      BY <1>1, <2>1, <2>3
    <3> QED
      BY <2>1, <2>3, <3>4, <3>5, OneBorrower DEF m
  <2> QED
    BY <1>4, <2>2, <2>3, PayEffect
<1>5. ASSUME NEW b \in Borrowers, HDefault(b) PROVE HInv'
  <2> DEFINE k == [hist[b] EXCEPT !.defaulted_at = now, !.rescored = FALSE]
             l == loan[b]
             m == [l EXCEPT !.defaulted = TRUE]
  <2>1. /\ LMInv' /\ now' = now /\ OnlyLoanOf(b) /\ loan'[b] = m
        /\ \A y \in Borrowers \ {b} : risk'[y] = risk[y]
        /\ risk'[b].limit = 0
        /\ l.active /\ now > l.due + l.grace_period
        /\ hist' = [hist EXCEPT ![b] = k] /\ k \in Hist
        /\ k.borrowed = hist[b].borrowed /\ k.paid = hist[b].paid
        /\ k.payments = hist[b].payments
    BY <1>5, DefaultEffect
  <2> HIDE DEF k, l
  <2>2. l \in Loan /\ LoanHistOK(l, hist[b], now)
    BY <1>1 DEF l
  <2>3. /\ m.principal = l.principal /\ m.due = l.due /\ m.grace_period = l.grace_period
        /\ m.active
    BY <2>1, <2>2 DEF Loan
  <2> HIDE DEF m
  <2>4. ~(now <= m.due + m.grace_period)
    BY <1>1, <2>1, <2>2, <2>3 DEF Loan
  <2>5. HistFollowsLoan(m, k)
    BY <2>1, <2>2, <2>3 DEF LoanHistOK, HistFollowsLoan
  <2>6. LoanHistOK(m, k, now)
    BY <2>4, <2>5 DEF LoanHistOK, CostIsBounded, AccruedToAnchor
  <2> QED
    BY <2>1, <2>6, OneBorrower
<1>6. ASSUME NEW b \in Borrowers, NEW r \in RiskProfiles, HScore(b, r) PROVE HInv'
  <2> DEFINE k == [hist[b] EXCEPT !.rescored = TRUE]
  <2>1. /\ LMInv' /\ now' = now /\ loan' = loan
        /\ \A y \in Borrowers \ {b} : risk'[y] = risk[y]
        /\ hist' = [hist EXCEPT ![b] = k] /\ k \in Hist /\ k.rescored
        /\ k.borrowed = hist[b].borrowed /\ k.paid = hist[b].paid
        /\ k.payments = hist[b].payments
    BY <1>6, ScoreEffect
  <2> HIDE DEF k
  <2>2. LoanHistOK(loan'[b], k, now)
    <3>1. LoanHistOK(loan[b], k, now)
      BY <1>1, <2>1, SameHist
    <3> QED
      BY <2>1, <3>1
  <2>3. OnlyLoanOf(b)
    BY <2>1 DEF OnlyLoanOf
  <2> QED
    BY <2>1, <2>2, <2>3, OneBorrower
<1>7. CASE HOther
  <2>1. LMInv' /\ hist' = hist /\ risk' = risk
    BY <1>7, OtherEffect
  <2>2. CASE loan' = loan /\ now' \in Nat /\ now' >= now
    <3>1. ASSUME NEW y \in Borrowers PROVE LoanHistOK(loan[y], hist[y], now')
      BY <1>1, <2>2, LaterLoan
    <3> QED
      BY <1>1, <2>1, <2>2, <3>1
         DEF HInv, LoanHistOK, HistFollowsLoan, CostIsBounded, AccruedToAnchor
  <2>3. ASSUME NEW b \in Borrowers, loan[b].active, OnlyLoanOf(b), now' = now,
               loan'[b] = accrue(loan[b], late_rate[b], now)
        PROVE  HInv'
    <3>1. LoanHistOK(loan'[b], hist[b], now)
      BY <1>1, <2>3, AccruedLoan
    <3>2. hist' = [hist EXCEPT ![b] = hist[b]]
      BY <2>1 DEF HInv
    <3> QED
      BY <1>1, <2>1, <2>3, <3>1, <3>2, OneBorrower
  <2> QED
    BY <1>7, <2>2, <2>3, OtherEffect
<1>8. CASE UNCHANGED h_vars
  <2>1. LMInv' /\ loan' = loan /\ hist' = hist /\ now' = now /\ risk' = risk
    BY <1>8, <1>1 DEF h_vars, lm_vars, LMInv, LMTypeOK, LoanOK, LoanShape
  <2> QED
    BY <1>1, <2>1 DEF HInv, LoanHistOK, HistFollowsLoan, CostIsBounded, AccruedToAnchor
<1> QED
  BY <1>2, <1>3, <1>4, <1>5, <1>6, <1>7, <1>8 DEF HNext

(***************************************************************************)
(* The loan manager reaches only states of its inductive invariant: what   *)
(* accrue_late and apply_payment charge never exceeds what open_loan made  *)
(* the borrower agree to, but for rounding.                                *)
(***************************************************************************)
THEOREM HistoryInvariance == HSpec => []HInv
<1>1. HInit => HInv
  <2>1. SUFFICES ASSUME HInit PROVE HInv
    OBVIOUS
  <2>2. LMInv
    BY <2>1, LMInitInv DEF HInit
  <2>3. NoHist \in Hist /\ NoHist.rescored
    BY DEF NoHist, Hist
  <2>4. hist \in [Borrowers -> Hist] /\ \A b \in Borrowers : hist[b] = NoHist
    BY <2>1, <2>3 DEF HInit
  <2>5. \A b \in Borrowers : loan[b] = NoLoan
    BY <2>1 DEF HInit, LMInit
  <2>6. LoanHistOK(NoLoan, NoHist, now)
    BY DEF LoanHistOK, HistFollowsLoan, CostIsBounded, AccruedToAnchor, NoLoan, NoHist
  <2> QED
    BY <2>2, <2>3, <2>4, <2>5, <2>6 DEF HInv
<1>2. HInv /\ [HNext]_h_vars => HInv'
  BY HNextStep
<1> QED
  BY <1>1, <1>2, PTL DEF HSpec

(***************************************************************************)
(* Every field the loan manager stores keeps its type, whatever calls the  *)
(* contract lets through.                                                  *)
(***************************************************************************)
THEOREM LoansTypeCorrect == HSpec => []LMTypeOK
<1>1. HInv => LMTypeOK
  BY DEF HInv, LMInv
<1> QED
  BY <1>1, HistoryInvariance, PTL

(***************************************************************************)
(* An unpaid loan costs exactly the interest accumulated, at least the     *)
(* opening charge, and the full fee at the due date, for every principal,  *)
(* fee, tenor and schedule of accrue_late calls.                           *)
(***************************************************************************)
THEOREM InterestDoesTelescope == HSpec => []InterestTelescopes
<1>1. HInv => InterestTelescopes
  <2>1. SUFFICES ASSUME HInv, NEW b \in Borrowers, BeforeLateFees(b), hist[b].payments = 0,
                        InterestFits(loan[b])
                 PROVE  LET l == loan[b]
                            opening == opening_fee(hist[b].borrowed, l.tenor_days, l.fee_bps)
                        IN  /\ Charged(b) = Greater(opening, cum(l, now))
                            /\ now >= l.due =>
                                 Charged(b) = full_fee(hist[b].borrowed, l.fee_bps)
    BY DEF InterestTelescopes
  <2> DEFINE l == loan[b]
             u == Greater(l.last_accrued, now)
  <2>2. /\ l \in Loan /\ l.active /\ LoanShape(l, now) /\ late_rate[b] \in Nat /\ now \in Nat
        /\ now <= l.due + l.grace_period
    BY <2>1 DEF HInv, LMInv, LMTypeOK, LoanOK, BeforeLateFees
  <2>3. /\ hist[b].paid = 0 /\ hist[b].borrowed = l.principal
        /\ l.amount_due = l.principal + cum(l, l.last_accrued)
        /\ l.last_accrued >= opening_anchor(l)
        /\ l.last_accrued > now => l.last_accrued = opening_anchor(l)
    BY <2>1, <2>2 DEF HInv, LoanHistOK, HistFollowsLoan, AccruedToAnchor
  <2>4. Charged(b) = accrued_in_memory(l, late_rate[b], now).amount_due - l.principal
    <3>1. accrued_in_memory(l, late_rate[b], now).amount_due \in Nat
      BY <2>2, OwedBeforeLateFees
    <3> QED
      BY <2>2, <2>3, <3>1 DEF Charged, preview_owed, Loan
  <2> HIDE DEF l, u
  <2>5. /\ accrued_in_memory(l, late_rate[b], now).amount_due
             = l.amount_due + (cum(l, u) - cum(l, l.last_accrued))
        /\ u \in Nat
    BY <2>1, <2>2, OwedBeforeLateFees DEF l, u
  <2>6. /\ l.last_accrued \in Nat /\ l.due \in Nat /\ l.principal \in Nat
        /\ opening_anchor(l) \in Nat /\ opening_anchor(l) <= l.due
        /\ cum(l, l.due) = full_fee(l.principal, l.fee_bps)
        /\ cum(l, opening_anchor(l)) = opening_fee(l.principal, l.tenor_days, l.fee_bps)
    BY <2>2, ActiveLoan, CumAtAnchors
  <2>7. /\ cum(l, u) \in Int /\ cum(l, l.last_accrued) \in Int /\ cum(l, now) \in Int
        /\ cum(l, opening_anchor(l)) \in Int /\ cum(l, l.due) \in Int
    BY <2>2, <2>5, <2>6, CumGrows
  <2>8. Charged(b) = cum(l, u)
    BY <2>3, <2>4, <2>5, <2>6, <2>7
  <2>9. cum(l, u) = Greater(cum(l, opening_anchor(l)), cum(l, now))
    <3>1. CASE l.last_accrued > now
      <4>1. u = opening_anchor(l) /\ now <= opening_anchor(l)
        BY <2>2, <2>3, <2>6, <3>1 DEF u, Greater
      <4>2. cum(l, now) <= cum(l, opening_anchor(l))
        BY <2>2, <2>6, <4>1, CumGrows
      <4> QED
        BY <2>7, <4>1, <4>2 DEF Greater
    <3>2. CASE ~(l.last_accrued > now)
      <4>1. u = now /\ opening_anchor(l) <= now
        BY <2>2, <2>3, <2>6, <3>2 DEF u, Greater
      <4>2. cum(l, opening_anchor(l)) <= cum(l, now)
        BY <2>2, <2>6, <4>1, CumGrows
      <4> QED
        BY <2>7, <4>1, <4>2 DEF Greater
    <3> QED
      BY <3>1, <3>2
  <2>10. ASSUME now >= l.due PROVE cum(l, u) = cum(l, l.due)
    <3>1. u >= l.due
      BY <2>2, <2>5, <2>6, <2>10 DEF u, Greater
    <3> QED
      BY <2>2, <2>5, <3>1, CumGrows
  <2>11. Charged(b) = Greater(opening_fee(hist[b].borrowed, l.tenor_days, l.fee_bps), cum(l, now))
    BY <2>3, <2>6, <2>8, <2>9
  <2>12. now >= l.due => Charged(b) = full_fee(hist[b].borrowed, l.fee_bps)
    BY <2>3, <2>6, <2>8, <2>10
  <2> QED
    BY <2>11, <2>12 DEF l
<1> QED
  BY <1>1, HistoryInvariance, PTL

(***************************************************************************)
(* However a loan is split into instalments by apply_payment, it costs at  *)
(* most the full fee and one unit for each instalment until late fees.     *)
(***************************************************************************)
THEOREM InstalmentsAreFair == HSpec => []InstalmentsCostAtMostRounding
<1>1. HInv => InstalmentsCostAtMostRounding
  <2>1. SUFFICES ASSUME HInv, NEW b \in Borrowers, BeforeLateFees(b)
                 PROVE  Charged(b)
                          <= full_fee(hist[b].borrowed, loan[b].fee_bps) + hist[b].payments
    BY DEF InstalmentsCostAtMostRounding
  <2> DEFINE l == loan[b]
             u == Greater(l.last_accrued, now)
             o == accrued_in_memory(l, late_rate[b], now).amount_due
  <2>2. /\ l \in Loan /\ l.active /\ LoanShape(l, now) /\ late_rate[b] \in Nat /\ now \in Nat
        /\ now <= l.due + l.grace_period /\ hist[b] \in Hist
    BY <2>1 DEF HInv, LMInv, LMTypeOK, LoanOK, BeforeLateFees
  <2>3. l.amount_due + hist[b].paid - hist[b].borrowed + (cum(l, l.due) - cum(l, l.last_accrued))
          <= full_fee(hist[b].borrowed, l.fee_bps) + hist[b].payments
    BY <2>1, <2>2 DEF HInv, LoanHistOK, CostIsBounded, Unearned
  <2>4. Charged(b) = o + hist[b].paid - hist[b].borrowed
    BY DEF Charged, preview_owed
  <2>5. /\ o \in Nat /\ u \in Nat
        /\ o <= l.amount_due + (cum(l, u) - cum(l, l.last_accrued))
    BY <2>2, OwedBeforeLateFees
  <2>6. hist[b].paid \in Nat /\ hist[b].borrowed \in Nat /\ hist[b].payments \in Nat
    BY <2>2 DEF Hist
  <2>7. l.last_accrued \in Nat /\ l.due \in Nat /\ l.amount_due \in Nat /\ l.fee_bps \in Nat
    BY <2>2 DEF Loan
  <2>8. full_fee(hist[b].borrowed, l.fee_bps) \in Nat
    BY <2>6, <2>7, FullFeeType
  <2> HIDE DEF l, u, o
  <2>9. /\ cum(l, u) \in Int /\ cum(l, l.due) \in Int /\ cum(l, l.last_accrued) \in Int
        /\ cum(l, u) <= cum(l, l.due)
    BY <2>2, <2>5, <2>7, CumGrows
  <2>10. o + hist[b].paid - hist[b].borrowed
           <= full_fee(hist[b].borrowed, l.fee_bps) + hist[b].payments
    BY <2>3, <2>5, <2>6, <2>7, <2>8, <2>9
  <2> QED
    BY <2>4, <2>10 DEF l
<1> QED
  BY <1>1, HistoryInvariance, PTL

\* What one step can do to a loan that is open before and after it: nothing, accrue
\* it, accrue it and take an instalment, or flag it as defaulted.
LEMMA OpenLoanSteps ==
  ASSUME HInv, HNext, NEW y \in Borrowers, SameLoan(y)
  PROVE  LET a == accrue(loan[y], late_rate[y], now)
         IN  \/ /\ loan'[y] = loan[y]
                /\ hist'[y].paid = hist[y].paid
             \/ /\ loan'[y] = a /\ now' = now
                /\ hist'[y] = hist[y]
             \/ /\ \E p \in Payments :
                     /\ loan'[y].amount_due = a.amount_due - p
                     /\ hist'[y].paid = hist[y].paid + p
                /\ loan'[y].last_accrued = a.last_accrued
                /\ hist'[y].payments = hist[y].payments + 1
             \/ /\ loan'[y] = [loan[y] EXCEPT !.defaulted = TRUE]
                /\ hist'[y].paid = hist[y].paid
<1> DEFINE a == accrue(loan[y], late_rate[y], now)
<1>1. loan[y].active /\ loan'[y].active /\ loan'[y] # NoLoan
  BY DEF SameLoan, NoLoan
<1>2. hist \in [Borrowers -> Hist]
  BY DEF HInv
<1>3. ASSUME NEW b \in Borrowers, b # y, OnlyLoanOf(b), NEW k, hist' = [hist EXCEPT ![b] = k]
      PROVE  loan'[y] = loan[y] /\ hist'[y] = hist[y]
  BY <1>2, <1>3 DEF OnlyLoanOf
<1>4. ASSUME NEW b \in Borrowers, NEW p \in Principals, HOpen(b, p)
      PROVE  loan'[y] = loan[y] /\ hist'[y] = hist[y]
  <2>1. b # y /\ OnlyLoanOf(b) /\ hist' = [hist EXCEPT ![b] = [hist[b] EXCEPT !.borrowed = p]]
    BY <1>1, <1>4, OpenEffect
  <2> QED
    BY <1>3, <2>1
<1>5. ASSUME NEW b \in Borrowers, NEW p \in Payments, HClose(b, p)
      PROVE  loan'[y] = loan[y] /\ hist'[y] = hist[y]
  <2>1. b # y /\ OnlyLoanOf(b) /\ hist' = [hist EXCEPT ![b] = Forget(hist[b])]
    BY <1>1, <1>5, CloseEffect
  <2> QED
    BY <1>3, <2>1
<1>6. ASSUME NEW b \in Borrowers, NEW p \in Payments, HPay(b, p)
      PROVE  \/ loan'[y] = loan[y] /\ hist'[y] = hist[y]
             \/ /\ loan'[y].amount_due = a.amount_due - p
                /\ hist'[y].paid = hist[y].paid + p
                /\ loan'[y].last_accrued = a.last_accrued
                /\ hist'[y].payments = hist[y].payments + 1
  <2>1. OnlyLoanOf(b) /\ \E k : hist' = [hist EXCEPT ![b] = k]
    BY <1>6, PayEffect
  <2>2. CASE b # y
    BY <1>3, <2>1, <2>2
  <2>3. CASE b = y
    <3>1. /\ loan'[y].amount_due = a.amount_due - p /\ loan'[y].last_accrued = a.last_accrued
          /\ hist' = [hist EXCEPT ![y] = Instalment(hist[y], p)]
          /\ Instalment(hist[y], p).paid = hist[y].paid + p
          /\ Instalment(hist[y], p).payments = hist[y].payments + 1
      BY <1>1, <1>6, <2>3, PayEffect
    <3>2. hist'[y] = Instalment(hist[y], p)
      BY <1>2, <3>1
    <3> QED
      BY <3>1, <3>2
  <2> QED
    BY <2>2, <2>3
<1>7. ASSUME NEW b \in Borrowers, HDefault(b)
      PROVE  \/ loan'[y] = loan[y] /\ hist'[y] = hist[y]
             \/ /\ loan'[y] = [loan[y] EXCEPT !.defaulted = TRUE]
                /\ hist'[y].paid = hist[y].paid
  <2> DEFINE k == [hist[b] EXCEPT !.defaulted_at = now, !.rescored = FALSE]
  <2>1. /\ OnlyLoanOf(b) /\ hist' = [hist EXCEPT ![b] = k]
        /\ k.paid = hist[b].paid /\ loan'[b] = [loan[b] EXCEPT !.defaulted = TRUE]
    BY <1>7, DefaultEffect
  <2> HIDE DEF k
  <2>2. CASE b # y
    BY <1>3, <2>1, <2>2
  <2>3. CASE b = y
    BY <1>2, <2>1, <2>3
  <2> QED
    BY <2>2, <2>3
<1>8. ASSUME NEW b \in Borrowers, NEW r \in RiskProfiles, HScore(b, r)
      PROVE  loan'[y] = loan[y] /\ hist'[y].paid = hist[y].paid
  <2> DEFINE k == [hist[b] EXCEPT !.rescored = TRUE]
  <2>1. loan' = loan /\ hist' = [hist EXCEPT ![b] = k] /\ k.paid = hist[b].paid
    BY <1>8, ScoreEffect
  <2> HIDE DEF k
  <2> QED
    BY <1>2, <2>1
<1>9. CASE HOther
  <2>1. hist' = hist
    BY <1>9, OtherEffect
  <2>2. CASE loan' = loan
    BY <2>1, <2>2
  <2>3. ASSUME NEW b \in Borrowers, OnlyLoanOf(b), now' = now,
               loan'[b] = accrue(loan[b], late_rate[b], now)
        PROVE  \/ loan'[y] = loan[y] /\ hist'[y] = hist[y]
               \/ loan'[y] = a /\ now' = now /\ hist'[y] = hist[y]
    BY <2>1, <2>3 DEF OnlyLoanOf
  <2> QED
    BY <1>9, <2>1, <2>2, <2>3, OtherEffect
<1> HIDE DEF a
<1> QED
  BY <1>4, <1>5, <1>6, <1>7, <1>8, <1>9 DEF HNext, a

(***************************************************************************)
(* No sequence of accrue_late and apply_payment calls takes back a charge  *)
(* or moves the accrual anchor of a loan back.                             *)
(***************************************************************************)
THEOREM ChargesAreKept == HSpec => ChargesNeverRewind
<1>1. ASSUME HInv, [HNext]_h_vars, NEW y \in Borrowers, SameLoan(y)
      PROVE  /\ loan'[y].last_accrued >= loan[y].last_accrued
             /\ loan'[y].amount_due + hist'[y].paid >= loan[y].amount_due + hist[y].paid
  <2> DEFINE a == accrue(loan[y], late_rate[y], now)
  <2>1. /\ loan[y] \in Loan /\ LoanShape(loan[y], now) /\ late_rate[y] \in Nat /\ now \in Nat
        /\ loan[y].active /\ hist[y] \in Hist
    BY <1>1 DEF HInv, LMInv, LMTypeOK, LoanOK, SameLoan
  <2>2. /\ a \in Loan /\ a.amount_due >= loan[y].amount_due
        /\ a.last_accrued = Greater(loan[y].last_accrued, now)
    BY <2>1, AccrueLoan
  <2>3. /\ loan[y].last_accrued \in Nat /\ loan[y].amount_due \in Nat /\ hist[y].paid \in Nat
    BY <2>1 DEF Loan, Hist
  <2> HIDE DEF a
  <2>4. a.last_accrued >= loan[y].last_accrued /\ a.amount_due \in Nat
    BY <2>1, <2>2, <2>3 DEF Greater, Loan
  <2>5. CASE loan'[y] = loan[y] /\ hist'[y].paid = hist[y].paid
    BY <2>3, <2>5
  <2>6. CASE loan'[y] = a /\ hist'[y] = hist[y]
    BY <2>2, <2>3, <2>4, <2>6
  <2>7. ASSUME NEW p \in Payments, loan'[y].amount_due = a.amount_due - p,
               hist'[y].paid = hist[y].paid + p, loan'[y].last_accrued = a.last_accrued
        PROVE  /\ loan'[y].last_accrued >= loan[y].last_accrued
               /\ loan'[y].amount_due + hist'[y].paid >= loan[y].amount_due + hist[y].paid
    <3>1. p \in Nat
      BY LoanManagerAssumption
    <3> QED
      BY <2>2, <2>3, <2>4, <2>7, <3>1
  <2>8. CASE loan'[y] = [loan[y] EXCEPT !.defaulted = TRUE] /\ hist'[y].paid = hist[y].paid
    <3>1. loan'[y].last_accrued = loan[y].last_accrued /\ loan'[y].amount_due = loan[y].amount_due
      BY <2>1, <2>8 DEF Loan
    <3> QED
      BY <2>3, <2>8, <3>1
  <2>9. CASE UNCHANGED h_vars
    BY <2>3, <2>9 DEF h_vars, lm_vars
  <2>10. CASE HNext
    BY <1>1, <2>5, <2>6, <2>7, <2>8, <2>10, OpenLoanSteps DEF a
  <2> QED
    BY <1>1, <2>9, <2>10
<1>2. HInv /\ [HNext]_h_vars =>
        [\A b \in Borrowers : SameLoan(b) =>
           /\ loan'[b].last_accrued >= loan[b].last_accrued
           /\ loan'[b].amount_due + hist'[b].paid >= loan[b].amount_due + hist[b].paid]_h_vars
  BY <1>1
<1> QED
  BY <1>2, HistoryInvariance, PTL DEF HSpec, ChargesNeverRewind

(***************************************************************************)
(* Within a ledger nothing but a payment or a new late rate changes what a *)
(* borrower owes: accrue_late, which anyone may call, only writes down     *)
(* what preview_owed already says.                                         *)
(***************************************************************************)
THEOREM AccrualChangesNothing == HSpec => AccrualIsSilent
<1>1. ASSUME HInv, [HNext]_h_vars, NEW y \in Borrowers, SameLoan(y), now' = now,
             hist'[y].payments = hist[y].payments, late_rate'[y] = late_rate[y]
      PROVE  preview_owed(y)' = preview_owed(y)
  <2> DEFINE l == loan[y]
             r == late_rate[y]
             a == accrue(l, r, now)
  <2>1. /\ l \in Loan /\ LoanShape(l, now) /\ r \in Nat /\ now \in Nat
        /\ l.active /\ hist[y] \in Hist
    BY <1>1 DEF HInv, LMInv, LMTypeOK, LoanOK, SameLoan
  <2>2. /\ preview_owed(y) = accrued_in_memory(l, r, now).amount_due
        /\ preview_owed(y)' = accrued_in_memory(loan'[y], r, now).amount_due
    BY <1>1 DEF preview_owed
  <2>3. CASE loan'[y] = loan[y]
    BY <2>2, <2>3
  <2>4. CASE loan'[y] = a
    <3>1. /\ a \in Loan /\ LoanShape(a, now) /\ a.active
          /\ a.amount_due = accrued_in_memory(l, r, now).amount_due
          /\ a.last_accrued = Greater(l.last_accrued, now)
      BY <2>1, AccrueLoan
    <3> HIDE DEF a
    <3>2. accrual_from(a) = a.last_accrued /\ l.last_accrued \in Nat
      BY <2>1, <3>1, ActiveLoan
    <3>3. now <= accrual_from(a)
      BY <2>1, <3>1, <3>2 DEF Greater
    <3>4. accrued_in_memory(a, r, now) = a
      BY <3>3 DEF accrued_in_memory
    <3> QED
      BY <2>2, <2>4, <3>1, <3>4
  <2>5. CASE hist'[y].payments = hist[y].payments + 1
    BY <1>1, <2>1, <2>5 DEF Hist
  <2>6. CASE loan'[y] = [loan[y] EXCEPT !.defaulted = TRUE]
    <3> DEFINE m == [l EXCEPT !.defaulted = TRUE]
    <3> HIDE DEF l
    <3>1. /\ m \in Loan /\ m.principal = l.principal /\ m.amount_due = l.amount_due
          /\ m.start = l.start /\ m.due = l.due /\ m.fee_bps = l.fee_bps
          /\ m.grace_period = l.grace_period /\ m.tenor_days = l.tenor_days
          /\ m.last_accrued = l.last_accrued
      BY <2>1 DEF Loan
    <3>2. m.active
      BY <2>1 DEF Loan
    <3> HIDE DEF m
    <3>3. accrual_from(m) = accrual_from(l)
      BY <3>1 DEF accrual_from
    <3>4. interest(m, now) = interest(l, now)
      BY <3>1, <3>3 DEF interest, cum_fits, cum, elapsed
    <3>5. \A x : late_fee(m, r, now, x) = late_fee(l, r, now, x)
      BY <3>1, <3>3 DEF late_fee
    <3>6. accrued_due(m, r, now) = accrued_due(l, r, now)
      BY <3>1, <3>4, <3>5 DEF accrued_due
    <3>7. accrued_in_memory(m, r, now).amount_due = accrued_in_memory(l, r, now).amount_due
      <4>1. CASE now <= accrual_from(l)
        BY <3>1, <3>3, <4>1 DEF accrued_in_memory
      <4>2. CASE ~(now <= accrual_from(l))
        <5>1. /\ accrued_in_memory(m, r, now) = [m EXCEPT !.amount_due = accrued_due(m, r, now)]
              /\ accrued_in_memory(l, r, now) = [l EXCEPT !.amount_due = accrued_due(l, r, now)]
          BY <2>1, <3>2, <3>3, <4>2 DEF accrued_in_memory
        <5> QED
          BY <2>1, <3>1, <3>6, <5>1 DEF Loan
      <4> QED
        BY <4>1, <4>2
    <3> QED
      BY <2>2, <2>6, <3>7 DEF l, m
  <2>7. CASE UNCHANGED h_vars
    BY <2>2, <2>7 DEF h_vars, lm_vars
  <2>8. CASE HNext
    BY <1>1, <2>3, <2>4, <2>5, <2>6, <2>8, OpenLoanSteps
  <2> QED
    BY <1>1, <2>7, <2>8
<1>2. HInv /\ [HNext]_h_vars =>
        [\A b \in Borrowers :
           SameLoan(b) /\ now' = now /\ hist'[b].payments = hist[b].payments
                       /\ late_rate'[b] = late_rate[b]
             => preview_owed(b)' = preview_owed(b)]_h_vars
  BY <1>1
<1> QED
  BY <1>2, HistoryInvariance, PTL DEF HSpec, AccrualIsSilent

(***************************************************************************)
(* After mark_default no loan is opened before set_user_risk has written a *)
(* new profile.                                                            *)
(***************************************************************************)
THEOREM DefaultEndsCredit == HSpec => NoCreditAfterDefault
<1>1. ASSUME HInv, [HNext]_h_vars, NEW y \in Borrowers, ~loan[y].active, loan'[y].active
      PROVE  hist[y].rescored
  <2>1. ~hist[y].rescored => risk[y].limit = 0
    BY <1>1 DEF HInv
  <2>2. loan'[y] # loan[y] /\ loan'[y] # NoLoan
    BY <1>1 DEF NoLoan
  <2>3. ASSUME NEW b \in Borrowers, OnlyLoanOf(b) PROVE b = y
    BY <2>2, <2>3 DEF OnlyLoanOf
  <2>4. ASSUME NEW b \in Borrowers, NEW p \in Principals, HOpen(b, p) PROVE hist[y].rescored
    <3>1. OnlyLoanOf(b) /\ risk[b].limit > 0
      BY <1>1, <2>4, OpenEffect
    <3>2. b = y
      BY <2>3, <3>1
    <3> QED
      BY <2>1, <3>1, <3>2
  <2>5. ASSUME NEW b \in Borrowers, NEW p \in Payments, HClose(b, p) PROVE FALSE
    BY <1>1, <2>2, <2>3, <2>5, CloseEffect
  <2>6. ASSUME NEW b \in Borrowers, NEW p \in Payments, HPay(b, p) PROVE FALSE
    BY <1>1, <2>3, <2>6, PayEffect
  <2>7. ASSUME NEW b \in Borrowers, HDefault(b) PROVE FALSE
    BY <1>1, <2>3, <2>7, DefaultEffect
  <2>8. ASSUME NEW b \in Borrowers, NEW r \in RiskProfiles, HScore(b, r) PROVE FALSE
    BY <1>1, <2>2, <2>8, ScoreEffect
  <2>9. CASE HOther
    BY <1>1, <2>2, <2>3, <2>9, OtherEffect
  <2>10. CASE UNCHANGED h_vars
    BY <2>2, <2>10 DEF h_vars, lm_vars
  <2> QED
    BY <1>1, <2>4, <2>5, <2>6, <2>7, <2>8, <2>9, <2>10 DEF HNext
<1>2. HInv /\ [HNext]_h_vars =>
        [\A b \in Borrowers : ~loan[b].active /\ loan'[b].active => hist[b].rescored]_h_vars
  BY <1>1
<1> QED
  BY <1>2, HistoryInvariance, PTL DEF HSpec, NoCreditAfterDefault
================================================================================
