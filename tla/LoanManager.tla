------------------------------ MODULE LoanManager ------------------------------
(***************************************************************************)
(* The loan-manager contract (contratos/loan-manager/src/lib.rs): credit   *)
(* limits, one-shot offers, the loan lifecycle, interest and late fees,    *)
(* default and the cooldown before the next loan.                          *)
(*                                                                         *)
(* A Soroban call is atomic: a panic undoes everything the call did.  So a *)
(* call is one action, and a call that panics is an action that is not     *)
(* enabled.  The owner's signature is taken for granted on the owner-gated *)
(* operations; the caller of the vault-only ones is the argument `caller'. *)
(***************************************************************************)
EXTENDS Integers

CONSTANTS
  Borrowers,        \* addresses that may borrow
  VaultId,          \* the vault deployed with this loan manager
  Vaults,           \* addresses set_vault may register (VaultId among them)
  SECONDS_PER_DAY,  \* 86400 in the code
  WAD,              \* 10^18 in the code: fixed-point base of the late rate
  I128_MAX,         \* 2^127 - 1 in the code: where checked_mul gives None
  Tenors,           \* loan lengths in days that the operator uses
  RiskProfiles,     \* what set_user_risk may write, [kyc_ok, valid_until, limit]
  OfferTerms,       \* what set_loan_offer may write, [tenor_days, fee_bps, valid_until, max_amount]
  LateRates,        \* late_rate_per_sec_wad values the operator uses
  GracePeriods,     \* seconds set_default_grace_period may write
  MinHoldDays,      \* days set_min_hold_for_tenor may write
  Principals,       \* amounts a borrower may ask for
  Payments,         \* amounts a caller may pass as a payment
  Timestamps        \* closing times of the ledgers, in seconds; its largest bounds the clock

ASSUME LoanManagerAssumption ==
  /\ VaultId \in Vaults
  /\ SECONDS_PER_DAY \in Nat \ {0}
  /\ WAD \in Nat \ {0}
  /\ I128_MAX \in Nat
  /\ Tenors \subseteq Nat \ {0}
  /\ RiskProfiles \subseteq [kyc_ok: BOOLEAN, valid_until: Nat, limit: Nat]
  /\ OfferTerms \subseteq [tenor_days: Tenors, fee_bps: Nat, valid_until: Nat, max_amount: Nat]
  /\ LateRates \subseteq Nat
  /\ GracePeriods \subseteq Nat
  /\ MinHoldDays \subseteq Nat
  /\ Principals \subseteq Nat
  /\ Payments \subseteq Nat
  /\ Timestamps \subseteq Nat

VARIABLES
  now,          \* ledger timestamp
  vault,        \* Config.vault
  grace,        \* Config.default_grace_period
  min_hold,     \* MinHold(tenor)
  risk,         \* Risk(borrower)
  offer,        \* Offer(borrower)
  loan,         \* Loan(borrower)
  late_rate,    \* Premium(borrower).late_rate_per_sec_wad
  next_borrow   \* NextBorrow(borrower)

config_vars == <<vault, grace, min_hold>>
lm_vars == <<now, vault, grace, min_hold, risk, offer, loan, late_rate, next_borrow>>

Lesser(a, b) == IF a < b THEN a ELSE b
Greater(a, b) == IF a > b THEN a ELSE b

BPS_DENOM == 10000
DEFAULT_LATE_PERIOD == 15 * SECONDS_PER_DAY
DEFAULT_COOLDOWN == 30 * SECONDS_PER_DAY

\* The zero values the storage getters return for a missing entry.  A profile
\* with valid_until = 0 does not expire; an offer with max_amount = 0 is absent.
NoRisk == [kyc_ok |-> FALSE, valid_until |-> 0, limit |-> 0]
NoOffer == [tenor_days |-> 0, fee_bps |-> 0, valid_until |-> 0, max_amount |-> 0]
NoLoan == [principal |-> 0, amount_due |-> 0, start |-> 0, due |-> 0, fee_bps |-> 0,
           grace_period |-> 0, tenor_days |-> 0, active |-> FALSE,
           defaulted |-> FALSE, last_accrued |-> 0]

Risk == [kyc_ok: BOOLEAN, valid_until: Nat, limit: Nat]
Offer == [tenor_days: Nat, fee_bps: Nat, valid_until: Nat, max_amount: Nat]
Loan == [principal: Nat, amount_due: Nat, start: Nat, due: Nat, fee_bps: Nat,
         grace_period: Nat, tenor_days: Nat, active: BOOLEAN,
         defaulted: BOOLEAN, last_accrued: Nat]

\* Min-hold the constructor writes, in days.
default_min_hold(tenor) == IF tenor \in {3, 7} THEN 4
                           ELSE IF tenor \in {14, 21, 30} THEN 7 ELSE 0

-----------------------------------------------------------------------------
(* Accrual: pure functions of a loan, its late rate and the time.          *)

accrual_from(l) == IF l.last_accrued = 0 THEN l.start ELSE l.last_accrued

fits(x) == x <= I128_MAX

\* Interest accumulated from the start of the loan to ts, and whether the
\* checked multiplications that compute it succeed.
elapsed(l, ts) == Lesser(ts, l.due) - l.start
cum(l, ts) == (l.principal * l.fee_bps * elapsed(l, ts))
                \div (BPS_DENOM * (l.tenor_days * SECONDS_PER_DAY))
cum_fits(l, ts) == fits(l.principal * l.fee_bps)
                   /\ fits(l.principal * l.fee_bps * elapsed(l, ts))

\* Mutant: the interest of the slice alone, rounded slice by slice.
interest_by_slice(l, t) ==
  LET from == accrual_from(l)
      to == Lesser(t, l.due)
  IN  IF to > from
      THEN (l.principal * l.fee_bps * (to - from))
             \div (BPS_DENOM * (l.tenor_days * SECONDS_PER_DAY)) ELSE 0

\* Phase 1: pro-rata interest up to the due date, a difference of cum.
interest(l, t) ==
  LET from == accrual_from(l)
      to == Lesser(t, l.due)
  IN  IF to > from /\ cum_fits(l, to) /\ cum_fits(l, from)
      THEN Greater(cum(l, to) - cum(l, from), 0) ELSE 0

\* Phase 2: late fee on what is outstanding, from due + grace on.
late_fee(l, rate, t, outstanding) ==
  LET span == t - Greater(accrual_from(l), l.due + l.grace_period)
  IN  IF rate > 0 /\ span > 0 /\ fits(rate * span) /\ fits(rate * span * outstanding)
      THEN (rate * span * outstanding) \div WAD ELSE 0

accrued_due(l, rate, t) ==
  LET base == l.amount_due + interest(l, t)
  IN  base + late_fee(l, rate, t, base)

accrued_in_memory(l, rate, t) ==
  IF ~l.active \/ t <= accrual_from(l) THEN l
  ELSE [l EXCEPT !.amount_due = accrued_due(l, rate, t)]

\* Mutants: the anchor stays behind; the anchor follows the clock back.
accrue_keeps_anchor(l, rate, t) == accrued_in_memory(l, rate, t)
accrue_rewinds(l, rate, t) == [accrued_in_memory(l, rate, t) EXCEPT !.last_accrued = t]

\* accrue, then move the anchor, which only ever advances.
accrue(l, rate, t) ==
  LET acc == accrued_in_memory(l, rate, t)
  IN  [acc EXCEPT !.last_accrued = Greater(@, t)]

preview_owed(b) == accrued_in_memory(loan[b], late_rate[b], now).amount_due

credit_limit(b) ==
  IF risk[b].kyc_ok /\ (risk[b].valid_until # 0 => now <= risk[b].valid_until)
  THEN risk[b].limit ELSE 0

\* Mutants: principal before interest; and without the cap at the principal.
split_principal_first(l, paid) ==
  LET principal_paid == Lesser(paid, l.principal)
  IN  [principal_paid |-> principal_paid, interest_paid |-> paid - principal_paid,
       remaining |-> Greater(l.amount_due - paid, 0)]
split_uncapped(l, paid) ==
  [principal_paid |-> paid, interest_paid |-> 0, remaining |-> Greater(l.amount_due - paid, 0)]

\* What a payment does to an accrued loan: interest first, then principal.
split(l, paid) ==
  IF paid >= l.amount_due
  THEN [principal_paid |-> l.principal, interest_paid |-> paid - l.principal, remaining |-> 0]
  ELSE LET interest_paid == Lesser(paid, l.amount_due - l.principal)
       IN  [principal_paid |-> paid - interest_paid, interest_paid |-> interest_paid,
            remaining |-> l.amount_due - paid]

payment(b, paid) == split(accrue(loan[b], late_rate[b], now), paid)

-----------------------------------------------------------------------------
(* Operator configuration.                                                 *)

set_vault(v) ==
  /\ vault' = v
  /\ UNCHANGED <<now, grace, min_hold, risk, offer, loan, late_rate, next_borrow>>

set_default_grace_period(secs) ==
  /\ grace' = secs
  /\ UNCHANGED <<now, vault, min_hold, risk, offer, loan, late_rate, next_borrow>>

set_min_hold_for_tenor(tenor, days) ==
  /\ min_hold' = [min_hold EXCEPT ![tenor] = days * SECONDS_PER_DAY]
  /\ UNCHANGED <<now, vault, grace, risk, offer, loan, late_rate, next_borrow>>

\* limit >= 0 is in the type of RiskProfiles.
set_user_risk(b, r) ==
  /\ risk' = [risk EXCEPT ![b] = r]
  /\ UNCHANGED <<now, config_vars, offer, loan, late_rate, next_borrow>>

set_loan_offer(b, o) ==
  /\ o.tenor_days > 0 /\ o.fee_bps > 0 /\ o.max_amount > 0
  /\ o.valid_until > now
  /\ offer' = [offer EXCEPT ![b] = o]
  /\ UNCHANGED <<now, config_vars, risk, loan, late_rate, next_borrow>>

set_premium_config(b, rate) ==
  /\ late_rate' = [late_rate EXCEPT ![b] = rate]
  /\ UNCHANGED <<now, config_vars, risk, offer, loan, next_borrow>>

-----------------------------------------------------------------------------
(* Loan lifecycle.                                                         *)

\* The floor charged at opening: one day of interest, or the whole fee when a
\* day of it rounds to nothing.
full_fee(principal, fee_bps) == (principal * fee_bps) \div BPS_DENOM
day_fee(principal, tenor, fee_bps) == full_fee(principal, fee_bps) \div tenor
opening_fee(principal, tenor, fee_bps) ==
  IF day_fee(principal, tenor, fee_bps) > 0 THEN day_fee(principal, tenor, fee_bps)
  ELSE full_fee(principal, fee_bps)

new_loan(principal, tenor, fee_bps, t, g) ==
  LET due == t + tenor * SECONDS_PER_DAY
  IN  [principal |-> principal,
       amount_due |-> principal + opening_fee(principal, tenor, fee_bps),
       start |-> t, due |-> due, fee_bps |-> fee_bps, grace_period |-> g,
       tenor_days |-> tenor, active |-> TRUE, defaulted |-> FALSE,
       last_accrued |-> IF day_fee(principal, tenor, fee_bps) > 0
                        THEN Lesser(t + SECONDS_PER_DAY, due) ELSE due]

open_loan(caller, b, principal, tenor, fee_bps) ==
  LET o == offer[b]
  IN  /\ caller = vault
      /\ principal > 0
      /\ next_borrow[b] # 0 => now >= next_borrow[b]
      /\ ~loan[b].active
      /\ principal <= credit_limit(b)
      /\ o # NoOffer
      /\ now <= o.valid_until
      /\ tenor = o.tenor_days
      /\ fee_bps = o.fee_bps
      /\ principal <= o.max_amount
      /\ offer' = [offer EXCEPT ![b] = NoOffer]
      /\ loan' = [loan EXCEPT ![b] = new_loan(principal, tenor, fee_bps, now, grace)]
      /\ UNCHANGED <<now, config_vars, risk, late_rate, next_borrow>>

\* Cooldown, then the loan record back to zero.
finish_close(b, l) ==
  /\ next_borrow' = [next_borrow EXCEPT ![b] = Greater(now, l.start + min_hold[l.tenor_days])]
  /\ loan' = [loan EXCEPT ![b] = NoLoan]

close_loan(caller, b, paid) ==
  /\ caller = vault
  /\ loan[b].active
  /\ paid >= preview_owed(b)
  /\ finish_close(b, loan[b])
  /\ UNCHANGED <<now, config_vars, risk, offer, late_rate>>

apply_payment(caller, b, paid) ==
  LET l == accrue(loan[b], late_rate[b], now)
      s == split(l, paid)
  IN  /\ caller = vault
      /\ paid > 0
      /\ loan[b].active
      /\ \/ /\ paid >= l.amount_due
            /\ finish_close(b, l)
         \/ /\ paid < l.amount_due
            /\ ~l.defaulted
            /\ loan' = [loan EXCEPT ![b] =
                 [l EXCEPT !.amount_due = s.remaining, !.principal = @ - s.principal_paid]]
            /\ UNCHANGED next_borrow
      /\ UNCHANGED <<now, config_vars, risk, offer, late_rate>>

\* Mutant: the credit limit survives the default.
mark_default_keeps_limit(b) ==
  /\ loan[b].active
  /\ ~loan[b].defaulted
  /\ now > loan[b].due + loan[b].grace_period + DEFAULT_LATE_PERIOD
  /\ loan' = [loan EXCEPT ![b].defaulted = TRUE]
  /\ next_borrow' = [next_borrow EXCEPT ![b] = now + DEFAULT_COOLDOWN]
  /\ UNCHANGED <<now, config_vars, risk, offer, late_rate>>

mark_default(b) ==
  /\ loan[b].active
  /\ ~loan[b].defaulted
  /\ now > loan[b].due + loan[b].grace_period + DEFAULT_LATE_PERIOD
  /\ loan' = [loan EXCEPT ![b].defaulted = TRUE]
  /\ risk' = [risk EXCEPT ![b].limit = 0]
  /\ next_borrow' = [next_borrow EXCEPT ![b] = now + DEFAULT_COOLDOWN]
  /\ UNCHANGED <<now, config_vars, offer, late_rate>>

\* Anyone may call it; on an inactive loan it returns without a change.
accrue_late(b) ==
  /\ loan[b].active
  /\ loan' = [loan EXCEPT ![b] = accrue(@, late_rate[b], now)]
  /\ UNCHANGED <<now, config_vars, risk, offer, late_rate, next_borrow>>

\* A ledger closes (external): timestamps strictly increase.
close_ledger(t) ==
  /\ t > now
  /\ now' = t
  /\ UNCHANGED <<config_vars, risk, offer, loan, late_rate, next_borrow>>

-----------------------------------------------------------------------------
(* Everything but the calls of the vault.                                  *)
LMOperator ==
  \/ \E v \in Vaults : set_vault(v)
  \/ \E g \in GracePeriods : set_default_grace_period(g)
  \/ \E t \in Tenors, d \in MinHoldDays : set_min_hold_for_tenor(t, d)
  \/ \E b \in Borrowers, r \in RiskProfiles : set_user_risk(b, r)
  \/ \E b \in Borrowers, o \in OfferTerms : set_loan_offer(b, o)
  \/ \E b \in Borrowers, x \in LateRates : set_premium_config(b, x)
  \/ \E b \in Borrowers : mark_default(b)
  \/ \E b \in Borrowers : accrue_late(b)
  \/ \E t \in Timestamps : close_ledger(t)

LMInit ==
  /\ now = 1
  /\ vault = VaultId
  /\ grace = SECONDS_PER_DAY
  /\ min_hold = [t \in Tenors |-> default_min_hold(t) * SECONDS_PER_DAY]
  /\ risk = [b \in Borrowers |-> NoRisk]
  /\ offer = [b \in Borrowers |-> NoOffer]
  /\ loan = [b \in Borrowers |-> NoLoan]
  /\ late_rate = [b \in Borrowers |-> 0]
  /\ next_borrow = [b \in Borrowers |-> 0]

LMTypeOK ==
  /\ now \in Nat
  /\ vault \in Vaults
  /\ grace \in Nat
  /\ min_hold \in [Tenors -> Nat]
  /\ risk \in [Borrowers -> Risk]
  /\ offer \in [Borrowers -> Offer]
  /\ loan \in [Borrowers -> Loan]
  /\ late_rate \in [Borrowers -> Nat]
  /\ next_borrow \in [Borrowers -> Nat]

(***************************************************************************)
(* A loan that is not active is the zero record, and an active loan always *)
(* owes at least its principal, which stays positive through partial       *)
(* payments, has its accrual anchor within its life and a tenor the        *)
(* contract knows; only an active loan is in default.                      *)
(***************************************************************************)
LoanShape(l, t) ==
  \/ l = NoLoan
  \/ /\ l.active
     /\ 0 < l.principal /\ l.principal <= l.amount_due
     /\ l.start > 0 /\ l.start < l.last_accrued
     /\ l.tenor_days \in Tenors
     /\ l.due = l.start + l.tenor_days * SECONDS_PER_DAY
     /\ l.start <= t
     /\ l.defaulted => t > l.due + l.grace_period

LoanOK == \A b \in Borrowers : LoanShape(loan[b], now)
================================================================================
