------------------------------ MODULE LoanHistory ------------------------------
(***************************************************************************)
(* The loan manager on its own: any registered vault may make the          *)
(* vault-only calls, in any order the contract lets through.  A history    *)
(* variable remembers what the current loan of each borrower was opened    *)
(* with and what was paid on it, and when the borrower was last marked in  *)
(* default; it never restricts a step.                                     *)
(***************************************************************************)
EXTENDS LoanManager

VARIABLE hist

h_vars == <<lm_vars, hist>>

NoHist == [borrowed |-> 0, paid |-> 0, payments |-> 0, defaulted_at |-> 0, rescored |-> TRUE]

Forget(h) == [h EXCEPT !.borrowed = 0, !.paid = 0, !.payments = 0]

Instalment(h, p) == [h EXCEPT !.paid = h.paid + p, !.payments = h.payments + 1]

HOpen(b, p) ==
  /\ \E c \in Vaults, o \in OfferTerms : open_loan(c, b, p, o.tenor_days, o.fee_bps)
  /\ hist' = [hist EXCEPT ![b].borrowed = p]

HClose(b, paid) ==
  /\ \E c \in Vaults : close_loan(c, b, paid)
  /\ hist' = [hist EXCEPT ![b] = Forget(@)]

HPay(b, paid) ==
  /\ \E c \in Vaults : apply_payment(c, b, paid)
  /\ hist' = [hist EXCEPT ![b] = IF loan'[b].active THEN Instalment(@, paid) ELSE Forget(@)]

HDefault(b) ==
  /\ mark_default(b)
  /\ hist' = [hist EXCEPT ![b].defaulted_at = now, ![b].rescored = FALSE]

HScore(b, r) ==
  /\ set_user_risk(b, r)
  /\ hist' = [hist EXCEPT ![b].rescored = TRUE]

HOther ==
  /\ \/ \E v \in Vaults : set_vault(v)
     \/ \E g \in GracePeriods : set_default_grace_period(g)
     \/ \E t \in Tenors, d \in MinHoldDays : set_min_hold_for_tenor(t, d)
     \/ \E b \in Borrowers, o \in OfferTerms : set_loan_offer(b, o)
     \/ \E b \in Borrowers, x \in LateRates : set_premium_config(b, x)
     \/ \E b \in Borrowers : accrue_late(b)
     \/ \E t \in Timestamps : close_ledger(t)
  /\ UNCHANGED hist

HInit == LMInit /\ hist = [b \in Borrowers |-> NoHist]

HNext ==
  \/ \E b \in Borrowers, p \in Principals : HOpen(b, p)
  \/ \E b \in Borrowers, p \in Payments : HClose(b, p) \/ HPay(b, p)
  \/ \E b \in Borrowers : HDefault(b)
  \/ \E b \in Borrowers, r \in RiskProfiles : HScore(b, r)
  \/ HOther

HSpec == HInit /\ [][HNext]_h_vars

-----------------------------------------------------------------------------
\* Everything charged on the current loan so far beyond what was lent.
Charged(b) == preview_owed(b) + hist[b].paid - hist[b].borrowed

BeforeLateFees(b) == loan[b].active /\ now <= loan[b].due + loan[b].grace_period

\* No checked multiplication of this loan's interest overflows.
InterestFits(l) == cum_fits(l, l.due)

(***************************************************************************)
(* However often and whenever accrue_late is called, a loan nobody has     *)
(* paid on costs, until late fees start, exactly the interest accumulated  *)
(* so far but at least the opening charge; at the due date that is the     *)
(* full fee principal * fee_bps / 10000, to the unit (open_loan and        *)
(* accrued_in_memory: the roundings of the slices cancel).                 *)
(***************************************************************************)
InterestTelescopes ==
  \A b \in Borrowers :
    BeforeLateFees(b) /\ hist[b].payments = 0 /\ InterestFits(loan[b]) =>
      LET l == loan[b]
          opening == opening_fee(hist[b].borrowed, l.tenor_days, l.fee_bps)
      IN  /\ Charged(b) = Greater(opening, cum(l, now))
          /\ now >= l.due => Charged(b) = full_fee(hist[b].borrowed, l.fee_bps)

(***************************************************************************)
(* Paying in instalments never makes a loan dearer than the full fee by    *)
(* more than one unit per instalment: each payment restarts the rounding   *)
(* of the pro-rata interest on the reduced principal (apply_payment).      *)
(***************************************************************************)
InstalmentsCostAtMostRounding ==
  \A b \in Borrowers :
    BeforeLateFees(b) => Charged(b) <= full_fee(hist[b].borrowed, loan[b].fee_bps) + hist[b].payments

\* The same loan before and after a step: still open, with no new opening.
SameLoan(b) == loan[b].active /\ loan'[b].active

(***************************************************************************)
(* What has been charged on a loan is never taken back and its accrual     *)
(* anchor never moves back, whoever calls accrue_late or pays, even before *)
(* the anchor that open_loan sets one day ahead.                           *)
(***************************************************************************)
ChargesNeverRewind ==
  [][\A b \in Borrowers : SameLoan(b) =>
       /\ loan'[b].last_accrued >= loan[b].last_accrued
       /\ loan'[b].amount_due + hist'[b].paid >= loan[b].amount_due + hist[b].paid]_h_vars

(***************************************************************************)
(* accrue_late is permissionless because it only materialises what is      *)
(* already owed: within one ledger, no step but a payment or a change of   *)
(* the late rate changes what a borrower owes.                             *)
(***************************************************************************)
AccrualIsSilent ==
  [][\A b \in Borrowers :
       SameLoan(b) /\ now' = now /\ hist'[b].payments = hist[b].payments
                   /\ late_rate'[b] = late_rate[b]
         => preview_owed(b)' = preview_owed(b)]_h_vars

(***************************************************************************)
(* A borrower marked in default gets no new loan before the operator has   *)
(* written a new risk profile: mark_default left a zero limit behind.      *)
(***************************************************************************)
NoCreditAfterDefault ==
  [][\A b \in Borrowers : ~loan[b].active /\ loan'[b].active => hist[b].rescored]_h_vars

(***************************************************************************)
(* mark_default's comment: "Zero the limit and apply a 30-day extra        *)
(* cooldown": no new loan within 30 days of the default.                   *)
(***************************************************************************)
DefaultCooldownHolds ==
  [][\A b \in Borrowers :
       ~loan[b].active /\ loan'[b].active /\ hist[b].defaulted_at > 0
         => now >= hist[b].defaulted_at + DEFAULT_COOLDOWN]_h_vars
================================================================================
