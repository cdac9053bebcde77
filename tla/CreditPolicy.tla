----------------------------- MODULE CreditPolicy -----------------------------
(***************************************************************************)
(* The reputation ladder of credit-policy.service.ts: eleven steps, one    *)
(* for each number of loans repaid on time.  Limits are in whole USDC.     *)
(***************************************************************************)
EXTENDS Naturals, Sequences, FiniteSetsExt

CREDIT_LADDER ==
  [i \in 1..11 |-> [minOnTimeLoans |-> i - 1, score |-> i,
                    limitUsdc |-> <<1, 3, 4, 6, 8, 10, 12, 15, 18, 22, 25>>[i]]]

\* Both searches walk the ladder and keep the last step they pass; the first
\* step is the answer when they pass none.
getStepForOnTimeLoans(n) ==
  CREDIT_LADDER[Max({1} \cup {i \in 1..11 : n >= CREDIT_LADDER[i].minOnTimeLoans})]
getStepForScore(s) ==
  CREDIT_LADDER[Max({1} \cup {i \in 1..11 : s >= CREDIT_LADDER[i].score})]
=============================================================================
