------------------------------ MODULE CreditPool -------------------------------
(***************************************************************************)
(* What the lending pool promises its liquidity providers, with borrowers, *)
(* terms and time left out.  The pool holds `idle' money, has `lent' money *)
(* out, and `supply' claims on their sum, divided among the holders.  A    *)
(* claim is issued and cancelled at a price that never favours the caller; *)
(* money leaves the idle part only to a holder who gives up claims or as a *)
(* loan; the value behind a claim falls only by a recognised loss, and a   *)
(* loss never exceeds what is lent out.                                    *)
(***************************************************************************)
EXTENDS Integers

CONSTANT Holders

VARIABLES idle, lent, supply, holding

pool == <<idle, lent, supply, holding>>

PoolInit == idle = 0 /\ lent = 0 /\ supply = 0 /\ holding = [h \in Holders |-> 0]

\* One claim is worth (Worth + 1) / (supply + 1): one virtual claim, one virtual unit.
Worth == idle + lent

Issue(h) ==
  LET paid == idle' - idle
      claims == supply' - supply
  IN  /\ paid > 0 /\ claims > 0
      /\ claims * (Worth + 1) <= paid * (supply + 1)
      /\ holding' = [holding EXCEPT ![h] = @ + claims]
      /\ lent' = lent

Cancel(h) ==
  LET paid == idle - idle'
      claims == supply - supply'
  IN  /\ paid >= 0 /\ claims > 0
      /\ claims <= holding[h]
      /\ idle' >= 0
      /\ paid * (supply + 1) <= claims * (Worth + 1)
      /\ holding' = [holding EXCEPT ![h] = @ - claims]
      /\ lent' = lent

Lend ==
  /\ idle' >= 0 /\ idle' < idle
  /\ idle' + lent' = Worth
  /\ UNCHANGED <<supply, holding>>

\* A repayment (with its interest, or healing an earlier loss), or a gift.
Collect ==
  /\ lent' >= 0 /\ lent' <= lent
  /\ idle' + lent' >= Worth
  /\ UNCHANGED <<supply, holding>>

WriteDown ==
  /\ lent' >= 0 /\ lent' < lent
  /\ UNCHANGED <<idle, supply, holding>>

PoolNext ==
  \/ \E h \in Holders : Issue(h) \/ Cancel(h)
  \/ Lend
  \/ Collect
  \/ WriteDown

PoolSpec == PoolInit /\ [][PoolNext]_pool
================================================================================
