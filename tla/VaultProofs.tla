------------------------------ MODULE VaultProofs ------------------------------
(* The vault's books balance in every reachable state, for any number of    *)
(* accounts and any amounts.  TypeOK is not inductive by itself: that a     *)
(* burn leaves total_shares non-negative needs SharesBacked, that a         *)
(* repayment leaves total_borrows non-negative needs BorrowsBacked, and     *)
(* that needs WriteOffWithinDefault and the shape of the loans.             *)
EXTENDS Vault, LoanManagerProofs, SumTheorems

VaultTypeOK ==
  /\ usdc \in [Holders -> Nat]
  /\ total_shares \in Nat
  /\ total_borrows \in Nat
  /\ shares \in [Accounts -> Nat]
  /\ written_off \in [Borrowers -> Nat]
  /\ fee_recipient \in FeeRecipients

\* The inductive invariant.
IInv ==
  /\ LMInv
  /\ VaultTypeOK
  /\ WriteOffWithinDefault
  /\ BorrowsBacked
  /\ SharesBacked

\* Borrowers are accounts, and there are finitely many of these.
LEMMA FiniteBorrowers == IsFiniteSet(Borrowers)
BY VaultAssumption, FS_Subset

\* A covered transfer keeps token balances natural.
LEMMA TransferType ==
  ASSUME NEW bal \in [Holders -> Nat], NEW from \in Holders, NEW to \in Holders,
         NEW amount \in Nat, amount <= bal[from]
  PROVE  transfer(bal, from, to, amount) \in [Holders -> Nat]
<1> DEFINE debited == [bal EXCEPT ![from] = bal[from] - amount]
<1>1. debited \in [Holders -> Nat]
  OBVIOUS
<1>2. transfer(bal, from, to, amount) = [debited EXCEPT ![to] = debited[to] + amount]
  BY <1>1 DEF transfer
<1> HIDE DEF debited
<1> QED
  BY <1>1, <1>2

\* What a transfer does to the balance of the vault.
LEMMA TransferCash ==
  ASSUME NEW bal \in [Holders -> Nat], NEW from \in Holders, NEW to \in Holders,
         NEW amount \in Nat, amount <= bal[from]
  PROVE  /\ from # VaultId /\ to = VaultId =>
              transfer(bal, from, to, amount)[VaultId] = bal[VaultId] + amount
         /\ from = VaultId /\ to # VaultId =>
              transfer(bal, from, to, amount)[VaultId] = bal[VaultId] - amount
         /\ from = VaultId /\ to = VaultId =>
              transfer(bal, from, to, amount)[VaultId] = bal[VaultId]
<1>1. VaultId \in Holders
  BY DEF Holders
<1> DEFINE debited == [bal EXCEPT ![from] = bal[from] - amount]
<1>2. debited \in [Holders -> Nat] /\ debited[from] = bal[from] - amount
      /\ \A h \in Holders : h # from => debited[h] = bal[h]
  OBVIOUS
<1>3. transfer(bal, from, to, amount) = [debited EXCEPT ![to] = debited[to] + amount]
  BY <1>2 DEF transfer
<1> HIDE DEF debited
<1> QED
  BY <1>1, <1>2, <1>3

\* The principal counted for a borrower is natural and at most total_borrows.
LEMMA OutstandingFacts ==
  ASSUME IInv
  PROVE  /\ Outstanding \in [Borrowers -> Nat]
         /\ \A b \in Borrowers : /\ Outstanding[b] = loan[b].principal - written_off[b]
                                 /\ Outstanding[b] \in Nat
                                 /\ Outstanding[b] <= total_borrows
<1>1. ASSUME NEW b \in Borrowers
      PROVE  loan[b].principal - written_off[b] \in Nat
  <2>1. loan[b] \in Loan /\ written_off[b] \in Nat /\ written_off[b] <= loan[b].principal
    BY DEF IInv, LMInv, LMTypeOK, VaultTypeOK, WriteOffWithinDefault
  <2>2. loan[b].principal \in Nat
    BY <2>1 DEF Loan
  <2> QED
    BY <2>1, <2>2
<1>2. Outstanding \in [Borrowers -> Nat]
  BY <1>1 DEF Outstanding
<1>3. ASSUME NEW b \in Borrowers
      PROVE  Outstanding[b] = loan[b].principal - written_off[b]
  BY DEF Outstanding
<1>4. ASSUME NEW b \in Borrowers
      PROVE  Outstanding[b] \in Nat /\ Outstanding[b] <= total_borrows
  <2>1. /\ Cardinality(Units(Outstanding) \ ({b} \X Nat)) \in Nat
        /\ Sum(Outstanding) = Cardinality(Units(Outstanding) \ ({b} \X Nat)) + Outstanding[b]
    BY <1>2, FiniteBorrowers, SumSplit
  <2>2. Outstanding[b] \in Nat
    BY <1>2
  <2> QED
    BY <2>1, <2>2 DEF IInv, BorrowsBacked
<1> QED
  BY <1>2, <1>3, <1>4

\* A step that changes the loan and the write-off of one borrower keeps the
\* books when total_borrows moves by the change of what is outstanding.
LEMMA BorrowsStep ==
  ASSUME IInv, NEW b \in Borrowers,
         loan' \in [Borrowers -> Loan],
         written_off' \in [Borrowers -> Nat],
         \A y \in Borrowers \ {b} : loan'[y] = loan[y] /\ written_off'[y] = written_off[y],
         written_off'[b] <= loan'[b].principal,
         written_off'[b] > 0 => loan'[b].active /\ loan'[b].defaulted,
         total_borrows' = total_borrows - (loan[b].principal - written_off[b])
                            + (loan'[b].principal - written_off'[b])
  PROVE  /\ total_borrows' \in Nat
         /\ WriteOffWithinDefault'
         /\ BorrowsBacked'
<1> DEFINE f == Outstanding
           g == Outstanding'
<1>1. /\ f \in [Borrowers -> Nat]
      /\ f[b] = loan[b].principal - written_off[b]
      /\ f[b] \in Nat /\ f[b] <= total_borrows
  BY OutstandingFacts
<1>2. WriteOffWithinDefault'
  <2> SUFFICES ASSUME NEW y \in Borrowers
               PROVE  /\ written_off'[y] <= loan'[y].principal
                      /\ written_off'[y] > 0 => loan'[y].active /\ loan'[y].defaulted
    BY DEF WriteOffWithinDefault
  <2>1. CASE y = b
    BY <2>1
  <2>2. CASE y # b
    BY <2>2 DEF IInv, WriteOffWithinDefault
  <2> QED
    BY <2>1, <2>2
<1>3. ASSUME NEW y \in Borrowers
      PROVE  loan'[y].principal - written_off'[y] \in Nat
  <2>1. loan'[y] \in Loan /\ written_off'[y] \in Nat /\ written_off'[y] <= loan'[y].principal
    BY <1>2 DEF WriteOffWithinDefault
  <2>2. loan'[y].principal \in Nat
    BY <2>1 DEF Loan
  <2> QED
    BY <2>1, <2>2
<1>4. /\ g \in [Borrowers -> Nat]
      /\ g[b] = loan'[b].principal - written_off'[b]
  BY <1>3 DEF Outstanding
<1>5. \A y \in Borrowers \ {b} : g[y] = f[y]
  BY DEF Outstanding
<1>6. total_borrows \in Nat /\ total_borrows' = total_borrows - f[b] + g[b]
  BY <1>1, <1>4 DEF IInv, VaultTypeOK
<1>7. total_borrows = Sum(f) /\ (BorrowsBacked' <=> total_borrows' = Sum(g))
  BY DEF IInv, BorrowsBacked
<1> HIDE DEF f, g
<1>8. g[b] \in Nat
  BY <1>4
<1>9. Sum(g) = Sum(f) - f[b] + g[b]
  BY <1>1, <1>4, <1>5, FiniteBorrowers, SumUpdate
<1> QED
  BY <1>1, <1>2, <1>6, <1>7, <1>8, <1>9

\* BorrowsBacked survives a step that changes none of what it counts.
LEMMA BorrowsFrame ==
  ASSUME IInv, loan' = loan, UNCHANGED <<total_borrows, written_off>>
  PROVE  /\ total_borrows' \in Nat
         /\ written_off' \in [Borrowers -> Nat]
         /\ WriteOffWithinDefault'
         /\ BorrowsBacked'
<1>1. Outstanding' = Outstanding
  BY DEF Outstanding
<1>2. BorrowsBacked'
  BY <1>1 DEF IInv, BorrowsBacked
<1> QED
  BY <1>2 DEF IInv, VaultTypeOK, WriteOffWithinDefault

\* The loan manager's invariant survives a step that leaves its state alone.
LEMMA LMFrame ==
  ASSUME LMInv, UNCHANGED lm_vars
  PROVE  LMInv' /\ loan' = loan
BY DEF lm_vars, LMInv, LMTypeOK, LoanOK, LoanShape

\* What one account holds is at most all there is.
LEMMA ShareBound ==
  ASSUME IInv, NEW a \in Accounts
  PROVE  shares[a] \in Nat /\ shares[a] <= total_shares
<1>1. shares \in [Accounts -> Nat] /\ IsFiniteSet(Accounts)
  BY VaultAssumption DEF IInv, VaultTypeOK
<1>2. /\ Cardinality(Units(shares) \ ({a} \X Nat)) \in Nat
      /\ Sum(shares) = Cardinality(Units(shares) \ ({a} \X Nat)) + shares[a]
  BY <1>1, SumSplit
<1>3. shares[a] \in Nat
  BY <1>1
<1> QED
  BY <1>2, <1>3 DEF IInv, SharesBacked

\* SharesBacked survives when one account and the total change by the same
\* amount.
LEMMA SharesStep ==
  ASSUME IInv, NEW a \in Accounts,
         shares' \in [Accounts -> Nat],
         \A y \in Accounts \ {a} : shares'[y] = shares[y],
         total_shares' = total_shares - shares[a] + shares'[a]
  PROVE  total_shares' \in Nat /\ SharesBacked'
<1>1. shares \in [Accounts -> Nat] /\ IsFiniteSet(Accounts) /\ total_shares \in Nat
  BY VaultAssumption DEF IInv, VaultTypeOK
<1>2. shares[a] \in Nat /\ shares[a] <= total_shares /\ shares'[a] \in Nat
  BY ShareBound
<1>3. Sum(shares') = Sum(shares) - shares[a] + shares'[a]
  BY <1>1, SumUpdate
<1>4. SharesBacked'
  BY <1>3 DEF IInv, SharesBacked
<1> QED
  BY <1>1, <1>2, <1>4

\* SharesBacked survives a step that changes no shares.
LEMMA SharesFrame ==
  ASSUME IInv, UNCHANGED <<total_shares, shares>>
  PROVE  total_shares' \in Nat /\ shares' \in [Accounts -> Nat] /\ SharesBacked'
BY DEF IInv, VaultTypeOK, SharesBacked

\* The assets of the vault are a natural number.
LEMMA AssetsType ==
  ASSUME IInv
  PROVE  /\ cash \in Nat
         /\ total_assets \in Nat
         /\ total_assets >= cash
         /\ total_assets + 1 \in Nat \ {0}
         /\ total_shares \in Nat
         /\ total_shares + 1 \in Nat \ {0}
<1>1. cash \in Nat /\ total_borrows \in Nat /\ total_shares \in Nat
  BY DEF IInv, VaultTypeOK, cash, Holders
<1> QED
  BY <1>1 DEF total_assets

\* Division rounds down, and rounds up when the divisor less one is added first.
LEMMA Floor ==
  ASSUME NEW n \in Nat, NEW d \in Nat \ {0}
  PROVE  n \div d \in Nat /\ (n \div d) * d <= n
BY DivType

\* The rounded-up quotient covers the dividend.
LEMMA Ceiling ==
  ASSUME NEW n \in Nat, NEW k \in Nat
  PROVE  /\ (n + k) \div (k + 1) \in Nat
         /\ ((n + k) \div (k + 1)) * (k + 1) >= n
<1> DEFINE d == k + 1
           m == n + k
           q == m \div d
<1>1. m \in Nat /\ d \in Nat \ {0}
  OBVIOUS
<1> HIDE DEF m, d
<1>2. q \in Nat /\ m < q * d + d
  BY <1>1, DivType
<1> HIDE DEF q
<1>3. q * d \in Nat
  BY <1>1, <1>2, NatProduct
<1> DEFINE p == q * d
<1>4. p >= n
  <2>1. p \in Nat /\ m < p + d
    BY <1>2, <1>3
  <2> HIDE DEF p
  <2> QED
    BY <2>1 DEF m, d
<1> QED
  BY <1>2, <1>4 DEF q, m, d

\* The conversions between assets and shares, with the roundings they make.
LEMMA ConversionFacts ==
  ASSUME IInv, NEW x \in Nat
  PROVE  /\ to_shares(x) \in Nat
         /\ to_shares(x) * (total_assets + 1) <= x * (total_shares + 1)
         /\ to_assets(x) \in Nat
         /\ to_assets(x) * (total_shares + 1) <= x * (total_assets + 1)
         /\ to_shares_ceil(x) \in Nat
         /\ to_shares_ceil(x) * (total_assets + 1) >= x * (total_shares + 1)
<1> DEFINE k == total_assets
           d == total_assets + 1
           e == total_shares + 1
           n == x * e
           m == x * d
<1>1. k \in Nat /\ d \in Nat \ {0} /\ e \in Nat \ {0} /\ d = k + 1
  BY AssetsType
<1> HIDE DEF k, d, e
<1>2. n \in Nat /\ m \in Nat
  BY <1>1, NatProduct
<1> HIDE DEF n, m
<1>3. n \div d \in Nat /\ (n \div d) * d <= n
  BY <1>1, <1>2, Floor
<1>4. m \div e \in Nat /\ (m \div e) * e <= m
  BY <1>1, <1>2, Floor
<1>5. (n + k) \div (k + 1) \in Nat /\ ((n + k) \div (k + 1)) * (k + 1) >= n
  BY <1>1, <1>2, Ceiling
<1>6. to_shares(x) = n \div d /\ to_assets(x) = m \div e
      /\ to_shares_ceil(x) = (n + k) \div (k + 1)
  BY DEF to_shares, to_assets, to_shares_ceil, n, m, d, e, k
<1>7. /\ to_shares(x) \in Nat /\ to_shares(x) * d <= n
      /\ to_assets(x) \in Nat /\ to_assets(x) * e <= m
      /\ to_shares_ceil(x) \in Nat /\ to_shares_ceil(x) * d >= n
  BY <1>1, <1>3, <1>4, <1>5, <1>6
<1> QED
  BY <1>7 DEF n, m, d, e

\* deposit and deposit_from preserve the invariant.
LEMMA MintStep ==
  ASSUME IInv, NEW payer \in Accounts, NEW beneficiary \in Accounts, NEW assets \in Int,
         mint(payer, beneficiary, assets)
  PROVE  IInv'
<1>1. assets \in Nat /\ assets <= usdc[payer] /\ to_shares(assets) > 0
  BY DEF mint, IInv, VaultTypeOK, Holders
<1>2. to_shares(assets) \in Nat
  BY <1>1, ConversionFacts
<1>3. usdc' \in [Holders -> Nat]
  BY <1>1, TransferType DEF mint, IInv, VaultTypeOK, Holders
<1>4. total_shares' \in Nat /\ shares' \in [Accounts -> Nat] /\ SharesBacked'
  <2> DEFINE n == shares[beneficiary] + to_shares(assets)
  <2>1. shares[beneficiary] \in Nat /\ total_shares \in Nat
    BY ShareBound, AssetsType
  <2>2. n \in Nat /\ total_shares' = total_shares - shares[beneficiary] + n
    BY <1>2, <2>1 DEF mint
  <2>3. shares' = [shares EXCEPT ![beneficiary] = n] /\ shares \in [Accounts -> Nat]
    BY DEF mint, IInv, VaultTypeOK
  <2> HIDE DEF n
  <2>4. /\ shares' \in [Accounts -> Nat] /\ shares'[beneficiary] = n
        /\ \A y \in Accounts \ {beneficiary} : shares'[y] = shares[y]
    BY <2>2, <2>3
  <2> QED
    BY <2>2, <2>4, SharesStep
<1>5. LMInv' /\ loan' = loan
  BY LMFrame DEF mint, IInv
<1>6. /\ total_borrows' \in Nat /\ written_off' \in [Borrowers -> Nat]
      /\ WriteOffWithinDefault' /\ BorrowsBacked'
  BY <1>5, BorrowsFrame DEF mint
<1> QED
  BY <1>3, <1>4, <1>5, <1>6 DEF IInv, VaultTypeOK, mint

\* Burning shares against covered cash preserves the invariant.
LEMMA BurnStep ==
  ASSUME IInv, NEW from \in Accounts, NEW assets \in Nat, NEW s \in Nat, burn(from, assets, s)
  PROVE  IInv'
<1>1. s <= shares[from] /\ assets <= cash
  BY DEF burn
<1>2. usdc' \in [Holders -> Nat]
  BY <1>1, TransferType DEF burn, cash, IInv, VaultTypeOK, Holders
<1>3. total_shares' \in Nat /\ shares' \in [Accounts -> Nat] /\ SharesBacked'
  <2> DEFINE n == shares[from] - s
  <2>1. shares[from] \in Nat /\ total_shares \in Nat
    BY ShareBound, AssetsType
  <2>2. n \in Nat /\ total_shares' = total_shares - shares[from] + n
    BY <1>1, <2>1 DEF burn
  <2>3. shares' = [shares EXCEPT ![from] = n] /\ shares \in [Accounts -> Nat]
    BY DEF burn, IInv, VaultTypeOK
  <2> HIDE DEF n
  <2>4. /\ shares' \in [Accounts -> Nat] /\ shares'[from] = n
        /\ \A y \in Accounts \ {from} : shares'[y] = shares[y]
    BY <2>2, <2>3
  <2> QED
    BY <2>2, <2>4, SharesStep
<1>4. LMInv' /\ loan' = loan
  BY LMFrame DEF burn, IInv
<1>5. /\ total_borrows' \in Nat /\ written_off' \in [Borrowers -> Nat]
      /\ WriteOffWithinDefault' /\ BorrowsBacked'
  BY <1>4, BorrowsFrame DEF burn
<1> QED
  BY <1>2, <1>3, <1>4, <1>5 DEF IInv, VaultTypeOK, burn

\* withdraw preserves the invariant.
LEMMA WithdrawStep ==
  ASSUME IInv, NEW from \in Accounts, NEW assets \in Int, withdraw(from, assets)
  PROVE  IInv'
<1>1. assets \in Nat /\ to_shares_ceil(assets) \in Nat
  BY ConversionFacts DEF withdraw
<1> QED
  BY <1>1, BurnStep DEF withdraw

\* redeem preserves the invariant.
LEMMA RedeemStep ==
  ASSUME IInv, NEW from \in Accounts, NEW s \in Int, redeem(from, s)
  PROVE  IInv'
<1>1. s \in Nat /\ to_assets(s) \in Nat
  BY ConversionFacts DEF redeem
<1> QED
  BY <1>1, BurnStep DEF redeem

\* borrow_with_term preserves the invariant.
LEMMA BorrowStep ==
  ASSUME IInv, NEW b \in Borrowers, NEW amount \in Principals, NEW o \in OfferTerms,
         borrow_with_term(b, amount, o.tenor_days, o.fee_bps)
  PROVE  IInv'
<1>1. amount \in Nat /\ o.tenor_days \in Tenors /\ o.fee_bps \in Nat
  BY LoanManagerAssumption
<1>2. /\ LMInv' /\ ~loan[b].active /\ OnlyLoanOf(b)
      /\ loan'[b].principal = amount
  <2> DEFINE tenor == o.tenor_days
             bps == o.fee_bps
  <2>1. open_loan(VaultId, b, amount, tenor, bps) /\ LMInv
    BY DEF borrow_with_term, IInv
  <2>2. tenor \in Tenors /\ bps \in Nat
    BY <1>1
  <2> HIDE DEF tenor, bps
  <2> QED
    BY <1>1, <2>1, <2>2, OpenLoanStep
<1>4. loan[b].principal = 0 /\ written_off[b] = 0
  <2>1. loan[b] = NoLoan
    BY <1>2 DEF IInv, LMInv, LoanOK, LoanShape
  <2>2. written_off[b] \in Nat /\ written_off[b] <= loan[b].principal
    BY DEF IInv, VaultTypeOK, WriteOffWithinDefault
  <2> QED
    BY <2>1, <2>2 DEF NoLoan
<1>5. /\ written_off' = written_off
      /\ loan' \in [Borrowers -> Loan] /\ written_off \in [Borrowers -> Nat]
  BY <1>2 DEF borrow_with_term, IInv, LMInv, LMTypeOK, VaultTypeOK
<1>6. total_borrows' = total_borrows - (loan[b].principal - written_off[b])
                         + (loan'[b].principal - written_off'[b])
  BY <1>1, <1>2, <1>4, <1>5 DEF borrow_with_term, IInv, VaultTypeOK
<1>7. total_borrows' \in Nat /\ WriteOffWithinDefault' /\ BorrowsBacked'
  <2>1. \A y \in Borrowers \ {b} : loan'[y] = loan[y] /\ written_off'[y] = written_off[y]
    BY <1>2, <1>5 DEF OnlyLoanOf
  <2>2. written_off'[b] = 0 /\ written_off'[b] <= loan'[b].principal
    BY <1>1, <1>2, <1>4, <1>5
  <2> QED
    BY <1>5, <1>6, <2>1, <2>2, BorrowsStep
<1>8. usdc' \in [Holders -> Nat]
  <2>1. VaultId \in Holders /\ b \in Holders
    BY VaultAssumption DEF Holders
  <2>2. amount <= usdc[VaultId] /\ usdc' = transfer(usdc, VaultId, b, amount)
    BY DEF borrow_with_term, cash
  <2> QED
    BY <1>1, <2>1, <2>2, TransferType DEF IInv, VaultTypeOK
<1>9. total_shares' \in Nat /\ shares' \in [Accounts -> Nat] /\ SharesBacked'
  BY SharesFrame DEF borrow_with_term
<1> QED
  BY <1>2, <1>5, <1>7, <1>8, <1>9 DEF IInv, VaultTypeOK, borrow_with_term

\* The protocol fee is a part of the interest.
LEMMA FeeBound ==
  ASSUME NEW i \in Nat
  PROVE  protocol_fee(i) \in Nat /\ protocol_fee(i) <= i
<1>1. i * 500 \in Nat
  OBVIOUS
<1>2. (i * 500) \div 10000 \in Nat /\ ((i * 500) \div 10000) * 10000 <= i * 500
  BY <1>1, Floor
<1>3. (i * 500) \div 10000 <= i
  BY <1>2
<1> QED
  BY <1>2, <1>3 DEF protocol_fee, PROTOCOL_FEE_BPS, BPS_DENOM

\* Collecting a payment leaves the vault with at least the payment less the fee.
LEMMA CollectFacts ==
  ASSUME IInv, NEW payer \in Accounts, NEW pay \in Nat, NEW fee \in Nat,
         pay <= usdc[payer], fee <= pay, collect(payer, pay, fee)
  PROVE  /\ usdc' \in [Holders -> Nat]
         /\ usdc'[VaultId] \in Nat
         /\ usdc'[VaultId] >= usdc[VaultId] + pay - fee
<1> DEFINE paid_in == transfer(usdc, payer, VaultId, pay)
<1>1. /\ VaultId \in Holders /\ payer \in Holders /\ payer # VaultId
      /\ fee_recipient \in Holders /\ usdc \in [Holders -> Nat]
  BY VaultAssumption DEF Holders, IInv, VaultTypeOK
<1>2. paid_in \in [Holders -> Nat] /\ paid_in[VaultId] = usdc[VaultId] + pay
  BY <1>1, TransferType, TransferCash
<1>3. usdc' = transfer(paid_in, VaultId, fee_recipient, fee)
  BY DEF collect
<1> HIDE DEF paid_in
<1>4. usdc[VaultId] \in Nat
  BY <1>1
<1>5. fee <= paid_in[VaultId]
  BY <1>2, <1>4
<1>6. usdc' \in [Holders -> Nat]
  BY <1>1, <1>2, <1>3, <1>5, TransferType
<1>7. usdc'[VaultId] = paid_in[VaultId] - fee \/ usdc'[VaultId] = paid_in[VaultId]
  BY <1>1, <1>2, <1>3, <1>5, TransferCash
<1> QED
  BY <1>1, <1>2, <1>4, <1>6, <1>7

\* A payment through repay or repay_partial: types, what it takes off total_borrows
\* and what reaches the vault.
LEMMA PaymentStep ==
  ASSUME IInv, NEW payer \in Accounts, NEW b \in Borrowers, NEW pay \in Nat,
         loan[b].active, pay <= usdc[payer], pay <= preview_owed(b),
         collect(payer, pay, protocol_fee(payment(b, pay).interest_paid)),
         apply_payment(VaultId, b, pay),
         total_borrows' = total_borrows - in_borrows(b, payment(b, pay).principal_paid),
         written_off' = IF payment(b, pay).remaining = 0 THEN [written_off EXCEPT ![b] = 0]
                        ELSE written_off,
         UNCHANGED <<total_shares, shares, fee_recipient>>
  PROVE  /\ IInv'
         /\ total_borrows' <= total_borrows
         /\ total_borrows' + usdc'[VaultId] >= total_borrows + usdc[VaultId]
<1> DEFINE s == payment(b, pay)
           fee == protocol_fee(s.interest_paid)
           owed == preview_owed(b)
           old == loan[b].principal
           wo == written_off[b]
<1>1. /\ owed \in Nat /\ owed >= old /\ old > 0
      /\ s.principal_paid \in Nat /\ s.interest_paid \in Nat /\ s.remaining \in Nat
      /\ s.principal_paid <= old
      /\ s.principal_paid + s.interest_paid = pay
      /\ pay >= owed => s.principal_paid = old /\ s.remaining = 0
      /\ pay < owed => s.remaining > 0 /\ s.principal_paid < old
  BY PaymentFacts DEF IInv
<1>2. /\ LMInv'
      /\ OnlyLoanOf(b)
      /\ pay >= owed => loan'[b] = NoLoan
      /\ pay < owed => ~loan[b].defaulted /\ loan'[b].principal = old - s.principal_paid
  BY ApplyPaymentStep DEF IInv
<1>3. old \in Nat /\ wo \in Nat /\ wo <= old /\ (wo > 0 => loan[b].defaulted)
      /\ total_borrows \in Nat
  BY DEF IInv, LMInv, LMTypeOK, Loan, VaultTypeOK, WriteOffWithinDefault
<1>4. fee \in Nat /\ fee <= s.interest_paid
  BY <1>1, FeeBound
<1>5. total_borrows' = total_borrows - in_borrows(b, s.principal_paid)
  OBVIOUS
<1>6. /\ usdc' \in [Holders -> Nat] /\ usdc'[VaultId] \in Nat
      /\ usdc'[VaultId] >= usdc[VaultId] + pay - fee
  <2>1. fee <= pay
    BY <1>1, <1>4
  <2> QED
    BY <1>4, <2>1, CollectFacts
<1>7. written_off' = IF s.remaining = 0 THEN [written_off EXCEPT ![b] = 0] ELSE written_off
  OBVIOUS
<1> HIDE DEF s, fee, owed
<1>8. /\ total_borrows' \in Nat /\ written_off' \in [Borrowers -> Nat]
      /\ WriteOffWithinDefault' /\ BorrowsBacked'
  <2> DEFINE new == loan'[b].principal
             counted == in_borrows(b, s.principal_paid)
  <2>1. /\ written_off' \in [Borrowers -> Nat] /\ written_off'[b] = 0
        /\ \A y \in Borrowers \ {b} : written_off'[y] = written_off[y]
        /\ new \in Nat /\ counted \in Nat /\ new = (old - wo) - counted
    <3>1. CASE pay >= owed
      <4>1. new = 0
        BY <1>2, <3>1 DEF NoLoan
      <4>2. written_off' = [written_off EXCEPT ![b] = 0]
        BY <1>1, <1>7, <3>1
      <4>3. counted = old - wo
        BY <1>1, <1>3, <3>1 DEF in_borrows, Greater
      <4> HIDE DEF new, counted
      <4> QED
        BY <1>3, <4>1, <4>2, <4>3 DEF IInv, VaultTypeOK
    <3>2. CASE pay < owed
      <4>1. new = old - s.principal_paid
        BY <1>2, <3>2
      <4>2. wo = 0 /\ written_off' = written_off
        BY <1>1, <1>2, <1>3, <1>7, <3>2
      <4>3. counted = s.principal_paid
        BY <1>1, <4>2 DEF in_borrows, Greater
      <4> HIDE DEF new, counted
      <4> QED
        BY <1>1, <1>3, <3>2, <4>1, <4>2, <4>3 DEF IInv, VaultTypeOK
    <3> QED
      BY <1>1, <3>1, <3>2
  <2>2. total_borrows' = total_borrows - (old - wo) + (new - written_off'[b])
    <3>1. total_borrows' = total_borrows - counted
      BY <1>5
    <3> HIDE DEF new, counted
    <3> QED
      BY <1>3, <2>1, <3>1
  <2>3. loan' \in [Borrowers -> Loan]
    BY <1>2 DEF LMInv, LMTypeOK
  <2>4. \A y \in Borrowers \ {b} : loan'[y] = loan[y] /\ written_off'[y] = written_off[y]
    BY <1>2, <2>1 DEF OnlyLoanOf
  <2>5. written_off'[b] <= loan'[b].principal /\ ~(written_off'[b] > 0)
    BY <2>1
  <2> QED
    BY <2>1, <2>2, <2>3, <2>4, <2>5, BorrowsStep
<1>9. total_shares' \in Nat /\ shares' \in [Accounts -> Nat] /\ SharesBacked'
  BY SharesFrame
<1>10. IInv'
  BY <1>2, <1>6, <1>8, <1>9 DEF IInv, VaultTypeOK
<1>11. in_borrows(b, s.principal_paid) \in Nat /\ in_borrows(b, s.principal_paid) <= s.principal_paid
  BY <1>1, <1>3 DEF in_borrows, Greater
<1>12. usdc[VaultId] \in Nat
  BY AssetsType DEF cash
<1> DEFINE g == in_borrows(b, s.principal_paid)
<1>13. g \in Nat /\ g <= s.principal_paid /\ total_borrows' = total_borrows - g
  BY <1>5, <1>11
<1> HIDE DEF g
<1>14. total_borrows' <= total_borrows
       /\ total_borrows' + usdc'[VaultId] >= total_borrows + usdc[VaultId]
  BY <1>1, <1>3, <1>4, <1>6, <1>12, <1>13
<1> QED
  BY <1>10, <1>14

\* What PaymentStep concludes, for both ways to repay.
PaymentBooked ==
  /\ IInv'
  /\ total_borrows' <= total_borrows
  /\ total_borrows' + usdc'[VaultId] >= total_borrows + usdc[VaultId]

\* repay preserves the invariant: the payment closes the loan.
LEMMA RepayStep ==
  ASSUME IInv, NEW payer \in Accounts, NEW b \in Borrowers, repay(payer, b)
  PROVE  PaymentBooked
<1> DEFINE pay == preview_owed(b)
<1>1. loan[b].active /\ usdc[payer] >= pay
  BY DEF repay
<1>2. /\ pay \in Nat
      /\ payment(b, pay).principal_paid = loan[b].principal /\ payment(b, pay).remaining = 0
  <2>1. pay \in Nat
    BY <1>1, PaymentFacts DEF IInv
  <2> QED
    BY <1>1, <2>1, PaymentFacts DEF IInv
<1>3. /\ collect(payer, pay, protocol_fee(payment(b, pay).interest_paid))
      /\ apply_payment(VaultId, b, pay)
      /\ UNCHANGED <<total_shares, shares, fee_recipient>>
  BY DEF repay
<1>4. total_borrows' = total_borrows - in_borrows(b, payment(b, pay).principal_paid)
  BY <1>2 DEF repay
<1>5. written_off' = IF payment(b, pay).remaining = 0 THEN [written_off EXCEPT ![b] = 0]
                     ELSE written_off
  BY <1>2 DEF repay
<1>6. pay <= usdc[payer] /\ pay <= preview_owed(b)
  <2>1. payer \in Holders
    BY DEF Holders
  <2> QED
    BY <1>1, <1>2, <2>1 DEF IInv, VaultTypeOK
<1> HIDE DEF pay
<1> QED
  BY <1>1, <1>2, <1>3, <1>4, <1>5, <1>6, PaymentStep DEF PaymentBooked

\* repay_partial preserves the invariant, whether the payment closes the loan
\* or not.
LEMMA RepayPartialStep ==
  ASSUME IInv, NEW payer \in Accounts, NEW b \in Borrowers, NEW amount \in Payments,
         repay_partial(payer, b, amount)
  PROVE  PaymentBooked
<1> DEFINE pay == Lesser(amount, preview_owed(b))
<1>1. loan[b].active /\ usdc[payer] >= amount /\ amount \in Nat /\ amount > 0
  BY LoanManagerAssumption DEF repay_partial
<1>2. preview_owed(b) \in Nat
  BY <1>1, PaymentFacts DEF IInv
<1>3. pay \in Nat /\ pay <= amount /\ pay <= preview_owed(b)
  BY <1>1, <1>2 DEF Lesser
<1>4. /\ collect(payer, pay, protocol_fee(payment(b, pay).interest_paid))
      /\ apply_payment(VaultId, b, pay)
      /\ total_borrows' = total_borrows - in_borrows(b, payment(b, pay).principal_paid)
      /\ written_off' = IF payment(b, pay).remaining = 0 THEN [written_off EXCEPT ![b] = 0]
                        ELSE written_off
      /\ UNCHANGED <<total_shares, shares, fee_recipient>>
  BY DEF repay_partial
<1> HIDE DEF pay
<1>5. pay <= usdc[payer]
  <2>1. payer \in Holders
    BY DEF Holders
  <2> QED
    BY <1>1, <1>3, <2>1 DEF IInv, VaultTypeOK
<1> QED
  BY <1>1, <1>3, <1>4, <1>5, PaymentStep DEF PaymentBooked

\* manual_write_off preserves the invariant: the loss is capped at what is
\* still counted.
LEMMA WriteOffStep ==
  ASSUME IInv, NEW b \in Borrowers, NEW amount \in WriteOffs, manual_write_off(b, amount)
  PROVE  /\ IInv'
         /\ total_borrows' < total_borrows
         /\ written_off'[b] > written_off[b]
<1> DEFINE old == loan[b].principal
           wo == written_off[b]
           loss == Lesser(amount, in_borrows(b, old))
<1>1. /\ loan[b].defaulted /\ loss > 0
      /\ total_borrows' = total_borrows - loss
      /\ written_off' = [written_off EXCEPT ![b] = wo + loss]
  BY DEF manual_write_off
<1>2. /\ loan[b] \in Loan /\ LoanShape(loan[b], now)
      /\ wo \in Nat /\ wo <= old /\ total_borrows \in Nat
      /\ written_off \in [Borrowers -> Nat]
  BY DEF IInv, LMInv, LMTypeOK, LoanOK, VaultTypeOK, WriteOffWithinDefault
<1>3. loan[b].active /\ old \in Nat
  BY <1>1, <1>2 DEF LoanShape, NoLoan, Loan
<1>4. in_borrows(b, old) = old - wo
  BY <1>2, <1>3 DEF in_borrows, Greater
<1>5. loss \in Nat /\ wo + loss <= old
  BY VaultAssumption, <1>1, <1>2, <1>3, <1>4 DEF Lesser
<1>6. LMInv' /\ loan' = loan
  BY LMFrame DEF manual_write_off, IInv
<1> HIDE DEF loss
<1>7. /\ written_off' \in [Borrowers -> Nat] /\ written_off'[b] = wo + loss
      /\ \A y \in Borrowers \ {b} : loan'[y] = loan[y] /\ written_off'[y] = written_off[y]
  BY <1>1, <1>2, <1>5, <1>6
<1>8. total_borrows' = total_borrows - (old - wo) + (loan'[b].principal - written_off'[b])
  <2>1. loan'[b].principal = old
    BY <1>6
  <2> HIDE DEF old, wo
  <2> QED
    BY <1>1, <1>2, <1>3, <1>5, <1>7, <2>1
<1>9. total_borrows' \in Nat /\ WriteOffWithinDefault' /\ BorrowsBacked'
  <2>1. loan' \in [Borrowers -> Loan]
    BY <1>6 DEF LMInv, LMTypeOK
  <2>2. written_off'[b] <= loan'[b].principal /\ loan'[b].active /\ loan'[b].defaulted
    BY <1>1, <1>3, <1>5, <1>6, <1>7
  <2> QED
    BY <1>7, <1>8, <2>1, <2>2, BorrowsStep
<1>10. total_shares' \in Nat /\ shares' \in [Accounts -> Nat] /\ SharesBacked'
  BY SharesFrame DEF manual_write_off
<1>11. IInv'
  BY <1>6, <1>7, <1>9, <1>10 DEF IInv, VaultTypeOK, manual_write_off
<1>12. total_borrows' < total_borrows /\ written_off'[b] > wo
  BY <1>1, <1>2, <1>5, <1>7
<1> QED
  BY <1>11, <1>12

\* A transfer of the token into the vault preserves the invariant.
LEMMA DonateStep ==
  ASSUME IInv, NEW from \in Accounts, NEW amount \in Gifts, donate(from, amount)
  PROVE  IInv' /\ usdc'[VaultId] = usdc[VaultId] + amount
<1>1. /\ VaultId \in Holders /\ from \in Holders /\ from # VaultId /\ amount \in Nat
      /\ usdc \in [Holders -> Nat] /\ amount <= usdc[from]
      /\ usdc' = transfer(usdc, from, VaultId, amount)
  BY VaultAssumption DEF Holders, donate, IInv, VaultTypeOK
<1>2. usdc' \in [Holders -> Nat] /\ usdc'[VaultId] = usdc[VaultId] + amount
  BY <1>1, TransferType, TransferCash
<1>3. LMInv' /\ loan' = loan
  BY LMFrame DEF donate, IInv
<1>4. /\ total_borrows' \in Nat /\ written_off' \in [Borrowers -> Nat]
      /\ WriteOffWithinDefault' /\ BorrowsBacked'
  BY <1>3, BorrowsFrame DEF donate
<1>5. total_shares' \in Nat /\ shares' \in [Accounts -> Nat] /\ SharesBacked'
  BY SharesFrame DEF donate
<1> QED
  BY <1>2, <1>3, <1>4, <1>5 DEF IInv, VaultTypeOK, donate

\* A step of the loan manager alone that keeps the principal of a borrower.
LEMMA SamePrincipal ==
  ASSUME IInv, NEW b \in Borrowers, LMInv', UNCHANGED vault_vars, OnlyLoanOf(b),
         loan'[b].principal = loan[b].principal, loan'[b].active,
         loan[b].defaulted => loan'[b].defaulted
  PROVE  IInv'
<1>1. /\ written_off' = written_off /\ total_borrows' = total_borrows
      /\ UNCHANGED <<usdc, total_shares, shares, fee_recipient>>
  BY DEF vault_vars
<1>2. loan' \in [Borrowers -> Loan] /\ written_off \in [Borrowers -> Nat] /\ total_borrows \in Nat
  BY DEF LMInv, LMTypeOK, IInv, VaultTypeOK
<1>3. /\ written_off[b] <= loan[b].principal
      /\ written_off[b] > 0 => loan[b].defaulted
  BY DEF IInv, WriteOffWithinDefault
<1>4. loan[b].principal \in Nat
  BY DEF IInv, LMInv, LMTypeOK, Loan
<1>5. total_borrows' = total_borrows - (loan[b].principal - written_off[b])
                         + (loan'[b].principal - written_off'[b])
  BY <1>1, <1>2, <1>4
<1>6. \A y \in Borrowers \ {b} : loan'[y] = loan[y] /\ written_off'[y] = written_off[y]
  BY <1>1 DEF OnlyLoanOf
<1>7. total_borrows' \in Nat /\ WriteOffWithinDefault' /\ BorrowsBacked'
  BY <1>1, <1>2, <1>3, <1>5, <1>6, BorrowsStep
<1>8. total_shares' \in Nat /\ shares' \in [Accounts -> Nat] /\ SharesBacked'
  BY <1>1, SharesFrame
<1> QED
  BY <1>1, <1>2, <1>7, <1>8 DEF IInv, VaultTypeOK

\* The invariant survives a step of the loan manager that changes no loan.
LEMMA SameLoans ==
  ASSUME IInv, LMInv', loan' = loan, UNCHANGED vault_vars
  PROVE  IInv'
<1>1. UNCHANGED <<usdc, total_shares, total_borrows, shares, written_off, fee_recipient>>
  BY DEF vault_vars
<1>2. /\ total_borrows' \in Nat /\ written_off' \in [Borrowers -> Nat]
      /\ WriteOffWithinDefault' /\ BorrowsBacked'
  BY <1>1, BorrowsFrame
<1>3. total_shares' \in Nat /\ shares' \in [Accounts -> Nat] /\ SharesBacked'
  BY <1>1, SharesFrame
<1> QED
  BY <1>1, <1>2, <1>3 DEF IInv, VaultTypeOK

\* The operator's calls, accrue_late and the clock preserve the invariant.
LEMMA OperatorStep ==
  ASSUME IInv, LMOperator, UNCHANGED vault_vars
  PROVE  IInv'
<1>1. LMInv
  BY DEF IInv
<1>2. CASE \E b \in Borrowers : mark_default(b)
  <2>1. PICK b \in Borrowers : mark_default(b)
    BY <1>2
  <2>2. /\ LMInv' /\ OnlyLoanOf(b) /\ loan'[b].principal = loan[b].principal
        /\ loan'[b].active /\ loan'[b].defaulted
    BY <1>1, <2>1, MarkDefaultStep
  <2> QED
    BY <2>2, SamePrincipal
<1>3. CASE \E b \in Borrowers : accrue_late(b)
  <2>1. PICK b \in Borrowers : accrue_late(b)
    BY <1>3
  <2>2. /\ LMInv' /\ OnlyLoanOf(b) /\ loan'[b].principal = loan[b].principal
        /\ loan'[b].active /\ loan'[b].defaulted = loan[b].defaulted
    BY <1>1, <2>1, AccrueLateStep
  <2> QED
    BY <2>2, SamePrincipal
<1>4. CASE \E t \in Timestamps : close_ledger(t)
  BY <1>1, <1>4, CloseLedgerStep, SameLoans
<1>5. CASE \/ \E v \in Vaults : set_vault(v)
           \/ \E g \in GracePeriods : set_default_grace_period(g)
           \/ \E t \in Tenors, d \in MinHoldDays : set_min_hold_for_tenor(t, d)
           \/ \E b \in Borrowers, r \in RiskProfiles : set_user_risk(b, r)
           \/ \E b \in Borrowers, o \in OfferTerms : set_loan_offer(b, o)
           \/ \E b \in Borrowers, x \in LateRates : set_premium_config(b, x)
  BY <1>1, <1>5, SettersStep, SameLoans
<1> QED
  BY <1>2, <1>3, <1>4, <1>5 DEF LMOperator

\* The initial states satisfy the inductive invariant.
LEMMA IInvInit == Init => IInv
<1> SUFFICES ASSUME Init PROVE IInv
  OBVIOUS
<1>1. LMInv
  BY LMInitInv DEF Init
<1>2. VaultTypeOK
  BY VaultAssumption DEF Init, VaultTypeOK, Holders
<1>3. WriteOffWithinDefault
  <2> SUFFICES ASSUME NEW b \in Borrowers
               PROVE  written_off[b] <= loan[b].principal /\ ~(written_off[b] > 0)
    BY DEF WriteOffWithinDefault
  <2>1. written_off[b] = 0 /\ loan[b].principal = 0
    BY DEF Init, LMInit, NoLoan
  <2> QED
    BY <2>1
<1>4. BorrowsBacked
  <2>1. Outstanding = [b \in Borrowers |-> 0]
    BY DEF Init, LMInit, Outstanding, NoLoan
  <2> QED
    BY <2>1, SumZero DEF Init, BorrowsBacked
<1>5. SharesBacked
  BY SumZero DEF Init, SharesBacked
<1> QED
  BY <1>1, <1>2, <1>3, <1>4, <1>5 DEF IInv

\* Every step preserves the inductive invariant: one case per action of Next.
LEMMA IInvStep == IInv /\ [Next]_vars => IInv'
<1> SUFFICES ASSUME IInv, [Next]_vars PROVE IInv'
  OBVIOUS
<1> USE VaultAssumption
<1>1. CASE \E a \in Lps, x \in Deposits : deposit(a, x) \/ withdraw(a, x)
  BY <1>1, MintStep, WithdrawStep DEF deposit
<1>2. CASE \E p \in Lps, a \in Beneficiaries, x \in Deposits : deposit_from(p, a, x)
  <2>1. PICK p \in Lps, a \in Beneficiaries, x \in Deposits : deposit_from(p, a, x)
    BY <1>2
  <2>2. a \in Accounts /\ mint(p, a, x)
    BY <2>1 DEF deposit_from, Holders
  <2> QED
    BY <2>2, MintStep
<1>3. CASE \E a \in Lps, s \in Redemptions : redeem(a, s)
  BY <1>3, RedeemStep
<1>4. CASE \E b \in Borrowers, x \in Principals, o \in OfferTerms :
             borrow_with_term(b, x, o.tenor_days, o.fee_bps)
  BY <1>4, BorrowStep
<1>5. CASE \E p \in Payers, b \in Borrowers : repay(p, b)
  BY <1>5, RepayStep DEF PaymentBooked
<1>6. CASE \E p \in Payers, b \in Borrowers, x \in Payments : repay_partial(p, b, x)
  BY <1>6, RepayPartialStep DEF PaymentBooked
<1>7. CASE \E b \in Borrowers, x \in WriteOffs : manual_write_off(b, x)
  BY <1>7, WriteOffStep
<1>8. CASE \E r \in FeeRecipients : set_fee_recipient(r)
  <2>1. LMInv' /\ loan' = loan
    BY <1>8, LMFrame DEF set_fee_recipient, IInv
  <2>2. /\ total_borrows' \in Nat /\ written_off' \in [Borrowers -> Nat]
        /\ WriteOffWithinDefault' /\ BorrowsBacked'
    BY <1>8, <2>1, BorrowsFrame DEF set_fee_recipient
  <2>3. total_shares' \in Nat /\ shares' \in [Accounts -> Nat] /\ SharesBacked'
    BY <1>8, SharesFrame DEF set_fee_recipient
  <2> QED
    BY <1>8, <2>1, <2>2, <2>3 DEF IInv, VaultTypeOK, set_fee_recipient
<1>9. CASE \E a \in Lps, x \in Gifts : donate(a, x)
  BY <1>9, DonateStep
<1>10. CASE LMOperator /\ UNCHANGED vault_vars
  BY <1>10, OperatorStep
<1>11. CASE UNCHANGED vars
  <2>1. UNCHANGED lm_vars /\ UNCHANGED vault_vars
    BY <1>11 DEF vars
  <2>2. LMInv' /\ loan' = loan
    BY <2>1, LMFrame DEF IInv
  <2> QED
    BY <2>1, <2>2, SameLoans
<1> QED
  BY <1>1, <1>2, <1>3, <1>4, <1>5, <1>6, <1>7, <1>8, <1>9, <1>10, <1>11 DEF Next

\* The inductive invariant holds in every reachable state: what all the
\* invariance theorems below follow from.
THEOREM Invariance == Spec => []IInv
BY IInvInit, IInvStep, PTL DEF Spec

\* Every variable keeps its type; in particular no balance, no share count and
\* no total ever goes below zero.
THEOREM TypeCorrect == Spec => []TypeOK
<1>1. IInv => TypeOK
  BY DEF IInv, LMInv, VaultTypeOK, TypeOK
<1> QED
  BY <1>1, Invariance, PTL

\* Every loan record is the zero record or a well-formed active loan.
THEOREM LoansWellFormed == Spec => []LoanOK
<1>1. IInv => LoanOK
  BY DEF IInv, LMInv
<1> QED
  BY <1>1, Invariance, PTL

\* Written-off principal belongs to a loan in default and is at most its principal.
THEOREM WriteOffsAreBounded == Spec => []WriteOffWithinDefault
<1>1. IInv => WriteOffWithinDefault
  BY DEF IInv
<1> QED
  BY <1>1, Invariance, PTL

\* total_borrows is exactly the open principal that is not written off.
THEOREM BorrowsAreBacked == Spec => []BorrowsBacked
<1>1. IInv => BorrowsBacked
  BY DEF IInv
<1> QED
  BY <1>1, Invariance, PTL

\* total_shares is exactly what the accounts hold.
THEOREM SharesAreBacked == Spec => []SharesBacked
<1>1. IInv => SharesBacked
  BY DEF IInv
<1> QED
  BY <1>1, Invariance, PTL

\* The k-th part of a row of units: the quotient and the remainder say which it is.
LEMMA SubUnits ==
  ASSUME NEW k \in Nat \ {0}, NEW i \in Nat \ {0}, NEW m \in 1 .. k
  PROVE  /\ (i - 1) * k + m \in Nat \ {0}
         /\ ((i - 1) * k + m - 1) \div k = i - 1
         /\ \A n \in Nat : i <= n => (i - 1) * k + m <= n * k
<1> DEFINE p == (i - 1) * k
<1>1. i - 1 \in Nat /\ p \in Nat
  BY NatProduct
<1>2. ASSUME NEW n \in Nat, i <= n PROVE p + m <= n * k
  <2>1. i * k <= n * k
    BY <1>2, ProductMonotone
  <2>2. i * k = p + k
    OBVIOUS
  <2>3. n * k \in Nat
    BY NatProduct
  <2> HIDE DEF p
  <2> QED
    BY <1>1, <2>1, <2>2, <2>3
<1>3. (p + m - 1) \div k = i - 1
  <2>1. (i - 1) * k <= p + m - 1 /\ p + m - 1 < (i - 1) * k + k
    BY <1>1
  <2> HIDE DEF p
  <2> QED
    BY <1>1, <2>1, DivUnique
<1> QED
  BY <1>1, <1>2, <1>3

\* Equal pairs have equal components.
LEMMA PairEqual ==
  ASSUME NEW x, NEW y, NEW c, NEW d, <<x, c>> = <<y, d>>
  PROVE  x = y /\ c = d
OBVIOUS

\* Multiplying every value multiplies the sum: a unit of f is k units of k * f.
LEMMA SumScale ==
  ASSUME NEW S, IsFiniteSet(S), NEW f \in [S -> Nat], NEW k \in Nat \ {0}
  PROVE  /\ [x \in S |-> f[x] * k] \in [S -> Nat]
         /\ Sum([x \in S |-> f[x] * k]) = Sum(f) * k
<1> DEFINE h == [x \in S |-> f[x] * k]
           P == Units(f) \X (1 .. k)
           Q == Units(h)
           at(i, m) == (i - 1) * k + m
           g == [u \in P |-> <<u[1][1], at(u[1][2], u[2])>>]
<1>1. h \in [S -> Nat] /\ \A x \in S : h[x] = f[x] * k
  BY NatProduct
<1> HIDE DEF h
<1>2. /\ \A x, i : <<x, i>> \in Units(f) <=> x \in S /\ i \in 1 .. f[x]
      /\ \A x, i : <<x, i>> \in Q <=> x \in S /\ i \in 1 .. h[x]
      /\ \A u \in Units(f) : u = <<u[1], u[2]>>
      /\ \A u \in Q : u = <<u[1], u[2]>>
  BY <1>1 DEF Units
<1>3. ASSUME NEW x \in S, NEW i \in 1 .. f[x], NEW m \in 1 .. k
      PROVE  /\ <<<<x, i>>, m>> \in P
             /\ g[<<<<x, i>>, m>>] = <<x, at(i, m)>>
             /\ <<x, at(i, m)>> \in Q
             /\ at(i, m) \in Nat /\ (at(i, m) - 1) \div k = i - 1
  <2>1. <<<<x, i>>, m>> \in P
    BY <1>2
  <2>2. g[<<<<x, i>>, m>>] = <<x, at(i, m)>>
    BY <2>1
  <2>3. i \in Nat \ {0} /\ f[x] \in Nat /\ i <= f[x]
    OBVIOUS
  <2>4. /\ (i - 1) * k + m \in Nat \ {0} /\ (i - 1) * k + m <= f[x] * k
        /\ ((i - 1) * k + m - 1) \div k = i - 1
    BY <2>3, SubUnits
  <2> DEFINE j == at(i, m)
  <2>5. j \in 1 .. h[x]
    <3>1. h[x] = f[x] * k /\ h[x] \in Nat
      BY <1>1
    <3> HIDE DEF j
    <3> QED
      BY <2>4, <3>1 DEF j
  <2>6. <<x, j>> \in Q
    BY <1>2, <2>5
  <2> QED
    BY <2>1, <2>2, <2>4, <2>6
<1>4. ASSUME NEW u \in P
      PROVE  /\ u = <<<<u[1][1], u[1][2]>>, u[2]>>
             /\ u[1][1] \in S /\ u[1][2] \in 1 .. f[u[1][1]] /\ u[2] \in 1 .. k
  BY <1>2
<1> HIDE DEF P, Q, g, at
<1>5. g \in [P -> Q]
  <2>1. ASSUME NEW u \in P PROVE g[u] \in Q
    <3> DEFINE x == u[1][1]
               i == u[1][2]
               m == u[2]
    <3>1. u = <<<<x, i>>, m>> /\ x \in S /\ i \in 1 .. f[x] /\ m \in 1 .. k
      BY <1>4
    <3> HIDE DEF x, i, m
    <3>2. g[<<<<x, i>>, m>>] = <<x, at(i, m)>> /\ <<x, at(i, m)>> \in Q
      BY <1>3, <3>1, Zenon
    <3> QED
      BY <3>1, <3>2, Zenon
  <2>2. g = [u \in P |-> g[u]]
    BY DEF g
  <2> QED
    BY <2>1, <2>2
<1>6. g \in Injection(P, Q)
  <2>1. ASSUME NEW u \in P, NEW v \in P, g[u] = g[v] PROVE u = v
    <3> DEFINE x == u[1][1]
               i == u[1][2]
               m == u[2]
               y == v[1][1]
               n == v[1][2]
               w == v[2]
    <3>1. /\ u = <<<<x, i>>, m>> /\ x \in S /\ i \in 1 .. f[x] /\ m \in 1 .. k
          /\ v = <<<<y, n>>, w>> /\ y \in S /\ n \in 1 .. f[y] /\ w \in 1 .. k
      BY <1>4
    <3> HIDE DEF x, i, m, y, n, w
    <3>2. /\ g[u] = <<x, at(i, m)>> /\ (at(i, m) - 1) \div k = i - 1
          /\ g[v] = <<y, at(n, w)>> /\ (at(n, w) - 1) \div k = n - 1
      BY <1>3, <3>1, Zenon
    <3>3. x = y /\ at(i, m) = at(n, w)
      <4>1. <<x, at(i, m)>> = <<y, at(n, w)>>
        BY <2>1, <3>2, Zenon
      <4> QED
        BY <4>1, PairEqual, Zenon
    <3>4. i \in Int /\ n \in Int /\ m \in Int /\ w \in Int
      BY <3>1
    <3>5. i - 1 = n - 1
      BY <3>2, <3>3, Zenon
    <3>6. i = n
      BY <3>4, <3>5
    <3>7. m = w
      <4> DEFINE c == (i - 1) * k
      <4>1. c \in Int /\ c + m = c + w
        BY <3>3, <3>4, <3>6 DEF at
      <4> HIDE DEF c
      <4> QED
        BY <3>4, <4>1
    <3> QED
      BY <3>1, <3>3, <3>6, <3>7
  <2> QED
    BY <1>5, <2>1 DEF Injection, IsInjective
<1>7. g \in Surjection(P, Q)
  <2>1. ASSUME NEW z \in Q PROVE \E u \in P : g[u] = z
    <3> DEFINE x == z[1]
               j == z[2]
               q == (j - 1) \div k
               m == j - q * k
    <3>1. z = <<x, j>> /\ x \in S /\ j \in 1 .. h[x] /\ h[x] = f[x] * k /\ f[x] \in Nat
      BY <1>1, <1>2
    <3>2. j \in Nat /\ j - 1 \in Nat /\ j <= f[x] * k
      BY <1>1, <3>1
    <3> HIDE DEF j, x
    <3>3. q \in Nat /\ q * k <= j - 1 /\ j - 1 < q * k + k
      BY <3>2, DivType
    <3> HIDE DEF q
    <3>4. q * k \in Nat
      BY <3>3, NatProduct
    <3>5. m \in 1 .. k
      BY <3>2, <3>3, <3>4
    <3>6. q + 1 <= f[x]
      <4>1. ASSUME f[x] <= q PROVE FALSE
        <5>1. f[x] * k <= q * k
          BY <3>1, <3>3, <4>1, ProductMonotone
        <5>2. f[x] * k \in Nat
          BY <3>1, NatProduct
        <5> QED
          BY <3>2, <3>3, <3>4, <5>1, <5>2
      <4> QED
        BY <3>1, <3>3, <4>1
    <3>7. q + 1 \in 1 .. f[x]
      BY <3>1, <3>3, <3>6
    <3>8. /\ <<<<x, q + 1>>, m>> \in P
          /\ g[<<<<x, q + 1>>, m>>] = <<x, at(q + 1, m)>>
      <4> HIDE DEF m
      <4> QED
        BY <1>3, <3>1, <3>5, <3>7, Zenon
    <3>9. at(q + 1, m) = j
      <4>1. q + 1 - 1 = q
        BY <3>3
      <4>2. q * k + m = j
        BY <3>2, <3>4
      <4> QED
        BY <3>2, <3>3, <3>4, <4>1, <4>2 DEF at
    <3> QED
      BY <3>1, <3>8, <3>9
  <2> QED
    BY <1>5, <2>1 DEF Surjection
<1>8. IsFiniteSet(P) /\ Cardinality(P) = Sum(f) * k
  <2>1. IsFiniteSet(Units(f))
    BY UnitsFinite
  <2>2. IsFiniteSet(1 .. k) /\ Cardinality(1 .. k) = k
    BY FS_Interval
  <2> QED
    BY <2>1, <2>2, FS_Product DEF P, Sum
<1>9. IsFiniteSet(Q)
  BY <1>1, UnitsFinite DEF Q
<1>10. Cardinality(P) = Cardinality(Q)
  BY <1>6, <1>7, <1>9, FS_Injection
<1> QED
  BY <1>1, <1>8, <1>10 DEF Q, Sum, h

\* The vault can pay every holder at the current price: to_assets rounds down for
\* each, and the virtual share keeps the total strictly below the virtual assets.
THEOREM VaultIsSolvent == Spec => []Solvent
<1>1. IInv => Solvent
  <2>1. SUFFICES ASSUME IInv PROVE Solvent
    OBVIOUS
  <2> DEFINE A == total_assets + 1
             B == total_shares + 1
             f == [a \in Accounts |-> to_assets(shares[a])]
             fB == [a \in Accounts |-> f[a] * B]
             sA == [a \in Accounts |-> shares[a] * A]
  <2>2. /\ total_assets \in Nat /\ A \in Nat \ {0} /\ A = total_assets + 1
        /\ total_shares \in Nat /\ B \in Nat \ {0} /\ B = total_shares + 1
        /\ shares \in [Accounts -> Nat] /\ IsFiniteSet(Accounts)
    BY <2>1, AssetsType, VaultAssumption DEF IInv, VaultTypeOK
  <2>3. ASSUME NEW a \in Accounts
        PROVE  /\ to_assets(shares[a]) \in Nat
               /\ to_assets(shares[a]) * B <= shares[a] * A
    BY <2>1, <2>2, ConversionFacts
  <2> HIDE DEF A, B
  <2>4. f \in [Accounts -> Nat] /\ \A a \in Accounts : f[a] * B <= shares[a] * A
    BY <2>3
  <2>5. f = [a \in Accounts |-> to_assets(shares[a])]
    OBVIOUS
  <2> HIDE DEF f
  <2>6. /\ fB \in [Accounts -> Nat] /\ Sum(fB) = Sum(f) * B
        /\ sA \in [Accounts -> Nat] /\ Sum(sA) = Sum(shares) * A
    BY <2>2, <2>4, SumScale
  <2>7. \A a \in Accounts : fB[a] <= sA[a]
    BY <2>4
  <2> HIDE DEF fB, sA
  <2>8. Sum(fB) <= Sum(sA)
    BY <2>2, <2>6, <2>7, SumMonotone
  <2>9. Sum(shares) = total_shares
    BY <2>1 DEF IInv, SharesBacked
  <2>10. Sum(f) \in Nat
    BY <2>2, <2>4, SumType
  <2> DEFINE X == Sum(f)
  <2>11. X * B <= total_shares * A /\ X \in Nat
    BY <2>6, <2>8, <2>9, <2>10
  <2> HIDE DEF X
  <2>12. ASSUME A <= X PROVE FALSE
    <3>1. A * B <= X * B
      BY <2>2, <2>11, <2>12, ProductMonotone
    <3>2. A * B = total_shares * A + A
      BY <2>2
    <3>3. A * B \in Nat /\ X * B \in Nat /\ total_shares * A \in Nat
      BY <2>2, <2>11, NatProduct
    <3> QED
      BY <2>2, <2>11, <3>1, <3>2, <3>3
  <2>13. X <= total_assets
    BY <2>2, <2>11, <2>12
  <2> QED
    BY <2>5, <2>13 DEF Solvent, X
<1> QED
  BY <1>1, Invariance, PTL

-----------------------------------------------------------------------------
(* Roundings never favour the caller: the share price falls only by a       *)
(* write-off, and the vault with its loan manager implements CreditPool.    *)


\* Issuing s claims for x units at a price rounded against the caller.
LEMMA PriceAfterIssue ==
  ASSUME NEW A \in Nat, NEW B \in Nat, NEW x \in Nat, NEW s \in Nat, s * A <= x * B
  PROVE  (A + x) * B >= A * (B + s)
<1>1. (A + x) * B = A * B + x * B /\ A * (B + s) = A * B + s * A
  OBVIOUS
<1>2. A * B \in Nat /\ x * B \in Nat /\ s * A \in Nat
  BY NatProduct
<1> QED
  BY <1>1, <1>2

\* Cancelling s claims for x units at a price rounded against the caller.
LEMMA PriceAfterCancel ==
  ASSUME NEW A \in Nat, NEW B \in Nat, NEW x \in Nat, NEW s \in Nat, x * B <= s * A
  PROVE  (A - x) * B >= A * (B - s)
<1>1. (A - x) * B = A * B - x * B /\ A * (B - s) = A * B - s * A
  OBVIOUS
<1>2. A * B \in Nat /\ x * B \in Nat /\ s * A \in Nat
  BY NatProduct
<1> QED
  BY <1>1, <1>2

\* Assets that grow with no new shares do not lower the price.
LEMMA PriceAfterGain ==
  ASSUME NEW A \in Nat, NEW C \in Nat, NEW B \in Nat, A <= C
  PROVE  C * B >= A * B
<1>1. PICK k \in Nat : C = A + k
  <2>1. C - A \in Nat /\ C = A + (C - A)
    OBVIOUS
  <2> QED
    BY <2>1
<1>2. (A + k) * B = A * B + k * B
  OBVIOUS
<1>3. A * B \in Nat /\ k * B \in Nat
  BY NatProduct
<1> QED
  BY <1>1, <1>2, <1>3

\* What deposit and deposit_from do to cash, shares and their total, in the
\* terms of the pool.
LEMMA MintEffect ==
  ASSUME IInv, NEW payer \in Accounts, NEW beneficiary \in Accounts, NEW assets \in Int,
         mint(payer, beneficiary, assets)
  PROVE  /\ assets \in Nat /\ assets > 0
         /\ to_shares(assets) \in Nat /\ to_shares(assets) > 0
         /\ to_shares(assets) * (total_assets + 1) <= assets * (total_shares + 1)
         /\ cash' = cash + assets
         /\ total_borrows' = total_borrows
         /\ total_shares' = total_shares + to_shares(assets)
         /\ shares' = [shares EXCEPT ![beneficiary] = @ + to_shares(assets)]
<1>1. /\ assets \in Nat /\ assets > 0 /\ assets <= usdc[payer] /\ to_shares(assets) > 0
      /\ usdc' = transfer(usdc, payer, VaultId, assets)
      /\ total_borrows' = total_borrows
      /\ total_shares' = total_shares + to_shares(assets)
  BY DEF mint, IInv, VaultTypeOK, Holders
<1>2. /\ to_shares(assets) \in Nat
      /\ to_shares(assets) * (total_assets + 1) <= assets * (total_shares + 1)
  BY <1>1, ConversionFacts
<1>3. cash' = cash + assets
  <2>1. /\ payer \in Holders /\ VaultId \in Holders /\ payer # VaultId
        /\ usdc \in [Holders -> Nat]
    BY VaultAssumption DEF Holders, IInv, VaultTypeOK
  <2>2. usdc'[VaultId] = usdc[VaultId] + assets
    BY <1>1, <2>1, TransferCash
  <2> QED
    BY <2>2 DEF cash
<1>4. shares' = [shares EXCEPT ![beneficiary] = @ + to_shares(assets)]
  BY DEF mint
<1> QED
  BY <1>1, <1>2, <1>3, <1>4

\* What withdraw and redeem do to cash, shares and their total.
LEMMA BurnEffect ==
  ASSUME IInv, NEW from \in Accounts, NEW assets \in Nat, NEW s \in Nat, burn(from, assets, s)
  PROVE  /\ s <= shares[from] /\ s <= total_shares /\ assets <= cash
         /\ cash' = cash - assets
         /\ total_borrows' = total_borrows
         /\ total_shares' = total_shares - s
         /\ shares' = [shares EXCEPT ![from] = @ - s]
<1>1. /\ s <= shares[from] /\ assets <= cash
      /\ usdc' = transfer(usdc, VaultId, from, assets)
      /\ total_borrows' = total_borrows
      /\ total_shares' = total_shares - s
  BY DEF burn
<1>2. s <= total_shares
  BY <1>1, ShareBound, AssetsType
<1>3. cash' = cash - assets
  <2>1. /\ from \in Holders /\ VaultId \in Holders /\ from # VaultId
        /\ usdc \in [Holders -> Nat] /\ assets <= usdc[VaultId]
    BY <1>1, VaultAssumption DEF Holders, IInv, VaultTypeOK, cash
  <2>2. usdc'[VaultId] = usdc[VaultId] - assets
    BY <1>1, <2>1, TransferCash
  <2> QED
    BY <2>2 DEF cash
<1>4. shares' = [shares EXCEPT ![from] = @ - s]
  BY DEF burn
<1> QED
  BY <1>1, <1>2, <1>3, <1>4

\* borrow_with_term moves the principal from cash to total_borrows and
\* nothing else.
LEMMA BorrowEffect ==
  ASSUME IInv, NEW b \in Borrowers, NEW amount \in Principals, NEW tenor, NEW bps,
         borrow_with_term(b, amount, tenor, bps)
  PROVE  /\ amount \in Nat /\ amount > 0 /\ amount <= cash
         /\ cash' = cash - amount
         /\ total_borrows' = total_borrows + amount
         /\ UNCHANGED <<total_shares, shares>>
<1>1. /\ amount \in Nat /\ amount > 0 /\ amount <= cash
      /\ usdc' = transfer(usdc, VaultId, b, amount)
      /\ total_borrows' = total_borrows + amount
      /\ UNCHANGED <<total_shares, shares>>
  BY LoanManagerAssumption DEF borrow_with_term
<1>2. cash' = cash - amount
  <2>1. /\ b \in Holders /\ VaultId \in Holders /\ b # VaultId
        /\ usdc \in [Holders -> Nat] /\ amount <= usdc[VaultId]
    BY <1>1, VaultAssumption DEF Holders, IInv, VaultTypeOK, cash
  <2>2. usdc'[VaultId] = usdc[VaultId] - amount
    BY <1>1, <2>1, TransferCash
  <2> QED
    BY <2>2 DEF cash
<1> QED
  BY <1>1, <1>2

-----------------------------------------------------------------------------
(* What a step does to the pool, in terms both results use.                 *)

\* x units come in and s claims are issued to a, or the other way round.
Issued(a, x, s) ==
  /\ s * (total_assets + 1) <= x * (total_shares + 1)
  /\ x > 0 /\ s > 0
  /\ cash' = cash + x /\ total_borrows' = total_borrows
  /\ total_shares' = total_shares + s
  /\ shares' = [shares EXCEPT ![a] = @ + s]

Cancelled(a, x, s) ==
  /\ x * (total_shares + 1) <= s * (total_assets + 1)
  /\ s > 0 /\ s <= shares[a] /\ s <= total_shares /\ x <= cash
  /\ cash' = cash - x /\ total_borrows' = total_borrows
  /\ total_shares' = total_shares - s
  /\ shares' = [shares EXCEPT ![a] = @ - s]

Lent(x) ==
  /\ x > 0 /\ x <= cash
  /\ cash' = cash - x /\ total_borrows' = total_borrows + x
  /\ UNCHANGED <<total_shares, shares>>

Collected ==
  /\ total_borrows' <= total_borrows
  /\ cash' + total_borrows' >= cash + total_borrows
  /\ UNCHANGED <<total_shares, shares>>

WrittenDown ==
  /\ total_borrows' < total_borrows
  /\ \E b \in Borrowers : written_off'[b] > written_off[b]
  /\ cash' = cash
  /\ UNCHANGED <<total_shares, shares>>

\* Every step of the vault is one of five: shares issued, shares cancelled,
\* money lent, money collected (or nothing at all), a loss written off.
LEMMA StepEffect ==
  ASSUME IInv, [Next]_vars
  PROVE  \/ \E a \in Accounts, x \in Nat, s \in Nat : Issued(a, x, s) \/ Cancelled(a, x, s)
         \/ \E x \in Nat : Lent(x)
         \/ Collected
         \/ WrittenDown
<1> USE VaultAssumption
<1>0. cash \in Nat /\ total_borrows \in Nat /\ total_shares \in Nat /\ total_assets \in Nat
  BY AssetsType DEF IInv, VaultTypeOK
<1>a. ASSUME NEW p \in Accounts, NEW a \in Accounts, NEW x \in Int, mint(p, a, x)
      PROVE  \E y \in Nat, s \in Nat : Issued(a, y, s)
  <2>1. x \in Nat /\ to_shares(x) \in Nat /\ Issued(a, x, to_shares(x))
    BY <1>a, MintEffect DEF Issued
  <2> QED
    BY <2>1
<1>1. CASE \E a \in Lps, x \in Deposits : deposit(a, x)
  BY <1>1, <1>a DEF deposit
<1>2. CASE \E p \in Lps, a \in Beneficiaries, x \in Deposits : deposit_from(p, a, x)
  <2>1. PICK p \in Lps, a \in Beneficiaries, x \in Deposits : deposit_from(p, a, x)
    BY <1>2
  <2>2. a \in Accounts /\ mint(p, a, x)
    BY <2>1 DEF deposit_from, Holders
  <2> QED
    BY <2>2, <1>a
<1>3. CASE \E a \in Lps, x \in Deposits : withdraw(a, x)
  <2>1. PICK a \in Lps, x \in Deposits : withdraw(a, x)
    BY <1>3
  <2> DEFINE s == to_shares_ceil(x)
  <2>2. a \in Accounts /\ x \in Nat /\ x > 0 /\ burn(a, x, s)
    BY <2>1 DEF withdraw
  <2>3. s \in Nat /\ s * (total_assets + 1) >= x * (total_shares + 1)
    BY <2>2, ConversionFacts
  <2> HIDE DEF s
  <2>4. /\ s <= shares[a] /\ s <= total_shares /\ x <= cash
        /\ cash' = cash - x /\ total_borrows' = total_borrows
        /\ total_shares' = total_shares - s
        /\ shares' = [shares EXCEPT ![a] = @ - s]
    BY <2>2, <2>3, BurnEffect
  <2>5. s > 0
    <3>1. x * (total_shares + 1) \in Nat \ {0}
      BY <1>0, <2>2, PosProduct
    <3>2. s # 0
      BY <1>0, <2>3, <3>1
    <3> QED
      BY <2>3, <3>2
  <2>6. x * (total_shares + 1) <= s * (total_assets + 1)
    <3>1. x * (total_shares + 1) \in Nat /\ s * (total_assets + 1) \in Nat
      BY <1>0, <2>2, <2>3, NatProduct
    <3> QED
      BY <2>3, <3>1
  <2>7. Cancelled(a, x, s)
    BY <2>4, <2>5, <2>6 DEF Cancelled
  <2> QED
    BY <2>2, <2>3, <2>7
<1>4. CASE \E a \in Lps, s \in Redemptions : redeem(a, s)
  <2>1. PICK a \in Lps, s \in Redemptions : redeem(a, s)
    BY <1>4
  <2> DEFINE x == to_assets(s)
  <2>2. a \in Accounts /\ s \in Nat /\ s > 0 /\ burn(a, x, s)
    BY <2>1 DEF redeem
  <2>3. x \in Nat /\ x * (total_shares + 1) <= s * (total_assets + 1)
    BY <2>2, ConversionFacts
  <2> HIDE DEF x
  <2>4. Cancelled(a, x, s)
    BY <2>2, <2>3, BurnEffect DEF Cancelled
  <2> QED
    BY <2>2, <2>3, <2>4
<1>5. CASE \E b \in Borrowers, x \in Principals, o \in OfferTerms :
             borrow_with_term(b, x, o.tenor_days, o.fee_bps)
  <2>1. PICK b \in Borrowers, x \in Principals, o \in OfferTerms :
               borrow_with_term(b, x, o.tenor_days, o.fee_bps)
    BY <1>5
  <2>2. x \in Nat /\ Lent(x)
    BY <2>1, BorrowEffect DEF Lent
  <2> QED
    BY <2>2
<1>6. CASE \E p \in Payers, b \in Borrowers : repay(p, b)
  <2>1. PaymentBooked /\ UNCHANGED <<total_shares, shares>>
    BY <1>6, RepayStep DEF repay
  <2> QED
    BY <1>0, <2>1 DEF PaymentBooked, Collected, cash, IInv, VaultTypeOK, Holders
<1>7. CASE \E p \in Payers, b \in Borrowers, x \in Payments : repay_partial(p, b, x)
  <2>1. PaymentBooked /\ UNCHANGED <<total_shares, shares>>
    BY <1>7, RepayPartialStep DEF repay_partial
  <2> QED
    BY <1>0, <2>1 DEF PaymentBooked, Collected, cash, IInv, VaultTypeOK, Holders
<1>8. CASE \E b \in Borrowers, x \in WriteOffs : manual_write_off(b, x)
  BY <1>8, WriteOffStep DEF WrittenDown, manual_write_off, cash
<1>9. CASE \E a \in Lps, x \in Gifts : donate(a, x)
  <2>1. PICK a \in Lps, x \in Gifts : donate(a, x)
    BY <1>9
  <2>2. cash' = cash + x /\ x \in Nat
    BY <2>1, DonateStep DEF cash
  <2>3. UNCHANGED <<total_borrows, total_shares, shares>>
    BY <2>1 DEF donate
  <2> QED
    BY <1>0, <2>2, <2>3 DEF Collected
<1>10. CASE \/ \E r \in FeeRecipients : set_fee_recipient(r)
            \/ LMOperator /\ UNCHANGED vault_vars
            \/ UNCHANGED vars
  <2>1. UNCHANGED <<usdc, total_borrows, total_shares, shares>>
    BY <1>10 DEF set_fee_recipient, vault_vars, vars
  <2> QED
    BY <1>0, <2>1 DEF Collected, cash
<1> QED
  BY <1>1, <1>2, <1>3, <1>4, <1>5, <1>6, <1>7, <1>8, <1>9, <1>10 DEF Next

\* No step but a write-off lowers the price of a share.
LEMMA PriceStep ==
  ASSUME IInv, [Next]_vars, \A b \in Borrowers : written_off'[b] <= written_off[b]
  PROVE  PriceHolds
<1> DEFINE A == total_assets + 1
           B == total_shares + 1
<1>1. A \in Nat /\ B \in Nat /\ cash \in Nat /\ total_borrows \in Nat /\ total_shares \in Nat
      /\ A = cash + total_borrows + 1
  BY AssetsType DEF total_assets, IInv, VaultTypeOK
<1>2. (total_assets + 1)' = cash' + total_borrows' + 1 /\ (total_shares + 1)' = total_shares' + 1
  BY DEF total_assets
<1>3. IInv'
  BY IInvStep
<1>4. cash' \in Nat /\ total_borrows' \in Nat /\ total_shares' \in Nat
  BY <1>3 DEF IInv, VaultTypeOK, cash, Holders
<1>5. PriceHolds <=> (cash' + total_borrows' + 1) * B >= A * (total_shares' + 1)
  BY <1>2 DEF PriceHolds
<1>6. CASE \E a \in Accounts, x \in Nat, s \in Nat : Issued(a, x, s)
  <2>1. PICK a \in Accounts, x \in Nat, s \in Nat : Issued(a, x, s)
    BY <1>6
  <2>2. s * A <= x * B
    BY <2>1 DEF Issued
  <2>3. cash' + total_borrows' + 1 = A + x /\ total_shares' + 1 = B + s
    BY <1>1, <2>1 DEF Issued
  <2> HIDE DEF A, B
  <2>4. (A + x) * B >= A * (B + s)
    BY <1>1, <2>2, PriceAfterIssue
  <2> QED
    BY <1>5, <2>3, <2>4
<1>7. CASE \E a \in Accounts, x \in Nat, s \in Nat : Cancelled(a, x, s)
  <2>1. PICK a \in Accounts, x \in Nat, s \in Nat : Cancelled(a, x, s)
    BY <1>7
  <2>2. x * B <= s * A
    BY <2>1 DEF Cancelled
  <2>3. cash' + total_borrows' + 1 = A - x /\ total_shares' + 1 = B - s
    BY <1>1, <2>1 DEF Cancelled
  <2> HIDE DEF A, B
  <2>4. (A - x) * B >= A * (B - s)
    BY <1>1, <2>2, PriceAfterCancel
  <2> QED
    BY <1>5, <2>3, <2>4
<1>8. CASE \/ \E x \in Nat : Lent(x)
           \/ Collected
  <2> DEFINE C == cash' + total_borrows' + 1
  <2>1. C \in Nat /\ A <= C /\ total_shares' + 1 = B
    BY <1>1, <1>4, <1>8 DEF Lent, Collected
  <2>2. PriceHolds <=> C * B >= A * (total_shares' + 1)
    BY <1>5
  <2> HIDE DEF A, B, C
  <2>3. C * B >= A * B
    BY <1>1, <2>1, PriceAfterGain
  <2> QED
    BY <2>1, <2>2, <2>3
<1>9. CASE WrittenDown
  <2>1. PICK b \in Borrowers : written_off'[b] > written_off[b]
    BY <1>9 DEF WrittenDown
  <2>2. written_off[b] \in Nat /\ written_off'[b] \in Nat /\ written_off'[b] <= written_off[b]
    BY <1>3 DEF IInv, VaultTypeOK
  <2> QED
    BY <2>1, <2>2
<1> QED
  BY <1>6, <1>7, <1>8, <1>9, StepEffect

\* No step but a write-off lowers the price of a share.
THEOREM PriceIsMonotone == Spec => PriceNeverFalls
<1>1. IInv /\ [Next]_vars => [(\A b \in Borrowers : written_off'[b] <= written_off[b]) => PriceHolds]_vars
  BY PriceStep
<1> QED
  BY <1>1, Invariance, PTL DEF Spec, PriceNeverFalls

-----------------------------------------------------------------------------
\* The deployed vault is an empty pool.
LEMMA PoolInitial == Init => Pool!PoolInit
<1> SUFFICES ASSUME Init PROVE Pool!PoolInit
  OBVIOUS
<1>1. cash = 0 /\ total_borrows = 0 /\ total_shares = 0 /\ shares = [a \in Accounts |-> 0]
  BY VaultAssumption DEF Init, cash, Holders
<1> QED
  BY <1>1 DEF Pool!PoolInit

\* Every step of the vault is a step of the pool or leaves it unchanged.
LEMMA PoolStep == IInv /\ [Next]_vars => [Pool!PoolNext]_(Pool!pool)
<1> SUFFICES ASSUME IInv, [Next]_vars PROVE Pool!PoolNext
  OBVIOUS
<1>1. /\ cash \in Nat /\ total_borrows \in Nat /\ total_shares \in Nat
      /\ shares \in [Accounts -> Nat]
      /\ total_assets = cash + total_borrows
  BY AssetsType DEF IInv, VaultTypeOK, total_assets
<1>2. IInv'
  BY IInvStep
<1>3. cash' \in Nat /\ total_borrows' \in Nat /\ total_shares' \in Nat
  BY <1>2 DEF IInv, VaultTypeOK, cash, Holders
<1>4. CASE \E a \in Accounts, x \in Nat, s \in Nat : Issued(a, x, s)
  <2>1. PICK a \in Accounts, x \in Nat, s \in Nat : Issued(a, x, s)
    BY <1>4
  <2>2. cash' - cash = x /\ total_shares' - total_shares = s
    BY <1>1, <2>1 DEF Issued
  <2>3. Pool!Issue(a)
    BY <1>1, <2>1, <2>2 DEF Issued, Pool!Issue, Pool!Worth
  <2> QED
    BY <2>3 DEF Pool!PoolNext
<1>5. CASE \E a \in Accounts, x \in Nat, s \in Nat : Cancelled(a, x, s)
  <2>1. PICK a \in Accounts, x \in Nat, s \in Nat : Cancelled(a, x, s)
    BY <1>5
  <2>2. cash - cash' = x /\ total_shares - total_shares' = s
    BY <1>1, <2>1 DEF Cancelled
  <2>3. Pool!Cancel(a)
    BY <1>1, <1>3, <2>1, <2>2 DEF Cancelled, Pool!Cancel, Pool!Worth
  <2> QED
    BY <2>3 DEF Pool!PoolNext
<1>6. CASE \E x \in Nat : Lent(x)
  <2>1. Pool!Lend
    BY <1>1, <1>3, <1>6 DEF Lent, Pool!Lend, Pool!Worth
  <2> QED
    BY <2>1 DEF Pool!PoolNext
<1>7. CASE Collected
  <2>1. /\ total_borrows' >= 0 /\ total_borrows' <= total_borrows
        /\ cash' + total_borrows' >= cash + total_borrows
        /\ UNCHANGED <<total_shares, shares>>
    BY <1>3, <1>7 DEF Collected
  <2>2. Pool!Collect
    BY <2>1 DEF Pool!Collect, Pool!Worth
  <2> QED
    BY <2>2 DEF Pool!PoolNext
<1>8. CASE WrittenDown
  <2>1. Pool!WriteDown
    BY <1>1, <1>3, <1>8 DEF WrittenDown, Pool!WriteDown
  <2> QED
    BY <2>1 DEF Pool!PoolNext
<1> QED
  BY <1>4, <1>5, <1>6, <1>7, <1>8, StepEffect

\* The vault with its loan manager implements the abstract pool.
THEOREM Refinement == Spec => PoolPromise
BY PoolInitial, PoolStep, Invariance, PTL DEF Spec, PoolPromise, Pool!PoolSpec
================================================================================
