--------------------------------- MODULE Vault ---------------------------------
(***************************************************************************)
(* The vault contract (contratos/vault/src/lib.rs) composed with the loan  *)
(* manager it calls: deposits and withdrawals of liquidity providers,      *)
(* borrowing, full and partial repayment, write-off.  A call of the vault  *)
(* and the calls it makes to the loan manager and to the token are one     *)
(* atomic step.                                                            *)
(*                                                                         *)
(* The token (the Stellar asset contract of USDC, external) is the         *)
(* function usdc; the cash of the vault is its live balance, which anyone  *)
(* can raise by a plain transfer.                                          *)
(***************************************************************************)
EXTENDS LoanManager, Sums

CONSTANTS
  Accounts,        \* addresses that hold USDC, Borrowers among them
  Lps,             \* accounts that deposit, withdraw, redeem and send gifts
  Beneficiaries,   \* addresses deposit_from may name
  Payers,          \* accounts that fund repayments
  Funds,           \* USDC of each account at the start
  Deposits,        \* amounts passed to deposit, deposit_from and withdraw
  Redemptions,     \* share amounts passed to redeem
  WriteOffs,       \* amounts passed to manual_write_off
  Gifts,           \* amounts of plain token transfers into the vault
  FeeRecipients    \* addresses set_fee_recipient may register

Holders == Accounts \cup {VaultId}

ASSUME VaultAssumption ==
  /\ IsFiniteSet(Accounts)
  /\ Borrowers \subseteq Accounts
  /\ Lps \subseteq Accounts
  /\ Beneficiaries \subseteq Holders
  /\ Payers \subseteq Accounts
  /\ VaultId \notin Accounts
  /\ Funds \in [Accounts -> Nat]
  /\ Deposits \subseteq Int
  /\ Redemptions \subseteq Int
  /\ WriteOffs \subseteq Int
  /\ Gifts \subseteq Nat
  /\ FeeRecipients \subseteq Holders
  /\ FeeRecipients # {}

VARIABLES
  usdc,           \* token balances
  total_shares,   \* TotalShares
  total_borrows,  \* TotalBorrows
  shares,         \* Shares(address)
  written_off,    \* WrittenOff(borrower)
  fee_recipient   \* Config.fee_recipient

vault_vars == <<usdc, total_shares, total_borrows, shares, written_off, fee_recipient>>
vars == <<lm_vars, vault_vars>>

PROTOCOL_FEE_BPS == 500

transfer(bal, from, to, amount) ==
  LET debited == [bal EXCEPT ![from] = @ - amount]
  IN  [debited EXCEPT ![to] = @ + amount]

cash == usdc[VaultId]
total_assets == cash + total_borrows

to_shares(assets) == (assets * (total_shares + 1)) \div (total_assets + 1)
to_assets(s) == (s * (total_assets + 1)) \div (total_shares + 1)
\* Mutant: a withdrawal burns the floor.
to_shares_ceil_floors(assets) == to_shares(assets)

to_shares_ceil(assets) == (assets * (total_shares + 1) + total_assets) \div (total_assets + 1)

-----------------------------------------------------------------------------
(* Liquidity providers.                                                    *)

mint(payer, beneficiary, assets) ==
  /\ assets > 0
  /\ to_shares(assets) > 0
  /\ usdc[payer] >= assets
  /\ usdc' = transfer(usdc, payer, VaultId, assets)
  /\ shares' = [shares EXCEPT ![beneficiary] = @ + to_shares(assets)]
  /\ total_shares' = total_shares + to_shares(assets)
  /\ UNCHANGED <<lm_vars, total_borrows, written_off, fee_recipient>>

deposit(from, assets) == mint(from, from, assets)

deposit_from(payer, beneficiary, assets) ==
  /\ beneficiary # VaultId
  /\ mint(payer, beneficiary, assets)

\* Mutants: the total, or the balance of the account, is not written.
burn_keeps_total(from, assets, s) ==
  /\ s <= shares[from]
  /\ assets <= cash
  /\ shares' = [shares EXCEPT ![from] = @ - s]
  /\ usdc' = transfer(usdc, VaultId, from, assets)
  /\ UNCHANGED <<lm_vars, total_shares, total_borrows, written_off, fee_recipient>>
burn_keeps_balance(from, assets, s) ==
  /\ s <= shares[from]
  /\ s <= total_shares
  /\ assets <= cash
  /\ total_shares' = total_shares - s
  /\ usdc' = transfer(usdc, VaultId, from, assets)
  /\ UNCHANGED <<lm_vars, shares, total_borrows, written_off, fee_recipient>>

burn(from, assets, s) ==
  /\ s <= shares[from]
  /\ assets <= cash
  /\ shares' = [shares EXCEPT ![from] = @ - s]
  /\ total_shares' = total_shares - s
  /\ usdc' = transfer(usdc, VaultId, from, assets)
  /\ UNCHANGED <<lm_vars, total_borrows, written_off, fee_recipient>>

withdraw(from, assets) ==
  /\ assets > 0
  /\ burn(from, assets, to_shares_ceil(assets))

redeem(from, s) ==
  /\ s > 0
  /\ burn(from, to_assets(s), s)

-----------------------------------------------------------------------------
(* Borrowing and repayment.                                                *)

\* Mutant: the loan is not added to total_borrows.
borrow_forgets_total(b, amount, tenor, fee_bps) ==
  /\ amount > 0
  /\ amount <= credit_limit(b)
  /\ amount <= cash
  /\ usdc' = transfer(usdc, VaultId, b, amount)
  /\ open_loan(VaultId, b, amount, tenor, fee_bps)
  /\ UNCHANGED <<total_borrows, total_shares, shares, written_off, fee_recipient>>

borrow_with_term(b, amount, tenor, fee_bps) ==
  /\ amount > 0
  /\ amount <= credit_limit(b)
  /\ amount <= cash
  /\ usdc' = transfer(usdc, VaultId, b, amount)
  /\ total_borrows' = total_borrows + amount
  /\ open_loan(VaultId, b, amount, tenor, fee_bps)
  /\ UNCHANGED <<total_shares, shares, written_off, fee_recipient>>

protocol_fee(interest_paid) == (interest_paid * PROTOCOL_FEE_BPS) \div BPS_DENOM

\* Mutant: the principal as if nothing had been written off.
in_borrows_unclamped(b, principal) == principal

\* The part of a principal that total_borrows still counts.
in_borrows(b, principal) == Greater(principal - written_off[b], 0)

\* The vault receives `pay' on behalf of the borrower and passes on its fee.
collect(payer, pay, fee) ==
  usdc' = transfer(transfer(usdc, payer, VaultId, pay), VaultId, fee_recipient, fee)

\* Mutant: the write-off of the closed loan stays.
repay_keeps_write_off(payer, b) ==
  LET pay == preview_owed(b)
      fee == protocol_fee(payment(b, pay).interest_paid)
  IN  /\ loan[b].active
      /\ pay > 0
      /\ usdc[payer] >= pay
      /\ collect(payer, pay, fee)
      /\ apply_payment(VaultId, b, pay)
      /\ total_borrows' = total_borrows - in_borrows(b, loan[b].principal)
      /\ UNCHANGED <<total_shares, shares, written_off, fee_recipient>>

repay(payer, b) ==
  LET pay == preview_owed(b)
      fee == protocol_fee(payment(b, pay).interest_paid)
  IN  /\ loan[b].active
      /\ pay > 0
      /\ usdc[payer] >= pay
      /\ collect(payer, pay, fee)
      /\ apply_payment(VaultId, b, pay)
      /\ total_borrows' = total_borrows - in_borrows(b, loan[b].principal)
      /\ written_off' = [written_off EXCEPT ![b] = 0]
      /\ UNCHANGED <<total_shares, shares, fee_recipient>>

\* Mutant: the whole payment is taken off total_borrows, not its principal part.
repay_partial_books_payment(payer, b, amount) ==
  LET pay == Lesser(amount, preview_owed(b))
      split_ == payment(b, pay)
      fee == protocol_fee(split_.interest_paid)
  IN  /\ amount > 0
      /\ loan[b].active
      /\ usdc[payer] >= amount
      /\ collect(payer, pay, fee)
      /\ apply_payment(VaultId, b, pay)
      /\ total_borrows' = total_borrows - in_borrows(b, pay)
      /\ written_off' = IF split_.remaining = 0 THEN [written_off EXCEPT ![b] = 0]
                        ELSE written_off
      /\ UNCHANGED <<total_shares, shares, fee_recipient>>

\* The payer must hold the whole amount although the excess comes back.
repay_partial(payer, b, amount) ==
  LET pay == Lesser(amount, preview_owed(b))
      split_ == payment(b, pay)
      fee == protocol_fee(split_.interest_paid)
  IN  /\ amount > 0
      /\ loan[b].active
      /\ usdc[payer] >= amount
      /\ collect(payer, pay, fee)
      /\ apply_payment(VaultId, b, pay)
      /\ total_borrows' = total_borrows - in_borrows(b, split_.principal_paid)
      /\ written_off' = IF split_.remaining = 0 THEN [written_off EXCEPT ![b] = 0]
                        ELSE written_off
      /\ UNCHANGED <<total_shares, shares, fee_recipient>>

manual_write_off(b, amount) ==
  LET loss == Lesser(amount, in_borrows(b, loan[b].principal))
  IN  /\ loan[b].defaulted
      /\ loss > 0
      /\ total_borrows' = total_borrows - loss
      /\ written_off' = [written_off EXCEPT ![b] = @ + loss]
      /\ UNCHANGED <<lm_vars, usdc, total_shares, shares, fee_recipient>>

set_fee_recipient(r) ==
  /\ fee_recipient' = r
  /\ UNCHANGED <<lm_vars, usdc, total_shares, total_borrows, shares, written_off>>

\* A transfer of the token straight into the vault (external).
donate(from, amount) ==
  /\ usdc[from] >= amount
  /\ usdc' = transfer(usdc, from, VaultId, amount)
  /\ UNCHANGED <<lm_vars, total_shares, total_borrows, shares, written_off, fee_recipient>>

-----------------------------------------------------------------------------
Init ==
  /\ LMInit
  /\ usdc = [a \in Holders |-> IF a = VaultId THEN 0 ELSE Funds[a]]
  /\ total_shares = 0
  /\ total_borrows = 0
  /\ shares = [a \in Accounts |-> 0]
  /\ written_off = [b \in Borrowers |-> 0]
  /\ fee_recipient \in FeeRecipients

Next ==
  \/ \E a \in Lps, x \in Deposits : deposit(a, x) \/ withdraw(a, x)
  \/ \E p \in Lps, a \in Beneficiaries, x \in Deposits : deposit_from(p, a, x)
  \/ \E a \in Lps, s \in Redemptions : redeem(a, s)
  \/ \E b \in Borrowers, x \in Principals, o \in OfferTerms :
       borrow_with_term(b, x, o.tenor_days, o.fee_bps)
  \/ \E p \in Payers, b \in Borrowers : repay(p, b)
  \/ \E p \in Payers, b \in Borrowers, x \in Payments : repay_partial(p, b, x)
  \/ \E b \in Borrowers, x \in WriteOffs : manual_write_off(b, x)
  \/ \E r \in FeeRecipients : set_fee_recipient(r)
  \/ \E a \in Lps, x \in Gifts : donate(a, x)
  \/ LMOperator /\ UNCHANGED vault_vars

Spec == Init /\ [][Next]_vars

-----------------------------------------------------------------------------
TypeOK ==
  /\ LMTypeOK
  /\ usdc \in [Holders -> Nat]
  /\ total_shares \in Nat
  /\ total_borrows \in Nat
  /\ shares \in [Accounts -> Nat]
  /\ written_off \in [Borrowers -> Nat]
  /\ fee_recipient \in FeeRecipients

(***************************************************************************)
(* Only a loan that is in default has principal written off, and never     *)
(* more than it owes: manual_write_off caps it, no partial payment gets    *)
(* through after it, and the closing payment clears it, so that the next   *)
(* loan of the borrower starts clean.                                      *)
(***************************************************************************)
WriteOffWithinDefault ==
  \A b \in Borrowers :
    /\ written_off[b] <= loan[b].principal
    /\ written_off[b] > 0 => loan[b].active /\ loan[b].defaulted

\* The principal of each borrower that the vault still counts as an asset.
Outstanding == [b \in Borrowers |-> loan[b].principal - written_off[b]]

(***************************************************************************)
(* total_borrows is exactly the principal of the open loans that has not   *)
(* been written off, through every mix of partial payments, defaults,      *)
(* write-offs and late repayments of all borrowers: the vault never counts *)
(* a phantom loan as an asset nor discounts a principal twice.             *)
(***************************************************************************)
BorrowsBacked == total_borrows = Sum(Outstanding)

(***************************************************************************)
(* total_shares is exactly what the accounts hold.                         *)
(***************************************************************************)
SharesBacked == total_shares = Sum(shares)

(***************************************************************************)
(* If every account redeemed its shares at the current price, the vault's  *)
(* assets would cover all of it, rounding included.                        *)
(***************************************************************************)
Solvent == Sum([a \in Accounts |-> to_assets(shares[a])]) <= total_assets

(***************************************************************************)
(* The price of a share, (total_assets + 1) / (total_shares + 1), never    *)
(* falls except when a loss is written off: roundings of deposits,         *)
(* withdrawals and redemptions, fees and refunds of repayments never cost  *)
(* the other holders.                                                      *)
(***************************************************************************)
PriceHolds ==
  (total_assets + 1)' * (total_shares + 1) >= (total_assets + 1) * (total_shares + 1)'

PriceNeverFalls == [][(\A b \in Borrowers : written_off'[b] <= written_off[b]) => PriceHolds]_vars

(***************************************************************************)
(* The vault and its loan manager implement the promise of CreditPool.     *)
(***************************************************************************)
Pool == INSTANCE CreditPool WITH
          Holders <- Accounts, idle <- cash, lent <- total_borrows,
          supply <- total_shares, holding <- shares

PoolPromise == Pool!PoolSpec
================================================================================
