-------------------------------- MODULE MCVault --------------------------------
(* Two instances of the vault: MCVaultBorrowers.cfg has two borrowers and   *)
(* one deposit, MCVaultLps.cfg two liquidity providers and one borrower.    *)
(* A day is one second; the loan is a three-day one.                        *)
EXTENDS Vault

CONSTANTS lp, bob, carol

MCFundsBorrowers == [a \in Accounts |-> IF a = lp THEN 90 ELSE IF a = bob THEN 25 ELSE 0]
MCFundsLps == [a \in Accounts |-> IF a = lp THEN 60 ELSE 30]
MCRiskProfiles == {[kyc_ok |-> TRUE, valid_until |-> 0, limit |-> 40]}
MCOfferTerms == {[tenor_days |-> 3, fee_bps |-> 6000, valid_until |-> 21, max_amount |-> 40]}
================================================================================
