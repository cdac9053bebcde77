----------------------------- MODULE CctpDelivery -----------------------------
(***************************************************************************)
(* Delivery of USDC burned on another chain: the transfer rows             *)
(* (backend/src/cctp/cctp-transfer.ts), the executor that polls Circle's   *)
(* attestation service (Iris) and submits the mint and, in vault mode, the *)
(* deposit_from (cctp-executor.ts), and the submitter it submits through   *)
(* (scripts/cctp-demo.ts, LiveSoroban).                                    *)
(*                                                                         *)
(* The executor changes no stored state: poll() and deliver() return a row *)
(* that their caller stores.  A throw or a crash in the middle of          *)
(* deliver() therefore leaves the stored row as it was, whatever the       *)
(* transactions it had sent do afterwards.  poll() is one action: its two  *)
(* reads are followed by nothing that another step could come between.     *)
(* `attempts', `mintTxHash' and `lastError' are left out: nothing reads    *)
(* them.                                                                   *)
(***************************************************************************)
EXTENDS Integers, FiniteSets

CONSTANTS
  Transfers,     \* the rows, each known by the nonce of its burn
  BurnTxs,       \* burn transactions on the source chain
  Amount,        \* Amount[t]: the USDC burned, in the message's 6 decimals
  Float,         \* USDC the relayer holds for itself, in Stellar's 7 decimals
  OtherRelayers, \* TRUE when others may call the forwarder too
  MaxAborts,     \* bound: calls of deliver() lost to a crash or an RPC error
  None           \* no message

ASSUME CctpAssumption ==
  /\ IsFiniteSet(Transfers)
  /\ Amount \in [Transfers -> Nat \ {0}]
  /\ Float \in Nat
  /\ OtherRelayers \in BOOLEAN
  /\ MaxAborts \in Nat
  /\ None \notin Transfers

VARIABLES
  mode,      \* what the burn's message asks for
  burn_tx,   \* the burn transaction of each transfer
  complete,  \* burns whose attestation Iris has
  row,       \* the stored rows
  pc,        \* where deliver() is in each row
  flying,    \* relayer transactions sent and not yet in a ledger
  used,      \* is_nonce_used
  deposits,  \* deposit_from calls that landed for each transfer
  balance,   \* USDC of the relayer, 7 decimals
  aborts,    \* calls of deliver() lost so far
  lost       \* history: transfers that lost a call after sending deposit_from

burn_vars == <<mode, burn_tx>>
chain_vars == <<flying, used, deposits, balance>>
vars == <<mode, burn_tx, complete, row, pc, flying, used, deposits, balance, aborts, lost>>

\* What the burn says: forward to the beneficiary, to the relayer (who then
\* deposits for the beneficiary) or to somebody else; a message planDelivery
\* rejects; and a row whose burn Iris does not know.
Modes == {"direct", "vault", "stranger", "misbuilt", "unknown_burn"}
WellBuilt(t) == mode[t] \in {"direct", "vault"}

States == {"pending", "attested", "submitting", "delivered", "failed"}

\* Mutant: failed is final.
LEGAL_TRANSITIONS_failed_final ==
  [pending    |-> {"attested", "failed"},
   attested   |-> {"submitting", "failed"},
   submitting |-> {"delivered", "submitting", "attested", "failed"},
   delivered  |-> {},
   failed     |-> {}]

\* The only legal edges; a consumed nonce revives a failed row.
LEGAL_TRANSITIONS ==
  [pending    |-> {"attested", "failed"},
   attested   |-> {"submitting", "failed"},
   submitting |-> {"delivered", "submitting", "attested", "failed"},
   delivered  |-> {},
   failed     |-> {"delivered"}]

Row == [state: States, attestation: BOOLEAN, message: Transfers \cup {None}, depositTxHash: BOOLEAN]
IllegalCctpTransition == [state |-> "illegal"]

transition(r, to) ==
  IF r.state = to \/ (r.state \in States /\ to \in LEGAL_TRANSITIONS[r.state])
  THEN [r EXCEPT !.state = to] ELSE IllegalCctpTransition

-----------------------------------------------------------------------------
(* Iris.                                                                    *)

\* Mutant: an expired API key is taken for a refusal of the request.
irisStatus_key_is_fatal(http, ready, error) ==
  CASE http = 200 /\ ready -> "complete"
    [] http \in {400, 401, 403} /\ (error \/ http # 400) -> "error"
    [] (http = 200 /\ ~ready) \/ http = 404 \/ http >= 500 -> "pending"
    [] OTHER -> "backoff"

\* Only a ready 200 is complete and only a 400 that explains itself is final;
\* a broken connection counts as http 0.
irisStatusFromHttp(http, ready, error) ==
  CASE http = 200 /\ ready -> "complete"
    [] (http = 200 /\ ~ready) \/ http = 404 \/ http >= 500 -> "pending"
    [] http = 400 /\ error -> "error"
    [] OTHER -> "backoff"

\* What one request for t may bring back: the messages of its burn
\* transaction come in Iris's order and the first ready one is taken, whoever
\* it belongs to; the answer may lack the message itself.
ready_messages(t) == {m \in complete : burn_tx[m] = burn_tx[t] /\ mode[t] # "unknown_burn"}
getAttestation(t) ==
  {[kind |-> irisStatusFromHttp(200, TRUE, FALSE), message |-> m] :
     m \in IF ready_messages(t) = {} THEN {} ELSE ready_messages(t) \cup {None}}
  \cup {[kind |-> irisStatusFromHttp(http, FALSE, FALSE), message |-> None] :
          http \in {0, 200, 400, 401, 404, 429, 500}}
  \cup {[kind |-> irisStatusFromHttp(400, FALSE, TRUE), message |-> None] :
          u \in {t} \cap {v \in Transfers : mode[v] = "unknown_burn"}}

\* Circle attests a burn.
Attest(t) ==
  /\ mode[t] # "unknown_burn" /\ t \notin complete
  /\ complete' = complete \cup {t}
  /\ UNCHANGED <<burn_vars, row, pc, chain_vars, aborts, lost>>

-----------------------------------------------------------------------------
(* poll() and reconcile().                                                  *)

attested_by(r, iris) ==
  IF iris.kind = "complete" THEN [r EXCEPT !.attestation = TRUE, !.message = iris.message] ELSE r

\* Mutant: the attestation is taken for the mint.
reconcile_trusts_iris(r, iris, nonceUsed) ==
  IF iris.kind = "complete" THEN [attested_by(r, iris) EXCEPT !.state = "delivered"] ELSE r

\* A consumed nonce means delivered, along the legal edges; otherwise only a
\* pending row listens to Iris.
reconcile(r, iris, nonceUsed) ==
  LET kept == IF r.attestation /\ r.state \notin {"pending", "failed"} THEN r ELSE attested_by(r, iris)
      walk == CASE r.state = "pending"  -> transition(transition(kept, "attested"), "submitting")
                [] r.state = "attested" -> transition(kept, "submitting")
                [] OTHER -> kept
  IN  IF nonceUsed /\ r.state # "delivered" THEN transition(walk, "delivered")
      ELSE IF r.state # "pending" THEN r
      ELSE IF iris.kind = "complete" THEN transition(attested_by(r, iris), "attested")
      ELSE IF iris.kind = "error" THEN transition(r, "failed")
      ELSE r

\* The caller polls a row no deliver() is working on and stores the answer.
poll_with(t, iris) ==
  /\ pc[t] = "idle" /\ row[t].state # "delivered"
  /\ row' = [row EXCEPT ![t] = reconcile(@, iris, t \in used)]
  /\ UNCHANGED <<burn_vars, complete, pc, chain_vars, aborts, lost>>

poll(t) == \E iris \in getAttestation(t) : poll_with(t, iris)

-----------------------------------------------------------------------------
(* deliver(), from one await to the next.                                   *)

usdc6ToStellar7(a) == a * 10

\* What the forwarder pays out for t, in Stellar's decimals.
minted7(t) == Amount[t] * 10

goto(t, where) == pc' = [pc EXCEPT ![t] = where]

\* deliver() returns r: the caller stores it.
return(t, r) == row' = [row EXCEPT ![t] = r] /\ goto(t, "idle")

\* planDelivery, the nonce of the message and its recipient.
planDelivery(t) == row[t].message = t /\ WellBuilt(t)

deliver(t) ==
  /\ pc[t] = "idle" /\ row[t].state = "attested" /\ row[t].attestation
  /\ row[t].message # None
  /\ IF planDelivery(t) THEN goto(t, "check") /\ UNCHANGED row
                        ELSE return(t, transition(row[t], "failed"))
  /\ UNCHANGED <<burn_vars, complete, chain_vars, aborts, lost>>

\* Mutants: a consumed nonce closes the row in vault mode too; it calls for a
\* deposit in direct mode too; `submitting' is stored before the mint.
check_nonce_forgets_deposit(t) ==
  /\ pc[t] = "check"
  /\ IF t \notin used THEN goto(t, "mint") /\ UNCHANGED row
     ELSE return(t, reconcile(row[t], [kind |-> "complete", message |-> None], TRUE))
  /\ UNCHANGED <<burn_vars, complete, chain_vars, aborts, lost>>
check_nonce_always_deposits(t) ==
  /\ pc[t] = "check"
  /\ goto(t, IF t \notin used THEN "mint" ELSE "deposit")
  /\ UNCHANGED <<burn_vars, complete, row, chain_vars, aborts, lost>>
check_nonce_stores_submitting(t) ==
  /\ pc[t] = "check" /\ t \notin used /\ goto(t, "mint")
  /\ row' = [row EXCEPT ![t] = transition(@, "submitting")]
  /\ UNCHANGED <<burn_vars, complete, chain_vars, aborts, lost>>

\* The nonce is asked for once more before the mint is paid for.  When it is
\* consumed already, a vault transfer still owes its deposit.
check_nonce(t) ==
  /\ pc[t] = "check"
  /\ IF t \notin used THEN goto(t, "mint") /\ UNCHANGED row
     ELSE IF mode[t] = "vault" /\ ~row[t].depositTxHash THEN goto(t, "deposit") /\ UNCHANGED row
     ELSE return(t, reconcile(row[t], [kind |-> "complete", message |-> None], TRUE))
  /\ UNCHANGED <<burn_vars, complete, chain_vars, aborts, lost>>

\* What the ledger does with the two calls: the transmitter takes a nonce
\* once, the token refuses to overdraw the relayer.
accepts(kind, t) ==
  IF kind = "mint" THEN t \notin used ELSE balance >= usdc6ToStellar7(Amount[t])

\* submit(): the simulation must succeed, then the transaction is out.
submit(kind, t) ==
  /\ pc[t] = kind /\ accepts(kind, t)
  /\ flying' = flying \cup {[kind |-> kind, transfer |-> t, awaited |-> TRUE]}
  /\ goto(t, IF kind = "mint" THEN "minting" ELSE "depositing")
  /\ UNCHANGED <<burn_vars, complete, row, used, deposits, balance, aborts, lost>>

\* The mint is confirmed: in direct mode the money has arrived.
minted(t) ==
  /\ pc[t] = "minted"
  /\ IF mode[t] = "vault" THEN goto(t, "deposit") /\ UNCHANGED row
     ELSE return(t, transition(transition(row[t], "submitting"), "delivered"))
  /\ UNCHANGED <<burn_vars, complete, chain_vars, aborts, lost>>

\* Mutant: the row does not record the deposit.
deposited_unrecorded(t) ==
  /\ pc[t] = "deposited" /\ return(t, row[t])
  /\ UNCHANGED <<burn_vars, complete, chain_vars, aborts, lost>>

\* The deposit is confirmed: the row records it and is delivered.
deposited(t) ==
  /\ pc[t] = "deposited"
  /\ return(t, transition(transition([row[t] EXCEPT !.depositTxHash = TRUE], "submitting"), "delivered"))
  /\ UNCHANGED <<burn_vars, complete, chain_vars, aborts, lost>>

-----------------------------------------------------------------------------
(* The ledger and the failures.                                             *)

awaits(kind, t) == [kind |-> kind, transfer |-> t, awaited |-> TRUE] \in flying

\* A transaction gets into a ledger.  Every transaction in flight was built
\* on the same sequence number of the relayer's account, so the others die.
land(tx) ==
  LET t == tx.transfer
      ok == accepts(tx.kind, t)
  IN  /\ tx \in flying /\ flying' = {}
      /\ used' = IF ok /\ tx.kind = "mint" THEN used \cup {t} ELSE used
      /\ deposits' = [deposits EXCEPT ![t] = IF ok /\ tx.kind = "deposit" THEN @ + 1 ELSE @]
      /\ balance' = IF ~ok THEN balance
                    ELSE IF tx.kind = "deposit" THEN balance - usdc6ToStellar7(Amount[t])
                    ELSE IF mode[t] = "vault" THEN balance + minted7(t) ELSE balance
      /\ IF ok /\ tx.awaited THEN goto(t, IF tx.kind = "mint" THEN "minted" ELSE "deposited")
                             ELSE UNCHANGED pc
      /\ UNCHANGED <<burn_vars, complete, row, aborts, lost>>

\* A transaction misses its 120-second window.
expire(tx) ==
  /\ tx \in flying /\ flying' = flying \ {tx}
  /\ UNCHANGED <<burn_vars, complete, row, pc, used, deposits, balance, aborts, lost>>

\* Another relayer hands an attested message to the forwarder.
other_relayer(t) ==
  /\ OtherRelayers /\ t \in complete \ used /\ mode[t] # "misbuilt"
  /\ used' = used \cup {t}
  /\ balance' = IF mode[t] = "vault" THEN balance + minted7(t) ELSE balance
  /\ UNCHANGED <<burn_vars, complete, row, pc, flying, deposits, aborts, lost>>

\* The call of deliver() ends without a row; what it sent stays in flight.
give_up(t) ==
  /\ goto(t, "idle")
  /\ flying' = {IF tx.transfer = t THEN [tx EXCEPT !.awaited = FALSE] ELSE tx : tx \in flying}
  /\ lost' = IF pc[t] \in {"depositing", "deposited"} THEN lost \cup {t} ELSE lost
  /\ UNCHANGED <<burn_vars, complete, row, used, deposits, balance>>

\* submit() throws: the simulation or the transaction failed, or never came.
submit_throws(t) ==
  /\ \/ pc[t] \in {"mint", "deposit"} /\ ~accepts(pc[t], t)
     \/ pc[t] = "minting" /\ ~awaits("mint", t)
     \/ pc[t] = "depositing" /\ ~awaits("deposit", t)
  /\ give_up(t) /\ UNCHANGED aborts

\* A crash, or an RPC error while a transaction may still land.
abort(t) ==
  /\ pc[t] # "idle" /\ aborts < MaxAborts
  /\ give_up(t) /\ aborts' = aborts + 1

-----------------------------------------------------------------------------
Init ==
  /\ mode \in [Transfers -> Modes]
  /\ burn_tx \in [Transfers -> BurnTxs]
  /\ complete = {}
  /\ row = [t \in Transfers |-> [state |-> "pending", attestation |-> FALSE,
                                 message |-> None, depositTxHash |-> FALSE]]
  /\ pc = [t \in Transfers |-> "idle"]
  /\ flying = {} /\ used = {}
  /\ deposits = [t \in Transfers |-> 0]
  /\ balance = Float
  /\ aborts = 0 /\ lost = {}

worker(t) == deliver(t) \/ check_nonce(t) \/ submit("mint", t) \/ minted(t)
             \/ submit("deposit", t) \/ deposited(t)
ledger(t) == \E tx \in flying : tx.transfer = t /\ land(tx)

Next ==
  \/ \E tx \in flying : expire(tx)
  \/ \E t \in Transfers : \/ ledger(t) \/ Attest(t) \/ poll(t) \/ worker(t) \/ other_relayer(t)
                          \/ submit_throws(t) \/ abort(t)

\* Iris does attest known burns and does answer; the caller keeps polling
\* pending rows and delivering attested ones; a transfer whose transactions
\* are sent again and again does get one into a ledger.
Answered(t) == \E iris \in getAttestation(t) : iris.kind \in {"complete", "error"} /\ poll_with(t, iris)

Fairness ==
  \A t \in Transfers : /\ SF_vars(ledger(t)) /\ WF_vars(Attest(t)) /\ WF_vars(row[t].state = "pending" /\ Answered(t))
                       /\ WF_vars(worker(t)) /\ WF_vars(submit_throws(t))

Spec == Init /\ [][Next]_vars /\ Fairness

-----------------------------------------------------------------------------
(* Properties.                                                              *)

\* Types.  An illegal edge would show here: transition() throws on it, and
\* neither reconcile() nor deliver() ever takes one.
CctpTypeOK ==
  /\ mode \in [Transfers -> Modes] /\ burn_tx \in [Transfers -> BurnTxs]
  /\ complete \subseteq Transfers /\ used \subseteq Transfers /\ lost \subseteq Transfers
  /\ row \in [Transfers -> Row]
  /\ pc \in [Transfers -> {"idle", "check", "mint", "minting", "minted", "deposit", "depositing", "deposited"}]
  /\ flying \subseteq [kind: {"mint", "deposit"}, transfer: Transfers, awaited: BOOLEAN]
  /\ deposits \in [Transfers -> Nat] /\ balance \in Nat /\ aborts \in Nat

\* A row says delivered only when its nonce is consumed on Stellar, whatever
\* was lost between the mint and the stored row.
DeliveredMeansMinted == \A t \in Transfers : row[t].state = "delivered" => t \in used

\* deliver() never stores `delivered' for a vault transfer whose deposit_from
\* has not landed, however many earlier calls were lost half way.
DeliverClosesTheDebt ==
  [][\A t \in Transfers :
       pc[t] # "idle" /\ row[t].state # "delivered" /\ row'[t].state = "delivered" /\ mode[t] = "vault"
         => deposits[t] >= 1]_vars

\* A second deposit_from for one transfer needs a call that was lost after it
\* had sent the first: the window cctp-executor.ts documents, and no other.
SecondDepositOnlyInWindow == \A t \in Transfers : deposits[t] >= 2 => t \in lost

\* Unless such a call was lost, the relayer never deposits its own money: its
\* balance stays at or above what it brought.
RelayerKeepsItsFloat == lost = {} => balance >= Float

\* No answer of Iris and no failure on our side marks as failed a well built
\* burn that is alone in its burn transaction.
AloneInItsTx(t) == \A u \in Transfers \ {t} : burn_tx[u] # burn_tx[t]
FailedMeansMisbuilt ==
  \A t \in Transfers : row[t].state = "failed" /\ AloneInItsTx(t) => ~WellBuilt(t)

\* Unless a deposit window was lost, every row ends delivered or failed, or
\* waits for the message Iris left out of its answer.
Settles ==
  \A t \in Transfers :
    \/ <>[](row[t].state \in {"delivered", "failed"} \/ (row[t].attestation /\ row[t].message = None))
    \/ <>(lost # {})

\* What the comment on `delivered' says: in vault mode the funds are in the
\* vault.
DeliveredMeansDeposited ==
  \A t \in Transfers : row[t].state = "delivered" /\ mode[t] = "vault" => deposits[t] >= 1

\* What the comment in getAttestation says: one ready message is enough for
\* every burn of the transaction, so none of them is failed for it.
OneReadyMessageIsEnough ==
  \A t \in Transfers : row[t].state = "failed" => ~WellBuilt(t)
=============================================================================
