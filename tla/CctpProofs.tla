------------------------------ MODULE CctpProofs ------------------------------
(* Delivery of burned USDC, for any number of transfers and aborted calls.  *)
(* None of the properties is inductive by itself: what deliver() may store  *)
(* depends on what the row and the chain held when it started (Working,     *)
(* Paid), on which transactions in flight it still waits for (Awaited), and *)
(* the relayer's balance on which mints still owe their deposit (Balanced). *)
EXTENDS CctpDelivery, SumTheorems

\* While deliver() works on a row, the row stays the attested one it read.
Working ==
  \A t \in Transfers :
    pc[t] # "idle" =>
      row[t].state = "attested" /\ row[t].attestation /\ row[t].message = t /\ WellBuilt(t)

\* From the mint on the nonce is consumed; only vault transfers deposit.
Paid ==
  \A t \in Transfers :
    /\ pc[t] \in {"minted", "deposit", "depositing", "deposited"} => t \in used
    /\ pc[t] \in {"deposit", "depositing", "deposited"} => mode[t] = "vault"
    /\ pc[t] = "deposited" \/ row[t].depositTxHash => deposits[t] >= 1

\* A transaction somebody waits for has its waiter.
Awaited ==
  \A tx \in flying :
    tx.awaited => pc[tx.transfer] = IF tx.kind = "mint" THEN "minting" ELSE "depositing"

\* A row's message belongs to its burn transaction.
Sibling ==
  \A t \in Transfers : row[t].message # None => burn_tx[row[t].message] = burn_tx[t]

\* Where no call was lost in the deposit window: one deposit at most, known to
\* deliver() or to the row, and none in flight that nobody waits for.
Once ==
  /\ \A t \in Transfers \ lost :
       deposits[t] >= 1 => deposits[t] = 1 /\ (pc[t] = "deposited" \/ row[t].state = "delivered")
  /\ \A tx \in flying : tx.kind = "deposit" /\ tx.transfer \notin lost => tx.awaited

\* What the relayer got for t and has not deposited yet.
owed(t) == IF mode[t] = "vault" /\ t \in used /\ deposits[t] = 0 THEN minted7(t) ELSE 0
Owed == [t \in Transfers |-> owed(t)]
Balanced == lost = {} => balance = Float + Sum(Owed)

\* The inductive invariant.
CctpInv ==
  /\ CctpTypeOK /\ Working /\ Paid /\ Awaited /\ Sibling /\ Once /\ Balanced
  /\ DeliveredMeansMinted /\ FailedMeansMisbuilt

-----------------------------------------------------------------------------
(* The operators.                                                           *)

\* A legal edge gives the row its new state and nothing else.
LEMMA LegalEdge ==
  ASSUME NEW r \in Row, NEW to \in States,
         \/ r.state = "pending" /\ to \in {"attested", "failed"}
         \/ r.state = "attested" /\ to \in {"submitting", "failed"}
         \/ r.state = "submitting" /\ to = "delivered"
         \/ r.state = "failed" /\ to = "delivered"
         \/ r.state = to
  PROVE  /\ transition(r, to) = [r EXCEPT !.state = to]
         /\ transition(r, to) \in Row
BY DEF transition, LEGAL_TRANSITIONS, Row, States

\* From attested through submitting to delivered.
LEMMA Deliver ==
  ASSUME NEW r \in Row, r.state = "attested"
  PROVE  /\ transition(transition(r, "submitting"), "delivered") = [r EXCEPT !.state = "delivered"]
         /\ transition(transition(r, "submitting"), "delivered") \in Row
<1>1. /\ transition(r, "submitting") = [r EXCEPT !.state = "submitting"]
      /\ transition(r, "submitting") \in Row
  BY LegalEdge DEF States
<1>2. transition(r, "submitting").state = "submitting"
  BY <1>1 DEF Row
<1>3. transition(transition(r, "submitting"), "delivered")
        = [transition(r, "submitting") EXCEPT !.state = "delivered"]
      /\ transition(transition(r, "submitting"), "delivered") \in Row
  BY <1>1, <1>2, LegalEdge DEF States
<1> QED
  BY <1>1, <1>3 DEF Row

\* What reconcile() makes of a row: only a consumed nonce delivers it, only an
\* error fails it, and its message is the one it had or the one Iris sent.
LEMMA ReconcileFacts ==
  ASSUME NEW r \in Row, NEW iris, iris.message \in Transfers \cup {None},
         NEW nonceUsed \in BOOLEAN
  PROVE  /\ reconcile(r, iris, nonceUsed) \in Row
         /\ reconcile(r, iris, nonceUsed).depositTxHash = r.depositTxHash
         /\ reconcile(r, iris, nonceUsed).state = "delivered" => nonceUsed \/ r.state = "delivered"
         /\ reconcile(r, iris, nonceUsed).state = "failed" => iris.kind = "error" \/ r.state = "failed"
         /\ \/ reconcile(r, iris, nonceUsed).message = r.message
            \/ /\ iris.kind = "complete"
               /\ reconcile(r, iris, nonceUsed).message = iris.message
<1> DEFINE kept == IF r.attestation /\ r.state \notin {"pending", "failed"} THEN r ELSE attested_by(r, iris)
<1>1. /\ attested_by(r, iris) \in Row
      /\ attested_by(r, iris).state = r.state
      /\ attested_by(r, iris).depositTxHash = r.depositTxHash
      /\ \/ attested_by(r, iris).message = r.message
         \/ iris.kind = "complete" /\ attested_by(r, iris).message = iris.message
  BY DEF attested_by, Row
<1>2. /\ kept \in Row /\ kept.state = r.state /\ kept.depositTxHash = r.depositTxHash
      /\ \/ kept.message = r.message
         \/ iris.kind = "complete" /\ kept.message = iris.message
  BY <1>1
<1>3. r.state \in States
  BY DEF Row
<1>4. CASE nonceUsed /\ r.state # "delivered"
  <2> DEFINE walk == CASE r.state = "pending"  -> transition(transition(kept, "attested"), "submitting")
                       [] r.state = "attested" -> transition(kept, "submitting")
                       [] OTHER -> kept
  <2>1. walk \in Row /\ walk.state \in {"submitting", "failed"}
        /\ walk.depositTxHash = kept.depositTxHash /\ walk.message = kept.message
    <3> HIDE DEF kept
    <3>1. CASE r.state = "pending"
      <4>1. transition(kept, "attested") = [kept EXCEPT !.state = "attested"]
            /\ transition(kept, "attested") \in Row
        BY <1>2, <3>1, LegalEdge DEF States
      <4>2. transition(kept, "attested").state = "attested"
        BY <1>2, <4>1 DEF Row
      <4>3. transition(transition(kept, "attested"), "submitting")
              = [transition(kept, "attested") EXCEPT !.state = "submitting"]
            /\ transition(transition(kept, "attested"), "submitting") \in Row
        BY <4>1, <4>2, LegalEdge DEF States
      <4> QED
        BY <1>2, <3>1, <4>1, <4>3 DEF Row
    <3>2. CASE r.state = "attested"
      <4>1. transition(kept, "submitting") = [kept EXCEPT !.state = "submitting"]
            /\ transition(kept, "submitting") \in Row
        BY <1>2, <3>2, LegalEdge DEF States
      <4> QED
        BY <1>2, <3>2, <4>1 DEF Row
    <3>3. CASE r.state \in {"submitting", "failed"}
      BY <1>2, <3>3
    <3> QED
      BY <1>3, <1>4, <3>1, <3>2, <3>3 DEF States
  <2>2. reconcile(r, iris, nonceUsed) = transition(walk, "delivered")
    BY <1>4 DEF reconcile
  <2> HIDE DEF walk, kept
  <2>3. /\ transition(walk, "delivered") = [walk EXCEPT !.state = "delivered"]
        /\ transition(walk, "delivered") \in Row
    BY <2>1, LegalEdge DEF States
  <2>4. /\ transition(walk, "delivered").state = "delivered"
        /\ transition(walk, "delivered").depositTxHash = walk.depositTxHash
        /\ transition(walk, "delivered").message = walk.message
    BY <2>1, <2>3 DEF Row
  <2> DEFINE out == reconcile(r, iris, nonceUsed)
  <2>5. /\ out \in Row /\ out.state = "delivered"
        /\ out.depositTxHash = kept.depositTxHash /\ out.message = kept.message
    BY <2>1, <2>2, <2>3, <2>4, Zenon
  <2> HIDE DEF out
  <2>6. /\ out.depositTxHash = r.depositTxHash
        /\ \/ out.message = r.message
           \/ iris.kind = "complete" /\ out.message = iris.message
    BY <1>2, <2>5, Zenon
  <2>7. out.state # "failed" /\ nonceUsed
    BY <1>4, <2>5
  <2> QED
    BY <2>5, <2>6, <2>7, Zenon DEF out
<1>5. CASE ~(nonceUsed /\ r.state # "delivered") /\ r.state # "pending"
  <2>1. reconcile(r, iris, nonceUsed) = r
    BY <1>5 DEF reconcile
  <2> QED
    BY <1>5, <2>1
<1>6. CASE ~nonceUsed /\ r.state = "pending" /\ iris.kind = "complete"
  <2>1. reconcile(r, iris, nonceUsed) = transition(attested_by(r, iris), "attested")
    BY <1>6 DEF reconcile
  <2>2. /\ transition(attested_by(r, iris), "attested") = [attested_by(r, iris) EXCEPT !.state = "attested"]
        /\ transition(attested_by(r, iris), "attested") \in Row
    BY <1>1, <1>6, LegalEdge DEF States
  <2> QED
    BY <1>1, <1>6, <2>1, <2>2 DEF Row
<1>7. CASE ~nonceUsed /\ r.state = "pending" /\ iris.kind = "error"
  <2>1. reconcile(r, iris, nonceUsed) = transition(r, "failed")
    BY <1>7 DEF reconcile
  <2>2. /\ transition(r, "failed") = [r EXCEPT !.state = "failed"]
        /\ transition(r, "failed") \in Row
    BY <1>7, LegalEdge DEF States
  <2> QED
    BY <1>7, <2>1, <2>2 DEF Row
<1>8. CASE ~nonceUsed /\ r.state = "pending" /\ iris.kind \notin {"complete", "error"}
  <2>1. reconcile(r, iris, nonceUsed) = r
    BY <1>8 DEF reconcile
  <2> QED
    BY <1>8, <2>1
<1> QED
  BY <1>4, <1>5, <1>6, <1>7, <1>8

\* An error of Iris is about a burn it does not know; a message it sends is
\* from the same burn transaction.
LEMMA AttestationFacts ==
  ASSUME NEW t \in Transfers, complete \subseteq Transfers, NEW iris \in getAttestation(t)
  PROVE  /\ iris.message \in Transfers \cup {None}
         /\ iris.kind = "error" => mode[t] = "unknown_burn"
         /\ iris.message # None => burn_tx[iris.message] = burn_tx[t]
<1>1. CASE iris \in {[kind |-> irisStatusFromHttp(200, TRUE, FALSE), message |-> m] :
                       m \in IF ready_messages(t) = {} THEN {} ELSE ready_messages(t) \cup {None}}
  <2>1. PICK m \in ready_messages(t) \cup {None} :
          iris = [kind |-> irisStatusFromHttp(200, TRUE, FALSE), message |-> m]
    BY <1>1
  <2>2. irisStatusFromHttp(200, TRUE, FALSE) = "complete"
    BY DEF irisStatusFromHttp
  <2> QED
    BY <2>1, <2>2 DEF ready_messages
<1>2. CASE iris \in {[kind |-> irisStatusFromHttp(http, FALSE, FALSE), message |-> None] :
                       http \in {0, 200, 400, 401, 404, 429, 500}}
  <2>1. PICK http \in {0, 200, 400, 401, 404, 429, 500} :
          iris = [kind |-> irisStatusFromHttp(http, FALSE, FALSE), message |-> None]
    <3> DEFINE codes == {0, 200, 400, 401, 404, 429, 500}
               answer(http) == [kind |-> irisStatusFromHttp(http, FALSE, FALSE), message |-> None]
    <3>1. iris \in {answer(http) : http \in codes}
      BY <1>2
    <3> HIDE DEF codes, answer
    <3>2. \E http \in codes : iris = answer(http)
      BY <3>1
    <3> QED
      BY <3>2 DEF codes, answer
  <2>2. irisStatusFromHttp(http, FALSE, FALSE) \in {"pending", "backoff"}
    BY DEF irisStatusFromHttp
  <2> QED
    BY <2>1, <2>2
<1>3. CASE iris \in {[kind |-> irisStatusFromHttp(400, FALSE, TRUE), message |-> None] :
                       u \in {t} \cap {v \in Transfers : mode[v] = "unknown_burn"}}
  <2>1. PICK u \in {t} \cap {v \in Transfers : mode[v] = "unknown_burn"} :
          iris = [kind |-> irisStatusFromHttp(400, FALSE, TRUE), message |-> None]
    BY <1>3
  <2>2. mode[t] = "unknown_burn" /\ iris.message = None
    BY <2>1
  <2> QED
    BY <2>2
<1>4. \/ iris \in {[kind |-> irisStatusFromHttp(200, TRUE, FALSE), message |-> m] :
                     m \in IF ready_messages(t) = {} THEN {} ELSE ready_messages(t) \cup {None}}
      \/ iris \in {[kind |-> irisStatusFromHttp(http, FALSE, FALSE), message |-> None] :
                     http \in {0, 200, 400, 401, 404, 429, 500}}
      \/ iris \in {[kind |-> irisStatusFromHttp(400, FALSE, TRUE), message |-> None] :
                     u \in {t} \cap {v \in Transfers : mode[v] = "unknown_burn"}}
  BY Zenon DEF getAttestation
<1> QED
  BY <1>1, <1>2, <1>3, <1>4, Zenon

\* The balance is kept as long as no money moves.
LEMMA BalanceFrame ==
  ASSUME Balanced, UNCHANGED <<mode, used, deposits, balance>>, lost \subseteq lost'
  PROVE  Balanced'
<1>1. Owed' = Owed
  BY DEF Owed, owed
<1> QED
  BY <1>1 DEF Balanced

-----------------------------------------------------------------------------
(* One lemma per action.                                                    *)

Pcs == {"idle", "check", "mint", "minting", "minted", "deposit", "depositing", "deposited"}

LEMMA AttestStep ==
  ASSUME CctpInv, NEW t \in Transfers, Attest(t)
  PROVE  CctpInv'
<1> USE DEF Attest, burn_vars, chain_vars
<1>1. CctpTypeOK'
  BY DEF CctpInv, CctpTypeOK
<1>2. Working' /\ Paid' /\ Awaited' /\ Sibling' /\ Once'
  BY DEF CctpInv, Working, Paid, Awaited, Sibling, Once, WellBuilt
<1>3. Balanced'
  BY BalanceFrame DEF CctpInv
<1>4. DeliveredMeansMinted' /\ FailedMeansMisbuilt'
  BY DEF CctpInv, DeliveredMeansMinted, FailedMeansMisbuilt, AloneInItsTx, WellBuilt
<1> QED
  BY <1>1, <1>2, <1>3, <1>4 DEF CctpInv

\* poll() on a row nobody delivers: the answer of Iris and the nonce decide.
LEMMA PollStep ==
  ASSUME CctpInv, NEW t \in Transfers, poll(t)
  PROVE  CctpInv'
<1>1. PICK iris \in getAttestation(t) : poll_with(t, iris)
  BY DEF poll
<1> USE DEF burn_vars, chain_vars
<1> DEFINE new == reconcile(row[t], iris, t \in used)
<1>2. /\ pc[t] = "idle" /\ row[t].state # "delivered"
      /\ row' = [row EXCEPT ![t] = new]
      /\ UNCHANGED <<mode, burn_tx, complete, pc, flying, used, deposits, balance, aborts, lost>>
  BY <1>1 DEF poll_with
<1>3. row \in [Transfers -> Row] /\ complete \subseteq Transfers
  BY DEF CctpInv, CctpTypeOK
<1>4. /\ iris.message \in Transfers \cup {None}
      /\ iris.kind = "error" => mode[t] = "unknown_burn"
      /\ iris.message # None => burn_tx[iris.message] = burn_tx[t]
  BY <1>3, AttestationFacts
<1>5. /\ new \in Row /\ new.depositTxHash = row[t].depositTxHash
      /\ new.state = "delivered" => t \in used
      /\ new.state = "failed" => iris.kind = "error" \/ row[t].state = "failed"
      /\ new.message = row[t].message \/ new.message = iris.message
  <2>1. CASE t \in used
    <3>1. new = reconcile(row[t], iris, TRUE)
      BY <2>1 DEF reconcile
    <3>2. row[t] \in Row /\ TRUE \in BOOLEAN
      BY <1>3
    <3> HIDE DEF new
    <3>3. /\ new \in Row /\ new.depositTxHash = row[t].depositTxHash
          /\ new.state = "delivered" => TRUE \/ row[t].state = "delivered"
          /\ new.state = "failed" => iris.kind = "error" \/ row[t].state = "failed"
          /\ new.message = row[t].message \/ new.message = iris.message
      BY <1>4, <3>1, <3>2, ReconcileFacts
    <3> QED
      BY <1>2, <2>1, <3>3
  <2>2. CASE t \notin used
    <3>1. new = reconcile(row[t], iris, FALSE)
      BY <2>2 DEF reconcile
    <3>2. row[t] \in Row /\ FALSE \in BOOLEAN
      BY <1>3
    <3> HIDE DEF new
    <3>3. /\ new \in Row /\ new.depositTxHash = row[t].depositTxHash
          /\ new.state = "delivered" => FALSE \/ row[t].state = "delivered"
          /\ new.state = "failed" => iris.kind = "error" \/ row[t].state = "failed"
          /\ new.message = row[t].message \/ new.message = iris.message
      BY <1>4, <3>1, <3>2, ReconcileFacts
    <3> QED
      BY <1>2, <2>2, <3>3
  <2> QED
    BY <2>1, <2>2
<1> HIDE DEF new
<1>6. CctpTypeOK'
  BY <1>2, <1>5 DEF CctpInv, CctpTypeOK
<1>7. Working' /\ Paid' /\ Awaited' /\ Sibling' /\ Once'
  <2>1. Working'
    BY <1>2, <1>3 DEF CctpInv, Working, WellBuilt
  <2>2. Paid'
    BY <1>2, <1>3, <1>5 DEF CctpInv, Paid
  <2>3. Awaited'
    BY <1>2 DEF CctpInv, Awaited
  <2>4. Sibling'
    BY <1>2, <1>3, <1>4, <1>5 DEF CctpInv, Sibling
  <2>5. Once'
    BY <1>2, <1>3 DEF CctpInv, Once
  <2> QED
    BY <2>1, <2>2, <2>3, <2>4, <2>5
<1>8. Balanced'
  BY <1>2, BalanceFrame DEF CctpInv
<1>9. DeliveredMeansMinted'
  BY <1>2, <1>3, <1>5 DEF CctpInv, DeliveredMeansMinted
<1>10. FailedMeansMisbuilt'
  BY <1>2, <1>3, <1>4, <1>5 DEF CctpInv, FailedMeansMisbuilt, AloneInItsTx, WellBuilt
<1> QED
  BY <1>6, <1>7, <1>8, <1>9, <1>10 DEF CctpInv

\* deliver() starts, or fails a row whose message is not its own or misbuilt.
LEMMA DeliverStep ==
  ASSUME CctpInv, NEW t \in Transfers, deliver(t)
  PROVE  CctpInv'
<1> USE DEF burn_vars, chain_vars
<1>1. /\ pc[t] = "idle" /\ row[t].state = "attested" /\ row[t].attestation /\ row[t].message # None
      /\ UNCHANGED <<mode, burn_tx, complete, flying, used, deposits, balance, aborts, lost>>
  BY DEF deliver
<1>2. row \in [Transfers -> Row] /\ pc \in [Transfers -> Pcs]
  BY DEF CctpInv, CctpTypeOK, Pcs
<1>3. CASE planDelivery(t)
  <2>1. pc' = [pc EXCEPT ![t] = "check"] /\ row' = row
    BY <1>3 DEF deliver, goto
  <2>2. CctpTypeOK'
    BY <1>1, <2>1 DEF CctpInv, CctpTypeOK
  <2>3. Working'
    BY <1>1, <1>2, <1>3, <2>1 DEF CctpInv, Working, WellBuilt, planDelivery
  <2>4. Paid'
    BY <1>1, <1>2, <2>1 DEF CctpInv, Paid
  <2>5. Awaited'
    BY <1>1, <1>2, <2>1 DEF CctpInv, Awaited, CctpTypeOK
  <2>6. Sibling' /\ Once'
    BY <1>1, <1>2, <2>1 DEF CctpInv, Sibling, Once
  <2>7. Balanced'
    BY <1>1, BalanceFrame DEF CctpInv
  <2>8. DeliveredMeansMinted' /\ FailedMeansMisbuilt'
    BY <1>1, <2>1 DEF CctpInv, DeliveredMeansMinted, FailedMeansMisbuilt, AloneInItsTx, WellBuilt
  <2> QED
    BY <2>2, <2>3, <2>4, <2>5, <2>6, <2>7, <2>8 DEF CctpInv
<1>4. CASE ~planDelivery(t)
  <2>1. row' = [row EXCEPT ![t] = transition(row[t], "failed")] /\ pc' = [pc EXCEPT ![t] = "idle"]
    BY <1>4 DEF deliver, return, goto
  <2>2. /\ transition(row[t], "failed") = [row[t] EXCEPT !.state = "failed"]
        /\ transition(row[t], "failed") \in Row
    BY <1>1, <1>2, LegalEdge DEF States
  <2>3. pc' = pc
    BY <1>1, <1>2, <2>1
  <2>4. CctpTypeOK'
    BY <1>1, <2>1, <2>2, <2>3 DEF CctpInv, CctpTypeOK
  <2>5. /\ row'[t].state = "failed" /\ row'[t].message = row[t].message
        /\ row'[t].depositTxHash = row[t].depositTxHash
        /\ \A u \in Transfers : u # t => row'[u] = row[u]
    BY <1>2, <2>1, <2>2 DEF Row
  <2>6. Working' /\ Paid' /\ Awaited' /\ Sibling' /\ Once'
    BY <1>1, <2>3, <2>5 DEF CctpInv, Working, WellBuilt, Paid, Awaited, Sibling, Once
  <2>7. Balanced'
    BY <1>1, BalanceFrame DEF CctpInv
  <2>8. DeliveredMeansMinted'
    BY <1>1, <2>5 DEF CctpInv, DeliveredMeansMinted
  <2>9. AloneInItsTx(t) => row[t].message = t
    BY <1>1, <1>2 DEF CctpInv, Sibling, AloneInItsTx, Row
  <2>10. FailedMeansMisbuilt'
    BY <1>1, <1>4, <2>5, <2>9 DEF CctpInv, FailedMeansMisbuilt, AloneInItsTx, WellBuilt, planDelivery
  <2> QED
    BY <2>4, <2>6, <2>7, <2>8, <2>10 DEF CctpInv
<1> QED
  BY <1>3, <1>4

\* deliver() returns a row that differs in its state, now delivered, and in
\* depositTxHash: what the three places that do so have in common.
LEMMA ReturnDelivered ==
  ASSUME CctpInv, NEW t \in Transfers, NEW r \in Row,
         r.state = "delivered", r.message = row[t].message,
         r.depositTxHash => deposits[t] >= 1,
         pc[t] # "idle", t \in used, return(t, r),
         \A tx \in flying : ~(tx.awaited /\ tx.transfer = t),
         UNCHANGED <<burn_vars, complete, chain_vars, aborts, lost>>
  PROVE  CctpInv'
<1> USE DEF burn_vars, chain_vars
<1>1. /\ row' = [row EXCEPT ![t] = r] /\ pc' = [pc EXCEPT ![t] = "idle"]
      /\ UNCHANGED <<mode, burn_tx, complete, flying, used, deposits, balance, aborts, lost>>
  BY DEF return, goto
<1>2. row \in [Transfers -> Row] /\ pc \in [Transfers -> Pcs]
  BY DEF CctpInv, CctpTypeOK, Pcs
<1>3. CctpTypeOK'
  BY <1>1 DEF CctpInv, CctpTypeOK
<1>4. Working' /\ Paid'
  BY <1>1, <1>2 DEF CctpInv, Working, Paid, WellBuilt
<1>5. Awaited'
  BY <1>1, <1>2 DEF CctpInv, Awaited, CctpTypeOK
<1>6. Sibling'
  BY <1>1, <1>2 DEF CctpInv, Sibling
<1>7. Once'
  BY <1>1, <1>2 DEF CctpInv, Once
<1>8. Balanced'
  BY <1>1, BalanceFrame DEF CctpInv
<1>9. DeliveredMeansMinted' /\ FailedMeansMisbuilt'
  BY <1>1, <1>2 DEF CctpInv, DeliveredMeansMinted, FailedMeansMisbuilt, AloneInItsTx, WellBuilt
<1> QED
  BY <1>3, <1>4, <1>5, <1>6, <1>7, <1>8, <1>9 DEF CctpInv

\* deliver() moves on without a transaction: the row stays as it is.
LEMMA MoveOn ==
  ASSUME CctpInv, NEW t \in Transfers, NEW where \in {"mint", "deposit"},
         pc[t] \in {"check", "minted"}, goto(t, where),
         where = "deposit" => t \in used /\ mode[t] = "vault",
         UNCHANGED <<burn_vars, complete, row, chain_vars, aborts, lost>>
  PROVE  CctpInv'
<1> USE DEF burn_vars, chain_vars
<1>1. /\ pc' = [pc EXCEPT ![t] = where]
      /\ UNCHANGED <<mode, burn_tx, complete, row, flying, used, deposits, balance, aborts, lost>>
  BY DEF goto
<1>2. row \in [Transfers -> Row] /\ pc \in [Transfers -> Pcs]
  BY DEF CctpInv, CctpTypeOK, Pcs
<1>3. CctpTypeOK'
  BY <1>1 DEF CctpInv, CctpTypeOK
<1>4. Working' /\ Paid'
  BY <1>1, <1>2 DEF CctpInv, Working, Paid, WellBuilt
<1>5. Awaited'
  BY <1>1, <1>2 DEF CctpInv, Awaited, CctpTypeOK
<1>6. Sibling' /\ Once'
  BY <1>1, <1>2 DEF CctpInv, Sibling, Once
<1>7. Balanced'
  BY <1>1, BalanceFrame DEF CctpInv
<1>8. DeliveredMeansMinted' /\ FailedMeansMisbuilt'
  BY <1>1, <1>2 DEF CctpInv, DeliveredMeansMinted, FailedMeansMisbuilt, AloneInItsTx, WellBuilt
<1> QED
  BY <1>3, <1>4, <1>5, <1>6, <1>7, <1>8 DEF CctpInv

LEMMA CheckNonceStep ==
  ASSUME CctpInv, NEW t \in Transfers, check_nonce(t)
  PROVE  CctpInv'
<1>1. pc[t] = "check" /\ UNCHANGED <<burn_vars, complete, chain_vars, aborts, lost>>
  BY DEF check_nonce
<1>2. row \in [Transfers -> Row]
  BY DEF CctpInv, CctpTypeOK
<1>3. CASE t \notin used
  BY <1>1, <1>3, MoveOn DEF check_nonce
<1>4. CASE t \in used /\ mode[t] = "vault" /\ ~row[t].depositTxHash
  BY <1>1, <1>4, MoveOn DEF check_nonce
<1>5. CASE t \in used /\ ~(mode[t] = "vault" /\ ~row[t].depositTxHash)
  <2> DEFINE r == reconcile(row[t], [kind |-> "complete", message |-> None], TRUE)
  <2>1. row[t].state = "attested" /\ row[t].attestation
    BY <1>1 DEF CctpInv, Working
  <2>2. r = transition(transition(row[t], "submitting"), "delivered")
    BY <2>1 DEF reconcile
  <2>3. r = [row[t] EXCEPT !.state = "delivered"] /\ r \in Row
    BY <1>2, <2>1, <2>2, Deliver
  <2>4. r.state = "delivered" /\ r.message = row[t].message /\ r.depositTxHash = row[t].depositTxHash
    BY <1>2, <2>3 DEF Row
  <2>5. row[t].depositTxHash => deposits[t] >= 1
    BY DEF CctpInv, Paid
  <2>6. \A tx \in flying : ~(tx.awaited /\ tx.transfer = t)
    BY <1>1 DEF CctpInv, Awaited
  <2>7. return(t, r)
    BY <1>5 DEF check_nonce
  <2> HIDE DEF r
  <2> QED
    BY <1>1, <1>5, <2>3, <2>4, <2>5, <2>6, <2>7, ReturnDelivered
<1> QED
  BY <1>3, <1>4, <1>5

LEMMA MintedStep ==
  ASSUME CctpInv, NEW t \in Transfers, minted(t)
  PROVE  CctpInv'
<1>1. pc[t] = "minted" /\ UNCHANGED <<burn_vars, complete, chain_vars, aborts, lost>>
  BY DEF minted
<1>2. row \in [Transfers -> Row] /\ t \in used
  BY <1>1 DEF CctpInv, CctpTypeOK, Paid
<1>3. CASE mode[t] = "vault"
  BY <1>1, <1>2, <1>3, MoveOn DEF minted
<1>4. CASE mode[t] # "vault"
  <2> DEFINE r == transition(transition(row[t], "submitting"), "delivered")
  <2>1. row[t].state = "attested"
    BY <1>1 DEF CctpInv, Working
  <2>2. r = [row[t] EXCEPT !.state = "delivered"] /\ r \in Row
    BY <1>2, <2>1, Deliver
  <2>3. r.state = "delivered" /\ r.message = row[t].message /\ r.depositTxHash = row[t].depositTxHash
    BY <1>2, <2>2 DEF Row
  <2>4. row[t].depositTxHash => deposits[t] >= 1
    BY DEF CctpInv, Paid
  <2>5. \A tx \in flying : ~(tx.awaited /\ tx.transfer = t)
    BY <1>1 DEF CctpInv, Awaited
  <2>6. return(t, r)
    BY <1>4 DEF minted
  <2> HIDE DEF r
  <2> QED
    BY <1>1, <1>2, <2>2, <2>3, <2>4, <2>5, <2>6, ReturnDelivered
<1> QED
  BY <1>3, <1>4

LEMMA DepositedStep ==
  ASSUME CctpInv, NEW t \in Transfers, deposited(t)
  PROVE  CctpInv'
<1>1. pc[t] = "deposited" /\ UNCHANGED <<burn_vars, complete, chain_vars, aborts, lost>>
  BY DEF deposited
<1>2. row \in [Transfers -> Row] /\ t \in used /\ deposits[t] >= 1
  BY <1>1 DEF CctpInv, CctpTypeOK, Paid
<1> DEFINE noted == [row[t] EXCEPT !.depositTxHash = TRUE]
           r == transition(transition(noted, "submitting"), "delivered")
<1>3. row[t].state = "attested"
  BY <1>1 DEF CctpInv, Working
<1>4. noted \in Row /\ noted.state = "attested" /\ noted.message = row[t].message
  BY <1>2, <1>3 DEF Row
<1>5. return(t, r)
  BY DEF deposited
<1> HIDE DEF noted
<1>6. r = [noted EXCEPT !.state = "delivered"] /\ r \in Row
  BY <1>4, Deliver
<1>7. r.state = "delivered" /\ r.message = row[t].message
  BY <1>4, <1>6 DEF Row
<1>8. \A tx \in flying : ~(tx.awaited /\ tx.transfer = t)
  BY <1>1 DEF CctpInv, Awaited
<1> HIDE DEF r
<1> QED
  BY <1>1, <1>2, <1>5, <1>6, <1>7, <1>8, ReturnDelivered

\* A transaction is out, and deliver() waits for it.
LEMMA SubmitStep ==
  ASSUME CctpInv, NEW t \in Transfers, NEW kind \in {"mint", "deposit"}, submit(kind, t)
  PROVE  CctpInv'
<1> USE DEF burn_vars
<1> DEFINE tx == [kind |-> kind, transfer |-> t, awaited |-> TRUE]
           wait == IF kind = "mint" THEN "minting" ELSE "depositing"
<1>1. /\ pc[t] = kind /\ flying' = flying \cup {tx} /\ pc' = [pc EXCEPT ![t] = wait]
      /\ UNCHANGED <<mode, burn_tx, complete, row, used, deposits, balance, aborts, lost>>
  BY DEF submit, goto
<1>2. row \in [Transfers -> Row] /\ pc \in [Transfers -> Pcs]
  BY DEF CctpInv, CctpTypeOK, Pcs
<1>3. CctpTypeOK'
  <2>1. tx \in [kind: {"mint", "deposit"}, transfer: Transfers, awaited: BOOLEAN]
        /\ wait \in {"minting", "depositing"}
    OBVIOUS
  <2> HIDE DEF tx, wait
  <2> QED
    BY <1>1, <2>1 DEF CctpInv, CctpTypeOK
<1>4. Working' /\ Paid'
  BY <1>1, <1>2 DEF CctpInv, Working, Paid, WellBuilt
<1>5. Awaited'
  BY <1>1, <1>2 DEF CctpInv, Awaited, CctpTypeOK
<1>6. Sibling' /\ Once'
  BY <1>1, <1>2 DEF CctpInv, Sibling, Once
<1>7. Balanced'
  BY <1>1, BalanceFrame DEF CctpInv
<1>8. DeliveredMeansMinted' /\ FailedMeansMisbuilt'
  BY <1>1, <1>2 DEF CctpInv, DeliveredMeansMinted, FailedMeansMisbuilt, AloneInItsTx, WellBuilt
<1> QED
  BY <1>3, <1>4, <1>5, <1>6, <1>7, <1>8 DEF CctpInv

LEMMA ExpireStep ==
  ASSUME CctpInv, NEW tx \in flying, expire(tx)
  PROVE  CctpInv'
<1> USE DEF burn_vars
<1>1. /\ flying' = flying \ {tx}
      /\ UNCHANGED <<mode, burn_tx, complete, row, pc, used, deposits, balance, aborts, lost>>
  BY DEF expire
<1>2. CctpTypeOK'
  BY <1>1 DEF CctpInv, CctpTypeOK
<1>3. Working' /\ Paid' /\ Awaited' /\ Sibling' /\ Once'
  BY <1>1 DEF CctpInv, Working, Paid, Awaited, Sibling, Once, WellBuilt
<1>4. Balanced'
  BY <1>1, BalanceFrame DEF CctpInv
<1>5. DeliveredMeansMinted' /\ FailedMeansMisbuilt'
  BY <1>1 DEF CctpInv, DeliveredMeansMinted, FailedMeansMisbuilt, AloneInItsTx, WellBuilt
<1> QED
  BY <1>2, <1>3, <1>4, <1>5 DEF CctpInv

\* The call of deliver() is lost: in the deposit window that is remembered.
LEMMA GiveUpStep ==
  ASSUME CctpInv, NEW t \in Transfers, pc[t] # "idle", give_up(t), aborts' \in Nat
  PROVE  CctpInv'
<1> USE DEF burn_vars
<1> DEFINE left(tx) == IF tx.transfer = t THEN [tx EXCEPT !.awaited = FALSE] ELSE tx
<1>1. /\ flying' = {left(tx) : tx \in flying} /\ pc' = [pc EXCEPT ![t] = "idle"]
      /\ lost' = IF pc[t] \in {"depositing", "deposited"} THEN lost \cup {t} ELSE lost
      /\ UNCHANGED <<mode, burn_tx, complete, row, used, deposits, balance>>
  BY DEF give_up, goto
<1>2. row \in [Transfers -> Row] /\ pc \in [Transfers -> Pcs]
  BY DEF CctpInv, CctpTypeOK, Pcs
<1>3. \A tx \in flying : /\ left(tx) \in [kind: {"mint", "deposit"}, transfer: Transfers, awaited: BOOLEAN]
                         /\ left(tx).kind = tx.kind /\ left(tx).transfer = tx.transfer
                         /\ left(tx).awaited => tx.awaited /\ tx.transfer # t
                         /\ tx.transfer # t => left(tx) = tx
  BY DEF CctpInv, CctpTypeOK
<1> HIDE DEF left
<1>4. CctpTypeOK'
  BY <1>1, <1>3 DEF CctpInv, CctpTypeOK
<1>5. Working' /\ Paid'
  BY <1>1, <1>2 DEF CctpInv, Working, Paid, WellBuilt
<1>6. Awaited'
  <2> SUFFICES ASSUME NEW tx \in flying, left(tx).awaited
               PROVE  pc'[left(tx).transfer] = IF left(tx).kind = "mint" THEN "minting" ELSE "depositing"
    BY <1>1 DEF Awaited
  <2> QED
    BY <1>1, <1>2, <1>3 DEF CctpInv, Awaited
<1>7. Sibling'
  BY <1>1 DEF CctpInv, Sibling
<1>8. Once'
  <2>1. row[t].state = "attested"
    BY DEF CctpInv, Working
  <2>2. ASSUME NEW u \in Transfers \ lost', deposits'[u] >= 1
        PROVE  deposits'[u] = 1 /\ (pc'[u] = "deposited" \/ row'[u].state = "delivered")
    BY <1>1, <1>2, <2>1, <2>2 DEF CctpInv, Once
  <2>3. ASSUME NEW tx \in flying, left(tx).kind = "deposit", left(tx).transfer \notin lost'
        PROVE  left(tx).awaited
    <3>1. tx.awaited
      BY <1>1, <1>3, <2>3 DEF CctpInv, Once
    <3>2. pc[tx.transfer] = "depositing"
      BY <1>3, <2>3, <3>1 DEF CctpInv, Awaited
    <3>3. tx.transfer # t
      BY <1>1, <1>3, <2>3, <3>2
    <3> QED
      BY <1>3, <3>1, <3>3
  <2> QED
    BY <1>1, <2>2, <2>3 DEF Once
<1>9. Balanced'
  BY <1>1, BalanceFrame DEF CctpInv
<1>10. DeliveredMeansMinted' /\ FailedMeansMisbuilt'
  BY <1>1 DEF CctpInv, DeliveredMeansMinted, FailedMeansMisbuilt, AloneInItsTx, WellBuilt
<1> QED
  BY <1>4, <1>5, <1>6, <1>7, <1>8, <1>9, <1>10 DEF CctpInv

\* Money of transfer t comes in or goes out: the balance follows what is owed.
LEMMA BalanceMoves ==
  ASSUME CctpTypeOK, CctpTypeOK', Balanced, NEW t \in Transfers,
         UNCHANGED <<mode, lost>>,
         \A u \in Transfers \ {t} : (u \in used' <=> u \in used) /\ deposits'[u] = deposits[u],
         lost = {} => balance' = balance - owed(t) + owed(t)'
  PROVE  Balanced'
<1>1. \A u \in Transfers : minted7(u) \in Nat
  BY CctpAssumption DEF minted7
<1>2. \A u \in Transfers : owed(u) \in Nat /\ owed(u)' \in Nat
  BY <1>1 DEF owed, minted7
<1>3. Owed \in [Transfers -> Nat] /\ Owed' \in [Transfers -> Nat]
  BY <1>2 DEF Owed
<1>4. \A u \in Transfers \ {t} : Owed'[u] = Owed[u]
  BY DEF Owed, owed, minted7
<1>5. IsFiniteSet(Transfers)
  BY CctpAssumption
<1>6. Sum(Owed') = Sum(Owed) - Owed[t] + Owed'[t]
  BY <1>3, <1>4, <1>5, SumUpdate
<1>7. Sum(Owed) \in Nat /\ Sum(Owed') \in Nat
  BY <1>3, <1>5, SumType
<1>8. Owed[t] = owed(t) /\ Owed'[t] = owed(t)'
  BY DEF Owed
<1>9. Float \in Nat
  BY CctpAssumption
<1> QED
  BY <1>2, <1>6, <1>7, <1>8, <1>9 DEF Balanced, Sum

LEMMA LandStep ==
  ASSUME CctpInv, NEW tx \in flying, land(tx)
  PROVE  CctpInv'
<1> USE DEF burn_vars
<1> DEFINE t == tx.transfer
<1>1. t \in Transfers /\ tx.kind \in {"mint", "deposit"} /\ tx.awaited \in BOOLEAN
  BY DEF CctpInv, CctpTypeOK
<1>2. /\ row \in [Transfers -> Row] /\ pc \in [Transfers -> Pcs]
      /\ deposits \in [Transfers -> Nat] /\ balance \in Nat
      /\ used \subseteq Transfers /\ lost \subseteq Transfers
      /\ Amount[t] \in Nat /\ minted7(t) \in Nat /\ usdc6ToStellar7(Amount[t]) = minted7(t)
  BY <1>1, CctpAssumption DEF CctpInv, CctpTypeOK, Pcs, minted7, usdc6ToStellar7
<1>3. UNCHANGED <<mode, burn_tx, complete, row, aborts, lost>> /\ flying' = {}
  BY DEF land
<1> HIDE DEF t
<1>4. CASE ~accepts(tx.kind, t)
  <2>1. used' = used /\ balance' = balance /\ pc' = pc
    BY <1>4 DEF land, t
  <2>2. deposits' = deposits
    BY <1>2, <1>4 DEF land, t
  <2>3. CctpTypeOK'
    BY <1>3, <2>1, <2>2 DEF CctpInv, CctpTypeOK
  <2>4. Working' /\ Paid' /\ Awaited' /\ Sibling' /\ Once'
    BY <1>3, <2>1, <2>2 DEF CctpInv, Working, Paid, Awaited, Sibling, Once, WellBuilt
  <2>5. Balanced'
    BY <1>3, <2>1, <2>2, BalanceFrame DEF CctpInv
  <2>6. DeliveredMeansMinted' /\ FailedMeansMisbuilt'
    BY <1>3, <2>1 DEF CctpInv, DeliveredMeansMinted, FailedMeansMisbuilt, AloneInItsTx, WellBuilt
  <2> QED
    BY <2>3, <2>4, <2>5, <2>6 DEF CctpInv
<1>5. CASE accepts(tx.kind, t) /\ tx.kind = "mint"
  <2>1. /\ t \notin used /\ used' = used \cup {t}
        /\ balance' = IF mode[t] = "vault" THEN balance + minted7(t) ELSE balance
        /\ pc' = IF tx.awaited THEN [pc EXCEPT ![t] = "minted"] ELSE pc
    BY <1>5 DEF land, t, accepts, goto
  <2>2. deposits' = deposits
    BY <1>2, <1>5 DEF land, t
  <2>3. tx.awaited => pc[t] = "minting"
    BY <1>5 DEF CctpInv, Awaited, t
  <2>4. CctpTypeOK'
    <3>1. balance' \in Nat
      BY <1>2, <2>1
    <3> QED
      BY <1>1, <1>3, <2>1, <2>2, <3>1 DEF CctpInv, CctpTypeOK
  <2>5. Working'
    BY <1>1, <1>2, <1>3, <2>1, <2>3 DEF CctpInv, Working, WellBuilt
  <2>6. Paid'
    BY <1>1, <1>2, <1>3, <2>1, <2>2, <2>3 DEF CctpInv, Paid
  <2>7. Awaited' /\ Sibling' /\ Once'
    BY <1>1, <1>2, <1>3, <2>1, <2>2, <2>3 DEF CctpInv, Awaited, Sibling, Once
  <2>8. Balanced'
    <3>1. deposits[t] = 0 \/ lost # {}
      <4>1. ASSUME deposits[t] >= 1, lost = {} PROVE FALSE
        <5>1. pc[t] = "deposited" \/ row[t].state = "delivered"
          BY <1>1, <4>1 DEF CctpInv, Once
        <5> QED
          BY <1>1, <2>1, <5>1 DEF CctpInv, Paid, DeliveredMeansMinted
      <4> QED
        BY <1>1, <1>2, <4>1
    <3>2. owed(t) = 0
      BY <2>1 DEF owed
    <3>3. lost = {} => owed(t)' = IF mode[t] = "vault" THEN minted7(t) ELSE 0
      BY <1>3, <2>1, <2>2, <3>1 DEF owed, minted7
    <3>4. lost = {} => balance' = balance - owed(t) + owed(t)'
      BY <1>2, <2>1, <3>2, <3>3
    <3> QED
      BY <1>1, <1>3, <2>1, <2>2, <2>4, <3>4, BalanceMoves DEF CctpInv
  <2>9. DeliveredMeansMinted' /\ FailedMeansMisbuilt'
    BY <1>3, <2>1 DEF CctpInv, DeliveredMeansMinted, FailedMeansMisbuilt, AloneInItsTx, WellBuilt
  <2> QED
    BY <2>4, <2>5, <2>6, <2>7, <2>8, <2>9 DEF CctpInv
<1>6. CASE accepts(tx.kind, t) /\ tx.kind = "deposit"
  <2>1. /\ balance >= minted7(t) /\ used' = used
        /\ balance' = balance - minted7(t)
        /\ pc' = IF tx.awaited THEN [pc EXCEPT ![t] = "deposited"] ELSE pc
        /\ deposits' = [deposits EXCEPT ![t] = deposits[t] + 1]
    BY <1>2, <1>6 DEF land, t, accepts, goto
  <2>2. tx.awaited => /\ pc[t] = "depositing" /\ t \in used /\ mode[t] = "vault"
                      /\ row[t].state = "attested"
    BY <1>1, <1>6 DEF CctpInv, Awaited, Paid, Working, t
  <2>3. t \notin lost => tx.awaited /\ deposits[t] = 0
    <3>1. ASSUME t \notin lost PROVE tx.awaited
      BY <1>6, <3>1 DEF CctpInv, Once, t
    <3>2. ASSUME t \notin lost PROVE ~(deposits[t] >= 1)
      BY <1>1, <2>2, <3>1, <3>2 DEF CctpInv, Once
    <3> QED
      BY <1>1, <1>2, <3>1, <3>2
  <2>4. CctpTypeOK'
    <3>1. balance' \in Nat
      BY <1>2, <2>1
    <3> QED
      BY <1>1, <1>2, <1>3, <2>1, <3>1 DEF CctpInv, CctpTypeOK
  <2>5. Working'
    BY <1>1, <1>2, <1>3, <2>1, <2>2 DEF CctpInv, Working, WellBuilt
  <2>6. Paid'
    BY <1>1, <1>2, <1>3, <2>1, <2>2 DEF CctpInv, Paid
  <2>7. Awaited' /\ Sibling'
    BY <1>1, <1>2, <1>3, <2>1 DEF CctpInv, Awaited, Sibling
  <2>8. Once'
    BY <1>1, <1>2, <1>3, <2>1, <2>3 DEF CctpInv, Once
  <2>9. Balanced'
    <3>1. lost = {} => owed(t) = minted7(t)
      BY <2>2, <2>3 DEF owed
    <3>2. owed(t)' = 0
      BY <1>1, <1>2, <2>1 DEF owed
    <3>3. lost = {} => balance' = balance - owed(t) + owed(t)'
      BY <1>2, <2>1, <3>1, <3>2
    <3>4. \A u \in Transfers \ {t} : deposits'[u] = deposits[u]
      BY <1>2, <2>1
    <3> QED
      BY <1>1, <1>3, <2>1, <2>4, <3>3, <3>4, BalanceMoves DEF CctpInv
  <2>10. DeliveredMeansMinted' /\ FailedMeansMisbuilt'
    BY <1>3, <2>1 DEF CctpInv, DeliveredMeansMinted, FailedMeansMisbuilt, AloneInItsTx, WellBuilt
  <2> QED
    BY <2>4, <2>5, <2>6, <2>7, <2>8, <2>9, <2>10 DEF CctpInv
<1> QED
  BY <1>1, <1>4, <1>5, <1>6

LEMMA OtherRelayerStep ==
  ASSUME CctpInv, NEW t \in Transfers, other_relayer(t)
  PROVE  CctpInv'
<1> USE DEF burn_vars
<1>1. /\ t \notin used /\ used' = used \cup {t}
      /\ balance' = IF mode[t] = "vault" THEN balance + minted7(t) ELSE balance
      /\ UNCHANGED <<mode, burn_tx, complete, row, pc, flying, deposits, aborts, lost>>
  BY DEF other_relayer
<1>2. /\ row \in [Transfers -> Row] /\ deposits \in [Transfers -> Nat] /\ balance \in Nat
      /\ minted7(t) \in Nat
  BY CctpAssumption DEF CctpInv, CctpTypeOK, minted7
<1>3. CctpTypeOK'
  <2>1. balance' \in Nat
    BY <1>1, <1>2
  <2> QED
    BY <1>1, <2>1 DEF CctpInv, CctpTypeOK
<1>4. Working' /\ Paid' /\ Awaited' /\ Sibling' /\ Once'
  BY <1>1 DEF CctpInv, Working, Paid, Awaited, Sibling, Once, WellBuilt
<1>5. Balanced'
  <2>1. deposits[t] = 0 \/ lost # {}
    <3>1. ASSUME deposits[t] >= 1, lost = {} PROVE FALSE
      <4>1. pc[t] = "deposited" \/ row[t].state = "delivered"
        BY <3>1 DEF CctpInv, Once
      <4> QED
        BY <1>1, <4>1 DEF CctpInv, Paid, DeliveredMeansMinted
    <3> QED
      BY <1>2, <3>1
  <2>2. owed(t) = 0
    BY <1>1 DEF owed
  <2>3. lost = {} => owed(t)' = IF mode[t] = "vault" THEN minted7(t) ELSE 0
    BY <1>1, <2>1 DEF owed, minted7
  <2>4. lost = {} => balance' = balance - owed(t) + owed(t)'
    BY <1>1, <1>2, <2>2, <2>3
  <2> QED
    BY <1>1, <1>3, <2>4, BalanceMoves DEF CctpInv
<1>6. DeliveredMeansMinted' /\ FailedMeansMisbuilt'
  BY <1>1 DEF CctpInv, DeliveredMeansMinted, FailedMeansMisbuilt, AloneInItsTx, WellBuilt
<1> QED
  BY <1>3, <1>4, <1>5, <1>6 DEF CctpInv

-----------------------------------------------------------------------------
(* The theorems.                                                            *)

LEMMA CctpInvInit == Init => CctpInv
<1> SUFFICES ASSUME Init PROVE CctpInv
  OBVIOUS
<1>1. CctpTypeOK
  BY CctpAssumption DEF Init, CctpTypeOK, Row, States
<1>2. Working /\ Paid /\ Awaited /\ Sibling /\ Once
  BY DEF Init, Working, Paid, Awaited, Sibling, Once
<1>3. Balanced
  <2>1. Owed = [t \in Transfers |-> 0]
    BY DEF Init, Owed, owed
  <2>2. Sum(Owed) = 0
    BY <2>1, SumZero
  <2> QED
    BY <2>2, CctpAssumption DEF Init, Balanced
<1>4. DeliveredMeansMinted /\ FailedMeansMisbuilt
  BY DEF Init, DeliveredMeansMinted, FailedMeansMisbuilt
<1> QED
  BY <1>1, <1>2, <1>3, <1>4 DEF CctpInv

LEMMA CctpInvStep == CctpInv /\ [Next]_vars => CctpInv'
<1> SUFFICES ASSUME CctpInv, [Next]_vars PROVE CctpInv'
  OBVIOUS
<1>1. CASE \E tx \in flying : expire(tx)
  BY <1>1, ExpireStep
<1>2. ASSUME NEW t \in Transfers, ledger(t) PROVE CctpInv'
  BY <1>2, LandStep DEF ledger
<1>3. ASSUME NEW t \in Transfers, Attest(t) \/ poll(t) \/ other_relayer(t) PROVE CctpInv'
  BY <1>3, AttestStep, PollStep, OtherRelayerStep
<1>4. ASSUME NEW t \in Transfers, worker(t) PROVE CctpInv'
  BY <1>4, DeliverStep, CheckNonceStep, SubmitStep, MintedStep, DepositedStep DEF worker
<1>5. ASSUME NEW t \in Transfers, submit_throws(t) \/ abort(t) PROVE CctpInv'
  <2>1. pc[t] # "idle" /\ give_up(t)
    BY <1>5 DEF submit_throws, abort
  <2>2. aborts' \in Nat
    BY <1>5 DEF submit_throws, abort, CctpInv, CctpTypeOK
  <2> QED
    BY <2>1, <2>2, GiveUpStep
<1>6. CASE UNCHANGED vars
  <2> USE <1>6 DEF vars
  <2>1. CctpTypeOK' /\ Working' /\ Paid' /\ Awaited' /\ Sibling' /\ Once'
    BY DEF CctpInv, CctpTypeOK, Working, Paid, Awaited, Sibling, Once, WellBuilt
  <2>2. Balanced'
    BY BalanceFrame DEF CctpInv
  <2>3. DeliveredMeansMinted' /\ FailedMeansMisbuilt'
    BY DEF CctpInv, DeliveredMeansMinted, FailedMeansMisbuilt, AloneInItsTx, WellBuilt
  <2> QED
    BY <2>1, <2>2, <2>3 DEF CctpInv
<1> QED
  BY <1>1, <1>2, <1>3, <1>4, <1>5, <1>6 DEF Next

\* The inductive invariant holds whatever deliver(), poll(), the ledger, other
\* relayers and crashes do.
THEOREM CctpInvariance == Spec => []CctpInv
BY CctpInvInit, CctpInvStep, PTL DEF Spec

\* Types; in particular reconcile() and deliver() take no illegal edge.
THEOREM CctpTypeCorrect == Spec => []CctpTypeOK
<1>1. CctpInv => CctpTypeOK
  BY DEF CctpInv
<1> QED
  BY <1>1, CctpInvariance, PTL

\* A delivered row's nonce is consumed.
THEOREM DeliveredIsMinted == Spec => []DeliveredMeansMinted
<1>1. CctpInv => DeliveredMeansMinted
  BY DEF CctpInv
<1> QED
  BY <1>1, CctpInvariance, PTL

\* A burn alone in its transaction and well built is never failed.
THEOREM FailedIsMisbuilt == Spec => []FailedMeansMisbuilt
<1>1. CctpInv => FailedMeansMisbuilt
  BY DEF CctpInv
<1> QED
  BY <1>1, CctpInvariance, PTL

\* Two deposits for one transfer need a call lost in the deposit window.
THEOREM OneDepositOutsideWindow == Spec => []SecondDepositOnlyInWindow
<1>1. CctpInv => SecondDepositOnlyInWindow
  <2> SUFFICES ASSUME CctpInv, NEW t \in Transfers, deposits[t] >= 2, t \notin lost PROVE FALSE
    BY DEF SecondDepositOnlyInWindow
  <2>1. deposits[t] \in Nat
    BY DEF CctpInv, CctpTypeOK
  <2>2. deposits[t] = 1
    BY <2>1 DEF CctpInv, Once
  <2> QED
    BY <2>2
<1> QED
  BY <1>1, CctpInvariance, PTL

\* Without such a loss the relayer's own money stays its own.
THEOREM FloatIsKept == Spec => []RelayerKeepsItsFloat
<1>1. CctpInv => RelayerKeepsItsFloat
  <2> SUFFICES ASSUME CctpInv, lost = {} PROVE balance >= Float
    BY DEF RelayerKeepsItsFloat
  <2>1. \A t \in Transfers : owed(t) \in Nat
    BY CctpAssumption DEF owed, minted7
  <2>2. Owed \in [Transfers -> Nat]
    BY <2>1 DEF Owed
  <2>3. Sum(Owed) \in Nat /\ Float \in Nat
    BY <2>2, SumType, CctpAssumption
  <2> QED
    BY <2>3 DEF CctpInv, Balanced
<1> QED
  BY <1>1, CctpInvariance, PTL

\* deliver() stores `delivered' for a vault transfer only after its deposit.
THEOREM DebtIsClosed == Spec => DeliverClosesTheDebt
<1> DEFINE Closes == \A t \in Transfers :
             pc[t] # "idle" /\ row[t].state # "delivered" /\ row'[t].state = "delivered" /\ mode[t] = "vault"
               => deposits[t] >= 1
<1>1. CctpInv /\ [Next]_vars => [Closes]_vars
  <2> SUFFICES ASSUME CctpInv, Next, NEW t \in Transfers, pc[t] # "idle", row[t].state # "delivered",
                      row'[t].state = "delivered", mode[t] = "vault"
               PROVE  deposits[t] >= 1
    BY DEF vars
  <2>1. row \in [Transfers -> Row]
    BY DEF CctpInv, CctpTypeOK
  <2>2. row'[t] # row[t]
    OBVIOUS
  <2>3. check_nonce(t) \/ minted(t) \/ deposited(t)
    <3>1. \/ row' = row
          \/ \E u \in Transfers : poll(u) \/ deliver(u) \/ check_nonce(u) \/ minted(u) \/ deposited(u)
      <4>1. ASSUME NEW tx \in flying, expire(tx) \/ land(tx) PROVE row' = row
        BY <4>1 DEF expire, land
      <4>2. ASSUME NEW u \in Transfers, ledger(u) PROVE row' = row
        BY <4>1, <4>2 DEF ledger
      <4>3. ASSUME NEW u \in Transfers, Attest(u) \/ submit("mint", u) \/ submit("deposit", u) PROVE row' = row
        BY <4>3 DEF Attest, submit
      <4>4. ASSUME NEW u \in Transfers, other_relayer(u) \/ submit_throws(u) \/ abort(u) PROVE row' = row
        BY <4>4 DEF other_relayer, submit_throws, abort, give_up
      <4> QED
        BY <4>1, <4>2, <4>3, <4>4 DEF Next, worker
    <3>2. PICK u \in Transfers : poll(u) \/ deliver(u) \/ check_nonce(u) \/ minted(u) \/ deposited(u)
      BY <2>2, <3>1
    <3>3. row' = row \/ \E r : row' = [row EXCEPT ![u] = r]
      BY <3>2 DEF poll, poll_with, deliver, check_nonce, minted, deposited, return
    <3>4. u = t
      BY <2>1, <2>2, <3>3
    <3>5. ~poll(t)
      BY DEF poll, poll_with
    <3>6. ~deliver(t)
      BY DEF deliver
    <3> QED
      BY <3>2, <3>4, <3>5, <3>6
  <2>4. CASE check_nonce(t)
    <3>1. row[t].depositTxHash
      BY <2>2, <2>4 DEF check_nonce
    <3> QED
      BY <3>1 DEF CctpInv, Paid
  <2>5. CASE minted(t)
    BY <2>2, <2>5 DEF minted
  <2>6. CASE deposited(t)
    BY <2>6 DEF deposited, CctpInv, Paid
  <2> QED
    BY <2>3, <2>4, <2>5, <2>6
<1> QED
  BY <1>1, CctpInvariance, PTL DEF Spec, DeliverClosesTheDebt
=============================================================================
