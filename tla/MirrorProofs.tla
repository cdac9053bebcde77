----------------------------- MODULE MirrorProofs -----------------------------
(* The copy of a wallet's loans, for any number of loans, any tenor, grace   *)
(* and scan window.  That the hash on a row is that of a repayment, and of   *)
(* no other row, is inductive only with what the handlers carry over their   *)
(* awaits: the repayment the handler verified and the closing the job found  *)
(* are closings for good (HandlersOK).  That a row with its hash is final    *)
(* also needs that only a repaid row has one (OnlyRepaidHaveAHash): whoever  *)
(* takes a row for unsettled, or for missing, finds it without a hash.       *)
EXTENDS LoanMirror, FiniteSetTheorems, WellFoundedInduction, TLAPS

ChainLoan == [start: 1..MaxTime, closed: 0..MaxTime]
Rep == [pc: {"idle", "verified"}, tx: Nat]
Job == [pc: {"idle", "scanned", "walking", "found"}, todo: Seq(Loans), active: BOOLEAN,
        block: Nat, event: Nat]

ChainOK == now \in 0..MaxTime /\ chain \in Seq(ChainLoan) /\ Len(chain) <= MaxLoans
RowsOK == rows \in [Loans -> Row]
ScanOK == cursor \in 0..2 * MaxLoans /\ skipped \subseteq Loans /\ informing \subseteq opened

HandlersOK ==
  /\ rep \in Rep /\ rep.tx \in closings \cup {NoTx}
  /\ job \in Job /\ job.event \in closings \cup {NoTx}
  /\ job.pc \in {"walking", "found"} => job.todo # <<>>

OnlyRepaidHaveAHash == \A n \in Loans : rows[n].status \notin Repaid => rows[n].closeTx = NoTx

\* The inductive invariant.
MirrorInv ==
  ChainOK /\ RowsOK /\ ScanOK /\ HandlersOK /\ OnlyRepaidHaveAHash /\ CloseHashIsAClosing

-----------------------------------------------------------------------------
(* The chain and the scan's window.                                         *)

LEMMA GreaterOfTwo ==
  ASSUME NEW a \in Int, NEW b \in Int
  PROVE  Max({a, b}) \in {a, b} /\ Max({a, b}) >= a /\ Max({a, b}) >= b
<1>1. \E x \in {a, b} : \A y \in {a, b} : x >= y
  OBVIOUS
<1>2. Max({a, b}) \in {a, b} /\ \A y \in {a, b} : Max({a, b}) >= y
  BY <1>1 DEF Max
<1> QED
  BY <1>2

LEMMA LesserOfTwo ==
  ASSUME NEW a \in Int, NEW b \in Int
  PROVE  Min({a, b}) \in {a, b} /\ Min({a, b}) <= a /\ Min({a, b}) <= b
<1>1. \E x \in {a, b} : \A y \in {a, b} : x <= y
  OBVIOUS
<1>2. Min({a, b}) \in {a, b} /\ \A y \in {a, b} : Min({a, b}) <= y
  BY <1>1 DEF Min
<1> QED
  BY <1>2

LEMMA ChainFacts ==
  ASSUME ChainOK
  PROVE  /\ opened = 1..Len(chain) /\ Len(chain) \in Nat /\ opened \subseteq Loans
         /\ closings \subseteq opened /\ closings \subseteq Nat
         /\ \A n \in opened : chain[n] \in ChainLoan
         /\ \A n \in opened : chain[n].start \in 1..MaxTime /\ chain[n].closed \in 0..MaxTime
         /\ active => Len(chain) >= 1
         /\ ledger \in Nat /\ ledger <= 2 * MaxLoans
         /\ NoTx \notin Loans /\ Synthetic \notin Loans
<1>1. opened = 1..Len(chain) /\ Len(chain) \in Nat /\ MaxLoans \in Nat /\ Len(chain) <= MaxLoans
  BY MirrorAssumption DEF ChainOK, opened
<1>2. opened \subseteq Loans /\ NoTx \notin Loans /\ Synthetic \notin Loans
  BY <1>1 DEF Loans, NoTx, Synthetic
<1>3. closings \subseteq opened /\ closings \subseteq Nat
  BY <1>1 DEF closings
<1>4. \A n \in opened : chain[n] \in ChainLoan
  BY <1>1 DEF ChainOK
<1>5. \A n \in opened : chain[n].start \in 1..MaxTime /\ chain[n].closed \in 0..MaxTime
  BY <1>4 DEF ChainLoan
<1>6. active => Len(chain) >= 1
  BY <1>1 DEF active, ChainOK
<1>7. ledger \in Nat /\ ledger <= 2 * MaxLoans
  BY <1>1, <1>6 DEF ledger
<1> QED
  BY <1>1, <1>2, <1>3, <1>4, <1>5, <1>6, <1>7

\* The cursor never passes the last ledger.
LEMMA Window ==
  ASSUME MirrorInv
  PROVE  /\ scanFrom \in 0..2 * MaxLoans /\ scanTo \in Int /\ scanTo <= 2 * MaxLoans
         /\ Max({scanFrom, scanTo}) \in 0..2 * MaxLoans
<1>0. ChainOK /\ cursor \in 0..2 * MaxLoans
  BY DEF MirrorInv, ScanOK
<1>1. ledger \in Nat /\ ledger <= 2 * MaxLoans
  BY <1>0, ChainFacts
<1>2. MaxLoans \in Nat /\ BOOTSTRAP \in Nat /\ MAX_BLOCK_RANGE \in Nat
  BY MirrorAssumption
<1>3. scanFrom \in 0..2 * MaxLoans
  <2>1. 0 \in Int /\ ledger - BOOTSTRAP \in Int
    BY <1>1, <1>2
  <2>2. Max({0, ledger - BOOTSTRAP}) \in {0, ledger - BOOTSTRAP} /\ Max({0, ledger - BOOTSTRAP}) >= 0
    BY <2>1, GreaterOfTwo
  <2>3. Max({0, ledger - BOOTSTRAP}) \in 0..2 * MaxLoans
    BY <1>1, <1>2, <2>2
  <2> QED
    BY <1>0, <2>3 DEF scanFrom
<1>4. scanTo \in Int /\ scanTo <= 2 * MaxLoans
  <2>1. scanFrom + MAX_BLOCK_RANGE \in Int /\ ledger \in Int
    BY <1>1, <1>2, <1>3
  <2>2. scanTo \in {scanFrom + MAX_BLOCK_RANGE, ledger} /\ scanTo <= ledger
    BY <2>1, LesserOfTwo DEF scanTo
  <2> QED
    BY <1>1, <1>2, <2>1, <2>2
<1>5. Max({scanFrom, scanTo}) \in 0..2 * MaxLoans
  <2>1. scanFrom \in Int
    BY <1>3
  <2>2. Max({scanFrom, scanTo}) \in {scanFrom, scanTo} /\ Max({scanFrom, scanTo}) >= scanFrom
    BY <1>4, <2>1, GreaterOfTwo
  <2> QED
    BY <1>2, <1>3, <1>4, <2>2
<1> QED
  BY <1>3, <1>4, <1>5

\* What a step of the chain never takes back.
LEMMA ChainGrows ==
  ASSUME MirrorInv, opened \subseteq opened', closings \subseteq closings', ChainOK',
         UNCHANGED <<db_vars, informing, rep, job>>
  PROVE  MirrorInv'
<1>1. RowsOK' /\ OnlyRepaidHaveAHash'
  BY DEF MirrorInv, RowsOK, OnlyRepaidHaveAHash, db_vars
<1>2. ScanOK'
  BY DEF MirrorInv, ScanOK, db_vars
<1>3. HandlersOK'
  BY DEF MirrorInv, HandlersOK
<1>4. CloseHashIsAClosing'
  BY DEF MirrorInv, CloseHashIsAClosing, usedBy, db_vars
<1> QED
  BY <1>1, <1>2, <1>3, <1>4 DEF MirrorInv

LEMMA ChainStep == MirrorInv /\ (Tick \/ open_loan \/ close_loan) => MirrorInv'
<1> SUFFICES ASSUME MirrorInv, Tick \/ open_loan \/ close_loan PROVE MirrorInv'
  OBVIOUS
<1>1. /\ now \in 0..MaxTime /\ chain \in Seq(ChainLoan) /\ Len(chain) <= MaxLoans /\ ChainOK
      /\ MaxTime \in Nat /\ MaxLoans \in Nat
  BY MirrorAssumption DEF MirrorInv, ChainOK
<1>2. opened = 1..Len(chain) /\ Len(chain) \in Nat /\ (active => Len(chain) >= 1)
  BY <1>1, ChainFacts
<1>3. now + 2 <= MaxTime /\ now' = now + 2 /\ UNCHANGED <<db_vars, informing, rep, job>>
  BY DEF Tick, open_loan, close_loan
<1>4. now' \in 0..MaxTime /\ now + 2 \in 1..MaxTime
  BY <1>1, <1>3
<1>5. CASE Tick
  <2>1. chain' = chain
    BY <1>5 DEF Tick
  <2> QED
    BY <1>1, <1>3, <1>4, <2>1, ChainGrows DEF ChainOK, opened, closings
<1>6. CASE open_loan
  <2> DEFINE loan == [start |-> now + 2, closed |-> 0]
  <2>1. chain' = Append(chain, loan) /\ loan \in ChainLoan /\ Len(chain) < MaxLoans
    BY <1>1, <1>4, <1>6 DEF open_loan, ChainLoan
  <2> HIDE DEF loan
  <2>2. /\ chain' \in Seq(ChainLoan) /\ Len(chain') = Len(chain) + 1
        /\ \A n \in 1..Len(chain) : chain'[n] = chain[n]
        /\ DOMAIN chain' = 1..(Len(chain) + 1)
    BY <1>1, <2>1
  <2>3. ChainOK'
    BY <1>1, <1>2, <1>4, <2>1, <2>2 DEF ChainOK
  <2>4. opened \subseteq opened'
    BY <1>2, <2>2 DEF opened
  <2>5. closings \subseteq closings'
    BY <1>2, <2>2, <2>4 DEF closings
  <2> QED
    BY <1>3, <2>3, <2>4, <2>5, ChainGrows
<1>7. CASE close_loan
  <2>1. /\ chain' = [chain EXCEPT ![Len(chain)].closed = now + 2] /\ Len(chain) \in 1..Len(chain)
    BY <1>2, <1>7 DEF close_loan
  <2>2. chain[Len(chain)] \in ChainLoan
    BY <1>1, <2>1
  <2> DEFINE loan == [chain[Len(chain)] EXCEPT !.closed = now + 2]
  <2>3. loan \in ChainLoan /\ loan.closed = now + 2
    BY <1>4, <2>2 DEF ChainLoan
  <2>4. chain' = [chain EXCEPT ![Len(chain)] = loan]
    BY <2>1
  <2> HIDE DEF loan
  <2>5. /\ chain' \in Seq(ChainLoan) /\ Len(chain') = Len(chain) /\ DOMAIN chain' = 1..Len(chain)
        /\ \A n \in 1..Len(chain) : chain'[n] = IF n = Len(chain) THEN loan ELSE chain[n]
    <3>1. chain' \in Seq(ChainLoan) /\ Len(chain') = Len(chain)
      BY <1>1, <2>1, <2>3, <2>4
    <3>2. DOMAIN chain' = 1..Len(chain)
      BY <3>1
    <3>3. \A n \in 1..Len(chain) : chain'[n] = IF n = Len(chain) THEN loan ELSE chain[n]
      BY <1>1, <2>4
    <3> QED
      BY <3>1, <3>2, <3>3
  <2>6. ChainOK'
    BY <1>1, <1>4, <2>5 DEF ChainOK
  <2>7. opened \subseteq opened'
    BY <1>2, <2>5 DEF opened
  <2>8. closings \subseteq closings'
    <3> SUFFICES ASSUME NEW n \in closings PROVE n \in closings'
      OBVIOUS
    <3>1. n \in opened /\ chain[n].closed # 0 /\ n \in opened'
      BY <2>7 DEF closings
    <3>2. loan.closed # 0
      BY <1>1, <2>3
    <3>3. chain'[n].closed # 0
      BY <1>2, <2>5, <3>1, <3>2
    <3> QED
      BY <3>1, <3>3 DEF closings
  <2> QED
    BY <1>3, <2>6, <2>7, <2>8, ChainGrows
<1> QED
  BY <1>5, <1>6, <1>7
-----------------------------------------------------------------------------
(* The rows.                                                                *)

\* Rows get written while chain, hashes under way and queues stay as they are:
\* it is enough to look at each row, and at each hash that is new.
LEMMA RowsStep ==
  ASSUME MirrorInv, UNCHANGED chain_vars, rows' \in [Loans -> Row],
         \A n \in Loans : rows'[n].status \notin Repaid => rows'[n].closeTx = NoTx,
         \A n \in Loans : \/ rows'[n].closeTx = rows[n].closeTx
                          \/ rows'[n].closeTx \notin Loans
                          \/ /\ rows'[n].closeTx \in closings
                             /\ \A m \in Loans \ {n} : rows'[m].closeTx # rows'[n].closeTx,
         ScanOK', HandlersOK'
  PROVE  MirrorInv'
<1>1. chain' = chain /\ now' = now /\ opened' = opened /\ closings' = closings
  BY DEF chain_vars, opened, closings
<1>2. ChainOK' /\ RowsOK' /\ OnlyRepaidHaveAHash'
  BY <1>1 DEF MirrorInv, ChainOK, RowsOK, OnlyRepaidHaveAHash
<1>3. CloseHashIsAClosing'
  <2> SUFFICES ASSUME NEW n \in Loans, rows'[n].closeTx \in Loans
               PROVE  /\ rows'[n].closeTx \in closings
                      /\ \A m \in Loans : rows'[m].closeTx = rows'[n].closeTx => m = n
    BY <1>1 DEF CloseHashIsAClosing, usedBy
  <2>1. CASE rows'[n].closeTx # rows[n].closeTx
    BY <2>1
  <2>2. CASE rows'[n].closeTx = rows[n].closeTx
    <3>1. /\ rows[n].closeTx \in closings
          /\ \A m \in Loans : rows[m].closeTx = rows[n].closeTx => m = n
      BY <2>2 DEF MirrorInv, CloseHashIsAClosing, usedBy
    <3>2. ASSUME NEW m \in Loans, rows'[m].closeTx = rows'[n].closeTx, m # n PROVE FALSE
      BY <2>2, <3>1, <3>2
    <3> QED
      BY <2>2, <3>1, <3>2
  <2> QED
    BY <2>1, <2>2
<1> QED
  BY <1>2, <1>3, <1>1 DEF MirrorInv

\* A step that writes no row and leaves the chain alone.
LEMMA HandlerStep ==
  ASSUME MirrorInv, UNCHANGED <<chain_vars, rows>>, ScanOK', HandlersOK'
  PROVE  MirrorInv'
BY DEF chain_vars, opened, closings, MirrorInv, ChainOK, RowsOK, OnlyRepaidHaveAHash,
       CloseHashIsAClosing, usedBy

LEMMA RowFacts ==
  ASSUME MirrorInv, NEW n \in Loans
  PROVE  /\ rows[n] \in Row
         /\ rows[n].status \in {"none"} \cup Unsettled \cup Repaid
         /\ rows[n].startAt \in 0..MaxTime + 1
         /\ rows[n].closeTx \in Loans \cup {NoTx, Synthetic}
         /\ rows[n].status \notin Repaid => rows[n].closeTx = NoTx
<1>1. rows[n] \in Row /\ (rows[n].status \notin Repaid => rows[n].closeTx = NoTx)
  BY DEF MirrorInv, RowsOK, OnlyRepaidHaveAHash
<1> QED
  BY <1>1 DEF Row

LEMMA NewRow ==
  ASSUME NEW t \in 0..MaxTime + 1
  PROVE  /\ [status |-> "open", startAt |-> t, closeTx |-> NoTx] \in Row
         /\ "open" \notin Repaid
BY DEF Row, Unsettled, Repaid

LEMMA RepaidStatus ==
  ASSUME NEW n, NEW t PROVE repaidStatus(n, t) \in Repaid
BY DEF repaidStatus, Repaid

LEMMA InformStep ==
  ASSUME NEW n \in Loans
  PROVE  MirrorInv /\ (informLoanOpened(n) \/ informInsert(n)) => MirrorInv'
<1>1. ASSUME MirrorInv, informLoanOpened(n) PROVE MirrorInv'
  <2>1. ScanOK' /\ HandlersOK'
    BY <1>1 DEF informLoanOpened, MirrorInv, ScanOK, HandlersOK, chain_vars, db_vars, opened, closings
  <2> QED
    BY <1>1, <2>1, HandlerStep DEF informLoanOpened, db_vars
<1>2. ASSUME MirrorInv, informInsert(n) PROVE MirrorInv'
  <2>1. ScanOK' /\ HandlersOK'
    BY <1>2 DEF informInsert, MirrorInv, ScanOK, HandlersOK, chain_vars, opened, closings
  <2>2. CASE n \in recorded
    BY <1>2, <2>1, <2>2, HandlerStep DEF informInsert
  <2>3. CASE n \notin recorded
    <3> DEFINE new == [status |-> "open", startAt |-> serverNow, closeTx |-> NoTx]
               closed(m) == [rows[m] EXCEPT !.status = "repaid_late", !.closeTx = Synthetic]
    <3>1. rows' = [m \in Loans |->
                     CASE m = n -> new
                       [] rows[m].status = "defaulted" /\ rows[m].closeTx = NoTx -> closed(m)
                       [] OTHER -> rows[m]]
      BY <1>2, <2>3 DEF informInsert
    <3>2. /\ new \in Row /\ new.status \notin Repaid /\ new.closeTx = NoTx
      <4>1. serverNow \in 0..MaxTime + 1
        BY <1>2, MirrorAssumption DEF serverNow, MirrorInv, ChainOK
      <4> QED
        BY <4>1, NewRow
    <3>3. ASSUME NEW m \in Loans
          PROVE  closed(m) \in Row /\ closed(m).status \in Repaid /\ closed(m).closeTx = Synthetic
      <4>1. rows[m] \in Row
        BY <1>2, RowFacts
      <4> QED
        BY <4>1 DEF Row, Repaid
    <3> HIDE DEF new, closed
    <3>4. ASSUME NEW m \in Loans
          PROVE  \/ m = n /\ rows'[m] = new
                 \/ rows'[m] = closed(m)
                 \/ rows'[m] = rows[m]
      BY <3>1
    <3>5. ASSUME NEW m \in Loans
          PROVE  /\ rows'[m] \in Row /\ (rows'[m].status \notin Repaid => rows'[m].closeTx = NoTx)
                 /\ rows'[m].closeTx = rows[m].closeTx \/ rows'[m].closeTx \notin Loans
      <4>1. NoTx \notin Loans /\ Synthetic \notin Loans
        BY <1>2, ChainFacts DEF MirrorInv
      <4>2. rows[m] \in Row /\ (rows[m].status \notin Repaid => rows[m].closeTx = NoTx)
        BY <1>2, RowFacts
      <4> QED
        BY <3>2, <3>3, <3>4, <4>1, <4>2
    <3>6. rows' \in [Loans -> Row]
      <4>1. \A m \in Loans : rows'[m] \in Row
        BY <3>5
      <4>2. rows' = [m \in Loans |-> rows'[m]]
        BY <3>1
      <4> QED
        BY <4>1, <4>2
    <3> QED
      BY <1>2, <2>1, <3>5, <3>6, RowsStep DEF informInsert
  <2> QED
    BY <2>2, <2>3
<1> QED
  BY <1>1, <1>2

LEMMA Promote == ASSUME NEW n \in Loans PROVE MirrorInv /\ promoteDefaulted(n) => MirrorInv'
<1> SUFFICES ASSUME MirrorInv, promoteDefaulted(n) PROVE MirrorInv'
  OBVIOUS
<1>1. ScanOK' /\ HandlersOK' /\ UNCHANGED chain_vars
  BY DEF promoteDefaulted, MirrorInv, ScanOK, HandlersOK, chain_vars, opened, closings
<1>2. PICK s \in {"defaulted", "defaulted_dated"} : rows' = [rows EXCEPT ![n].status = s]
  BY DEF promoteDefaulted
<1>3. rows[n].status = "open" /\ rows[n] \in Row /\ rows[n].closeTx = NoTx
  BY RowFacts DEF promoteDefaulted, Repaid
<1> DEFINE r == [rows[n] EXCEPT !.status = s]
<1>4. r \in Row /\ r.closeTx = NoTx
  BY <1>3 DEF Row, Unsettled
<1>5. rows' = [rows EXCEPT ![n] = r]
  BY <1>2
<1> HIDE DEF r
<1>6. /\ rows' \in [Loans -> Row]
      /\ \A m \in Loans : rows'[m] = IF m = n THEN r ELSE rows[m]
  BY <1>4, <1>5 DEF MirrorInv, RowsOK
<1>7. \A m \in Loans : rows'[m].status \notin Repaid => rows'[m].closeTx = NoTx
  BY <1>4, <1>6 DEF MirrorInv, OnlyRepaidHaveAHash
<1>8. \A m \in Loans : rows'[m].closeTx = rows[m].closeTx
  BY <1>3, <1>4, <1>6
<1> QED
  BY <1>1, <1>6, <1>7, <1>8, RowsStep

\* One row is settled, with the hash of a closing nobody else has, or without.
LEMMA SettleStep ==
  ASSUME MirrorInv, UNCHANGED chain_vars, ScanOK', HandlersOK',
         NEW n \in Loans, NEW status \in Repaid, NEW tx \in closings \cup {NoTx},
         tx # NoTx => usedBy(tx) \ {n} = {},
         rows' = [rows EXCEPT ![n].status = status, ![n].closeTx = tx]
  PROVE  MirrorInv'
<1> DEFINE r == [rows[n] EXCEPT !.status = status, !.closeTx = tx]
<1>1. rows[n] \in Row /\ NoTx \notin Loans /\ closings \subseteq Loans
  BY RowFacts, ChainFacts DEF MirrorInv
<1>2. r \in Row /\ r.closeTx = tx /\ r.status = status
  BY <1>1 DEF Row
<1>3. rows' = [rows EXCEPT ![n] = r]
  BY DEF MirrorInv, RowsOK
<1> HIDE DEF r
<1>4. /\ rows' \in [Loans -> Row]
      /\ \A m \in Loans : rows'[m] = IF m = n THEN r ELSE rows[m]
  BY <1>2, <1>3 DEF MirrorInv, RowsOK
<1>5. \A m \in Loans : rows'[m].status \notin Repaid => rows'[m].closeTx = NoTx
  BY <1>2, <1>4 DEF MirrorInv, OnlyRepaidHaveAHash
<1>6. tx # NoTx => \A m \in Loans \ {n} : rows'[m].closeTx # tx
  BY <1>4 DEF usedBy
<1>7. \A m \in Loans : \/ rows'[m].closeTx = rows[m].closeTx
                       \/ rows'[m].closeTx \notin Loans
                       \/ /\ rows'[m].closeTx \in closings
                          /\ \A k \in Loans \ {m} : rows'[k].closeTx # rows'[m].closeTx
  BY <1>1, <1>2, <1>4, <1>6
<1> QED
  BY <1>4, <1>5, <1>7, RowsStep
-----------------------------------------------------------------------------
(* The repayment handler and the job.                                       *)

LEMMA IdleHandlers ==
  /\ IdleRep \in Rep /\ IdleRep.tx = NoTx
  /\ IdleJob \in Job /\ IdleJob.event = NoTx /\ IdleJob.pc = "idle"
BY DEF IdleRep, Rep, IdleJob, Job, NoTx

LEMMA RepaymentStep ==
  MirrorInv /\ (repayCommit \/ repayRefused \/ \E tx \in closings \cup {NoTx} : processRepayment(tx))
    => MirrorInv'
<1>0. ASSUME MirrorInv, UNCHANGED <<chain_vars, informing, job, cursor, skipped>>,
             rep' \in Rep, rep'.tx \in closings \cup {NoTx}
      PROVE  ScanOK' /\ HandlersOK' /\ UNCHANGED chain_vars
  BY <1>0 DEF MirrorInv, ScanOK, HandlersOK, chain_vars, opened, closings
<1>1. ASSUME MirrorInv, NEW tx \in closings \cup {NoTx}, processRepayment(tx) PROVE MirrorInv'
  <2>1. tx \in Nat
    BY <1>1, ChainFacts DEF MirrorInv, NoTx
  <2>2. rep' \in Rep /\ rep'.tx \in closings \cup {NoTx}
    BY <1>1, <2>1 DEF processRepayment, Rep
  <2>3. UNCHANGED <<chain_vars, rows, informing, job, cursor, skipped>>
    BY <1>1 DEF processRepayment, db_vars
  <2>4. ScanOK' /\ HandlersOK'
    BY <1>0, <1>1, <2>2, <2>3
  <2> QED
    BY <1>1, <2>3, <2>4, HandlerStep
<1>2. ASSUME MirrorInv, repayRefused PROVE MirrorInv'
  <2>1. UNCHANGED <<chain_vars, rows, informing, job, cursor, skipped>> /\ rep' = IdleRep
    BY <1>2 DEF repayRefused, db_vars
  <2>2. ScanOK' /\ HandlersOK'
    BY <1>0, <1>2, <2>1, IdleHandlers
  <2> QED
    BY <1>2, <2>1, <2>2, HandlerStep
<1>3. ASSUME MirrorInv, repayCommit PROVE MirrorInv'
  <2>1. UNCHANGED <<chain_vars, informing, job, cursor, skipped>> /\ rep' = IdleRep
    BY <1>3 DEF repayCommit
  <2>2. ScanOK' /\ HandlersOK' /\ UNCHANGED chain_vars
    BY <1>0, <1>3, <2>1, IdleHandlers
  <2>3. PICK n \in newest(repayTarget) :
          rows' = [rows EXCEPT ![n].status = repaidStatus(n, serverNow), ![n].closeTx = rep.tx]
    BY <1>3 DEF repayCommit
  <2>4. n \in Loans /\ ~hashTaken
    BY DEF newest, repayTarget
  <2>5. rep.tx \in closings \cup {NoTx} /\ (rep.tx # NoTx => usedBy(rep.tx) \ {n} = {})
    BY <1>3, <2>4 DEF hashTaken, MirrorInv, HandlersOK
  <2>6. repaidStatus(n, serverNow) \in Repaid
    BY RepaidStatus
  <2> QED
    BY <1>3, <2>2, <2>3, <2>4, <2>5, <2>6, SettleStep
<1> QED
  BY <1>1, <1>2, <1>3

\* Rows the scan writes: a new one for each opening that has none.
LEMMA ScanStep ==
  MirrorInv /\ (scanLoanOpenedEvents \/ scanFails) => MirrorInv'
<1> SUFFICES ASSUME MirrorInv, scanLoanOpenedEvents \/ scanFails PROVE MirrorInv'
  OBVIOUS
<1>1. /\ opened \subseteq Loans /\ NoTx \notin Loans
      /\ \A n \in opened : chain[n].start \in 1..MaxTime
  BY ChainFacts DEF MirrorInv
<1>2. \A a, b : missing(a, b) \subseteq opened \ recorded
  BY DEF missing, scanned
<1>3. /\ job' = [IdleJob EXCEPT !.pc = "scanned"] /\ UNCHANGED <<chain_vars, informing, rep>>
  BY DEF scanLoanOpenedEvents, scanFails
<1>4. PICK events \in SUBSET missing(scanFrom, scanTo) : insertMissingLoan(events)
  BY DEF scanLoanOpenedEvents, scanFails
<1>5. cursor' \in 0..2 * MaxLoans
  BY Window DEF scanLoanOpenedEvents, scanFails, MirrorInv, ScanOK
<1>6. skipped' \subseteq Loans
  BY <1>1, <1>2 DEF scanLoanOpenedEvents, scanFails, MirrorInv, ScanOK
<1>7. job' \in Job /\ job'.event = NoTx /\ job'.pc = "scanned"
  BY <1>3, IdleHandlers DEF Job
<1>8. opened' = opened /\ closings' = closings
  BY <1>3 DEF chain_vars, opened, closings
<1>9. ScanOK' /\ HandlersOK'
  BY <1>3, <1>5, <1>6, <1>7, <1>8 DEF MirrorInv, ScanOK, HandlersOK
<1> DEFINE new(n) == [status |-> "open", startAt |-> chain[n].start, closeTx |-> NoTx]
<1>10. rows' = [n \in Loans |-> IF n \in events THEN new(n) ELSE rows[n]]
  BY <1>4 DEF insertMissingLoan
<1>11. ASSUME NEW n \in Loans
       PROVE  /\ rows'[n] \in Row /\ (rows'[n].status \notin Repaid => rows'[n].closeTx = NoTx)
              /\ rows'[n].closeTx = rows[n].closeTx \/ rows'[n].closeTx \notin Loans
  <2>1. CASE n \in events
    <3>1. n \in opened
      BY <1>2, <2>1
    <3>2. chain[n].start \in 0..MaxTime + 1
      BY <1>1, <3>1, MirrorAssumption
    <3>3. new(n) \in Row /\ new(n).closeTx = NoTx
      BY <3>2, NewRow
    <3>4. rows'[n] = new(n)
      BY <1>10, <2>1
    <3> HIDE DEF new
    <3> QED
      BY <1>1, <3>3, <3>4
  <2>2. CASE n \notin events
    <3>1. rows'[n] = rows[n]
      BY <1>10, <2>2
    <3> QED
      BY <3>1, RowFacts
  <2> QED
    BY <2>1, <2>2
<1>12. rows' \in [Loans -> Row]
  <2> HIDE DEF new
  <2>1. rows' = [n \in Loans |-> rows'[n]]
    BY <1>10
  <2>2. \A n \in Loans : rows'[n] \in Row
    BY <1>11
  <2> QED
    BY <2>1, <2>2
<1> QED
  BY <1>3, <1>9, <1>11, <1>12, RowsStep

\* The job after a step over its list.
LEMMA Walking ==
  ASSUME NEW j \in Job
  PROVE  /\ walking(j) \in Job /\ walking(j).event \in {j.event, NoTx}
         /\ walking(j).pc \in {"walking", "found"} => walking(j).todo # <<>>
<1>1. CASE j.todo = <<>>
  BY <1>1, IdleHandlers DEF walking
<1>2. CASE j.todo # <<>>
  BY <1>2 DEF walking, Job
<1> QED
  BY <1>1, <1>2

LEMMA NextLoan ==
  ASSUME NEW j \in Job, j.todo # <<>>
  PROVE  /\ next_loan(j) \in Job /\ next_loan(j).event = NoTx
         /\ next_loan(j).pc \in {"walking", "found"} => next_loan(j).todo # <<>>
<1> DEFINE k == [j EXCEPT !.todo = Tail(@), !.event = NoTx]
<1>1. j.todo \in Seq(Loans) /\ Tail(j.todo) \in Seq(Loans)
  BY DEF Job
<1>2. k \in Job /\ k.event = NoTx
  BY <1>1 DEF Job, NoTx
<1>3. next_loan(j) = walking(k)
  BY DEF next_loan
<1> HIDE DEF k
<1> QED
  BY <1>2, <1>3, Walking

\* The rows in any of the orders the query may give.
LEMMA NewestFirst ==
  ASSUME NEW S \in SUBSET Loans, NEW s \in newest_first(S)
  PROVE  s \in Seq(Loans)
<1>1. IsFiniteSet(S)
  <2>1. IsFiniteSet(Loans)
    BY FS_Interval, MirrorAssumption DEF Loans
  <2> QED
    BY <2>1, FS_Subset
<1>2. Cardinality(S) \in Nat
  BY <1>1, FS_CardinalityType
<1>3. s \in [1..Cardinality(S) -> S]
  BY DEF newest_first, SetToSeqs
<1> QED
  BY <1>2, <1>3

\* A step of the job that writes no row.
LEMMA JobOnly ==
  ASSUME MirrorInv, UNCHANGED <<chain_vars, db_vars, informing, rep>>,
         job' \in Job, job'.event \in closings \cup {NoTx},
         job'.pc \in {"walking", "found"} => job'.todo # <<>>
  PROVE  MirrorInv'
<1>1. opened' = opened /\ closings' = closings
  BY DEF chain_vars, opened, closings
<1>2. ScanOK' /\ HandlersOK' /\ UNCHANGED <<chain_vars, rows>>
  BY <1>1 DEF MirrorInv, ScanOK, HandlersOK, db_vars
<1> QED
  BY <1>2, HandlerStep

LEMMA SyncStep == MirrorInv /\ (syncLoansWithChain \/ syncRpcError) => MirrorInv'
<1>1. ASSUME MirrorInv, syncLoansWithChain PROVE MirrorInv'
  <2>1. PICK loans \in newest_first(unsettledLoans) :
          job' = IF loans = <<>> THEN IdleJob
                 ELSE walking([job EXCEPT !.active = active, !.block = ledger,
                                 !.todo = IF latestDbIsChainCurrent(loans) THEN Tail(loans) ELSE loans])
    BY <1>1 DEF syncLoansWithChain
  <2>2. loans \in Seq(Loans)
    BY NewestFirst DEF unsettledLoans, recorded
  <2>3. UNCHANGED <<chain_vars, db_vars, informing, rep>>
    BY <1>1 DEF syncLoansWithChain
  <2>4. CASE loans = <<>>
    BY <1>1, <2>1, <2>3, <2>4, IdleHandlers, JobOnly
  <2>5. CASE loans # <<>>
    <3> DEFINE todo == IF latestDbIsChainCurrent(loans) THEN Tail(loans) ELSE loans
               j == [job EXCEPT !.active = active, !.block = ledger, !.todo = todo]
    <3>1. todo \in Seq(Loans) /\ ledger \in Nat
      BY <1>1, <2>2, <2>5, ChainFacts DEF MirrorInv
    <3>2. active \in BOOLEAN
      BY DEF active
    <3>3. job' = walking(j)
      BY <2>1, <2>5
    <3> HIDE DEF todo
    <3>4. job \in Job /\ job.event \in closings \cup {NoTx}
      BY <1>1 DEF MirrorInv, HandlersOK
    <3>5. j \in Job /\ j.event = job.event
      BY <3>1, <3>2, <3>4 DEF Job
    <3> HIDE DEF j
    <3> QED
      BY <1>1, <2>3, <3>3, <3>4, <3>5, Walking, JobOnly
  <2> QED
    BY <2>4, <2>5
<1>2. ASSUME MirrorInv, syncRpcError PROVE MirrorInv'
  <2>1. /\ job' = IF job.pc = "walking" /\ job.active THEN next_loan(job) ELSE IdleJob
        /\ UNCHANGED <<chain_vars, db_vars, informing, rep>>
    BY <1>2 DEF syncRpcError
  <2>2. CASE job.pc = "walking" /\ job.active
    BY <1>2, <2>1, <2>2, NextLoan, JobOnly DEF MirrorInv, HandlersOK
  <2>3. CASE ~(job.pc = "walking" /\ job.active)
    BY <1>2, <2>1, <2>3, IdleHandlers, JobOnly
  <2> QED
    BY <2>2, <2>3
<1> QED
  BY <1>1, <1>2

\* Loans that are any have a newest one.
LEMMA GreatestLoan ==
  ASSUME NEW S \in SUBSET Loans, S # {}
  PROVE  \E x \in S : \A y \in S : x >= y
<1> DEFINE R == OpToRel(<, Nat)
           T == {MaxLoans - x : x \in S}
<1>1. IsWellFoundedOn(R, Nat)
  BY NatLessThanWellFounded, Zenon
<1>2. T \subseteq Nat /\ T # {}
  <2>1. ASSUME NEW x \in S PROVE MaxLoans - x \in Nat
    BY MirrorAssumption DEF Loans
  <2>2. PICK x \in S : TRUE
    OBVIOUS
  <2> QED
    BY <2>1, <2>2
<1>3. \A a, b \in Nat : <<a, b>> \in R <=> a < b
  BY DEF OpToRel
<1> HIDE DEF R, T
<1>4. PICK t \in T : \A u \in T : ~(<<u, t>> \in R)
  BY <1>1, <1>2, WFMin, Zenon
<1>5. \A u \in T : ~(u < t)
  BY <1>2, <1>3, <1>4
<1>6. PICK x \in S : t = MaxLoans - x
  BY DEF T
<1>7. \A y \in S : ~(MaxLoans - y < MaxLoans - x)
  BY <1>5, <1>6 DEF T
<1> QED
  BY <1>6, <1>7, MirrorAssumption DEF Loans

LEMMA FindStep == ASSUME NEW n \in Loans PROVE MirrorInv /\ findLoanClosedEvent(n) => MirrorInv'
<1> SUFFICES ASSUME MirrorInv, findLoanClosedEvent(n) PROVE MirrorInv'
  OBVIOUS
<1> DEFINE found == close_events(rows[n].startAt)
           event == IF found = {} THEN NoTx ELSE Max(found)
<1>1. /\ job.pc = "walking" /\ job' = [job EXCEPT !.pc = "found", !.event = event]
      /\ UNCHANGED <<chain_vars, db_vars, informing, rep>>
  BY DEF findLoanClosedEvent
<1>2. found \subseteq closings /\ closings \subseteq Loans /\ closings \subseteq Nat
  BY ChainFacts DEF close_events, MirrorInv
<1> HIDE DEF found
<1>3. event \in closings \cup {NoTx}
  <2>1. CASE found = {}
    BY <2>1
  <2>2. CASE found # {}
    <3>1. \E x \in found : \A y \in found : x >= y
      BY <1>2, <2>2, GreatestLoan
    <3>2. Max(found) \in found
      BY <3>1 DEF Max
    <3> QED
      BY <1>2, <2>2, <3>2
  <2> QED
    BY <2>1, <2>2
<1> HIDE DEF event
<1>4. event \in Nat
  BY <1>2, <1>3 DEF NoTx
<1>5. job \in Job /\ job.todo # <<>>
  BY <1>1 DEF MirrorInv, HandlersOK
<1>6. job' \in Job /\ job'.event = event /\ job'.todo = job.todo
  BY <1>1, <1>4, <1>5 DEF Job
<1> QED
  BY <1>1, <1>3, <1>5, <1>6, JobOnly

LEMMA ReconcileStep == ASSUME NEW n \in Loans PROVE MirrorInv /\ reconcileLoan(n) => MirrorInv'
<1> SUFFICES ASSUME MirrorInv, reconcileLoan(n) PROVE MirrorInv'
  OBVIOUS
<1>1. /\ job.pc = "found" /\ job' = next_loan(job) /\ UNCHANGED <<chain_vars, cursor, skipped, informing, rep>>
  BY DEF reconcileLoan
<1>2. job \in Job /\ job.todo # <<>> /\ job.event \in closings \cup {NoTx}
  BY <1>1 DEF MirrorInv, HandlersOK
<1>3. /\ job' \in Job /\ job'.event = NoTx
      /\ job'.pc \in {"walking", "found"} => job'.todo # <<>>
  BY <1>1, <1>2, NextLoan
<1>4. opened' = opened /\ closings' = closings
  BY <1>1 DEF chain_vars, opened, closings
<1>5. ScanOK' /\ HandlersOK' /\ UNCHANGED chain_vars
  BY <1>1, <1>3, <1>4 DEF MirrorInv, ScanOK, HandlersOK
<1>6. CASE reconcilable(n, job.event)
  <2> DEFINE status == repaidStatus(n, chain[job.event].closed)
  <2>1. rows' = [rows EXCEPT ![n].status = status, ![n].closeTx = job.event]
    BY <1>6 DEF reconcileLoan
  <2>2. status \in Repaid
    BY RepaidStatus
  <2>3. usedBy(job.event) \ {n} = {}
    BY <1>6 DEF reconcilable
  <2> HIDE DEF status
  <2> QED
    BY <1>2, <1>5, <2>1, <2>2, <2>3, SettleStep
<1>7. CASE ~reconcilable(n, job.event)
  BY <1>5, <1>7, HandlerStep DEF reconcileLoan
<1> QED
  BY <1>6, <1>7

LEMMA RestartStep == MirrorInv /\ restart => MirrorInv'
<1> SUFFICES ASSUME MirrorInv, restart PROVE MirrorInv'
  OBVIOUS
<1>1. UNCHANGED <<chain_vars, db_vars>> /\ rep' = IdleRep /\ job' = IdleJob /\ informing' = {}
  BY DEF restart
<1>2. ScanOK' /\ HandlersOK' /\ UNCHANGED <<chain_vars, rows>>
  BY <1>1, IdleHandlers DEF MirrorInv, ScanOK, HandlersOK, db_vars
<1> QED
  BY <1>2, HandlerStep

-----------------------------------------------------------------------------
(* The theorems.                                                            *)

\* Whatever is reported, lost, repeated, verified, scanned, reconciled and
\* restarted, in any order: the rows, the cursor and what the handlers carry
\* stay what they should be.
THEOREM MirrorInvariance == MirrorSpec => []MirrorInv
<1>1. MirrorInit => MirrorInv
  <2> SUFFICES ASSUME MirrorInit PROVE MirrorInv
    OBVIOUS
  <2>1. opened = {} /\ closings = {}
    BY DEF MirrorInit, opened, closings
  <2>2. ChainOK
    BY MirrorAssumption DEF MirrorInit, ChainOK
  <2>3. NoRow \in Row /\ NoRow.closeTx = NoTx /\ NoTx \notin Loans
    BY MirrorAssumption DEF NoRow, Row, NoTx, Loans
  <2>4. RowsOK /\ \A n \in Loans : rows[n].closeTx = NoTx
    BY <2>3 DEF MirrorInit, RowsOK
  <2>5. OnlyRepaidHaveAHash /\ CloseHashIsAClosing
    BY <2>3, <2>4 DEF OnlyRepaidHaveAHash, CloseHashIsAClosing
  <2>6. ScanOK
    BY <2>1, MirrorAssumption DEF MirrorInit, ScanOK
  <2>7. HandlersOK
    BY IdleHandlers DEF MirrorInit, HandlersOK
  <2> QED
    BY <2>2, <2>4, <2>5, <2>6, <2>7 DEF MirrorInv
<1>2. MirrorInv /\ [MirrorNext]_vars => MirrorInv'
  <2>1. MirrorInv /\ MirrorNext => MirrorInv'
    BY ChainStep, InformStep, Promote, RepaymentStep, ScanStep, SyncStep, FindStep, ReconcileStep,
       RestartStep
       DEF MirrorNext
  <2>2. MirrorInv /\ UNCHANGED vars => MirrorInv'
    BY DEF vars, MirrorInv, ChainOK, RowsOK, ScanOK, HandlersOK, OnlyRepaidHaveAHash,
           CloseHashIsAClosing, usedBy, opened, closings
  <2> QED
    BY <2>1, <2>2
<1> QED
  BY <1>1, <1>2, PTL DEF MirrorSpec

\* Type correctness: the scanner's cursor never passes the chain's last ledger,
\* an opening that is being recorded and a repayment that is being handled are
\* ones the chain has seen.
THEOREM MirrorTypeCorrect == MirrorSpec => []MirrorTypeOK
<1>1. MirrorInv => MirrorTypeOK
  BY DEF MirrorInv, ChainOK, RowsOK, ScanOK, HandlersOK, Rep, Job, ChainLoan, MirrorTypeOK
<1> QED
  BY <1>1, MirrorInvariance, PTL

\* The hash on a row is that of a repayment the chain has seen, and no two rows
\* carry the same one, for any number of loans, whoever recorded it.
THEOREM HashesAreClosings == MirrorSpec => []CloseHashIsAClosing
<1>1. MirrorInv => CloseHashIsAClosing
  BY DEF MirrorInv
<1> QED
  BY <1>1, MirrorInvariance, PTL

\* A row that has its hash is settled for good: neither the reports, nor the
\* promotion to defaulted, nor a job that read it before writes it again.
THEOREM SettledIsFinal == MirrorSpec => SettledRowsAreFinal
<1> DEFINE Final == \A n \in Loans : rows[n].closeTx # NoTx => rows'[n] = rows[n]
<1>1. ASSUME MirrorInv, MirrorNext PROVE Final
  <2> SUFFICES ASSUME NEW n \in Loans, rows[n].closeTx # NoTx PROVE rows'[n] = rows[n]
    OBVIOUS
  <2>1. rows[n].status \in Repaid /\ n \in recorded
    BY <1>1, RowFacts DEF recorded, Repaid
  <2>2. rows[n].status \notin {"open", "defaulted"}
    BY <2>1 DEF Repaid
  <2>3. rows = [m \in Loans |-> rows[m]]
    BY <1>1 DEF MirrorInv, RowsOK
  <2>4. ASSUME NEW m \in Loans, informInsert(m) PROVE rows'[n] = rows[n]
    <3>1. CASE m \in recorded
      BY <2>4, <3>1 DEF informInsert
    <3>2. CASE m \notin recorded
      <4>1. n # m
        BY <2>1, <3>2
      <4> QED
        BY <2>2, <2>4, <3>2, <4>1 DEF informInsert
    <3> QED
      BY <3>1, <3>2
  <2>5. ASSUME NEW m \in Loans, promoteDefaulted(m) PROVE rows'[n] = rows[n]
    BY <2>2, <2>3, <2>5 DEF promoteDefaulted
  <2>6. ASSUME repayCommit PROVE rows'[n] = rows[n]
    <3>1. PICK m \in newest(repayTarget) :
            rows' = [rows EXCEPT ![m].status = repaidStatus(m, serverNow), ![m].closeTx = rep.tx]
      BY <2>6 DEF repayCommit
    <3>2. m # n
      BY DEF newest, repayTarget
    <3> QED
      BY <2>3, <3>1, <3>2
  <2>7. ASSUME scanLoanOpenedEvents \/ scanFails PROVE rows'[n] = rows[n]
    <3>1. PICK events \in SUBSET missing(scanFrom, scanTo) : insertMissingLoan(events)
      BY <2>7 DEF scanLoanOpenedEvents, scanFails
    <3>2. n \notin events
      BY <2>1 DEF missing
    <3> QED
      BY <3>1, <3>2 DEF insertMissingLoan
  <2>8. ASSUME NEW m \in Loans, reconcileLoan(m) PROVE rows'[n] = rows[n]
    <3>1. CASE m = n
      BY <2>8, <3>1 DEF reconcileLoan, reconcilable
    <3>2. CASE m # n
      BY <2>3, <2>8, <3>2 DEF reconcileLoan
    <3> QED
      BY <3>1, <3>2
  <2>9. CASE rows' = rows
    BY <2>9
  <2> QED
    BY <1>1, <2>4, <2>5, <2>6, <2>7, <2>8, <2>9
       DEF MirrorNext, Tick, open_loan, close_loan, informLoanOpened, processRepayment, repayRefused,
           syncLoansWithChain, syncRpcError, findLoanClosedEvent, restart, db_vars
<1>2. UNCHANGED vars => Final
  BY DEF vars
<1> HIDE DEF Final
<1>3. MirrorInv /\ [MirrorNext]_vars => [Final]_vars
  BY <1>1, <1>2
<1>4. MirrorSpec => [][Final]_vars
  BY <1>3, MirrorInvariance, PTL DEF MirrorSpec
<1> QED
  BY <1>4 DEF SettledRowsAreFinal, Final
=============================================================================
