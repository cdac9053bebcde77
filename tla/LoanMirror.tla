------------------------------ MODULE LoanMirror ------------------------------
(***************************************************************************)
(* The database's copy of one wallet's loans and everybody who writes it.  *)
(*                                                                         *)
(*   - the frontend reports an opening or a repayment, at once or from its *)
(*     localStorage queue (useBorrow, useRepay, useRepaymentRecovery);     *)
(*   - informLoanOpened and processRepayment handle the reports;           *)
(*   - the chain-sync worker's job sync-loans scans the openings and then  *)
(*     reconciles the closings.                                            *)
(*                                                                         *)
(* What a repayment does to the user's score and limit is CreditLine.      *)
(*                                                                         *)
(* A database transaction is one step; what a handler reads before an      *)
(* await and uses after it is kept in `rep' and `job'.  The backend may    *)
(* restart between any two steps, a report may be lost or sent again, and  *)
(* any RPC call may fail.                                                  *)
(*                                                                         *)
(* A loan is known by its number on the chain, which also stands for the   *)
(* hash of the transaction that opened it and of the one that closed it:   *)
(* openTxHash is unique, so rows[n] is the row of loan n.  Every chain     *)
(* transaction is a ledger of its own: loan n opens in ledger 2n-1 and     *)
(* closes in ledger 2n.  Chain time is even; the server's clock, read      *)
(* after a ledger, is the odd number that follows.                         *)
(***************************************************************************)
EXTENDS Integers, FiniteSets, SequencesExt

CONSTANTS
  MaxLoans,          \* bound: loans the wallet takes
  MaxTime,           \* bound: chain time
  TENOR,             \* tenorDays
  GRACE,             \* REPAID_ON_TIME_GRACE_MS
  MATCH_TOLERANCE,   \* LOAN_START_MATCH_TOLERANCE_SEC
  MAX_BLOCK_RANGE,   \* ledgers one scan covers
  BOOTSTRAP,         \* ledgers a first scan goes back
  CLOSE_LOOKBACK,    \* ledgers searched for a closing
  MaxInsertFailures  \* bound: scanner inserts that fail

ASSUME MirrorAssumption ==
  /\ {MaxLoans, MAX_BLOCK_RANGE} \subseteq Nat \ {0}
  /\ {MaxTime, TENOR, GRACE, MATCH_TOLERANCE, BOOTSTRAP, CLOSE_LOOKBACK,
      MaxInsertFailures} \subseteq Nat

VARIABLES
  now,        \* chain time
  chain,      \* the wallet's loans on the chain, oldest first
  rows,       \* the loans table
  cursor,     \* chain_scan_cursor
  informing,  \* openings whose handler found no open loan and will insert
  rep,        \* the repayment handler
  job,        \* the chain-sync worker
  skipped     \* history: openings the scanner went past without a row

chain_vars == <<now, chain>>
db_vars == <<rows, cursor, skipped>>
vars == <<now, chain, rows, cursor, informing, rep, job, skipped>>

Loans == 1..MaxLoans
NoTx == 0
Synthetic == -1    \* SYNTHETIC_ORPHAN_AUTOCLOSE_<id>

\* A defaulted row has closedAt null, or the due date when the promotion job
\* set it: only rows of the first kind are closed as orphans by a new opening.
Unsettled == {"open", "defaulted", "defaulted_dated"}
Repaid == {"repaid_on_time", "repaid_late"}
NoRow == [status |-> "none", startAt |-> 0, closeTx |-> NoTx]
Row == [status: {"none"} \cup Unsettled \cup Repaid, startAt: 0..MaxTime + 1,
        closeTx: Loans \cup {NoTx, Synthetic}]
IdleRep == [pc |-> "idle", tx |-> NoTx]
IdleJob == [pc |-> "idle", todo |-> <<>>, active |-> FALSE, block |-> 0, event |-> NoTx]

serverNow == now + 1
active == chain # <<>> /\ Last(chain).closed = 0
opened == DOMAIN chain
closings == {n \in opened : chain[n].closed # 0}
ledger == 2 * Len(chain) - (IF active THEN 1 ELSE 0)
recorded == {n \in Loans : rows[n].status # "none"}
usedBy(h) == {n \in Loans : rows[n].closeTx = h}

\* What ORDER BY startAt DESC answers, its first row and all of them: rows that
\* start at the same time come in any order.
newest(S) == {n \in S : \A m \in S : rows[m].startAt <= rows[n].startAt}
newest_first(S) ==
  {s \in SetToSeqs(S) : \A i, j \in DOMAIN s : i < j => rows[s[j]].startAt <= rows[s[i]].startAt}

-----------------------------------------------------------------------------
(* The chain, as far as the backend sees it.                                *)

\* Nothing depends on how long the wallet waits before its first loan.
Tick ==
  /\ chain # <<>> /\ now + 2 <= MaxTime
  /\ now' = now + 2
  /\ UNCHANGED <<chain, db_vars, informing, rep, job>>

open_loan ==
  /\ ~active /\ Len(chain) < MaxLoans /\ now + 2 <= MaxTime
  /\ now' = now + 2
  /\ chain' = Append(chain, [start |-> now + 2, closed |-> 0])
  /\ UNCHANGED <<db_vars, informing, rep, job>>

close_loan ==
  /\ active /\ now + 2 <= MaxTime
  /\ now' = now + 2
  /\ chain' = [chain EXCEPT ![Len(chain)].closed = now + 2]
  /\ UNCHANGED <<db_vars, informing, rep, job>>

-----------------------------------------------------------------------------
(* informLoanOpened.                                                        *)

open_rows == {n \in Loans : rows[n].status = "open"}

\* A row for this opening, or any open loan of the user, is the answer.  The
\* lock on the open loan locks nothing when there is none.
informLoanOpened(n) ==
  /\ n \in opened \ informing
  /\ n \notin recorded /\ open_rows = {}
  /\ informing' = informing \cup {n}
  /\ UNCHANGED <<chain_vars, db_vars, rep, job>>

\* The rest of its transaction: orphaned defaulted loans are closed and the
\* loan is inserted with the server's time; the unique index refuses a second
\* row, and the whole transaction with it.
informInsert(n) ==
  /\ n \in informing
  /\ informing' = informing \ {n}
  /\ rows' = IF n \in recorded THEN rows ELSE
       [m \in Loans |->
          CASE m = n -> [status |-> "open", startAt |-> serverNow, closeTx |-> NoTx]
            [] rows[m].status = "defaulted" /\ rows[m].closeTx = NoTx
                 -> [rows[m] EXCEPT !.status = "repaid_late", !.closeTx = Synthetic]
            [] OTHER -> rows[m]]
  /\ UNCHANGED <<chain_vars, cursor, skipped, rep, job>>

\* External: the job that promotes overdue loans to DEFAULTED.
promoteDefaulted(n) ==
  /\ rows[n].status = "open" /\ serverNow > rows[n].startAt + TENOR + GRACE
  /\ \E s \in {"defaulted", "defaulted_dated"} : rows' = [rows EXCEPT ![n].status = s]
  /\ UNCHANGED <<chain_vars, cursor, skipped, informing, rep, job>>

-----------------------------------------------------------------------------
(* processRepayment.                                                        *)

repaidStatus(n, t) ==
  IF t <= rows[n].startAt + TENOR + GRACE THEN "repaid_on_time" ELSE "repaid_late"

\* The repayment is verified by its hash or, in a request without one, by the
\* absence of an active loan; a hash already recorded is answered at once.
processRepayment(tx) ==
  /\ rep.pc = "idle"
  /\ IF tx = NoTx THEN ~active ELSE usedBy(tx) = {}
  /\ rep' = [pc |-> "verified", tx |-> tx]
  /\ UNCHANGED <<chain_vars, db_vars, informing, job>>

hashTaken == rep.tx # NoTx /\ usedBy(rep.tx) # {}

\* Mutant: without the unique index on closeTxHash.
repayTarget_no_index == {n \in Loans : rows[n].status \in Unsettled /\ rows[n].closeTx = NoTx}

\* The row the transaction closes is the newest unsettled one.  The unique
\* index on closeTxHash refuses a hash that another row carries by now.
repayTarget ==
  IF hashTaken THEN {}
  ELSE {n \in Loans : rows[n].status \in Unsettled /\ rows[n].closeTx = NoTx}

repayCommit ==
  /\ rep.pc = "verified" /\ repayTarget # {}
  /\ \E n \in newest(repayTarget) :
       rows' = [rows EXCEPT ![n].status = repaidStatus(n, serverNow),
                            ![n].closeTx = rep.tx]
  /\ rep' = IdleRep
  /\ UNCHANGED <<chain_vars, cursor, skipped, informing, job>>

\* No loan to close is a 404, a refused save a 500: nothing is written.
repayRefused ==
  /\ rep.pc = "verified" /\ repayTarget = {}
  /\ rep' = IdleRep
  /\ UNCHANGED <<chain_vars, db_vars, informing, job>>

-----------------------------------------------------------------------------
(* The job sync-loans: scanLoanOpenedEvents, then syncLoansWithChain.       *)

\* Mutant: the window starts one ledger too late.
scanFrom_off_by_one == IF cursor = 0 THEN Max({0, ledger - BOOTSTRAP}) ELSE cursor + 1

\* A cursor at genesis jumps forward.
scanFrom == IF cursor = 0 THEN Max({0, ledger - BOOTSTRAP}) ELSE cursor
scanTo == Min({scanFrom + MAX_BLOCK_RANGE, ledger})

\* Mutant: the window leaves out its last ledger.
scanned_half_open(from, to) == {n \in opened : from < 2 * n - 1 /\ 2 * n - 1 < to}

scanned(from, to) == {n \in opened : from < 2 * n - 1 /\ 2 * n - 1 <= to}

\* Openings that have no row get one, with the chain's time.
insertMissingLoan(events) ==
  rows' = [n \in Loans |->
     IF n \in events THEN [status |-> "open", startAt |-> chain[n].start, closeTx |-> NoTx] ELSE rows[n]]

missing(from, to) == scanned(from, to) \ recorded

\* Inserts are independent; the cursor moves whatever they did.  An insert
\* fails when the database refuses it or no user has the wallet.
scanLoanOpenedEvents ==
  /\ job.pc = "idle"
  /\ job' = [IdleJob EXCEPT !.pc = "scanned"]
  /\ \E failed \in SUBSET missing(scanFrom, scanTo) :
       /\ failed = {} \/ Cardinality(failed \cup skipped) <= MaxInsertFailures
       /\ insertMissingLoan(missing(scanFrom, scanTo) \ failed)
       /\ cursor' = Max({scanFrom, scanTo})
       /\ skipped' = skipped \cup failed \cup missing(cursor, scanFrom)
  /\ UNCHANGED <<chain_vars, informing, rep>>

\* The scan ends early, with some inserts done and the cursor where the window
\* starts, or where it was.  The second half runs all the same.
scanFails ==
  /\ job.pc = "idle"
  /\ job' = [IdleJob EXCEPT !.pc = "scanned"]
  /\ \E done \in SUBSET missing(scanFrom, scanTo) :
       /\ insertMissingLoan(done)
       /\ \/ cursor' = scanFrom
          \/ done = {} /\ cursor' = cursor
       /\ skipped' = skipped \cup missing(cursor, cursor')
  /\ UNCHANGED <<chain_vars, informing, rep>>

\* Mutant: repaid rows without a hash are left out.
unsettledLoans_open_only == {n \in Loans : rows[n].status \in Unsettled /\ rows[n].closeTx = NoTx}

\* Repaid rows without the hash of their repayment are looked at too.
unsettledLoans == {n \in recorded : rows[n].closeTx = NoTx}

walking(j) == IF j.todo = <<>> THEN IdleJob ELSE [j EXCEPT !.pc = "walking"]
next_loan(j) == walking([j EXCEPT !.todo = Tail(@), !.event = NoTx])

distance(a, b) == IF a > b THEN a - b ELSE b - a
latestDbIsChainCurrent(loans) ==
  active /\ distance(Last(chain).start, rows[Head(loans)].startAt) <= MATCH_TOLERANCE

\* The reads the second half starts with: the unsettled rows, the ledger and
\* the chain's loan.  With a loan active every row but its own is a ghost.
syncLoansWithChain ==
  /\ job.pc = "scanned"
  /\ \E loans \in newest_first(unsettledLoans) :
       job' = IF loans = <<>> THEN IdleJob
              ELSE walking([job EXCEPT !.active = active, !.block = ledger,
                              !.todo = IF latestDbIsChainCurrent(loans) THEN Tail(loans) ELSE loans])
  /\ UNCHANGED <<chain_vars, db_vars, informing, rep>>

\* An RPC error abandons the wallet, except that ghosts are tried one by one.
syncRpcError ==
  /\ job.pc \in {"scanned", "walking"}
  /\ job' = IF job.pc = "walking" /\ job.active THEN next_loan(job) ELSE IdleJob
  /\ UNCHANGED <<chain_vars, db_vars, informing, rep>>

\* The newest closing that is not older than the row.
close_events(startAt) ==
  {m \in closings : 2 * m <= job.block /\ 2 * m >= job.block - CLOSE_LOOKBACK /\ chain[m].closed >= startAt}

findLoanClosedEvent(n) ==
  /\ job.pc = "walking" /\ n = Head(job.todo)
  /\ LET found == close_events(rows[n].startAt)
     IN job' = [job EXCEPT !.pc = "found", !.event = IF found = {} THEN NoTx ELSE Max(found)]
  /\ UNCHANGED <<chain_vars, db_vars, informing, rep>>

closerLoan(n, m) ==
  {k \in recorded \ {n} : rows[n].startAt < rows[k].startAt /\ rows[k].startAt <= chain[m].closed}

\* Mutant: the row is not read again under the lock.
reconcilable_stale(n, m) == m # NoTx /\ closerLoan(n, m) = {} /\ usedBy(m) \ {n} = {}

reconcilable(n, m) ==
  /\ rows[n].closeTx = NoTx
  /\ m # NoTx
  /\ closerLoan(n, m) = {}
  /\ usedBy(m) \ {n} = {}

reconcileLoan(n) ==
  /\ job.pc = "found" /\ n = Head(job.todo)
  /\ IF reconcilable(n, job.event)
     THEN rows' = [rows EXCEPT ![n].status = repaidStatus(n, chain[job.event].closed),
                               ![n].closeTx = job.event]
     ELSE UNCHANGED rows
  /\ job' = next_loan(job)
  /\ UNCHANGED <<chain_vars, cursor, skipped, informing, rep>>

-----------------------------------------------------------------------------
\* The backend restarts: requests and the job in progress are gone.
restart ==
  /\ rep # IdleRep \/ job # IdleJob \/ informing # {}
  /\ rep' = IdleRep /\ job' = IdleJob /\ informing' = {}
  /\ UNCHANGED <<chain_vars, db_vars>>

MirrorInit ==
  /\ now = 0 /\ chain = <<>>
  /\ rows = [n \in Loans |-> NoRow]
  /\ cursor = 0 /\ skipped = {}
  /\ informing = {}
  /\ rep = IdleRep /\ job = IdleJob

MirrorNext ==
  \/ Tick \/ open_loan \/ close_loan
  \/ \E n \in Loans : informLoanOpened(n) \/ informInsert(n) \/ promoteDefaulted(n)
  \/ \E tx \in closings \cup {NoTx} : processRepayment(tx)
  \/ repayCommit \/ repayRefused
  \/ scanLoanOpenedEvents \/ scanFails \/ syncLoansWithChain \/ syncRpcError
  \/ \E n \in Loans : findLoanClosedEvent(n) \/ reconcileLoan(n)
  \/ restart

\* The queue repeats sync-loans every ten minutes, and neither the RPC nor the
\* process fails for ever at the same row: a step of the job that is possible
\* again and again is taken in the end.  Nothing is assumed of the frontend.
JobFairness ==
  /\ SF_vars(scanLoanOpenedEvents) /\ SF_vars(syncLoansWithChain)
  /\ \A n \in Loans : SF_vars(findLoanClosedEvent(n)) /\ SF_vars(reconcileLoan(n))

MirrorSpec == MirrorInit /\ [][MirrorNext]_vars /\ JobFairness

-----------------------------------------------------------------------------
\* Type invariant; the repayment handler holds a repayment the chain has seen.
MirrorTypeOK ==
  /\ now \in 0..MaxTime
  /\ chain \in Seq([start: 1..MaxTime, closed: 0..MaxTime])
  /\ rows \in [Loans -> Row]
  /\ cursor \in 0..2 * MaxLoans
  /\ informing \subseteq opened
  /\ rep.pc \in {"idle", "verified"} /\ rep.tx \in closings \cup {NoTx}
  /\ job.pc \in {"idle", "scanned", "walking", "found"}
  /\ skipped \subseteq Loans

\* The hash on a row is that of a repayment the chain has seen, and no two
\* rows carry the same one: verification, the idempotency check, the search
\* for the closing and the unique index, whichever of them comes first.
CloseHashIsAClosing ==
  \A n \in Loans : rows[n].closeTx \in Loans =>
    rows[n].closeTx \in closings /\ usedBy(rows[n].closeTx) = {n}

\* A row that has its hash is settled for good: no handler that read it before
\* writes it again after.
SettledRowsAreFinal ==
  [][\A n \in Loans : rows[n].closeTx # NoTx => rows'[n] = rows[n]]_vars

\* Again and again every loan of the chain has its row, whatever the frontend
\* does, except those the scanner went past without inserting them.
EveryLoanIsRecorded == []<>(opened \subseteq recorded \cup skipped)

\* The wallet's last loan, repaid and recorded no later than its repayment, is
\* not left unsettled for ever though nobody reports the repayment, unless the
\* repayment is already on another row or an older loan was recorded in between
\* (its startAt is then the later one, and the reconciler takes it for closer).
LastLoanSettles ==
  []<>~(LET n == Len(chain)
        IN /\ n \in closings \cap recorded /\ rows[n].closeTx = NoTx
           /\ rows[n].startAt <= chain[n].closed
           /\ usedBy(n) = {} /\ closerLoan(n, n) = {})

\* "The ordering removes the opportunity for the race entirely": the
\* reconciler never gives a closing to a row while the row of the loan that
\* was closed is missing (infrastructure/queue/chain-sync.processor.ts:20-24).
ScanFirstRemovesTheRace ==
  [][\A n \in Loans : reconcileLoan(n) /\ rows'[n].closeTx # rows[n].closeTx
       => rows[rows'[n].closeTx].status # "none"]_vars
=============================================================================
