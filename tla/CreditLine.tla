------------------------------ MODULE CreditLine ------------------------------
(***************************************************************************)
(* One user's score and limit, in the database and on the chain, and the   *)
(* five writers that keep the two together:                                *)
(*                                                                         *)
(*   verify      LoanVerificationService.verify                            *)
(*   repayment   the second half of processRepayment                       *)
(*   sync        updateCreditScore, after reconcileLoan closed a row       *)
(*   renewal     renewExpiredOffers                                        *)
(*   recalc      recalculateAllLimits                                      *)
(*                                                                         *)
(* The last three are jobs of one worker with concurrency 1.  Each reads   *)
(* the user, sends set_user_risk through the operator's queue and, once it *)
(* is confirmed, stores the user: repayment and sync store the whole copy  *)
(* they read.  A database transaction or a read is one step.               *)
(***************************************************************************)
EXTENDS Integers, CreditPolicy, TxQueue

CONSTANTS
  MaxRepayments  \* bound: loans repaid

VARIABLES
  user,       \* the users row; score 0 is NULL
  risk,       \* the chain's set_user_risk, and how old it is
  onTime,     \* rows with repaidOnTime
  repaid,     \* loans repaid
  defaulted,  \* the chain's loan is marked defaulted
  worker      \* the three threads of control

db_vars == <<user, onTime, repaid>>
vars == <<user, risk, onTime, repaid, defaulted, worker, queue_vars>>

Clients == {"verify", "repayment", "job"}
Credit == [score: 0..11, limit: 0..25]
Task == [client: Clients, call: Credit]

ASSUME CreditAssumption == MaxRepayments \in Nat /\ NoTask \notin Task

Kinds == {"none", "first", "refresh", "on_time", "late", "post_default",
          "sync_on_time", "sync_late", "renewal", "recalc"}

NewUser == [score |-> 0, limit |-> 0, hadDefaultEver |-> FALSE]
credit_of(u) == [score |-> u.score, limit |-> u.limit]
Idle == [pc |-> "idle", kind |-> "none", copy |-> NewUser, credit |-> credit_of(NewUser)]

\* What credit_limit() answers: nothing once the score has expired.
readCreditLimitOnChain == IF risk.validity \in {"fresh", "due"} THEN risk.limit ELSE 0

ladderCredit(n) ==
  [score |-> getStepForOnTimeLoans(n).score, limit |-> getStepForOnTimeLoans(n).limitUsdc]

-----------------------------------------------------------------------------
(* Sending, and being answered.                                             *)

\* giveCreditScoreAndLimit: the worker waits for the queue.
giveCreditScoreAndLimit(c, kind, copy, credit, priority) ==
  /\ enqueueSoroban([client |-> c, call |-> credit], priority)
  /\ worker' = [worker EXCEPT ![c] = [pc |-> "waiting", kind |-> kind, copy |-> copy, credit |-> credit]]

landed(credit) == [score |-> credit.score, limit |-> credit.limit, validity |-> "fresh"]

\* A confirmed writer stores the user next, unless its kind stores nothing.
stores(w) ==
  \/ w.kind \in {"first", "on_time", "post_default", "sync_on_time", "sync_late"}
  \/ w.kind = "recalc" /\ credit_of(w.copy) # w.credit

run_task ==
  /\ dispatch \/ buildContractTransaction \/ sendPreparedTransaction
  /\ UNCHANGED <<db_vars, risk, defaulted, worker>>

call_lands ==
  /\ \/ land_own /\ risk' = landed(running.call)
     \/ \E call \in orphans : land_orphan(call) /\ risk' = landed(call)
  /\ UNCHANGED <<db_vars, defaulted, worker>>

call_dropped ==
  /\ drop_own \/ \E call \in orphans : drop_orphan(call)
  /\ UNCHANGED <<db_vars, risk, defaulted, worker>>

call_confirmed ==
  /\ resolve
  /\ worker' = [worker EXCEPT ![running.client] =
                  IF stores(@) THEN [@ EXCEPT !.pc = "confirmed"] ELSE Idle]
  /\ UNCHANGED <<db_vars, risk, defaulted>>

\* Every writer swallows the error: nothing is stored and nothing retried.
call_failed ==
  /\ reject
  /\ worker' = [worker EXCEPT ![running.client] = Idle]
  /\ UNCHANGED <<db_vars, risk, defaulted>>

\* save() stores every column of the copy; update() the two it names.
stored(w) ==
  [(IF w.kind \in {"first", "recalc"} THEN user ELSE w.copy)
     EXCEPT !.score = w.credit.score, !.limit = w.credit.limit]

store(c) ==
  /\ worker[c].pc = "confirmed"
  /\ user' = stored(worker[c])
  /\ worker' = [worker EXCEPT ![c] = Idle]
  /\ UNCHANGED <<risk, onTime, repaid, defaulted, queue_vars>>

-----------------------------------------------------------------------------
(* verify().  A limit of 0 on the chain is taken for an expired one.        *)

verify ==
  /\ worker["verify"] = Idle
  /\ \/ /\ user.score # 0 /\ readCreditLimitOnChain = 0
        /\ giveCreditScoreAndLimit("verify", "refresh", user,
             [score |-> user.score, limit |-> getStepForScore(user.score).limitUsdc], "low")
     \/ /\ user.score = 0
        /\ giveCreditScoreAndLimit("verify", "first", user, ladderCredit(0), "low")
  /\ UNCHANGED <<db_vars, risk, defaulted>>

-----------------------------------------------------------------------------
(* processRepayment: the user is read before the row is closed.             *)

processRepayment ==
  /\ worker["repayment"] = Idle /\ user.score # 0
  /\ worker' = [worker EXCEPT !["repayment"] = [Idle EXCEPT !.pc = "read", !.copy = user]]
  /\ UNCHANGED <<db_vars, risk, defaulted, queue_vars>>

\* A loan is repaid: what the chain marked defaulted is more than 16 days late.
repay_loan(kind) ==
  /\ repaid < MaxRepayments /\ repaid' = repaid + 1
  /\ defaulted => kind \in {"post_default", "sync_late"}
  /\ defaulted' = FALSE
  /\ onTime' = IF kind \in {"on_time", "sync_on_time"} THEN onTime + 1 ELSE onTime

\* The flag is saved with the whole copy, and only if the copy lacks it.
closeRow(kind) ==
  /\ worker["repayment"].pc = "read"
  /\ repay_loan(kind)
  /\ LET copy == [worker["repayment"].copy EXCEPT !.hadDefaultEver = @ \/ kind = "post_default"]
     IN /\ worker' = [worker EXCEPT !["repayment"].pc = "closed", !["repayment"].kind = kind,
                                    !["repayment"].copy = copy]
        /\ user' = IF copy # worker["repayment"].copy THEN copy ELSE user
  /\ UNCHANGED <<risk, queue_vars>>

\* Mutant: every repayment is worth a step.
repaymentCredit_any(w) ==
  LET score == IF w.kind = "post_default" THEN w.copy.score ELSE w.copy.score + 1
  IN [score |-> score, limit |-> getStepForScore(score).limitUsdc]

\* One step up the ladder at most, two steps down after a default, a renewal
\* of the limit otherwise.
repaymentCredit(w) ==
  LET score == CASE w.kind = "on_time" -> Min({getStepForOnTimeLoans(onTime).score, w.copy.score + 1})
                 [] w.kind = "post_default" -> Max({1, w.copy.score - 2})
                 [] OTHER -> w.copy.score
      limit == getStepForScore(score).limitUsdc
  IN [score |-> score,
      limit |-> IF w.kind = "post_default" THEN limit ELSE Max({w.copy.limit, limit})]

repaymentSend ==
  LET w == worker["repayment"]
  IN /\ w.pc = "closed"
     /\ giveCreditScoreAndLimit("repayment", w.kind, w.copy, repaymentCredit(w), "high")
     /\ UNCHANGED <<db_vars, risk, defaulted>>

-----------------------------------------------------------------------------
(* The chain-sync worker.                                                   *)

reconcileLoan(kind) ==
  /\ worker["job"] = Idle /\ user.score # 0
  /\ repay_loan(kind)
  /\ worker' = [worker EXCEPT !["job"] = [Idle EXCEPT !.pc = "closed", !.kind = kind]]
  /\ UNCHANGED <<user, risk, queue_vars>>

\* Mutant: a late loan costs two steps.
syncCredit_penalty(kind) ==
  LET score == IF kind = "sync_on_time" THEN getStepForOnTimeLoans(onTime).score
               ELSE Max({1, user.score - 2})
  IN [score |-> score, limit |-> getStepForScore(score).limitUsdc]

\* The ladder's step at once, without the cap and without the penalty.
syncCredit(kind) ==
  [score |-> IF kind = "sync_on_time" THEN getStepForOnTimeLoans(onTime).score ELSE user.score,
   limit |-> IF kind = "sync_on_time"
             THEN Max({user.limit, getStepForOnTimeLoans(onTime).limitUsdc}) ELSE user.limit]

\* A loan closed within the last two minutes goes first.
updateCreditScore ==
  LET w == worker["job"]
  IN /\ w.pc = "closed"
     /\ \E priority \in {"high", "low"} :
          giveCreditScoreAndLimit("job", w.kind, user, syncCredit(w.kind), priority)
     /\ UNCHANGED <<db_vars, risk, defaulted>>

\* The users are listed first and each one's expiry is read after.
listUsers ==
  /\ worker["job"] = Idle /\ user.score # 0
  /\ worker' = [worker EXCEPT !["job"] = [Idle EXCEPT !.pc = "read", !.copy = user]]
  /\ UNCHANGED <<db_vars, risk, defaulted, queue_vars>>

\* Mutant: only what has not expired yet is renewed.
renewExpiredOffers_not_expired ==
  LET w == worker["job"]
  IN /\ w.pc = "read"
     /\ risk.validity = "due"
     /\ giveCreditScoreAndLimit("job", "renewal", w.copy, credit_of(w.copy), "low")
     /\ UNCHANGED <<db_vars, risk, defaulted>>

renewExpiredOffers ==
  LET w == worker["job"]
  IN /\ w.pc = "read"
     /\ risk.validity \in {"due", "expired"}
     /\ giveCreditScoreAndLimit("job", "renewal", w.copy, credit_of(w.copy), "low")
     /\ UNCHANGED <<db_vars, risk, defaulted>>

\* The chain is written before the database.
recalcUser(checkChain) ==
  LET w == worker["job"]
      credit == ladderCredit(onTime)
  IN /\ w.pc = "read"
     /\ IF checkChain /\ (risk.score # credit.score \/ risk.limit # credit.limit)
        THEN giveCreditScoreAndLimit("job", "recalc", w.copy, credit, "low")
        ELSE /\ worker' = [worker EXCEPT !["job"] =
                  IF credit_of(w.copy) = credit THEN Idle
                  ELSE [@ EXCEPT !.pc = "confirmed", !.kind = "recalc", !.credit = credit]]
             /\ UNCHANGED queue_vars
     /\ UNCHANGED <<db_vars, risk, defaulted>>

\* The chain is looked at only when the canary of the user's level, perhaps
\* another user, is off the ladder or cannot be read.
recalculateAllLimits == \E checkChain \in BOOLEAN : recalcUser(checkChain)

\* Nothing to renew, or the read failed.
nothingToRenew ==
  /\ worker["job"].pc = "read"
  /\ worker' = [worker EXCEPT !["job"] = Idle]
  /\ UNCHANGED <<db_vars, risk, defaulted, queue_vars>>

-----------------------------------------------------------------------------
(* The environment.                                                         *)

\* valid_until comes within three days, and passes.
pass_time ==
  /\ risk.validity \in {"fresh", "due"}
  /\ risk' = [risk EXCEPT !.validity = IF @ = "fresh" THEN "due" ELSE "expired"]
  /\ UNCHANGED <<db_vars, defaulted, worker, queue_vars>>

\* The owner marks the loan defaulted: the limit is zero.
mark_default ==
  /\ ~defaulted /\ repaid < MaxRepayments /\ risk.validity # "unset"
  /\ defaulted' = TRUE /\ risk' = [risk EXCEPT !.limit = 0]
  /\ UNCHANGED <<db_vars, worker, queue_vars>>

\* The backend restarts.
restart ==
  /\ \E c \in Clients : worker[c] # Idle
  /\ worker' = [c \in Clients |-> Idle]
  /\ queue_restart
  /\ UNCHANGED <<db_vars, risk, defaulted>>

CreditInit ==
  /\ user = NewUser /\ risk = [score |-> 0, limit |-> 0, validity |-> "unset"]
  /\ onTime = 0 /\ repaid = 0 /\ defaulted = FALSE
  /\ worker = [c \in Clients |-> Idle] /\ QueueInit

CreditNext ==
  \/ run_task \/ call_lands \/ call_dropped \/ call_confirmed \/ call_failed
  \/ \E c \in Clients : store(c)
  \/ verify
  \/ processRepayment \/ \E kind \in {"on_time", "late", "post_default"} : closeRow(kind)
  \/ repaymentSend
  \/ \E kind \in {"sync_on_time", "sync_late"} : reconcileLoan(kind)
  \/ updateCreditScore
  \/ listUsers \/ renewExpiredOffers \/ nothingToRenew
  \/ recalculateAllLimits
  \/ pass_time \/ mark_default \/ restart

\* The process takes its next step, a transaction sent lands or does not, time
\* passes, and the worker lists the users every six hours.  Having listed
\* them, it does not for ever find a reason not to renew what is due.
CreditFairness ==
  /\ WF_vars(run_task) /\ WF_vars(call_lands \/ call_dropped)
  /\ WF_vars(call_confirmed \/ call_failed)
  /\ \A c \in Clients : WF_vars(store(c))
  /\ WF_vars(updateCreditScore) /\ WF_vars(listUsers) /\ WF_vars(pass_time)
  /\ SF_vars(renewExpiredOffers)

CreditSpec == CreditInit /\ [][CreditNext]_vars /\ CreditFairness

-----------------------------------------------------------------------------
\* Type invariant; `processing' is set exactly while a task runs.
CreditTypeOK ==
  /\ user \in [score: 0..11, limit: 0..25, hadDefaultEver: BOOLEAN]
  /\ risk \in [score: 0..11, limit: 0..25, validity: {"unset", "fresh", "due", "expired"}]
  /\ onTime \in 0..MaxRepayments /\ repaid \in 0..MaxRepayments /\ defaulted \in BOOLEAN
  /\ \A c \in Clients : worker[c].pc \in {"idle", "read", "closed", "waiting", "confirmed"}
  /\ \A c \in Clients : worker[c].kind \in Kinds
  /\ stage \in Stages /\ (stage = "idle") = (running = NoTask)

\* No score and no limit, in the database, on the chain or on its way there,
\* is above the ladder's step for the loans repaid on time, whichever writers
\* overlap and however stale what they read.
CreditIsEarned ==
  \A credit \in {user, risk} \cup orphans \cup {worker[c].credit : c \in Clients} :
    /\ credit.score <= ladderCredit(onTime).score
    /\ credit.limit <= ladderCredit(onTime).limit

\* A writer lowers the score or loses the mark of a default only if it applies
\* the penalty, or if the user it read has been overtaken by another writer.
OnlyOvertakenWritersLoseUpdates ==
  [][(user'.score < user.score \/ (user.hadDefaultEver /\ ~user'.hadDefaultEver))
       => \E c \in Clients :
            /\ worker'[c] # worker[c]
            /\ worker[c].kind = "post_default" \/ worker[c].copy # user]_vars

\* Nobody waits for ever for the operator's queue, whatever fails.
EveryCallIsAnswered == \A c \in Clients : []<>(worker[c].pc # "waiting")

\* If calls stop failing, the chain has again and again the score and limit of
\* the database: the renewal repairs what failed writes and overtaken writers
\* left apart.
Failure == call_failed \/ call_dropped \/ restart
RenewalRepairsTheChain ==
  <>[][~Failure]_vars => []<>(user.score = 0 \/ credit_of(user) = credit_of(risk))
=============================================================================
