------------------------------ MODULE CreditProofs ------------------------------
(* One user's credit, for any number of repayments, whatever the writers,   *)
(* the queue, the ledger and restarts do.  That no credit is above what was *)
(* earned is inductive only when it is also said of everything a later step *)
(* copies from: the calls that wait in the queue or run, and the users that *)
(* the writers have read (WorkersOK, QueueOK).  That a writer stores no     *)
(* score below the one it read needs the queue to answer the caller it      *)
(* answers for: a call is the only one of its writer, and its writer waits  *)
(* (OneCallEach).                                                           *)
EXTENDS CreditLine, TLAPS

\* A credit not above the ladder's step for n loans repaid on time.
earned(credit, n) ==
  credit.score <= ladderCredit(n).score /\ credit.limit <= ladderCredit(n).limit

User == [score: 0..11, limit: 0..25, hadDefaultEver: BOOLEAN]
Risk == [score: 0..11, limit: 0..25, validity: {"unset", "fresh", "due", "expired"}]

Credits(n) == {c \in Credit : earned(c, n)}
Users(n) == {u \in User : earned(u, n)}
Tasks(n) == [client: Clients, call: Credits(n)]
Workers(n) ==
  [pc: {"idle", "read", "closed", "waiting", "confirmed"}, kind: Kinds,
   copy: Users(n), credit: Credits(n)]

LoansOK == onTime \in Nat /\ repaid \in 0..MaxRepayments /\ onTime <= repaid /\ defaulted \in BOOLEAN

StoresOK == user \in Users(onTime) /\ risk \in Risk /\ earned(risk, onTime)

QueueOK ==
  /\ highQueue \in Seq(Tasks(onTime)) /\ lowQueue \in Seq(Tasks(onTime))
  /\ running \in Tasks(onTime) \cup {NoTask} /\ stage \in Stages
  /\ (stage = "idle") <=> (running = NoTask)
  /\ orphans \subseteq Credits(onTime)

WorkersOK == worker \in [Clients -> Workers(onTime)]

\* Only the penalty sends a score below the one that was read.
Fair(w) ==
  w.pc \in {"waiting", "confirmed"} /\ w.kind # "post_default" => w.credit.score >= w.copy.score
NeverLower == \A c \in Clients : Fair(worker[c])

\* A call in the queue or running is the only one of its writer, which waits.
Calls(q, r, w) ==
  \A i \in DOMAIN q :
    /\ w[q[i].client].pc = "waiting"
    /\ r # NoTask => q[i].client # r.client
    /\ \A j \in DOMAIN q : q[i].client = q[j].client => i = j
OneCallEach ==
  /\ Calls(highQueue, running, worker) /\ Calls(lowQueue, running, worker)
  /\ running # NoTask => worker[running.client].pc = "waiting"
  /\ \A i \in DOMAIN highQueue, j \in DOMAIN lowQueue : highQueue[i].client # lowQueue[j].client

\* The inductive invariant.
CreditInv == LoansOK /\ StoresOK /\ QueueOK /\ WorkersOK /\ NeverLower /\ OneCallEach

-----------------------------------------------------------------------------
(* The ladder.                                                              *)

LEMMA MaxIs ==
  ASSUME NEW S \in SUBSET Int, NEW m \in S, \A y \in S : m >= y
  PROVE  Max(S) = m
<1>1. \A x \in S : (\A y \in S : x >= y) => x = m
  <2> SUFFICES ASSUME NEW x \in S, \A y \in S : x >= y PROVE x = m
    OBVIOUS
  <2>1. x >= m /\ m >= x /\ x \in Int /\ m \in Int
    OBVIOUS
  <2> QED
    BY <2>1
<1>2. Max(S) \in S /\ \A y \in S : Max(S) >= y
  BY DEF Max
<1> QED
  BY <1>1, <1>2

LEMMA MinIs ==
  ASSUME NEW S \in SUBSET Int, NEW m \in S, \A y \in S : m <= y
  PROVE  Min(S) = m
<1>1. \A x \in S : (\A y \in S : x <= y) => x = m
  <2> SUFFICES ASSUME NEW x \in S, \A y \in S : x <= y PROVE x = m
    OBVIOUS
  <2>1. x >= m /\ m >= x /\ x \in Int /\ m \in Int
    OBVIOUS
  <2> QED
    BY <2>1
<1>2. Min(S) \in S /\ \A y \in S : Min(S) <= y
  BY DEF Min
<1> QED
  BY <1>1, <1>2

\* The greater of two numbers is one of them and not below either.
LEMMA MaxOfTwo ==
  ASSUME NEW a \in Int, NEW b \in Int
  PROVE  Max({a, b}) \in {a, b} /\ Max({a, b}) >= a /\ Max({a, b}) >= b
<1>1. CASE a >= b
  <2>1. Max({a, b}) = a
    BY <1>1, MaxIs
  <2> QED
    BY <1>1, <2>1
<1>2. CASE ~(a >= b)
  <2>1. Max({a, b}) = b
    BY <1>2, MaxIs
  <2> QED
    BY <1>2, <2>1
<1> QED
  BY <1>1, <1>2

LEMMA MinOfTwo ==
  ASSUME NEW a \in Int, NEW b \in Int
  PROVE  Min({a, b}) \in {a, b} /\ Min({a, b}) <= a /\ Min({a, b}) <= b
<1>1. CASE a <= b
  <2>1. Min({a, b}) = a
    BY <1>1, MinIs
  <2> QED
    BY <1>1, <2>1
<1>2. CASE ~(a <= b)
  <2>1. Min({a, b}) = b
    BY <1>2, MinIs
  <2> QED
    BY <1>2, <2>1
<1> QED
  BY <1>1, <1>2

LimitAt(i) == CREDIT_LADDER[i].limitUsdc

\* The rungs are numbered by their score, and their limits do not fall.
LEMMA Rungs ==
  /\ \A i \in 1..11 : /\ CREDIT_LADDER[i].minOnTimeLoans = i - 1
                      /\ CREDIT_LADDER[i].score = i
                      /\ LimitAt(i) \in 1..25
  /\ \A i, j \in 1..11 : i <= j => LimitAt(i) <= LimitAt(j)
BY DEF CREDIT_LADDER, LimitAt

\* The rung that n loans repaid on time, or a score of s, reach.
Rung(n) == IF n >= 10 THEN 11 ELSE n + 1
RungOfScore(s) == IF s < 1 THEN 1 ELSE s

LEMMA LadderCredit ==
  ASSUME NEW n \in Nat
  PROVE  /\ Rung(n) \in 1..11
         /\ ladderCredit(n).score = Rung(n) /\ ladderCredit(n).limit = LimitAt(Rung(n))
         /\ ladderCredit(n) \in Credit
<1> DEFINE S == {1} \cup {i \in 1..11 : n >= CREDIT_LADDER[i].minOnTimeLoans}
<1>1. Rung(n) \in 1..11
  BY DEF Rung
<1>2. S = {1} \cup {i \in 1..11 : n >= i - 1}
  BY Rungs
<1>3. Max(S) = Rung(n)
  <2>1. Rung(n) \in S /\ S \in SUBSET Int
    BY <1>1, <1>2 DEF Rung
  <2>2. \A y \in S : Rung(n) >= y
    BY <1>2 DEF Rung
  <2> HIDE DEF S
  <2> QED
    BY <2>1, <2>2, MaxIs
<1>4. getStepForOnTimeLoans(n) = CREDIT_LADDER[Rung(n)]
  BY <1>3 DEF getStepForOnTimeLoans
<1> HIDE DEF S
<1> QED
  BY <1>1, <1>4, Rungs DEF ladderCredit, LimitAt, Credit

LEMMA ScoreLimit ==
  ASSUME NEW s \in Int, s <= 11
  PROVE  RungOfScore(s) \in 1..11 /\ getStepForScore(s).limitUsdc = LimitAt(RungOfScore(s))
<1> DEFINE S == {1} \cup {i \in 1..11 : s >= CREDIT_LADDER[i].score}
<1>1. RungOfScore(s) \in 1..11
  BY DEF RungOfScore
<1>2. S = {1} \cup {i \in 1..11 : s >= i}
  BY Rungs
<1>3. Max(S) = RungOfScore(s)
  <2>1. RungOfScore(s) \in S /\ S \in SUBSET Int
    BY <1>1, <1>2 DEF RungOfScore
  <2>2. \A y \in S : RungOfScore(s) >= y
    BY <1>2 DEF RungOfScore
  <2> HIDE DEF S
  <2> QED
    BY <2>1, <2>2, MaxIs
<1>4. getStepForScore(s) = CREDIT_LADDER[RungOfScore(s)]
  BY <1>3 DEF getStepForScore
<1> QED
  BY <1>1, <1>4 DEF LimitAt

\* The limit of an earned score is an earned limit.
LEMMA EarnedScore ==
  ASSUME NEW n \in Nat, NEW s \in Int, s <= ladderCredit(n).score
  PROVE  /\ s <= 11 /\ getStepForScore(s).limitUsdc \in 1..25
         /\ getStepForScore(s).limitUsdc <= ladderCredit(n).limit
<1>1. /\ Rung(n) \in 1..11 /\ ladderCredit(n).score = Rung(n) /\ ladderCredit(n).limit = LimitAt(Rung(n))
  BY LadderCredit
<1>2. s <= 11
  BY <1>1
<1>3. RungOfScore(s) \in 1..11 /\ getStepForScore(s).limitUsdc = LimitAt(RungOfScore(s))
  BY <1>2, ScoreLimit
<1>4. RungOfScore(s) <= Rung(n)
  BY <1>1 DEF RungOfScore
<1> QED
  BY <1>1, <1>2, <1>3, <1>4, Rungs

\* What was earned stays earned.
LEMMA EarnedGrows ==
  ASSUME NEW m \in Nat, NEW n \in Nat, m <= n
  PROVE  /\ Credits(m) \subseteq Credits(n) /\ Users(m) \subseteq Users(n)
         /\ Tasks(m) \subseteq Tasks(n) /\ Workers(m) \subseteq Workers(n)
         /\ \A r \in Risk : earned(r, m) => earned(r, n)
<1>1. Rung(m) <= Rung(n)
  BY DEF Rung
<1>2. /\ ladderCredit(m).score <= ladderCredit(n).score
      /\ ladderCredit(m).limit <= ladderCredit(n).limit
      /\ ladderCredit(m) \in Credit /\ ladderCredit(n) \in Credit
  BY <1>1, LadderCredit, Rungs
<1>3. /\ ladderCredit(m).score \in Int /\ ladderCredit(n).score \in Int
      /\ ladderCredit(m).limit \in Int /\ ladderCredit(n).limit \in Int
  BY <1>2 DEF Credit
<1>4. ASSUME NEW c, c.score \in Int, c.limit \in Int, earned(c, m) PROVE earned(c, n)
  BY <1>2, <1>3, <1>4 DEF earned
<1>5. Credits(m) \subseteq Credits(n)
  BY <1>4 DEF Credits, Credit
<1>6. Users(m) \subseteq Users(n)
  BY <1>4 DEF Users, User
<1>7. \A r \in Risk : earned(r, m) => earned(r, n)
  BY <1>4 DEF Risk
<1>8. Tasks(m) \subseteq Tasks(n)
  BY <1>5 DEF Tasks
<1>9. Workers(m) \subseteq Workers(n)
  BY <1>5, <1>6 DEF Workers
<1> QED
  BY <1>5, <1>6, <1>7, <1>8, <1>9

\* A new user has earned the zero credit.
LEMMA Zero ==
  ASSUME NEW n \in Nat
  PROVE  NewUser \in Users(n) /\ credit_of(NewUser) \in Credits(n) /\ Idle \in Workers(n)
<1>1. ladderCredit(n) \in Credit
  BY LadderCredit
<1>2. NewUser \in Users(n) /\ credit_of(NewUser) \in Credits(n)
  BY <1>1 DEF NewUser, credit_of, Users, User, Credits, Credit, earned
<1> QED
  BY <1>2 DEF Idle, Workers, Kinds

-----------------------------------------------------------------------------
(* What the steps share.                                                    *)

\* What is in the queues, by its place.
LEMMA QueuedTask ==
  ASSUME CreditInv
  PROVE  /\ \A i \in DOMAIN highQueue : highQueue[i] \in Tasks(onTime) /\ highQueue[i].client \in Clients
         /\ \A i \in DOMAIN lowQueue : lowQueue[i] \in Tasks(onTime) /\ lowQueue[i].client \in Clients
         /\ running # NoTask => running \in Tasks(onTime) /\ running.client \in Clients
<1>1. /\ \A i \in DOMAIN highQueue : highQueue[i] \in Tasks(onTime)
      /\ \A i \in DOMAIN lowQueue : lowQueue[i] \in Tasks(onTime)
      /\ running # NoTask => running \in Tasks(onTime)
  BY DEF CreditInv, QueueOK
<1> QED
  BY <1>1 DEF Tasks

\* One writer's next state, seen by every writer.
LEMMA WorkersAfter ==
  ASSUME CreditInv, onTime' = onTime,
         NEW c \in Clients, NEW w \in Workers(onTime), Fair(w),
         worker' = [worker EXCEPT ![c] = w]
  PROVE  /\ WorkersOK' /\ NeverLower'
         /\ \A d \in Clients : worker'[d] = IF d = c THEN w ELSE worker[d]
<1>1. WorkersOK'
  BY DEF CreditInv, WorkersOK
<1>2. \A d \in Clients : worker'[d] = IF d = c THEN w ELSE worker[d]
  BY DEF CreditInv, WorkersOK
<1>3. NeverLower'
  BY <1>2 DEF NeverLower, CreditInv
<1> QED
  BY <1>1, <1>2, <1>3

\* A step of a worker that does not wait, and of no store.
LEMMA WorkerStep ==
  ASSUME CreditInv, UNCHANGED <<db_vars, risk, defaulted, queue_vars>>,
         NEW c \in Clients, NEW w \in Workers(onTime), Fair(w), worker[c].pc # "waiting",
         worker' = [worker EXCEPT ![c] = w]
  PROVE  CreditInv'
<1>1. LoansOK' /\ StoresOK' /\ QueueOK' /\ onTime' = onTime
  BY DEF CreditInv, LoansOK, StoresOK, QueueOK, db_vars, queue_vars
<1>2. /\ WorkersOK' /\ NeverLower'
      /\ \A d \in Clients : worker'[d] = IF d = c THEN w ELSE worker[d]
  BY <1>1, WorkersAfter
<1>3. OneCallEach'
  BY <1>2, QueuedTask DEF CreditInv, OneCallEach, Calls, queue_vars
<1> QED
  BY <1>1, <1>2, <1>3 DEF CreditInv

\* A step of the queue alone.
LEMMA QueueStep ==
  ASSUME CreditInv, UNCHANGED <<db_vars, defaulted, worker>>, QueueOK', OneCallEach',
         risk' \in Risk /\ earned(risk', onTime)
  PROVE  CreditInv'
BY DEF CreditInv, LoansOK, StoresOK, WorkersOK, NeverLower, db_vars

LEMMA IdleIsFair == Fair(Idle) /\ Idle.pc = "idle"
BY DEF Fair, Idle

\* A call joins a queue that has none of its writer.
LEMMA CallJoins ==
  ASSUME NEW n \in Nat, NEW q \in Seq(Tasks(n)), NEW task \in Tasks(n), NEW r, NEW w, NEW v,
         Calls(q, r, w), \A i \in DOMAIN q : v[q[i].client] = w[q[i].client],
         \A i \in DOMAIN q : q[i].client # task.client,
         v[task.client].pc = "waiting", r # NoTask => task.client # r.client
  PROVE  Append(q, task) \in Seq(Tasks(n)) /\ Calls(Append(q, task), r, v)
<1>1. /\ Append(q, task) \in Seq(Tasks(n)) /\ DOMAIN Append(q, task) = 1..(Len(q) + 1)
      /\ DOMAIN q = 1..Len(q) /\ Len(q) \in Nat
      /\ \A i \in 1..Len(q) : Append(q, task)[i] = q[i]
      /\ Append(q, task)[Len(q) + 1] = task
  OBVIOUS
<1> DEFINE s == Append(q, task)
<1>2. ASSUME NEW i \in DOMAIN s
      PROVE  /\ v[s[i].client].pc = "waiting"
             /\ r # NoTask => s[i].client # r.client
             /\ \A j \in DOMAIN s : s[i].client = s[j].client => i = j
  <2> HIDE DEF s
  <2>0. /\ DOMAIN s = 1..(Len(q) + 1) /\ s[Len(q) + 1] = task
        /\ \A k \in DOMAIN q : s[k] = q[k] /\ DOMAIN q = 1..Len(q) /\ Len(q) \in Nat
        /\ \A k \in DOMAIN s : k \in DOMAIN q \/ k = Len(q) + 1
    BY <1>1 DEF s
  <2>1. CASE i \in DOMAIN q
    BY <2>0, <2>1 DEF Calls
  <2>2. CASE i = Len(q) + 1
    BY <2>0, <2>2 DEF Calls
  <2> QED
    BY <2>0, <2>1, <2>2
<1> HIDE DEF s
<1>3. Calls(s, r, v)
  BY <1>2 DEF Calls
<1> QED
  BY <1>1, <1>3 DEF s

\* Sending an earned credit, not below the one that was read.
LEMMA Send ==
  ASSUME CreditInv, UNCHANGED <<db_vars, risk, defaulted>>,
         NEW c \in Clients, NEW kind \in Kinds, NEW copy \in Users(onTime),
         NEW credit \in Credits(onTime), NEW priority, worker[c].pc # "waiting",
         kind # "post_default" => credit.score >= copy.score,
         giveCreditScoreAndLimit(c, kind, copy, credit, priority)
  PROVE  CreditInv'
<1> DEFINE task == [client |-> c, call |-> credit]
           w == [pc |-> "waiting", kind |-> kind, copy |-> copy, credit |-> credit]
<1>1. task \in Tasks(onTime) /\ task.client = c
  BY DEF Tasks
<1>2. enqueueSoroban(task, priority) /\ worker' = [worker EXCEPT ![c] = w]
  BY DEF giveCreditScoreAndLimit
<1>3. w \in Workers(onTime) /\ w.pc = "waiting"
  BY DEF Workers
<1>4. Fair(w)
  BY DEF Fair
<1>5. LoansOK' /\ StoresOK' /\ onTime' = onTime /\ onTime \in Nat
  BY DEF db_vars, CreditInv, LoansOK, StoresOK
<1> HIDE DEF task, w
<1>6. /\ WorkersOK' /\ NeverLower'
      /\ \A d \in Clients : worker'[d] = IF d = c THEN w ELSE worker[d]
  BY <1>2, <1>3, <1>4, <1>5, WorkersAfter
\* No call is c's, so every caller's state is what it was.
<1>7. /\ \A i \in DOMAIN highQueue : /\ highQueue[i].client # c
                                     /\ worker'[highQueue[i].client] = worker[highQueue[i].client]
      /\ \A i \in DOMAIN lowQueue : /\ lowQueue[i].client # c
                                    /\ worker'[lowQueue[i].client] = worker[lowQueue[i].client]
      /\ running # NoTask => running.client # c /\ worker'[running.client] = worker[running.client]
  BY <1>6, QueuedTask DEF CreditInv, OneCallEach, Calls
<1>8. Calls(highQueue, running, worker') /\ Calls(lowQueue, running, worker')
  BY <1>7 DEF CreditInv, OneCallEach, Calls
<1>9. /\ highQueue \in Seq(Tasks(onTime)) /\ lowQueue \in Seq(Tasks(onTime))
      /\ Calls(highQueue, running, worker) /\ Calls(lowQueue, running, worker)
  BY DEF CreditInv, QueueOK, OneCallEach
<1>10. \A q \in {highQueue, lowQueue} :
         /\ Append(q, task) \in Seq(Tasks(onTime)) /\ Calls(Append(q, task), running, worker')
         /\ \A i \in DOMAIN Append(q, task) : i \in DOMAIN q \/ Append(q, task)[i] = task
         /\ \A i \in DOMAIN q : Append(q, task)[i] = q[i]
  <2>1. ASSUME NEW q \in Seq(Tasks(onTime))
        PROVE  /\ \A i \in DOMAIN Append(q, task) : i \in DOMAIN q \/ Append(q, task)[i] = task
               /\ \A i \in DOMAIN q : Append(q, task)[i] = q[i]
    BY <1>1
  <2>2. worker'[task.client].pc = "waiting" /\ (running # NoTask => task.client # running.client)
    BY <1>1, <1>3, <1>6, <1>7
  <2>3. /\ Append(highQueue, task) \in Seq(Tasks(onTime))
        /\ Calls(Append(highQueue, task), running, worker')
    BY <1>1, <1>5, <1>7, <1>9, <2>2, CallJoins
  <2>4. /\ Append(lowQueue, task) \in Seq(Tasks(onTime))
        /\ Calls(Append(lowQueue, task), running, worker')
    BY <1>1, <1>5, <1>7, <1>9, <2>2, CallJoins
  <2> QED
    BY <1>9, <2>1, <2>3, <2>4
<1>11. running' = running /\ stage' = stage /\ orphans' = orphans
  BY <1>2 DEF enqueueSoroban
<1>12. CASE priority = "high"
  <2>1. highQueue' = Append(highQueue, task) /\ lowQueue' = lowQueue
    BY <1>2, <1>12 DEF enqueueSoroban
  <2>2. QueueOK'
    BY <1>5, <1>10, <1>11, <2>1 DEF CreditInv, QueueOK
  <2>3. Calls(highQueue', running', worker') /\ Calls(lowQueue', running', worker')
    BY <1>8, <1>10, <1>11, <2>1
  <2>4. \A i \in DOMAIN highQueue', j \in DOMAIN lowQueue' : highQueue'[i].client # lowQueue'[j].client
    BY <1>1, <1>7, <1>10, <2>1 DEF CreditInv, OneCallEach
  <2>5. OneCallEach'
    BY <1>7, <1>11, <2>3, <2>4 DEF CreditInv, OneCallEach
  <2> QED
    BY <1>5, <1>6, <2>2, <2>5 DEF CreditInv
<1>13. CASE priority # "high"
  <2>1. lowQueue' = Append(lowQueue, task) /\ highQueue' = highQueue
    BY <1>2, <1>13 DEF enqueueSoroban
  <2>2. QueueOK'
    BY <1>5, <1>10, <1>11, <2>1 DEF CreditInv, QueueOK
  <2>3. Calls(highQueue', running', worker') /\ Calls(lowQueue', running', worker')
    BY <1>8, <1>10, <1>11, <2>1
  <2>4. \A i \in DOMAIN highQueue', j \in DOMAIN lowQueue' : highQueue'[i].client # lowQueue'[j].client
    BY <1>1, <1>7, <1>10, <2>1 DEF CreditInv, OneCallEach
  <2>5. OneCallEach'
    BY <1>7, <1>11, <2>3, <2>4 DEF CreditInv, OneCallEach
  <2> QED
    BY <1>5, <1>6, <2>2, <2>5 DEF CreditInv
<1> QED
  BY <1>12, <1>13

\* What a writer of the invariant holds.
LEMMA WorkerFacts ==
  ASSUME CreditInv, NEW c \in Clients
  PROVE  /\ worker[c] \in Workers(onTime) /\ Fair(worker[c])
         /\ worker[c].copy \in Users(onTime) /\ worker[c].kind \in Kinds
         /\ worker[c].credit \in Credits(onTime)
<1>1. worker[c] \in Workers(onTime) /\ Fair(worker[c])
  BY DEF CreditInv, WorkersOK, NeverLower
<1> QED
  BY <1>1 DEF Workers

\* The ladder's credit is the most that is earned.
LEMMA LadderIsEarned ==
  ASSUME NEW n \in Nat
  PROVE  /\ ladderCredit(n) \in Credits(n)
         /\ ladderCredit(n).score \in 1..11 /\ ladderCredit(n).limit \in 1..25
         /\ \A u \in Users(n) : u.score <= ladderCredit(n).score /\ u.limit <= ladderCredit(n).limit
         /\ \A u \in Users(n) : credit_of(u) \in Credits(n)
<1>1. /\ ladderCredit(n) \in Credit /\ Rung(n) \in 1..11
      /\ ladderCredit(n).score = Rung(n) /\ ladderCredit(n).limit = LimitAt(Rung(n))
  BY LadderCredit
<1>2. LimitAt(Rung(n)) \in 1..25
  BY <1>1, Rungs
<1>3. ladderCredit(n) \in Credits(n)
  BY <1>1, <1>2 DEF Credits, earned
<1>4. \A u \in Users(n) : u.score <= ladderCredit(n).score /\ u.limit <= ladderCredit(n).limit
  BY DEF Users, earned
<1>5. \A u \in Users(n) : credit_of(u) \in Credits(n)
  BY DEF Users, earned, credit_of, Credits, Credit, User
<1> QED
  BY <1>1, <1>2, <1>3, <1>4, <1>5

\* A score that is earned, with the limit of its step or an earned one.
LEMMA CreditFor ==
  ASSUME NEW n \in Nat, NEW s \in Nat, s <= ladderCredit(n).score
  PROVE  /\ [score |-> s, limit |-> getStepForScore(s).limitUsdc] \in Credits(n)
         /\ \A u \in Users(n) :
              [score |-> s, limit |-> Max({u.limit, getStepForScore(s).limitUsdc})] \in Credits(n)
<1>1. /\ s <= 11 /\ getStepForScore(s).limitUsdc \in 1..25
      /\ getStepForScore(s).limitUsdc <= ladderCredit(n).limit
  BY EarnedScore
<1>2. [score |-> s, limit |-> getStepForScore(s).limitUsdc] \in Credits(n)
  BY <1>1 DEF Credits, Credit, earned
<1>3. ASSUME NEW u \in Users(n)
      PROVE  [score |-> s, limit |-> Max({u.limit, getStepForScore(s).limitUsdc})] \in Credits(n)
  <2>1. u.limit \in 0..25 /\ u.limit <= ladderCredit(n).limit
    BY DEF Users, User, earned
  <2> DEFINE a == u.limit
             b == getStepForScore(s).limitUsdc
  <2>2. Max({a, b}) \in {a, b}
    <3>1. a \in Int /\ b \in Int
      BY <1>1, <2>1
    <3> HIDE DEF a, b
    <3> QED
      BY <3>1, MaxOfTwo
  <2>3. Max({a, b}) \in 0..25 /\ Max({a, b}) <= ladderCredit(n).limit
    BY <1>1, <2>1, <2>2
  <2> QED
    BY <1>1, <2>3 DEF Credits, Credit, earned
<1> QED
  BY <1>2, <1>3
-----------------------------------------------------------------------------
(* The queue and the ledger.                                                *)

LEMMA TaskIsATask ==
  ASSUME CreditInv
  PROVE  NoTask \notin Tasks(onTime)
<1>1. Tasks(onTime) \subseteq Task
  BY DEF Tasks, Task, Credits
<1> QED
  BY <1>1, CreditAssumption

LEMMA RunningTask ==
  ASSUME CreditInv, stage # "idle"
  PROVE  /\ running \in Tasks(onTime) /\ running # NoTask
         /\ running.client \in Clients /\ running.call \in Credits(onTime)
<1>1. running \in Tasks(onTime) /\ running # NoTask
  BY DEF CreditInv, QueueOK
<1> QED
  BY <1>1 DEF Tasks

LEMMA LandedIsRisk ==
  ASSUME NEW n \in Nat, NEW call \in Credits(n)
  PROVE  landed(call) \in Risk /\ earned(landed(call), n)
BY DEF landed, Risk, Credits, Credit, earned

\* A queue loses its first call, which runs.
LEMMA CallLeaves ==
  ASSUME NEW n \in Nat, NEW q \in Seq(Tasks(n)), q # <<>>, NEW w, Calls(q, NoTask, w)
  PROVE  /\ Head(q) \in Tasks(n) /\ Tail(q) \in Seq(Tasks(n)) /\ Head(q) = q[1] /\ 1 \in DOMAIN q
         /\ Calls(Tail(q), Head(q), w)
         /\ \A i \in DOMAIN Tail(q) : i + 1 \in DOMAIN q /\ Tail(q)[i] = q[i + 1]
<1>1. /\ Head(q) \in Tasks(n) /\ Tail(q) \in Seq(Tasks(n)) /\ Head(q) = q[1] /\ 1 \in DOMAIN q
      /\ \A i \in DOMAIN Tail(q) : i \in Nat /\ i > 0 /\ i + 1 \in DOMAIN q /\ Tail(q)[i] = q[i + 1]
  OBVIOUS
<1> DEFINE t == Tail(q)
<1>2. Calls(t, Head(q), w)
  <2> SUFFICES ASSUME NEW i \in DOMAIN t
               PROVE  /\ w[t[i].client].pc = "waiting" /\ t[i].client # Head(q).client
                      /\ \A j \in DOMAIN t : t[i].client = t[j].client => i = j
    BY DEF Calls
  <2>1. i \in Nat /\ i > 0 /\ i + 1 \in DOMAIN q /\ t[i] = q[i + 1]
    BY <1>1
  <2>2. w[t[i].client].pc = "waiting"
    BY <2>1 DEF Calls
  <2>3. t[i].client # Head(q).client
    BY <1>1, <2>1 DEF Calls
  <2>4. ASSUME NEW j \in DOMAIN t, t[i].client = t[j].client PROVE i = j
    <3>1. j \in Nat /\ j + 1 \in DOMAIN q /\ t[j] = q[j + 1]
      BY <1>1
    <3>2. i + 1 = j + 1
      BY <2>1, <2>4, <3>1 DEF Calls
    <3> QED
      BY <2>1, <3>1, <3>2
  <2> QED
    BY <2>2, <2>3, <2>4
<1> QED
  BY <1>1, <1>2

LEMMA Dispatch ==
  ASSUME CreditInv, dispatch, UNCHANGED <<onTime, worker>>
  PROVE  QueueOK' /\ OneCallEach'
<1>1. /\ highQueue \in Seq(Tasks(onTime)) /\ lowQueue \in Seq(Tasks(onTime))
      /\ orphans \subseteq Credits(onTime) /\ onTime \in Nat /\ NoTask \notin Tasks(onTime)
  BY TaskIsATask DEF CreditInv, QueueOK, LoansOK
<1>2. /\ running = NoTask /\ running' = Head(waiting) /\ stage' = "started" /\ orphans' = orphans
      /\ Calls(highQueue, NoTask, worker) /\ Calls(lowQueue, NoTask, worker)
      /\ \A i \in DOMAIN highQueue, j \in DOMAIN lowQueue : highQueue[i].client # lowQueue[j].client
  BY DEF dispatch, CreditInv, OneCallEach
<1>3. CASE highQueue # <<>>
  <2>1. Head(waiting) = Head(highQueue) /\ highQueue' = Tail(highQueue) /\ lowQueue' = lowQueue
    BY <1>1, <1>3 DEF dispatch, waiting
  <2>2. /\ Head(highQueue) \in Tasks(onTime) /\ Tail(highQueue) \in Seq(Tasks(onTime))
        /\ Head(highQueue) = highQueue[1] /\ 1 \in DOMAIN highQueue
        /\ Calls(Tail(highQueue), Head(highQueue), worker)
        /\ \A i \in DOMAIN Tail(highQueue) :
             i + 1 \in DOMAIN highQueue /\ Tail(highQueue)[i] = highQueue[i + 1]
    BY <1>1, <1>2, <1>3, CallLeaves
  <2>3. QueueOK'
    BY <1>1, <1>2, <2>1, <2>2 DEF QueueOK, Stages
  <2>4. Calls(lowQueue, Head(highQueue), worker)
    BY <1>2, <2>2 DEF Calls
  <2>5. worker[Head(highQueue).client].pc = "waiting"
    BY <1>2, <2>2 DEF Calls
  <2>6. OneCallEach'
    BY <1>2, <2>1, <2>2, <2>4, <2>5 DEF OneCallEach
  <2> QED
    BY <2>3, <2>6
<1>4. CASE highQueue = <<>>
  <2>1. waiting = lowQueue
    BY <1>1, <1>4 DEF waiting
  <2>2. lowQueue # <<>> /\ lowQueue' = Tail(lowQueue) /\ highQueue' = highQueue
    BY <1>4, <2>1 DEF dispatch
  <2>3. /\ Head(lowQueue) \in Tasks(onTime) /\ Tail(lowQueue) \in Seq(Tasks(onTime))
        /\ Head(lowQueue) = lowQueue[1] /\ 1 \in DOMAIN lowQueue
        /\ Calls(Tail(lowQueue), Head(lowQueue), worker)
    BY <1>1, <1>2, <2>2, CallLeaves
  <2>4. QueueOK'
    BY <1>1, <1>2, <2>1, <2>2, <2>3 DEF QueueOK, Stages
  <2>5. DOMAIN highQueue' = {}
    BY <1>4, <2>2
  <2>6. Calls(highQueue', Head(lowQueue), worker)
    BY <2>5 DEF Calls
  <2>7. worker[Head(lowQueue).client].pc = "waiting"
    BY <1>2, <2>3 DEF Calls
  <2>8. OneCallEach'
    BY <1>2, <2>1, <2>2, <2>3, <2>5, <2>6, <2>7 DEF OneCallEach
  <2> QED
    BY <2>4, <2>8
<1> QED
  BY <1>3, <1>4

LEMMA RunTask == CreditInv /\ run_task => CreditInv'
<1> SUFFICES ASSUME CreditInv, run_task PROVE CreditInv'
  OBVIOUS
<1>1. UNCHANGED <<db_vars, risk, defaulted, worker>> /\ onTime' = onTime
  BY DEF run_task, db_vars
<1>2. ASSUME dispatch PROVE QueueOK' /\ OneCallEach'
  BY <1>1, <1>2, Dispatch
<1>3. ASSUME buildContractTransaction PROVE QueueOK' /\ OneCallEach'
  BY <1>1, <1>3 DEF buildContractTransaction, CreditInv, QueueOK, Stages, OneCallEach, Calls
<1>4. ASSUME sendPreparedTransaction PROVE QueueOK' /\ OneCallEach'
  BY <1>1, <1>4 DEF sendPreparedTransaction, CreditInv, QueueOK, Stages, OneCallEach, Calls
<1>5. QueueOK' /\ OneCallEach'
  BY <1>2, <1>3, <1>4 DEF run_task
<1> QED
  BY <1>1, <1>5, QueueStep DEF CreditInv, StoresOK

LEMMA CallLands == CreditInv /\ call_lands => CreditInv'
<1> SUFFICES ASSUME CreditInv, call_lands PROVE CreditInv'
  OBVIOUS
<1>1. UNCHANGED <<db_vars, defaulted, worker>> /\ onTime' = onTime /\ onTime \in Nat
  BY DEF call_lands, db_vars, CreditInv, LoansOK
<1>2. CASE land_own /\ risk' = landed(running.call)
  <2>1. running.call \in Credits(onTime)
    BY <1>2, RunningTask DEF land_own
  <2>2. risk' \in Risk /\ earned(risk', onTime)
    BY <1>1, <1>2, <2>1, LandedIsRisk
  <2>3. QueueOK' /\ OneCallEach'
    BY <1>1, <1>2 DEF land_own, CreditInv, QueueOK, Stages, OneCallEach
  <2> QED
    BY <1>1, <2>2, <2>3, QueueStep
<1>3. ASSUME NEW call \in orphans, land_orphan(call), risk' = landed(call) PROVE CreditInv'
  <2>1. call \in Credits(onTime)
    BY DEF CreditInv, QueueOK
  <2>2. risk' \in Risk /\ earned(risk', onTime)
    BY <1>1, <1>3, <2>1, LandedIsRisk
  <2>3. QueueOK' /\ OneCallEach'
    BY <1>1, <1>3 DEF land_orphan, CreditInv, QueueOK, Stages, OneCallEach
  <2> QED
    BY <1>1, <2>2, <2>3, QueueStep
<1> QED
  BY <1>2, <1>3 DEF call_lands

LEMMA CallDropped == CreditInv /\ call_dropped => CreditInv'
<1> SUFFICES ASSUME CreditInv, call_dropped PROVE CreditInv'
  OBVIOUS
<1>1. UNCHANGED <<db_vars, risk, defaulted, worker>> /\ onTime' = onTime
  BY DEF call_dropped, db_vars
<1>2. ASSUME drop_own PROVE QueueOK' /\ OneCallEach'
  BY <1>1, <1>2 DEF drop_own, CreditInv, QueueOK, Stages, OneCallEach
<1>3. ASSUME NEW call \in orphans, drop_orphan(call) PROVE QueueOK' /\ OneCallEach'
  BY <1>1, <1>3 DEF drop_orphan, CreditInv, QueueOK, OneCallEach
<1>4. QueueOK' /\ OneCallEach'
  BY <1>2, <1>3 DEF call_dropped
<1> QED
  BY <1>1, <1>4, QueueStep DEF CreditInv, StoresOK

\* The caller is answered, and goes on to w.
LEMMA Answered ==
  ASSUME CreditInv, UNCHANGED <<db_vars, risk, defaulted, highQueue, lowQueue>>,
         running' = NoTask, stage' = "idle", orphans' \subseteq Credits(onTime), stage # "idle",
         NEW w \in Workers(onTime), Fair(w),
         worker' = [worker EXCEPT ![running.client] = w]
  PROVE  CreditInv'
<1> DEFINE c == running.client
<1>1. LoansOK' /\ StoresOK' /\ onTime' = onTime
  BY DEF CreditInv, LoansOK, StoresOK, db_vars
<1>2. c \in Clients /\ running # NoTask
  BY RunningTask
<1>3. /\ WorkersOK' /\ NeverLower'
      /\ \A d \in Clients : worker'[d] = IF d = c THEN w ELSE worker[d]
  BY <1>1, <1>2, WorkersAfter
<1>4. QueueOK'
  BY <1>1 DEF CreditInv, QueueOK, Stages
<1>5. OneCallEach'
  BY <1>2, <1>3, QueuedTask DEF CreditInv, OneCallEach, Calls
<1> QED
  BY <1>1, <1>3, <1>4, <1>5 DEF CreditInv

LEMMA CallConfirmed == CreditInv /\ call_confirmed => CreditInv'
<1> SUFFICES ASSUME CreditInv, call_confirmed PROVE CreditInv'
  OBVIOUS
<1>1. UNCHANGED <<db_vars, risk, defaulted>> /\ onTime \in Nat /\ resolve
  BY DEF call_confirmed, CreditInv, LoansOK
<1> DEFINE c == running.client
           w == IF stores(worker[c]) THEN [worker[c] EXCEPT !.pc = "confirmed"] ELSE Idle
<1>2. c \in Clients /\ worker[c].pc = "waiting"
  BY <1>1, RunningTask DEF resolve, CreditInv, OneCallEach
<1>3. worker' = [worker EXCEPT ![c] = w]
  BY <1>2 DEF call_confirmed, CreditInv, WorkersOK
<1>4. worker[c] \in Workers(onTime) /\ Fair(worker[c])
  BY <1>2, WorkerFacts
<1>5. w \in Workers(onTime) /\ Fair(w)
  <2>1. CASE stores(worker[c])
    <3>1. /\ w = [worker[c] EXCEPT !.pc = "confirmed"] /\ w.pc = "confirmed" /\ w.kind = worker[c].kind
          /\ w.copy = worker[c].copy /\ w.credit = worker[c].credit /\ w \in Workers(onTime)
      BY <1>4, <2>1 DEF Workers
    <3> HIDE DEF w
    <3> QED
      BY <1>2, <1>4, <3>1 DEF Fair
  <2>2. CASE ~stores(worker[c])
    BY <1>1, <2>2, Zero, IdleIsFair
  <2> QED
    BY <2>1, <2>2
<1>6. orphans' \subseteq Credits(onTime)
  BY <1>1 DEF resolve, CreditInv, QueueOK
<1> HIDE DEF w
<1> QED
  BY <1>1, <1>3, <1>5, <1>6, Answered DEF resolve

LEMMA CallFailed == CreditInv /\ call_failed => CreditInv'
<1> SUFFICES ASSUME CreditInv, call_failed PROVE CreditInv'
  OBVIOUS
<1>1. /\ UNCHANGED <<db_vars, risk, defaulted>> /\ onTime \in Nat /\ reject /\ stage # "idle"
      /\ worker' = [worker EXCEPT ![running.client] = Idle]
  BY DEF call_failed, CreditInv, LoansOK, reject
<1>2. orphans' \subseteq Credits(onTime)
  BY <1>1, RunningTask DEF reject, CreditInv, QueueOK
<1> QED
  BY <1>1, <1>2, Answered, Zero, IdleIsFair DEF reject

LEMMA Restart == CreditInv /\ restart => CreditInv'
<1> SUFFICES ASSUME CreditInv, restart PROVE CreditInv'
  OBVIOUS
<1>1. /\ UNCHANGED <<db_vars, risk, defaulted>> /\ onTime \in Nat /\ queue_restart /\ onTime' = onTime
      /\ worker' = [d \in Clients |-> Idle]
  BY DEF restart, CreditInv, LoansOK, db_vars
<1>2. LoansOK' /\ StoresOK'
  BY <1>1 DEF CreditInv, LoansOK, StoresOK, db_vars
<1>3. WorkersOK' /\ NeverLower'
  BY <1>1, Zero, IdleIsFair DEF WorkersOK, NeverLower
<1>4. orphans' \subseteq Credits(onTime)
  BY <1>1, RunningTask DEF queue_restart, CreditInv, QueueOK
<1>5. QueueOK'
  BY <1>1, <1>4 DEF queue_restart, QueueOK, Stages
<1>6. OneCallEach'
  BY <1>1 DEF queue_restart, OneCallEach, Calls
<1> QED
  BY <1>2, <1>3, <1>5, <1>6 DEF CreditInv

-----------------------------------------------------------------------------
(* The writers.                                                             *)

LEMMA StoreStep == ASSUME NEW c \in Clients PROVE CreditInv /\ store(c) => CreditInv'
<1> SUFFICES ASSUME CreditInv, store(c) PROVE CreditInv'
  OBVIOUS
<1> DEFINE w == worker[c]
<1>1. /\ w.pc = "confirmed" /\ user' = stored(w) /\ worker' = [worker EXCEPT ![c] = Idle]
      /\ UNCHANGED <<risk, onTime, repaid, defaulted, queue_vars>> /\ onTime \in Nat
  BY DEF store, CreditInv, LoansOK
<1>2. w.copy \in Users(onTime) /\ w.credit \in Credits(onTime) /\ user \in Users(onTime)
  BY WorkerFacts DEF CreditInv, StoresOK
<1>3. user' \in Users(onTime)
  <2> HIDE DEF w
  <2>1. ASSUME NEW u \in Users(onTime)
        PROVE  [u EXCEPT !.score = w.credit.score, !.limit = w.credit.limit] \in Users(onTime)
    BY <1>2 DEF Users, User, Credits, Credit, earned
  <2> QED
    BY <1>1, <1>2, <2>1 DEF stored
<1>4. LoansOK' /\ StoresOK' /\ QueueOK'
  BY <1>1, <1>3 DEF CreditInv, LoansOK, StoresOK, QueueOK, queue_vars
<1>5. /\ WorkersOK' /\ NeverLower'
      /\ \A d \in Clients : worker'[d] = IF d = c THEN Idle ELSE worker[d]
  BY <1>1, WorkersAfter, Zero, IdleIsFair
<1>6. OneCallEach'
  BY <1>1, <1>5, QueuedTask DEF CreditInv, OneCallEach, Calls, queue_vars
<1> QED
  BY <1>4, <1>5, <1>6 DEF CreditInv

LEMMA VerifyStep == CreditInv /\ verify => CreditInv'
<1> SUFFICES ASSUME CreditInv, verify PROVE CreditInv'
  OBVIOUS
<1>1. /\ UNCHANGED <<db_vars, risk, defaulted>> /\ onTime \in Nat /\ user \in Users(onTime)
      /\ "verify" \in Clients /\ worker["verify"].pc # "waiting"
  BY IdleIsFair DEF verify, CreditInv, LoansOK, StoresOK, Clients
<1>2. user.score \in Nat /\ user.score <= ladderCredit(onTime).score
  BY <1>1 DEF Users, User, earned
<1> DEFINE again == [score |-> user.score, limit |-> getStepForScore(user.score).limitUsdc]
<1>3. CASE giveCreditScoreAndLimit("verify", "refresh", user, again, "low")
  <2>1. again \in Credits(onTime)
    BY <1>1, <1>2, CreditFor
  <2>2. again.score >= user.score
    BY <1>2
  <2>3. "refresh" \in Kinds
    BY DEF Kinds
  <2> HIDE DEF again
  <2> QED
    BY <1>1, <1>3, <2>1, <2>2, <2>3, Send
<1>4. CASE user.score = 0 /\ giveCreditScoreAndLimit("verify", "first", user, ladderCredit(0), "low")
  <2>1. ladderCredit(0) \in Credits(0) /\ ladderCredit(0).score \in 1..11
    BY LadderIsEarned
  <2>2. ladderCredit(0) \in Credits(onTime)
    BY <1>1, <2>1, EarnedGrows
  <2>3. "first" \in Kinds
    BY DEF Kinds
  <2> QED
    BY <1>1, <1>4, <2>1, <2>2, <2>3, Send
<1> QED
  BY <1>3, <1>4 DEF verify

\* An idle worker that keeps a copy of the user, and sends nothing yet.
LEMMA ReadStep ==
  ASSUME CreditInv, UNCHANGED <<db_vars, risk, defaulted, queue_vars>>,
         NEW c \in Clients, worker[c] = Idle,
         worker' = [worker EXCEPT ![c] = [Idle EXCEPT !.pc = "read", !.copy = user]]
  PROVE  CreditInv'
<1> DEFINE w == [Idle EXCEPT !.pc = "read", !.copy = user]
<1>1. Idle \in Workers(onTime) /\ user \in Users(onTime)
  BY Zero DEF CreditInv, LoansOK, StoresOK
<1>2. w \in Workers(onTime) /\ w.pc = "read"
  BY <1>1 DEF Workers
<1> HIDE DEF w
<1>3. Fair(w)
  BY <1>2 DEF Fair
<1>4. worker' = [worker EXCEPT ![c] = w]
  BY DEF w
<1> QED
  BY <1>2, <1>3, <1>4, IdleIsFair, WorkerStep

LEMMA ReadsTheUser == CreditInv /\ (processRepayment \/ listUsers) => CreditInv'
<1>1. "repayment" \in Clients /\ "job" \in Clients
  BY DEF Clients
<1>2. CreditInv /\ processRepayment => CreditInv'
  BY <1>1, ReadStep DEF processRepayment
<1>3. CreditInv /\ listUsers => CreditInv'
  BY <1>1, ReadStep DEF listUsers
<1> QED
  BY <1>2, <1>3

LEMMA NothingToRenew == CreditInv /\ nothingToRenew => CreditInv'
<1> SUFFICES ASSUME CreditInv, nothingToRenew PROVE CreditInv'
  OBVIOUS
<1>1. "job" \in Clients /\ Idle \in Workers(onTime) /\ Fair(Idle)
  BY Zero, IdleIsFair DEF CreditInv, LoansOK, Clients
<1> QED
  BY <1>1, WorkerStep DEF nothingToRenew
\* A loan is repaid: what was earned grows, so that all that was earned still is.
LEMMA RepayLoan ==
  ASSUME CreditInv, NEW kind, repay_loan(kind)
  PROVE  /\ LoansOK' /\ onTime \in Nat /\ onTime' \in Nat /\ onTime <= onTime'
         /\ Credits(onTime) \subseteq Credits(onTime') /\ Users(onTime) \subseteq Users(onTime')
         /\ Workers(onTime) \subseteq Workers(onTime')
         /\ \A r \in Risk : earned(r, onTime) => earned(r, onTime')
         /\ UNCHANGED queue_vars => QueueOK'
<1>1. LoansOK' /\ onTime \in Nat /\ onTime' \in Nat /\ onTime <= onTime'
  <2>1. onTime \in Nat /\ repaid \in 0..MaxRepayments /\ onTime <= repaid /\ MaxRepayments \in Nat
    BY CreditAssumption DEF CreditInv, LoansOK
  <2>2. /\ repaid < MaxRepayments /\ repaid' = repaid + 1
        /\ onTime' = onTime + 1 \/ onTime' = onTime
    BY DEF repay_loan
  <2>3. defaulted' \in BOOLEAN
    BY DEF repay_loan
  <2>4. /\ onTime' \in Nat /\ repaid' \in 0..MaxRepayments /\ onTime' <= repaid' /\ onTime <= onTime'
    BY <2>1, <2>2
  <2> QED
    BY <2>1, <2>3, <2>4 DEF LoansOK
<1>2. /\ Credits(onTime) \subseteq Credits(onTime') /\ Users(onTime) \subseteq Users(onTime')
      /\ Tasks(onTime) \subseteq Tasks(onTime') /\ Workers(onTime) \subseteq Workers(onTime')
      /\ \A r \in Risk : earned(r, onTime) => earned(r, onTime')
  BY <1>1, EarnedGrows
<1>3. ASSUME NEW S, NEW T, S \subseteq T, NEW q \in Seq(S) PROVE q \in Seq(T)
  BY <1>3
<1>4. UNCHANGED queue_vars => QueueOK'
  <2> SUFFICES ASSUME UNCHANGED queue_vars PROVE QueueOK'
    OBVIOUS
  <2>1. highQueue \in Seq(Tasks(onTime')) /\ lowQueue \in Seq(Tasks(onTime'))
    BY <1>2, <1>3 DEF CreditInv, QueueOK
  <2>2. running \in Tasks(onTime') \cup {NoTask} /\ orphans \subseteq Credits(onTime')
    BY <1>2 DEF CreditInv, QueueOK
  <2>3. stage \in Stages /\ ((stage = "idle") <=> (running = NoTask))
    BY DEF CreditInv, QueueOK
  <2> QED
    BY <2>1, <2>2, <2>3 DEF QueueOK, queue_vars
<1> QED
  BY <1>1, <1>2, <1>4

\* A worker that does not wait, when a loan is repaid.
LEMMA RepayStep ==
  ASSUME CreditInv, NEW kind, repay_loan(kind), UNCHANGED <<risk, queue_vars>>,
         user' \in Users(onTime),
         NEW c \in Clients, NEW w \in Workers(onTime), Fair(w), worker[c].pc # "waiting",
         worker' = [worker EXCEPT ![c] = w]
  PROVE  CreditInv'
<1>1. /\ LoansOK' /\ QueueOK' /\ Users(onTime) \subseteq Users(onTime')
      /\ Workers(onTime) \subseteq Workers(onTime')
      /\ \A r \in Risk : earned(r, onTime) => earned(r, onTime')
  BY RepayLoan
<1>2. StoresOK'
  BY <1>1 DEF CreditInv, StoresOK
<1>3. worker' \in [Clients -> Workers(onTime)] /\ \A d \in Clients : worker'[d] = IF d = c THEN w ELSE worker[d]
  BY DEF CreditInv, WorkersOK
<1>4. WorkersOK' /\ NeverLower'
  BY <1>1, <1>3 DEF CreditInv, WorkersOK, NeverLower
<1>5. OneCallEach'
  BY <1>3, QueuedTask DEF CreditInv, OneCallEach, Calls, queue_vars
<1> QED
  BY <1>1, <1>2, <1>4, <1>5 DEF CreditInv

LEMMA CloseRow ==
  ASSUME NEW kind \in {"on_time", "late", "post_default"}
  PROVE  CreditInv /\ closeRow(kind) => CreditInv'
<1> SUFFICES ASSUME CreditInv, closeRow(kind) PROVE CreditInv'
  OBVIOUS
<1> DEFINE v == worker["repayment"]
           copy == [v.copy EXCEPT !.hadDefaultEver = @ \/ kind = "post_default"]
           w == [v EXCEPT !.pc = "closed", !.kind = kind, !.copy = copy]
<1>1. "repayment" \in Clients /\ kind \in Kinds
  BY DEF Clients, Kinds
<1>2. /\ v \in Workers(onTime) /\ v.copy \in Users(onTime) /\ user \in Users(onTime)
      /\ v.pc = "read" /\ repay_loan(kind) /\ UNCHANGED <<risk, queue_vars>>
  BY <1>1, WorkerFacts DEF closeRow, CreditInv, StoresOK
<1>3. copy \in Users(onTime)
  BY <1>2 DEF Users, User, earned
<1>4. user' \in Users(onTime)
  BY <1>2, <1>3 DEF closeRow
<1>5. w \in Workers(onTime) /\ w.pc = "closed"
  <2> HIDE DEF copy, v
  <2> QED
    BY <1>1, <1>2, <1>3 DEF Workers
<1>6. worker' = [worker EXCEPT !["repayment"] = w]
  <2>1. worker' = [worker EXCEPT !["repayment"].pc = "closed", !["repayment"].kind = kind,
                                 !["repayment"].copy = copy]
    BY DEF closeRow
  <2> HIDE DEF copy
  <2> QED
    BY <1>1, <2>1 DEF CreditInv, WorkersOK
<1> HIDE DEF w
<1>7. Fair(w)
  BY <1>5 DEF Fair
<1> QED
  BY <1>1, <1>2, <1>4, <1>5, <1>6, <1>7, RepayStep

LEMMA ReconcileLoan ==
  ASSUME NEW kind \in {"sync_on_time", "sync_late"}
  PROVE  CreditInv /\ reconcileLoan(kind) => CreditInv'
<1> SUFFICES ASSUME CreditInv, reconcileLoan(kind) PROVE CreditInv'
  OBVIOUS
<1> DEFINE w == [Idle EXCEPT !.pc = "closed", !.kind = kind]
<1>1. "job" \in Clients /\ kind \in Kinds /\ Idle \in Workers(onTime) /\ user \in Users(onTime)
  BY Zero DEF Clients, Kinds, CreditInv, LoansOK, StoresOK
<1>2. w \in Workers(onTime) /\ w.pc = "closed"
  BY <1>1 DEF Workers
<1>3. /\ worker' = [worker EXCEPT !["job"] = w] /\ worker["job"].pc # "waiting"
      /\ repay_loan(kind) /\ UNCHANGED <<risk, queue_vars>> /\ user' \in Users(onTime)
  BY <1>1, IdleIsFair DEF reconcileLoan
<1> HIDE DEF w
<1>4. Fair(w)
  BY <1>2 DEF Fair
<1> QED
  BY <1>1, <1>2, <1>3, <1>4, RepayStep
\* What a repayment sends is earned, and lower only for the penalty.
LEMMA RepaymentCredit ==
  ASSUME CreditInv, NEW w \in Workers(onTime)
  PROVE  /\ repaymentCredit(w) \in Credits(onTime)
         /\ w.kind # "post_default" => repaymentCredit(w).score >= w.copy.score
<1> DEFINE top == ladderCredit(onTime).score
           s == CASE w.kind = "on_time" -> Min({getStepForOnTimeLoans(onTime).score, w.copy.score + 1})
                  [] w.kind = "post_default" -> Max({1, w.copy.score - 2})
                  [] OTHER -> w.copy.score
           limit == getStepForScore(s).limitUsdc
<1>1. onTime \in Nat /\ w.copy \in Users(onTime)
  BY DEF CreditInv, LoansOK, Workers
<1>2. w.copy.score \in Nat /\ w.copy.score <= top /\ top \in 1..11
  BY <1>1, LadderIsEarned DEF Users, User
<1>3. getStepForOnTimeLoans(onTime).score = top
  BY DEF ladderCredit
<1>4. s \in Nat /\ s <= top /\ (w.kind # "post_default" => s >= w.copy.score)
  <2> DEFINE n == w.copy.score
  <2> HIDE DEF top, n
  <2>0. n \in Nat /\ n <= top /\ top \in 1..11
    BY <1>2 DEF n
  <2>1. CASE w.kind = "on_time"
    <3>1. s = Min({top, n + 1})
      BY <1>3, <2>1 DEF n
    <3>2. Min({top, n + 1}) \in {top, n + 1} /\ Min({top, n + 1}) <= top
      <4>1. top \in Int /\ n + 1 \in Int
        BY <2>0
      <4> QED
        BY <4>1, MinOfTwo
    <3> HIDE DEF s
    <3>3. s \in Nat /\ s <= top /\ s >= n
      BY <2>0, <3>1, <3>2
    <3> QED
      BY <3>3 DEF n
  <2>2. CASE w.kind = "post_default"
    <3>1. s = Max({1, n - 2})
      BY <2>2 DEF n
    <3>2. Max({1, n - 2}) \in {1, n - 2} /\ Max({1, n - 2}) >= 1
      <4>1. 1 \in Int /\ n - 2 \in Int
        BY <2>0
      <4> QED
        BY <4>1, MaxOfTwo
    <3> HIDE DEF s
    <3> QED
      BY <2>0, <2>2, <3>1, <3>2
  <2>3. CASE w.kind \notin {"on_time", "post_default"}
    <3>1. s = n
      BY <2>3 DEF n
    <3> HIDE DEF s
    <3> QED
      BY <2>0, <3>1 DEF n
  <2> QED
    BY <2>1, <2>2, <2>3
<1>5. repaymentCredit(w) =
        [score |-> s, limit |-> IF w.kind = "post_default" THEN limit ELSE Max({w.copy.limit, limit})]
  BY DEF repaymentCredit
<1> HIDE DEF s
<1>6. /\ [score |-> s, limit |-> limit] \in Credits(onTime)
      /\ [score |-> s, limit |-> Max({w.copy.limit, limit})] \in Credits(onTime)
  BY <1>1, <1>4, CreditFor
<1> HIDE DEF limit
<1> QED
  BY <1>4, <1>5, <1>6

\* So is what the chain's scan sends.
LEMMA SyncCredit ==
  ASSUME CreditInv, NEW kind
  PROVE  syncCredit(kind) \in Credits(onTime) /\ syncCredit(kind).score >= user.score
<1> DEFINE a == user.limit
           b == ladderCredit(onTime).limit
<1>1. onTime \in Nat /\ user \in Users(onTime)
  BY DEF CreditInv, LoansOK, StoresOK
<1>2. /\ user.score \in 0..11 /\ a \in 0..25 /\ ladderCredit(onTime).score \in 1..11 /\ b \in 1..25
      /\ user.score <= ladderCredit(onTime).score /\ a <= b
  BY <1>1, LadderIsEarned DEF Users, User
<1>3. /\ getStepForOnTimeLoans(onTime).score = ladderCredit(onTime).score
      /\ getStepForOnTimeLoans(onTime).limitUsdc = b
  BY DEF ladderCredit
<1>4. Max({a, b}) \in {a, b}
  <2>1. a \in Int /\ b \in Int
    BY <1>2
  <2> HIDE DEF a, b
  <2> QED
    BY <2>1, MaxOfTwo
<1>5. CASE kind = "sync_on_time"
  <2>1. syncCredit(kind) = [score |-> ladderCredit(onTime).score, limit |-> Max({a, b})]
    BY <1>3, <1>5 DEF syncCredit
  <2> HIDE DEF a
  <2> QED
    BY <1>2, <1>4, <2>1 DEF Credits, Credit, earned
<1>6. CASE kind # "sync_on_time"
  <2>1. syncCredit(kind) = [score |-> user.score, limit |-> user.limit]
    BY <1>6 DEF syncCredit
  <2> QED
    BY <1>2, <2>1 DEF Credits, Credit, earned
<1> QED
  BY <1>5, <1>6

LEMMA RepaymentSend == CreditInv /\ repaymentSend => CreditInv'
<1> SUFFICES ASSUME CreditInv, repaymentSend PROVE CreditInv'
  OBVIOUS
<1> DEFINE w == worker["repayment"]
<1>1. "repayment" \in Clients
  BY DEF Clients
<1>2. w \in Workers(onTime) /\ w.copy \in Users(onTime) /\ w.kind \in Kinds
  BY <1>1, WorkerFacts
<1>3. /\ w.pc = "closed" /\ UNCHANGED <<db_vars, risk, defaulted>>
      /\ giveCreditScoreAndLimit("repayment", w.kind, w.copy, repaymentCredit(w), "high")
  BY DEF repaymentSend
<1> HIDE DEF w
<1>4. /\ repaymentCredit(w) \in Credits(onTime)
      /\ w.kind # "post_default" => repaymentCredit(w).score >= w.copy.score
  BY <1>2, RepaymentCredit
<1> QED
  BY <1>1, <1>2, <1>3, <1>4, Send DEF w

LEMMA UpdateCreditScore == CreditInv /\ updateCreditScore => CreditInv'
<1> SUFFICES ASSUME CreditInv, updateCreditScore PROVE CreditInv'
  OBVIOUS
<1> DEFINE w == worker["job"]
<1>1. "job" \in Clients /\ user \in Users(onTime)
  BY DEF Clients, CreditInv, StoresOK
<1>2. w.kind \in Kinds
  BY <1>1, WorkerFacts
<1>3. w.pc = "closed" /\ UNCHANGED <<db_vars, risk, defaulted>>
  BY DEF updateCreditScore
<1>4. PICK priority \in {"high", "low"} :
        giveCreditScoreAndLimit("job", w.kind, user, syncCredit(w.kind), priority)
  BY DEF updateCreditScore
<1>5. syncCredit(w.kind) \in Credits(onTime) /\ syncCredit(w.kind).score >= user.score
  BY SyncCredit
<1> QED
  BY <1>1, <1>2, <1>3, <1>4, <1>5, Send

LEMMA RenewExpiredOffers == CreditInv /\ renewExpiredOffers => CreditInv'
<1> SUFFICES ASSUME CreditInv, renewExpiredOffers PROVE CreditInv'
  OBVIOUS
<1> DEFINE w == worker["job"]
<1>1. "job" \in Clients /\ "renewal" \in Kinds /\ onTime \in Nat
  BY DEF Clients, Kinds, CreditInv, LoansOK
<1>2. w.copy \in Users(onTime)
  BY <1>1, WorkerFacts
<1>3. /\ w.pc = "read" /\ UNCHANGED <<db_vars, risk, defaulted>>
      /\ giveCreditScoreAndLimit("job", "renewal", w.copy, credit_of(w.copy), "low")
  BY DEF renewExpiredOffers
<1>4. credit_of(w.copy) \in Credits(onTime) /\ credit_of(w.copy).score >= w.copy.score
  BY <1>1, <1>2, LadderIsEarned DEF Users, User, credit_of
<1> QED
  BY <1>1, <1>2, <1>3, <1>4, Send

LEMMA RecalculateAllLimits == CreditInv /\ recalculateAllLimits => CreditInv'
<1> SUFFICES ASSUME CreditInv, NEW checkChain \in BOOLEAN, recalcUser(checkChain) PROVE CreditInv'
  BY DEF recalculateAllLimits
<1> DEFINE w == worker["job"]
           credit == ladderCredit(onTime)
           v == IF credit_of(w.copy) = credit THEN Idle
                ELSE [w EXCEPT !.pc = "confirmed", !.kind = "recalc", !.credit = credit]
<1>1. "job" \in Clients /\ "recalc" \in Kinds /\ onTime \in Nat
  BY DEF Clients, Kinds, CreditInv, LoansOK
<1>2. w \in Workers(onTime) /\ w.copy \in Users(onTime)
  BY <1>1, WorkerFacts
<1>3. w.pc = "read" /\ UNCHANGED <<db_vars, risk, defaulted>>
  BY DEF recalcUser
<1>4. credit \in Credits(onTime) /\ credit.score >= w.copy.score
  BY <1>1, <1>2, LadderIsEarned DEF Users, User
<1>5. CASE giveCreditScoreAndLimit("job", "recalc", w.copy, credit, "low")
  <2> HIDE DEF credit
  <2> QED
    BY <1>1, <1>2, <1>3, <1>4, <1>5, Send
<1>6. CASE worker' = [worker EXCEPT !["job"] = v] /\ UNCHANGED queue_vars
  <2>1. v \in Workers(onTime) /\ Fair(v)
    <3>1. CASE credit_of(w.copy) = credit
      BY <1>1, <3>1, Zero, IdleIsFair
    <3>2. CASE credit_of(w.copy) # credit
      <4> HIDE DEF credit, w
      <4>1. /\ v = [w EXCEPT !.pc = "confirmed", !.kind = "recalc", !.credit = credit]
            /\ v \in Workers(onTime) /\ v.credit = credit /\ v.copy = w.copy
        BY <1>1, <1>2, <1>4, <3>2 DEF Workers
      <4> HIDE DEF v
      <4> QED
        BY <1>4, <4>1 DEF Fair
    <3> QED
      BY <3>1, <3>2
  <2> HIDE DEF v
  <2> QED
    BY <1>1, <1>3, <1>6, <2>1, WorkerStep
<1>7. \/ giveCreditScoreAndLimit("job", "recalc", w.copy, credit, "low")
      \/ worker' = [worker EXCEPT !["job"] = v] /\ UNCHANGED queue_vars
  <2>1. CASE checkChain /\ (risk.score # credit.score \/ risk.limit # credit.limit)
    BY <2>1 DEF recalcUser
  <2>2. CASE ~(checkChain /\ (risk.score # credit.score \/ risk.limit # credit.limit))
    BY <1>1, <2>2 DEF recalcUser, CreditInv, WorkersOK
  <2> QED
    BY <2>1, <2>2
<1> QED
  BY <1>5, <1>6, <1>7

LEMMA TheRest == CreditInv /\ (pass_time \/ mark_default) => CreditInv'
<1>1. ASSUME CreditInv PROVE risk.limit \in 0..25 /\ risk.score \in 0..11 /\ risk \in Risk /\ earned(risk, onTime)
  BY <1>1 DEF CreditInv, StoresOK, Risk
<1>2. ASSUME CreditInv
      PROVE  ladderCredit(onTime).limit \in 1..25
  BY <1>2, LadderIsEarned DEF CreditInv, LoansOK
<1>3. ASSUME CreditInv, pass_time PROVE CreditInv'
  <2>1. risk' \in Risk /\ risk'.limit = risk.limit /\ risk'.score = risk.score
    BY <1>1, <1>3 DEF pass_time, Risk
  <2>2. StoresOK'
    BY <1>1, <1>3, <2>1 DEF pass_time, db_vars, earned, StoresOK, CreditInv
  <2> QED
    BY <1>3, <2>2 DEF pass_time, db_vars, queue_vars, CreditInv, LoansOK, QueueOK, WorkersOK, NeverLower, OneCallEach
<1>4. ASSUME CreditInv, mark_default PROVE CreditInv'
  <2>1. risk' \in Risk /\ risk'.limit = 0 /\ risk'.score = risk.score
    BY <1>1, <1>4 DEF mark_default, Risk
  <2>2. StoresOK'
    BY <1>1, <1>2, <1>4, <2>1 DEF mark_default, db_vars, earned, StoresOK, CreditInv
  <2>3. LoansOK'
    BY <1>4 DEF mark_default, CreditInv, LoansOK, db_vars
  <2> QED
    BY <1>4, <2>2, <2>3 DEF mark_default, db_vars, queue_vars, CreditInv, QueueOK, WorkersOK, NeverLower, OneCallEach
<1> QED
  BY <1>3, <1>4
-----------------------------------------------------------------------------
(* The theorems.                                                            *)

\* Whatever the five writers read, send, are answered and store, in any order,
\* with calls that fail, land late or are dropped, loans repaid meanwhile and
\* restarts: every credit stored, copied, queued, running, under way or on the
\* chain is earned, a call is the only one of its writer, and only the penalty
\* sends a score below the one read.
THEOREM CreditInvariance == CreditSpec => []CreditInv
<1>1. CreditInit => CreditInv
  <2> SUFFICES ASSUME CreditInit PROVE CreditInv
    OBVIOUS
  <2>1. /\ NewUser \in Users(0) /\ Idle \in Workers(0) /\ Fair(Idle)
        /\ ladderCredit(0).score \in 1..11 /\ ladderCredit(0).limit \in 1..25
    BY Zero, LadderIsEarned, IdleIsFair
  <2>2. LoansOK
    <3>1. onTime \in Nat /\ repaid \in 0..MaxRepayments /\ onTime <= repaid
      BY CreditAssumption DEF CreditInit
    <3>2. defaulted \in BOOLEAN
      BY DEF CreditInit
    <3> QED
      BY <3>1, <3>2 DEF LoansOK
  <2>3. StoresOK
    BY <2>1 DEF CreditInit, StoresOK, Risk, earned
  <2>4. QueueOK /\ OneCallEach
    BY DEF CreditInit, QueueInit, QueueOK, Stages, OneCallEach, Calls
  <2>5. WorkersOK /\ NeverLower
    BY <2>1 DEF CreditInit, WorkersOK, NeverLower
  <2> QED
    BY <2>2, <2>3, <2>4, <2>5 DEF CreditInv
<1>2. CreditInv /\ [CreditNext]_vars => CreditInv'
  <2>1. CreditInv /\ CreditNext => CreditInv'
    BY RunTask, CallLands, CallDropped, CallConfirmed, CallFailed, StoreStep, VerifyStep,
       ReadsTheUser, CloseRow, RepaymentSend, ReconcileLoan, UpdateCreditScore,
       RenewExpiredOffers, NothingToRenew, RecalculateAllLimits, TheRest, Restart
       DEF CreditNext
  <2>2. CreditInv /\ UNCHANGED vars => CreditInv'
    BY DEF vars, db_vars, queue_vars, CreditInv, LoansOK, StoresOK, QueueOK, WorkersOK, NeverLower,
           OneCallEach
  <2> QED
    BY <2>1, <2>2
<1> QED
  BY <1>1, <1>2, PTL DEF CreditSpec

\* Type correctness: with the score and the limit of a ladder of eleven steps,
\* no more loans repaid on time than repaid, and `processing' set exactly while
\* a task runs.
THEOREM CreditTypeCorrect == CreditSpec => []CreditTypeOK
<1>1. CreditInv => CreditTypeOK
  <2> SUFFICES ASSUME CreditInv PROVE CreditTypeOK
    OBVIOUS
  <2>1. user \in User /\ risk \in Risk
    BY DEF CreditInv, StoresOK, Users
  <2>2. onTime \in 0..MaxRepayments /\ repaid \in 0..MaxRepayments
    BY CreditAssumption DEF CreditInv, LoansOK
  <2>3. defaulted \in BOOLEAN
    BY DEF CreditInv, LoansOK
  <2>4. \A c \in Clients : /\ worker[c].pc \in {"idle", "read", "closed", "waiting", "confirmed"}
                           /\ worker[c].kind \in Kinds
    BY WorkerFacts DEF Workers
  <2>5. stage \in Stages /\ (stage = "idle") = (running = NoTask)
    BY DEF CreditInv, QueueOK
  <2> QED
    BY <2>1, <2>2, <2>3, <2>4, <2>5 DEF CreditTypeOK, User, Risk
<1> QED
  BY <1>1, CreditInvariance, PTL

\* No score and no limit, in the database, on the chain or on its way there, is
\* above the ladder's step for the loans repaid on time, for any number of
\* repayments, whichever writers overlap and however stale what they read.
THEOREM CreditIsAlwaysEarned == CreditSpec => []CreditIsEarned
<1>1. CreditInv => CreditIsEarned
  <2> SUFFICES ASSUME CreditInv,
                      NEW credit \in {user, risk} \cup orphans \cup {worker[c].credit : c \in Clients}
               PROVE  earned(credit, onTime)
    BY DEF CreditIsEarned, earned
  <2>1. earned(user, onTime) /\ earned(risk, onTime)
    BY DEF CreditInv, StoresOK, Users
  <2>2. \A o \in orphans : earned(o, onTime)
    BY DEF CreditInv, QueueOK, Credits
  <2>3. \A c \in Clients : earned(worker[c].credit, onTime)
    BY WorkerFacts DEF Credits
  <2> QED
    BY <2>1, <2>2, <2>3
<1> QED
  BY <1>1, CreditInvariance, PTL

\* A score falls, or the mark of a default is lost, only when the penalty is
\* applied or when the writer stores a user that another one has overtaken.
THEOREM LostUpdatesAreOvertaken == CreditSpec => OnlyOvertakenWritersLoseUpdates
<1> DEFINE Loss == user'.score < user.score \/ (user.hadDefaultEver /\ ~user'.hadDefaultEver)
           Excuse == \E c \in Clients : /\ worker'[c] # worker[c]
                                        /\ worker[c].kind = "post_default" \/ worker[c].copy # user
<1>1. ASSUME CreditInv, NEW c \in Clients, store(c), Loss PROVE Excuse
  <2> DEFINE w == worker[c]
  <2>1. /\ w.pc = "confirmed" /\ user' = stored(w) /\ Fair(w) /\ w.copy \in User /\ user \in User
        /\ w.credit \in Credit
    BY <1>1, WorkerFacts DEF store, Users, Credits, CreditInv, StoresOK
  <2>2. worker'[c] # worker[c]
    BY <1>1, <2>1, IdleIsFair DEF store, CreditInv, WorkersOK
  <2>3. w.kind # "post_default" => w.copy # user
    <3> SUFFICES ASSUME w.kind # "post_default", w.copy = user PROVE FALSE
      OBVIOUS
    <3>1. w.credit.score >= user.score
      BY <2>1 DEF Fair
    <3>2. user' = [user EXCEPT !.score = w.credit.score, !.limit = w.credit.limit]
      BY <2>1 DEF stored
    <3> HIDE DEF w
    <3>3. user'.score = w.credit.score /\ user'.hadDefaultEver = user.hadDefaultEver
      BY <2>1, <3>2 DEF User
    <3>4. user.score \in Int /\ w.credit.score \in Int
      BY <2>1 DEF User, Credit
    <3>5. ~(user'.score < user.score)
      BY <3>1, <3>3, <3>4
    <3> QED
      BY <1>1, <3>3, <3>5
  <2> QED
    BY <2>2, <2>3
<1>2. ASSUME CreditInv, NEW kind \in {"on_time", "late", "post_default"}, closeRow(kind), Loss
      PROVE  Excuse
  <2> DEFINE v == worker["repayment"]
             copy == [v.copy EXCEPT !.hadDefaultEver = @ \/ kind = "post_default"]
  <2>1. "repayment" \in Clients /\ v.pc = "read" /\ user' = IF copy # v.copy THEN copy ELSE user
    BY <1>2 DEF closeRow, Clients
  <2>2. v.copy \in User /\ user \in User /\ v \in Workers(onTime)
    BY <1>2, <2>1, WorkerFacts DEF Users, CreditInv, StoresOK
  <2>3. worker'["repayment"] # v
    <3>1. worker' = [worker EXCEPT !["repayment"].pc = "closed", !["repayment"].kind = kind,
                                   !["repayment"].copy = copy]
      BY <1>2 DEF closeRow
    <3>2. worker'["repayment"].pc = "closed"
      <4> HIDE DEF copy
      <4> QED
        BY <1>2, <2>1, <3>1 DEF CreditInv, WorkersOK, Workers
    <3> QED
      BY <2>1, <3>2
  <2>4. v.copy # user
    <3> SUFFICES ASSUME v.copy = user PROVE FALSE
      OBVIOUS
    <3>1. copy.score = user.score /\ (user.hadDefaultEver => copy.hadDefaultEver)
      BY <2>2 DEF User
    <3>2. user'.score = user.score /\ (user.hadDefaultEver => user'.hadDefaultEver)
      <4> HIDE DEF copy
      <4> QED
        BY <2>1, <3>1
    <3>3. ~(user.score < user.score)
      BY <2>2 DEF User
    <3> QED
      BY <1>2, <3>2, <3>3
  <2> QED
    BY <2>1, <2>3, <2>4
<1>3. ASSUME CreditInv, [CreditNext]_vars, Loss PROVE Excuse
  <2>1. CASE user' = user
    <3>1. ~(user.score < user.score)
      BY <1>3 DEF CreditInv, StoresOK, Users, User
    <3> QED
      BY <1>3, <2>1, <3>1
  <2>2. CASE user' # user
    <3>1. \/ \E c \in Clients : store(c)
          \/ \E kind \in {"on_time", "late", "post_default"} : closeRow(kind)
      BY <1>3, <2>2
         DEF CreditNext, vars, db_vars, run_task, call_lands, call_dropped, call_confirmed,
             call_failed, verify, processRepayment, repaymentSend, reconcileLoan, updateCreditScore,
             listUsers, renewExpiredOffers, nothingToRenew, recalculateAllLimits, recalcUser,
             pass_time, mark_default, restart
    <3> QED
      BY <1>1, <1>2, <1>3, <3>1
  <2> QED
    BY <2>1, <2>2
<1> HIDE DEF Loss, Excuse
<1>4. CreditInv /\ [CreditNext]_vars => [Loss => Excuse]_vars
  BY <1>3
<1>5. CreditSpec => [][Loss => Excuse]_vars
  BY <1>4, CreditInvariance, PTL DEF CreditSpec
<1> QED
  BY <1>5 DEF OnlyOvertakenWritersLoseUpdates, Loss, Excuse
=============================================================================
