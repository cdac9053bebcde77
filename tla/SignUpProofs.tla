----------------------------- MODULE SignUpProofs -----------------------------
(* Signing up, for any number of requests at the same time, any codes and    *)
(* any number of attempts.  A row is what the type says only because every   *)
(* copy that a request will write is (RequestsOK), because a code is issued  *)
(* only into a row that has its id, and because an id is left for every row  *)
(* that is inserted: a request that inserts one has none itself.             *)
EXTENDS SignUp, FiniteSetTheorems, TLAPS

PendingRow == [id : Ids \cup {0}, email : BOOLEAN, code : Codes \cup {0},
               attempts : 0..OTP_MAX_ATTEMPTS, terms : BOOLEAN]
Request == [pc : {"idle", "save_terms", "save_email", "issue", "mail", "wrong", "commit"},
            row : PendingRow, found : BOOLEAN]

RowsOK ==
  /\ pending \in PendingRow /\ user \in [exists : BOOLEAN, terms : BOOLEAN]
  /\ pending.id = 0 => pending = NoPending

RequestsOK ==
  /\ request \in [Requests -> Request]
  /\ \A r \in Requests : request[r].pc = "issue" => request[r].row.id # 0

CodesOK == age \in [Codes -> {"recent", "valid", "expired"}]

\* The inductive invariant.
SignUpInv == RowsOK /\ RequestsOK /\ CodesOK

-----------------------------------------------------------------------------
(* Rows.                                                                    *)

LEMMA NoPendingIsARow ==
  /\ NoPending \in PendingRow /\ NoPending.id = 0 /\ NoPending.code = 0 /\ ~NoPending.email
  /\ Idle \in Request /\ Idle.pc = "idle"
<1>1. NoPending \in PendingRow /\ NoPending.id = 0 /\ NoPending.code = 0 /\ ~NoPending.email
  BY SignUpAssumption DEF NoPending, PendingRow
<1> QED
  BY <1>1 DEF Idle, Request

LEMMA RequestFacts ==
  ASSUME SignUpInv, NEW r \in Requests
  PROVE  /\ request[r] \in Request /\ request[r].row \in PendingRow
         /\ request[r].pc = "issue" => request[r].row.id # 0
<1>1. request[r] \in Request /\ (request[r].pc = "issue" => request[r].row.id # 0)
  BY DEF SignUpInv, RequestsOK
<1> QED
  BY <1>1 DEF Request

\* A request that holds no id leaves one over.
LEMMA IdLeft ==
  ASSUME SignUpInv, NEW r \in Requests, request[r].row.id = 0
  PROVE  new_id \in Ids /\ \A q \in Requests : request[q].row.id # new_id
<1> DEFINE others == Requests \ {r}
           N == Cardinality(Requests)
           used == {request[q].row.id : q \in others}
<1>1. N \in Nat /\ N > 0 /\ IsFiniteSet(others) /\ Cardinality(others) = N - 1
  <2>1. IsFiniteSet(Requests) /\ N \in Nat
    BY SignUpAssumption, FS_CardinalityType
  <2>2. IsFiniteSet(others) /\ Cardinality(others) = N - 1
    BY <2>1, FS_RemoveElement
  <2>3. Cardinality(others) \in Nat
    BY <2>2, FS_CardinalityType
  <2> QED
    BY <2>1, <2>2, <2>3
<1>2. IsFiniteSet(used) /\ Cardinality(used) <= N - 1
  <2> DEFINE f == [q \in others |-> request[q].row.id]
  <2>1. f \in Surjection(others, used)
    BY DEF Surjection
  <2> HIDE DEF f, used, others
  <2> QED
    BY <1>1, <2>1, FS_Surjection
<1>3. IsFiniteSet(Ids) /\ Cardinality(Ids) = N
  BY <1>1, FS_Interval DEF Ids
<1>4. \E i \in Ids : i \notin used
  <2> SUFFICES ASSUME Ids \subseteq used PROVE FALSE
    OBVIOUS
  <2>1. Cardinality(Ids) <= Cardinality(used)
    BY <1>2, FS_Subset
  <2>2. Cardinality(used) \in Nat
    BY <1>2, FS_CardinalityType
  <2> HIDE DEF used, N
  <2> QED
    BY <1>1, <1>2, <1>3, <2>1, <2>2
<1>5. \E i \in Ids : \A q \in Requests : request[q].row.id # i
  <2>1. 0 \notin Ids
    BY DEF Ids
  <2> QED
    BY <1>4, <2>1
<1> QED
  BY <1>5 DEF new_id

\* A row that is saved has an id.
LEMMA Saved ==
  ASSUME SignUpInv, NEW r \in Requests
  PROVE  LET row == request[r].row
         IN  /\ saved(row) \in PendingRow /\ saved(row).id # 0 /\ saved(row).email = row.email
             /\ saved(row).code = row.code /\ saved(row).attempts = row.attempts
             /\ saved(row).terms = row.terms
<1> DEFINE row == request[r].row
<1>1. row \in PendingRow
  BY RequestFacts
<1>2. CASE row.id = 0
  <2>1. new_id \in Ids /\ new_id # 0
    BY <1>2, IdLeft DEF Ids
  <2>2. saved(row) = [row EXCEPT !.id = new_id]
    BY <1>2 DEF saved
  <2> HIDE DEF row
  <2>3. /\ saved(row) \in PendingRow /\ saved(row).id # 0 /\ saved(row).email = row.email
        /\ saved(row).code = row.code /\ saved(row).attempts = row.attempts
        /\ saved(row).terms = row.terms
    BY <1>1, <2>1, <2>2 DEF PendingRow
  <2> QED
    BY <2>3 DEF row
<1>3. CASE row.id # 0
  BY <1>1, <1>3 DEF saved
<1> QED
  BY <1>2, <1>3

\* A row with columns overwritten.
LEMMA Changed ==
  ASSUME NEW row \in PendingRow
  PROVE  /\ [row EXCEPT !.terms = TRUE] \in PendingRow
         /\ [row EXCEPT !.email = TRUE] \in PendingRow
         /\ uncoded(row) \in PendingRow /\ uncoded(row).id = row.id
         /\ uncoded(row).terms = row.terms
         /\ \A c \in Codes : /\ fresh_row(row, c) \in PendingRow /\ fresh_row(row, c).id = row.id
                             /\ fresh_row(row, c).terms = row.terms
                             /\ [row EXCEPT !.code = c] \in PendingRow
         /\ row.attempts < OTP_MAX_ATTEMPTS => [row EXCEPT !.attempts = @ + 1] \in PendingRow
<1>1. OTP_MAX_ATTEMPTS \in Nat
  BY SignUpAssumption
<1>2. [row EXCEPT !.terms = TRUE] \in PendingRow /\ [row EXCEPT !.email = TRUE] \in PendingRow
  BY DEF PendingRow
<1>3. uncoded(row) \in PendingRow /\ uncoded(row).id = row.id /\ uncoded(row).terms = row.terms
  <2>1. 0 \in 0..OTP_MAX_ATTEMPTS
    BY <1>1
  <2>2. uncoded(row) \in PendingRow
    BY <2>1 DEF PendingRow, uncoded
  <2>3. uncoded(row).id = row.id /\ uncoded(row).terms = row.terms
    BY DEF PendingRow, uncoded
  <2> QED
    BY <2>2, <2>3
<1>4. ASSUME NEW c \in Codes
      PROVE  /\ fresh_row(row, c) \in PendingRow /\ fresh_row(row, c).id = row.id
             /\ fresh_row(row, c).terms = row.terms
             /\ [row EXCEPT !.code = c] \in PendingRow
  <2>1. 0 \in 0..OTP_MAX_ATTEMPTS
    BY <1>1
  <2>2. fresh_row(row, c) \in PendingRow
    BY <2>1 DEF PendingRow, fresh_row
  <2>3. fresh_row(row, c).id = row.id /\ fresh_row(row, c).terms = row.terms
    BY DEF PendingRow, fresh_row
  <2>4. [row EXCEPT !.code = c] \in PendingRow
    BY DEF PendingRow
  <2> QED
    BY <2>2, <2>3, <2>4
<1>5. row.attempts < OTP_MAX_ATTEMPTS => [row EXCEPT !.attempts = @ + 1] \in PendingRow
  BY <1>1 DEF PendingRow
<1> QED
  BY <1>2, <1>3, <1>4, <1>5

\* What a request does next: it is answered, or holds another row.
LEMMA Reply ==
  ASSUME SignUpInv, NEW r \in Requests, reply(r) PROVE RequestsOK' /\ request'[r] = Idle
<1>1. request' = [request EXCEPT ![r] = Idle] /\ request \in [Requests -> Request]
  BY DEF reply, SignUpInv, RequestsOK
<1>2. request' \in [Requests -> Request] /\ request'[r] = Idle
  BY <1>1, NoPendingIsARow
<1>3. \A q \in Requests : request'[q].pc = "issue" => request'[q].row.id # 0
  BY <1>1, NoPendingIsARow DEF SignUpInv, RequestsOK
<1> QED
  BY <1>2, <1>3 DEF RequestsOK

LEMMA Await ==
  ASSUME SignUpInv, NEW r \in Requests, NEW row \in PendingRow,
         NEW pc \in {"save_terms", "save_email", "issue", "mail", "wrong", "commit"},
         pc = "issue" => row.id # 0, await(r, pc, row)
  PROVE  RequestsOK' /\ request'[r].pc = pc /\ request'[r].row = row
<1> DEFINE new == [pc |-> pc, row |-> row, found |-> user.exists]
<1>1. request' = [request EXCEPT ![r] = new] /\ request \in [Requests -> Request]
  BY DEF await, SignUpInv, RequestsOK
<1>2. new \in Request /\ new.pc = pc /\ new.row = row
  <2>1. user.exists \in BOOLEAN
    BY DEF SignUpInv, RowsOK
  <2> QED
    BY <2>1 DEF Request
<1> HIDE DEF new
<1>3. request' \in [Requests -> Request] /\ request'[r] = new
  BY <1>1, <1>2
<1>4. \A q \in Requests : request'[q].pc = "issue" => request'[q].row.id # 0
  BY <1>1, <1>2 DEF SignUpInv, RequestsOK
<1> QED
  BY <1>2, <1>3, <1>4 DEF RequestsOK

-----------------------------------------------------------------------------
(* The steps.                                                               *)

LEMMA Begins == ASSUME NEW r \in Requests PROVE SignUpInv /\ begin(r) => SignUpInv'
<1> SUFFICES ASSUME SignUpInv, begin(r) PROVE SignUpInv'
  OBVIOUS
<1>0. pending \in PendingRow /\ user \in [exists : BOOLEAN, terms : BOOLEAN]
  BY DEF SignUpInv, RowsOK
<1>1. ASSUME acceptTerms(r) PROVE RowsOK' /\ RequestsOK' /\ UNCHANGED code_vars
  <2>1. CASE user.exists
    <3>1. user' = [user EXCEPT !.terms = TRUE] /\ UNCHANGED <<request, pending, code_vars>>
      BY <1>1, <2>1 DEF acceptTerms
    <3>2. user' \in [exists : BOOLEAN, terms : BOOLEAN]
      BY <1>0, <3>1
    <3> QED
      BY <3>1, <3>2 DEF SignUpInv, RowsOK, RequestsOK
  <2>2. CASE ~user.exists
    <3>1. /\ await(r, "save_terms", [pending EXCEPT !.terms = TRUE])
          /\ UNCHANGED <<user, pending, code_vars>>
      BY <1>1, <2>2 DEF acceptTerms
    <3>2. RequestsOK'
      BY <1>0, <3>1, Changed, Await
    <3> QED
      BY <3>1, <3>2 DEF SignUpInv, RowsOK
  <2> QED
    BY <2>1, <2>2
<1>2. with_email \in PendingRow
  BY <1>0, Changed DEF with_email
<1>3. ASSUME verifyEmail(r) PROVE RequestsOK'
  BY <1>2, <1>3, Await DEF verifyEmail
<1>4. ASSUME NEW b \in BOOLEAN, resendOtp(r, b) PROVE RequestsOK'
  <2>1. CASE await(r, "save_email", with_email)
    BY <1>2, <2>1, Await
  <2>2. CASE pending.email /\ await(r, "issue", uncoded(pending))
    <3>1. pending.id # 0
      BY <2>2, NoPendingIsARow DEF SignUpInv, RowsOK
    <3>2. uncoded(pending) \in PendingRow /\ uncoded(pending).id # 0
      BY <1>0, <3>1, Changed
    <3> QED
      BY <2>2, <3>2, Await
  <2> QED
    BY <1>4, <2>1, <2>2 DEF resendOtp
<1>5. ASSUME NEW b \in BOOLEAN, verifyOtp(r, b) PROVE RequestsOK'
  <2>1. pending.attempts < OTP_MAX_ATTEMPTS
    BY <1>5 DEF verifyOtp, usable
  <2>2. [pending EXCEPT !.attempts = @ + 1] \in PendingRow
    BY <1>0, <2>1, Changed
  <2>3. CASE await(r, "commit", pending)
    BY <1>0, <2>3, Await
  <2>4. CASE await(r, "wrong", [pending EXCEPT !.attempts = @ + 1])
    BY <2>2, <2>4, Await
  <2> QED
    BY <1>5, <2>3, <2>4 DEF verifyOtp
<1>6. CASE acceptTerms(r)
  BY <1>1, <1>6 DEF SignUpInv, CodesOK, code_vars
<1>7. CASE ~acceptTerms(r)
  <2>1. RequestsOK' /\ UNCHANGED <<pending, user, code_vars>>
    BY <1>3, <1>4, <1>5, <1>7 DEF begin, verifyEmail, resendOtp, verifyOtp
  <2> QED
    BY <2>1 DEF SignUpInv, RowsOK, CodesOK, code_vars
<1> QED
  BY <1>6, <1>7

\* Saving, for whichever request.
LEMMA SaveRow ==
  ASSUME SignUpInv, NEW r \in Requests, user' = user,
         pending' = IF savable(request[r].row) THEN saved(request[r].row) ELSE pending
  PROVE  RowsOK'
BY Saved DEF SignUpInv, RowsOK

LEMMA Proceeds == ASSUME NEW r \in Requests PROVE SignUpInv /\ proceed(r) => SignUpInv'
<1> SUFFICES ASSUME SignUpInv, proceed(r) PROVE SignUpInv'
  OBVIOUS
<1> DEFINE row == request[r].row
<1>0. row \in PendingRow
  BY RequestFacts
<1>1. CASE saveTerms(r) \/ wrongCode(r)
  <2>1. /\ pending' = IF savable(row) THEN saved(row) ELSE pending
        /\ reply(r) /\ UNCHANGED <<user, code_vars>>
    BY <1>1 DEF saveTerms, wrongCode, save
  <2>2. RowsOK' /\ RequestsOK'
    BY <2>1, SaveRow, Reply
  <2> QED
    BY <2>1, <2>2 DEF SignUpInv, CodesOK, code_vars
<1>2. CASE saveEmail(r)
  <2>1. /\ pending' = IF savable(row) THEN saved(row) ELSE pending
        /\ UNCHANGED <<user, code_vars>>
        /\ await(r, "issue", uncoded(saved(row))) \/ reply(r)
    BY <1>2 DEF saveEmail, emailRow
  <2>2. RowsOK'
    BY <2>1, SaveRow
  <2>3. saved(row) \in PendingRow /\ saved(row).id # 0
    BY Saved
  <2>4. uncoded(saved(row)) \in PendingRow /\ uncoded(saved(row)).id # 0
    BY <2>3, Changed
  <2>5. RequestsOK'
    BY <2>1, <2>4, Await, Reply
  <2> QED
    BY <2>1, <2>2, <2>5 DEF SignUpInv, CodesOK, code_vars
<1>3. ASSUME NEW c \in Codes, issueOtpForPending(r, c) PROVE SignUpInv'
  <2>1. row.id # 0 /\ user' = user
    BY <1>3, RequestFacts DEF issueOtpForPending
  <2>2. CASE savable(row)
    <3>1. /\ pending' = fresh_row(row, c) /\ await(r, "mail", [NoPending EXCEPT !.code = c])
          /\ age' = [d \in Codes |-> IF d = c THEN "recent" ELSE IF d \in in_use THEN age[d] ELSE "expired"]
      BY <1>3, <2>2 DEF issueOtpForPending
    <3>2. fresh_row(row, c) \in PendingRow /\ fresh_row(row, c).id # 0
      BY <1>0, <2>1, Changed
    <3>3. [NoPending EXCEPT !.code = c] \in PendingRow
      BY NoPendingIsARow, Changed
    <3>4. RequestsOK'
      BY <3>1, <3>3, Await
    <3>5. RowsOK'
      BY <2>1, <3>1, <3>2 DEF SignUpInv, RowsOK
    <3>6. CodesOK'
      BY <3>1 DEF SignUpInv, CodesOK
    <3> QED
      BY <3>4, <3>5, <3>6 DEF SignUpInv
  <2>3. CASE ~savable(row)
    <3>1. reply(r) /\ UNCHANGED <<pending, code_vars>>
      BY <1>3, <2>3 DEF issueOtpForPending
    <3> QED
      BY <2>1, <3>1, Reply DEF SignUpInv, RowsOK, CodesOK, code_vars
  <2> QED
    BY <2>2, <2>3
<1>4. ASSUME NEW ok \in BOOLEAN, sendMail(r, ok) PROVE SignUpInv'
  BY <1>4, Reply DEF sendMail, SignUpInv, RowsOK, CodesOK
<1>5. ASSUME NEW free \in BOOLEAN, commitUser(r, free) PROVE SignUpInv'
  <2>1. reply(r) /\ UNCHANGED code_vars
    BY <1>5 DEF commitUser
  <2>2. user' \in [exists : BOOLEAN, terms : BOOLEAN]
    <3>1. verified_user(row) \in [exists : BOOLEAN, terms : BOOLEAN]
      BY DEF verified_user
    <3>2. user' = verified_user(row) \/ user' = user
      BY <1>5 DEF commitUser
    <3> QED
      BY <3>1, <3>2 DEF SignUpInv, RowsOK
  <2>3. pending' \in {pending, NoPending}
    BY <1>5 DEF commitUser
  <2>4. RowsOK'
    BY <2>2, <2>3, NoPendingIsARow DEF SignUpInv, RowsOK
  <2> QED
    BY <2>1, <2>4, Reply DEF SignUpInv, CodesOK, code_vars
<1> QED
  BY <1>1, <1>2, <1>3, <1>4, <1>5 DEF proceed

LEMMA Ages == ASSUME NEW c \in Codes PROVE SignUpInv /\ code_ages(c) => SignUpInv'
<1> SUFFICES ASSUME SignUpInv, code_ages(c) PROVE SignUpInv'
  OBVIOUS
<1>1. CodesOK'
  BY DEF code_ages, SignUpInv, CodesOK
<1> QED
  BY <1>1 DEF code_ages, SignUpInv, RowsOK, RequestsOK

-----------------------------------------------------------------------------
(* The theorems.                                                            *)

\* Whatever requests overlap, with old copies written back and rows inserted
\* again: the rows, the copies and the ages of the codes are what they should be.
THEOREM SignUpInvariance == SignUpSpec => []SignUpInv
<1>1. SignUpInit => SignUpInv
  <2> SUFFICES ASSUME SignUpInit PROVE SignUpInv
    OBVIOUS
  <2>1. RowsOK
    BY NoPendingIsARow DEF SignUpInit, RowsOK, NoUser
  <2>2. RequestsOK
    BY NoPendingIsARow DEF SignUpInit, RequestsOK
  <2>3. CodesOK
    BY DEF SignUpInit, CodesOK
  <2> QED
    BY <2>1, <2>2, <2>3 DEF SignUpInv
<1>2. SignUpInv /\ [SignUpNext]_vars => SignUpInv'
  <2>1. SignUpInv /\ SignUpNext => SignUpInv'
    BY Begins, Proceeds, Ages DEF SignUpNext
  <2>2. SignUpInv /\ UNCHANGED vars => SignUpInv'
    BY DEF vars, SignUpInv, RowsOK, RequestsOK, CodesOK
  <2> QED
    BY <2>1, <2>2
<1> QED
  BY <1>1, <1>2, PTL DEF SignUpSpec

\* Type correctness: attempts stay within their number although old copies are
\* written back, and a row that is not there has no column set.
THEOREM SignUpTypeCorrect == SignUpSpec => []SignUpTypeOK
<1>1. SignUpInv => SignUpTypeOK
  BY DEF SignUpInv, RowsOK, PendingRow, SignUpTypeOK
<1> QED
  BY <1>1, SignUpInvariance, PTL

\* A request that holds a row acts whenever it is answered or goes on.
LEMMA Acts ==
  ASSUME SignUpInv, NEW r \in Requests, proceed(r)
  PROVE  acts(r)
<1>1. request \in [Requests -> Request]
  BY DEF SignUpInv, RequestsOK
<1>2. request[r].pc # "idle" /\ request[r] # Idle
  BY NoPendingIsARow DEF proceed, saveTerms, saveEmail, wrongCode, issueOtpForPending, sendMail, commitUser
<1>3. CASE reply(r)
  BY <1>1, <1>2, <1>3 DEF acts, reply
<1>4. CASE ~reply(r)
  <2>1. \/ request[r].pc = "save_email" /\ await(r, "issue", uncoded(saved(request[r].row)))
        \/ request[r].pc = "issue" /\ \E c \in Codes : await(r, "mail", [NoPending EXCEPT !.code = c])
    BY <1>4 DEF proceed, saveTerms, saveEmail, wrongCode, issueOtpForPending, sendMail, commitUser
  <2>2. request'[r].pc # request[r].pc
    BY <1>1, <2>1 DEF await
  <2> QED
    BY <1>2, <2>2 DEF acts
<1> QED
  BY <1>3, <1>4

\* What a step of a request writes: the row that it holds, a new code in it, no
\* row, or the row as it is.
LEMMA Writes ==
  ASSUME SignUpInv, NEW r \in Requests, proceed(r)
  PROVE  \/ pending' = pending
         \/ pending' = saved(request[r].row) /\ UNCHANGED <<user, age>>
         \/ /\ request[r].pc = "issue" /\ user' = user
            /\ \E c \in Codes : pending' = fresh_row(request[r].row, c)
         \/ pending' = NoPending /\ user' = verified_user(request[r].row)
BY DEF proceed, saveTerms, saveEmail, wrongCode, issueOtpForPending, sendMail, commitUser, save,
       emailRow, code_vars

LEMMA WritesUser ==
  ASSUME SignUpInv, NEW r \in Requests, proceed(r)
  PROVE  user' = user \/ user' = verified_user(request[r].row)
BY DEF proceed, saveTerms, saveEmail, wrongCode, issueOtpForPending, sendMail, commitUser

\* Terms once accepted stay accepted through every save, new code and the move
\* from one table to the other, unless a request that read the row before they
\* were accepted writes it, or makes a user of it, afterwards.
THEOREM TermsStayAccepted == SignUpSpec => TermsLostOnlyToOverlap
<1> DEFINE Kept == termsAccepted /\ ~termsAccepted' =>
                     \E r \in Requests : acts(r) /\ ~request[r].row.terms
<1>1. ASSUME SignUpInv, NEW r \in Requests, proceed(r), termsAccepted, request[r].row.terms
      PROVE  termsAccepted'
  <2> DEFINE row == request[r].row
  <2>1. row \in PendingRow /\ saved(row).terms = row.terms
    BY <1>1, RequestFacts, Saved
  <2>2. \A c \in Codes : fresh_row(row, c).terms = row.terms
    BY <2>1, Changed
  <2>3. verified_user(row).exists /\ verified_user(row).terms
    BY <1>1 DEF verified_user
  <2>4. CASE user' = verified_user(row)
    BY <2>3, <2>4 DEF termsAccepted
  <2>5. CASE user' = user /\ user' # verified_user(row)
    <3>1. CASE user.exists
      BY <1>1, <2>5, <3>1 DEF termsAccepted
    <3>2. CASE ~user.exists
      <4>1. pending.terms
        BY <1>1, <3>2 DEF termsAccepted
      <4>2. pending'.terms
        BY <1>1, <2>1, <2>2, <2>5, <4>1, Writes
      <4> QED
        BY <2>5, <3>2, <4>2 DEF termsAccepted
    <3> QED
      BY <3>1, <3>2
  <2> QED
    BY <1>1, <2>4, <2>5, WritesUser
<1>2. ASSUME SignUpInv, NEW r \in Requests, begin(r), termsAccepted PROVE termsAccepted'
  <2>1. CASE acceptTerms(r) /\ user.exists
    <3>1. user' = [user EXCEPT !.terms = TRUE] /\ user \in [exists : BOOLEAN, terms : BOOLEAN]
      BY <1>2, <2>1 DEF acceptTerms, SignUpInv, RowsOK
    <3>2. user'.exists /\ user'.terms
      BY <2>1, <3>1
    <3> QED
      BY <3>2 DEF termsAccepted
  <2>2. CASE ~(acceptTerms(r) /\ user.exists)
    <3>1. UNCHANGED <<pending, user>>
      BY <1>2, <2>2 DEF begin, acceptTerms, verifyEmail, resendOtp, verifyOtp
    <3> QED
      BY <1>2, <3>1 DEF termsAccepted
  <2> QED
    BY <2>1, <2>2
<1>3. ASSUME (\E c \in Codes : code_ages(c)) \/ UNCHANGED vars, termsAccepted PROVE termsAccepted'
  BY <1>3 DEF code_ages, vars, termsAccepted
<1>4. ASSUME SignUpInv, [SignUpNext]_vars, termsAccepted, ~termsAccepted'
      PROVE  \E r \in Requests : acts(r) /\ ~request[r].row.terms
  <2>1. PICK r \in Requests : proceed(r)
    BY <1>2, <1>3, <1>4 DEF SignUpNext
  <2> QED
    BY <1>1, <1>4, <2>1, Acts
<1>5. SignUpInv /\ [SignUpNext]_vars => [Kept]_vars
  BY <1>4
<1> HIDE DEF Kept
<1>6. SignUpSpec => [][Kept]_vars
  BY <1>5, SignUpInvariance, PTL DEF SignUpSpec
<1> QED
  BY <1>6 DEF TermsLostOnlyToOverlap, Kept

\* A code that was used up, tried too often, expired or replaced is never
\* accepted again, unless it is issued anew or a request that read the row while
\* it had attempts left writes it back.
THEOREM DeadCodesAreDead == SignUpSpec => DeadCodesStayDead
<1> DEFINE Excuse(c) == \E r \in Requests :
                          /\ acts(r)
                          /\ \/ request[r].pc = "issue"
                             \/ request[r].row.code = c /\ request[r].row.attempts < OTP_MAX_ATTEMPTS
           Dead == \A c \in Codes : ~live(c) /\ live(c)' => Excuse(c)
<1>0. ASSUME NEW c \in Codes, live(c)'
      PROVE  /\ pending'.code = c /\ pending'.email /\ c # 0 /\ age'[c] # "expired"
             /\ pending'.attempts < OTP_MAX_ATTEMPTS
  BY <1>0 DEF live, usable
<1>1. ASSUME SignUpInv, NEW r \in Requests, proceed(r), NEW c \in Codes, ~live(c), live(c)'
      PROVE  Excuse(c)
  <2>1. acts(r)
    BY <1>1, Acts
  <2>2. CASE request[r].pc = "issue"
    BY <2>1, <2>2
  <2>3. CASE request[r].pc # "issue"
    <3>1. age' = age
      BY <1>1, <2>3 DEF proceed, saveTerms, saveEmail, wrongCode, issueOtpForPending, sendMail,
                        commitUser, code_vars
    <3>2. pending' # pending
      BY <1>1, <3>1 DEF live, usable
    <3>3. pending' # NoPending
      BY <1>0, <1>1, NoPendingIsARow
    <3>4. pending' = saved(request[r].row)
      BY <1>1, <2>3, <3>2, <3>3, Writes
    <3>5. request[r].row.code = c /\ request[r].row.attempts < OTP_MAX_ATTEMPTS
      BY <1>0, <1>1, <3>4, Saved
    <3> QED
      BY <2>1, <3>5
  <2> QED
    BY <2>2, <2>3
<1>2. ASSUME NEW r \in Requests, begin(r), NEW c \in Codes, live(c)' PROVE live(c)
  <2>1. UNCHANGED <<pending, age>>
    BY <1>2 DEF begin, acceptTerms, verifyEmail, resendOtp, verifyOtp, code_vars
  <2> QED
    BY <1>2, <2>1 DEF live, usable
<1>3. ASSUME SignUpInv, NEW d \in Codes, code_ages(d), NEW c \in Codes, live(c)' PROVE live(c)
  <2>1. /\ pending' = pending /\ age[d] # "expired" /\ age \in [Codes -> {"recent", "valid", "expired"}]
        /\ age' = [age EXCEPT ![d] = IF @ = "recent" THEN "valid" ELSE "expired"]
    BY <1>3 DEF code_ages, SignUpInv, CodesOK
  <2>2. age'[c] # "expired" => age[c] # "expired"
    BY <2>1
  <2> QED
    BY <1>0, <1>3, <2>1, <2>2 DEF live, usable
<1>4. ASSUME UNCHANGED vars, NEW c \in Codes, live(c)' PROVE live(c)
  BY <1>4 DEF vars, live, usable
<1>5. ASSUME SignUpInv, [SignUpNext]_vars, NEW c \in Codes, ~live(c), live(c)' PROVE Excuse(c)
  <2> HIDE DEF Excuse
  <2> QED
    BY <1>1, <1>2, <1>3, <1>4, <1>5 DEF SignUpNext
<1>6. SignUpInv /\ [SignUpNext]_vars => [Dead]_vars
  <2> HIDE DEF Excuse
  <2> QED
    BY <1>5
<1> HIDE DEF Dead
<1>7. SignUpSpec => [][Dead]_vars
  BY <1>6, SignUpInvariance, PTL DEF SignUpSpec
<1> QED
  BY <1>7 DEF DeadCodesStayDead, Dead
=============================================================================
