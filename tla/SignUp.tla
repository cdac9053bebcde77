------------------------------- MODULE SignUp -------------------------------
(***************************************************************************)
(* A wallet becomes a user: UserOnboardingService keeps what it has so far *)
(* in not_verified_users (terms, e-mail, code), and verifying the code     *)
(* turns that row into a users row.                                        *)
(*                                                                         *)
(* Requests of one wallet run at the same time (two tabs, a double click,  *)
(* a retry).  Each reads its row, awaits, and writes: pendingRepo.save     *)
(* writes every column of the copy it read and inserts the row again when  *)
(* it is gone; repo.update writes the columns it names.  Which address it  *)
(* is does not matter here, only whether there is one, and that another    *)
(* user may have it.  A code is a number whose age says whether it is too  *)
(* recent for another one (60 s) or too old to be used (10 min).           *)
(***************************************************************************)
EXTENDS Integers, FiniteSets

CONSTANTS
  Requests,          \* requests that run at the same time
  Codes,             \* bound: codes in use at the same time
  OTP_MAX_ATTEMPTS   \* 5

ASSUME SignUpAssumption ==
  /\ IsFiniteSet(Requests)
  /\ Codes \subseteq Nat \ {0} /\ OTP_MAX_ATTEMPTS \in Nat \ {0}

VARIABLES
  pending,    \* the wallet's row of not_verified_users
  user,       \* its row of users
  age,        \* of each code
  delivered,  \* codes that reached the user
  request

vars == <<pending, user, age, delivered, request>>
code_vars == <<age, delivered>>

Ids == 1..Cardinality(Requests)
NoPending == [id |-> 0, email |-> FALSE, code |-> 0, attempts |-> 0, terms |-> FALSE]
NoUser == [exists |-> FALSE, terms |-> FALSE]

\* A request holds the row it read, or made (id 0), and whether it found a user.
Idle == [pc |-> "idle", row |-> NoPending, found |-> FALSE]

in_use == {pending.code} \cup {request[r].row.code : r \in Requests}

reply(r) == request' = [request EXCEPT ![r] = Idle]
await(r, pc, row) == request' = [request EXCEPT ![r] = [pc |-> pc, row |-> row, found |-> user.exists]]

-----------------------------------------------------------------------------
(* Reading                                                                  *)

\* accept-terms: on the user, if there is one.
acceptTerms(r) ==
  /\ request[r] = Idle
  /\ \/ /\ user.exists
        /\ user' = [user EXCEPT !.terms = TRUE]
        /\ UNCHANGED request
     \/ /\ ~user.exists
        /\ await(r, "save_terms", [pending EXCEPT !.terms = TRUE])
        /\ UNCHANGED user
  /\ UNCHANGED <<pending, code_vars>>

\* the row a new code goes into
uncoded(row) == [row EXCEPT !.code = 0, !.attempts = 0]

throttled(row) == row.code # 0 /\ age[row.code] = "recent"

with_email == [pending EXCEPT !.email = TRUE]

\* verify-email and join-waitlist, of an address nobody else has.
verifyEmail(r) ==
  /\ request[r] = Idle
  /\ await(r, "save_email", with_email)
  /\ UNCHANGED <<pending, user, code_vars>>

\* resend-otp, with a new address or to the one stored; a user is left alone.
resendOtp(r, new_address) ==
  /\ request[r] = Idle /\ ~user.exists
  /\ \/ new_address /\ await(r, "save_email", with_email)
     \/ /\ ~new_address /\ pending.email /\ ~throttled(pending)
        /\ await(r, "issue", uncoded(pending))
  /\ UNCHANGED <<pending, user, code_vars>>

-----------------------------------------------------------------------------
(* Saving, and sending a code                                               *)

\* pendingRepo.save: a row with an id is updated, or inserted again; one without
\* gets an id nobody has.  The unique index refuses a second row of the wallet.
savable(row) == pending.id \in {0, row.id}
new_id == CHOOSE i \in Ids : \A r \in Requests : request[r].row.id # i
saved(row) == IF row.id = 0 THEN [row EXCEPT !.id = new_id] ELSE row
save(row) == pending' = IF savable(row) THEN saved(row) ELSE pending

saveTerms(r) ==
  /\ request[r].pc = "save_terms"
  /\ save(request[r].row)
  /\ reply(r)
  /\ UNCHANGED <<user, code_vars>>

emailRow_resets_attempts(row) ==  \* mutant: a stored address restarts the count of attempts
  [saved(row) EXCEPT !.attempts = 0]
emailRow(row) == saved(row)

\* The e-mail is stored first; only then is a new code refused for a minute.
saveEmail(r) ==
  LET row == request[r].row IN
  /\ request[r].pc = "save_email"
  /\ pending' = IF savable(row) THEN emailRow(row) ELSE pending
  /\ IF savable(row) /\ ~throttled(row) THEN await(r, "issue", uncoded(saved(row))) ELSE reply(r)
  /\ UNCHANGED <<user, code_vars>>

fresh_row_keeps_attempts(row, c) ==  \* mutant: attempts not reset
  [row EXCEPT !.code = c, !.attempts = pending.attempts]
fresh_row(row, c) == [row EXCEPT !.code = c, !.attempts = 0]

issueOtpForPending(r, c) ==
  LET row == request[r].row IN
  /\ request[r].pc = "issue"
  /\ IF savable(row)
       THEN /\ c \notin in_use /\ \A d \in Codes \ in_use : c <= d
            /\ pending' = fresh_row(row, c)
            /\ age' = [d \in Codes |-> IF d = c THEN "recent" ELSE IF d \in in_use THEN age[d] ELSE "expired"]
            /\ delivered' = (delivered \cap in_use) \ {c}
            /\ await(r, "mail", [NoPending EXCEPT !.code = c])
       ELSE reply(r) /\ UNCHANGED <<pending, code_vars>>
  /\ UNCHANGED user

\* A mail that cannot be sent is logged, and the answer is the same.
sendMail(r, ok) ==
  /\ request[r].pc = "mail"
  /\ delivered' = IF ok THEN delivered \cup {request[r].row.code} ELSE delivered
  /\ reply(r)
  /\ UNCHANGED <<pending, user, age>>

-----------------------------------------------------------------------------
(* verify-otp                                                               *)

usable_once_more(row) ==  \* mutant: one attempt too many
  row.email /\ row.code # 0 /\ age[row.code] # "expired" /\ row.attempts <= OTP_MAX_ATTEMPTS
usable(row) ==
  /\ row.email /\ row.code # 0
  /\ age[row.code] # "expired"
  /\ row.attempts < OTP_MAX_ATTEMPTS

\* The row is read and the code compared: a wrong one is counted in the copy.
verifyOtp(r, right) ==
  /\ request[r] = Idle /\ usable(pending)
  /\ right => pending.code \in delivered
  /\ IF right THEN await(r, "commit", pending)
     ELSE await(r, "wrong", [pending EXCEPT !.attempts = @ + 1])
  /\ UNCHANGED <<pending, user, code_vars>>

wrongCode(r) ==
  /\ request[r].pc = "wrong"
  /\ save(request[r].row)
  /\ reply(r)
  /\ UNCHANGED <<user, code_vars>>

verified_user_drops_terms(row) ==  \* mutant: the pending row's terms are not carried over
  [exists |-> TRUE, terms |-> user.terms]
\* What the transaction writes: terms accepted on either row stay accepted.
verified_user(row) == [exists |-> TRUE, terms |-> user.terms \/ row.terms]

\* The user is created or updated and the row deleted, or all is rolled back:
\* the address turns out to be another user's, or the user was created since.
commitUser(r, free) ==
  /\ request[r].pc = "commit"
  /\ IF free /\ (request[r].found \/ ~user.exists)
       THEN /\ user' = verified_user(request[r].row)
            /\ pending' = IF pending.id = request[r].row.id THEN NoPending ELSE pending
       ELSE UNCHANGED <<user, pending>>
  /\ reply(r)
  /\ UNCHANGED code_vars

-----------------------------------------------------------------------------
\* A mail is sent, or has failed, before its code expires.
code_ages(c) ==
  /\ c \in in_use /\ age[c] # "expired"
  /\ age[c] = "valid" => \A r \in Requests : ~(request[r].pc = "mail" /\ request[r].row.code = c)
  /\ age' = [age EXCEPT ![c] = IF @ = "recent" THEN "valid" ELSE "expired"]
  /\ UNCHANGED <<pending, user, delivered, request>>

SignUpInit ==
  /\ pending = NoPending /\ user = NoUser /\ delivered = {}
  /\ age = [c \in Codes |-> "expired"]
  /\ request = [r \in Requests |-> Idle]

begin(r) ==
  \/ acceptTerms(r) \/ verifyEmail(r)
  \/ \E b \in BOOLEAN : resendOtp(r, b) \/ verifyOtp(r, b)

proceed(r) ==
  \/ saveTerms(r) \/ saveEmail(r) \/ wrongCode(r)
  \/ \E c \in Codes : issueOtpForPending(r, c)
  \/ \E ok \in BOOLEAN : sendMail(r, ok) \/ commitUser(r, ok)

SignUpNext ==
  \/ \E r \in Requests : begin(r) \/ proceed(r)
  \/ \E c \in Codes : code_ages(c)

\* A user who does not give up: asks for a code and enters the one that
\* arrives.  Mail arrives, and an address is free, if tried often enough.
SignUpSpec ==
  /\ SignUpInit /\ [][SignUpNext]_vars
  /\ \A r \in Requests : 
       /\ WF_vars(proceed(r))
       /\ SF_vars(sendMail(r, TRUE)) /\ SF_vars(commitUser(r, TRUE))
  /\ SF_vars(\E r \in Requests : verifyEmail(r))
  /\ SF_vars(\E r \in Requests : verifyOtp(r, TRUE))
  /\ WF_vars(\E c \in Codes : code_ages(c))

-----------------------------------------------------------------------------
\* Type invariant; the columns of a row that is not there are not set.
SignUpTypeOK ==
  /\ pending \in [id : Ids \cup {0}, email : BOOLEAN, code : Codes \cup {0},
                  attempts : 0..OTP_MAX_ATTEMPTS, terms : BOOLEAN]
  /\ user \in [exists : BOOLEAN, terms : BOOLEAN]
  /\ pending.id = 0 => pending = NoPending

\* request r takes a step
acts(r) == request[r] # Idle /\ request'[r] # request[r]

termsAccepted == IF user.exists THEN user.terms ELSE pending.terms

\* getStepByWallet reads the terms off the user and, before there is one, off
\* the pending row.  Through saves, new codes and the move from one table to
\* the other they stay accepted, unless a request that read the row before they
\* were accepted writes it, or makes a user of it, afterwards.
TermsLostOnlyToOverlap ==
  [][termsAccepted /\ ~termsAccepted' => \E r \in Requests : acts(r) /\ ~request[r].row.terms]_vars

live(c) == pending.code = c /\ usable(pending)

\* A code that verifyOtp used up, that had too many attempts, expired or was
\* replaced is never accepted again, unless it is issued anew or a request that
\* read the row while the code still had attempts left writes it back.
DeadCodesStayDead ==
  [][\A c \in Codes : ~live(c) /\ live(c)' =>
       \E r \in Requests :
         /\ acts(r)
         /\ \/ request[r].pc = "issue"
            \/ request[r].row.code = c /\ request[r].row.attempts < OTP_MAX_ATTEMPTS]_vars

one_at_a_time == \A q, r \in Requests : q # r => request[q] = Idle \/ request[r] = Idle

\* The throttle, the attempts a code allows, its ten minutes, mails that are
\* not sent and addresses that others have delay a wallet; none of them locks
\* it out, whatever earlier overlaps left in the row.  (While requests overlap
\* for ever, one that writes an old copy back may undo every new code.)
SignUpCompletes == <>[]one_at_a_time => <>(user.exists)

=============================================================================
