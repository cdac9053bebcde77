----------------------------- MODULE SessionProofs -----------------------------
(* The borrower's session, for any number of tabs, calls, wallets and       *)
(* tokens.  That a sign-in has one live token is not inductive by itself:   *)
(* between the UPDATE that revokes a token and the INSERT that replaces it  *)
(* no token of the sign-in is live, and at most one tab is in between       *)
(* (TabsOK, Alone).  That dead tokens lapse needs to know how long ago a    *)
(* validation that is about to fill the cache read its row (CallsOK).       *)
EXTENDS Session, TLAPS

Token == [wallet: Wallets, expiresAt: Nat, revokedAt: Nat, root: Nat, deleted: BOOLEAN]
CallRecord == [pc: {"idle", "waiting", "sent", "reading", "filling"},
               tab: Tabs, token: Nat, retried: BOOLEAN, at: Nat]
RefreshRecord == [pc: {"idle", "sign_in", "refreshing", "revoking", "evicting", "refreshed"},
                  token: Nat, wallet: Wallets \cup {NoWallet}]

Types ==
  /\ now \in 1..MaxTime /\ tokens \in Seq(Token) /\ Len(tokens) <= MaxTokens
  /\ stored \in 0..Len(tokens)
  /\ wallet \in Wallets \cup {NoWallet} /\ switches \in 0..MaxSwitches
  /\ cache \in [1..MaxTokens -> 0..Forever]
  /\ call \in [Calls -> CallRecord]
  /\ refresh \in [Tabs -> RefreshRecord]

\* Rows, and the cache entries of tokens that have one.
TokensOK ==
  /\ \A t \in Issued : tokens[t].root \in 1..t /\ tokens[t].revokedAt \in 0..now
  /\ \A t \in 1..MaxTokens :
       /\ cache[t] \notin {0, Forever} => cache[t] <= now + CACHE_TTL
       /\ t \notin Issued => cache[t] = 0

\* A call waits for a refresh that is under way; a validation is recent, and
\* what it is about to cache was acceptable when it started.
CallsOK ==
  \A c \in Calls :
    /\ call[c].pc = "waiting" => refresh[call[c].tab].pc # "idle"
    /\ call[c].pc \in {"sent", "reading", "filling"} => call[c].token \in Issued
    /\ call[c].pc \in {"reading", "filling"} => call[c].at <= now /\ now <= call[c].at + LATENCY
    /\ call[c].pc = "filling" =>
         /\ tokens[call[c].token].expiresAt >= call[c].at
         /\ tokens[call[c].token].revokedAt = 0 \/ tokens[call[c].token].revokedAt >= call[c].at

\* While a tab is between revoking a token and issuing its successor, no token
\* of that sign-in is live.
TabsOK ==
  \A tab \in Tabs :
    /\ refresh[tab].token \in 0..Len(tokens)
    /\ refresh[tab].pc \in {"refreshing", "revoking", "evicting", "refreshed"} =>
         refresh[tab].token \in Issued
    /\ refresh[tab].pc = "evicting" =>
         \A t \in Issued : tokens[t].root = tokens[refresh[tab].token].root => tokens[t].revokedAt # 0

\* No two tabs are there with tokens of one sign-in.
Alone ==
  \A a, b \in Tabs :
    a # b /\ refresh[a].pc = "evicting" /\ refresh[b].pc = "evicting" =>
      tokens[refresh[a].token].root # tokens[refresh[b].token].root

\* The inductive invariant.
SessionInv ==
  /\ Types /\ TokensOK /\ CallsOK /\ TabsOK /\ Alone
  /\ OneLiveTokenPerSignIn /\ DeadTokensLapse

-----------------------------------------------------------------------------
(* What the steps have in common.                                           *)

LEMMA IdleTypes == IdleCall \in CallRecord /\ IdleRefresh \in RefreshRecord
BY SessionAssumption DEF IdleCall, IdleRefresh, CallRecord, RefreshRecord

\* What the invariant says of the single variables.
LEMMA StateFacts ==
  ASSUME SessionInv
  PROVE  /\ MaxTime \in Nat /\ MaxTokens \in Nat /\ TOKEN_TTL \in Nat /\ LATENCY \in Nat
         /\ CACHE_TTL \in Nat /\ CACHE_TTL > 0
         /\ Forever \in Nat /\ Forever' = Forever
         /\ now \in 1..MaxTime /\ now \in Nat /\ now >= 1
         /\ tokens \in Seq(Token) /\ Len(tokens) \in Nat /\ Len(tokens) <= MaxTokens
         /\ stored \in 0..Len(tokens) /\ cache \in [1..MaxTokens -> 0..Forever]
         /\ call \in [Calls -> CallRecord] /\ refresh \in [Tabs -> RefreshRecord]
<1>1. /\ MaxTime \in Nat /\ MaxTokens \in Nat /\ TOKEN_TTL \in Nat /\ LATENCY \in Nat
      /\ CACHE_TTL \in Nat /\ CACHE_TTL > 0
  BY SessionAssumption
<1>2. Forever \in Nat /\ Forever' = Forever
  BY <1>1 DEF Forever
<1>3. Types
  BY DEF SessionInv
<1>4. now \in Nat /\ now >= 1 /\ Len(tokens) \in Nat
  BY <1>1, <1>3 DEF Types
<1> QED
  BY <1>1, <1>2, <1>3, <1>4 DEF Types

\* A step of the browser leaves what is said of the server alone.
LEMMA BrowserFrame ==
  ASSUME SessionInv, UNCHANGED server_vars
  PROVE  TokensOK' /\ OneLiveTokenPerSignIn' /\ DeadTokensLapse'
BY DEF SessionInv, server_vars, TokensOK, OneLiveTokenPerSignIn, DeadTokensLapse, Issued, Forever

\* Refreshes that do not enter the gap between UPDATE and INSERT.
LEMMA TabsFrame ==
  ASSUME SessionInv, tokens' = tokens,
         \A tab \in Tabs :
           /\ refresh'[tab].token \in 0..Len(tokens)
           /\ refresh'[tab].pc \in {"refreshing", "revoking", "evicting", "refreshed"} =>
                refresh'[tab].token \in Issued
           /\ refresh'[tab].pc = "evicting" =>
                refresh[tab].pc = "evicting" /\ refresh'[tab].token = refresh[tab].token
  PROVE  TabsOK' /\ Alone'
<1>1. TabsOK'
  BY DEF SessionInv, TabsOK, Issued
<1>2. Alone'
  BY DEF SessionInv, Alone
<1> QED
  BY <1>1, <1>2

\* deduplicatedRefresh leaves the tab with a refresh under way.
LEMMA DedupFacts ==
  ASSUME SessionInv, NEW tab \in Tabs, deduplicatedRefresh(tab), UNCHANGED <<server_vars, stored>>
  PROVE  /\ refresh' \in [Tabs -> RefreshRecord] /\ TabsOK' /\ Alone'
         /\ refresh'[tab].pc # "idle"
         /\ \A x \in Tabs : refresh[x].pc # "idle" => refresh'[x].pc # "idle"
<1>1. /\ refresh \in [Tabs -> RefreshRecord] /\ tokens \in Seq(Token)
      /\ stored \in 0..Len(tokens) /\ wallet \in Wallets \cup {NoWallet}
  BY DEF SessionInv, Types
<1>2. Len(tokens) \in Nat
  BY <1>1
<1>3. CASE refresh[tab].pc # "idle"
  <2>1. refresh' = refresh
    BY <1>3 DEF deduplicatedRefresh
  <2>2. TabsOK' /\ Alone'
    BY <2>1, TabsFrame DEF SessionInv, TabsOK, server_vars
  <2> QED
    BY <1>1, <1>3, <2>1, <2>2
<1>4. CASE refresh[tab].pc = "idle"
  <2> DEFINE new == [pc |-> IF stored = 0 THEN "sign_in" ELSE "refreshing", token |-> stored, wallet |-> wallet]
  <2>1. refresh' = [refresh EXCEPT ![tab] = new]
    BY <1>4 DEF deduplicatedRefresh
  <2>2. /\ new \in RefreshRecord /\ new.token = stored
        /\ new.pc \in {"sign_in", "refreshing"} /\ (new.pc = "refreshing" => stored # 0)
    BY <1>1, <1>2 DEF RefreshRecord
  <2> HIDE DEF new
  <2>3. refresh' \in [Tabs -> RefreshRecord]
    BY <1>1, <2>1, <2>2
  <2>4. TabsOK' /\ Alone'
    <3>1. ASSUME NEW x \in Tabs
          PROVE  /\ refresh'[x].token \in 0..Len(tokens)
                 /\ refresh'[x].pc \in {"refreshing", "revoking", "evicting", "refreshed"} =>
                      refresh'[x].token \in Issued
                 /\ refresh'[x].pc = "evicting" =>
                      refresh[x].pc = "evicting" /\ refresh'[x].token = refresh[x].token
      <4>1. CASE x = tab
        BY <1>1, <1>2, <2>1, <2>2, <4>1 DEF Issued
      <4>2. CASE x # tab
        BY <1>1, <2>1, <4>2 DEF SessionInv, TabsOK
      <4> QED
        BY <4>1, <4>2
    <3> QED
      BY <3>1, TabsFrame DEF server_vars
  <2>5. refresh'[tab].pc # "idle" /\ \A x \in Tabs : refresh[x].pc # "idle" => refresh'[x].pc # "idle"
    BY <1>1, <2>1, <2>2
  <2> QED
    BY <2>3, <2>4, <2>5
<1> QED
  BY <1>3, <1>4

\* A call moves while the server and the refreshes stay: its own new record
\* has to be right, the others are.
LEMMA CallMoves ==
  ASSUME SessionInv, NEW c \in Calls, NEW new \in CallRecord,
         call' = [call EXCEPT ![c] = new],
         UNCHANGED <<now, tokens>>,
         \A x \in Tabs : refresh[x].pc # "idle" => refresh'[x].pc # "idle",
         new.pc = "waiting" => refresh'[new.tab].pc # "idle",
         new.pc \in {"sent", "reading", "filling"} => new.token \in Issued,
         new.pc \in {"reading", "filling"} => new.at <= now /\ now <= new.at + LATENCY,
         new.pc = "filling" =>
           /\ tokens[new.token].expiresAt >= new.at
           /\ tokens[new.token].revokedAt = 0 \/ tokens[new.token].revokedAt >= new.at
  PROVE  call' \in [Calls -> CallRecord] /\ CallsOK'
<1>1. call \in [Calls -> CallRecord]
  BY DEF SessionInv, Types
<1>2. call' \in [Calls -> CallRecord]
  BY <1>1
<1>3. ASSUME NEW d \in Calls
      PROVE  /\ call'[d].pc = "waiting" => refresh'[call'[d].tab].pc # "idle"
             /\ call'[d].pc \in {"sent", "reading", "filling"} => call'[d].token \in Issued
             /\ call'[d].pc \in {"reading", "filling"} => call'[d].at <= now /\ now <= call'[d].at + LATENCY
             /\ call'[d].pc = "filling" =>
                  /\ tokens[call'[d].token].expiresAt >= call'[d].at
                  /\ tokens[call'[d].token].revokedAt = 0 \/ tokens[call'[d].token].revokedAt >= call'[d].at
  <2>1. CASE d = c
    BY <1>1, <2>1
  <2>2. CASE d # c
    <3>1. call'[d] = call[d] /\ call[d].tab \in Tabs
      BY <1>1, <2>2 DEF CallRecord
    <3> QED
      BY <3>1 DEF SessionInv, CallsOK
  <2> QED
    BY <2>1, <2>2
<1>4. CallsOK'
  BY <1>3 DEF CallsOK, Issued
<1> QED
  BY <1>2, <1>4

\* The calls and refreshes only read rows that are there: new rows at the end
\* of the table do not disturb them.
Grows ==
  /\ tokens' \in Seq(Token) /\ Len(tokens') >= Len(tokens)
  /\ \A t \in Issued : tokens'[t] = tokens[t]

\* settle() gives every waiting call of the tab the token, or ends it.
LEMMA SettleFacts ==
  ASSUME SessionInv, NEW tab \in Tabs, NEW token \in Nat, settle(tab, token), now' = now,
         Grows, token # 0 => token \in 1..Len(tokens')
  PROVE  /\ refresh' \in [Tabs -> RefreshRecord]
         /\ refresh' = [refresh EXCEPT ![tab] = IdleRefresh]
         /\ call' \in [Calls -> CallRecord] /\ CallsOK'
<1>1. /\ refresh \in [Tabs -> RefreshRecord] /\ call \in [Calls -> CallRecord]
      /\ tokens \in Seq(Token) /\ Len(tokens) \in Nat /\ Len(tokens') \in Nat
  BY DEF SessionInv, Types, Grows
<1>2. refresh' = [refresh EXCEPT ![tab] = IdleRefresh] /\ refresh' \in [Tabs -> RefreshRecord]
  BY <1>1, IdleTypes DEF settle
<1>3. /\ \A c \in Calls : call'[c] = IF call[c].pc # "waiting" \/ call[c].tab # tab THEN call[c]
                                     ELSE IF token = 0 THEN IdleCall
                                     ELSE [call[c] EXCEPT !.pc = "sent", !.token = token]
      /\ call' \in [Calls -> CallRecord]
  BY <1>1, IdleTypes DEF settle, CallRecord
<1>4. ASSUME NEW c \in Calls
      PROVE  /\ call'[c].pc = "waiting" => refresh'[call'[c].tab].pc # "idle"
             /\ call'[c].pc \in {"sent", "reading", "filling"} => call'[c].token \in 1..Len(tokens')
             /\ call'[c].pc \in {"reading", "filling"} => call'[c].at <= now /\ now <= call'[c].at + LATENCY
             /\ call'[c].pc = "filling" =>
                  /\ tokens'[call'[c].token].expiresAt >= call'[c].at
                  /\ tokens'[call'[c].token].revokedAt = 0 \/ tokens'[call'[c].token].revokedAt >= call'[c].at
  <2>1. CASE call[c].pc # "waiting" \/ call[c].tab # tab
    <3>1. call'[c] = call[c] /\ call[c].tab \in Tabs
      BY <1>1, <1>3, <2>1 DEF CallRecord
    <3>2. call[c].pc = "waiting" => refresh'[call[c].tab].pc # "idle"
      BY <1>1, <1>2, <2>1, <3>1 DEF SessionInv, CallsOK
    <3>3. call[c].pc \in {"sent", "reading", "filling"} =>
            call[c].token \in Issued /\ call[c].token \in 1..Len(tokens')
      BY <1>1 DEF SessionInv, CallsOK, Grows, Issued
    <3> QED
      BY <3>1, <3>2, <3>3 DEF SessionInv, CallsOK, Grows
  <2>2. CASE call[c].pc = "waiting" /\ call[c].tab = tab /\ token = 0
    <3>1. call'[c] = IdleCall
      BY <1>3, <2>2
    <3> QED
      BY <3>1 DEF IdleCall
  <2>3. CASE call[c].pc = "waiting" /\ call[c].tab = tab /\ token # 0
    <3>1. call'[c] = [call[c] EXCEPT !.pc = "sent", !.token = token] /\ call[c] \in CallRecord
      BY <1>1, <1>3, <2>3
    <3>2. call'[c].pc = "sent" /\ call'[c].token = token
      BY <3>1 DEF CallRecord
    <3> QED
      BY <2>3, <3>2
  <2> QED
    BY <2>1, <2>2, <2>3
<1>5. CallsOK'
  BY <1>4 DEF CallsOK, Issued
<1> QED
  BY <1>2, <1>3, <1>5

-----------------------------------------------------------------------------
(* One lemma per action: the calls.                                         *)

LEMMA FetchStep ==
  ASSUME SessionInv, NEW c \in Calls, NEW tab \in Tabs, fetchWithAuthRetry(c, tab)
  PROVE  SessionInv'
<1> USE DEF wallet_vars
<1>1. UNCHANGED <<server_vars, stored, wallet_vars>>
  BY DEF fetchWithAuthRetry
<1>2. UNCHANGED <<now, tokens, cache, stored, wallet, switches>>
  BY <1>1 DEF server_vars
<1>3. /\ refresh \in [Tabs -> RefreshRecord] /\ tokens \in Seq(Token) /\ stored \in 0..Len(tokens)
      /\ Len(tokens) \in Nat /\ stored \in Nat
  BY DEF SessionInv, Types
<1>4. /\ refresh' \in [Tabs -> RefreshRecord] /\ TabsOK' /\ Alone'
      /\ call' \in [Calls -> CallRecord] /\ CallsOK'
  <2>1. CASE stored = 0
    <3> DEFINE new == [IdleCall EXCEPT !.pc = "waiting", !.tab = tab, !.retried = TRUE]
    <3>1. call' = [call EXCEPT ![c] = new] /\ deduplicatedRefresh(tab)
      BY <2>1 DEF fetchWithAuthRetry
    <3>2. new \in CallRecord /\ new.pc = "waiting" /\ new.tab = tab
      BY IdleTypes DEF CallRecord
    <3> HIDE DEF new
    <3>3. /\ refresh' \in [Tabs -> RefreshRecord] /\ TabsOK' /\ Alone'
          /\ refresh'[tab].pc # "idle"
          /\ \A x \in Tabs : refresh[x].pc # "idle" => refresh'[x].pc # "idle"
      BY <1>1, <3>1, DedupFacts
    <3>4. call' \in [Calls -> CallRecord] /\ CallsOK'
      BY <1>2, <3>1, <3>2, <3>3, CallMoves
    <3> QED
      BY <3>3, <3>4
  <2>2. CASE stored # 0
    <3> DEFINE new == [IdleCall EXCEPT !.pc = "sent", !.tab = tab, !.token = stored]
    <3>1. call' = [call EXCEPT ![c] = new] /\ refresh' = refresh
      BY <2>2 DEF fetchWithAuthRetry
    <3>2. new \in CallRecord /\ new.pc = "sent" /\ new.token = stored
      BY <1>3, IdleTypes DEF CallRecord
    <3> HIDE DEF new
    <3>3. call' \in [Calls -> CallRecord] /\ CallsOK'
      <4>1. stored \in Issued
        BY <1>3, <2>2 DEF Issued
      <4> QED
        BY <1>2, <3>1, <3>2, <4>1, CallMoves
    <3>4. TabsOK' /\ Alone'
      BY <1>2, <3>1, TabsFrame DEF SessionInv, TabsOK
    <3> QED
      BY <1>3, <3>1, <3>3, <3>4
  <2> QED
    BY <2>1, <2>2
<1>5. Types'
  BY <1>2, <1>4 DEF SessionInv, Types, Forever
<1> QED
  BY <1>1, <1>4, <1>5, BrowserFrame DEF SessionInv

\* A call that ends, or moves without touching a refresh.
LEMMA CallStep ==
  ASSUME SessionInv, NEW c \in Calls, NEW new \in CallRecord,
         call' = [call EXCEPT ![c] = new],
         UNCHANGED <<server_vars, stored, wallet_vars, refresh>>,
         new.pc \in {"idle", "sent", "reading", "filling"},
         new.pc \in {"sent", "reading", "filling"} => new.token \in Issued,
         new.pc \in {"reading", "filling"} => new.at <= now /\ now <= new.at + LATENCY,
         new.pc = "filling" =>
           /\ tokens[new.token].expiresAt >= new.at
           /\ tokens[new.token].revokedAt = 0 \/ tokens[new.token].revokedAt >= new.at
  PROVE  SessionInv'
<1>1. UNCHANGED <<now, tokens, cache, stored, wallet, switches, refresh>>
  BY DEF server_vars, wallet_vars
<1>2. call' \in [Calls -> CallRecord] /\ CallsOK'
  BY <1>1, CallMoves
<1>3. TabsOK' /\ Alone'
  BY <1>1, TabsFrame DEF SessionInv, TabsOK
<1>4. Types'
  BY <1>1, <1>2 DEF SessionInv, Types, Forever
<1> QED
  BY <1>2, <1>3, <1>4, BrowserFrame DEF SessionInv

LEMMA ValidateCachedStep ==
  ASSUME SessionInv, NEW c \in Calls, validateCached(c)
  PROVE  SessionInv'
<1> DEFINE new == IF cache[call[c].token] # 0 THEN IdleCall ELSE [call[c] EXCEPT !.pc = "reading", !.at = now]
<1>1. /\ call[c].pc = "sent" /\ call' = [call EXCEPT ![c] = new]
      /\ UNCHANGED <<server_vars, stored, wallet_vars, refresh>>
  BY DEF validateCached
<1>2. call[c] \in CallRecord /\ now \in Nat /\ LATENCY \in Nat
  BY SessionAssumption DEF SessionInv, Types
<1>3. call[c].token \in Issued
  BY <1>1 DEF SessionInv, CallsOK
<1>4. /\ new \in CallRecord
      /\ new.pc = "idle" \/ (new.pc = "reading" /\ new.token = call[c].token /\ new.at = now)
  BY <1>2, IdleTypes DEF CallRecord, IdleCall
<1> HIDE DEF new
<1>5. /\ new.pc \in {"idle", "sent", "reading", "filling"} /\ new.pc # "filling"
      /\ new.pc \in {"sent", "reading", "filling"} => new.token \in Issued
      /\ new.pc \in {"reading", "filling"} => new.at <= now /\ now <= new.at + LATENCY
  BY <1>2, <1>3, <1>4
<1> QED
  BY <1>1, <1>4, <1>5, CallStep

LEMMA ValidateRowStep ==
  ASSUME SessionInv, NEW c \in Calls, validateRow(c)
  PROVE  SessionInv'
<1>1. call[c].pc = "reading" /\ UNCHANGED <<server_vars, stored, wallet_vars>>
  BY DEF validateRow
<1>2. call[c] \in CallRecord /\ call \in [Calls -> CallRecord]
  BY DEF SessionInv, Types
<1>3. /\ call[c].token \in Issued
      /\ call[c].at <= now /\ now <= call[c].at + LATENCY
  BY <1>1 DEF SessionInv, CallsOK
<1>4. CASE acceptable(call[c].token, call[c].at)
  <2> DEFINE new == [call[c] EXCEPT !.pc = "filling"]
  <2>1. call' = [call EXCEPT ![c] = new] /\ refresh' = refresh
    BY <1>2, <1>4 DEF validateRow
  <2>2. new \in CallRecord /\ new.pc = "filling" /\ new.token = call[c].token /\ new.at = call[c].at
    BY <1>2 DEF CallRecord
  <2>3. tokens[call[c].token].expiresAt >= call[c].at /\ tokens[call[c].token].revokedAt = 0
    BY <1>4 DEF acceptable
  <2> HIDE DEF new
  <2> QED
    BY <1>1, <1>3, <2>1, <2>2, <2>3, CallStep
<1>5. CASE ~acceptable(call[c].token, call[c].at) /\ call[c].retried
  <2>1. call' = [call EXCEPT ![c] = IdleCall] /\ refresh' = refresh
    BY <1>5 DEF validateRow, refused
  <2>2. IdleCall.pc = "idle"
    BY DEF IdleCall
  <2> QED
    BY <1>1, <2>1, <2>2, IdleTypes, CallStep
<1>6. CASE ~acceptable(call[c].token, call[c].at) /\ ~call[c].retried
  <2> DEFINE new == [call[c] EXCEPT !.pc = "waiting", !.token = 0, !.retried = TRUE, !.at = 0]
  <2>1. call' = [call EXCEPT ![c] = new] /\ deduplicatedRefresh(call[c].tab)
    BY <1>6 DEF validateRow, refused
  <2>2. new \in CallRecord /\ new.pc = "waiting" /\ new.tab = call[c].tab /\ call[c].tab \in Tabs
    BY <1>2 DEF CallRecord
  <2> HIDE DEF new
  <2>3. UNCHANGED <<now, tokens, cache, stored, wallet, switches>>
    BY <1>1 DEF server_vars, wallet_vars
  <2>4. /\ refresh' \in [Tabs -> RefreshRecord] /\ TabsOK' /\ Alone'
        /\ refresh'[call[c].tab].pc # "idle"
        /\ \A x \in Tabs : refresh[x].pc # "idle" => refresh'[x].pc # "idle"
    BY <1>1, <2>1, <2>2, DedupFacts
  <2>5. call' \in [Calls -> CallRecord] /\ CallsOK'
    BY <2>1, <2>2, <2>3, <2>4, CallMoves
  <2>6. Types'
    BY <2>3, <2>4, <2>5 DEF SessionInv, Types, Forever
  <2> QED
    BY <1>1, <2>4, <2>5, <2>6, BrowserFrame DEF SessionInv
<1> QED
  BY <1>4, <1>5, <1>6 DEF validateRow, refused

\* The answer is cached from now on, though the row was read up to LATENCY ago.
LEMMA ValidateFillStep ==
  ASSUME SessionInv, NEW c \in Calls, validateFill(c)
  PROVE  SessionInv'
<1> DEFINE t == call[c].token
           at == call[c].at
           until == cacheUntil(t, at)
<1>1. /\ call[c].pc = "filling" /\ cache' = [cache EXCEPT ![t] = until]
      /\ call' = [call EXCEPT ![c] = IdleCall]
      /\ UNCHANGED <<now, tokens, stored, wallet, switches, refresh>>
  BY DEF validateFill, wallet_vars
<1>2. /\ now \in 1..MaxTime /\ now \in Nat /\ tokens \in Seq(Token) /\ Len(tokens) \in Nat
      /\ Len(tokens) <= MaxTokens /\ cache \in [1..MaxTokens -> 0..Forever] /\ at \in Nat
      /\ MaxTime \in Nat /\ TOKEN_TTL \in Nat /\ CACHE_TTL \in Nat /\ CACHE_TTL > 0 /\ LATENCY \in Nat
      /\ MaxTokens \in Nat
  <2>1. at \in Nat
    BY StateFacts DEF CallRecord
  <2> QED
    BY <2>1, StateFacts
<1>3. /\ t \in Issued /\ at <= now /\ now <= at + LATENCY
      /\ tokens[t].expiresAt >= at
      /\ tokens[t].revokedAt = 0 \/ tokens[t].revokedAt >= at
  BY <1>1 DEF SessionInv, CallsOK
<1> HIDE DEF t, at
<1>4. t \in 1..MaxTokens /\ tokens[t].expiresAt \in Nat /\ tokens[t].revokedAt \in Nat
  <2>1. t \in 1..MaxTokens /\ tokens[t] \in Token
    BY <1>2, <1>3 DEF Issued
  <2> QED
    BY <2>1 DEF Token
<1>5. /\ cacheTtl(t, at) \in Nat /\ cacheTtl(t, at) <= CACHE_TTL
      /\ cacheTtl(t, at) <= tokens[t].expiresAt - at
  <2> DEFINE expiry == tokens[t].expiresAt
             ttl == cacheTtl(t, at)
  <2>1. ttl = IF expiry - at < CACHE_TTL THEN expiry - at ELSE CACHE_TTL
    BY DEF cacheTtl
  <2>2. expiry \in Nat /\ at \in Nat /\ expiry >= at /\ CACHE_TTL \in Nat
    BY <1>2, <1>3, <1>4
  <2> HIDE DEF expiry, ttl
  <2>3. ttl \in Nat /\ ttl <= CACHE_TTL /\ ttl <= expiry - at
    BY <2>1, <2>2
  <2> QED
    BY <2>3 DEF expiry, ttl
<1>6. /\ until \in 0..Forever
      /\ until # Forever => /\ until <= now + CACHE_TTL
                            /\ until <= tokens[t].expiresAt + LATENCY
                            /\ tokens[t].revokedAt # 0 => until <= tokens[t].revokedAt + CACHE_TTL + LATENCY
  <2>1. CASE cacheTtl(t, at) = 0
    <3>1. until = Forever /\ Forever \in Nat
      BY <1>2, <2>1 DEF cacheUntil, Forever
    <3> QED
      BY <3>1
  <2>2. CASE cacheTtl(t, at) # 0
    <3>1. until = now + cacheTtl(t, at)
      BY <2>2 DEF cacheUntil
    <3>2. until <= Forever /\ until \in Nat /\ Forever \in Nat
      BY <1>2, <1>5, <3>1 DEF Forever
    <3> DEFINE ttl == cacheTtl(t, at)
               expiry == tokens[t].expiresAt
               revoked == tokens[t].revokedAt
    <3> HIDE DEF ttl, expiry, revoked, until
    <3>3. /\ ttl \in Nat /\ ttl <= CACHE_TTL /\ ttl <= expiry - at /\ expiry \in Nat /\ revoked \in Nat
          /\ until = now + ttl /\ at <= now /\ now <= at + LATENCY /\ (revoked = 0 \/ revoked >= at)
      BY <1>3, <1>4, <1>5, <3>1 DEF ttl, expiry, revoked
    <3>4. until <= now + CACHE_TTL /\ until <= expiry + LATENCY
      BY <1>2, <3>3
    <3>5. revoked # 0 => until <= revoked + CACHE_TTL + LATENCY
      BY <1>2, <3>3
    <3> QED
      BY <3>2, <3>4, <3>5 DEF expiry, revoked
  <2> QED
    BY <2>1, <2>2
<1> HIDE DEF until
<1>7. cache' \in [1..MaxTokens -> 0..Forever] /\ Forever' = Forever
  BY <1>1, <1>2, <1>4, <1>6 DEF Forever
<1>8. IdleCall.pc = "idle"
  BY DEF IdleCall
<1>9. call' \in [Calls -> CallRecord] /\ CallsOK'
  BY <1>1, <1>8, IdleTypes, CallMoves
<1>10. TabsOK' /\ Alone'
  BY <1>1, TabsFrame DEF SessionInv, TabsOK
<1>11. Types'
  BY <1>1, <1>7, <1>9 DEF SessionInv, Types
<1>12. TokensOK'
  BY <1>1, <1>2, <1>3, <1>4, <1>6, <1>7 DEF SessionInv, TokensOK, Issued
<1>13. OneLiveTokenPerSignIn'
  BY <1>1 DEF SessionInv, OneLiveTokenPerSignIn, Issued
<1>14. DeadTokensLapse'
  <2> SUFFICES ASSUME NEW u \in Issued, cache'[u] \notin {0, Forever}
               PROVE  /\ cache'[u] <= tokens[u].expiresAt + LATENCY
                      /\ tokens[u].revokedAt # 0 => cache'[u] <= tokens[u].revokedAt + CACHE_TTL + LATENCY
    BY <1>1, <1>7 DEF DeadTokensLapse, Issued
  <2>1. CASE u = t
    BY <1>1, <1>2, <1>4, <1>6, <2>1
  <2>2. CASE u # t
    <3>1. cache'[u] = cache[u]
      BY <1>1, <1>2, <2>2 DEF Issued
    <3> QED
      BY <3>1 DEF SessionInv, DeadTokensLapse
  <2> QED
    BY <2>1, <2>2
<1> QED
  BY <1>9, <1>10, <1>11, <1>12, <1>13, <1>14 DEF SessionInv

LEMMA NetworkErrorStep ==
  ASSUME SessionInv, NEW c \in Calls, network_error(c)
  PROVE  SessionInv'
<1>1. IdleCall.pc = "idle"
  BY DEF IdleCall
<1> QED
  BY <1>1, IdleTypes, CallStep DEF network_error

-----------------------------------------------------------------------------
(* The server and the refreshes.                                            *)

LEMMA TickStep ==
  ASSUME SessionInv, Tick
  PROVE  SessionInv'
<1>1. /\ now < MaxTime /\ now' = now + 1
      /\ \A c \in Calls : call[c].pc \in {"reading", "filling"} => now - call[c].at < LATENCY
      /\ cache' = [t \in DOMAIN cache |-> IF cache[t] <= now' THEN 0 ELSE cache[t]]
      /\ UNCHANGED <<tokens, stored, wallet, switches, call, refresh>>
  BY DEF Tick, wallet_vars
<1>2. /\ now \in Nat /\ now >= 1 /\ MaxTime \in Nat /\ CACHE_TTL \in Nat /\ LATENCY \in Nat /\ Forever \in Nat
      /\ MaxTokens \in Nat /\ cache \in [1..MaxTokens -> 0..Forever] /\ Forever' = Forever
      /\ call \in [Calls -> CallRecord] /\ tokens \in Seq(Token) /\ Len(tokens) <= MaxTokens
      /\ Len(tokens) \in Nat
  BY StateFacts
<1>3. /\ cache' \in [1..MaxTokens -> 0..Forever]
      /\ \A t \in 1..MaxTokens : cache'[t] \in {0, cache[t]}
  BY <1>1, <1>2
<1>4. Types'
  BY <1>1, <1>2, <1>3 DEF SessionInv, Types
<1>5. TokensOK'
  <2>1. \A t \in Issued : tokens[t].root \in 1..t /\ tokens[t].revokedAt \in 0..now'
    BY <1>1, <1>2 DEF SessionInv, TokensOK
  <2>2. ASSUME NEW t \in 1..MaxTokens
        PROVE  /\ cache'[t] \notin {0, Forever} => cache'[t] <= now' + CACHE_TTL
               /\ t \notin Issued => cache'[t] = 0
    <3>1. cache[t] \in Nat
      BY <1>2
    <3> QED
      BY <1>1, <1>2, <1>3, <3>1 DEF SessionInv, TokensOK
  <2> QED
    BY <1>1, <1>2, <2>1, <2>2 DEF TokensOK, Issued
<1>6. CallsOK'
  <2>1. \A c \in Calls : call[c].at \in Nat
    BY <1>2 DEF CallRecord
  <2>2. \A c \in Calls : call[c].pc \in {"reading", "filling"} => call[c].at <= now' /\ now' <= call[c].at + LATENCY
    BY <1>1, <1>2, <2>1 DEF SessionInv, CallsOK
  <2> QED
    BY <1>1, <2>2 DEF SessionInv, CallsOK, Issued
<1>7. TabsOK' /\ Alone'
  BY <1>1, TabsFrame DEF SessionInv, TabsOK
<1>8. OneLiveTokenPerSignIn'
  BY <1>1 DEF SessionInv, OneLiveTokenPerSignIn, Issued
<1>9. DeadTokensLapse'
  <2>1. \A t \in Issued : t \in 1..MaxTokens
    BY <1>2 DEF Issued
  <2> QED
    BY <1>1, <1>2, <1>3, <2>1 DEF SessionInv, DeadTokensLapse, Issued
<1> QED
  BY <1>4, <1>5, <1>6, <1>7, <1>8, <1>9 DEF SessionInv

\* cleanupExpiredAuth marks rows as deleted and changes nothing else in them.
LEMMA CleanupStep ==
  ASSUME SessionInv, cleanupExpiredAuth
  PROVE  SessionInv'
<1>1. /\ tokens' = [t \in Issued |->
           IF tokens[t].expiresAt < now - GRACE \/ tokens[t].revokedAt # 0
             THEN [tokens[t] EXCEPT !.deleted = TRUE] ELSE tokens[t]]
      /\ UNCHANGED <<now, cache, stored, wallet, switches, call, refresh>>
  BY DEF cleanupExpiredAuth, wallet_vars
<1>2. tokens \in Seq(Token) /\ Len(tokens) \in Nat /\ \A t \in Issued : tokens[t] \in Token
  BY DEF SessionInv, Types, Issued
<1>3. /\ tokens' \in [1..Len(tokens) -> Token]
      /\ \A t \in Issued : /\ tokens'[t].wallet = tokens[t].wallet
                           /\ tokens'[t].expiresAt = tokens[t].expiresAt
                           /\ tokens'[t].revokedAt = tokens[t].revokedAt
                           /\ tokens'[t].root = tokens[t].root
  BY <1>1, <1>2 DEF Token, Issued
<1>4. tokens' \in Seq(Token) /\ Len(tokens') = Len(tokens)
  BY <1>2, <1>3
<1>5. Issued' = Issued /\ Forever' = Forever
  BY <1>4 DEF Issued, Forever
<1>6. Types'
  BY <1>1, <1>4, <1>5 DEF SessionInv, Types
<1>7. TokensOK'
  BY <1>1, <1>3, <1>5 DEF SessionInv, TokensOK
<1>8. CallsOK'
  BY <1>1, <1>3, <1>5 DEF SessionInv, CallsOK
<1>9. TabsOK'
  BY <1>1, <1>3, <1>4, <1>5 DEF SessionInv, TabsOK
<1>10. Alone'
  BY <1>1, <1>3 DEF SessionInv, Alone, TabsOK
<1>11. OneLiveTokenPerSignIn' /\ DeadTokensLapse'
  BY <1>1, <1>3, <1>5 DEF SessionInv, OneLiveTokenPerSignIn, DeadTokensLapse
<1> QED
  BY <1>6, <1>7, <1>8, <1>9, <1>10, <1>11 DEF SessionInv

\* A refresh moves on, in the browser's view only.
LEMMA RefreshMoves ==
  ASSUME SessionInv, NEW tab \in Tabs, NEW to \in {"sign_in", "revoking"},
         refresh[tab].pc # "idle", to = "revoking" => refresh[tab].pc = "refreshing",
         refresh' = [refresh EXCEPT ![tab].pc = to], stored' \in {0, stored},
         UNCHANGED <<server_vars, wallet_vars, call>>
  PROVE  SessionInv'
<1>1. UNCHANGED <<now, tokens, cache, wallet, switches, call>>
  BY DEF server_vars, wallet_vars
<1>2. /\ refresh \in [Tabs -> RefreshRecord] /\ call \in [Calls -> CallRecord]
      /\ tokens \in Seq(Token) /\ Len(tokens) \in Nat
  BY DEF SessionInv, Types
<1>3. /\ refresh' \in [Tabs -> RefreshRecord]
      /\ refresh'[tab].pc = to /\ refresh'[tab].token = refresh[tab].token
      /\ \A x \in Tabs : x # tab => refresh'[x] = refresh[x]
  BY <1>2 DEF RefreshRecord
<1>4. Types'
  BY <1>1, <1>2, <1>3 DEF SessionInv, Types, Forever
<1>5. TabsOK' /\ Alone'
  <2>1. ASSUME NEW x \in Tabs
        PROVE  /\ refresh'[x].token \in 0..Len(tokens)
               /\ refresh'[x].pc \in {"refreshing", "revoking", "evicting", "refreshed"} =>
                    refresh'[x].token \in Issued
               /\ refresh'[x].pc = "evicting" =>
                    refresh[x].pc = "evicting" /\ refresh'[x].token = refresh[x].token
    BY <1>3 DEF SessionInv, TabsOK
  <2> QED
    BY <1>1, <2>1, TabsFrame
<1>6. CallsOK'
  <2>1. \A x \in Tabs : refresh[x].pc # "idle" => refresh'[x].pc # "idle"
    BY <1>3
  <2>2. \A c \in Calls : call[c].tab \in Tabs
    BY <1>2 DEF CallRecord
  <2> QED
    BY <1>1, <2>1, <2>2 DEF SessionInv, CallsOK, Issued
<1> QED
  BY <1>4, <1>5, <1>6, BrowserFrame DEF SessionInv

LEMMA RefreshReadStep ==
  ASSUME SessionInv, NEW tab \in Tabs, refreshRead(tab)
  PROVE  SessionInv'
<1> DEFINE to == IF refreshable(refresh[tab].token) THEN "revoking" ELSE "sign_in"
<1>1. /\ refresh[tab].pc = "refreshing" /\ refresh' = [refresh EXCEPT ![tab].pc = to]
      /\ UNCHANGED <<server_vars, stored, wallet_vars, call>>
  BY DEF refreshRead, step_refresh
<1>2. to \in {"sign_in", "revoking"}
  OBVIOUS
<1> HIDE DEF to
<1> QED
  BY <1>1, <1>2, RefreshMoves

LEMMA RefreshLostStep ==
  ASSUME SessionInv, NEW tab \in Tabs, refreshLost(tab)
  PROVE  SessionInv'
BY RefreshMoves DEF refreshLost

\* The conditional UPDATE: it revokes the only live token of the sign-in.
LEMMA RefreshRevokeStep ==
  ASSUME SessionInv, NEW tab \in Tabs, refreshRevoke(tab)
  PROVE  SessionInv'
<1> DEFINE t == refresh[tab].token
<1>1. refresh[tab].pc = "revoking" /\ UNCHANGED <<now, cache, stored, wallet, switches, call>>
  BY DEF refreshRevoke, step_refresh, wallet_vars
<1>2. CASE ~revocable(t)
  BY <1>1, <1>2, RefreshMoves DEF refreshRevoke, step_refresh, server_vars, wallet_vars
<1>3. CASE revocable(t)
  <2>1. /\ tokens' = [tokens EXCEPT ![t].revokedAt = now]
        /\ refresh' = [refresh EXCEPT ![tab].pc = "evicting"]
        /\ tokens[t].revokedAt = 0
    BY <1>3 DEF refreshRevoke, step_refresh, revocable
  <2>2. /\ refresh \in [Tabs -> RefreshRecord] /\ call \in [Calls -> CallRecord]
        /\ tokens \in Seq(Token) /\ Len(tokens) \in Nat /\ Len(tokens) <= MaxTokens /\ MaxTokens \in Nat
        /\ now \in Nat /\ now >= 1 /\ CACHE_TTL \in Nat /\ LATENCY \in Nat
        /\ cache \in [1..MaxTokens -> 0..Forever] /\ Forever \in Nat
    BY StateFacts
  <2>3. t \in Issued
    BY <1>1 DEF SessionInv, TabsOK
  <2>4. /\ refresh' \in [Tabs -> RefreshRecord]
        /\ refresh'[tab].pc = "evicting" /\ refresh'[tab].token = t
        /\ \A x \in Tabs : x # tab => refresh'[x] = refresh[x]
    BY <2>1, <2>2 DEF RefreshRecord
  <2> HIDE DEF t
  <2>5. \A u \in Issued : tokens[u] \in Token
    BY <2>2 DEF Issued
  <2>6. /\ tokens' \in Seq(Token) /\ Len(tokens') = Len(tokens)
        /\ tokens'[t] = [tokens[t] EXCEPT !.revokedAt = now]
        /\ \A u \in Issued : u # t => tokens'[u] = tokens[u]
    <3> DEFINE new == [tokens[t] EXCEPT !.revokedAt = now]
    <3>1. new \in Token
      BY <2>2, <2>3, <2>5 DEF Token
    <3>2. tokens' = [tokens EXCEPT ![t] = new]
      BY <2>1
    <3> HIDE DEF new
    <3>3. tokens' \in Seq(Token) /\ Len(tokens') = Len(tokens)
      BY <2>2, <2>3, <3>1, <3>2 DEF Issued
    <3>4. tokens'[t] = new /\ \A u \in Issued : u # t => tokens'[u] = tokens[u]
      BY <2>2, <2>3, <3>2 DEF Issued
    <3> QED
      BY <3>3, <3>4 DEF new
  <2>7. /\ tokens'[t].revokedAt = now /\ tokens'[t].root = tokens[t].root
        /\ tokens'[t].expiresAt = tokens[t].expiresAt
    BY <2>3, <2>5, <2>6 DEF Token
  <2>8. Issued' = Issued /\ Forever' = Forever
    BY <2>6 DEF Issued, Forever
  <2>9. \A u \in Issued : tokens'[u].root = tokens[u].root /\ tokens'[u].expiresAt = tokens[u].expiresAt
                          /\ (tokens[u].revokedAt # 0 => tokens'[u].revokedAt # 0)
    <3> SUFFICES ASSUME NEW u \in Issued
                 PROVE  tokens'[u].root = tokens[u].root /\ tokens'[u].expiresAt = tokens[u].expiresAt
                        /\ (tokens[u].revokedAt # 0 => tokens'[u].revokedAt # 0)
      OBVIOUS
    <3>1. CASE u = t
      BY <2>2, <2>7, <3>1
    <3>2. CASE u # t
      BY <2>6, <3>2
    <3> QED
      BY <3>1, <3>2
  <2>10. \A u \in Issued : tokens[u].root = tokens[t].root => tokens'[u].revokedAt # 0
    BY <2>1, <2>2, <2>3, <2>6, <2>7 DEF SessionInv, OneLiveTokenPerSignIn
  <2>11. Types'
    BY <1>1, <2>2, <2>4, <2>6, <2>8 DEF SessionInv, Types
  <2>12. TokensOK'
    <3>1. \A u \in Issued : tokens'[u].root \in 1..u /\ tokens'[u].revokedAt \in 0..now
      <4> SUFFICES ASSUME NEW u \in Issued
                   PROVE  tokens'[u].root \in 1..u /\ tokens'[u].revokedAt \in 0..now
        OBVIOUS
      <4>1. tokens[u].root \in 1..u /\ tokens[u].revokedAt \in 0..now
        BY DEF SessionInv, TokensOK
      <4>2. CASE u = t
        BY <2>2, <2>7, <4>1, <4>2
      <4>3. CASE u # t
        BY <2>6, <4>1, <4>3
      <4> QED
        BY <4>2, <4>3
    <3> QED
      BY <1>1, <2>8, <3>1 DEF SessionInv, TokensOK
  <2>13. CallsOK'
    <3>1. \A c \in Calls : call[c].tab \in Tabs /\ call[c].at \in Nat
      BY <2>2 DEF CallRecord
    <3>2. \A x \in Tabs : refresh[x].pc # "idle" => refresh'[x].pc # "idle"
      BY <2>4
    <3> QED
      BY <1>1, <2>2, <2>6, <2>7, <2>8, <2>9, <3>1, <3>2 DEF SessionInv, CallsOK
  <2>14. TabsOK'
    <3> SUFFICES ASSUME NEW x \in Tabs
                 PROVE  /\ refresh'[x].token \in 0..Len(tokens)
                        /\ refresh'[x].pc \in {"refreshing", "revoking", "evicting", "refreshed"} =>
                             refresh'[x].token \in Issued
                        /\ refresh'[x].pc = "evicting" =>
                             \A u \in Issued : tokens'[u].root = tokens'[refresh'[x].token].root
                                                 => tokens'[u].revokedAt # 0
      BY <2>6, <2>8 DEF TabsOK
    <3>1. CASE x = tab
      BY <2>2, <2>3, <2>4, <2>9, <2>10, <3>1 DEF Issued
    <3>2. CASE x # tab
      BY <2>4, <2>9, <3>2 DEF SessionInv, TabsOK
    <3> QED
      BY <3>1, <3>2
  <2>15. Alone'
    <3>1. \A x \in Tabs : x # tab /\ refresh[x].pc = "evicting" =>
            refresh[x].token \in Issued /\ tokens[refresh[x].token].root # tokens[t].root
      BY <2>1, <2>3 DEF SessionInv, TabsOK
    <3> QED
      BY <2>3, <2>4, <2>9, <3>1 DEF SessionInv, Alone
  <2>16. OneLiveTokenPerSignIn'
    BY <2>8, <2>9 DEF SessionInv, OneLiveTokenPerSignIn
  <2>17. DeadTokensLapse'
    <3>1. \A u \in Issued : u \in 1..MaxTokens /\ cache[u] \in Nat
      BY <2>2 DEF Issued
    <3>2. cache[t] \notin {0, Forever} => cache[t] <= now + CACHE_TTL
      BY <2>3, <3>1 DEF SessionInv, TokensOK
    <3>3. cache[t] \notin {0, Forever} => cache[t] <= tokens'[t].revokedAt + CACHE_TTL + LATENCY
      BY <2>2, <2>3, <2>7, <3>1, <3>2
    <3> QED
      BY <1>1, <2>3, <2>6, <2>8, <2>9, <3>3 DEF SessionInv, DeadTokensLapse
  <2> QED
    BY <2>11, <2>12, <2>13, <2>14, <2>15, <2>16, <2>17 DEF SessionInv
<1> QED
  BY <1>2, <1>3

\* A row is appended; its number has no cache entry yet, and it is the only
\* live one of its sign-in when the others are revoked.
LEMMA IssueFacts ==
  ASSUME SessionInv, NEW w \in Wallets, NEW root \in 1..(Len(tokens) + 1), createAccessToken(w, root),
         now' = now, \A t \in 1..MaxTokens : cache'[t] \in {0, cache[t]},
         cache' \in [1..MaxTokens -> 0..Forever],
         \A t \in Issued : tokens[t].root = root => tokens[t].revokedAt # 0
  PROVE  /\ Grows /\ Len(tokens') = Len(tokens) + 1 /\ Len(tokens') <= MaxTokens
         /\ tokens'[Len(tokens')].wallet = w /\ tokens'[Len(tokens')].root = root
         /\ TokensOK' /\ OneLiveTokenPerSignIn' /\ DeadTokensLapse'
<1> DEFINE new == newToken(w, root)
           n == Len(tokens) + 1
<1>1. /\ tokens \in Seq(Token) /\ Len(tokens) \in Nat /\ MaxTokens \in Nat
      /\ now \in Nat /\ now >= 1 /\ TOKEN_TTL \in Nat /\ CACHE_TTL \in Nat /\ LATENCY \in Nat
      /\ cache \in [1..MaxTokens -> 0..Forever] /\ Forever' = Forever /\ Forever \in Nat
  BY StateFacts
<1>2. /\ new \in Token /\ new.wallet = w /\ new.root = root /\ new.revokedAt = 0
      /\ new.expiresAt = now + TOKEN_TTL
  BY <1>1 DEF newToken, Token
<1>3. tokens' = Append(tokens, new) /\ Len(tokens) < MaxTokens
  BY DEF createAccessToken
<1> HIDE DEF new
<1>4. /\ tokens' \in Seq(Token) /\ Len(tokens') = n /\ n <= MaxTokens
      /\ tokens'[n] = new /\ \A t \in Issued : tokens'[t] = tokens[t]
  BY <1>1, <1>2, <1>3 DEF Issued
<1>5. Issued' = Issued \cup {n} /\ n \notin Issued /\ n \in 1..MaxTokens
  BY <1>1, <1>4 DEF Issued
<1>6. cache'[n] = 0
  BY <1>5 DEF SessionInv, TokensOK
<1> HIDE DEF n
<1>7. TokensOK'
  <2>1. \A t \in Issued' : tokens'[t].root \in 1..t /\ tokens'[t].revokedAt \in 0..now
    <3> SUFFICES ASSUME NEW t \in Issued' PROVE tokens'[t].root \in 1..t /\ tokens'[t].revokedAt \in 0..now
      OBVIOUS
    <3>1. CASE t \in Issued
      BY <1>4, <3>1 DEF SessionInv, TokensOK
    <3>2. CASE t = n
      BY <1>1, <1>2, <1>4, <3>2 DEF n
    <3> QED
      BY <1>5, <3>1, <3>2
  <2>2. \A t \in 1..MaxTokens : /\ cache'[t] \notin {0, Forever} => cache'[t] <= now + CACHE_TTL
                                /\ t \notin Issued' => cache'[t] = 0
    BY <1>5, <1>6 DEF SessionInv, TokensOK
  <2> QED
    BY <1>1, <2>1, <2>2 DEF TokensOK
<1>8. OneLiveTokenPerSignIn'
  <2> SUFFICES ASSUME NEW a \in Issued', NEW b \in Issued', a # b, tokens'[a].root = tokens'[b].root
               PROVE  tokens'[a].revokedAt # 0 \/ tokens'[b].revokedAt # 0
    BY DEF OneLiveTokenPerSignIn
  <2>1. CASE a \in Issued /\ b \in Issued
    BY <1>4, <2>1 DEF SessionInv, OneLiveTokenPerSignIn
  <2>2. CASE a = n \/ b = n
    BY <1>2, <1>4, <1>5, <2>2
  <2> QED
    BY <1>5, <2>1, <2>2
<1>9. DeadTokensLapse'
  <2> SUFFICES ASSUME NEW t \in Issued', cache'[t] \notin {0, Forever}
               PROVE  /\ cache'[t] <= tokens'[t].expiresAt + LATENCY
                      /\ tokens'[t].revokedAt # 0 => cache'[t] <= tokens'[t].revokedAt + CACHE_TTL + LATENCY
    BY <1>1 DEF DeadTokensLapse
  <2>1. t \in Issued /\ t \in 1..MaxTokens
    BY <1>5, <1>6, <1>1, <1>4 DEF Issued, n
  <2>2. cache'[t] = cache[t] /\ tokens'[t] = tokens[t]
    BY <1>4, <2>1
  <2> QED
    BY <2>1, <2>2 DEF SessionInv, DeadTokensLapse
<1>10. Grows
  BY <1>1, <1>4 DEF Grows, n
<1> QED
  BY <1>2, <1>4, <1>7, <1>8, <1>9, <1>10 DEF n

\* Refreshes after new rows: those in the gap are of other sign-ins.
LEMMA TabsGrow ==
  ASSUME SessionInv, Grows, Len(tokens') = Len(tokens) + 1,
         \A tab \in Tabs :
           /\ refresh'[tab].token \in 0..Len(tokens')
           /\ refresh'[tab].pc \in {"refreshing", "revoking", "evicting", "refreshed"} =>
                refresh'[tab].token \in 1..Len(tokens')
           /\ refresh'[tab].pc = "evicting" =>
                /\ refresh[tab].pc = "evicting" /\ refresh'[tab].token = refresh[tab].token
                /\ tokens'[Len(tokens')].root # tokens[refresh[tab].token].root
  PROVE  TabsOK' /\ Alone'
<1>1. Len(tokens) \in Nat /\ Issued' = Issued \cup {Len(tokens')}
  BY DEF SessionInv, Types, Issued
<1>2. \A tab \in Tabs : refresh'[tab].pc = "evicting" =>
        refresh[tab].token \in Issued /\ tokens'[refresh[tab].token] = tokens[refresh[tab].token]
  BY DEF SessionInv, TabsOK, Grows
<1>3. \A t \in Issued : tokens'[t] = tokens[t]
  BY DEF Grows
<1>4. TabsOK'
  BY <1>1, <1>2, <1>3 DEF SessionInv, TabsOK, Issued
<1>5. Alone'
  <2> SUFFICES ASSUME NEW a \in Tabs, NEW b \in Tabs, a # b,
                      refresh'[a].pc = "evicting", refresh'[b].pc = "evicting"
               PROVE  tokens'[refresh'[a].token].root # tokens'[refresh'[b].token].root
    BY DEF Alone
  <2>1. /\ refresh[a].pc = "evicting" /\ refresh'[a].token = refresh[a].token
        /\ refresh[b].pc = "evicting" /\ refresh'[b].token = refresh[b].token
    OBVIOUS
  <2>2. tokens[refresh[a].token].root # tokens[refresh[b].token].root
    BY <2>1 DEF SessionInv, Alone
  <2>3. /\ tokens'[refresh[a].token] = tokens[refresh[a].token]
        /\ tokens'[refresh[b].token] = tokens[refresh[b].token]
    BY <1>2
  <2> QED
    BY <2>1, <2>2, <2>3
<1> QED
  BY <1>4, <1>5

\* The successor of a revoked token.
LEMMA RefreshIssueStep ==
  ASSUME SessionInv, NEW tab \in Tabs, refreshIssue(tab)
  PROVE  SessionInv'
<1> DEFINE t == refresh[tab].token
<1>1. /\ refresh[tab].pc = "evicting" /\ cache' = [cache EXCEPT ![t] = 0]
      /\ createAccessToken(tokens[t].wallet, tokens[t].root)
      /\ refresh' = [refresh EXCEPT ![tab].pc = "refreshed", ![tab].token = Len(tokens')]
      /\ UNCHANGED <<now, stored, wallet, switches, call>>
  BY DEF refreshIssue, wallet_vars
<1>2. /\ refresh \in [Tabs -> RefreshRecord] /\ call \in [Calls -> CallRecord]
      /\ tokens \in Seq(Token) /\ Len(tokens) \in Nat /\ stored \in 0..Len(tokens)
      /\ cache \in [1..MaxTokens -> 0..Forever] /\ Forever \in Nat
  BY StateFacts
<1>3. t \in Issued /\ \A u \in Issued : tokens[u].root = tokens[t].root => tokens[u].revokedAt # 0
  BY <1>1 DEF SessionInv, TabsOK
<1> HIDE DEF t
<1>4. tokens[t] \in Token /\ tokens[t].wallet \in Wallets
  <2>1. tokens[t] \in Token
    BY <1>2, <1>3 DEF Issued
  <2> QED
    BY <2>1 DEF Token
<1>5. tokens[t].root \in 1..(Len(tokens) + 1)
  <2>1. tokens[t].root \in 1..t /\ t \in 1..Len(tokens)
    BY <1>3 DEF SessionInv, TokensOK, Issued
  <2> QED
    BY <1>2, <2>1
<1>6. cache' \in [1..MaxTokens -> 0..Forever] /\ \A u \in 1..MaxTokens : cache'[u] \in {0, cache[u]}
  <2>1. 0 \in 0..Forever
    BY <1>2
  <2>2. cache' \in [1..MaxTokens -> 0..Forever]
    BY <1>1, <1>2, <2>1
  <2>3. \A u \in 1..MaxTokens : cache'[u] \in {0, cache[u]}
    BY <1>1, <1>2
  <2> QED
    BY <2>2, <2>3
<1>7. /\ Grows /\ Len(tokens') = Len(tokens) + 1 /\ Len(tokens') <= MaxTokens
      /\ tokens'[Len(tokens')].root = tokens[t].root
      /\ TokensOK' /\ OneLiveTokenPerSignIn' /\ DeadTokensLapse'
  BY <1>1, <1>3, <1>4, <1>5, <1>6, IssueFacts
<1>8. /\ refresh' \in [Tabs -> RefreshRecord]
      /\ refresh'[tab].pc = "refreshed" /\ refresh'[tab].token = Len(tokens')
      /\ \A x \in Tabs : x # tab => refresh'[x] = refresh[x]
  <2> DEFINE new == [refresh[tab] EXCEPT !.pc = "refreshed", !.token = Len(tokens')]
  <2>1. refresh' = [refresh EXCEPT ![tab] = new]
    BY <1>1, <1>2
  <2>2. Len(tokens') \in Nat
    BY <1>2, <1>7
  <2>3. new \in RefreshRecord /\ new.pc = "refreshed" /\ new.token = Len(tokens')
    BY <1>2, <2>2 DEF RefreshRecord
  <2> HIDE DEF new
  <2> QED
    BY <1>2, <2>1, <2>3
<1>9. TabsOK' /\ Alone'
  <2>1. ASSUME NEW x \in Tabs
        PROVE  /\ refresh'[x].token \in 0..Len(tokens')
               /\ refresh'[x].pc \in {"refreshing", "revoking", "evicting", "refreshed"} =>
                    refresh'[x].token \in 1..Len(tokens')
               /\ refresh'[x].pc = "evicting" =>
                    /\ refresh[x].pc = "evicting" /\ refresh'[x].token = refresh[x].token
                    /\ tokens'[Len(tokens')].root # tokens[refresh[x].token].root
    <3>1. CASE x = tab
      BY <1>2, <1>7, <1>8, <3>1
    <3>2. CASE x # tab
      BY <1>1, <1>2, <1>7, <1>8, <3>2 DEF SessionInv, TabsOK, Alone, Issued, t
    <3> QED
      BY <3>1, <3>2
  <2> QED
    BY <1>7, <2>1, TabsGrow
<1>10. CallsOK'
  <2>1. \A c \in Calls : call[c].tab \in Tabs
    BY <1>2 DEF CallRecord
  <2>2. \A x \in Tabs : refresh[x].pc # "idle" => refresh'[x].pc # "idle"
    BY <1>8
  <2>3. \A u \in Issued : u \in Issued' /\ tokens'[u] = tokens[u]
    BY <1>2, <1>7 DEF Grows, Issued
  <2> QED
    BY <1>1, <2>1, <2>2, <2>3 DEF SessionInv, CallsOK
<1>11. Types'
  BY <1>1, <1>2, <1>6, <1>7, <1>8 DEF SessionInv, Types, Forever, Grows
<1> QED
  BY <1>7, <1>9, <1>10, <1>11 DEF SessionInv

\* A refresh ends without a new row: its calls retry with a token there is.
LEMMA SettleStep ==
  ASSUME SessionInv, NEW tab \in Tabs, NEW token \in 0..Len(tokens), settle(tab, token),
         UNCHANGED <<server_vars, wallet_vars>>, stored' \in 0..Len(tokens)
  PROVE  SessionInv'
<1>1. UNCHANGED <<now, tokens, cache, wallet, switches>>
  BY DEF server_vars, wallet_vars
<1>2. /\ tokens \in Seq(Token) /\ Len(tokens) \in Nat /\ token \in Nat /\ refresh \in [Tabs -> RefreshRecord]
  BY DEF SessionInv, Types
<1>3. Grows /\ (token # 0 => token \in 1..Len(tokens'))
  BY <1>1, <1>2 DEF Grows
<1>4. /\ refresh' \in [Tabs -> RefreshRecord]
      /\ refresh' = [refresh EXCEPT ![tab] = IdleRefresh]
      /\ call' \in [Calls -> CallRecord] /\ CallsOK'
  BY <1>1, <1>2, <1>3, SettleFacts
<1>5. TabsOK' /\ Alone'
  <2>1. IdleRefresh.pc = "idle" /\ IdleRefresh.token = 0
    BY DEF IdleRefresh
  <2>2. ASSUME NEW x \in Tabs
        PROVE  /\ refresh'[x].token \in 0..Len(tokens)
               /\ refresh'[x].pc \in {"refreshing", "revoking", "evicting", "refreshed"} =>
                    refresh'[x].token \in Issued
               /\ refresh'[x].pc = "evicting" =>
                    refresh[x].pc = "evicting" /\ refresh'[x].token = refresh[x].token
    <3>1. CASE x = tab
      BY <1>2, <1>4, <2>1, <3>1
    <3>2. CASE x # tab
      BY <1>2, <1>4, <3>2 DEF SessionInv, TabsOK
    <3> QED
      BY <3>1, <3>2
  <2> QED
    BY <1>1, <2>2, TabsFrame
<1>6. Types'
  BY <1>1, <1>4 DEF SessionInv, Types, Forever
<1> QED
  BY <1>4, <1>5, <1>6, BrowserFrame DEF SessionInv

LEMMA RefreshAnsweredStep ==
  ASSUME SessionInv, NEW tab \in Tabs, refreshAnswered(tab)
  PROVE  SessionInv'
<1> DEFINE t == refresh[tab].token
<1>1. refresh[tab].pc = "refreshed" /\ UNCHANGED <<server_vars, wallet_vars>>
  BY DEF refreshAnswered
<1>2. t \in Issued /\ t \in 0..Len(tokens)
  BY <1>1 DEF SessionInv, TabsOK
<1>3. CASE setAccessToken(t) /\ settle(tab, t)
  BY <1>1, <1>2, <1>3, SettleStep DEF setAccessToken
<1>4. CASE setAccessToken(0) /\ refresh' = [refresh EXCEPT ![tab].pc = "sign_in"] /\ UNCHANGED call
  BY <1>1, <1>4, RefreshMoves DEF setAccessToken
<1> QED
  BY <1>3, <1>4 DEF refreshAnswered

LEMMA NoTokenStep ==
  ASSUME SessionInv, NEW tab \in Tabs, noSigner(tab) \/ signInFailed(tab)
  PROVE  SessionInv'
<1>1. Len(tokens) \in Nat /\ stored \in 0..Len(tokens)
  BY DEF SessionInv, Types
<1>2. 0 \in 0..Len(tokens)
  BY <1>1
<1>3. settle(tab, 0) /\ UNCHANGED <<server_vars, wallet_vars>> /\ stored' \in {0, stored}
  BY DEF noSigner, signInFailed, setAccessToken
<1> QED
  BY <1>1, <1>2, <1>3, SettleStep

\* A sign-in starts a lineage of its own.
LEMMA SignInStep ==
  ASSUME SessionInv, NEW tab \in Tabs, verifyStellarAndIssueToken(tab)
  PROVE  SessionInv'
<1> DEFINE w == refresh[tab].wallet
           n == Len(tokens) + 1
<1>1. /\ w # NoWallet /\ createAccessToken(w, n) /\ stored' = Len(tokens')
      /\ settle(tab, Len(tokens')) /\ UNCHANGED <<now, cache, wallet, switches>>
  BY DEF verifyStellarAndIssueToken, signing, setAccessToken, wallet_vars
<1>2. /\ refresh \in [Tabs -> RefreshRecord] /\ tokens \in Seq(Token) /\ Len(tokens) \in Nat
      /\ cache \in [1..MaxTokens -> 0..Forever]
  BY DEF SessionInv, Types
<1>3. w \in Wallets
  BY <1>1, <1>2 DEF RefreshRecord
<1> HIDE DEF w
<1>4. \A t \in Issued : tokens[t].root # n
  BY <1>2 DEF SessionInv, TokensOK, Issued
<1>5. n \in 1..(Len(tokens) + 1)
  BY <1>2
<1>6. /\ Grows /\ Len(tokens') = n /\ Len(tokens') <= MaxTokens
      /\ tokens'[Len(tokens')].root = n
      /\ TokensOK' /\ OneLiveTokenPerSignIn' /\ DeadTokensLapse'
  <2> HIDE DEF n
  <2>1. \A t \in 1..MaxTokens : cache'[t] \in {0, cache[t]}
    BY <1>1
  <2>2. cache' \in [1..MaxTokens -> 0..Forever]
    BY <1>1, <1>2
  <2>3. \A t \in Issued : tokens[t].root = n => tokens[t].revokedAt # 0
    BY <1>4
  <2>4. now' = now
    BY <1>1
  <2> QED
    BY <1>1, <1>3, <1>5, <2>1, <2>2, <2>3, <2>4, IssueFacts DEF n
<1>7. Len(tokens') \in Nat /\ Len(tokens') \in 1..Len(tokens')
  BY <1>2, <1>6
<1>8. /\ refresh' \in [Tabs -> RefreshRecord]
      /\ refresh' = [refresh EXCEPT ![tab] = IdleRefresh]
      /\ call' \in [Calls -> CallRecord] /\ CallsOK'
  BY <1>1, <1>6, <1>7, SettleFacts
<1>9. TabsOK' /\ Alone'
  <2>1. IdleRefresh.pc = "idle" /\ IdleRefresh.token = 0
    BY DEF IdleRefresh
  <2>2. ASSUME NEW x \in Tabs
        PROVE  /\ refresh'[x].token \in 0..Len(tokens')
               /\ refresh'[x].pc \in {"refreshing", "revoking", "evicting", "refreshed"} =>
                    refresh'[x].token \in 1..Len(tokens')
               /\ refresh'[x].pc = "evicting" =>
                    /\ refresh[x].pc = "evicting" /\ refresh'[x].token = refresh[x].token
                    /\ tokens'[Len(tokens')].root # tokens[refresh[x].token].root
    <3>1. CASE x = tab
      BY <1>2, <1>7, <1>8, <2>1, <3>1
    <3>2. CASE x # tab
      BY <1>2, <1>4, <1>6, <1>8, <3>2 DEF SessionInv, TabsOK, Issued
    <3> QED
      BY <3>1, <3>2
  <2> QED
    BY <1>6, <2>2, TabsGrow
<1>10. Types'
  BY <1>1, <1>2, <1>6, <1>7, <1>8 DEF SessionInv, Types, Forever, Grows
<1> QED
  BY <1>6, <1>8, <1>9, <1>10 DEF SessionInv

LEMMA WalletStep ==
  ASSUME SessionInv, NEW w \in Wallets \cup {NoWallet}, wallet_changes(w)
  PROVE  SessionInv'
<1>1. /\ wallet' = w /\ switches < MaxSwitches /\ switches' = switches + 1 /\ stored' \in {0, stored}
      /\ UNCHANGED <<server_vars, call, refresh>>
  BY DEF wallet_changes
<1>2. UNCHANGED <<now, tokens, cache, call, refresh>>
  BY <1>1 DEF server_vars
<1>3. Types'
  <2>1. Len(tokens) \in Nat /\ MaxSwitches \in Nat
    BY SessionAssumption DEF SessionInv, Types
  <2>2. stored' \in 0..Len(tokens) /\ switches' \in 0..MaxSwitches
    BY <1>1, <2>1 DEF SessionInv, Types
  <2> QED
    BY <1>1, <1>2, <2>2 DEF SessionInv, Types, Forever
<1>4. CallsOK'
  BY <1>2 DEF SessionInv, CallsOK, Issued
<1>5. TabsOK' /\ Alone'
  BY <1>2, TabsFrame DEF SessionInv, TabsOK
<1> QED
  BY <1>1, <1>3, <1>4, <1>5, BrowserFrame DEF SessionInv

-----------------------------------------------------------------------------
(* The theorems.                                                            *)

LEMMA SessionInvInit == SessionInit => SessionInv
<1> SUFFICES ASSUME SessionInit PROVE SessionInv
  OBVIOUS
<1>1. /\ now = 1 /\ wallet = NoWallet /\ switches = 0 /\ cache = [t \in 1..MaxTokens |-> 0]
      /\ call = [c \in Calls |-> IdleCall] /\ refresh = [tab \in Tabs |-> IdleRefresh]
  BY DEF SessionInit
<1>2. IdleCall.pc = "idle" /\ IdleRefresh.pc = "idle" /\ IdleRefresh.token = 0
  BY DEF IdleCall, IdleRefresh
<1>3. /\ tokens \in Seq(Token) /\ Len(tokens) \in {0, 1} /\ stored = Len(tokens)
      /\ \A t \in Issued : t = 1 /\ tokens[t].root = 1 /\ tokens[t].revokedAt = 0
  <2>1. CASE tokens = << >> /\ stored = 0
    BY <2>1 DEF Issued
  <2>2. CASE \E w \in Wallets : tokens = <<newToken(w, 1)>> /\ stored = 1
    <3>1. PICK w \in Wallets : tokens = <<newToken(w, 1)>> /\ stored = 1
      BY <2>2
    <3>2. newToken(w, 1) \in Token /\ newToken(w, 1).root = 1 /\ newToken(w, 1).revokedAt = 0
      BY <1>1, SessionAssumption DEF newToken, Token
    <3> QED
      BY <3>1, <3>2 DEF Issued
  <2> QED
    BY <2>1, <2>2 DEF SessionInit
<1>4. Types
  <2>1. /\ MaxTime \in Nat /\ MaxTime > 0 /\ MaxTokens \in Nat /\ MaxTokens > 0 /\ MaxSwitches \in Nat
        /\ Forever \in Nat
    BY SessionAssumption DEF Forever
  <2>2. now \in 1..MaxTime /\ switches \in 0..MaxSwitches /\ 0 \in 0..Forever
    BY <1>1, <2>1
  <2>3. Len(tokens) <= MaxTokens /\ stored \in 0..Len(tokens)
    BY <1>3, <2>1
  <2>4. cache \in [1..MaxTokens -> 0..Forever]
    BY <1>1, <2>2
  <2> QED
    BY <1>1, <1>3, <2>2, <2>3, <2>4, IdleTypes DEF Types
<1>5. TokensOK /\ CallsOK /\ TabsOK /\ Alone
  BY <1>1, <1>2, <1>3, SessionAssumption DEF TokensOK, CallsOK, TabsOK, Alone
<1>6. OneLiveTokenPerSignIn /\ DeadTokensLapse
  <2>1. \A t \in Issued : t \in 1..MaxTokens
    BY <1>3, <1>4, SessionAssumption DEF Types
  <2> QED
    BY <1>1, <1>3, <2>1 DEF OneLiveTokenPerSignIn, DeadTokensLapse
<1> QED
  BY <1>4, <1>5, <1>6 DEF SessionInv

LEMMA SessionInvStep == SessionInv /\ [SessionNext]_vars => SessionInv'
<1> SUFFICES ASSUME SessionInv, [SessionNext]_vars PROVE SessionInv'
  OBVIOUS
<1>1. CASE Tick \/ cleanupExpiredAuth
  BY <1>1, TickStep, CleanupStep
<1>2. ASSUME NEW c \in Calls, answer(c) PROVE SessionInv'
  BY <1>2, ValidateCachedStep, ValidateRowStep, ValidateFillStep, NetworkErrorStep DEF answer
<1>3. ASSUME NEW c \in Calls, NEW tab \in Tabs, fetchWithAuthRetry(c, tab) PROVE SessionInv'
  BY <1>3, FetchStep
<1>4. ASSUME NEW tab \in Tabs, refresh_step(tab) PROVE SessionInv'
  BY <1>4, RefreshReadStep, RefreshRevokeStep, RefreshIssueStep, RefreshLostStep, RefreshAnsweredStep,
     NoTokenStep, SignInStep DEF refresh_step
<1>5. ASSUME NEW w \in Wallets \cup {NoWallet}, wallet_changes(w) PROVE SessionInv'
  BY <1>5, WalletStep
<1>6. CASE UNCHANGED vars
  <2> USE <1>6 DEF vars
  <2>1. Types' /\ CallsOK'
    BY DEF SessionInv, Types, CallsOK, Forever, Issued
  <2>2. TabsOK' /\ Alone'
    BY TabsFrame DEF SessionInv, TabsOK
  <2> QED
    BY <2>1, <2>2, BrowserFrame DEF SessionInv, server_vars
<1> QED
  BY <1>1, <1>2, <1>3, <1>4, <1>5, <1>6 DEF SessionNext

\* The inductive invariant holds however tabs, calls, wallets and the server
\* interleave.
THEOREM SessionInvariance == SessionSpec => []SessionInv
BY SessionInvInit, SessionInvStep, PTL DEF SessionSpec

\* The type invariant.
THEOREM SessionTypeCorrect == SessionSpec => []SessionTypeOK
<1>1. SessionInv => SessionTypeOK
  <2> SUFFICES ASSUME SessionInv PROVE SessionTypeOK
    OBVIOUS
  <2>1. \A t \in Issued : tokens[t] \in Token
    BY DEF SessionInv, Types, Issued
  <2>2. \A t \in Issued : tokens[t].wallet \in Wallets
    BY <2>1 DEF Token
  <2> QED
    BY <2>2 DEF SessionInv, Types, TokensOK, CallsOK, TabsOK, SessionTypeOK
<1> QED
  BY <1>1, SessionInvariance, PTL

\* A sign-in has at most one token that is not revoked.
THEOREM OneLiveToken == SessionSpec => []OneLiveTokenPerSignIn
<1>1. SessionInv => OneLiveTokenPerSignIn
  BY DEF SessionInv
<1> QED
  BY <1>1, SessionInvariance, PTL

\* How long the guard's cache may accept a revoked or expired token.
THEOREM DeadTokensDoLapse == SessionSpec => []DeadTokensLapse
<1>1. SessionInv => DeadTokensLapse
  BY DEF SessionInv
<1> QED
  BY <1>1, SessionInvariance, PTL

\* A refresh stores a token of the wallet it began with.
THEOREM RefreshKeepsItsWallet == SessionSpec => RefreshBindsItsWallet
<1> DEFINE Binds == \A tab \in Tabs :
             refresh[tab].pc # "idle" /\ refresh'[tab].pc = "idle"
               /\ refresh[tab].wallet # NoWallet /\ stored' # 0
             => tokens'[stored'].wallet = refresh[tab].wallet
<1>1. SessionInv /\ [SessionNext]_vars => [Binds]_vars
  <2> SUFFICES ASSUME SessionInv, SessionNext, NEW tab \in Tabs,
                      refresh[tab].pc # "idle", refresh'[tab].pc = "idle",
                      refresh[tab].wallet # NoWallet, stored' # 0
               PROVE  tokens'[stored'].wallet = refresh[tab].wallet
    BY DEF vars
  <2>1. refresh \in [Tabs -> RefreshRecord]
    BY DEF SessionInv, Types
  <2>2. refreshAnswered(tab) \/ verifyStellarAndIssueToken(tab)
    <3>1. refresh' # refresh
      OBVIOUS
    <3>2. ASSUME NEW x \in Tabs, deduplicatedRefresh(x) PROVE FALSE
      BY <2>1, <3>1, <3>2 DEF deduplicatedRefresh
    <3>3. \A c \in Calls : call[c].tab \in Tabs
      BY DEF SessionInv, Types, CallRecord
    <3>4. ~(Tick \/ cleanupExpiredAuth) /\ \A w \in Wallets \cup {NoWallet} : ~wallet_changes(w)
      BY <3>1 DEF Tick, cleanupExpiredAuth, wallet_changes
    <3>5. \A c \in Calls : ~answer(c) /\ \A x \in Tabs : ~fetchWithAuthRetry(c, x)
      BY <3>1, <3>2, <3>3 DEF answer, validateCached, validateRow, refused, validateFill, network_error,
         fetchWithAuthRetry
    <3>6. PICK x \in Tabs : refresh_step(x)
      BY <3>4, <3>5 DEF SessionNext
    <3>7. x = tab
      BY <2>1, <3>6 DEF refresh_step, refreshRead, refreshRevoke, refreshIssue, step_refresh, refreshLost,
         refreshAnswered, noSigner, verifyStellarAndIssueToken, signInFailed, settle
    <3>8. ~refreshRead(tab) /\ ~refreshRevoke(tab) /\ ~refreshIssue(tab) /\ ~refreshLost(tab)
      BY <2>1 DEF refreshRead, refreshRevoke, refreshIssue, step_refresh, refreshLost, RefreshRecord
    <3>9. ~noSigner(tab) /\ ~signInFailed(tab)
      BY DEF noSigner, signInFailed, setAccessToken
    <3> QED
      BY <3>6, <3>7, <3>8, <3>9 DEF refresh_step
  <2>3. CASE refreshAnswered(tab)
    <3>1. tokens' = tokens
      BY <2>3 DEF refreshAnswered, server_vars
    <3>2. stored' = refresh[tab].token /\ bound_to(refresh[tab].token, refresh[tab].wallet)
      BY <2>3 DEF refreshAnswered, setAccessToken
    <3> QED
      BY <3>1, <3>2 DEF bound_to
  <2>4. CASE verifyStellarAndIssueToken(tab)
    <3>1. stored' = Len(tokens') /\ tokens' = Append(tokens, newToken(refresh[tab].wallet, Len(tokens) + 1))
      BY <2>4 DEF verifyStellarAndIssueToken, setAccessToken, createAccessToken
    <3>2. tokens \in Seq(Token) /\ newToken(refresh[tab].wallet, Len(tokens) + 1).wallet = refresh[tab].wallet
      BY DEF SessionInv, Types, newToken
    <3> HIDE DEF newToken
    <3> QED
      BY <3>1, <3>2
  <2> QED
    BY <2>2, <2>3, <2>4
<1> QED
  BY <1>1, SessionInvariance, PTL DEF SessionSpec, RefreshBindsItsWallet
=============================================================================
