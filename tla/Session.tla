------------------------------ MODULE Session ------------------------------
(***************************************************************************)
(* The borrower's session: AuthService on the server (access tokens, their *)
(* refresh, the guard and its cache) and, in the browser, the calls that   *)
(* carry the token (fetchWithAuthRetry), the refresh they share            *)
(* (deduplicatedRefresh, useRefreshAccessToken) and the token they keep in *)
(* localStorage, which every tab reads and writes.                         *)
(*                                                                         *)
(* A database query, a cache access and a message are one step each.  A    *)
(* sign-in is the same three exchanges whoever signs (nonce, signature,    *)
(* verify), so one flow stands for the Stellar and the EVM one.            *)
(***************************************************************************)
EXTENDS Integers, Sequences, FiniteSets

CONSTANTS
  Tabs, Calls, Wallets,
  NoWallet,    \* not connected, or still loading
  TOKEN_TTL,   \* 1 hour
  GRACE,       \* 15 minutes: refresh after expiry
  CACHE_TTL,   \* 10 seconds
  LATENCY,     \* longest validation of a token, in ticks
  MaxTokens,   \* bound: tokens issued
  MaxTime,     \* bound: ticks
  MaxSwitches  \* bound: changes of wallet

ASSUME SessionAssumption ==
  /\ {TOKEN_TTL, GRACE, CACHE_TTL, LATENCY, MaxTokens, MaxTime, MaxSwitches} \subseteq Nat
  /\ CACHE_TTL > 0 /\ MaxTime > 0 /\ MaxTokens > 0
  /\ Tabs # {} /\ NoWallet \notin Wallets

VARIABLES
  now,
  tokens,   \* access_tokens, in the order of issue; a token is its index
  cache,    \* per token, until when the guard accepts it unread; 0 = no entry
  stored,   \* localStorage lendoor:accessToken; 0 = none
  wallet,   \* the connected wallet
  switches, \* how often it changed
  call,     \* fetchWithAuthRetry
  refresh   \* per tab, inflightRefresh

vars == <<now, tokens, cache, stored, wallet, switches, call, refresh>>
wallet_vars == <<wallet, switches>>
server_vars == <<now, tokens, cache>>

Issued == 1..Len(tokens)
Forever == MaxTime + TOKEN_TTL + CACHE_TTL + 1  \* an entry set with TTL 0 has none

IdleCall == [pc |-> "idle", tab |-> CHOOSE t \in Tabs : TRUE, token |-> 0, retried |-> FALSE, at |-> 0]
IdleRefresh == [pc |-> "idle", token |-> 0, wallet |-> NoWallet]

-----------------------------------------------------------------------------
(* AuthService                                                              *)

newToken(w, root) ==
  [wallet |-> w, expiresAt |-> now + TOKEN_TTL, revokedAt |-> 0, root |-> root, deleted |-> FALSE]

createAccessToken(w, root) ==
  /\ Len(tokens) < MaxTokens
  /\ tokens' = Append(tokens, newToken(w, root))

\* findOne, and the checks of refreshToken on the row.
refreshable(t) ==
  /\ ~tokens[t].deleted /\ tokens[t].revokedAt = 0
  /\ tokens[t].expiresAt + GRACE >= now

\* Mutant: the UPDATE has no condition.
revocable_always(t) == ~tokens[t].deleted

\* UPDATE ... WHERE revokedAt IS NULL: no row when someone else was first.
revocable(t) == ~tokens[t].deleted /\ tokens[t].revokedAt = 0

\* What the guard finds wrong with a row: `now' was read when it started.
acceptable(t, at) ==
  /\ ~tokens[t].deleted /\ tokens[t].revokedAt = 0
  /\ tokens[t].expiresAt >= at

\* Mutant: the cache's TTL alone.
cacheTtl_fixed(t, at) == CACHE_TTL

\* How long the guard's answer is cached, from the moment it is stored.
cacheTtl(t, at) ==
  LET remaining == tokens[t].expiresAt - at IN
  IF remaining < CACHE_TTL THEN remaining ELSE CACHE_TTL

cacheUntil(t, at) == IF cacheTtl(t, at) = 0 THEN Forever ELSE now + cacheTtl(t, at)

cleanupExpiredAuth ==
  /\ tokens' = [t \in Issued |->
       IF tokens[t].expiresAt < now - GRACE \/ tokens[t].revokedAt # 0
         THEN [tokens[t] EXCEPT !.deleted = TRUE] ELSE tokens[t]]
  /\ tokens' # tokens
  /\ UNCHANGED <<now, cache, stored, wallet_vars, call, refresh>>

\* A validation takes at most LATENCY; cache entries lapse by themselves.
Tick ==
  /\ now < MaxTime
  /\ \A c \in Calls : call[c].pc \in {"reading", "filling"} => now - call[c].at < LATENCY
  /\ now' = now + 1
  /\ cache' = [t \in DOMAIN cache |-> IF cache[t] <= now' THEN 0 ELSE cache[t]]
  /\ UNCHANGED <<tokens, stored, wallet_vars, call, refresh>>

-----------------------------------------------------------------------------
(* The browser: a call                                                      *)

setAccessToken(t) == stored' = t

\* deduplicatedRefresh: join the tab's refresh, or begin one with the token
\* and the wallet of this moment.
deduplicatedRefresh(tab) ==
  IF refresh[tab].pc # "idle" THEN UNCHANGED refresh
  ELSE refresh' = [refresh EXCEPT ![tab] =
         [pc |-> IF stored = 0 THEN "sign_in" ELSE "refreshing",
          token |-> stored, wallet |-> wallet]]

\* Without a token the refresh comes first; its 401 is then final.
fetchWithAuthRetry(c, tab) ==
  /\ call[c].pc = "idle"
  /\ \/ /\ stored = 0
        /\ call' = [call EXCEPT ![c] = [IdleCall EXCEPT !.pc = "waiting", !.tab = tab, !.retried = TRUE]]
        /\ deduplicatedRefresh(tab)
     \/ /\ stored # 0
        /\ call' = [call EXCEPT ![c] = [IdleCall EXCEPT !.pc = "sent", !.tab = tab, !.token = stored]]
        /\ UNCHANGED refresh
  /\ UNCHANGED <<server_vars, stored, wallet_vars>>

\* 401.  After a refresh it is authFailed; before one, it asks for one.
refused(c) ==
  \/ /\ call[c].retried
     /\ call' = [call EXCEPT ![c] = IdleCall]
     /\ UNCHANGED refresh
  \/ /\ ~call[c].retried
     /\ call' = [call EXCEPT ![c] = [@ EXCEPT !.pc = "waiting", !.token = 0, !.retried = TRUE, !.at = 0]]
     /\ deduplicatedRefresh(call[c].tab)

\* validateToken, step by step: the cache, the row, the cache.
validateCached(c) ==
  /\ call[c].pc = "sent"
  /\ call' = [call EXCEPT ![c] =
       IF cache[call[c].token] # 0 THEN IdleCall ELSE [@ EXCEPT !.pc = "reading", !.at = now]]
  /\ UNCHANGED <<server_vars, stored, wallet_vars, refresh>>

validateRow(c) ==
  /\ call[c].pc = "reading"
  /\ \/ /\ acceptable(call[c].token, call[c].at)
        /\ call' = [call EXCEPT ![c].pc = "filling"]
        /\ UNCHANGED refresh
     \/ ~acceptable(call[c].token, call[c].at) /\ refused(c)
  /\ UNCHANGED <<server_vars, stored, wallet_vars>>

validateFill(c) ==
  /\ call[c].pc = "filling"
  /\ cache' = [cache EXCEPT ![call[c].token] = cacheUntil(call[c].token, call[c].at)]
  /\ call' = [call EXCEPT ![c] = IdleCall]
  /\ UNCHANGED <<now, tokens, stored, wallet_vars, refresh>>

\* A network error ends the call: { res: null, authFailed: false }.
network_error(c) ==
  /\ call[c].pc \in {"sent", "reading", "filling"}
  /\ call' = [call EXCEPT ![c] = IdleCall]
  /\ UNCHANGED <<server_vars, stored, wallet_vars, refresh>>

-----------------------------------------------------------------------------
(* The browser: a refresh                                                   *)

\* Mutant: the first of the waiting calls takes the result.
settle_one(tab, token) ==
  LET waiters == {c \in Calls : call[c].pc = "waiting" /\ call[c].tab = tab}
      first == CHOOSE c \in waiters : TRUE IN
  /\ refresh' = [refresh EXCEPT ![tab] = IdleRefresh]
  /\ call' = IF waiters = {} THEN call
             ELSE IF token = 0 THEN [call EXCEPT ![first] = IdleCall]
             ELSE [call EXCEPT ![first].pc = "sent", ![first].token = token]

\* The promise settles: the calls of the tab retry, or end without a token.
settle(tab, token) ==
  /\ refresh' = [refresh EXCEPT ![tab] = IdleRefresh]
  /\ call' = [c \in Calls |->
       IF call[c].pc # "waiting" \/ call[c].tab # tab THEN call[c]
       ELSE IF token = 0 THEN IdleCall
       ELSE [call[c] EXCEPT !.pc = "sent", !.token = token]]

step_refresh(tab, from, to) ==
  /\ refresh[tab].pc = from
  /\ refresh' = [refresh EXCEPT ![tab].pc = to]

refreshRead(tab) ==
  /\ step_refresh(tab, "refreshing", IF refreshable(refresh[tab].token) THEN "revoking" ELSE "sign_in")
  /\ UNCHANGED <<server_vars, stored, wallet_vars, call>>

refreshRevoke(tab) ==
  LET t == refresh[tab].token IN
  /\ step_refresh(tab, "revoking", IF revocable(t) THEN "evicting" ELSE "sign_in")
  /\ tokens' = IF revocable(t) THEN [tokens EXCEPT ![t].revokedAt = now] ELSE tokens
  /\ UNCHANGED <<now, cache, stored, wallet_vars, call>>

\* The cache entry is deleted and the new token inserted.
refreshIssue(tab) ==
  LET t == refresh[tab].token IN
  /\ refresh[tab].pc = "evicting"
  /\ cache' = [cache EXCEPT ![t] = 0]
  /\ createAccessToken(tokens[t].wallet, tokens[t].root)
  /\ refresh' = [refresh EXCEPT ![tab].pc = "refreshed", ![tab].token = Len(tokens')]
  /\ UNCHANGED <<now, stored, wallet_vars, call>>

\* Mutant: the refresh is forgotten with its callers.
refreshLost_forgotten(tab) ==
  /\ refresh[tab].pc \in {"refreshing", "revoking", "evicting", "refreshed"}
  /\ refresh' = [refresh EXCEPT ![tab] = IdleRefresh]
  /\ UNCHANGED <<server_vars, stored, wallet_vars, call>>

\* The silent refresh dies with the server or its answer is lost: sign in.
refreshLost(tab) ==
  /\ refresh[tab].pc \in {"refreshing", "revoking", "evicting", "refreshed"}
  /\ refresh' = [refresh EXCEPT ![tab].pc = "sign_in"]
  /\ UNCHANGED <<server_vars, stored, wallet_vars, call>>

\* Mutant: the answer is stored whatever the wallet.
bound_to_any(t, w) == TRUE

\* The answer is stored only for the wallet the refresh began with; one that
\* began before the wallet was known is stored, or dropped when there is none.
bound_to(t, w) == w \in {NoWallet, tokens[t].wallet}

refreshAnswered(tab) ==
  LET r == refresh[tab] IN
  /\ r.pc = "refreshed"
  /\ \/ /\ bound_to(r.token, r.wallet)
        /\ setAccessToken(r.token)
        /\ settle(tab, r.token)
     \/ /\ r.wallet # tokens[r.token].wallet
        /\ setAccessToken(0)
        /\ refresh' = [refresh EXCEPT ![tab].pc = "sign_in"]
        /\ UNCHANGED call
  /\ UNCHANGED <<server_vars, wallet_vars>>

\* Without a wallet there is nobody to sign.
noSigner(tab) ==
  /\ refresh[tab].pc = "sign_in" /\ refresh[tab].wallet = NoWallet
  /\ settle(tab, 0)
  /\ UNCHANGED <<server_vars, stored, wallet_vars>>

\* The wallet of the refresh is asked to sign.
signing(tab) == refresh[tab].pc = "sign_in" /\ refresh[tab].wallet # NoWallet

\* Nonce, signature, verify: the nonce is this sign-in's own and nobody sees
\* the token before its answer is stored, so the exchanges are one step.
verifyStellarAndIssueToken(tab) ==
  /\ signing(tab)
  /\ createAccessToken(refresh[tab].wallet, Len(tokens) + 1)
  /\ setAccessToken(Len(tokens'))
  /\ settle(tab, Len(tokens'))
  /\ UNCHANGED <<now, cache, wallet_vars>>

\* Cancelled, nonce expired, refused or lost: the stored token is dropped,
\* whoever stored it.
signInFailed(tab) ==
  /\ signing(tab)
  /\ setAccessToken(0)
  /\ settle(tab, 0)
  /\ UNCHANGED <<server_vars, wallet_vars>>

-----------------------------------------------------------------------------
(* BorrowerProvider: another wallet clears the session; the first one after *)
(* none only if the token is not its own.                                   *)
wallet_changes(w) ==
  /\ w # wallet /\ switches < MaxSwitches
  /\ wallet' = w /\ switches' = switches + 1
  /\ stored' = IF wallet = NoWallet /\ (stored = 0 \/ tokens[stored].wallet = w) THEN stored ELSE 0
  /\ UNCHANGED <<server_vars, call, refresh>>

\* A page is opened, with or without the token of an earlier visit.
SessionInit ==
  /\ now = 1 /\ wallet = NoWallet /\ switches = 0
  /\ \/ tokens = << >> /\ stored = 0
     \/ \E w \in Wallets : tokens = <<newToken(w, 1)>> /\ stored = 1
  /\ cache = [t \in 1..MaxTokens |-> 0]
  /\ call = [c \in Calls |-> IdleCall]
  /\ refresh = [tab \in Tabs |-> IdleRefresh]

answer(c) == validateCached(c) \/ validateRow(c) \/ validateFill(c) \/ network_error(c)

refresh_step(tab) ==
  \/ refreshRead(tab) \/ refreshRevoke(tab) \/ refreshIssue(tab)
  \/ refreshLost(tab) \/ refreshAnswered(tab)
  \/ noSigner(tab) \/ verifyStellarAndIssueToken(tab) \/ signInFailed(tab)

SessionNext ==
  \/ Tick \/ cleanupExpiredAuth
  \/ \E c \in Calls : answer(c) \/ \E tab \in Tabs : fetchWithAuthRetry(c, tab)
  \/ \E tab \in Tabs : refresh_step(tab)
  \/ \E w \in Wallets \cup {NoWallet} : wallet_changes(w)

\* Requests are answered or fail, and so does a request to sign.
SessionSpec ==
  /\ SessionInit /\ [][SessionNext]_vars
  /\ \A c \in Calls : WF_vars(answer(c))
  /\ \A tab \in Tabs : WF_vars(refresh_step(tab))

-----------------------------------------------------------------------------
(* Type invariant: what the tables, localStorage and the promises hold.     *)
SessionTypeOK ==
  /\ now \in 1..MaxTime /\ Len(tokens) <= MaxTokens /\ stored \in 0..Len(tokens)
  /\ wallet \in Wallets \cup {NoWallet} /\ switches \in 0..MaxSwitches
  /\ cache \in [1..MaxTokens -> 0..Forever]
  /\ \A t \in Issued :
       /\ tokens[t].root \in 1..t /\ tokens[t].wallet \in Wallets
       /\ tokens[t].revokedAt \in 0..now
  /\ \A c \in Calls : call[c].pc = "waiting" => refresh[call[c].tab].pc # "idle"
  /\ \A tab \in Tabs : refresh[tab].token \in 0..Len(tokens)

\* However many tabs and calls refresh it, lose the answer or die half way, a
\* sign-in has at most one token that is not revoked: the conditional UPDATE of
\* refreshToken lets one refresh of a token through.
OneLiveTokenPerSignIn ==
  \A s, t \in Issued :
    s # t /\ tokens[s].root = tokens[t].root => tokens[s].revokedAt # 0 \/ tokens[t].revokedAt # 0

\* validateToken answers from its cache without reading the row, and may store
\* an answer read before a revocation after refreshToken evicted the entry.  A
\* revoked token is still accepted for at most CACHE_TTL and the time of one
\* validation, an expired one for the time of one validation.
DeadTokensLapse ==
  \A t \in Issued :
    cache[t] \notin {0, Forever} =>
      /\ cache[t] <= tokens[t].expiresAt + LATENCY
      /\ tokens[t].revokedAt # 0 => cache[t] <= tokens[t].revokedAt + CACHE_TTL + LATENCY

\* useRefreshAccessToken works with the wallet it saw when it began, while the
\* wallet and the stored token change under it: what it stores is a token of
\* that wallet, never of the one whose token it happened to refresh.
RefreshBindsItsWallet ==
  [][\A tab \in Tabs :
       refresh[tab].pc # "idle" /\ refresh'[tab].pc = "idle"
         /\ refresh[tab].wallet # NoWallet /\ stored' # 0
       => tokens'[stored'].wallet = refresh[tab].wallet]_vars

\* Every call ends, however many share a refresh and however it goes: no
\* caller of deduplicatedRefresh is left waiting, and none retries forever.
EveryFetchEnds == \A c \in Calls : (call[c].pc # "idle") ~> (call[c].pc = "idle")

=============================================================================
