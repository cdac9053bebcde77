SPECIFICATION SessionSpec
CONSTANTS
  Tabs = {tab1, tab2}
  Calls = {c1, c2}
  Wallets = {w1, w2}
  NoWallet = NoWallet
  TOKEN_TTL = 1
  GRACE = 1
  CACHE_TTL = 1
  LATENCY = 1
  MaxTokens = 3
  MaxTime = 3
  MaxSwitches = 1
INVARIANTS SessionTypeOK OneLiveTokenPerSignIn 
PROPERTIES  EveryFetchEnds
CHECK_DEADLOCK FALSE
