\* confirm_mint runs twice for one mint.
SPECIFICATION Spec
CONSTANTS
  a1 = a1  a2 = a2  i1 = i1  w1 = w1  issuer = issuer
  k1 = k1  k2 = k2  k3 = k3  m1 = m1  m2 = m2  m3 = m3  r1 = r1  r2 = r2
  c5 = c5  c6 = c6
  Assets = {a1, a2}
  Investors = {i1}
  Wallets = {issuer, w1}
  ISSUER_WALLET = issuer
  Keys = {k1, k2, k3}
  MintIds = {m1}
  RedemptionIds = {}
  TokenSupply <- Supply3
  MintRequests <- OneMint
  RedemptionRequests = {}
  NoCaller = NoCaller  NoReq = NoReq  NoId = NoId
  MintCallers = {c1}
  RedeemCallers = {}
  SettleCallers = {}
  MaxConfirms = 2
INVARIANT ConfirmedOnce
