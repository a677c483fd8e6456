\* A supply that is sold, redeemed, settled by two tasks, and sold again.
SPECIFICATION Spec
CONSTANTS
  a1 = a1  a2 = a2  i1 = i1  w1 = w1  issuer = issuer
  k1 = k1  k2 = k2  k3 = k3  m1 = m1  m2 = m2  m3 = m3  r1 = r1  r2 = r2
  c5 = c5  c6 = c6
  Assets = {a1, a2}
  Investors = {i1}
  Wallets = {issuer, w1}
  ISSUER_WALLET = issuer
  Keys = {k1, k2, k3}
  MintIds = {m1, m2, m3}
  RedemptionIds = {r1}
  TokenSupply <- Supply3
  MintRequests <- Resold
  RedemptionRequests <- OneRedemption
  NoCaller = NoCaller  NoReq = NoReq  NoId = NoId
  MintCallers = {c1}
  RedeemCallers = {c3}
  SettleCallers = {c5, c6}
  MaxConfirms = 1
SYMMETRY Alike
INVARIANTS TypeOK SupplyReadsAreCurrent OnChainWithinSupply ChainWithinBooks SettledOnlyAfterBurn SettlementsAreBounded OnlyPositiveAmountsMove LedgerBalanced
PROPERTIES RefinesIssuance RefinesCirculation
