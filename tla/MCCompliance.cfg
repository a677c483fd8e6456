\* An investor with two wallets who is revoked while he is onboarded again, two
\* others who are turned down, and a transfer check meanwhile.
SPECIFICATION Spec
CONSTANTS
  i1 = i1  i2 = i2  i3 = i3  w1 = w1  w2 = w2  k1 = k1  k2 = k2  k3 = k3  c1 = c1  c2 = c2
  Wallets = {w1, w2}
  OnboardRequests <- Applications
  Sanctioned = {i2}
  Unverified = {i3}
  Onboarders = {c1, c2}
  Revokers = {v1}
  Checkers = {t1}
  MaxTransactions = 3
  NoReq = NoReq
SYMMETRY Callers
INVARIANTS TypeOK OneRecordPerKey OnlyScreenedInvestors RevocationReachesKnownWallets TransfersBetweenGranted
PROPERTY RefinesWhitelist
\* When no transaction is left and every key is taken.
CHECK_DEADLOCK FALSE
