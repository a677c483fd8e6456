\* A revocation during an onboarding.
SPECIFICATION Spec
CONSTANTS
  i1 = i1  i2 = i2  i3 = i3  w1 = w1  w2 = w2  k1 = k1  k2 = k2  k3 = k3  c1 = c1  c2 = c2
  Wallets = {w1, w2}
  OnboardRequests <- Neighbours
  Sanctioned = {}
  Unverified = {}
  Onboarders = {c1}
  Revokers = {v1}
  Checkers = {}
  MaxTransactions = 2
  NoReq = NoReq
PROPERTY RevokedIsOut
