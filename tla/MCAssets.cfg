\* Two tasks run the asset services over one asset and its tokens.
SPECIFICATION Spec
CONSTANTS
  t1 = t1  t2 = t2  a1 = a1  a2 = a2  l1 = l1  l2 = l2  n1 = n1  n2 = n2
  k1 = k1  k2 = k2  m1 = m1  m2 = m2  r1 = r1
  Tasks = {t1, t2}
  Assets = {a1, a2}
  WrapperIds = {l1, l2}
  NavIds = {n1, n2}
  Keys = {k1, k2}
  RegisterRequests <- Registrations
  WrapperSupplies <- Supplies
  YieldRequests <- Days
  ApprovedCustodians = {"approved"}
  MintAmount <- AmountOfMint
  RedemptionAmount <- RedemptionOf365
  CustodianNavs <- Reports
  NAV_TOLERANCE = 1
SYMMETRY Alike
INVARIANTS TypeOK KeysNameOneRow LateWrapIsRefused WrappersAreBounded YieldsAreBooked YieldsCompound PassedBoundsTheMissing
PROPERTY AlarmsHaveACause
