SPECIFICATION Spec
CONSTANTS
  c1 = c1
  i1 = i1
  d1 = d1
  d2 = d2
  e1 = e1
  NULL = NULL
  ABSENT = ABSENT
  OrderIds = {o1}
  Requests = {r1, r2, r3}
  Charities = {c1}
  Projects = {}
  SaleItems = {i1}
  CharityOf <- MCCharityOf
  Prices = {1, 2}
  Donors = {d1, d2}
  Receipts = {e1}
  DonationBodies <- MCDonationBodies
  PurchaseBodies <- MCPurchaseBodies
  UserPatches <- MCUserPatches
  AdminPatches <- MCAdminPatches
  StoredOrders <- MCStoredOrders
SYMMETRY Symmetry
INVARIANT
  FieldsChangedExact
