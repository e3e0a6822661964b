\* One order, three payments, one transfer: every way to pay, cancel and sweep.  Or two
\* scheduled jobs and a request scan while stock, lots and managers move.
SPECIFICATION MCSpec
CONSTANTS
  o1 = o1
  Orders = {o1}
  LegacyOrders = {}
  Payments = {1, 2, 3}
  t1 = t1
  Transfers = {t1}
  Amounts = {1, 2}
  Methods = {"tien_mat", "the_tin_dung"}
  Edits = {"none"}
  OrderForms <- MCForms
  NoOrder = NoOrder
  NoPayment = NoPayment
  NoTransfer = NoTransfer
  cake = cake
  tin = tin
  small = small
  Lots = {cake, tin}
  Variants = {small}
  VariantOf <- MCVariantOf
  NoVariant = NoVariant
  Products <- MCProducts
  Jobs = {j1, j2}
  Requests = {r1}
  NoLot = NoLot
  Nobody = Nobody
  MaxStock = 2
  LowStock = 1
  VeryLow = 1
  Threshold = 1
  MaxEvents = 3
\* An order may come to rest.
CHECK_DEADLOCK FALSE
INVARIANTS TypeOK PaymentsCoherent NoOverCapture CancelledHoldsNoMoney AlertsBounded
PROPERTIES EveryStepAllowed ScansSettle
