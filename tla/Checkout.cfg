\* Two customers after one voucher, whose limit comes and goes, or after goods that do.
SPECIFICATION MCSpec
CONSTANTS
  u1 = u1
  u2 = u2
  t1 = t1
  t2 = t2
  t3 = t3
  Customers = {u1, u2}
  Tabs = {t1, t3}
  Owner <- MCOwner
  Keys = {1, 2}
  Requests = {1, 2}
  Orders = {1, 2}
  Vouchers = {1}
  Limits = {0, 1}
  Personal <- MCPersonal
  Goods = {cake}
  Basket <- MCBasket
  NoCustomer = NoCustomer
  NoKey = NoKey
  NoOrder = NoOrder
  NoTab = NoTab
  NoCode = NoCode
  MaxFaults = 1
CHECK_DEADLOCK FALSE
INVARIANTS OneOrderPerKey KnownOrRetryable
PROPERTIES VoucherUsesKept ResolvedUnlessWithdrawn
