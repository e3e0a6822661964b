\* One customer at one page, who presses its button again after a failure.
SPECIFICATION MCPressSpec
CONSTANTS
  u1 = u1
  u2 = u2
  t1 = t1
  t2 = t2
  t3 = t3
  Customers = {u1}
  Tabs = {t1}
  Owner <- MCOwner
  Keys = {1}
  Requests = {1}
  Orders = {1}
  Vouchers = {}
  Limits = {0}
  Personal <- MCPersonal
  Goods = {cake}
  Basket <- MCBasket
  NoCustomer = NoCustomer
  NoKey = NoKey
  NoOrder = NoOrder
  NoTab = NoTab
  NoCode = NoCode
  MaxFaults = 1
CHECK_DEADLOCK FALSE
PROPERTIES PressingGoesOn
