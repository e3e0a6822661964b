\* Two orders, one of them an old pre-order, two payments, two transfers, managers who
\* overwrite references and provider details, under the fairness of the scheduler.
SPECIFICATION FairSpec
CONSTANTS
  o1 = o1
  o2 = o2
  Orders = {o1, o2}
  LegacyOrders = {o2}
  Payments = {1, 2}
  t1 = t1
  t2 = t2
  Transfers = {t1, t2}
  Amounts = {2}
  Methods = {"the_tin_dung"}
  Edits = {"none", "ref", "info"}
  OrderForms <- MCDeliveries
  NoOrder = NoOrder
  NoPayment = NoPayment
  NoTransfer = NoTransfer
CHECK_DEADLOCK FALSE
INVARIANTS TransfersTraced
PROPERTIES AbandonedOrdersReclaimed
