\* Gift boxes: every order needs two lots, in either order, so sales, cancellations and
\* disposals lock them in different orders, while managers move expiry dates.  Does every transaction end?
SPECIFICATION FairSpec
CONSTANTS
  cake = cake
  box = box
  o1 = o1
  o2 = o2
  s1 = s1
  s2 = s2
  Orders = {o1, o2}
  Sessions = {s1, s2}
  Items = {cake, box}
  ItemOf <- MCItemOf
  NoTarget = NoTarget
  Lots = {1, 3}
  Carts <- MCMixed
  Quantities = {2}
  Days = {1}
  Statuses = {"hoatdong"}
  Expiries = {2}
CHECK_DEADLOCK FALSE
INVARIANTS CancellationsNeverDeadlock OrderWhole
PROPERTIES TransactionsEnd
