\* Two lots of one item, two orders of two pieces: sales, cancellations and disposals
\* meet, lots are blocked and released, and days pass.  No expiry date is
\* moved: a sale sorts before it locks.
SPECIFICATION Spec
CONSTANTS
  cake = cake
  box = box
  o1 = o1
  o2 = o2
  s1 = s1
  s2 = s2
  Orders = {o1, o2}
  Sessions = {s1, s2}
  Items = {cake, box}
  ItemOf <- MCItemOf
  NoTarget = NoTarget
  Lots = {1, 2}
  Carts <- MCCakes
  Quantities = {1, 2}
  Days = {1, 2}
  Statuses = {"hoatdong", "tamdung"}
  Expiries = {}
SYMMETRY MCSymmetry
CHECK_DEADLOCK FALSE
INVARIANTS StockAccounted OnlyOfferedIsSold
PROPERTIES DisposedAsSeen KeepsStockContract EarliestFirst
