SPECIFICATION MCSpec
CONSTANTS
  u1 = u1  Guest = Guest  q1 = q1  q2 = q2  NoText = NoText
  r1 = r1  r2 = r2  NoRequest = NoRequest  home = home  other = other
  Customers = {u1}
  Texts = {q1, q2}
  Requests = {r1, r2}
  Clients = {home, other}
  Home = home
  Slots = 1
  Limit = 2
  Window = 2
  MaxBuckets = 1
  Keep = 2
CHECK_DEADLOCK FALSE
INVARIANTS ConversationsWhole
PROPERTIES LimitsFair DictationFollowed WaitsEnd
