\* Two at work, two in line, one too many, a probe and a scheduler job; any endpoint may
\* hang for ever.  An administrator, a manager and a third account to be made, by two
\* requests at a time.
SPECIFICATION MCSpec
CONSTANTS
  c1 = c1
  c2 = c2
  c3 = c3
  c4 = c4
  c5 = c5
  probe = probe
  job = job
  Clients <- MCClients
  Probes = {probe}
  Jobs = {job}
  MaxInflight = 2
  MaxWaiting = 2
  PoolSize = 3
  p1 = p1
  p2 = p2
  e1 = e1
  e2 = e2
  e3 = e3
  i1 = i1
  People = {p1, p2, p3}
  Founders <- MCFounders
  Addresses = {e1, e2, e3}
  HomeOf <- MCHomeOf
  Identities = {i1}
  AddressOf <- MCAddressOf
  Verified = {i1}
  Writers = {w1, w2}
  Granted = {"staff"}
  Named = {e3}
  Watched = {p1}
  NoOne = NoOne
INVARIANTS PlacesCounted PoolSuffices AccountsWhole PagesServed
PROPERTIES WaitingEnds RightsHold
\* The accounts may all end disabled: nothing keeps the last administrator from it.
CHECK_DEADLOCK FALSE
