\* Two tabs of one browser, two accounts, and two calls at a time.
SPECIFICATION Spec
CONSTANTS
  u1 = u1
  u2 = u2
  Users = {u1, u2}
  Tabs = {t1, t2}
  Known = {u1}
  Shopping = {t1}
  Calls = {c1}
  Flows = {c2}
  Followed = {u1}
  Managed = {u1}
  NoUser = NoUser
  NoTab = NoTab
  MaxTokens = 3
INVARIANTS SessionKept CartsApart RefreshesWhole
