\* Three requests approve, reject and reset a proposal, up to three resets deep; or one
\* chat makes up to two, asking its model twice for up to two calls.
SPECIFICATION MCSpec
CONSTANTS
  a1 = a1  a2 = a2  s1 = s1  s2 = s2  s3 = s3  x = x  y = y  c1 = c1
  Actions = {a1, a2}
  Sessions = {s1, s2, s3}
  States = {x, y}
  Turns = {c1}
  None = None
  MaxResets = 3
  MaxIterations = 2
  MaxCalls = 2
CHECK_DEADLOCK FALSE
INVARIANTS DecisionsHold LogIsTrue TurnsTold
PROPERTIES TurnsEnd
