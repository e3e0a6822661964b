\* Two overlapping scans of an alert whose evidence changes, with crashes and failures,
\* and a manager who resets, approves and rejects what they have queued.
SPECIFICATION MCSpec
CONSTANTS
  a1 = a1
  few = few
  urgent = urgent
  early = early
  late = late
  plain = plain
  Alerts = {a1}
  Rank <- MCRank
  Conditions = {few, urgent}
  Initial = {few}
  Prints = {early, late}
  Fingerprint <- MCFingerprint
  Texts = {plain, other}
  Tokens = {0, 1, 2, 3, 4, 5}
  w1 = w1
  Workers = {w1, w2}
  Managers = {m1}
  NoCondition = NoCondition
  NoText = NoText
  NoKey = NoKey
  MaxChanges = 3
  MaxFaults = 1
INVARIANTS AuditIsTrue
PROPERTIES InsightsSettle
