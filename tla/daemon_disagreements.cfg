SPECIFICATION VerbsSpec
CONSTANTS
  p = p
  q = q
  i1 = i1
  i2 = i2
  i3 = i3
  Items = {i1, i2, i3}
  People = {p, q}
  Notifier = notifier
  NoOne = NoOne
  NoText = NoText
  NoItem = NoItem
  Idle = Idle
  Unread = Unread
  Order <- ItemOrder
  MaxEdits = 2
  ListLimit = 2
  Scenes <- JustNotifying
  TTL = 3
  MinSilence = 2
  Ceiling = 5
  Forever = 100
  Never = Never
  NoCustody = NoCustody
  NoPid = NoPid
  NoHost = NoHost
  Agents = {"a"}
  Daemons = {"d1"}
  States = {"awaiting_human"}
  Intervals = {1}
  MaxGeneration = 1
  Horizon = 6
INVARIANTS NobodyIsOutlived StateIsReportingOnly
CHECK_DEADLOCK FALSE
