SPECIFICATION FairSpec
CONSTANTS
  p = p
  q = q
  i1 = i1
  i2 = i2
  i3 = i3
  Items = {i1, i2, i3}
  People = {p, q}
  Notifier = notifier
  NoOne = NoOne
  NoText = NoText
  NoItem = NoItem
  Idle = Idle
  Unread = Unread
  Order <- ItemOrder
  MaxEdits = 2
  ListLimit = 2
  Scenes <- ProgressScenes
PROPERTIES ReopenedBecomesFree ReportsReached
CHECK_DEADLOCK FALSE
