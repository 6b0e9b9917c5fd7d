SPECIFICATION AnySpec
CONSTANTS
  TTL = 3
  MinSilence = 2
  Ceiling = 5
  Forever = 100
  Never = Never
  NoCustody = NoCustody
  NoPid = NoPid
  NoHost = NoHost
  Pids = {p1}
  Hosts = {h1, h2}
  Here = h1
  Stamps = {0, 1, 2, 3}
  MaxTime = 9
  Names <- TwoProjects
  Items = {1, 2}
  Limit = 2
  Cap = 2
  MaxEvents = 1
  People = {a}
  NoOne = NoOne
  HistoryLimit = 2
  FeedLimit = 1
  Days = 1
  MaxCommits = 3
  MaxDay = 2
  MaxMoves = 1
  Contenders = {w1, w2}
  Refused = Refused
  MaxConflicts = 2
INVARIANTS HoldsAreJudged ServiceReportsAreTrue DoctorKnowsTheService AttentionComplete ReadingsAreTrue ContractIsRight
PROPERTIES VerdictStable ServiceComesBack
CHECK_DEADLOCK FALSE
