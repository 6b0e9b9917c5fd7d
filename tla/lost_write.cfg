SPECIFICATION Spec
CONSTANTS
  Sessions = {a, b}
  Items = {i1, i2}
  Sweepers = {}
  Operators = {}
  Actors = {a, b}
  ActorOf <- OwnIdentity
  Verbs <- NeverHandBack
  Mortal = {}
  Addressable = {a, b}
  MaxFaults <- OneLostOrUnanswered
  MaxGen = 2
  TTL = 0
  MinSilence = 0
  Ceiling = 0
  RenewEvery = 0
  Horizon = 1
  HostOf <- OneHost
  SweepHost = here
  Shared = shared
  Forever = 100
  Never = Never
  NoCustody = NoCustody
  NoPid = NoPid
  NoHost = NoHost
  NoOne = NoOne
  NoText = NoText
  NoItem = NoItem
  Idle = Idle
  NotHolding = NotHolding
  Unlisted = Unlisted
INVARIANTS BeliefMatchesRows
