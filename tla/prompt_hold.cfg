SPECIFICATION PromptSpec
CONSTANTS
  Sessions = {a, b}
  Items = {i1}
  Sweepers = {sweep}
  Operators = {}
  Actors = {a, b}
  ActorOf <- OwnIdentity
  Verbs <- AllVerbs
  Mortal = {}
  Addressable = {a}
  MaxFaults <- NoFaults
  MaxGen = 2
  TTL = 3
  MinSilence = 2
  Ceiling = 3
  RenewEvery = 1
  Horizon = 4
  HostOf <- OneHost
  SweepHost = here
  Shared = shared
  Forever = 100
  Never = Never
  NoCustody = NoCustody
  NoPid = NoPid
  NoHost = NoHost
  NoOne = NoOne
  NoText = NoText
  NoItem = NoItem
  Idle = Idle
  NotHolding = NotHolding
  Unlisted = Unlisted
INVARIANTS PromptHoldSpared
