SPECIFICATION Spec
CONSTANTS
  Sessions = {a, b}
  Items = {i1}
  Sweepers = {}
  Operators = {op}
  Actors = {a, b, op}
  ActorOf <- OwnIdentity
  Verbs <- Undeclared
  Mortal = {}
  Addressable = {a, b}
  MaxFaults <- OneRepeated
  MaxGen = 2
  TTL = 0
  MinSilence = 0
  Ceiling = 0
  RenewEvery = 0
  Horizon = 1
  HostOf <- OneHost
  SweepHost = here
  Shared = shared
  Forever = 100
  Never = Never
  NoCustody = NoCustody
  NoPid = NoPid
  NoHost = NoHost
  NoOne = NoOne
  NoText = NoText
  NoItem = NoItem
  Idle = Idle
  NotHolding = NotHolding
  Unlisted = Unlisted
INVARIANTS TypeOK HeldIffAssigned
PROPERTIES NoTakeover ImplementsLifecycle
