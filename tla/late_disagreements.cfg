SPECIFICATION Spec
CONSTANTS
  Sessions = {a, b}
  Items = {i1}
  Sweepers = {sweep}
  Operators = {}
  Actors = {a, b}
  ActorOf <- OwnIdentity
  Verbs <- ClaimAndEnd
  Mortal = {}
  Addressable = {a, b}
  MaxFaults <- NoFaults
  MaxGen = 2
  TTL = 1
  MinSilence = 1
  Ceiling = 2
  RenewEvery = 1
  Horizon = 2
  HostOf <- OneHost
  SweepHost = here
  Shared = shared
  Forever = 100
  Never = Never
  NoCustody = NoCustody
  NoPid = NoPid
  NoHost = NoHost
  NoOne = NoOne
  NoText = NoText
  NoItem = NoItem
  Idle = Idle
  NotHolding = NotHolding
  Unlisted = Unlisted
PROPERTIES ReleaseOwnOnly StaleCloseRefused
