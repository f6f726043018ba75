CONSTANTS
  c1 = c1 c2 = c2
  u1 = u1 u2 = u2
  h1 = h1 h2 = h2
  Clients = {c1, c2}
  UUIDs = {u1, u2}
  Ids = {1, 2}
  IdOf <- MCIdOf
  Handlers = {h1, h2}
  NoAccount = NoAccount
SPECIFICATION MCSpec
CHECK_DEADLOCK FALSE
INVARIANTS
  TypeOK
  RegistryConsistent
  UntrackAssertsHold
  DeliveryExact
  GreetedIsSubscribed
  HeartbeatSound
PROPERTIES
  PresenceSpec
  VanishedPeerReaped
  HandshakeSettles
