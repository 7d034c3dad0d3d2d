CONSTANTS
  Consumers = {c1, c2}
  Messages = {m1, m2}
  Nullopt = Nullopt
  MaxQueue = 3
SPECIFICATION Spec
INVARIANT TypeOK
INVARIANT NoLostWakeup
INVARIANT ShutdownReleasesAll
PROPERTY ImplementsChannel
PROPERTY CallsEndAfterShutdown
