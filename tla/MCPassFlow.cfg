CONSTANT MaxRequests = 3
SPECIFICATION Spec
INVARIANT TypeOK
INVARIANT ListenersWhileWatching
INVARIANT NoThreadIsLeft
INVARIANT RowsNameTheirDoor
PROPERTY ImplementsService
PROPERTY SignalEnds
PROPERTY RequestsAreServed
CHECK_DEADLOCK FALSE
