SPECIFICATION RemoteSpec
CONSTANTS
  control = control
  object1 = object1
  object2 = object2
  None = None
  Sockets = {control, object1, object2}
  Control = control
  MaxServers = 2
  MaxIdle = 2
  Patience = 2
  MayBeLate = TRUE
  MayDie = TRUE
INVARIANTS
  RemoteTypeOK
  ActiveIsServed
PROPERTIES
  EveryServerAndCallEnds
