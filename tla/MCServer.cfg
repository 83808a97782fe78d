SPECIFICATION Spec
CONSTANTS
  Req = {r1, r2}
  Idle = Idle
INVARIANTS
  TypeOK
  OneConnection
  ListenerGoesFirst
PROPERTIES
  CloseReaches
  
