SPECIFICATION Spec
CONSTANTS
  c1 = c1  c2 = c2  lamp = lamp  home = home  cafe = cafe
  Processes = {c1, c2}
  Switches = {lamp}
  Networks = {home, cafe}
  None = None  Empty = Empty  Garbled = Garbled
  MaxPairing = 4  MaxFresh = 5
SYMMETRY Symmetry
INVARIANTS TypeOK OneIdentity ProvisionIntact
PROPERTY KeepsTouch
CHECK_DEADLOCK FALSE
