SPECIFICATION FairSpec
CONSTANTS
  home = home  cafe = cafe
  Networks = {home}
  Payloads = {"HANDSHAKE_INIT", "on", "off", "toggle", "status", "invalid"}
  Addresses = {0, 2}
  Buffer = 2
  None = None
  MaxFresh = 6
INVARIANTS TypeOK StateFits IssuedReachable OwnerKnowsLight
PROPERTIES HonouredOnce StaysInTouch BleServed
