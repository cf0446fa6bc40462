SPECIFICATION Spec
CONSTANTS
  device = device  phone = phone  guest = guest
  Nodes = {device, phone}
  Servers = {device, phone}
  Clients = {device, phone}
  on = on  off = off
  Commands = {on}
  BuiltIns = {"invite/create", "invite/delete"}
  MaxPairing = 5  MaxFresh = 5
  None = None
INVARIANTS TypeOK IssuedReachable
PROPERTIES StaysInTouch
