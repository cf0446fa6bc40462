SPECIFICATION Spec
CONSTANTS
  device = device  phone = phone  guest = guest
  Nodes = {device, phone, guest}
  Servers = {device}
  Clients = {phone, guest}
  on = on  off = off
  Commands = {}
  BuiltIns = {"invite/delete"}
  MaxPairing = 5  MaxFresh = 6
  None = None
INVARIANTS CommandsAttributed IssuedReachable
PROPERTIES HonouredOnce StaysInTouch
SYMMETRY ClientSymmetry
