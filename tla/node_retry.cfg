SPECIFICATION FairSpec
CONSTANTS
  device = device  phone = phone  guest = guest
  Nodes = {device, phone}
  Servers = {device}
  Clients = {phone}
  on = on  off = off
  Commands = {on}
  BuiltIns = {}
  MaxPairing = 5  MaxFresh = 5
  None = None
PROPERTY RetryConverges
