SPECIFICATION Spec
CONSTANTS
  Readers = {"node", "relay", "firmware"}
  Types = {1}
  PayloadCells = {1, 2}
  MinLen = 1  MaxLen = 2
  MaxFrames = 2
INVARIANT MalformedCloses
CHECK_DEADLOCK FALSE
