SPECIFICATION FairSpec
CONSTANTS
  Chords <- EachKriya
  NewKriyas <- Custom
  None = None
  MaxChords = 2  MaxChains = 1  MaxTurning = 2
INVARIANTS TypeOK CancelIsDue ReadingHoldsNothing MoreIsTrue
PROPERTY ComesToRest
