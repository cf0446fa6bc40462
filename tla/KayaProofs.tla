------------------------------ MODULE KayaProofs ------------------------------
(***************************************************************************)
(* Theorems about Kaya, for any chords, any kriyas the user may define and *)
(* any bounds.                                                             *)
(***************************************************************************)
EXTENDS Kaya, SequenceTheorems, TLAPS

\* Executing a sequence clears the input, whatever the kriya does then.
LEMMA ExecuteClears ==
  ASSUME Execute
  PROVE  /\ ~ isReading /\ quiet' = 0 /\ missed' = missed
         /\ chordBuffer' = <<>> /\ currentChord' = {}
         /\ cancelTimer' = None /\ chordTimer' = None
  BY DEF Execute, ExecuteSwitchMode, ExecuteUnknownMode, ExecuteQueryMode,
         ExecuteReplay, ExecuteClear, ExecuteGetTime, ExecuteCustom,
         ExecuteUnknown, Executes, ResetInput

\* Of the reading mode, a kriya changes nothing, except for the one that begins
\* to read.
LEMMA ExecuteReads ==
  ASSUME Execute
  PROVE  /\ more' = more
         /\ UNCHANGED <<readingQueue, isReading, turning>> \/ ExecuteGetTime
  BY DEF Execute, ExecuteSwitchMode, ExecuteUnknownMode, ExecuteQueryMode,
         ExecuteReplay, ExecuteClear, ExecuteGetTime, ExecuteCustom,
         ExecuteUnknown, readingVars

------------------------------------------------------------------------------
(***************************************************************************)
(* Types                                                                   *)
(***************************************************************************)

\* Every step keeps what belongs to the modes.
LEMMA ModeStep ==
  ASSUME ModeOK, [Next]_vars
  PROVE  ModeOK'
<1> USE DEF ModeOK
<1>1. CASE UNCHANGED modeVars
  BY <1>1 DEF modeVars
<1>2. CASE ExecuteSwitchMode
  BY <1>2 DEF ExecuteSwitchMode
<1>3. ASSUME NEW code \in NewKriyas, AddKriya(code)
      PROVE  ModeOK'
  BY <1>3 DEF AddKriya
<1>4. ASSUME NEW m \in Modes, ClickMode(m)
      PROVE  ModeOK'
  BY <1>4 DEF ClickMode
<1>5. CASE Execute
  BY <1>1, <1>2, <1>5
  DEF Execute, ExecuteUnknownMode, ExecuteQueryMode, ExecuteReplay, ExecuteClear,
      ExecuteGetTime, ExecuteCustom, ExecuteUnknown
<1> QED
  BY <1>1, <1>3, <1>4, <1>5
  DEF Next, UserStep, Timeouts, KeyDown, TurnPage, AddChord, TimerFires,
      PageTurns, SequenceEnds, Tick, vars

\* Every step keeps the types of the input and of the timers.
LEMMA InputTypeStep ==
  ASSUME InputOK, [Next]_vars
  PROVE  InputOK'
<1> USE KayaAssumption DEF InputOK, AutoCancel
<1>1. CASE UNCHANGED <<inputVars, quiet>>
  BY <1>1 DEF inputVars
<1>2. ASSUME NEW k \in UNION Chords, KeyDown(k)
      PROVE  InputOK'
  BY <1>2 DEF KeyDown
<1>3. CASE TurnPage
  BY <1>3 DEF TurnPage
<1>4. CASE AddChord
  BY <1>4 DEF AddChord
<1>5. CASE Execute
  BY <1>5, ExecuteClears
<1>6. CASE TimerFires
  BY <1>6 DEF TimerFires, ResetInput
<1>7. CASE Tick
  BY <1>7 DEF Tick, Left
<1> QED
  BY <1>1, <1>2, <1>3, <1>4, <1>5, <1>6, <1>7
  DEF Next, UserStep, Timeouts, AddKriya, ClickMode, PageTurns, SequenceEnds, vars

\* Every step keeps the types of the reading mode.
LEMMA ReadingStep ==
  ASSUME ReadingOK, [Next]_vars
  PROVE  ReadingOK'
<1> USE KayaAssumption DEF ReadingOK
<1>1. CASE UNCHANGED <<readingVars, missed>>
  BY <1>1 DEF readingVars
<1>2. CASE TurnPage
  <2>1. CASE readingQueue = <<>>
    BY <1>2, <2>1 DEF TurnPage, AdvanceReading
  <2>2. CASE readingQueue # <<>>
    BY <1>2, <2>2 DEF TurnPage, AdvanceReading
  <2> QED
    BY <2>1, <2>2
<1>3. CASE AddChord
  <2>1. CASE isReading
    <3>1. readingQueue' = <<>> /\ turning' = turning
      BY <1>3, <2>1 DEF AddChord, CancelReading
    <3>2. isReading' = FALSE /\ more' = FALSE /\ missed' = missed
      BY <1>3, <2>1, Zenon DEF AddChord, CancelReading
    <3>3. readingQueue' \in Seq(1 .. 3)
      BY <3>1
    <3> QED
      BY <3>1, <3>2, <3>3, Zenon
  <2> QED
    BY <1>1, <1>3, <2>1 DEF AddChord
<1>4. CASE Execute
  <2>1. CASE ExecuteGetTime
    <3>1. PICK n \in 2 .. 3 : StartReading([i \in 1 .. n |-> i])
      BY <2>1 DEF ExecuteGetTime
    <3>2. [i \in 1 .. n |-> i] \in Seq(1 .. 3)
      <4>1. \A i \in 1 .. n : i \in 1 .. 3
        OBVIOUS
      <4> QED
        BY <4>1
    <3>3. readingQueue' \in Seq(1 .. 3) /\ isReading' = TRUE /\ turning' \in 0 .. MaxTurning
      BY <3>1, <3>2 DEF StartReading
    <3> QED
      BY <1>4, <3>3, ExecuteClears, ExecuteReads
  <2> QED
    BY <1>1, <1>4, <2>1, ExecuteClears, ExecuteReads DEF readingVars
<1>5. CASE PageTurns
  <2>1. turning' \in 0 .. MaxTurning /\ isReading' = isReading
    BY <1>5 DEF PageTurns
  <2>2. CASE readingQueue # <<>>
    <3>1. readingQueue' \in Seq(1 .. 3) /\ more' \in BOOLEAN /\ missed' = missed
      BY <1>5, <2>2 DEF PageTurns
    <3> QED
      BY <2>1, <2>2, <3>1
  <2>3. CASE readingQueue = <<>>
    BY <1>5, <2>1, <2>3 DEF PageTurns
  <2> QED
    BY <2>2, <2>3
<1> QED
  BY <1>1, <1>2, <1>3, <1>4, <1>5
  DEF Next, UserStep, Timeouts, KeyDown, AddKriya, ClickMode, TimerFires,
      SequenceEnds, Tick, vars

\* Every step keeps what the cell shows in its bounds.
LEMMA DisplayStep ==
  ASSUME DisplayOK, [Next]_vars
  PROVE  DisplayOK'
<1> USE KayaAssumption DEF DisplayOK
<1>1. CASE UNCHANGED displayVars
  BY <1>1 DEF displayVars
<1>2. CASE ShowSequence /\ recorded' \in {TRUE, recorded}
  <2>1. chains' \in 0 .. MaxChains
    BY <1>2 DEF ShowSequence
  <2>2. shown' = "signal" /\ recorded' \in BOOLEAN
    BY <1>2, Zenon DEF ShowSequence
  <2> QED
    BY <2>1, <2>2, Zenon
<1>3. CASE Execute
  <2>1. CASE ExecuteGetTime
    BY <2>1 DEF ExecuteGetTime, StartReading
  <2>2. CASE ExecuteReplay
    BY <1>1, <1>2, <2>2 DEF ExecuteReplay, displayVars
  <2>3. CASE ExecuteClear
    BY <2>3 DEF ExecuteClear
  <2> QED
    BY <1>1, <1>2, <1>3, <2>1, <2>2, <2>3
    DEF Execute, ExecuteSwitchMode, ExecuteUnknownMode, ExecuteQueryMode,
        ExecuteCustom, ExecuteUnknown, ShowMode
<1>4. CASE TurnPage
  BY <1>4 DEF TurnPage, AdvanceReading
<1>5. CASE PageTurns
  BY <1>5 DEF PageTurns
<1>6. CASE SequenceEnds
  BY <1>6 DEF SequenceEnds
<1> QED
  BY <1>1, <1>2, <1>3, <1>4, <1>5, <1>6
  DEF Next, UserStep, Timeouts, KeyDown, AddChord, AddKriya, ClickMode, ShowMode,
      TimerFires, Tick, vars

LEMMA InitType == Init => TypeOK
<1> USE KayaAssumption DEF Init
<1>1. Init => ModeOK
  BY DEF ModeOK, Modes
<1>2. Init => InputOK
  BY DEF InputOK, AutoCancel
<1>3. 0 \in 0 .. MaxTurning /\ 0 \in 0 .. MaxChains
  OBVIOUS
<1>4. Init => ReadingOK
  <2>1. Init => readingQueue \in Seq(1 .. 3)
    OBVIOUS
  <2> QED
    BY <1>3, <2>1, Zenon DEF ReadingOK
<1>5. Init => DisplayOK
  BY <1>3, Zenon DEF DisplayOK
<1> QED
  BY <1>1, <1>2, <1>4, <1>5 DEF TypeOK

LEMMA TypeStep ==
  ASSUME TypeOK, [Next]_vars
  PROVE  TypeOK'
BY ModeStep, InputTypeStep, ReadingStep, DisplayStep DEF TypeOK

\* Every variable keeps its type and bound.
THEOREM KayaTypes == FairSpec => []TypeOK
BY InitType, TypeStep, PTL DEF FairSpec

------------------------------------------------------------------------------
(***************************************************************************)
(* Input and reading                                                       *)
(***************************************************************************)

\* A page is turned by a space that clears both timers: that leaves nothing
\* pending without a timer only because nothing is held while pages are read.
InputInv == InputOK /\ ReadingHoldsNothing /\ CancelIsDue

LEMMA HoldsNothingStep ==
  ASSUME ReadingHoldsNothing, [Next]_vars
  PROVE  ReadingHoldsNothing'
<1> USE DEF ReadingHoldsNothing
<1>1. CASE chordBuffer' \in {chordBuffer, <<>>} /\ isReading' = isReading
  BY <1>1
<1>2. CASE TurnPage
  BY <1>2 DEF TurnPage, AdvanceReading
<1>3. CASE AddChord
  <2>1. isReading' = FALSE \/ (~ isReading /\ isReading' = isReading)
    BY <1>3 DEF AddChord, CancelReading, readingVars
  <2> QED
    BY <2>1
<1>4. CASE Execute
  BY <1>4, ExecuteClears
<1> QED
  BY <1>1, <1>2, <1>3, <1>4
  DEF Next, UserStep, Timeouts, KeyDown, AddKriya, ClickMode, PageTurns,
      TimerFires, ResetInput, SequenceEnds, Tick, vars, inputVars, readingVars

LEMMA CancelStep ==
  ASSUME InputInv, [Next]_vars
  PROVE  CancelIsDue'
<1> USE KayaAssumption DEF CancelIsDue, Pending, AutoCancel
<1>1. CASE UNCHANGED <<inputVars, quiet>>
  BY <1>1 DEF inputVars, InputInv
<1>2. CASE chordBuffer' = <<>> /\ currentChord' = {}
  BY <1>2
<1>3. ASSUME NEW k \in UNION Chords, KeyDown(k)
      PROVE  CancelIsDue'
  <2>1. chordTimer' = 2 /\ quiet' = 0
    BY <1>3 DEF KeyDown
  <2>2. chordTimer' \in {cancelTimer', chordTimer'} \ {None}
    BY <2>1
  <2> QED
    BY <2>1, <2>2
<1>4. CASE TurnPage
  BY <1>2, <1>4 DEF TurnPage, InputInv, ReadingHoldsNothing
<1>5. CASE AddChord
  <2>1. cancelTimer' = 2 /\ quiet' = 0
    BY <1>5 DEF AddChord
  <2>2. cancelTimer' \in {cancelTimer', chordTimer'} \ {None}
    BY <2>1
  <2> QED
    BY <2>1, <2>2
<1>6. CASE Execute
  BY <1>2, <1>6, ExecuteClears
<1>7. CASE TimerFires
  BY <1>2, <1>7 DEF TimerFires, ResetInput
<1>8. CASE Tick
  <2>1. SUFFICES ASSUME Pending
                 PROVE  \E t \in {cancelTimer', chordTimer'} \ {None} : t <= 2 - quiet'
    BY <1>8 DEF Tick
  <2>2. PICK t \in {cancelTimer, chordTimer} \ {None} : t <= 2 - quiet
    BY <2>1 DEF InputInv
  <2>3. t \in 1 .. 2 /\ quiet \in 0 .. 1 /\ quiet' = quiet + 1
    BY <1>8, <2>2 DEF Tick, InputInv, InputOK
  <2>4. t - 1 \in {cancelTimer', chordTimer'}
    BY <1>8, <2>2 DEF Tick, Left
  <2>5. t - 1 \in Nat /\ t - 1 <= 2 - quiet'
    BY <2>2, <2>3
  <2> QED
    BY <2>4, <2>5
<1> QED
  BY <1>1, <1>3, <1>4, <1>5, <1>6, <1>7, <1>8
  DEF Next, UserStep, Timeouts, AddKriya, ClickMode, PageTurns, SequenceEnds, vars

\* The invariant that carries both is inductive.
LEMMA KayaInputInv == FairSpec => []InputInv
<1>1. Init => InputInv
  <2>1. Init => InputOK
    BY InitType DEF TypeOK
  <2> QED
    BY <2>1 DEF Init, InputInv, ReadingHoldsNothing, CancelIsDue, Pending
<1>2. InputInv /\ [Next]_vars => InputInv'
  BY InputTypeStep, HoldsNothingStep, CancelStep DEF InputInv
<1> QED
  BY <1>1, <1>2, PTL DEF FairSpec

\* Input that is pending is always cancelled in time: over any sequence of
\* keys, pages, kriyas and clicks, some timer that runs is due within 2 seconds
\* of the last key.
THEOREM KayaCancels == FairSpec => []CancelIsDue
<1>1. InputInv => CancelIsDue
  BY DEF InputInv
<1> QED
  BY <1>1, KayaInputInv, PTL

\* Nothing is entered while pages are read: no chord, sequence or letter is
\* pending when a key turns the page, and none is when the last page is turned.
THEOREM KayaReading == FairSpec => []ReadingHoldsNothing
<1>1. InputInv => ReadingHoldsNothing
  BY DEF InputInv
<1> QED
  BY <1>1, KayaInputInv, PTL

------------------------------------------------------------------------------
(***************************************************************************)
(* The indicator                                                           *)
(***************************************************************************)

LEMMA MoreStep ==
  ASSUME ReadingOK, MoreIsTrue, [Next]_vars
  PROVE  MoreIsTrue'
<1> USE KayaAssumption DEF ReadingOK, MoreIsTrue
<1>1. CASE UNCHANGED readingVars
  BY <1>1 DEF readingVars
<1>2. CASE TurnPage
  <2>1. CASE readingQueue = <<>>
    BY <1>2, <2>1 DEF TurnPage, AdvanceReading
  <2>2. CASE readingQueue # <<>>
    BY <1>2, <2>2 DEF TurnPage, AdvanceReading
  <2> QED
    BY <2>1, <2>2
<1>3. CASE AddChord
  BY <1>1, <1>3 DEF AddChord, CancelReading
<1>4. CASE Execute
  <2>1. CASE ExecuteGetTime
    <3>1. turning' = turning + 1 /\ more' = more
      BY <2>1 DEF ExecuteGetTime, StartReading
    <3>2. ~ more
      BY <1>4, ExecuteClears
    <3> QED
      BY <3>1, <3>2
  <2> QED
    BY <1>1, <1>4, <2>1, ExecuteReads DEF readingVars
<1>5. CASE PageTurns
  <2>1. isReading' = isReading
    BY <1>5 DEF PageTurns
  <2>2. CASE readingQueue # <<>>
    <3>1. isReading /\ (more' <=> Len(readingQueue) > 1) /\ readingQueue' = Tail(readingQueue)
      BY <1>5, <2>2 DEF PageTurns
    <3>2. Tail(readingQueue) # <<>> <=> Len(readingQueue) > 1
      <4>1. Len(Tail(readingQueue)) = Len(readingQueue) - 1
        BY <2>2
      <4>2. Tail(readingQueue) \in Seq(1 .. 3) /\ Len(readingQueue) \in Nat
        BY <2>2
      <4>3. \A pages \in Seq(1 .. 3) : pages # <<>> <=> Len(pages) > 0
        BY EmptySeq
      <4>4. Tail(readingQueue) # <<>> <=> Len(Tail(readingQueue)) > 0
        BY <4>2, <4>3, Zenon
      <4> QED
        BY <4>1, <4>2, <4>4
    <3>3. more' \in BOOLEAN
      BY <1>5, <2>2 DEF PageTurns
    <3> QED
      BY <2>1, <3>1, <3>2, <3>3
  <2>3. CASE readingQueue = <<>>
    BY <1>5, <2>1, <2>3 DEF PageTurns
  <2> QED
    BY <2>2, <2>3
<1> QED
  BY <1>1, <1>2, <1>3, <1>4, <1>5
  DEF Next, UserStep, Timeouts, KeyDown, AddKriya, ClickMode, TimerFires,
      SequenceEnds, Tick, vars

\* The indicator tells the truth whenever no page is turning, although a
\* timeout may find that its page is gone.
THEOREM KayaMore == FairSpec => []MoreIsTrue
<1>1. Init => ReadingOK /\ MoreIsTrue
  BY InitType DEF TypeOK, Init, MoreIsTrue
<1>2. ReadingOK /\ MoreIsTrue /\ [Next]_vars => ReadingOK' /\ MoreIsTrue'
  BY ReadingStep, MoreStep
<1> QED
  BY <1>1, <1>2, PTL DEF FairSpec

==============================================================================
