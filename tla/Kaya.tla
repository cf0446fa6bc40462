--------------------------------- MODULE Kaya ---------------------------------
(***************************************************************************)
(* The chord keyboard with a Braille cell (bhumi-kaya/kaya.js): chords end *)
(* with a space, a space without a chord executes what was entered, input  *)
(* that stays pending is cancelled by timers, and an answer of several     *)
(* pages is read page by page.                                             *)
(*                                                                         *)
(* Handlers and timeouts run one at a time; they interleave as time        *)
(* allows.  A second is the unit of time; a page takes less than one to    *)
(* turn.  pressedKeys only filters the repetitions of a key that is held,  *)
(* and is left out.  A pattern is blank, a signal or a page, and a         *)
(* sequence of patterns is one signal and the blank that ends it.          *)
(***************************************************************************)
EXTENDS Integers, Sequences, FiniteSets

CONSTANTS
  Chords,     \* the chords a user enters
  NewKriyas,  \* sequences of chords a user may define a kriya for
  None,
  \* bounds of the model
  MaxChords,  \* chords entered before an execution
  MaxChains,  \* sequences of patterns being shown
  MaxTurning  \* pages being turned

ASSUME KayaAssumption ==
  /\ Chords \subseteq (SUBSET (1 .. 4)) \ {{}}
  /\ MaxChords \in Nat /\ MaxChains \in Nat \ {0} /\ MaxTurning \in Nat
  /\ None \notin Nat

VARIABLES
  mode,          \* currentMode
  kriyas,        \* of each mode, those the user has defined
  chordBuffer, currentChord,
  cancelTimer, chordTimer,   \* seconds left, or None
  readingQueue, isReading,
  turning,       \* timeouts of advanceReading that are pending
  more,          \* is the indicator shown
  shown,         \* what the cell shows
  chains,        \* sequences being shown
  recorded,      \* is there a lastPratyayaSequence
  quiet,         \* seconds since the last key
  missed         \* a page was turned that did not exist (history)

inputVars   == <<chordBuffer, currentChord, cancelTimer, chordTimer>>
readingVars == <<readingQueue, isReading, turning, more>>
displayVars == <<shown, chains, recorded>>
modeVars    == <<mode, kriyas>>
vars == <<modeVars, inputVars, readingVars, displayVars, quiet, missed>>

------------------------------------------------------------------------------
AutoCancel == 2
Modes == {{1}, {1, 2}}
QueryMode == <<{1, 4}>>

GlobalKriyas ==
  {QueryMode, << >>, <<{1, 2, 3, 4}>>, <<{1, 3}>>}

\* 14_<mode>: anything that begins with the chord 14 and goes on.
IsModeSwitch(code) == Len(code) > 1 /\ code[1] = {1, 4}

Init ==
  /\ mode = {1} /\ kriyas = [m \in Modes |-> {}]
  /\ chordBuffer = <<>> /\ currentChord = {}
  /\ cancelTimer = None /\ chordTimer = None
  /\ readingQueue = <<>> /\ isReading = FALSE /\ turning = 0 /\ more = FALSE
  /\ shown = "blank" /\ chains = 0 /\ recorded = FALSE
  /\ quiet = 0 /\ missed = FALSE

------------------------------------------------------------------------------
(***************************************************************************)
(* Display and reading                                                     *)
(***************************************************************************)

\* showBrailleSequence
ShowSequence ==
  /\ chains < MaxChains
  /\ chains' = chains + 1
  /\ shown' = "signal"

SequenceEnds ==
  /\ chains > 0
  /\ chains' = chains - 1
  /\ shown' = "blank"
  /\ UNCHANGED <<modeVars, inputVars, readingVars, recorded, quiet, missed>>

\* startReading, which turns the first page.
StartReading(pages) ==
  /\ recorded' = TRUE
  /\ readingQueue' = pages
  /\ isReading' = TRUE
  /\ turning < MaxTurning /\ turning' = turning + 1
  /\ shown' = "blank"

AdvanceReading ==
  IF readingQueue = <<>>
    THEN /\ isReading' = FALSE /\ more' = FALSE /\ shown' = "blank"
         /\ UNCHANGED <<readingQueue, turning>>
    ELSE /\ turning < MaxTurning /\ turning' = turning + 1 /\ shown' = "blank"
         /\ UNCHANGED <<readingQueue, isReading, more>>

\* Fault: only the mode is left.
CancelReading_modeOnly ==
  /\ isReading' = FALSE
  /\ UNCHANGED <<readingQueue, turning, more>>

CancelReading ==
  /\ readingQueue' = <<>> /\ isReading' = FALSE /\ more' = FALSE
  /\ UNCHANGED turning

\* The timeout of advanceReading.  It takes a page whatever has become of the
\* queue, and shift() of an empty one ends in a TypeError.
PageTurns ==
  /\ turning > 0
  /\ turning' = turning - 1
  /\ IF readingQueue # <<>>
       THEN /\ readingQueue' = Tail(readingQueue)
            /\ shown' = "page"
            /\ more' = (Len(readingQueue) > 1)
            /\ UNCHANGED missed
       ELSE /\ missed' = TRUE
            /\ UNCHANGED <<readingQueue, shown, more>>
  /\ UNCHANGED <<modeVars, inputVars, isReading, chains, recorded, quiet>>

------------------------------------------------------------------------------
(***************************************************************************)
(* Input                                                                   *)
(***************************************************************************)

ResetInput ==
  /\ cancelTimer' = None /\ chordTimer' = None
  /\ chordBuffer' = <<>> /\ currentChord' = {}

\* Fault: the first key of a chord starts no timer.
KeyDown_untimed(k) ==
  /\ currentChord' = currentChord \cup {k}
  /\ chordTimer' = IF currentChord = {} THEN chordTimer ELSE AutoCancel
  /\ quiet' = 0
  /\ UNCHANGED <<modeVars, chordBuffer, cancelTimer, readingVars, displayVars, missed>>

\* keydown of a chord key: startChordTimer leaves cancelTimer alone.
KeyDown(k) ==
  /\ currentChord' = currentChord \cup {k}
  /\ chordTimer' = AutoCancel
  /\ quiet' = 0
  /\ UNCHANGED <<modeVars, chordBuffer, cancelTimer, readingVars, displayVars, missed>>

\* keyup of the space bar: processSpace, in its three cases.
TurnPage ==
  /\ isReading /\ currentChord = {}
  /\ cancelTimer' = None /\ chordTimer' = None
  /\ AdvanceReading
  /\ quiet' = 0
  /\ UNCHANGED <<modeVars, chordBuffer, currentChord, chains, recorded, missed>>

\* Faults: reading goes on; only the first chord starts the timer.
AddChord_readsOn ==
  /\ currentChord \in Chords /\ Len(chordBuffer) < MaxChords
  /\ chordBuffer' = Append(chordBuffer, currentChord)
  /\ currentChord' = {}
  /\ cancelTimer' = AutoCancel /\ chordTimer' = None
  /\ quiet' = 0
  /\ UNCHANGED <<modeVars, readingVars, displayVars, missed>>

AddChord_timedOnce ==
  /\ currentChord \in Chords /\ Len(chordBuffer) < MaxChords
  /\ IF isReading THEN CancelReading ELSE UNCHANGED readingVars
  /\ chordBuffer' = Append(chordBuffer, currentChord)
  /\ currentChord' = {}
  /\ cancelTimer' = IF chordBuffer = <<>> THEN AutoCancel ELSE None
  /\ chordTimer' = None
  /\ quiet' = 0
  /\ UNCHANGED <<modeVars, displayVars, missed>>

AddChord ==
  /\ currentChord \in Chords /\ Len(chordBuffer) < MaxChords
  /\ IF isReading THEN CancelReading ELSE UNCHANGED readingVars
  /\ chordBuffer' = Append(chordBuffer, currentChord)
  /\ currentChord' = {}
  /\ cancelTimer' = AutoCancel /\ chordTimer' = None
  /\ quiet' = 0
  /\ UNCHANGED <<modeVars, displayVars, missed>>

\* A space without a chord executes the buffer: executeKriya and resetInput.
Executes(code) ==
  /\ currentChord = {} /\ ~ isReading
  /\ chordBuffer = code
  /\ ResetInput
  /\ quiet' = 0
  /\ UNCHANGED missed

ShowMode == ShowSequence /\ recorded' = TRUE

ExecuteSwitchMode ==
  \E m \in Modes :
    /\ Executes(<<{1, 4}, m>>)
    /\ mode' = m
    /\ ShowMode
    /\ UNCHANGED <<kriyas, readingVars>>

ExecuteUnknownMode ==
  /\ Executes(chordBuffer) /\ IsModeSwitch(chordBuffer)
  /\ chordBuffer \notin {<<{1, 4}, m>> : m \in Modes}
  /\ ShowSequence /\ recorded' = TRUE
  /\ UNCHANGED <<modeVars, readingVars>>

ExecuteQueryMode ==
  /\ Executes(QueryMode)
  /\ ShowMode
  /\ UNCHANGED <<modeVars, readingVars>>

ExecuteReplay ==
  /\ Executes(<< >>)
  /\ IF recorded THEN ShowSequence
                 ELSE UNCHANGED <<shown, chains>>
  /\ UNCHANGED <<modeVars, readingVars, recorded>>

ExecuteClear ==
  /\ Executes(<<{1, 2, 3, 4}>>)
  /\ shown' = "blank"
  /\ UNCHANGED <<modeVars, readingVars, chains, recorded>>

\* The hour and the minutes take two pages or three.
ExecuteGetTime ==
  /\ Executes(<<{1, 3}>>)
  /\ \E n \in 2 .. 3 : StartReading([i \in 1 .. n |-> i])
  /\ UNCHANGED <<modeVars, more, chains>>

\* A kriya the user defined only shows its name.
ExecuteCustom ==
  /\ Executes(chordBuffer)
  /\ chordBuffer \in kriyas[mode]
  /\ ~ IsModeSwitch(chordBuffer) /\ chordBuffer \notin GlobalKriyas
  /\ UNCHANGED <<modeVars, readingVars, displayVars>>

ExecuteUnknown ==
  /\ Executes(chordBuffer)
  /\ ~ IsModeSwitch(chordBuffer)
  /\ chordBuffer \notin GlobalKriyas \cup kriyas[mode]
  /\ ShowSequence /\ recorded' = TRUE
  /\ UNCHANGED <<modeVars, readingVars>>

\* promptAddKriya
AddKriya(code) ==
  /\ code \notin GlobalKriyas \cup kriyas[mode]
  /\ kriyas' = [kriyas EXCEPT ![mode] = @ \cup {code}]
  /\ UNCHANGED <<mode, inputVars, readingVars, displayVars, quiet, missed>>

\* A click on the tab of a mode, at any time.
ClickMode(m) ==
  /\ mode' = m
  /\ ShowMode
  /\ UNCHANGED <<kriyas, inputVars, readingVars, quiet, missed>>

------------------------------------------------------------------------------
(***************************************************************************)
(* Time                                                                    *)
(***************************************************************************)

Left(timer) == IF timer = None THEN None ELSE timer - 1

\* A second passes; nothing that is due stays behind.
Tick ==
  /\ turning = 0 /\ 0 \notin {cancelTimer, chordTimer}
  /\ cancelTimer' = Left(cancelTimer)
  /\ chordTimer' = Left(chordTimer)
  /\ quiet' = IF quiet < AutoCancel THEN quiet + 1 ELSE quiet
  /\ UNCHANGED <<modeVars, chordBuffer, currentChord, readingVars, displayVars, missed>>

\* Either timer cancels all input.
TimerFires ==
  /\ 0 \in {cancelTimer, chordTimer}
  /\ ResetInput
  /\ ShowSequence
  /\ UNCHANGED <<modeVars, readingVars, recorded, quiet, missed>>

------------------------------------------------------------------------------
(***************************************************************************)
(* The specification                                                       *)
(***************************************************************************)

Execute ==
  \/ ExecuteSwitchMode \/ ExecuteUnknownMode \/ ExecuteQueryMode \/ ExecuteReplay
  \/ ExecuteClear \/ ExecuteGetTime \/ ExecuteCustom \/ ExecuteUnknown

UserStep ==
  \/ \E k \in UNION Chords : KeyDown(k)
  \/ TurnPage \/ AddChord \/ Execute
  \/ \E code \in NewKriyas : AddKriya(code)
  \/ \E m \in Modes : ClickMode(m)

Timeouts == TimerFires \/ PageTurns \/ SequenceEnds

Next == UserStep \/ Timeouts \/ Tick

\* Time passes, and the browser runs what is due.
FairSpec ==
  /\ Init /\ [][Next]_vars
  /\ WF_vars(Tick) /\ WF_vars(TimerFires) /\ WF_vars(PageTurns)
  /\ WF_vars(SequenceEnds)

------------------------------------------------------------------------------
(***************************************************************************)
(* Properties                                                              *)
(***************************************************************************)

ModeOK == mode \in Modes /\ kriyas \in [Modes -> SUBSET NewKriyas]

InputOK ==
  /\ chordBuffer \in Seq(Chords) /\ Len(chordBuffer) <= MaxChords
  /\ currentChord \subseteq 1 .. 4
  /\ cancelTimer \in 0 .. AutoCancel \cup {None}
  /\ chordTimer \in 0 .. AutoCancel \cup {None}
  /\ quiet \in 0 .. AutoCancel

ReadingOK ==
  /\ readingQueue \in Seq(1 .. 3) /\ isReading \in BOOLEAN
  /\ ~ isReading => readingQueue = <<>>
  /\ turning \in 0 .. MaxTurning
  /\ more \in BOOLEAN /\ missed \in BOOLEAN

DisplayOK ==
  /\ shown \in {"blank", "signal", "page"}
  /\ chains \in 0 .. MaxChains
  /\ recorded \in BOOLEAN

\* Every variable has its type; pages wait to be read only in reading mode.
TypeOK == ModeOK /\ InputOK /\ ReadingOK /\ DisplayOK

Pending == chordBuffer # <<>> \/ currentChord # {}

\* Input that is pending is cancelled after 2 seconds without a key, if not
\* before, whichever handlers have cleared and started timers meanwhile.
CancelIsDue ==
  Pending => \E t \in {cancelTimer, chordTimer} \ {None} : t <= AutoCancel - quiet

\* While pages are read nothing is entered, so that a space that turns a page
\* does not hold back a sequence that waits to be executed.
ReadingHoldsNothing == isReading => chordBuffer = <<>>

\* The indicator is on when there are pages after the one that is shown, and
\* not otherwise.
MoreIsTrue ==
  /\ more => isReading /\ readingQueue # <<>>
  /\ isReading /\ turning = 0 => more = (readingQueue # <<>>)

\* When its user leaves it alone, the keyboard comes to rest: nothing is
\* pending and nothing changes on the cell.
ComesToRest ==
  <>[][~ UserStep]_vars => <>[](~ Pending /\ turning = 0 /\ chains = 0)

------------------------------------------------------------------------------
(***************************************************************************)
(* What the documents say and the code does not do                         *)
(***************************************************************************)

\* "Auto-cancel: 2 seconds of no input".  The timer of the last chord goes on
\* while the next is being pressed.
CancelledInQuiet == [][TimerFires => quiet = AutoCancel]_vars

\* "Space: advances to next pratyaya".  A second space before the page has
\* turned, or a chord, takes a page that is not there.
NoPageMissing == ~ missed

\* A page that was turned stays on the cell until the next is: "user-paced
\* consumption".  A sequence that is still being shown overwrites it.
PageStays ==
  [][isReading /\ shown = "page" /\ shown' # "page" => TurnPage \/ ~ isReading']_vars

\* A sequence for which a kriya was added executes it: 'Chord sequence (e.g.,
\* "1", "12", "14_1")'.  What begins with 14_ is taken for a switch of mode.
KriyaIsExecuted ==
  [][Execute /\ chordBuffer \in kriyas[mode] => ExecuteCustom]_vars

==============================================================================
