----------------------------- MODULE FrameStream -----------------------------
(***************************************************************************)
(* One direction of a connection: frames written to a byte stream and read *)
(* from it (Frame and async_io in bhumi-proto/src/lib.rs), by one of three *)
(* readers:                                                                *)
(*                                                                         *)
(*   "node"      waits for the next frame and for nothing else             *)
(*               (bhumi-node/src/connection.rs);                           *)
(*   "relay"     waits for the next frame or for a delivery to write,      *)
(*               whichever comes first (bhumi-relay/src/session.rs);       *)
(*   "firmware"  waits 500 ms at a time                                    *)
(*               (examples/esp32-smart-switch/src/main.rs).                *)
(*                                                                         *)
(* read_exact keeps what it has read of a frame in the read itself: a read *)
(* that is given up in the middle of a frame takes those bytes with it.    *)
(*                                                                         *)
(* A field of the header is one cell of the stream and so is a unit of the *)
(* payload, whose content may look like any field.                         *)
(***************************************************************************)
EXTENDS Naturals, Sequences, SequencesExt

CONSTANTS
  Readers,      \* the kinds of reader: "node", "relay", "firmware"
  Types,        \* message types that are sent, those the reader handles
  PayloadCells, \* what a unit of a payload may be read as
  MinLen,       \* shortest payload that is a message (from_bytes)
  MaxLen,       \* longest payload a reader takes (1 MiB in the code)
  MaxFrames     \* bound of the model: frames written

ASSUME FrameStreamAssumption ==
  /\ Readers \subseteq {"node", "relay", "firmware"}
  /\ Types \subseteq Nat /\ PayloadCells \subseteq Nat
  /\ MinLen \in Nat /\ MaxLen \in Nat /\ MaxFrames \in Nat

VARIABLES
  reader,     \* who reads
  sent,       \* the frames whose writing has begun
  unwritten,  \* cells of the last of them that are not written yet
  wire,       \* cells written and not read
  got,        \* cells the pending read has taken from the stream
  received,   \* frames the reader has handled
  status,     \* "open", "ended": the writer is gone, "closed": so is the reader
  cut         \* a read was given up in the middle of a frame (history)

vars == <<reader, sent, unwritten, wire, got, received, status, cut>>

------------------------------------------------------------------------------
Frame(type, payload) == [msg_type |-> type, payload |-> payload]

Frames ==
  {Frame(t, p) : t \in Types,
                 p \in UNION {[1 .. n -> PayloadCells] : n \in MinLen .. MaxLen + 1}}

\* write_to and write_frame
Bytes(f) == <<f.msg_type, Len(f.payload)>> \o f.payload

\* Fault: one unit too many is taken.
TooLarge_off(cells) == Len(cells) = 2 /\ cells[2] > MaxLen + 1

\* "frame too large"
TooLarge(cells) == Len(cells) = 2 /\ cells[2] > MaxLen

\* Fault: the length is taken to count the header's last field.
FrameRead_off(cells) == Len(cells) >= 2 /\ Len(cells) = 1 + cells[2]

FrameRead(cells) == Len(cells) >= 2 /\ Len(cells) = 2 + cells[2]

ToFrame(cells) == Frame(cells[1], SubSeq(cells, 3, Len(cells)))

\* A message of a type the reader handles that its from_bytes takes.
Decodes(f) == f.msg_type \in Types /\ Len(f.payload) >= MinLen

Init ==
  /\ reader \in Readers
  /\ sent = <<>> /\ unwritten = <<>>
  /\ wire = <<>> /\ got = <<>>
  /\ received = <<>>
  /\ status = "open"
  /\ cut = FALSE

------------------------------------------------------------------------------
(***************************************************************************)
(* The writer                                                              *)
(***************************************************************************)

\* One task writes one frame after the other.
BeginFrame(f) ==
  /\ status = "open" /\ unwritten = <<>>
  /\ Len(sent) < MaxFrames
  /\ sent' = Append(sent, f)
  /\ unwritten' = Bytes(f)
  /\ UNCHANGED <<reader, wire, got, received, status, cut>>

\* write_all gets on: the fields of a frame are written by separate calls, and
\* the stream carries them in pieces of any size.
WriteCell ==
  /\ status = "open" /\ unwritten # <<>>
  /\ wire' = Append(wire, Head(unwritten))
  /\ unwritten' = Tail(unwritten)
  /\ UNCHANGED <<reader, sent, got, received, status, cut>>

\* The writer ends, in the middle of a frame or not; what it wrote arrives.
WriterEnds ==
  /\ status = "open"
  /\ status' = "ended"
  /\ unwritten' = <<>>
  /\ UNCHANGED <<reader, sent, wire, got, received, cut>>

------------------------------------------------------------------------------
(***************************************************************************)
(* The reader                                                              *)
(***************************************************************************)

\* read_exact takes what there is.
ReadCell ==
  /\ status # "closed" /\ wire # <<>>
  /\ ~ FrameRead(got) /\ ~ TooLarge(got)
  /\ got' = Append(got, Head(wire))
  /\ wire' = Tail(wire)
  /\ UNCHANGED <<reader, sent, unwritten, received, status, cut>>

\* The frame is complete and handled.  One that does not decode closes the
\* connection, but the relay passes over a frame of a type it does not know.
HandleFrame ==
  LET f == ToFrame(got) IN
  /\ status # "closed" /\ FrameRead(got) /\ ~ TooLarge(got)
  /\ got' = <<>>
  /\ IF Decodes(f) \/ (reader = "relay" /\ f.msg_type \notin Types)
       THEN received' = Append(received, f) /\ UNCHANGED status
       ELSE status' = "closed" /\ UNCHANGED received
  /\ UNCHANGED <<reader, sent, unwritten, wire, cut>>

\* Fault: the end of the stream is taken for a pause.
CloseOnError_noEof ==
  /\ status # "closed" /\ TooLarge(got)
  /\ status' = "closed"
  /\ UNCHANGED <<reader, sent, unwritten, wire, got, received, cut>>

\* The frame is too large, or the end of the stream: the connection is closed.
CloseOnError ==
  /\ status # "closed"
  /\ \/ TooLarge(got)
     \/ status = "ended" /\ wire = <<>> /\ ~ FrameRead(got)
  /\ status' = "closed"
  /\ UNCHANGED <<reader, sent, unwritten, wire, got, received, cut>>

GiveUp ==
  /\ status # "closed" /\ ~ FrameRead(got) /\ ~ TooLarge(got)
  /\ got' = <<>>
  /\ cut' = (cut \/ got # <<>>)
  /\ UNCHANGED <<reader, sent, unwritten, wire, received, status>>

\* select!: a delivery is ready first, and read_frame is dropped.
DropRead == reader = "relay" /\ GiveUp

\* No cell for 500 ms: WouldBlock or TimedOut, and the loop goes on.
TimeOutRead == reader = "firmware" /\ status = "open" /\ wire = <<>> /\ GiveUp

------------------------------------------------------------------------------
Next ==
  \/ \E f \in Frames : BeginFrame(f)
  \/ WriteCell \/ WriterEnds
  \/ ReadCell \/ HandleFrame \/ CloseOnError
  \/ DropRead \/ TimeOutRead

Spec == Init /\ [][Next]_vars

\* The writer goes on with a frame it has begun, the reader reads.
FairSpec ==
  Spec /\ WF_vars(WriteCell) /\ WF_vars(ReadCell \/ HandleFrame \/ CloseOnError)

------------------------------------------------------------------------------
(***************************************************************************)
(* Properties                                                              *)
(***************************************************************************)

TypeOK ==
  /\ reader \in Readers /\ status \in {"open", "ended", "closed"}
  /\ sent \in Seq(Frames) /\ Len(sent) <= MaxFrames
  /\ unwritten \in Seq(Nat) /\ wire \in Seq(Nat) /\ got \in Seq(Nat)
  /\ received \in Seq([msg_type : Nat, payload : Seq(Nat)])
  /\ \A i \in DOMAIN received : Len(received[i].payload) <= MaxLen
  /\ cut \in BOOLEAN

\* Unless a read was given up in the middle of a frame, the frames that are
\* handled are those that were written, in their order and with their payload,
\* however the stream cuts them, whatever a payload looks like, whether reads
\* are given up between frames and wherever the writer ends.
FramesIntact == ~ cut => IsPrefix(received, sent)

\* A frame that was begun is handled, or the connection is closed, as long as
\* no read is given up in the middle of a frame.
FramesArrive ==
  \A n \in 1 .. MaxFrames :
    Len(sent) >= n ~> Len(received) >= n \/ status = "closed" \/ cut

\* The same as FramesIntact without the exception: a reader that finds itself
\* in the middle of a frame closes the connection.
MalformedCloses == IsPrefix(received, sent)

==============================================================================
