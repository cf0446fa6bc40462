-------------------------- MODULE FrameStreamProofs --------------------------
(***************************************************************************)
(* Theorems about FrameStream: whatever the frames, their number and their *)
(* payloads are, and whoever reads them.                                   *)
(***************************************************************************)
EXTENDS FrameStream, SequenceTheorems, TLAPS

(***************************************************************************)
(* Types                                                                   *)
(***************************************************************************)

\* A frame that is written is a message type and a payload of the right length.
LEMMA FrameFacts ==
  ASSUME NEW f \in Frames
  PROVE  /\ f.msg_type \in Types /\ f.msg_type \in Nat
         /\ f.payload \in Seq(Nat) /\ Len(f.payload) >= MinLen
         /\ f = Frame(f.msg_type, f.payload)
         /\ Bytes(f) \in Seq(Nat) /\ Len(Bytes(f)) = 2 + Len(f.payload)
         /\ Bytes(f)[1] = f.msg_type /\ Bytes(f)[2] = Len(f.payload)
         /\ \A j \in 1 .. Len(f.payload) : Bytes(f)[2 + j] = f.payload[j]
<1>1. PICK t, n, p : /\ t \in Types /\ n \in MinLen .. MaxLen + 1 /\ p \in [1 .. n -> PayloadCells]
                     /\ f = Frame(t, p)
  BY DEF Frames
<1>2. n \in Nat /\ n >= MinLen /\ p \in Seq(Nat) /\ Len(p) = n
  <2>1. n \in Nat /\ n >= MinLen
    BY <1>1, FrameStreamAssumption
  <2>2. p \in [1 .. n -> Nat]
    BY <1>1, FrameStreamAssumption
  <2> QED
    BY <2>1, <2>2
<1>3. f.msg_type = t /\ f.payload = p /\ t \in Nat
  BY <1>1, FrameStreamAssumption DEF Frame
<1>4. Bytes(f) = <<t, Len(p)>> \o p
  BY <1>3 DEF Bytes
<1>5. /\ Bytes(f) \in Seq(Nat) /\ Len(Bytes(f)) = 2 + Len(p)
      /\ Bytes(f)[1] = t /\ Bytes(f)[2] = Len(p)
      /\ \A j \in 1 .. Len(p) : Bytes(f)[2 + j] = p[j]
  <2>1. <<t, Len(p)>> \in Seq(Nat) /\ Len(<<t, Len(p)>>) = 2
    BY <1>2, <1>3
  <2> QED
    BY <1>2, <1>3, <1>4, <2>1
<1> QED
  BY <1>1, <1>2, <1>3, <1>5

\* A read goes on only while the length it has read is one that is taken.
GotOK == Len(got) > 2 => got[2] <= MaxLen /\ Len(got) <= 2 + got[2]

StreamTypeInv == TypeOK /\ GotOK

LEMMA LengthFacts ==
  ASSUME got \in Seq(Nat), GotOK, Len(got) >= 2, ~ TooLarge(got)
  PROVE  got[2] <= MaxLen /\ (FrameRead(got) \/ Len(got) + 1 <= 2 + got[2])
<1>1. PICK n, len : n = Len(got) /\ len = got[2]
  OBVIOUS
<1>2. n \in Nat /\ len \in Nat /\ n >= 2
  BY <1>1
<1>3. /\ n > 2 => len <= MaxLen /\ n <= 2 + len
      /\ ~ (n = 2 /\ len > MaxLen)
      /\ FrameRead(got) <=> n >= 2 /\ n = 2 + len
  BY <1>1 DEF GotOK, TooLarge, FrameRead
<1>4. len <= MaxLen /\ n <= 2 + len
  BY <1>2, <1>3, FrameStreamAssumption
<1> QED
  BY <1>1, <1>2, <1>3, <1>4

\* The frame that has been read.
LEMMA ReadFacts ==
  ASSUME NEW g \in Seq(Nat), FrameRead(g), NEW f, f = ToFrame(g)
  PROVE  /\ Len(g) >= 2 /\ f.msg_type = g[1] /\ g[1] \in Nat
         /\ f.payload \in Seq(Nat) /\ Len(f.payload) = g[2]
         /\ \A j \in 1 .. g[2] : f.payload[j] = g[2 + j]
         /\ f \in [msg_type : Nat, payload : Seq(Nat)]
<1>1. PICK n, len : n = Len(g) /\ len = g[2]
  OBVIOUS
<1>2. n \in Nat /\ n >= 2 /\ n = 2 + len
  BY <1>1 DEF FrameRead
<1>3. len \in Nat /\ g[1] \in Nat /\ \A i \in 3 .. n : g[i] \in Nat
  <2>1. n \in Nat /\ n >= 2
    BY <1>2
  <2> QED
    BY <1>1, <2>1
<1>4. PICK p : p = SubSeq(g, 3, n)
  OBVIOUS
<1>5. 3 \in Int /\ n \in Int
  BY <1>2
<1>6. /\ p \in Seq(Nat) /\ Len(p) = IF 3 <= n THEN n - 3 + 1 ELSE 0
      /\ \A i \in 1 .. n - 3 + 1 : p[i] = g[3 + i - 1]
  BY <1>3, <1>4, <1>5, SubSeqProperties
<1>7. Len(p) = len /\ \A j \in 1 .. len : p[j] = g[2 + j]
  BY <1>2, <1>3, <1>6
<1>8. f = [msg_type |-> g[1], payload |-> p]
  BY <1>1, <1>4 DEF ToFrame, Frame
<1> QED
  BY <1>1, <1>2, <1>3, <1>6, <1>7, <1>8

LEMMA TypesInit == Init => StreamTypeInv
<1> SUFFICES ASSUME Init
             PROVE  StreamTypeInv
  OBVIOUS
<1>1. /\ <<>> \in Seq(Frames) /\ <<>> \in Seq(Nat) /\ <<>> \in Seq([msg_type : Nat, payload : Seq(Nat)])
      /\ Len(<< >>) = 0 /\ DOMAIN << >> = {}
  OBVIOUS
<1>2. sent = <<>> /\ unwritten = <<>> /\ wire = <<>> /\ got = <<>> /\ received = <<>>
      /\ reader \in Readers /\ status = "open" /\ cut = FALSE
  BY DEF Init
<1>3. GotOK
  BY <1>1, <1>2 DEF GotOK
<1>4. /\ sent \in Seq(Frames) /\ unwritten \in Seq(Nat) /\ wire \in Seq(Nat) /\ got \in Seq(Nat)
      /\ received \in Seq([msg_type : Nat, payload : Seq(Nat)])
  BY <1>1, <1>2
<1>5. Len(sent) <= MaxFrames /\ DOMAIN received = {}
  BY <1>1, <1>2, FrameStreamAssumption
<1>6. TypeOK
  BY <1>2, <1>4, <1>5 DEF TypeOK
<1> QED
  BY <1>3, <1>6 DEF StreamTypeInv

LEMMA TypesStep == StreamTypeInv /\ [Next]_vars => StreamTypeInv'
<1> SUFFICES ASSUME StreamTypeInv, [Next]_vars
             PROVE  StreamTypeInv'
  OBVIOUS
<1> USE FrameStreamAssumption DEF StreamTypeInv
<1>1. TypeOK /\ GotOK
  OBVIOUS
<1>2. ASSUME NEW f \in Frames, BeginFrame(f)
      PROVE  StreamTypeInv'
  BY <1>1, <1>2, FrameFacts DEF BeginFrame, TypeOK, GotOK
<1>3. CASE WriteCell
  BY <1>1, <1>3 DEF WriteCell, TypeOK, GotOK
<1>4. CASE WriterEnds
  BY <1>1, <1>4 DEF WriterEnds, TypeOK, GotOK
<1>5. CASE ReadCell
  <2>1. Head(wire) \in Nat /\ wire' \in Seq(Nat) /\ got' = Append(got, Head(wire)) /\ got' \in Seq(Nat)
    BY <1>1, <1>5 DEF ReadCell, TypeOK
  <2>2. GotOK'
    <3> SUFFICES ASSUME Len(got') > 2
                 PROVE  got'[2] <= MaxLen /\ Len(got') <= 2 + got'[2]
      BY DEF GotOK
    <3>1. got \in Seq(Nat) /\ Len(got) >= 2 /\ got'[2] = got[2] /\ Len(got') = Len(got) + 1
      BY <1>1, <2>1 DEF TypeOK
    <3>2. ~ FrameRead(got) /\ ~ TooLarge(got)
      BY <1>5 DEF ReadCell
    <3> QED
      BY <1>1, <3>1, <3>2, LengthFacts DEF TypeOK
  <2> QED
    BY <1>1, <1>5, <2>1, <2>2 DEF ReadCell, TypeOK
<1>6. CASE HandleFrame
  <2>1. PICK f : f = ToFrame(got)
    OBVIOUS
  <2>2. /\ got' = <<>> /\ FrameRead(got) /\ ~ TooLarge(got)
        /\ received' \in {received, Append(received, f)} /\ status' \in {status, "closed"}
        /\ UNCHANGED <<reader, sent, unwritten, wire, cut>>
    BY <1>6, <2>1 DEF HandleFrame
  <2>3. got \in Seq(Nat)
    BY <1>1 DEF TypeOK
  <2>4. f \in [msg_type : Nat, payload : Seq(Nat)] /\ Len(f.payload) <= MaxLen
    BY <1>1, <2>1, <2>2, <2>3, ReadFacts, LengthFacts
  <2>5. received' \in Seq([msg_type : Nat, payload : Seq(Nat)])
        /\ \A i \in DOMAIN received' : Len(received'[i].payload) <= MaxLen
    <3>1. received \in Seq([msg_type : Nat, payload : Seq(Nat)])
          /\ \A i \in DOMAIN received : Len(received[i].payload) <= MaxLen
      BY <1>1 DEF TypeOK
    <3>2. CASE received' = received
      BY <3>1, <3>2
    <3>3. CASE received' = Append(received, f)
      <4>1. received' \in Seq([msg_type : Nat, payload : Seq(Nat)])
        BY <2>4, <3>1, <3>3
      <4>2. \A i \in DOMAIN received' : received'[i] = f \/ (i \in DOMAIN received /\ received'[i] = received[i])
        BY <2>4, <3>1, <3>3
      <4> QED
        BY <2>4, <3>1, <4>1, <4>2
    <3> QED
      BY <2>2, <3>2, <3>3
  <2>6. <<>> \in Seq(Nat) /\ Len(<< >>) = 0
    OBVIOUS
  <2> QED
    BY <1>1, <2>2, <2>5, <2>6 DEF TypeOK, GotOK
<1>7. CASE CloseOnError
  BY <1>1, <1>7 DEF CloseOnError, TypeOK, GotOK
<1>8. CASE DropRead \/ TimeOutRead
  <2>1. <<>> \in Seq(Nat) /\ Len(<< >>) = 0
    OBVIOUS
  <2>2. /\ got' = <<>> /\ cut' = (cut \/ got # <<>>)
        /\ UNCHANGED <<reader, sent, unwritten, wire, received, status>>
    BY <1>8 DEF DropRead, TimeOutRead, GiveUp
  <2>3. cut' \in BOOLEAN
    BY <2>2, Zenon
  <2>4. got' \in Seq(Nat) /\ GotOK'
    BY <2>1, <2>2 DEF GotOK
  <2>5. /\ reader' = reader /\ sent' = sent /\ unwritten' = unwritten /\ wire' = wire
        /\ received' = received /\ status' = status
    BY <2>2
  <2> QED
    BY <1>1, <2>3, <2>4, <2>5 DEF TypeOK
<1>9. CASE UNCHANGED vars
  BY <1>1, <1>9 DEF vars, TypeOK, GotOK
<1> QED
  BY <1>2, <1>3, <1>4, <1>5, <1>6, <1>7, <1>8, <1>9 DEF Next

\* What is read is of cells, and no payload above the limit is handled.
THEOREM StreamTypes == Spec => []TypeOK
<1>1. StreamTypeInv => TypeOK
  BY DEF StreamTypeInv
<1> QED
  BY <1>1, TypesInit, TypesStep, PTL DEF Spec

(***************************************************************************)
(* The frames                                                              *)
(***************************************************************************)

\* w is what the sequence S holds after its first o cells.
Window(w, S, o) == \A j \in 1 .. Len(w) : w[j] = S[o + j]

\* A sequence that another one extends keeps its windows.
LEMMA WindowExtends ==
  ASSUME NEW S \in Seq(Nat), NEW B \in Seq(Nat), NEW w \in Seq(Nat), NEW o \in Nat,
         Window(w, S, o), o + Len(w) <= Len(S)
  PROVE  Window(w, S \o B, o)
<1> SUFFICES ASSUME NEW j \in 1 .. Len(w)
             PROVE  w[j] = (S \o B)[o + j]
  BY DEF Window
<1>1. w[j] = S[o + j]
  BY DEF Window
<1>2. PICK n, m, i : n = Len(w) /\ m = Len(S) /\ i = o + j
  OBVIOUS
<1>3. n \in Nat /\ m \in Nat /\ i \in 1 .. m
  BY <1>2
<1>4. (S \o B)[i] = S[i]
  BY <1>2, <1>3, ConcatProperties
<1> QED
  BY <1>1, <1>2, <1>4

\* What is appended to a sequence is the window after it.
LEMMA WindowAppended ==
  ASSUME NEW S \in Seq(Nat), NEW B \in Seq(Nat)
  PROVE  Window(B, S \o B, Len(S))
<1> SUFFICES ASSUME NEW j \in 1 .. Len(B)
             PROVE  B[j] = (S \o B)[Len(S) + j]
  BY DEF Window
<1>1. PICK n, m : n = Len(B) /\ m = Len(S)
  OBVIOUS
<1>2. n \in Nat /\ m \in Nat /\ j \in 1 .. n
  BY <1>1
<1>3. m + j \in 1 .. m + n /\ ~ (m + j <= m) /\ (m + j) - m = j
  BY <1>2
<1>4. (S \o B)[m + j] = B[(m + j) - m]
  BY <1>1, <1>3, ConcatProperties
<1> QED
  BY <1>1, <1>3, <1>4

\* One cell goes from the front of a window to the end of the one before it.
LEMMA WindowMoves ==
  ASSUME NEW S, NEW w \in Seq(Nat), NEW v \in Seq(Nat), NEW o \in Nat, v # <<>>,
         Window(w, S, o), Window(v, S, o + Len(w))
  PROVE  /\ Append(w, Head(v)) \in Seq(Nat) /\ Tail(v) \in Seq(Nat)
         /\ Len(Append(w, Head(v))) = Len(w) + 1 /\ Len(Tail(v)) = Len(v) - 1
         /\ Window(Append(w, Head(v)), S, o)
         /\ Window(Tail(v), S, o + Len(Append(w, Head(v))))
<1>1. PICK n, m, h, a, t : n = Len(w) /\ m = Len(v) /\ h = Head(v) /\ a = Append(w, h) /\ t = Tail(v)
  OBVIOUS
<1>2. /\ n \in Nat /\ m \in Nat /\ m >= 1 /\ h \in Nat /\ h = v[1]
      /\ t \in Seq(Nat) /\ Len(t) = m - 1 /\ \A i \in 1 .. m - 1 : t[i] = v[i + 1]
  BY <1>1, HeadTailProperties
<1>3. a \in Seq(Nat) /\ Len(a) = n + 1 /\ a[n + 1] = h /\ \A i \in 1 .. n : a[i] = w[i]
  BY <1>1, <1>2, AppendProperties
<1>4. (\A i \in 1 .. n : w[i] = S[o + i]) /\ (\A i \in 1 .. m : v[i] = S[o + n + i])
  BY <1>1 DEF Window
<1>5. Window(a, S, o)
  <2> SUFFICES ASSUME NEW i \in 1 .. n + 1
               PROVE  a[i] = S[o + i]
    BY <1>3 DEF Window
  <2>1. CASE i \in 1 .. n
    BY <1>3, <1>4, <2>1
  <2>2. CASE i = n + 1
    <3>1. v[1] = S[o + n + 1] /\ o + n + 1 = o + i
      BY <1>2, <1>4, <2>2
    <3> QED
      BY <1>2, <1>3, <2>2, <3>1
  <2> QED
    BY <1>2, <2>1, <2>2
<1>6. Window(t, S, o + (n + 1))
  <2> SUFFICES ASSUME NEW i \in 1 .. m - 1
               PROVE  t[i] = S[o + (n + 1) + i]
    BY <1>2 DEF Window
  <2>1. i + 1 \in 1 .. m /\ o + n + (i + 1) = o + (n + 1) + i
    BY <1>2
  <2> QED
    BY <1>2, <1>4, <2>1
<1> QED
  BY <1>1, <1>2, <1>3, <1>5, <1>6

\* A sequence that agrees with another one as far as it goes is its prefix.
LEMMA PrefixFacts ==
  ASSUME NEW R, NEW s \in Seq(R), NEW t \in Seq(R), Len(s) <= Len(t),
         \A j \in 1 .. Len(s) : s[j] = t[j]
  PROVE  IsPrefix(s, t)
<1>1. PICK n, m : n = Len(s) /\ m = Len(t)
  OBVIOUS
<1>2. n \in Nat /\ m \in Nat /\ n <= m /\ 1 \in Int /\ n \in Int
  BY <1>1
<1>3. (\A i \in 1 .. n : s[i] \in R) /\ (\A i \in 1 .. n : t[i] \in R)
  BY <1>1, <1>2
<1>4. PICK u, v : u = SubSeq(s, 1, n) /\ v = SubSeq(t, 1, n)
  OBVIOUS
<1>5. /\ u \in Seq(R) /\ Len(u) = IF 1 <= n THEN n - 1 + 1 ELSE 0
      /\ \A i \in 1 .. n - 1 + 1 : u[i] = s[1 + i - 1]
  BY <1>2, <1>3, <1>4, SubSeqProperties
<1>6. /\ v \in Seq(R) /\ Len(v) = IF 1 <= n THEN n - 1 + 1 ELSE 0
      /\ \A i \in 1 .. n - 1 + 1 : v[i] = t[1 + i - 1]
  BY <1>2, <1>3, <1>4, SubSeqProperties
<1>7. Len(u) = Len(v) /\ Len(u) = n
  BY <1>2, <1>5, <1>6
<1>8. \A i \in 1 .. n : u[i] = v[i]
  <2> TAKE i \in 1 .. n
  <2>1. i \in 1 .. n - 1 + 1 /\ 1 + i - 1 = i
    BY <1>2
  <2> QED
    BY <1>1, <1>5, <1>6, <2>1
<1>9. u = v
  BY <1>5, <1>6, <1>7, <1>8, SeqEqual
<1> QED
  BY <1>1, <1>2, <1>4, <1>9 DEF IsPrefix

\* The frames that were begun lie one after the other in the cells S, the i-th
\* after the first start[i] of them.
Laid(S, start) ==
  /\ S \in Seq(Nat) /\ start \in [1 .. Len(sent) + 1 -> Nat]
  /\ start[1] = 0 /\ start[Len(sent) + 1] = Len(S)
  /\ \A i \in 1 .. Len(sent) :
       /\ start[i + 1] = start[i] + Len(Bytes(sent[i])) /\ start[i + 1] <= Len(S)
       /\ Window(Bytes(sent[i]), S, start[i])

\* The frames that are handled are the first ones, and after their cells come
\* what the pending read has, what the stream holds and what is yet to be
\* written, which is all there is until the writer ends.
Flows(S, base) ==
  /\ Window(got, S, base)
  /\ Window(wire, S, base + Len(got))
  /\ Window(unwritten, S, base + Len(got) + Len(wire))
  /\ base + Len(got) + Len(wire) + Len(unwritten) <= Len(S)
  /\ status = "open" => base + Len(got) + Len(wire) + Len(unwritten) = Len(S)

Handled == Len(received) <= Len(sent) /\ \A j \in 1 .. Len(received) : received[j] = sent[j]

StreamInv ==
  ~ cut => /\ Handled
           /\ \E S, start : Laid(S, start) /\ Flows(S, start[Len(received) + 1])

LEMMA StreamInit == Init => StreamInv
<1> SUFFICES ASSUME Init
             PROVE  StreamInv
  OBVIOUS
<1>1. /\ sent = <<>> /\ unwritten = <<>> /\ wire = <<>> /\ got = <<>> /\ received = <<>>
  BY DEF Init
<1>2. << >> \in Seq(Nat) /\ Len(<< >>) = 0
  OBVIOUS
<1>3. Handled
  BY <1>1, <1>2 DEF Handled
<1>4. PICK start : start = [i \in 1 .. 1 |-> 0]
  OBVIOUS
<1>5. start \in [1 .. Len(sent) + 1 -> Nat] /\ start[1] = 0
  BY <1>1, <1>2, <1>4
<1>6. Laid(<< >>, start)
  BY <1>1, <1>2, <1>5 DEF Laid
<1>7. Flows(<< >>, start[Len(received) + 1])
  BY <1>1, <1>2, <1>5 DEF Flows, Window
<1> QED
  BY <1>3, <1>6, <1>7 DEF StreamInv

\* A frame that is begun lies behind the others.
LEMMA StreamBegins ==
  ASSUME TypeOK, ~ cut, Handled, NEW f \in Frames, BeginFrame(f),
         NEW S, NEW start, Laid(S, start), Flows(S, start[Len(received) + 1])
  PROVE  StreamInv'
<1>1. PICK B, m, k : B = Bytes(f) /\ m = Len(sent) /\ k = Len(received)
  OBVIOUS
<1>2. B \in Seq(Nat) /\ m \in Nat /\ k \in Nat /\ k <= m
  BY <1>1, FrameFacts DEF Handled, TypeOK
<1>3. /\ status = "open" /\ unwritten = <<>> /\ sent' = Append(sent, f) /\ unwritten' = B
      /\ wire' = wire /\ got' = got /\ received' = received /\ status' = status /\ cut' = cut
  BY <1>1 DEF BeginFrame
<1>4. /\ sent' \in Seq(Frames) /\ Len(sent') = m + 1 /\ sent'[m + 1] = f
      /\ \A i \in 1 .. m : sent'[i] = sent[i]
  BY <1>1, <1>3, AppendProperties DEF TypeOK
<1>5. /\ S \in Seq(Nat) /\ start \in [1 .. m + 1 -> Nat] /\ start[1] = 0 /\ start[m + 1] = Len(S)
      /\ \A i \in 1 .. m : /\ start[i + 1] = start[i] + Len(Bytes(sent[i])) /\ start[i + 1] <= Len(S)
                           /\ Window(Bytes(sent[i]), S, start[i])
  BY <1>1 DEF Laid
<1>6. PICK T, n, b : T = S \o B /\ n = Len(S) /\ b = Len(B)
  OBVIOUS
<1>7. T \in Seq(Nat) /\ n \in Nat /\ b \in Nat /\ Len(T) = n + b
  BY <1>2, <1>5, <1>6, ConcatProperties
<1>8. PICK next : next = [i \in 1 .. m + 2 |-> IF i <= m + 1 THEN start[i] ELSE n + b]
  OBVIOUS
<1>9. /\ next \in [1 .. Len(sent') + 1 -> Nat] /\ next[m + 2] = n + b /\ next[1] = 0
      /\ \A i \in 1 .. m + 1 : next[i] = start[i]
  BY <1>2, <1>4, <1>5, <1>7, <1>8
<1>10. Laid(T, next)'
  <2> SUFFICES ASSUME NEW i \in 1 .. m + 1
               PROVE  /\ next[i + 1] = next[i] + Len(Bytes(sent'[i])) /\ next[i + 1] <= Len(T)
                      /\ Window(Bytes(sent'[i]), T, next[i])
    <3>1. (m + 1) + 1 = m + 2
      BY <1>2
    <3> QED
      BY <1>4, <1>7, <1>9, <3>1 DEF Laid, Window, Bytes
  <2>1. CASE i \in 1 .. m
    <3>1. sent'[i] = sent[i] /\ next[i] = start[i] /\ next[i + 1] = start[i + 1] /\ start[i] \in Nat
      <4>1. i \in 1 .. m + 1 /\ i + 1 \in 1 .. m + 1
        BY <1>2, <2>1
      <4> QED
        BY <1>4, <1>5, <1>9, <2>1, <4>1
    <3>2. sent[i] \in Frames
      BY <1>1, <2>1 DEF TypeOK
    <3>3. PICK C : C = Bytes(sent[i])
      OBVIOUS
    <3>4. C \in Seq(Nat)
      BY <3>2, <3>3, FrameFacts
    <3>5. start[i + 1] = start[i] + Len(C) /\ start[i + 1] <= Len(S) /\ Window(C, S, start[i])
      BY <1>5, <2>1, <3>3
    <3>6. Window(C, T, start[i])
      BY <1>2, <1>5, <1>6, <3>1, <3>4, <3>5, WindowExtends
    <3>7. start[i + 1] <= Len(T)
      <4>1. start[i + 1] \in Nat
        <5>1. i + 1 \in 1 .. m + 1
          BY <1>2, <2>1
        <5> QED
          BY <1>5, <5>1
      <4>2. start[i + 1] <= n /\ n <= n + b
        BY <1>6, <1>7, <3>5
      <4> QED
        BY <1>7, <4>1, <4>2
    <3> QED
      BY <3>1, <3>3, <3>5, <3>6, <3>7
  <2>2. CASE i = m + 1
    <3>1. sent'[i] = f /\ next[i] = n /\ next[i + 1] = n + b
      BY <1>2, <1>4, <1>5, <1>6, <1>9, <2>2
    <3>2. Window(B, T, n)
      BY <1>2, <1>5, <1>6, WindowAppended
    <3> QED
      BY <1>1, <1>6, <1>7, <3>1, <3>2
  <2> QED
    BY <1>2, <2>1, <2>2
<1>11. PICK base, g, w : base = start[k + 1] /\ g = Len(got) /\ w = Len(wire)
  OBVIOUS
<1>12. base \in Nat /\ g \in Nat /\ w \in Nat /\ got \in Seq(Nat) /\ wire \in Seq(Nat)
  BY <1>2, <1>5, <1>11 DEF TypeOK
<1>13. base + g + w = n /\ Window(got, S, base) /\ Window(wire, S, base + g)
  <2>1. Len(unwritten) = 0
    BY <1>3
  <2>2. base + g + w + 0 = n /\ Window(got, S, base) /\ Window(wire, S, base + g)
    BY <1>1, <1>3, <1>6, <1>11, <2>1 DEF Flows
  <2> QED
    BY <1>12, <2>2
<1>14. /\ Window(got, T, base) /\ Window(wire, T, base + g) /\ Window(B, T, base + g + w)
  <2>1. base + g <= Len(S) /\ (base + g) + w <= Len(S) /\ base + g \in Nat
    BY <1>6, <1>7, <1>12, <1>13
  <2>2. Window(got, T, base)
    BY <1>2, <1>5, <1>6, <1>11, <1>12, <1>13, <2>1, WindowExtends
  <2>3. Window(wire, T, base + g)
    BY <1>2, <1>5, <1>6, <1>11, <1>12, <1>13, <2>1, WindowExtends
  <2>4. Window(B, T, n)
    BY <1>2, <1>5, <1>6, WindowAppended
  <2> QED
    BY <1>13, <2>2, <2>3, <2>4
<1>15. next[k + 1] = base
  BY <1>2, <1>9, <1>11
<1>16. Flows(T, base)'
  <2>1. Len(T) = base + g + w + b
    BY <1>7, <1>13
  <2>2. base + g + w + b \in Nat
    BY <1>7, <1>12, <1>13
  <2>3. got' = got /\ wire' = wire /\ unwritten' = B /\ Len(got) = g /\ Len(wire) = w /\ Len(B) = b
    BY <1>3, <1>6, <1>11
  <2>4. /\ Window(got', T, base) /\ Window(wire', T, base + Len(got'))
        /\ Window(unwritten', T, base + Len(got') + Len(wire'))
        /\ base + Len(got') + Len(wire') + Len(unwritten') = Len(T)
    BY <1>14, <2>1, <2>3
  <2>5. base + Len(got') + Len(wire') + Len(unwritten') <= Len(T)
    BY <2>1, <2>2, <2>4
  <2> QED
    BY <2>4, <2>5 DEF Flows, Window
<1>17. Handled'
  BY <1>1, <1>2, <1>3, <1>4 DEF Handled
<1> QED
  BY <1>1, <1>3, <1>10, <1>15, <1>16, <1>17 DEF StreamInv

\* A cell goes from the writer to the stream.
LEMMA StreamWrites ==
  ASSUME TypeOK, NEW S, NEW base \in Nat, Flows(S, base), WriteCell
  PROVE  Flows(S, base)'
<1>1. PICK g, w, u, h, t, a : /\ g = Len(got) /\ w = Len(wire) /\ u = Len(unwritten)
                              /\ h = Head(unwritten) /\ t = Tail(unwritten) /\ a = Append(wire, h)
  OBVIOUS
<1>2. /\ unwritten # <<>> /\ wire' = a /\ unwritten' = t /\ got' = got /\ status' = status
  BY <1>1 DEF WriteCell
<1>3. g \in Nat /\ w \in Nat /\ u \in Nat /\ unwritten \in Seq(Nat) /\ wire \in Seq(Nat)
  BY <1>1 DEF TypeOK
<1>4. /\ Window(got, S, base) /\ Window(wire, S, base + g) /\ Window(unwritten, S, (base + g) + Len(wire))
      /\ base + g + w + u <= Len(S) /\ (status = "open" => base + g + w + u = Len(S))
  BY <1>1 DEF Flows
<1>5. base + g \in Nat
  BY <1>3
<1>6. /\ Len(a) = w + 1 /\ Len(t) = u - 1
      /\ Window(a, S, base + g) /\ Window(t, S, (base + g) + Len(a))
  <2>1. Window(unwritten, S, (base + g) + Len(wire))
    BY <1>4
  <2>2. PICK o : o = base + g
    OBVIOUS
  <2>3. o \in Nat /\ Window(wire, S, o) /\ Window(unwritten, S, o + Len(wire))
    BY <1>4, <1>5, <2>1, <2>2
  <2>4. /\ Len(Append(wire, Head(unwritten))) = Len(wire) + 1 /\ Len(Tail(unwritten)) = Len(unwritten) - 1
        /\ Window(Append(wire, Head(unwritten)), S, o)
        /\ Window(Tail(unwritten), S, o + Len(Append(wire, Head(unwritten))))
    BY ONLY <1>2, <1>3, <2>3, WindowMoves
  <2> QED
    BY <1>1, <2>2, <2>4
<1>7. base + g + Len(a) + Len(t) = base + g + w + u
  BY <1>3, <1>6
<1>8. /\ Window(got', S, base) /\ Window(wire', S, base + Len(got'))
      /\ Window(unwritten', S, base + Len(got') + Len(wire'))
      /\ base + Len(got') + Len(wire') + Len(unwritten') = base + g + w + u
  BY <1>1, <1>2, <1>4, <1>6, <1>7
<1> QED
  BY <1>2, <1>4, <1>8 DEF Flows, Window

\* A cell goes from the stream to the read.
LEMMA StreamReads ==
  ASSUME TypeOK, NEW S, NEW base \in Nat, Flows(S, base), ReadCell
  PROVE  Flows(S, base)'
<1>1. PICK g, w, u, h, t, a : /\ g = Len(got) /\ w = Len(wire) /\ u = Len(unwritten)
                              /\ h = Head(wire) /\ t = Tail(wire) /\ a = Append(got, h)
  OBVIOUS
<1>2. /\ wire # <<>> /\ got' = a /\ wire' = t /\ unwritten' = unwritten /\ status' = status
  BY <1>1 DEF ReadCell
<1>3. g \in Nat /\ w \in Nat /\ u \in Nat /\ got \in Seq(Nat) /\ wire \in Seq(Nat)
  BY <1>1 DEF TypeOK
<1>4. /\ Window(got, S, base) /\ Window(wire, S, base + Len(got)) /\ Window(unwritten, S, base + g + w)
      /\ base + g + w + u <= Len(S) /\ (status = "open" => base + g + w + u = Len(S))
  BY <1>1 DEF Flows
<1>5. /\ Len(a) = g + 1 /\ Len(t) = w - 1
      /\ Window(a, S, base) /\ Window(t, S, base + Len(a))
  <2>1. /\ Len(Append(got, Head(wire))) = Len(got) + 1 /\ Len(Tail(wire)) = Len(wire) - 1
        /\ Window(Append(got, Head(wire)), S, base)
        /\ Window(Tail(wire), S, base + Len(Append(got, Head(wire))))
    BY ONLY base \in Nat, <1>2, <1>3, <1>4, WindowMoves
  <2> QED
    BY <1>1, <2>1
<1>6. base + Len(a) + Len(t) = base + g + w /\ base + Len(a) + Len(t) + u = base + g + w + u
  BY <1>3, <1>5
<1>7. /\ Window(got', S, base) /\ Window(wire', S, base + Len(got'))
      /\ Window(unwritten', S, base + Len(got') + Len(wire'))
      /\ base + Len(got') + Len(wire') + Len(unwritten') = base + g + w + u
  BY <1>1, <1>2, <1>4, <1>5, <1>6
<1> QED
  BY <1>2, <1>4, <1>7 DEF Flows, Window

\* The frame that is complete is the next one that was begun: its length is the
\* one that was written, so it ends where the next one begins.
LEMMA StreamHandles ==
  ASSUME TypeOK, ~ cut, Handled, HandleFrame,
         NEW S, NEW start, Laid(S, start), Flows(S, start[Len(received) + 1])
  PROVE  StreamInv'
<1>1. PICK m, k, base, g, w, u, len :
         /\ m = Len(sent) /\ k = Len(received) /\ base = start[k + 1]
         /\ g = Len(got) /\ w = Len(wire) /\ u = Len(unwritten) /\ len = got[2]
  OBVIOUS
<1>2. /\ got \in Seq(Nat) /\ m \in Nat /\ k \in Nat /\ k <= m /\ g \in Nat /\ w \in Nat /\ u \in Nat
  BY <1>1 DEF TypeOK, Handled
<1>3. PICK f : f = ToFrame(got)
  OBVIOUS
<1>4. /\ FrameRead(got) /\ got' = <<>>
      /\ IF Decodes(f) \/ (reader = "relay" /\ f.msg_type \notin Types)
           THEN received' = Append(received, f) /\ status' = status
           ELSE status' = "closed" /\ received' = received
      /\ wire' = wire /\ unwritten' = unwritten /\ sent' = sent /\ cut' = cut
  BY <1>3 DEF HandleFrame
<1>5. g >= 2 /\ g = 2 + len
  BY <1>1, <1>4 DEF FrameRead
<1>6. /\ S \in Seq(Nat) /\ start \in [1 .. m + 1 -> Nat] /\ start[m + 1] = Len(S)
      /\ \A i \in 1 .. m : /\ start[i + 1] = start[i] + Len(Bytes(sent[i])) /\ start[i + 1] <= Len(S)
                           /\ Window(Bytes(sent[i]), S, start[i])
  BY <1>1 DEF Laid
<1>7. /\ Window(got, S, base) /\ Window(wire, S, base + g) /\ Window(unwritten, S, base + g + w)
      /\ base + g + w + u <= Len(S) /\ (status = "open" => base + g + w + u = Len(S))
  BY <1>1 DEF Flows
<1>8. base \in Nat /\ Len(S) \in Nat
  <2>1. k + 1 \in 1 .. m + 1
    BY <1>2
  <2> QED
    BY <1>1, <1>6, <2>1
<1>9. k + 1 \in 1 .. m
  <2>1. k # m
    <3> SUFFICES ASSUME k = m
                 PROVE  FALSE
      OBVIOUS
    <3>1. base = Len(S)
      BY <1>1, <1>6
    <3> QED
      BY <1>2, <1>5, <1>7, <1>8, <3>1
  <2> QED
    BY <1>2, <2>1
<1>10. PICK s, B, b : s = sent[k + 1] /\ B = Bytes(s) /\ b = Len(s.payload)
  OBVIOUS
<1>11. s \in Frames
  BY <1>1, <1>9, <1>10 DEF TypeOK
<1>12. /\ s.msg_type \in Types /\ s.payload \in Seq(Nat) /\ b >= MinLen /\ b \in Nat
       /\ s = Frame(s.msg_type, s.payload) /\ B \in Seq(Nat) /\ Len(B) = 2 + b
       /\ B[1] = s.msg_type /\ B[2] = b /\ \A j \in 1 .. b : B[2 + j] = s.payload[j]
  <2>1. /\ s.msg_type \in Types /\ s.payload \in Seq(Nat) /\ Len(s.payload) >= MinLen
        /\ s = Frame(s.msg_type, s.payload)
        /\ Bytes(s) \in Seq(Nat) /\ Len(Bytes(s)) = 2 + Len(s.payload)
        /\ Bytes(s)[1] = s.msg_type /\ Bytes(s)[2] = Len(s.payload)
        /\ \A j \in 1 .. Len(s.payload) : Bytes(s)[2 + j] = s.payload[j]
    BY <1>11, FrameFacts
  <2>2. b \in Nat
    BY <1>10, <2>1
  <2> QED
    BY <1>10, <2>1, <2>2
<1>13. start[k + 1 + 1] = base + (2 + b) /\ Window(B, S, base)
  BY <1>1, <1>6, <1>9, <1>10, <1>12
<1>14. /\ \A j \in 1 .. g : got[j] = S[base + j]
       /\ \A j \in 1 .. 2 + b : B[j] = S[base + j]
  BY <1>1, <1>7, <1>12, <1>13 DEF Window
<1>15. got[1] = B[1] /\ got[2] = B[2]
  <2>1. 1 \in 1 .. g /\ 2 \in 1 .. g /\ 1 \in 1 .. 2 + b /\ 2 \in 1 .. 2 + b
    BY <1>2, <1>5, <1>12
  <2> QED
    BY <1>14, <2>1
<1>16. len = b /\ g = 2 + b
  BY <1>1, <1>5, <1>12, <1>15
<1>17. /\ f.msg_type = got[1] /\ f.payload \in Seq(Nat) /\ Len(f.payload) = len
       /\ \A j \in 1 .. len : f.payload[j] = got[2 + j]
  BY <1>1, <1>2, <1>3, <1>4, ReadFacts
<1>18. f.payload = s.payload
  <2>1. Len(f.payload) = b /\ Len(s.payload) = b
    BY <1>10, <1>16, <1>17
  <2>2. \A j \in 1 .. b : f.payload[j] = s.payload[j]
    <3> TAKE j \in 1 .. b
    <3>1. 2 + j \in 1 .. g /\ 2 + j \in 1 .. 2 + b
      BY <1>12, <1>16
    <3>2. got[2 + j] = S[base + (2 + j)] /\ B[2 + j] = S[base + (2 + j)]
      BY <1>14, <3>1
    <3> QED
      BY <1>12, <1>16, <1>17, <3>2
  <2> QED
    BY <1>12, <1>17, <2>1, <2>2, SeqEqual
<1>19. f = s
  <2>1. f = Frame(f.msg_type, f.payload)
    BY <1>3 DEF ToFrame, Frame
  <2> QED
    BY <1>12, <1>15, <1>17, <1>18, <2>1
<1>20. received' = Append(received, s) /\ status' = status
  BY <1>4, <1>10, <1>12, <1>19 DEF Decodes
<1>21. /\ Len(received') = k + 1 /\ received'[k + 1] = s
       /\ \A j \in 1 .. k : received'[j] = received[j]
  <2>1. s \in [msg_type : Nat, payload : Seq(Nat)]
    BY <1>12, FrameStreamAssumption DEF Frame
  <2> QED
    BY <1>1, <1>20, <2>1, AppendProperties DEF TypeOK
<1>22. Handled'
  <2>1. Len(received') <= Len(sent')
    BY <1>1, <1>4, <1>9, <1>21
  <2>2. \A j \in 1 .. k + 1 : received'[j] = sent[j]
    <3> TAKE j \in 1 .. k + 1
    <3>1. CASE j \in 1 .. k
      BY <1>1, <1>21, <3>1 DEF Handled
    <3>2. CASE j = k + 1
      BY <1>10, <1>21, <3>2
    <3> QED
      BY <1>2, <3>1, <3>2
  <2> QED
    BY <1>4, <1>21, <2>1, <2>2 DEF Handled
<1>23. Laid(S, start)'
  BY <1>4 DEF Laid, Window, Bytes
<1>24. Flows(S, start[Len(received) + 1])'
  <2>1. PICK next : next = base + g
    OBVIOUS
  <2>2. start[Len(received') + 1] = next
    BY <1>13, <1>16, <1>21, <2>1
  <2>3. Len(got') = 0 /\ Len(wire') = w /\ Len(unwritten') = u /\ next \in Nat
    BY <1>1, <1>2, <1>4, <1>8, <2>1
  <2>4. /\ Window(got', S, next) /\ Window(wire', S, next + 0) /\ Window(unwritten', S, next + 0 + w)
    <3>1. next + 0 = base + g /\ next + 0 + w = base + g + w
      BY <1>2, <2>1, <2>3
    <3> QED
      BY <1>4, <1>7, <2>3, <3>1 DEF Window
  <2>5. next + 0 + w + u = base + g + w + u
    BY <1>2, <2>1, <2>3
  <2> QED
    BY <1>7, <1>20, <2>2, <2>3, <2>4, <2>5 DEF Flows, Window
<1> QED
  BY <1>4, <1>22, <1>23, <1>24 DEF StreamInv

LEMMA StreamStep == StreamTypeInv /\ StreamInv /\ [Next]_vars => StreamInv'
<1> SUFFICES ASSUME StreamTypeInv, StreamInv, [Next]_vars, ~ cut'
             PROVE  StreamInv'
  BY DEF StreamInv
<1>1. TypeOK /\ cut \in BOOLEAN
  BY DEF StreamTypeInv, TypeOK
<1>2. ~ cut
  BY <1>1, Zenon DEF Next, vars, BeginFrame, WriteCell, WriterEnds, ReadCell, HandleFrame, CloseOnError,
     DropRead, TimeOutRead, GiveUp
<1>3. Handled
  BY <1>2 DEF StreamInv
<1>4. PICK S, start : Laid(S, start) /\ Flows(S, start[Len(received) + 1])
  BY <1>2 DEF StreamInv
<1>5. PICK base : base = start[Len(received) + 1]
  OBVIOUS
<1>6. base \in Nat /\ S \in Seq(Nat)
  <2>1. PICK m, k : m = Len(sent) /\ k = Len(received)
    OBVIOUS
  <2>2. m \in Nat /\ k \in Nat /\ k <= m
    BY <1>1, <1>3, <2>1 DEF Handled, TypeOK
  <2>3. S \in Seq(Nat) /\ start \in [1 .. m + 1 -> Nat]
    BY <1>4, <2>1 DEF Laid
  <2>4. k + 1 \in 1 .. m + 1
    BY <2>2
  <2> QED
    BY <1>5, <2>1, <2>3, <2>4
<1>7. ASSUME UNCHANGED <<sent, received, cut>>, Flows(S, base)'
      PROVE  StreamInv'
  <2>1. Laid(S, start)' /\ Handled'
    BY <1>3, <1>4, <1>7 DEF Laid, Handled, Window, Bytes
  <2>2. start[Len(received') + 1] = base
    BY <1>5, <1>7
  <2> QED
    BY <1>7, <2>1, <2>2 DEF StreamInv
<1>8. CASE \E f \in Frames : BeginFrame(f)
  BY <1>1, <1>2, <1>3, <1>4, <1>8, StreamBegins
<1>9. CASE WriteCell
  <2>1. Flows(S, base)'
    BY <1>1, <1>4, <1>5, <1>6, <1>9, StreamWrites
  <2> QED
    BY <1>7, <1>9, <2>1 DEF WriteCell
<1>10. CASE WriterEnds
  <2>1. /\ unwritten' = <<>> /\ status' = "ended" /\ got' = got /\ wire' = wire
        /\ UNCHANGED <<sent, received, cut>>
    BY <1>10 DEF WriterEnds
  <2>2. PICK g, w, u, n : g = Len(got) /\ w = Len(wire) /\ u = Len(unwritten) /\ n = Len(S)
    OBVIOUS
  <2>3. g \in Nat /\ w \in Nat /\ u \in Nat /\ n \in Nat
    BY <1>1, <1>6, <2>2 DEF TypeOK
  <2>4. Window(got, S, base) /\ Window(wire, S, base + g) /\ base + g + w + u <= n
    BY <1>4, <1>5, <2>2 DEF Flows
  <2>5. base + g + w + 0 <= n
    BY <1>6, <2>3, <2>4
  <2>6. Flows(S, base)'
    BY <2>1, <2>2, <2>4, <2>5 DEF Flows, Window
  <2> QED
    BY <1>7, <2>1, <2>6
<1>11. CASE ReadCell
  <2>1. Flows(S, base)'
    BY <1>1, <1>4, <1>5, <1>6, <1>11, StreamReads
  <2> QED
    BY <1>7, <1>11, <2>1 DEF ReadCell
<1>12. CASE HandleFrame
  BY <1>1, <1>2, <1>3, <1>4, <1>12, StreamHandles
<1>13. CASE CloseOnError
  <2>1. Flows(S, base)'
    BY <1>4, <1>5, <1>13 DEF CloseOnError, Flows, Window
  <2> QED
    BY <1>7, <1>13, <2>1 DEF CloseOnError
<1>14. CASE DropRead \/ TimeOutRead
  <2>1. /\ got' = <<>> /\ cut' = (cut \/ got # <<>>)
        /\ UNCHANGED <<sent, unwritten, wire, received, status>>
    BY <1>14 DEF DropRead, TimeOutRead, GiveUp
  <2>2. got = <<>> /\ cut' = cut
    BY <1>1, <1>2, <2>1
  <2>3. Flows(S, base)'
    BY <1>4, <1>5, <2>1, <2>2 DEF Flows, Window
  <2> QED
    BY <1>7, <2>1, <2>2, <2>3
<1>15. CASE UNCHANGED vars
  <2>1. Flows(S, base)'
    BY <1>4, <1>5, <1>15 DEF vars, Flows, Window
  <2> QED
    BY <1>7, <1>15, <2>1 DEF vars
<1> QED
  BY <1>8, <1>9, <1>10, <1>11, <1>12, <1>13, <1>14, <1>15 DEF Next

\* Unless a read was given up in the middle of a frame, the frames that are
\* handled are those that were written, in their order and with their payload.
THEOREM StreamIntact == Spec => []FramesIntact
<1>1. StreamTypeInv /\ StreamInv => FramesIntact
  <2> SUFFICES ASSUME TypeOK, Handled
               PROVE  IsPrefix(received, sent)
    BY DEF StreamTypeInv, StreamInv, FramesIntact
  <2>1. received \in Seq([msg_type : Nat, payload : Seq(Nat)])
    BY DEF TypeOK
  <2>2. sent \in Seq([msg_type : Nat, payload : Seq(Nat)])
    <3>1. \A f \in Frames : f \in [msg_type : Nat, payload : Seq(Nat)]
      <4> TAKE f \in Frames
      <4>1. f.msg_type \in Nat /\ f.payload \in Seq(Nat) /\ f = Frame(f.msg_type, f.payload)
        BY FrameFacts
      <4> QED
        BY <4>1 DEF Frame
    <3>2. sent \in Seq(Frames) /\ Frames \subseteq [msg_type : Nat, payload : Seq(Nat)]
      BY <3>1 DEF TypeOK
    <3> QED
      BY <3>2, SeqMonotonic
  <2> QED
    BY <2>1, <2>2, PrefixFacts DEF Handled
<1> QED
  BY <1>1, TypesInit, TypesStep, StreamInit, StreamStep, PTL DEF Spec

==============================================================================
