--------------------------- MODULE WireFormatProofs ---------------------------
(***************************************************************************)
(* What to_bytes writes, from_bytes reads, for messages of any length that *)
(* a frame can hold, and the messages arrive whole through the relay.      *)
(***************************************************************************)
EXTENDS WireFormat, FiniteSetTheorems, WellFoundedInduction, TLAPS

(***************************************************************************)
(* Induction, by a set that holds every number                             *)
(***************************************************************************)

LEMMA EveryNumber ==
  ASSUME NEW S, 0 \in S, \A n \in Nat : n \in S => n + 1 \in S
  PROVE  Nat \subseteq S
<1> DEFINE T == {0 .. n : n \in Nat \ S}
           R == StrictSubsetOrdering(Nat)
<1> SUFFICES ASSUME T # {}
             PROVE  FALSE
  OBVIOUS
<1>1. T \subseteq FiniteSubsetsOf(Nat)
  <2>1. ASSUME NEW n \in Nat
        PROVE  0 .. n \in FiniteSubsetsOf(Nat)
    BY FS_Interval DEF FiniteSubsetsOf
  <2> QED
    BY <2>1
<1>2. IsWellFoundedOn(R, FiniteSubsetsOf(Nat))
  BY FS_StrictSubsetOrderingWellFounded
<1>3. \E x \in T : \A y \in T : ~ (<<y, x>> \in R)
  <2> HIDE DEF T, R
  <2> QED
    BY <1>1, <1>2, WFMin
<1>4. PICK n \in Nat \ S : \A y \in T : ~ (<<y, 0 .. n>> \in R)
  BY <1>3
<1>5. n - 1 \in Nat \ S
  BY n # 0
<1>6. <<0 .. n - 1, 0 .. n>> \in R
  <2>1. 0 .. n - 1 \subseteq 0 .. n /\ n \in 0 .. n /\ n \notin 0 .. n - 1
    OBVIOUS
  <2>2. 0 .. n - 1 \in SUBSET Nat /\ 0 .. n \in SUBSET Nat
    OBVIOUS
  <2> QED
    BY <2>1, <2>2 DEF StrictSubsetOrdering
<1> QED
  BY <1>4, <1>5, <1>6

(***************************************************************************)
(* Cells after cells                                                       *)
(***************************************************************************)

\* cells are the first n parts, and off[i] is where part i ends.
Offsets(parts, n, off) ==
  /\ off \in [0 .. n -> Nat] /\ off[0] = 0
  /\ \A i \in 1 .. n : off[i] = off[i - 1] + Len(parts[i])

Laid(parts, n, off, cells) ==
  /\ Offsets(parts, n, off)
  /\ cells \in Seq(Nat) /\ Len(cells) = off[n]
  /\ \A i \in 0 .. n : off[i] <= Len(cells)
  /\ \A i \in 1 .. n : \A j \in 1 .. Len(parts[i]) : cells[off[i - 1] + j] = parts[i][j]

LEMMA JoinFacts ==
  ASSUME NEW a \in Seq(Nat), NEW b \in Seq(Nat)
  PROVE  /\ a \o b \in Seq(Nat) /\ Len(a \o b) = Len(a) + Len(b)
         /\ \A j \in 1 .. Len(a) : (a \o b)[j] = a[j]
         /\ \A j \in 1 .. Len(b) : (a \o b)[Len(a) + j] = b[j]
OBVIOUS

LEMMA Within ==
  ASSUME NEW a \in Nat, NEW l \in Nat, NEW c \in Nat, a + l <= c, NEW j \in 1 .. l
  PROVE  a + j \in 1 .. c
OBVIOUS

LEMMA LaidOne ==
  ASSUME NEW parts \in Seq(Seq(Nat)), Len(parts) >= 1
  PROVE  \E off : Laid(parts, 1, off, parts[1])
<1> DEFINE off == [i \in 0 .. 1 |-> IF i = 0 THEN 0 ELSE Len(parts[1])]
<1>1. parts[1] \in Seq(Nat)
  OBVIOUS
<1>2. off \in [0 .. 1 -> Nat] /\ off[0] = 0 /\ off[1] = Len(parts[1])
  BY <1>1
<1>3. \A i \in 1 .. 1 : i = 1 /\ i - 1 = 0
  OBVIOUS
<1> HIDE DEF off
<1>4. Len(parts[1]) \in Nat /\ \A j \in 1 .. Len(parts[1]) : 0 + j = j
  BY <1>1
<1>5. Offsets(parts, 1, off)
  BY <1>2, <1>4 DEF Offsets
<1>6. \A i \in 0 .. 1 : off[i] <= Len(parts[1])
  BY <1>2, <1>4
<1>7. ASSUME NEW i \in 1 .. 1, NEW j \in 1 .. Len(parts[i])
      PROVE  parts[1][off[i - 1] + j] = parts[i][j]
  <2>1. i = 1 /\ off[i - 1] = 0 /\ off[i - 1] + j = j
    BY <1>2, <1>3, <1>4
  <2> QED
    BY <2>1
<1> QED
  BY <1>1, <1>2, <1>5, <1>6, <1>7 DEF Laid

LEMMA LaidNext ==
  ASSUME NEW parts \in Seq(Seq(Nat)), NEW n \in Nat, n + 1 <= Len(parts),
         NEW off, NEW cells, Laid(parts, n, off, cells)
  PROVE  \E next : Laid(parts, n + 1, next, cells \o parts[n + 1])
<1> DEFINE p == parts[n + 1]
           next == [i \in 0 .. n + 1 |-> IF i = n + 1 THEN off[n] + Len(p) ELSE off[i]]
           all == cells \o p
<1>1. p \in Seq(Nat) /\ cells \in Seq(Nat) /\ Len(cells) = off[n] /\ off \in [0 .. n -> Nat] /\ off[0] = 0
  BY DEF Laid, Offsets
<1>2. next \in [0 .. n + 1 -> Nat] /\ next[0] = 0 /\ next[n + 1] = off[n] + Len(p)
      /\ \A i \in 0 .. n : next[i] = off[i]
  BY <1>1
<1> HIDE DEF p
<1>3. all \in Seq(Nat) /\ Len(all) = Len(cells) + Len(p)
      /\ (\A j \in 1 .. Len(cells) : all[j] = cells[j])
      /\ (\A j \in 1 .. Len(p) : all[Len(cells) + j] = p[j])
  BY <1>1, JoinFacts
<1> HIDE DEF next, all
<1>4. ASSUME NEW i \in 1 .. n + 1
      PROVE  next[i] = next[i - 1] + Len(parts[i])
  <2>1. CASE i = n + 1
    BY <1>2, <2>1 DEF p
  <2>2. CASE i # n + 1
    <3>1. i \in 1 .. n /\ i \in 0 .. n /\ i - 1 \in 0 .. n
      BY <2>2
    <3> QED
      BY <1>2, <3>1 DEF Laid, Offsets
  <2> QED
    BY <2>1, <2>2
<1>5. ASSUME NEW i \in 1 .. n + 1, NEW j \in 1 .. Len(parts[i])
      PROVE  all[next[i - 1] + j] = parts[i][j]
  <2>1. CASE i = n + 1
    <3>1. next[i - 1] = Len(cells)
      BY <1>1, <1>2, <2>1
    <3> QED
      BY <1>3, <2>1, <3>1 DEF p
  <2>2. CASE i # n + 1
    <3>1. i \in 1 .. n /\ i - 1 \in 0 .. n /\ next[i - 1] = off[i - 1]
      BY <1>2, <2>2
    <3>2. cells[off[i - 1] + j] = parts[i][j]
      BY <3>1 DEF Laid
    <3>3. off[i - 1] \in Nat /\ off[i] \in Nat /\ Len(parts[i]) \in Nat /\ off[i] <= Len(cells)
          /\ off[i] = off[i - 1] + Len(parts[i]) /\ Len(cells) \in Nat
      <4>1. i \in 0 .. n /\ i \in 1 .. Len(parts) /\ parts[i] \in Seq(Nat)
        BY <3>1
      <4> QED
        BY <1>1, <3>1, <4>1 DEF Laid, Offsets
    <3>4. off[i - 1] + j \in 1 .. Len(cells)
      BY <3>3, Within
    <3>5. all[off[i - 1] + j] = cells[off[i - 1] + j]
      BY <1>3, <3>4
    <3> QED
      BY <3>1, <3>2, <3>5
  <2> QED
    BY <2>1, <2>2
<1>6. \A i \in 0 .. n + 1 : next[i] <= Len(all)
  <2>1. Len(p) \in Nat /\ Len(cells) \in Nat
    BY <1>1
  <2>2. \A i \in 0 .. n : off[i] \in Nat /\ off[i] <= Len(cells)
    BY <1>1 DEF Laid
  <2>3. ASSUME NEW i \in 0 .. n + 1
        PROVE  next[i] <= Len(all)
    <3>1. CASE i = n + 1
      BY <1>1, <1>2, <1>3, <2>1, <3>1
    <3>2. CASE i \in 0 .. n
      <4>1. next[i] \in Nat /\ next[i] <= Len(cells)
        BY <1>2, <2>2, <3>2
      <4> QED
        BY <1>3, <2>1, <4>1
    <3> QED
      BY <3>1, <3>2
  <2> QED
    BY <2>3
<1>7. Laid(parts, n + 1, next, all)
  BY <1>1, <1>2, <1>3, <1>4, <1>5, <1>6 DEF Laid, Offsets
<1> QED
  BY <1>7 DEF all, p

Joined(parts, f) == f = [i \in 1 .. Len(parts) |-> IF i = 1 THEN parts[i] ELSE f[i - 1] \o parts[i]]

\* The recursion of FlattenSeq ends.
LEMMA JoinedExists ==
  ASSUME NEW parts \in Seq(Seq(Nat))
  PROVE  \E f : Joined(parts, f)
<1> DEFINE Upto(k, f) == f = [i \in 1 .. k |-> IF i = 1 THEN parts[i] ELSE f[i - 1] \o parts[i]]
           S == {k \in Nat : \E f : Upto(k, f)}
<1>1. 0 \in S
  <2>1. Upto(0, <<>>)
    OBVIOUS
  <2> QED
    BY <2>1
<1>2. ASSUME NEW k \in Nat, k \in S
      PROVE  k + 1 \in S
  <2>1. PICK f : Upto(k, f)
    BY <1>2
  <2> DEFINE last == IF k + 1 = 1 THEN parts[k + 1] ELSE f[k] \o parts[k + 1]
             g == [i \in 1 .. k + 1 |-> IF i = k + 1 THEN last ELSE f[i]]
  <2>2. \A i \in 1 .. k : g[i] = f[i]
    OBVIOUS
  <2>3. ASSUME NEW i \in 1 .. k + 1
        PROVE  g[i] = IF i = 1 THEN parts[i] ELSE g[i - 1] \o parts[i]
    <3>1. CASE i = k + 1
      <4>1. i # 1 => g[i - 1] = f[k]
        BY <2>2, <3>1
      <4> QED
        BY <3>1, <4>1
    <3>2. CASE i # k + 1
      <4>1. i \in 1 .. k /\ (i # 1 => i - 1 \in 1 .. k)
        BY <3>2
      <4>2. f[i] = IF i = 1 THEN parts[i] ELSE f[i - 1] \o parts[i]
        BY <2>1, <4>1
      <4> QED
        BY <2>2, <4>1, <4>2
    <3> QED
      BY <3>1, <3>2
  <2>4. Upto(k + 1, g)
    <3> HIDE DEF last
    <3> QED
      BY <2>3
  <2> HIDE DEF g, Upto
  <2> QED
    BY <2>4
<1>3. Nat \subseteq S
  <2> HIDE DEF S
  <2> QED
    BY <1>1, <1>2, EveryNumber
<1>4. Len(parts) \in S
  <2> HIDE DEF S
  <2> QED
    BY <1>3
<1> QED
  BY <1>4 DEF Joined

LEMMA FlattenJoins ==
  ASSUME NEW parts \in Seq(Seq(Nat)), Len(parts) # 0
  PROVE  \E f : Joined(parts, f) /\ FlattenSeq(parts) = f[Len(parts)]
<1> DEFINE f == CHOOSE f : f = [i \in 1 .. Len(parts) |-> IF i = 1 THEN parts[i] ELSE f[i - 1] \o parts[i]]
<1>1. f = [i \in 1 .. Len(parts) |-> IF i = 1 THEN parts[i] ELSE f[i - 1] \o parts[i]]
  BY JoinedExists, Zenon DEF Joined
<1>2. FlattenSeq(parts) = f[Len(parts)]
  BY DEF FlattenSeq
<1> QED
  BY <1>1, <1>2 DEF Joined

\* FlattenSeq lays its parts one after the other.
LEMMA FlattenLays ==
  ASSUME NEW parts \in Seq(Seq(Nat))
  PROVE  \E off : Laid(parts, Len(parts), off, FlattenSeq(parts))
<1>1. CASE Len(parts) = 0
  <2> DEFINE off == [i \in 0 .. 0 |-> 0]
  <2>1. FlattenSeq(parts) = <<>> /\ off \in [0 .. 0 -> Nat] /\ off[0] = 0
    BY <1>1 DEF FlattenSeq
  <2>2. Laid(parts, 0, off, <<>>)
    BY <2>1 DEF Laid, Offsets
  <2> QED
    BY <1>1, <2>1, <2>2
<1>2. CASE Len(parts) # 0
  <2>1. PICK f : Joined(parts, f) /\ FlattenSeq(parts) = f[Len(parts)]
    BY <1>2, FlattenJoins
  <2> DEFINE S == {k \in Nat : k \in 1 .. Len(parts) => \E off : Laid(parts, k, off, f[k])}
  <2>2. 0 \in S
    OBVIOUS
  <2>3. ASSUME NEW k \in Nat, k \in S
        PROVE  k + 1 \in S
    <3> SUFFICES ASSUME k + 1 \in 1 .. Len(parts)
                 PROVE  \E off : Laid(parts, k + 1, off, f[k + 1])
      OBVIOUS
    <3>1. CASE k = 0
      <4>1. f[1] = parts[1]
        BY <1>2, <2>1 DEF Joined
      <4> QED
        BY <1>2, <3>1, <4>1, LaidOne
    <3>2. CASE k # 0
      <4>1. k \in 1 .. Len(parts) /\ k + 1 <= Len(parts)
        BY <3>2
      <4>2. f[k + 1] = f[k] \o parts[k + 1]
        <5>1. k + 1 \in 1 .. Len(parts) /\ k + 1 # 1 /\ (k + 1) - 1 = k
          BY <3>2
        <5> QED
          BY <2>1, <5>1 DEF Joined
      <4>3. PICK off : Laid(parts, k, off, f[k])
        BY <2>3, <4>1
      <4> QED
        BY <4>1, <4>2, <4>3, LaidNext
    <3> QED
      BY <3>1, <3>2
  <2>4. Nat \subseteq S
    <3> HIDE DEF S
    <3> QED
      BY <2>2, <2>3, EveryNumber
  <2>5. Len(parts) \in S
    <3> HIDE DEF S
    <3> QED
      BY <2>4
  <2> QED
    BY <1>2, <2>1, <2>5
<1> QED
  BY <1>1, <1>2

(***************************************************************************)
(* One field                                                               *)
(***************************************************************************)
Kinds == {"key", "blob", "url", "keys", "responses", "number"} \cup DOMAIN Tag

Key == [1 .. KeyLen -> Nat]

\* A preimage and its contents.
Response == Key \X Seq(Nat)

\* What a field may be given.
Values(kind) ==
  CASE kind = "key" -> Key
    [] kind = "blob" -> Seq(Nat)
    [] kind = "url" -> Seq(Chars)
    [] kind = "keys" -> Seq(Key)
    [] kind = "responses" -> Seq(Response)
    [] kind = "number" -> Nat
    [] OTHER -> {Tag[kind]}

\* A count or a length that 16 bits hold.
Fits(kind, v) == kind \in {"url", "keys", "responses"} => Len(v) < W16

\* cells go on with bytes after at, as far as they go.
Agrees(cells, at, bytes) ==
  \A j \in 1 .. Len(bytes) : at + j <= Len(cells) => cells[at + j] = bytes[j]

\* Of len cells the value is read that ends at end, or nothing is.
ReadsTo(read, len, value, end) == IF end <= len THEN read = Read(value, end) ELSE ~ read.ok

LEMMA SameSeq ==
  ASSUME NEW s, NEW a \in Seq(s), NEW t, NEW b \in Seq(t), Len(a) = Len(b),
         \A i \in 1 .. Len(a) : a[i] = b[i]
  PROVE  a = b
OBVIOUS

LEMMA PartOf ==
  ASSUME NEW cells \in Seq(Nat), NEW at \in Nat, NEW n \in Nat, at + n <= Len(cells)
  PROVE  /\ SubSeq(cells, at + 1, at + n) \in Seq(Nat)
         /\ Len(SubSeq(cells, at + 1, at + n)) = n
         /\ \A i \in 1 .. n : SubSeq(cells, at + 1, at + n)[i] = cells[at + i]
<1>1. /\ SubSeq(cells, at + 1, at + n) \in Seq(Nat)
      /\ Len(SubSeq(cells, at + 1, at + n)) = n
  OBVIOUS
<1>2. ASSUME NEW i \in 1 .. n
      PROVE  SubSeq(cells, at + 1, at + n)[i] = cells[at + i]
  <2>1. i \in 1 .. ((at + n) - (at + 1)) + 1 /\ (at + 1) + i - 1 = at + i
    OBVIOUS
  <2>2. SubSeq(cells, at + 1, at + n)[i] = cells[(at + 1) + i - 1]
    BY <2>1
  <2> QED
    BY <2>1, <2>2
<1> QED
  BY <1>1, <1>2

LEMMA TakeReads ==
  ASSUME NEW cells \in Seq(Nat), NEW at \in 0 .. Len(cells), NEW v \in Seq(Nat),
         Agrees(cells, at, v)
  PROVE  ReadsTo(Take(Len(v), cells, at), Len(cells), v, at + Len(v))
<1>1. CASE at + Len(v) <= Len(cells)
  <2> DEFINE s == SubSeq(cells, at + 1, at + Len(v))
  <2>1. s \in Seq(Nat) /\ Len(s) = Len(v)
    BY <1>1
  <2>2. ASSUME NEW i \in 1 .. Len(v)
        PROVE  s[i] = v[i]
    <3>1. Len(v) \in Nat /\ at \in Nat
      OBVIOUS
    <3>2. s[i] = cells[at + i]
      BY <1>1, <3>1, PartOf
    <3> QED
      BY <1>1, <3>2 DEF Agrees
  <2>3. s = v
    <3> HIDE DEF s
    <3> QED
      BY <2>1, <2>2, SameSeq
  <2>4. ~ (Len(cells) < at + Len(v))
    BY <1>1
  <2>5. Take(Len(v), cells, at) = Read(v, at + Len(v))
    BY <2>3, <2>4, Zenon DEF Take
  <2> QED
    BY <1>1, <2>5, Zenon DEF ReadsTo
<1>2. CASE ~ (at + Len(v) <= Len(cells))
  <2>1. Len(cells) < at + Len(v)
    BY <1>2
  <2>2. Take(Len(v), cells, at) = Truncated
    BY <2>1, Zenon DEF Take
  <2>3. ~ Truncated.ok
    BY DEF Truncated
  <2> QED
    BY <1>2, <2>2, <2>3, Zenon DEF ReadsTo
<1> QED
  BY <1>1, <1>2

LEMMA OneCell ==
  ASSUME NEW n \in Nat, NEW v \in Seq(Nat)
  PROVE  /\ <<n>> \o v \in Seq(Nat) /\ Len(<<n>> \o v) = 1 + Len(v)
         /\ (<<n>> \o v)[1] = n
         /\ \A j \in 1 .. Len(v) : (<<n>> \o v)[1 + j] = v[j]
OBVIOUS

LEMMA Onward ==
  ASSUME NEW cells \in Seq(Nat), NEW at \in Nat, at < Len(cells), NEW n \in Nat, NEW v \in Seq(Nat),
         Agrees(cells, at, <<n>> \o v)
  PROVE  cells[at + 1] = n /\ at + 1 \in 0 .. Len(cells) /\ Agrees(cells, at + 1, v)
<1> DEFINE b == <<n>> \o v
<1>1. Len(b) = 1 + Len(v) /\ b[1] = n /\ \A j \in 1 .. Len(v) : b[1 + j] = v[j]
  BY OneCell
<1> HIDE DEF b
<1>2. \A j \in 1 .. Len(b) : at + j <= Len(cells) => cells[at + j] = b[j]
  BY DEF Agrees, b
<1>3. 1 \in 1 .. Len(b) /\ at + 1 <= Len(cells)
  BY <1>1
<1>4. ASSUME NEW j \in 1 .. Len(v), (at + 1) + j <= Len(cells)
      PROVE  cells[(at + 1) + j] = v[j]
  <2>1. 1 + j \in 1 .. Len(b) /\ at + (1 + j) = (at + 1) + j
    BY <1>1
  <2> QED
    BY <1>1, <1>2, <1>4, <2>1
<1> QED
  BY <1>1, <1>2, <1>3, <1>4 DEF Agrees

LEMMA PrefixedReads ==
  ASSUME NEW cells \in Seq(Nat), NEW at \in 0 .. Len(cells), NEW v \in Seq(Nat),
         Agrees(cells, at, <<Len(v)>> \o v)
  PROVE  ReadsTo(Prefixed(cells, at), Len(cells), v, at + (1 + Len(v)))
<1>1. CASE at < Len(cells)
  <2>1. cells[at + 1] = Len(v) /\ at + 1 \in 0 .. Len(cells) /\ Agrees(cells, at + 1, v)
    BY <1>1, Onward
  <2>2. Prefixed(cells, at) = Take(Len(v), cells, at + 1)
    BY <1>1, <2>1 DEF Prefixed
  <2>3. (at + 1) + Len(v) = at + (1 + Len(v))
    OBVIOUS
  <2> QED
    BY <2>1, <2>2, <2>3, TakeReads
<1>2. CASE ~ (at < Len(cells))
  BY <1>2 DEF Prefixed, ReadsTo, Truncated
<1> QED
  BY <1>1, <1>2

LEMMA KeyCells ==
  /\ KeyLen \in Nat /\ KeyLen > 0
  /\ \A k \in Key : k \in Seq(Nat) /\ Len(k) = KeyLen
  /\ Seq(Key) \subseteq Seq(Seq(Nat))
<1>1. KeyLen \in Nat /\ KeyLen > 0
  BY WireAssumption
<1>2. \A k \in Key : k \in Seq(Nat) /\ Len(k) = KeyLen
  BY <1>1 DEF Key
<1> QED
  BY <1>1, <1>2

LEMMA Multiples ==
  ASSUME NEW k \in Nat, NEW i \in Nat, NEW n \in Nat, i < n
  PROVE  /\ i * k \in Nat /\ n * k \in Nat
         /\ (i + 1) * k = i * k + k
         /\ (i + 1) * k <= n * k
<1>1. i * k \in Nat /\ n * k \in Nat /\ (i + 1) * k = i * k + k
  OBVIOUS
<1>2. n * k = (i + 1) * k + (n - (i + 1)) * k
  OBVIOUS
<1>3. n - (i + 1) \in Nat
  OBVIOUS
<1>4. \A a, b \in Nat : a * b \in Nat
  OBVIOUS
<1>5. (n - (i + 1)) * k \in Nat
  BY <1>3, <1>4
<1>6. (i + 1) * k \in Nat
  BY <1>4
<1> DEFINE x == (n - (i + 1)) * k
           y == (i + 1) * k
           z == n * k
<1>7. x \in Nat /\ y \in Nat /\ z \in Nat /\ z = y + x => y <= z
  <2> HIDE DEF x, y, z
  <2> QED
    OBVIOUS
<1> QED
  BY <1>1, <1>2, <1>5, <1>6, <1>7

LEMMA KeysLaid ==
  ASSUME NEW v \in Seq(Key)
  PROVE  /\ FlattenSeq(v) \in Seq(Nat) /\ Len(FlattenSeq(v)) = Len(v) * KeyLen
         /\ \A i \in 1 .. Len(v) : \A j \in 1 .. KeyLen :
              FlattenSeq(v)[(i - 1) * KeyLen + j] = v[i][j]
<1> DEFINE cells == FlattenSeq(v)
<1>1. v \in Seq(Seq(Nat))
  BY KeyCells
<1>2. PICK off : Laid(v, Len(v), off, cells)
  BY <1>1, FlattenLays
<1> HIDE DEF cells
<1> DEFINE S == {k \in Nat : k \in 0 .. Len(v) => off[k] = k * KeyLen}
<1>3. 0 \in S
  <2>1. off[0] = 0 /\ 0 * KeyLen = 0
    BY <1>2, KeyCells DEF Laid, Offsets
  <2> QED
    BY <2>1
<1>4. ASSUME NEW k \in Nat, k \in S
      PROVE  k + 1 \in S
  <2> SUFFICES ASSUME k + 1 \in 0 .. Len(v)
               PROVE  off[k + 1] = (k + 1) * KeyLen
    OBVIOUS
  <2>1. k \in 0 .. Len(v) /\ k + 1 \in 1 .. Len(v) /\ (k + 1) - 1 = k
    OBVIOUS
  <2>2. off[k + 1] = off[k] + Len(v[k + 1])
    BY <1>2, <2>1 DEF Laid, Offsets
  <2>3. Len(v[k + 1]) = KeyLen
    BY <2>1, KeyCells
  <2>4. (k + 1) * KeyLen = k * KeyLen + KeyLen
    BY <2>1, KeyCells, Multiples
  <2> QED
    BY <1>4, <2>1, <2>2, <2>3, <2>4
<1>5. \A k \in 0 .. Len(v) : off[k] = k * KeyLen
  <2>1. Nat \subseteq S
    <3> HIDE DEF S
    <3> QED
      BY <1>3, <1>4, EveryNumber
  <2> QED
    BY <2>1
<1>6. cells \in Seq(Nat) /\ Len(cells) = Len(v) * KeyLen
  BY <1>2, <1>5 DEF Laid
<1>7. ASSUME NEW i \in 1 .. Len(v), NEW j \in 1 .. KeyLen
      PROVE  cells[(i - 1) * KeyLen + j] = v[i][j]
  <2>1. i - 1 \in 0 .. Len(v) /\ Len(v[i]) = KeyLen
    BY KeyCells
  <2>2. cells[off[i - 1] + j] = v[i][j]
    BY <1>2, <2>1 DEF Laid
  <2> QED
    BY <1>5, <2>1, <2>2
<1> QED
  BY <1>6, <1>7 DEF cells

LEMMA KeysRead ==
  ASSUME NEW cells \in Seq(Nat), NEW at \in 0 .. Len(cells), NEW v \in Seq(Key),
         Agrees(cells, at, FlattenSeq(v))
  PROVE  ReadsTo(FromKeys(Len(v), cells, at), Len(cells), v, at + Len(FlattenSeq(v)))
<1> DEFINE b == FlattenSeq(v)
           total == Len(v) * KeyLen
<1>1. b \in Seq(Nat) /\ Len(b) = total
      /\ \A i \in 1 .. Len(v) : \A j \in 1 .. KeyLen : b[(i - 1) * KeyLen + j] = v[i][j]
  BY KeysLaid
<1>2. KeyLen \in Nat /\ Len(v) \in Nat /\ at \in Nat /\ Len(cells) \in Nat
  BY KeyCells
<1>3. total \in Nat
  BY <1>1
<1>4. Agrees(cells, at, b)
  OBVIOUS
<1> HIDE DEF b, total
<1>5. CASE at + total <= Len(cells)
  <2> DEFINE value == [i \in 1 .. Len(v) |-> SubSeq(cells, (at + (i - 1) * KeyLen) + 1, at + i * KeyLen)]
  <2>1. ASSUME NEW i \in 1 .. Len(v)
        PROVE  SubSeq(cells, (at + (i - 1) * KeyLen) + 1, at + i * KeyLen) = v[i]
    <3> DEFINE m == (i - 1) * KeyLen
    <3>1. m \in Nat /\ i * KeyLen = m + KeyLen /\ i * KeyLen <= total
      <4>1. i - 1 \in Nat /\ i - 1 < Len(v) /\ (i - 1) + 1 = i
        OBVIOUS
      <4> QED
        BY <1>2, <4>1, Multiples DEF total
    <3>2. \A j \in 1 .. KeyLen : b[m + j] = v[i][j]
      BY <1>1
    <3> HIDE DEF m
    <3>3. at + m \in Nat /\ (at + m) + KeyLen <= Len(cells) /\ at + i * KeyLen = (at + m) + KeyLen
      BY <1>2, <1>3, <1>5, <3>1
    <3> DEFINE s == SubSeq(cells, (at + m) + 1, (at + m) + KeyLen)
    <3>4. s \in Seq(Nat) /\ Len(s) = KeyLen /\ \A j \in 1 .. KeyLen : s[j] = cells[(at + m) + j]
      BY <1>2, <3>3, PartOf
    <3>5. ASSUME NEW j \in 1 .. KeyLen
          PROVE  cells[(at + m) + j] = v[i][j]
      <4>1. m + j \in 1 .. Len(b) /\ at + (m + j) = (at + m) + j /\ (at + m) + j <= Len(cells)
        BY <1>1, <1>2, <1>3, <3>1, <3>3
      <4>2. cells[at + (m + j)] = b[m + j]
        BY <1>4, <4>1 DEF Agrees
      <4> QED
        BY <3>2, <4>1, <4>2
    <3>6. v[i] \in Seq(Nat) /\ Len(v[i]) = KeyLen
      BY KeyCells
    <3>7. s = v[i]
      <4> HIDE DEF s
      <4> QED
        BY <3>4, <3>5, <3>6, SameSeq
    <3> QED
      BY <3>3, <3>7 DEF m
  <2>2. value = v
    <3>1. \A i \in 1 .. Len(v) : value[i] = v[i]
      BY <2>1
    <3>2. v = [i \in 1 .. Len(v) |-> v[i]]
      OBVIOUS
    <3> QED
      BY <3>1, <3>2, <2>1
  <2>3. ~ (Len(cells) < at + total)
    BY <1>2, <1>3, <1>5
  <2>4. FromKeys(Len(v), cells, at) = Read(v, at + total)
    BY <2>2, <2>3, Zenon DEF FromKeys, total
  <2> QED
    BY <1>1, <1>5, <2>4, Zenon DEF ReadsTo, b
<1>6. CASE ~ (at + total <= Len(cells))
  <2>1. Len(cells) < at + total
    BY <1>2, <1>3, <1>6
  <2>2. FromKeys(Len(v), cells, at) = Truncated
    BY <2>1, Zenon DEF FromKeys, total
  <2>3. ~ Truncated.ok
    BY DEF Truncated
  <2> QED
    BY <1>1, <1>6, <2>2, <2>3, Zenon DEF ReadsTo, b
<1> QED
  BY <1>5, <1>6

ResponseBytes(r) == r[1] \o <<Len(r[2])>> \o r[2]
ResponseParts(v) == [i \in 1 .. Len(v) |-> ResponseBytes(v[i])]

LEMMA ResponseCells ==
  ASSUME NEW r \in Response
  PROVE  /\ r[1] \in Key /\ r[1] \in Seq(Nat) /\ Len(r[1]) = KeyLen
         /\ r[2] \in Seq(Nat) /\ r = <<r[1], r[2]>>
         /\ ResponseBytes(r) \in Seq(Nat) /\ Len(ResponseBytes(r)) = KeyLen + (1 + Len(r[2]))
         /\ \A j \in 1 .. KeyLen : ResponseBytes(r)[j] = r[1][j]
         /\ \A j \in 1 .. 1 + Len(r[2]) : ResponseBytes(r)[KeyLen + j] = (<<Len(r[2])>> \o r[2])[j]
<1>1. r[1] \in Key /\ r[2] \in Seq(Nat) /\ r = <<r[1], r[2]>>
  BY DEF Response
<1>2. r[1] \in Seq(Nat) /\ Len(r[1]) = KeyLen
  BY <1>1, KeyCells
<1> DEFINE a == r[1]
           c == <<Len(r[2])>> \o r[2]
<1>3. a \in Seq(Nat) /\ c \in Seq(Nat) /\ Len(c) = 1 + Len(r[2])
  BY <1>1, <1>2, OneCell
<1>4. ResponseBytes(r) = a \o c
  BY <1>1, <1>2 DEF ResponseBytes
<1> HIDE DEF a, c
<1> DEFINE b == ResponseBytes(r)
<1>6. b = a \o c
  BY <1>4
<1> HIDE DEF b
<1>5. /\ ResponseBytes(r) \in Seq(Nat) /\ Len(ResponseBytes(r)) = Len(a) + Len(c)
      /\ \A j \in 1 .. Len(a) : ResponseBytes(r)[j] = a[j]
      /\ \A j \in 1 .. Len(c) : ResponseBytes(r)[Len(a) + j] = c[j]
  <2>1. /\ a \o c \in Seq(Nat) /\ Len(a \o c) = Len(a) + Len(c)
        /\ \A j \in 1 .. Len(a) : (a \o c)[j] = a[j]
        /\ \A j \in 1 .. Len(c) : (a \o c)[Len(a) + j] = c[j]
    BY <1>3, JoinFacts
  <2> QED
    BY <1>6, <2>1, Zenon DEF b
<1> QED
  BY <1>1, <1>2, <1>3, <1>5 DEF a, c

LEMMA ResponsesLaid ==
  ASSUME NEW v \in Seq(Response)
  PROVE  /\ ResponseParts(v) \in Seq(Seq(Nat)) /\ Len(ResponseParts(v)) = Len(v)
         /\ \A i \in 1 .. Len(v) : v[i] \in Response /\ ResponseParts(v)[i] = ResponseBytes(v[i])
         /\ FlattenSeq(ResponseParts(v)) \in Seq(Nat)
         /\ Len(v) * KeyLen <= Len(FlattenSeq(ResponseParts(v)))
<1> DEFINE parts == ResponseParts(v)
           cells == FlattenSeq(parts)
<1>1. \A i \in 1 .. Len(v) : v[i] \in Response
  OBVIOUS
<1>2. parts = [i \in 1 .. Len(v) |-> ResponseBytes(v[i])] /\ Len(v) \in Nat
  BY DEF ResponseParts
<1>3. \A i \in 1 .. Len(v) : ResponseBytes(v[i]) \in Seq(Nat)
  BY <1>1, ResponseCells
<1> HIDE DEF parts
<1>4. /\ parts \in Seq(Seq(Nat)) /\ Len(parts) = Len(v)
      /\ \A i \in 1 .. Len(v) : parts[i] = ResponseBytes(v[i])
  BY <1>2, <1>3
<1>5. PICK off : Laid(parts, Len(v), off, cells)
  BY <1>4, FlattenLays
<1> HIDE DEF cells
<1> DEFINE S == {k \in Nat : k \in 0 .. Len(v) => k * KeyLen <= off[k]}
<1>6. 0 \in S
  <2>1. off[0] = 0 /\ 0 * KeyLen = 0
    BY <1>5, KeyCells DEF Laid, Offsets
  <2> QED
    BY <2>1
<1>7. ASSUME NEW k \in Nat, k \in S
      PROVE  k + 1 \in S
  <2> SUFFICES ASSUME k + 1 \in 0 .. Len(v)
               PROVE  (k + 1) * KeyLen <= off[k + 1]
    OBVIOUS
  <2>1. k \in 0 .. Len(v) /\ k + 1 \in 1 .. Len(v) /\ (k + 1) - 1 = k
    BY <1>2
  <2>2. off[k + 1] = off[k] + Len(parts[k + 1]) /\ off[k] \in Nat
    BY <1>5, <2>1 DEF Laid, Offsets
  <2>3. Len(parts[k + 1]) = KeyLen + (1 + Len(v[k + 1][2])) /\ Len(v[k + 1][2]) \in Nat
    <3>1. v[k + 1] \in Response /\ parts[k + 1] = ResponseBytes(v[k + 1])
      BY <1>1, <1>4, <2>1
    <3>2. Len(ResponseBytes(v[k + 1])) = KeyLen + (1 + Len(v[k + 1][2])) /\ v[k + 1][2] \in Seq(Nat)
      BY <3>1, ResponseCells
    <3>3. Len(v[k + 1][2]) \in Nat
      BY <3>2
    <3> QED
      BY <3>1, <3>2, <3>3
  <2> DEFINE m == k * KeyLen
             next == (k + 1) * KeyLen
             rest == Len(v[k + 1][2])
  <2>4. next = m + KeyLen /\ m \in Nat /\ KeyLen \in Nat
    BY <2>1, KeyCells, Multiples
  <2>5. m <= off[k]
    BY <1>7, <2>1
  <2>6. off[k + 1] = off[k] + (KeyLen + (1 + rest)) /\ rest \in Nat
    BY <2>2, <2>3
  <2> HIDE DEF m, next, rest
  <2>7. next <= off[k + 1]
    BY <2>2, <2>4, <2>5, <2>6
  <2> QED
    BY <2>7 DEF next
<1>8. Len(v) * KeyLen <= off[Len(v)]
  <2>1. Nat \subseteq S
    <3> HIDE DEF S
    <3> QED
      BY <1>6, <1>7, EveryNumber
  <2> QED
    BY <1>2, <2>1
<1>9. cells \in Seq(Nat) /\ Len(cells) = off[Len(v)]
  BY <1>5 DEF Laid
<1> QED
  BY <1>1, <1>4, <1>8, <1>9 DEF cells, parts

LEMMA ResponseReads ==
  ASSUME NEW cells \in Seq(Nat), NEW at \in 0 .. Len(cells), NEW r \in Response,
         Agrees(cells, at, ResponseBytes(r))
  PROVE  ReadsTo(FromResponse(cells, at), Len(cells), r, at + Len(ResponseBytes(r)))
<1> DEFINE b == ResponseBytes(r)
           a == r[1]
           c == <<Len(r[2])>> \o r[2]
           preimage == Take(KeyLen, cells, at)
           response == Prefixed(cells, preimage.at)
           end == at + Len(b)
<1>1. /\ a \in Seq(Nat) /\ Len(a) = KeyLen /\ r[2] \in Seq(Nat) /\ r = <<a, r[2]>>
      /\ b \in Seq(Nat) /\ Len(b) = KeyLen + (1 + Len(r[2]))
      /\ \A j \in 1 .. KeyLen : b[j] = a[j]
      /\ \A j \in 1 .. 1 + Len(r[2]) : b[KeyLen + j] = c[j]
  BY ResponseCells
<1>2. c \in Seq(Nat) /\ Len(c) = 1 + Len(r[2])
  BY <1>1, OneCell
<1>3. \A j \in 1 .. Len(b) : at + j <= Len(cells) => cells[at + j] = b[j]
  BY DEF Agrees
<1>4. KeyLen \in Nat /\ at \in Nat /\ Len(cells) \in Nat /\ Len(r[2]) \in Nat
  BY <1>1, KeyCells
<1>5. FromResponse(cells, at) =
        IF preimage.ok /\ response.ok THEN Read(<<preimage.value, response.value>>, response.at)
        ELSE Truncated
  BY Zenon DEF FromResponse
<1> HIDE DEF a, b, c, preimage, response
<1>6. ReadsTo(preimage, Len(cells), a, at + KeyLen)
  <2>1. ASSUME NEW j \in 1 .. Len(a), at + j <= Len(cells)
        PROVE  cells[at + j] = a[j]
    <3>1. j \in 1 .. KeyLen /\ j \in 1 .. Len(b)
      BY <1>1, <1>4
    <3> QED
      BY <1>1, <1>3, <2>1, <3>1
  <2>2. Agrees(cells, at, a)
    BY <2>1 DEF Agrees
  <2> QED
    BY <1>1, <2>2, TakeReads DEF preimage
<1>7. ~ Truncated.ok
  BY DEF Truncated
<1>8. CASE at + KeyLen <= Len(cells)
  <2>1. preimage = Read(a, at + KeyLen)
    BY <1>6, <1>8, Zenon DEF ReadsTo
  <2>2. preimage.ok /\ preimage.value = a /\ preimage.at = at + KeyLen
    BY <2>1 DEF Read
  <2>3. ASSUME NEW j \in 1 .. Len(c), (at + KeyLen) + j <= Len(cells)
        PROVE  cells[(at + KeyLen) + j] = c[j]
    <3>1. j \in 1 .. 1 + Len(r[2]) /\ KeyLen + j \in 1 .. Len(b) /\ at + (KeyLen + j) = (at + KeyLen) + j
      BY <1>1, <1>2, <1>4
    <3>2. b[KeyLen + j] = c[j]
      BY <1>1, <3>1
    <3> QED
      BY <1>3, <2>3, <3>1, <3>2
  <2>4. at + KeyLen \in 0 .. Len(cells) /\ Agrees(cells, at + KeyLen, c)
    BY <1>4, <1>8, <2>3 DEF Agrees
  <2>5. (at + KeyLen) + (1 + Len(r[2])) = end
    BY <1>1, <1>4
  <2>6. ReadsTo(response, Len(cells), r[2], end)
    <3>1. ReadsTo(Prefixed(cells, at + KeyLen), Len(cells), r[2], (at + KeyLen) + (1 + Len(r[2])))
      BY <1>1, <2>4, PrefixedReads DEF c
    <3> QED
      BY <2>2, <2>5, <3>1 DEF response
  <2> HIDE DEF end
  <2>7. CASE end <= Len(cells)
    <3>1. response = Read(r[2], end)
      BY <2>6, <2>7, Zenon DEF ReadsTo
    <3>2. response.ok /\ response.value = r[2] /\ response.at = end
      BY <3>1 DEF Read
    <3>3. FromResponse(cells, at) = Read(r, end)
      BY <1>1, <1>5, <2>2, <3>2, Zenon
    <3> QED
      BY <2>7, <3>3, Zenon DEF ReadsTo, end, b
  <2>8. CASE ~ (end <= Len(cells))
    <3>1. ~ response.ok
      BY <2>6, <2>8, Zenon DEF ReadsTo
    <3>2. ~ FromResponse(cells, at).ok
      BY <1>5, <1>7, <3>1, Zenon
    <3> QED
      BY <2>8, <3>2, Zenon DEF ReadsTo, end, b
  <2> QED
    BY <2>7, <2>8
<1>9. CASE ~ (at + KeyLen <= Len(cells))
  <2>1. ~ preimage.ok
    BY <1>6, <1>9, Zenon DEF ReadsTo
  <2>2. ~ FromResponse(cells, at).ok
    BY <1>5, <1>7, <2>1, Zenon
  <2>3. ~ (end <= Len(cells))
    BY <1>1, <1>4, <1>9
  <2> QED
    BY <2>2, <2>3, Zenon DEF ReadsTo, b
<1> QED
  BY <1>8, <1>9

\* The recursion of FromResponses ends.
ResponseSteps(count, cells, at, f) ==
  f = [i \in 0 .. count |-> IF i = 0 THEN Read(<<>>, at)
                            ELSE Then(f[i - 1], FromResponse(cells, f[i - 1].at))]

LEMMA ResponseStepsExist ==
  ASSUME NEW cells, NEW at, NEW n \in Nat
  PROVE  \E f : ResponseSteps(n, cells, at, f)
<1> DEFINE next(before) == Then(before, FromResponse(cells, before.at))
           S == {k \in Nat : \E f : ResponseSteps(k, cells, at, f)}
<1>1. 0 \in S
  <2> DEFINE f == [i \in 0 .. 0 |-> Read(<<>>, at)]
  <2>1. \A i \in 0 .. 0 : i = 0
    OBVIOUS
  <2>2. ResponseSteps(0, cells, at, f)
    BY <2>1 DEF ResponseSteps
  <2> QED
    BY <2>2
<1>2. ASSUME NEW k \in Nat, k \in S
      PROVE  k + 1 \in S
  <2>1. PICK f : ResponseSteps(k, cells, at, f)
    BY <1>2
  <2> DEFINE g == [i \in 0 .. k + 1 |-> IF i = k + 1 THEN next(f[k]) ELSE f[i]]
  <2> HIDE DEF next
  <2>2. \A i \in 0 .. k : g[i] = f[i] /\ f[i] = IF i = 0 THEN Read(<<>>, at) ELSE next(f[i - 1])
    <3>1. f = [i \in 0 .. k |-> IF i = 0 THEN Read(<<>>, at) ELSE next(f[i - 1])]
      BY <2>1, Zenon DEF ResponseSteps, next
    <3>2. \A i \in 0 .. k : f[i] = IF i = 0 THEN Read(<<>>, at) ELSE next(f[i - 1])
      BY <3>1, Zenon
    <3>3. \A i \in 0 .. k : i # k + 1 /\ i \in 0 .. k + 1
      OBVIOUS
    <3>4. \A i \in 0 .. k : g[i] = f[i]
      BY <3>3, Zenon
    <3> QED
      BY <3>2, <3>4
  <2>3. ASSUME NEW i \in 0 .. k + 1
        PROVE  g[i] = IF i = 0 THEN Read(<<>>, at) ELSE next(g[i - 1])
    <3>1. CASE i = k + 1
      <4>1. g[i] = next(f[k]) /\ g[i - 1] = f[k] /\ i # 0
        BY <2>2, <3>1
      <4> QED
        BY <3>1, <4>1
    <3>2. CASE i # k + 1
      <4>1. i \in 0 .. k /\ (i # 0 => i - 1 \in 0 .. k)
        BY <3>2
      <4>2. i # 0 => g[i - 1] = f[i - 1]
        BY <2>2, <4>1
      <4>3. g[i] = f[i] /\ f[i] = IF i = 0 THEN Read(<<>>, at) ELSE next(f[i - 1])
        BY <2>2, <4>1
      <4> HIDE DEF g
      <4> QED
        BY <4>2, <4>3
    <3> QED
      BY <3>1, <3>2
  <2>4. g = [i \in 0 .. k + 1 |-> IF i = 0 THEN Read(<<>>, at) ELSE next(g[i - 1])]
    BY <2>3
  <2> HIDE DEF g
  <2>5. ResponseSteps(k + 1, cells, at, g)
    BY <2>4, Zenon DEF ResponseSteps, next
  <2> QED
    BY <2>5
<1>3. Nat \subseteq S
  <2> HIDE DEF S
  <2> QED
    BY <1>1, <1>2, EveryNumber
<1> QED
  BY <1>3

LEMMA FromResponsesSteps ==
  ASSUME NEW cells, NEW at, NEW n \in Nat
  PROVE  \E f : ResponseSteps(n, cells, at, f) /\ FromResponses(n, cells, at) = f[n]
<1> DEFINE f == CHOOSE f : f = [i \in 0 .. n |-> IF i = 0 THEN Read(<<>>, at)
                        ELSE Then(f[i - 1], FromResponse(cells, f[i - 1].at))]
<1>0. \E g : ResponseSteps(n, cells, at, g)
  BY ResponseStepsExist
<1>1. ResponseSteps(n, cells, at, f)
  BY <1>0, Zenon DEF ResponseSteps
<1>2. FromResponses(n, cells, at) = f[n]
  BY Zenon DEF FromResponses
<1> QED
  BY <1>1, <1>2

LEMMA ResponsesRead ==
  ASSUME NEW cells \in Seq(Nat), NEW at \in 0 .. Len(cells), NEW v \in Seq(Response),
         Agrees(cells, at, FlattenSeq(ResponseParts(v)))
  PROVE  ReadsTo(FromResponses(Len(v), cells, at), Len(cells), v,
                 at + Len(FlattenSeq(ResponseParts(v))))
<1> DEFINE n == Len(v)
           parts == ResponseParts(v)
           bytes == FlattenSeq(parts)
           prefix(i) == SubSeq(v, 1, i)
<1>1. /\ parts \in Seq(Seq(Nat)) /\ Len(parts) = n /\ n \in Nat
      /\ \A i \in 1 .. n : v[i] \in Response /\ parts[i] = ResponseBytes(v[i])
  BY ResponsesLaid
<1>2. PICK off : Laid(parts, n, off, bytes)
  BY <1>1, FlattenLays
<1>3. PICK f : ResponseSteps(n, cells, at, f) /\ FromResponses(n, cells, at) = f[n]
  BY <1>1, FromResponsesSteps
<1>4. Agrees(cells, at, bytes)
  OBVIOUS
<1> HIDE DEF parts, bytes, n
<1>5. /\ off \in [0 .. n -> Nat] /\ off[0] = 0 /\ Len(bytes) = off[n]
      /\ \A i \in 1 .. n : off[i] = off[i - 1] + Len(parts[i])
      /\ \A i \in 0 .. n : off[i] <= Len(bytes)
      /\ \A i \in 1 .. n : \A j \in 1 .. Len(parts[i]) : bytes[off[i - 1] + j] = parts[i][j]
  BY <1>2 DEF Laid, Offsets
<1>6. ASSUME NEW i \in 1 .. n
      PROVE  off[i - 1] \in Nat /\ off[i] \in Nat /\ Len(parts[i]) \in Nat /\ Len(bytes) \in Nat
  <2>1. i - 1 \in 0 .. n /\ i \in 0 .. n /\ n \in 0 .. n /\ i \in 1 .. Len(parts)
    BY <1>1
  <2>2. parts[i] \in Seq(Nat)
    BY <1>1, <2>1
  <2>3. Len(parts[i]) \in Nat
    BY <2>2
  <2> QED
    BY <1>5, <2>1, <2>3
<1>7. ASSUME NEW i \in 1 .. n, at + off[i - 1] <= Len(cells)
      PROVE  ReadsTo(FromResponse(cells, at + off[i - 1]), Len(cells), v[i], at + off[i])
  <2>1. off[i - 1] \in Nat /\ off[i] \in Nat /\ Len(parts[i]) \in Nat /\ Len(bytes) \in Nat /\ i \in 0 .. n
    BY <1>1, <1>6
  <2>2. ASSUME NEW j \in 1 .. Len(parts[i]), (at + off[i - 1]) + j <= Len(cells)
        PROVE  cells[(at + off[i - 1]) + j] = parts[i][j]
    <3>1. off[i - 1] + Len(parts[i]) <= Len(bytes)
      BY <1>5, <2>1
    <3>2. off[i - 1] + j \in 1 .. Len(bytes) /\ at + (off[i - 1] + j) = (at + off[i - 1]) + j
      BY <2>1, <3>1
    <3>3. cells[at + (off[i - 1] + j)] = bytes[off[i - 1] + j]
      BY <1>4, <2>2, <3>2 DEF Agrees
    <3> QED
      BY <1>5, <3>2, <3>3
  <2> DEFINE start == at + off[i - 1]
  <2>3. Agrees(cells, start, parts[i])
    BY <2>2 DEF Agrees
  <2>4. start \in 0 .. Len(cells)
    BY <1>7, <2>1
  <2>5. off[i] = off[i - 1] + Len(parts[i])
    BY <1>5
  <2>6. start + Len(parts[i]) = at + off[i]
    BY <2>1, <2>5
  <2>7. v[i] \in Response /\ parts[i] = ResponseBytes(v[i])
    BY <1>1
  <2> HIDE DEF start
  <2>8. ReadsTo(FromResponse(cells, start), Len(cells), v[i], start + Len(parts[i]))
    BY <2>3, <2>4, <2>7, ResponseReads
  <2> QED
    BY <2>6, <2>8 DEF start
<1> DEFINE S == {k \in Nat : k \in 0 .. n => ReadsTo(f[k], Len(cells), prefix(k), at + off[k])}
<1>8. f[0] = Read(<<>>, at)
  BY <1>1, <1>3 DEF ResponseSteps
<1>9. \A i \in 1 .. n : f[i] = Then(f[i - 1], FromResponse(cells, f[i - 1].at))
  BY <1>1, <1>3 DEF ResponseSteps
<1>10. 0 \in S
  <2>1. prefix(0) = <<>>
    OBVIOUS
  <2>2. ReadsTo(f[0], Len(cells), prefix(0), at + off[0])
    <3>1. at + off[0] = at /\ at <= Len(cells)
      BY <1>5
    <3> HIDE DEF prefix
    <3> QED
      BY <1>8, <2>1, <3>1, Zenon DEF ReadsTo
  <2> HIDE DEF prefix
  <2> QED
    BY <2>2
<1>11. ASSUME NEW k \in Nat, k \in S
       PROVE  k + 1 \in S
  <2> SUFFICES ASSUME k + 1 \in 0 .. n
               PROVE  ReadsTo(f[k + 1], Len(cells), prefix(k + 1), at + off[k + 1])
    OBVIOUS
  <2>1. k \in 0 .. n /\ k + 1 \in 1 .. n /\ (k + 1) - 1 = k
    BY <1>1
  <2> DEFINE next == FromResponse(cells, at + off[k])
  <2>2. ReadsTo(f[k], Len(cells), prefix(k), at + off[k])
    BY <1>11, <2>1
  <2>3. f[k + 1] = Then(f[k], FromResponse(cells, f[k].at))
    BY <1>9, <2>1
  <2>4. /\ off[k] \in Nat /\ off[k + 1] \in Nat /\ off[k] <= off[k + 1] /\ Len(cells) \in Nat
        /\ at + off[k] <= at + off[k + 1]
    <3>1. off[k] \in Nat /\ off[k + 1] \in Nat /\ Len(parts[k + 1]) \in Nat
      BY <1>6, <2>1
    <3>2. off[k + 1] = off[k] + Len(parts[k + 1])
      BY <1>5, <2>1
    <3> QED
      BY <3>1, <3>2
  <2> HIDE DEF S
  <2>5. CASE at + off[k] <= Len(cells)
    <3>1. f[k] = Read(prefix(k), at + off[k])
      BY <2>2, <2>5, Zenon DEF ReadsTo
    <3>2. f[k].ok /\ f[k].value = prefix(k) /\ f[k].at = at + off[k]
      <4> HIDE DEF prefix
      <4> QED
        BY <3>1 DEF Read
    <3>3. ReadsTo(next, Len(cells), v[k + 1], at + off[k + 1])
      BY <1>7, <2>1, <2>5
    <3>4. f[k + 1] = Then(f[k], next)
      BY <2>3, <3>2
    <3> HIDE DEF next
    <3>5. CASE at + off[k + 1] <= Len(cells)
      <4>1. next = Read(v[k + 1], at + off[k + 1])
        BY <3>3, <3>5, Zenon DEF ReadsTo
      <4>2. next.ok /\ next.value = v[k + 1] /\ next.at = at + off[k + 1]
        BY <4>1 DEF Read
      <4>3. Append(prefix(k), v[k + 1]) = prefix(k + 1)
        BY <2>1 DEF n
      <4> HIDE DEF prefix
      <4>4. f[k + 1] = Read(prefix(k + 1), at + off[k + 1])
        BY <3>2, <3>4, <4>2, <4>3, Zenon DEF Then
      <4> QED
        BY <3>5, <4>4, Zenon DEF ReadsTo
    <3>6. CASE ~ (at + off[k + 1] <= Len(cells))
      <4>1. ~ next.ok /\ ~ Truncated.ok
        BY <3>3, <3>6 DEF ReadsTo, Truncated
      <4>2. ~ f[k + 1].ok
        BY <3>4, <4>1, Zenon DEF Then
      <4> QED
        BY <3>6, <4>2, Zenon DEF ReadsTo
    <3> QED
      BY <3>5, <3>6
  <2>6. CASE ~ (at + off[k] <= Len(cells))
    <3>1. ~ f[k].ok /\ ~ Truncated.ok
      BY <2>2, <2>6, Zenon DEF ReadsTo, Truncated
    <3>2. ~ f[k + 1].ok
      BY <2>3, <3>1, Zenon DEF Then
    <3>3. ~ (at + off[k + 1] <= Len(cells))
      BY <2>4, <2>6
    <3> QED
      BY <3>2, <3>3, Zenon DEF ReadsTo
  <2> QED
    BY <2>5, <2>6
<1>12. Nat \subseteq S
  <2> HIDE DEF S
  <2> QED
    BY <1>10, <1>11, EveryNumber
<1>13. ReadsTo(f[n], Len(cells), prefix(n), at + off[n])
  BY <1>1, <1>12
<1>14. prefix(n) = v
  BY DEF n
<1> QED
  BY <1>3, <1>5, <1>13, <1>14 DEF bytes, parts, n

FieldFacts(kind, v) ==
  /\ FieldBytes(kind, v) \in Seq(Nat)
  /\ kind = "key" => v \in Seq(Nat) /\ FieldBytes(kind, v) = v /\ Len(v) = KeyLen
  /\ kind = "blob" => v \in Seq(Nat) /\ FieldBytes(kind, v) = <<Len(v)>> \o v
  /\ kind = "url" => v \in Seq(Nat) /\ FieldBytes(kind, v) = <<Len(v) % W16>> \o v
  /\ kind = "keys" => v \in Seq(Key) /\ FieldBytes(kind, v) = <<Len(v) % W16>> \o FlattenSeq(v)
  /\ kind = "responses" =>
       v \in Seq(Response) /\ FieldBytes(kind, v) = <<Len(v) % W16>> \o FlattenSeq(ResponseParts(v))
  /\ kind = "number" => v \in Nat /\ FieldBytes(kind, v) = <<v>>
  /\ kind \in DOMAIN Tag => v = Tag[kind] /\ v \in Nat /\ FieldBytes(kind, v) = <<v>>

LEMMA Unwrapped ==
  ASSUME NEW w \in Nat, NEW n \in Nat, n < w
  PROVE  n % w = n
OBVIOUS

LEMMA FieldCells ==
  ASSUME NEW kind \in Kinds, NEW v \in Values(kind)
  PROVE  FieldFacts(kind, v)
<1>0. KeyLen \in Nat /\ W16 \in Nat \ {0} /\ Chars \subseteq Nat
  BY WireAssumption
<1>1. CASE kind = "key"
  BY <1>1, KeyCells DEF FieldFacts, Values, FieldBytes, Tag
<1>2. CASE kind = "blob"
  BY <1>2 DEF FieldFacts, Values, FieldBytes, Tag
<1>3. CASE kind = "url"
  <2>1. v \in Seq(Chars) /\ FieldBytes(kind, v) = <<Len(v) % W16>> \o v
    BY <1>3 DEF Values, FieldBytes
  <2>2. v \in Seq(Nat)
    <3>1. ASSUME NEW i \in 1 .. Len(v)
          PROVE  v[i] \in Nat
      <4>1. v[i] \in Chars
        BY <2>1
      <4> QED
        BY <1>0, <4>1
    <3>2. v = [i \in 1 .. Len(v) |-> v[i]] /\ Len(v) \in Nat
      BY <2>1
    <3> QED
      BY <3>1, <3>2
  <2>3. Len(v) % W16 \in Nat
    BY <1>0, <2>2
  <2>4. FieldBytes(kind, v) \in Seq(Nat)
    BY <2>1, <2>2, <2>3
  <2> QED
    BY <1>3, <2>1, <2>2, <2>4 DEF FieldFacts, Tag
<1>4. CASE kind = "keys"
  <2>1. v \in Seq(Key) /\ FieldBytes(kind, v) = <<Len(v) % W16>> \o FlattenSeq(v)
    BY <1>4 DEF Values, FieldBytes, Counted
  <2>2. FlattenSeq(v) \in Seq(Nat)
    BY <2>1, KeysLaid
  <2>3. Len(v) % W16 \in Nat
    BY <1>0, <2>1
  <2>4. FieldBytes(kind, v) \in Seq(Nat)
    BY <2>1, <2>2, <2>3
  <2> QED
    BY <1>4, <2>1, <2>4 DEF FieldFacts, Tag
<1>5. CASE kind = "responses"
  <2>1. v \in Seq(Response)
    BY <1>5 DEF Values
  <2> DEFINE parts == [i \in DOMAIN v |-> v[i][1] \o <<Len(v[i][2])>> \o v[i][2]]
  <2>2. parts = ResponseParts(v)
    <3>1. DOMAIN v = 1 .. Len(v)
      BY <2>1
    <3> QED
      BY <3>1, Zenon DEF ResponseParts, ResponseBytes
  <2> HIDE DEF parts
  <2>3. FieldBytes(kind, v) = Counted(Len(v), parts)
    BY <1>5 DEF FieldBytes, parts
  <2>4. FieldBytes(kind, v) = <<Len(v) % W16>> \o FlattenSeq(ResponseParts(v))
    BY <2>2, <2>3 DEF Counted
  <2>5. FlattenSeq(ResponseParts(v)) \in Seq(Nat) /\ Len(v) % W16 \in Nat
    <3>1. Len(v) \in Nat
      BY <2>1
    <3> QED
      BY <1>0, <2>1, <3>1, ResponsesLaid
  <2> DEFINE rest == FlattenSeq(ResponseParts(v))
             count == Len(v) % W16
  <2>6. <<count>> \o rest \in Seq(Nat)
    <3> HIDE DEF rest, count
    <3>1. rest \in Seq(Nat) /\ count \in Nat
      BY <2>5 DEF rest, count
    <3> QED
      BY <3>1
  <2>7. kind \notin DOMAIN Tag
    BY <1>5 DEF Tag
  <2> QED
    BY <1>5, <2>1, <2>4, <2>6, <2>7, Zenon DEF FieldFacts
<1>6. CASE kind = "number"
  BY <1>6 DEF FieldFacts, Values, FieldBytes, Tag
<1>7. CASE kind \in DOMAIN Tag
  <2>1. kind \in {"init", "complete", "message", "response"}
    BY <1>7 DEF FieldFacts, Tag
  <2>2. v = Tag[kind] /\ FieldBytes(kind, v) = <<v>>
    BY <2>1 DEF Values, FieldBytes
  <2>3. v \in Nat
    BY <2>1, <2>2 DEF FieldFacts, Tag
  <2> QED
    BY <2>1, <2>2, <2>3 DEF FieldFacts
<1> QED
  <2>1. kind \in {"key", "blob", "url", "keys", "responses", "number"} \/ kind \in DOMAIN Tag
    BY DEF Kinds
  <2> QED
    BY <2>1, <1>1, <1>2, <1>3, <1>4, <1>5, <1>6, <1>7, Zenon

LEMMA NumberReads ==
  ASSUME NEW cells \in Seq(Nat), NEW at \in 0 .. Len(cells), NEW v \in Nat, Agrees(cells, at, <<v>>)
  PROVE  ReadsTo(Number(cells, at), Len(cells), v, at + 1)
<1>1. CASE at < Len(cells)
  <2>1. cells[at + 1] = v
    BY <1>1 DEF Agrees
  <2>2. ~ (Len(cells) <= at) /\ at + 1 <= Len(cells)
    BY <1>1
  <2> QED
    BY <2>1, <2>2, Zenon DEF Number, ReadsTo
<1>2. CASE ~ (at < Len(cells))
  <2>1. Len(cells) <= at /\ ~ (at + 1 <= Len(cells))
    BY <1>2
  <2>2. ~ Truncated.ok
    BY DEF Truncated
  <2> QED
    BY <2>1, <2>2, Zenon DEF Number, ReadsTo
<1> QED
  BY <1>1, <1>2

\* A field is read as it was written, or not at all where cells end before it does.
LEMMA FieldReads ==
  ASSUME NEW cells \in Seq(Nat), NEW at \in 0 .. Len(cells), NEW kind \in Kinds, NEW v \in Values(kind),
         Fits(kind, v), Agrees(cells, at, FieldBytes(kind, v))
  PROVE  ReadsTo(FromField(kind, cells, at), Len(cells), v, at + Len(FieldBytes(kind, v)))
<1> DEFINE b == FieldBytes(kind, v)
           len == Len(cells)
<1>0. FieldFacts(kind, v)
  BY FieldCells
<1>1. W16 \in Nat \ {0} /\ at \in Nat /\ len \in Nat /\ Chars \subseteq Nat
  BY WireAssumption
<1>2. Agrees(cells, at, b)
  OBVIOUS
<1>3. CASE kind = "key"
  <2>1. v \in Seq(Nat) /\ b = v /\ Len(v) = KeyLen
    BY <1>0, <1>3 DEF FieldFacts
  <2>2. FromField(kind, cells, at) = Take(Len(v), cells, at)
    BY <1>3, <2>1 DEF FromField
  <2> HIDE DEF b
  <2> QED
    BY <1>2, <2>1, <2>2, TakeReads DEF b
<1>4. CASE kind = "blob"
  <2>1. v \in Seq(Nat) /\ b = <<Len(v)>> \o v
    BY <1>0, <1>4 DEF FieldFacts
  <2>2. Len(b) = 1 + Len(v)
    BY <2>1, OneCell
  <2>3. FromField(kind, cells, at) = Prefixed(cells, at)
    BY <1>4 DEF FromField
  <2>4. ReadsTo(Prefixed(cells, at), len, v, at + Len(b))
    BY <1>2, <2>1, <2>2, PrefixedReads
  <2> QED
    BY <2>3, <2>4
<1>5. CASE kind = "url"
  <2>1. v \in Seq(Nat) /\ b = <<Len(v) % W16>> \o v /\ v \in Seq(Chars) /\ Len(v) < W16
    BY <1>0, <1>5 DEF FieldFacts, Values, Fits
  <2>2. Len(v) % W16 = Len(v)
    BY <1>1, <2>1, Unwrapped
  <2>3. b = <<Len(v)>> \o v /\ Len(b) = 1 + Len(v)
    BY <2>1, <2>2, OneCell
  <2> DEFINE r == Prefixed(cells, at)
  <2>4. FromField(kind, cells, at) = Checked(ToSet(r.value) \subseteq Chars, r)
    BY <1>5 DEF FromField
  <2>5. ReadsTo(r, len, v, at + Len(b))
    BY <1>2, <2>1, <2>3, PrefixedReads
  <2> HIDE DEF r, b, len
  <2>6. CASE at + Len(b) <= len
    <3>1. r = Read(v, at + Len(b))
      BY <2>5, <2>6 DEF ReadsTo
    <3>2. r.value = v
      BY <3>1 DEF Read
    <3>3. ToSet(v) \subseteq Chars
      BY <2>1 DEF ToSet
    <3> QED
      BY <2>4, <2>5, <3>2, <3>3, Zenon DEF Checked, b, len
  <2>7. CASE ~ (at + Len(b) <= len)
    <3>1. ~ r.ok
      BY <2>5, <2>7 DEF ReadsTo
    <3>2. ~ Truncated.ok
      BY DEF Truncated
    <3>3. ~ FromField(kind, cells, at).ok
      BY <2>4, <3>1, <3>2 DEF Checked
    <3> QED
      BY <2>7, <3>3, Zenon DEF ReadsTo, b, len
  <2> QED
    BY <2>6, <2>7
<1>6. CASE kind = "keys"
  <2> DEFINE list == FlattenSeq(v)
  <2>1. v \in Seq(Key) /\ b = <<Len(v) % W16>> \o list /\ Len(v) < W16 /\ list \in Seq(Nat)
    BY <1>0, <1>6, KeysLaid DEF FieldFacts, Fits
  <2>2. Len(v) % W16 = Len(v) /\ Len(v) \in Nat
    BY <1>1, <2>1, Unwrapped
  <2> HIDE DEF list, b
  <2>3. b = <<Len(v)>> \o list /\ Len(b) = 1 + Len(list) /\ Len(list) \in Nat
    BY <2>1, <2>2, OneCell
  <2>4. CASE at < len
    <3>1. cells[at + 1] = Len(v) /\ at + 1 \in 0 .. Len(cells) /\ Agrees(cells, at + 1, list)
      BY <1>1, <1>2, <2>1, <2>2, <2>3, <2>4, Onward
    <3>2. ~ (Len(cells) <= at)
      BY <1>1, <2>4
    <3>3. FromField(kind, cells, at) = FromKeys(Len(v), cells, at + 1)
      BY <1>6, <3>1, <3>2 DEF FromField
    <3>4. ReadsTo(FromKeys(Len(v), cells, at + 1), Len(cells), v, (at + 1) + Len(list))
      BY <2>1, <3>1, KeysRead DEF list
    <3>5. (at + 1) + Len(list) = at + Len(b)
      BY <1>1, <2>3
    <3> QED
      BY <3>3, <3>4, <3>5 DEF b
  <2>5. CASE ~ (at < len)
    <3>1. Len(cells) <= at /\ ~ (at + Len(b) <= len)
      BY <1>1, <2>3, <2>5
    <3>2. FromField(kind, cells, at) = Truncated
      BY <1>6, <3>1 DEF FromField
    <3>3. ~ Truncated.ok
      BY DEF Truncated
    <3> QED
      BY <3>1, <3>2, <3>3, Zenon DEF ReadsTo, b
  <2> QED
    BY <2>4, <2>5
<1>7. CASE kind = "responses"
  <2> DEFINE list == FlattenSeq(ResponseParts(v))
  <2>1. v \in Seq(Response) /\ b = <<Len(v) % W16>> \o list /\ Len(v) < W16 /\ list \in Seq(Nat)
    BY <1>0, <1>7, ResponsesLaid DEF FieldFacts, Fits
  <2>2. Len(v) % W16 = Len(v) /\ Len(v) \in Nat
    BY <1>1, <2>1, Unwrapped
  <2> HIDE DEF list, b
  <2>3. b = <<Len(v)>> \o list /\ Len(b) = 1 + Len(list) /\ Len(list) \in Nat
    BY <2>1, <2>2, OneCell
  <2>4. CASE at < len
    <3>1. cells[at + 1] = Len(v) /\ at + 1 \in 0 .. Len(cells) /\ Agrees(cells, at + 1, list)
      BY <1>1, <1>2, <2>1, <2>2, <2>3, <2>4, Onward
    <3>2. ~ (Len(cells) <= at)
      BY <1>1, <2>4
    <3>3. FromField(kind, cells, at) = FromResponses(Len(v), cells, at + 1)
      BY <1>7, <3>1, <3>2 DEF FromField
    <3>4. ReadsTo(FromResponses(Len(v), cells, at + 1), Len(cells), v, (at + 1) + Len(list))
      BY <2>1, <3>1, ResponsesRead DEF list
    <3>5. (at + 1) + Len(list) = at + Len(b)
      BY <1>1, <2>3
    <3> QED
      BY <3>3, <3>4, <3>5 DEF b
  <2>5. CASE ~ (at < len)
    <3>1. Len(cells) <= at /\ ~ (at + Len(b) <= len)
      BY <1>1, <2>3, <2>5
    <3>2. FromField(kind, cells, at) = Truncated
      BY <1>7, <3>1 DEF FromField
    <3>3. ~ Truncated.ok
      BY DEF Truncated
    <3> QED
      BY <3>1, <3>2, <3>3, Zenon DEF ReadsTo, b
  <2> QED
    BY <2>4, <2>5
<1>8. CASE kind = "number"
  <2>1. v \in Nat /\ b = <<v>> /\ Len(b) = 1
    BY <1>0, <1>8 DEF FieldFacts
  <2>2. FromField(kind, cells, at) = Number(cells, at)
    BY <1>8 DEF FromField
  <2> HIDE DEF b
  <2> QED
    BY <1>2, <2>1, <2>2, NumberReads DEF b
<1>9. CASE kind \in DOMAIN Tag
  <2>1. v = Tag[kind] /\ v \in Nat /\ b = <<v>> /\ Len(b) = 1
    BY <1>0, <1>9 DEF FieldFacts
  <2>2. FromField(kind, cells, at) = Checked(at < Len(cells) /\ cells[at + 1] = v, Number(cells, at))
    <3>1. kind \in {"init", "complete", "message", "response"}
      BY <1>9 DEF Tag
    <3> QED
      BY <2>1, <3>1 DEF FromField
  <2> HIDE DEF b
  <2>3. ReadsTo(Number(cells, at), Len(cells), v, at + 1)
    BY <1>2, <2>1, NumberReads
  <2>4. CASE at < len
    <3>1. cells[at + 1] = v
      BY <1>1, <1>2, <2>1, <2>4 DEF Agrees
    <3> QED
      BY <2>1, <2>2, <2>3, <2>4, <3>1, Zenon DEF Checked, b
  <2>5. CASE ~ (at < len)
    <3>1. ~ (at + 1 <= Len(cells)) /\ ~ Truncated.ok
      BY <1>1, <2>5 DEF Truncated
    <3>2. ~ FromField(kind, cells, at).ok
      BY <2>2, <2>5, <3>1 DEF Checked
    <3> QED
      BY <2>1, <3>1, <3>2, Zenon DEF ReadsTo, b
  <2> QED
    BY <2>4, <2>5
<1>10. kind \in {"key", "blob", "url", "keys", "responses", "number"} \/ kind \in DOMAIN Tag
  BY DEF Kinds
<1> QED
  BY <1>3, <1>4, <1>5, <1>6, <1>7, <1>8, <1>9, <1>10, Zenon

(***************************************************************************)
(* One message                                                             *)
(***************************************************************************)
\* What a field may hold.
Field == UNION {Values(kind) : kind \in Kinds}

\* The values of a message, and those among them that 16 bits count.
Typed(name, values) ==
  /\ values \in Seq(Field) /\ Len(values) = Len(Layout[name])
  /\ \A i \in 1 .. Len(values) : values[i] \in Values(Layout[name][i])

Short(name, values) == \A i \in 1 .. Len(values) : Fits(Layout[name][i], values[i])

Parts(name, values) == [i \in DOMAIN Layout[name] |-> FieldBytes(Layout[name][i], values[i])]

LEMMA LayoutKinds ==
  ASSUME NEW name \in DOMAIN Layout
  PROVE  Layout[name] \in Seq(Kinds) /\ Layout[name] # <<>>
<1>1. /\ Hello \in Seq(Kinds) /\ IAm \in Seq(Kinds) /\ Send \in Seq(Kinds)
      /\ UpdateCommits \in Seq(Kinds) /\ Deliver \in Seq(Kinds) /\ Ack \in Seq(Kinds)
      /\ SendResult \in Seq(Kinds)
  BY DEF Hello, IAm, Send, UpdateCommits, Deliver, Ack, SendResult, Kinds
<1>2. /\ HandshakeInit \in Seq(Kinds) /\ HandshakeComplete \in Seq(Kinds)
      /\ DeviceMessage \in Seq(Kinds) /\ DeviceMessageResponse \in Seq(Kinds)
  BY DEF HandshakeInit, HandshakeComplete, DeviceMessage, DeviceMessageResponse, Kinds, Tag
<1>3. /\ <<>> \notin {Hello, IAm, Send, UpdateCommits, Deliver, Ack, SendResult}
      /\ <<>> \notin {HandshakeInit, HandshakeComplete, DeviceMessage, DeviceMessageResponse}
  BY DEF Hello, IAm, Send, UpdateCommits, Deliver, Ack, SendResult,
         HandshakeInit, HandshakeComplete, DeviceMessage, DeviceMessageResponse
<1> HIDE DEF Hello, IAm, Send, UpdateCommits, Deliver, Ack, SendResult,
         HandshakeInit, HandshakeComplete, DeviceMessage, DeviceMessageResponse
<1>4. Layout[name] \in
        {Hello, IAm, Send, UpdateCommits, Deliver, Ack, SendResult,
         HandshakeInit, HandshakeComplete, DeviceMessage, DeviceMessageResponse}
  BY DEF Layout
<1> QED
  BY <1>1, <1>2, <1>3, <1>4

LEMMA PartsCells ==
  ASSUME NEW name \in DOMAIN Layout, NEW values, Typed(name, values)
  PROVE  /\ Parts(name, values) \in Seq(Seq(Nat))
         /\ Len(Parts(name, values)) = Len(Layout[name])
         /\ ToBytes(name, values) = FlattenSeq(Parts(name, values))
         /\ \A i \in 1 .. Len(Layout[name]) :
              /\ Layout[name][i] \in Kinds /\ values[i] \in Values(Layout[name][i])
              /\ Parts(name, values)[i] = FieldBytes(Layout[name][i], values[i])
<1> DEFINE layout == Layout[name]
<1>1. layout \in Seq(Kinds)
  BY LayoutKinds
<1>2. Len(layout) \in Nat /\ DOMAIN layout = 1 .. Len(layout)
  BY <1>1
<1>3. \A i \in 1 .. Len(layout) : layout[i] \in Kinds
  BY <1>1
<1>4. \A i \in 1 .. Len(layout) : values[i] \in Values(layout[i])
  BY DEF Typed
<1> HIDE DEF layout
<1>5. ASSUME NEW i \in 1 .. Len(layout)
      PROVE  FieldBytes(layout[i], values[i]) \in Seq(Nat)
  BY <1>3, <1>4, FieldCells DEF FieldFacts
<1>6. Parts(name, values) = [i \in 1 .. Len(layout) |-> FieldBytes(layout[i], values[i])]
  BY <1>2, Zenon DEF Parts, layout
<1>7. Parts(name, values) \in Seq(Seq(Nat)) /\ Len(Parts(name, values)) = Len(layout)
  BY <1>2, <1>5, <1>6
<1>8. ToBytes(name, values) = FlattenSeq(Parts(name, values))
  BY Zenon DEF ToBytes, Parts
<1> QED
  BY <1>3, <1>4, <1>6, <1>7, <1>8 DEF layout

\* The recursion of FromBytes ends.
Steps(name, cells, n, f) ==
  f = [i \in 0 .. n |-> IF i = 0 THEN Read(<<>>, 0)
                        ELSE Then(f[i - 1], FromField(Layout[name][i], cells, f[i - 1].at))]

LEMMA StepsExist ==
  ASSUME NEW name, NEW cells, NEW n \in Nat
  PROVE  \E f : Steps(name, cells, n, f)
<1> DEFINE next(i, before) == Then(before, FromField(Layout[name][i], cells, before.at))
           S == {k \in Nat : \E f : Steps(name, cells, k, f)}
<1>1. 0 \in S
  <2> DEFINE f == [i \in 0 .. 0 |-> Read(<<>>, 0)]
  <2>1. \A i \in 0 .. 0 : i = 0
    OBVIOUS
  <2>2. Steps(name, cells, 0, f)
    BY <2>1 DEF Steps
  <2> QED
    BY <2>2
<1>2. ASSUME NEW k \in Nat, k \in S
      PROVE  k + 1 \in S
  <2>1. PICK f : Steps(name, cells, k, f)
    BY <1>2
  <2> DEFINE g == [i \in 0 .. k + 1 |-> IF i = k + 1 THEN next(k + 1, f[k]) ELSE f[i]]
  <2> HIDE DEF next
  <2>2. \A i \in 0 .. k : g[i] = f[i] /\ f[i] = IF i = 0 THEN Read(<<>>, 0) ELSE next(i, f[i - 1])
    <3>1. f = [i \in 0 .. k |-> IF i = 0 THEN Read(<<>>, 0) ELSE next(i, f[i - 1])]
      BY <2>1, Zenon DEF Steps, next
    <3>2. \A i \in 0 .. k : f[i] = IF i = 0 THEN Read(<<>>, 0) ELSE next(i, f[i - 1])
      BY <3>1, Zenon
    <3>3. \A i \in 0 .. k : i # k + 1 /\ i \in 0 .. k + 1
      OBVIOUS
    <3>4. \A i \in 0 .. k : g[i] = f[i]
      BY <3>3, Zenon
    <3> QED
      BY <3>2, <3>4
  <2>3. ASSUME NEW i \in 0 .. k + 1
        PROVE  g[i] = IF i = 0 THEN Read(<<>>, 0) ELSE next(i, g[i - 1])
    <3>1. CASE i = k + 1
      <4>1. g[i] = next(k + 1, f[k]) /\ g[i - 1] = f[k] /\ i # 0
        BY <2>2, <3>1
      <4> QED
        BY <3>1, <4>1
    <3>2. CASE i # k + 1
      <4>1. i \in 0 .. k /\ (i # 0 => i - 1 \in 0 .. k)
        BY <3>2
      <4>2. i # 0 => g[i - 1] = f[i - 1]
        BY <2>2, <4>1
      <4>3. g[i] = f[i] /\ f[i] = IF i = 0 THEN Read(<<>>, 0) ELSE next(i, f[i - 1])
        BY <2>2, <4>1
      <4> HIDE DEF g
      <4> QED
        BY <4>2, <4>3
    <3> QED
      BY <3>1, <3>2
  <2>4. g = [i \in 0 .. k + 1 |-> IF i = 0 THEN Read(<<>>, 0) ELSE next(i, g[i - 1])]
    BY <2>3
  <2> HIDE DEF g
  <2>5. Steps(name, cells, k + 1, g)
    BY <2>4, Zenon DEF Steps, next
  <2> QED
    BY <2>5
<1>3. Nat \subseteq S
  <2> HIDE DEF S
  <2> QED
    BY <1>1, <1>2, EveryNumber
<1> QED
  BY <1>3

LEMMA FromBytesSteps ==
  ASSUME NEW name, NEW cells, NEW n \in Nat, n = Len(Layout[name])
  PROVE  \E f : Steps(name, cells, n, f) /\ FromBytes(name, cells) = f[n]
<1> DEFINE f == CHOOSE f : f = [i \in 0 .. n |-> IF i = 0 THEN Read(<<>>, 0)
                        ELSE Then(f[i - 1], FromField(Layout[name][i], cells, f[i - 1].at))]
<1>0. \E g : Steps(name, cells, n, g)
  BY StepsExist
<1>1. Steps(name, cells, n, f)
  BY <1>0, Zenon DEF Steps
<1>2. FromBytes(name, cells) = f[n]
  BY Zenon DEF FromBytes
<1> QED
  BY <1>1, <1>2

\* Of a beginning of a message, the fields that are there are read.
LEMMA BeginningRead ==
  ASSUME NEW name \in DOMAIN Layout, NEW values, Typed(name, values), Short(name, values),
         NEW off, Laid(Parts(name, values), Len(Layout[name]), off, ToBytes(name, values)),
         NEW cells \in Seq(Nat), Len(cells) <= Len(ToBytes(name, values)),
         \A j \in 1 .. Len(cells) : cells[j] = ToBytes(name, values)[j]
  PROVE  ReadsTo(FromBytes(name, cells), Len(cells), values, Len(ToBytes(name, values)))
<1> DEFINE n == Len(Layout[name])
           parts == Parts(name, values)
           bytes == ToBytes(name, values)
           prefix(i) == SubSeq(values, 1, i)
<1>1. /\ n \in Nat /\ values \in Seq(Field) /\ Len(values) = n
      /\ \A i \in 1 .. n : /\ Layout[name][i] \in Kinds /\ values[i] \in Values(Layout[name][i])
                           /\ parts[i] = FieldBytes(Layout[name][i], values[i])
                           /\ Fits(Layout[name][i], values[i])
  BY LayoutKinds, PartsCells DEF Typed, Short
<1>2. \A i \in 1 .. n : parts[i] \in Seq(Nat)
  BY PartsCells
<1>3. PICK f : Steps(name, cells, n, f) /\ FromBytes(name, cells) = f[n]
  BY <1>1, FromBytesSteps
<1>4. /\ Laid(parts, n, off, bytes) /\ Len(cells) <= Len(bytes)
      /\ \A j \in 1 .. Len(cells) : cells[j] = bytes[j]
  OBVIOUS
<1> HIDE DEF parts, bytes, n
<1>5. /\ off \in [0 .. n -> Nat] /\ off[0] = 0 /\ Len(bytes) = off[n]
      /\ \A i \in 1 .. n : off[i] = off[i - 1] + Len(parts[i])
      /\ \A i \in 0 .. n : off[i] <= Len(bytes)
      /\ \A i \in 1 .. n : \A j \in 1 .. Len(parts[i]) : bytes[off[i - 1] + j] = parts[i][j]
  BY <1>4 DEF Laid, Offsets
<1>6. ASSUME NEW i \in 1 .. n, off[i - 1] <= Len(cells)
      PROVE  /\ off[i - 1] \in 0 .. Len(cells)
             /\ Agrees(cells, off[i - 1], parts[i])
  <2>1. off[i - 1] \in Nat /\ Len(parts[i]) \in Nat
    <3>1. i - 1 \in 0 .. n /\ parts[i] \in Seq(Nat)
      BY <1>1, <1>2
    <3> QED
      BY <1>5, <3>1
  <2>2. ASSUME NEW j \in 1 .. Len(parts[i]), off[i - 1] + j <= Len(cells)
        PROVE  cells[off[i - 1] + j] = parts[i][j]
    <3>1. off[i - 1] + j \in 1 .. Len(cells)
      BY <2>1, <2>2
    <3> QED
      BY <1>4, <1>5, <3>1
  <2> QED
    BY <1>6, <2>1, <2>2 DEF Agrees
<1>7. ASSUME NEW i \in 1 .. n, off[i - 1] <= Len(cells)
      PROVE  ReadsTo(FromField(Layout[name][i], cells, off[i - 1]), Len(cells), values[i], off[i])
  <2>1. off[i - 1] \in 0 .. Len(cells) /\ Agrees(cells, off[i - 1], parts[i])
    BY <1>6, <1>7
  <2>2. off[i] = off[i - 1] + Len(parts[i])
    BY <1>5
  <2>3. /\ Layout[name][i] \in Kinds /\ values[i] \in Values(Layout[name][i])
        /\ parts[i] = FieldBytes(Layout[name][i], values[i]) /\ Fits(Layout[name][i], values[i])
    BY <1>1
  <2> QED
    BY <2>1, <2>2, <2>3, FieldReads
<1> DEFINE S == {k \in Nat : k \in 0 .. n => ReadsTo(f[k], Len(cells), prefix(k), off[k])}
<1>8. f[0] = Read(<<>>, 0)
  BY <1>1, <1>3 DEF Steps
<1>9. \A i \in 1 .. n : f[i] = Then(f[i - 1], FromField(Layout[name][i], cells, f[i - 1].at))
  BY <1>1, <1>3 DEF Steps
<1>10. 0 \in S
  <2>1. prefix(0) = <<>>
    BY <1>1
  <2>2. ReadsTo(f[0], Len(cells), prefix(0), off[0])
    <3>1. off[0] = 0 /\ off[0] <= Len(cells)
      BY <1>5
    <3> HIDE DEF prefix
    <3> QED
      BY <1>8, <2>1, <3>1, Zenon DEF ReadsTo
  <2> HIDE DEF prefix
  <2> QED
    BY <2>2
<1>11. ASSUME NEW k \in Nat, k \in S
       PROVE  k + 1 \in S
  <2> SUFFICES ASSUME k + 1 \in 0 .. n
               PROVE  ReadsTo(f[k + 1], Len(cells), prefix(k + 1), off[k + 1])
    OBVIOUS
  <2>1. k \in 0 .. n /\ k + 1 \in 1 .. n /\ (k + 1) - 1 = k
    BY <1>1
  <2> DEFINE next == FromField(Layout[name][k + 1], cells, off[k])
  <2>2. ReadsTo(f[k], Len(cells), prefix(k), off[k])
    BY <1>11, <2>1
  <2>3. f[k + 1] = Then(f[k], FromField(Layout[name][k + 1], cells, f[k].at))
    BY <1>9, <2>1
  <2>4. off[k] \in Nat /\ off[k + 1] \in Nat /\ off[k] <= off[k + 1] /\ Len(cells) \in Nat
    BY <1>2, <1>5, <2>1
  <2> HIDE DEF S
  <2>5. CASE off[k] <= Len(cells)
    <3>1. f[k] = Read(prefix(k), off[k])
      BY <2>2, <2>5, Zenon DEF ReadsTo
    <3>2. f[k].ok /\ f[k].value = prefix(k) /\ f[k].at = off[k]
      <4> HIDE DEF prefix
      <4> QED
        BY <3>1 DEF Read
    <3>3. ReadsTo(next, Len(cells), values[k + 1], off[k + 1])
      BY <1>7, <2>1, <2>5
    <3>4. f[k + 1] = Then(f[k], next)
      BY <2>3, <3>2
    <3> HIDE DEF next
    <3>5. CASE off[k + 1] <= Len(cells)
      <4>1. next = Read(values[k + 1], off[k + 1])
        BY <3>3, <3>5, Zenon DEF ReadsTo
      <4>2. next.ok /\ next.value = values[k + 1] /\ next.at = off[k + 1]
        BY <4>1 DEF Read
      <4>3. Append(prefix(k), values[k + 1]) = prefix(k + 1)
        BY <1>1, <2>1
      <4> HIDE DEF prefix
      <4>4. f[k + 1] = Read(prefix(k + 1), off[k + 1])
        BY <3>2, <3>4, <4>2, <4>3, Zenon DEF Then
      <4> QED
        BY <3>5, <4>4, Zenon DEF ReadsTo
    <3>6. CASE ~ (off[k + 1] <= Len(cells))
      <4>1. ~ next.ok /\ ~ Truncated.ok
        BY <3>3, <3>6 DEF ReadsTo, Truncated
      <4>2. ~ f[k + 1].ok
        BY <3>4, <4>1, Zenon DEF Then
      <4> QED
        BY <3>6, <4>2, Zenon DEF ReadsTo
    <3> QED
      BY <3>5, <3>6
  <2>6. CASE ~ (off[k] <= Len(cells))
    <3>1. ~ f[k].ok /\ ~ Truncated.ok
      BY <2>2, <2>6, Zenon DEF ReadsTo, Truncated
    <3>2. ~ f[k + 1].ok
      BY <2>3, <3>1, Zenon DEF Then
    <3>3. ~ (off[k + 1] <= Len(cells))
      BY <2>4, <2>6
    <3> QED
      BY <3>2, <3>3, Zenon DEF ReadsTo
  <2> QED
    BY <2>5, <2>6
<1>12. Nat \subseteq S
  <2> HIDE DEF S
  <2> QED
    BY <1>10, <1>11, EveryNumber
<1>13. ReadsTo(f[n], Len(cells), prefix(n), off[n])
  BY <1>1, <1>12
<1>14. prefix(n) = values
  BY <1>1
<1> QED
  BY <1>3, <1>5, <1>13, <1>14 DEF bytes

\* What to_bytes wrote from_bytes reads, whole, with fields and lists of any length
\* that their counts hold, and no beginning of it is taken for a message.  An I_AM
\* may have any responses, though IAm::new gives none.
THEOREM RoundTrip ==
  ASSUME NEW name \in DOMAIN Layout, NEW values, Typed(name, values), Short(name, values)
  PROVE  /\ FromBytes(name, ToBytes(name, values)) = Read(values, Len(ToBytes(name, values)))
         /\ CutRefused(name, ToBytes(name, values))
<1> DEFINE bytes == ToBytes(name, values)
<1>1. PICK off : Laid(Parts(name, values), Len(Layout[name]), off, bytes)
  BY PartsCells, FlattenLays
<1>2. bytes \in Seq(Nat) /\ Len(bytes) \in Nat
  BY <1>1 DEF Laid
<1>3. FromBytes(name, bytes) = Read(values, Len(bytes))
  <2>1. ReadsTo(FromBytes(name, bytes), Len(bytes), values, Len(bytes))
    BY <1>1, <1>2, BeginningRead
  <2>2. Len(bytes) <= Len(bytes)
    BY <1>2
  <2> HIDE DEF bytes
  <2> QED
    BY <2>1, <2>2, Zenon DEF ReadsTo
<1>4. ASSUME NEW k \in 0 .. Len(bytes) - 1
      PROVE  ~ FromBytes(name, SubSeq(bytes, 1, k)).ok
  <2> DEFINE cut == SubSeq(bytes, 1, k)
  <2> HIDE DEF bytes
  <2>1. cut \in Seq(Nat) /\ Len(cut) = k /\ k < Len(bytes) /\ \A j \in 1 .. k : cut[j] = bytes[j]
    BY <1>2
  <2> HIDE DEF cut
  <2>2. ReadsTo(FromBytes(name, cut), Len(cut), values, Len(bytes))
    <3>1. Len(cut) <= Len(bytes) /\ \A j \in 1 .. Len(cut) : cut[j] = bytes[j]
      BY <1>2, <2>1
    <3> QED
      BY <1>1, <2>1, <3>1, BeginningRead DEF bytes
  <2>3. ~ (Len(bytes) <= Len(cut))
    BY <1>2, <2>1
  <2> QED
    BY <2>2, <2>3, Zenon DEF ReadsTo, cut
<1> QED
  BY <1>3, <1>4 DEF CutRefused

(***************************************************************************)
(* The values of a layout                                                  *)
(***************************************************************************)
LEMMA KindValues ==
  /\ {"key", "blob", "url", "keys", "responses", "number"} \subseteq Kinds
  /\ {"init", "complete", "message", "response"} \subseteq Kinds
  /\ Values("key") = Key /\ Values("blob") = Seq(Nat) /\ Values("url") = Seq(Chars)
  /\ Values("keys") = Seq(Key) /\ Values("responses") = Seq(Response) /\ Values("number") = Nat
  /\ Values("init") = {1} /\ Values("complete") = {2}
  /\ Values("message") = {16} /\ Values("response") = {17}
<1>1. /\ {"key", "blob", "url", "keys", "responses", "number"} \subseteq Kinds
      /\ {"init", "complete", "message", "response"} \subseteq Kinds
  BY DEF Kinds, Tag
<1>2. /\ Values("key") = Key /\ Values("blob") = Seq(Nat) /\ Values("url") = Seq(Chars)
      /\ Values("keys") = Seq(Key) /\ Values("responses") = Seq(Response) /\ Values("number") = Nat
  BY DEF Values
<1>3. /\ Values("init") = {1} /\ Values("complete") = {2}
      /\ Values("message") = {16} /\ Values("response") = {17}
  BY DEF Values, Tag
<1> QED
  BY <1>1, <1>2, <1>3

LEMMA InField ==
  ASSUME NEW kind \in Kinds, NEW v \in Values(kind)
  PROVE  v \in Field
BY DEF Field

LEMMA TypedOne ==
  ASSUME NEW name, NEW a \in Kinds, Layout[name] = <<a>>, NEW u \in Values(a)
  PROVE  Typed(name, <<u>>)
<1>1. u \in Field
  BY InField
<1>2. <<u>> \in Seq(Field) /\ Len(<<u>>) = 1 /\ <<u>>[1] = u
  BY <1>1
<1>3. Len(<<a>>) = 1 /\ <<a>>[1] = a /\ 1 .. 1 = {1}
  OBVIOUS
<1> QED
  BY <1>2, <1>3 DEF Typed

LEMMA TypedTwo ==
  ASSUME NEW name, NEW a \in Kinds, NEW b \in Kinds, Layout[name] = <<a, b>>,
         NEW u \in Values(a), NEW v \in Values(b)
  PROVE  Typed(name, <<u, v>>)
<1> DEFINE s == <<u, v>>
           l == <<a, b>>
<1>1. u \in Field /\ v \in Field
  BY InField
<1>2. s \in Seq(Field) /\ Len(s) = 2 /\ s[1] = u /\ s[2] = v
  BY <1>1
<1>3. Len(l) = 2 /\ l[1] = a /\ l[2] = b
  OBVIOUS
<1> HIDE DEF s, l
<1>4. \A i \in 1 .. 2 : i = 1 \/ i = 2
  OBVIOUS
<1>5. ASSUME NEW i \in 1 .. 2
      PROVE  s[i] \in Values(l[i])
  BY <1>2, <1>3, <1>4, Zenon
<1>6. Layout[name] = l
  BY DEF l
<1> QED
  BY <1>2, <1>3, <1>5, <1>6 DEF Typed, s

LEMMA TypedThree ==
  ASSUME NEW name, NEW a \in Kinds, NEW b \in Kinds, NEW c \in Kinds, Layout[name] = <<a, b, c>>,
         NEW u \in Values(a), NEW v \in Values(b), NEW w \in Values(c)
  PROVE  Typed(name, <<u, v, w>>)
<1> DEFINE s == <<u, v, w>>
           l == <<a, b, c>>
<1>1. u \in Field /\ v \in Field /\ w \in Field
  BY InField
<1>2. s \in Seq(Field) /\ Len(s) = 3 /\ s[1] = u /\ s[2] = v /\ s[3] = w
  BY <1>1
<1>3. Len(l) = 3 /\ l[1] = a /\ l[2] = b /\ l[3] = c
  OBVIOUS
<1> HIDE DEF s, l
<1>4. \A i \in 1 .. 3 : i = 1 \/ i = 2 \/ i = 3
  OBVIOUS
<1>5. ASSUME NEW i \in 1 .. 3
      PROVE  s[i] \in Values(l[i])
  BY <1>2, <1>3, <1>4, Zenon
<1>6. Layout[name] = l
  BY DEF l
<1> QED
  BY <1>2, <1>3, <1>5, <1>6 DEF Typed, s

LEMMA TypedFour ==
  ASSUME NEW name, NEW a \in Kinds, NEW b \in Kinds, NEW c \in Kinds, NEW d \in Kinds,
         Layout[name] = <<a, b, c, d>>,
         NEW u \in Values(a), NEW v \in Values(b), NEW w \in Values(c), NEW x \in Values(d)
  PROVE  Typed(name, <<u, v, w, x>>)
<1> DEFINE s == <<u, v, w, x>>
           l == <<a, b, c, d>>
<1>1. u \in Field /\ v \in Field /\ w \in Field /\ x \in Field
  BY InField
<1>2. s \in Seq(Field) /\ Len(s) = 4 /\ s[1] = u /\ s[2] = v /\ s[3] = w /\ s[4] = x
  BY <1>1
<1>3. Len(l) = 4 /\ l[1] = a /\ l[2] = b /\ l[3] = c /\ l[4] = d
  OBVIOUS
<1> HIDE DEF s, l
<1>4. \A i \in 1 .. 4 : i = 1 \/ i = 2 \/ i = 3 \/ i = 4
  OBVIOUS
<1>5. ASSUME NEW i \in 1 .. 4
      PROVE  s[i] \in Values(l[i])
  BY <1>2, <1>3, <1>4, Zenon
<1>6. Layout[name] = l
  BY DEF l
<1> QED
  BY <1>2, <1>3, <1>5, <1>6 DEF Typed, s

LEMMA TypedFive ==
  ASSUME NEW name, NEW a \in Kinds, NEW b \in Kinds, NEW c \in Kinds, NEW d \in Kinds,
         NEW e \in Kinds, Layout[name] = <<a, b, c, d, e>>,
         NEW u \in Values(a), NEW v \in Values(b), NEW w \in Values(c), NEW x \in Values(d),
         NEW y \in Values(e)
  PROVE  Typed(name, <<u, v, w, x, y>>)
<1> DEFINE s == <<u, v, w, x, y>>
           l == <<a, b, c, d, e>>
<1>1. u \in Field /\ v \in Field /\ w \in Field /\ x \in Field /\ y \in Field
  BY InField
<1>2. s \in Seq(Field) /\ Len(s) = 5 /\ s[1] = u /\ s[2] = v /\ s[3] = w /\ s[4] = x /\ s[5] = y
  BY <1>1
<1>3. Len(l) = 5 /\ l[1] = a /\ l[2] = b /\ l[3] = c /\ l[4] = d /\ l[5] = e
  OBVIOUS
<1> HIDE DEF s, l
<1>4. \A i \in 1 .. 5 : i = 1 \/ i = 2 \/ i = 3 \/ i = 4 \/ i = 5
  OBVIOUS
<1>5. ASSUME NEW i \in 1 .. 5
      PROVE  s[i] \in Values(l[i])
  BY <1>2, <1>3, <1>4, Zenon
<1>6. Layout[name] = l
  BY DEF l
<1> QED
  BY <1>2, <1>3, <1>5, <1>6 DEF Typed, s

LEMMA Layouts ==
  /\ Layout["HELLO"] = <<"number", "number", "number">>
  /\ Layout["I_AM"] = <<"key", "key", "key", "keys", "responses">>
  /\ Layout["SEND"] = <<"key", "key", "blob">>
  /\ Layout["UPDATE_COMMITS"] = <<"keys">>
  /\ Layout["DELIVER"] = <<"number", "key", "blob">>
  /\ Layout["ACK"] = <<"number", "blob">>
  /\ Layout["SEND_RESULT"] = <<"number", "blob">>
  /\ Layout["init"] = <<"init", "key", "key", "url">>
  /\ Layout["complete"] = <<"complete", "number", "key", "url">>
  /\ Layout["message"] = <<"message", "number", "url", "blob">>
  /\ Layout["response"] = <<"response", "number", "key", "url", "blob">>
  /\ DOMAIN Reader = {"HELLO", "I_AM", "SEND", "UPDATE_COMMITS", "DELIVER", "ACK", "SEND_RESULT"}
  /\ DOMAIN Layout = DOMAIN Reader \cup {"init", "complete", "message", "response"}
<1>1. DOMAIN Reader = {"HELLO", "I_AM", "SEND", "UPDATE_COMMITS", "DELIVER", "ACK", "SEND_RESULT"}
  BY DEF Reader
<1>2. DOMAIN Layout = {"HELLO", "I_AM", "SEND", "UPDATE_COMMITS", "DELIVER", "ACK", "SEND_RESULT",
                       "init", "complete", "message", "response"}
  BY DEF Layout
<1>3. DOMAIN Layout = DOMAIN Reader \cup {"init", "complete", "message", "response"}
  BY <1>1, <1>2
<1>4. /\ Layout["HELLO"] = Hello /\ Layout["I_AM"] = IAm /\ Layout["SEND"] = Send
      /\ Layout["UPDATE_COMMITS"] = UpdateCommits /\ Layout["DELIVER"] = Deliver
      /\ Layout["ACK"] = Ack /\ Layout["SEND_RESULT"] = SendResult
  BY DEF Layout
<1>5. /\ Layout["init"] = HandshakeInit /\ Layout["complete"] = HandshakeComplete
      /\ Layout["message"] = DeviceMessage /\ Layout["response"] = DeviceMessageResponse
  BY DEF Layout
<1> QED
  BY <1>1, <1>3, <1>4, <1>5, Zenon
     DEF Hello, IAm, Send, UpdateCommits, Deliver, Ack, SendResult,
         HandshakeInit, HandshakeComplete, DeviceMessage, DeviceMessageResponse

\* Where the fields of a message are in its cells.
LEMMA FieldsLaid ==
  ASSUME NEW name \in DOMAIN Layout, NEW values, Typed(name, values)
  PROVE  LET n == Len(Layout[name])
             len(i) == Len(FieldBytes(Layout[name][i], values[i]))
         IN  \E off : /\ off \in [0 .. n -> Nat] /\ off[0] = 0
                      /\ \A i \in 1 .. n : len(i) \in Nat /\ off[i] = off[i - 1] + len(i)
                      /\ ToBytes(name, values) \in Seq(Nat) /\ Len(ToBytes(name, values)) = off[n]
                      /\ \A i \in 0 .. n : off[i] <= Len(ToBytes(name, values))
<1> DEFINE n == Len(Layout[name])
           parts == Parts(name, values)
           bytes == ToBytes(name, values)
<1>1. PICK off : Laid(parts, n, off, bytes)
  BY PartsCells, FlattenLays
<1>2. \A i \in 1 .. n : parts[i] = FieldBytes(Layout[name][i], values[i]) /\ Len(parts[i]) \in Nat
  <2>1. \A i \in 1 .. n : parts[i] = FieldBytes(Layout[name][i], values[i])
    BY PartsCells
  <2>2. parts \in Seq(Seq(Nat)) /\ Len(parts) = n
    BY PartsCells
  <2> HIDE DEF parts, n
  <2>3. \A i \in 1 .. n : Len(parts[i]) \in Nat
    BY <2>2
  <2> QED
    BY <2>1, <2>3
<1> HIDE DEF parts, bytes, n
<1>3. /\ off \in [0 .. n -> Nat] /\ off[0] = 0
      /\ \A i \in 1 .. n : off[i] = off[i - 1] + Len(parts[i])
      /\ bytes \in Seq(Nat) /\ Len(bytes) = off[n]
      /\ \A i \in 0 .. n : off[i] <= Len(bytes)
  BY <1>1 DEF Laid, Offsets
<1>4. \A i \in 1 .. n : Len(FieldBytes(Layout[name][i], values[i])) \in Nat
                        /\ off[i] = off[i - 1] + Len(FieldBytes(Layout[name][i], values[i]))
  BY <1>2, <1>3
<1> QED
  BY <1>3, <1>4, Zenon DEF n, bytes

LEMMA FieldWithin ==
  ASSUME NEW name \in DOMAIN Layout, NEW values, Typed(name, values), NEW i \in 1 .. Len(Layout[name])
  PROVE  /\ ToBytes(name, values) \in Seq(Nat)
         /\ Len(FieldBytes(Layout[name][i], values[i])) <= Len(ToBytes(name, values))
<1> DEFINE n == Len(Layout[name])
           len(k) == Len(FieldBytes(Layout[name][k], values[k]))
           bytes == ToBytes(name, values)
<1>1. PICK off : /\ off \in [0 .. n -> Nat] /\ off[0] = 0
                 /\ \A k \in 1 .. n : len(k) \in Nat /\ off[k] = off[k - 1] + len(k)
                 /\ bytes \in Seq(Nat) /\ Len(bytes) = off[n]
                 /\ \A k \in 0 .. n : off[k] <= Len(bytes)
  BY FieldsLaid
<1>2. n \in Nat
  BY LayoutKinds
<1>3. i \in 1 .. n
  OBVIOUS
<1> HIDE DEF n, bytes, len
<1>4. /\ i - 1 \in 0 .. n /\ i \in 0 .. n
  BY <1>2, <1>3
<1>5. off[i - 1] \in Nat /\ len(i) \in Nat /\ off[i] = off[i - 1] + len(i) /\ off[i] <= Len(bytes)
      /\ Len(bytes) \in Nat
  BY <1>1, <1>3, <1>4
<1>6. len(i) <= Len(bytes)
  BY <1>5
<1> QED
  BY <1>1, <1>6 DEF bytes, len

LEMMA LengthTwo ==
  ASSUME NEW name \in DOMAIN Layout, NEW values, Typed(name, values), Len(Layout[name]) = 2
  PROVE  Len(ToBytes(name, values)) =
           Len(FieldBytes(Layout[name][1], values[1])) + Len(FieldBytes(Layout[name][2], values[2]))
<1> DEFINE n == Len(Layout[name])
           len(k) == Len(FieldBytes(Layout[name][k], values[k]))
           bytes == ToBytes(name, values)
<1>1. PICK off : /\ off \in [0 .. n -> Nat] /\ off[0] = 0
                 /\ \A k \in 1 .. n : len(k) \in Nat /\ off[k] = off[k - 1] + len(k)
                 /\ bytes \in Seq(Nat) /\ Len(bytes) = off[n]
                 /\ \A k \in 0 .. n : off[k] <= Len(bytes)
  BY FieldsLaid
<1>2. n = 2
  OBVIOUS
<1> HIDE DEF n, bytes, len
<1>3. off[1] = 0 + len(1) /\ off[2] = off[1] + len(2) /\ len(1) \in Nat /\ len(2) \in Nat
  BY <1>1, <1>2
<1>4. Len(bytes) = len(1) + len(2)
  BY <1>1, <1>2, <1>3
<1> QED
  BY <1>4 DEF bytes, len

LEMMA LengthThree ==
  ASSUME NEW name \in DOMAIN Layout, NEW values, Typed(name, values), Len(Layout[name]) = 3
  PROVE  Len(ToBytes(name, values)) =
           Len(FieldBytes(Layout[name][1], values[1])) + Len(FieldBytes(Layout[name][2], values[2]))
             + Len(FieldBytes(Layout[name][3], values[3]))
<1> DEFINE n == Len(Layout[name])
           len(k) == Len(FieldBytes(Layout[name][k], values[k]))
           bytes == ToBytes(name, values)
<1>1. PICK off : /\ off \in [0 .. n -> Nat] /\ off[0] = 0
                 /\ \A k \in 1 .. n : len(k) \in Nat /\ off[k] = off[k - 1] + len(k)
                 /\ bytes \in Seq(Nat) /\ Len(bytes) = off[n]
                 /\ \A k \in 0 .. n : off[k] <= Len(bytes)
  BY FieldsLaid
<1>2. n = 3
  OBVIOUS
<1> HIDE DEF n, bytes, len
<1>3. off[1] = 0 + len(1) /\ off[2] = off[1] + len(2) /\ off[3] = off[2] + len(3)
      /\ len(1) \in Nat /\ len(2) \in Nat /\ len(3) \in Nat
  BY <1>1, <1>2
<1>4. Len(bytes) = len(1) + len(2) + len(3)
  BY <1>1, <1>2, <1>3
<1> QED
  BY <1>4 DEF bytes, len

(***************************************************************************)
(* Frames                                                                  *)
(***************************************************************************)

\* What the fields of a written frame are.
FrameFields(type, v) ==
  /\ type = "I_AM" => v[4] \in Seq(Key)
  /\ type = "SEND" => v[1] \in Key /\ v[2] \in Key /\ v[3] \in Seq(Nat)
  /\ type = "UPDATE_COMMITS" => v[1] \in Seq(Key)
  /\ type = "DELIVER" => v[1] \in Nat /\ v[2] \in Key /\ v[3] \in Seq(Nat)
  /\ type = "ACK" => v[1] \in Nat /\ v[2] \in Seq(Nat)
  /\ type = "SEND_RESULT" => v[1] \in Nat /\ v[2] \in Seq(Nat)

LEMMA TypedFields ==
  ASSUME NEW type \in DOMAIN Reader, NEW values, Typed(type, values)
  PROVE  FrameFields(type, values)
<1> DEFINE l == Layout[type]
<1>1. \A i \in 1 .. Len(l) : values[i] \in Values(l[i])
  BY DEF Typed
<1> HIDE DEF l
<1>2. ASSUME l = <<"key", "key", "key", "keys", "responses">>
      PROVE  values[4] \in Seq(Key)
  <2>1. 4 \in 1 .. Len(l) /\ l[4] = "keys"
    BY <1>2
  <2> QED
    BY <1>1, <2>1, KindValues, Zenon
<1>3. ASSUME l = <<"key", "key", "blob">>
      PROVE  values[1] \in Key /\ values[2] \in Key /\ values[3] \in Seq(Nat)
  <2>1. {1, 2, 3} \subseteq 1 .. Len(l) /\ l[1] = "key" /\ l[2] = "key" /\ l[3] = "blob"
    BY <1>3
  <2> QED
    BY <1>1, <2>1, KindValues, Zenon
<1>4. ASSUME l = <<"keys">>
      PROVE  values[1] \in Seq(Key)
  <2>1. 1 \in 1 .. Len(l) /\ l[1] = "keys"
    BY <1>4
  <2> QED
    BY <1>1, <2>1, KindValues, Zenon
<1>5. ASSUME l = <<"number", "key", "blob">>
      PROVE  values[1] \in Nat /\ values[2] \in Key /\ values[3] \in Seq(Nat)
  <2>1. {1, 2, 3} \subseteq 1 .. Len(l) /\ l[1] = "number" /\ l[2] = "key" /\ l[3] = "blob"
    BY <1>5
  <2> QED
    BY <1>1, <2>1, KindValues, Zenon
<1>6. ASSUME l = <<"number", "blob">>
      PROVE  values[1] \in Nat /\ values[2] \in Seq(Nat)
  <2>1. {1, 2} \subseteq 1 .. Len(l) /\ l[1] = "number" /\ l[2] = "blob"
    BY <1>6
  <2> QED
    BY <1>1, <2>1, KindValues, Zenon
<1> QED
  BY <1>2, <1>3, <1>4, <1>5, <1>6, Layouts, Zenon DEF FrameFields, l

LEMMA CountBounded ==
  ASSUME NEW n \in Nat, NEW list \in Seq(Nat), NEW bytes \in Seq(Nat), n * KeyLen <= Len(list),
         Len(<<n % W16>> \o list) <= Len(bytes), Len(bytes) <= MaxLen
  PROVE  n < W16
<1> DEFINE total == n * KeyLen
           most == KeyLen * W16
           m == n % W16
<1>1. W16 \in Nat /\ W16 > 0 /\ KeyLen \in Nat /\ MaxLen \in Nat /\ MaxLen < most /\ m \in Nat
  BY WireAssumption
<1>2. Len(<<m>> \o list) = 1 + Len(list)
  <2> HIDE DEF m
  <2> QED
    BY <1>1, OneCell
<1>3. total \in Nat /\ total <= Len(list)
  BY <1>1, Multiples
<1> SUFFICES ASSUME ~ (n < W16)
             PROVE  FALSE
  OBVIOUS
<1>4. W16 - 1 \in Nat /\ W16 - 1 < n /\ (W16 - 1) + 1 = W16
  BY <1>1
<1>5. W16 * KeyLen <= total
  BY <1>1, <1>4, Multiples
<1>6. W16 * KeyLen = most /\ most \in Nat
  BY <1>1
<1>7. 1 + Len(list) <= Len(bytes)
  BY <1>2
<1> HIDE DEF total, most, m
<1> QED
  BY <1>1, <1>3, <1>5, <1>6, <1>7

\* 1 MiB holds no list of keys or responses that 16 bits do not count.
LEMMA LimitCounts ==
  ASSUME NEW type \in DOMAIN Reader, NEW values, Typed(type, values),
         Len(ToBytes(type, values)) <= MaxLen
  PROVE  Short(type, values)
<1> SUFFICES ASSUME NEW i \in 1 .. Len(values)
             PROVE  Fits(Layout[type][i], values[i])
  BY DEF Short
<1> DEFINE l == Layout[type]
           kind == l[i]
           v == values[i]
<1>1. type \in DOMAIN Layout
  BY Layouts
<1>2. i \in 1 .. Len(l) /\ v \in Values(kind) /\ kind \in Kinds /\ kind # "url"
  <2>1. i \in 1 .. Len(l) /\ v \in Values(kind) /\ kind \in Kinds
    BY <1>1, PartsCells DEF Typed
  <2>2. \A k \in 1 .. Len(l) : l[k] # "url"
    <3>1. l \in {<<"number", "number", "number">>, <<"key", "key", "key", "keys", "responses">>,
                 <<"key", "key", "blob">>, <<"keys">>, <<"number", "key", "blob">>, <<"number", "blob">>}
      BY Layouts
    <3> HIDE DEF l
    <3> QED
      BY <3>1
  <2> QED
    BY <2>1, <2>2
<1>3. Len(FieldBytes(kind, v)) <= Len(ToBytes(type, values)) /\ ToBytes(type, values) \in Seq(Nat)
  BY <1>1, <1>2, FieldWithin
<1>4. FieldFacts(kind, v)
  BY <1>2, FieldCells
<1> HIDE DEF l, kind, v
<1>5. CASE kind = "keys"
  <2>1. v \in Seq(Key) /\ FieldBytes(kind, v) = <<Len(v) % W16>> \o FlattenSeq(v)
    BY <1>4, <1>5 DEF FieldFacts
  <2>2. FlattenSeq(v) \in Seq(Nat) /\ Len(FlattenSeq(v)) = Len(v) * KeyLen /\ Len(v) \in Nat
    BY <2>1, KeysLaid
  <2>3. Len(v) * KeyLen <= Len(FlattenSeq(v))
    BY <2>2
  <2>4. Len(v) < W16
    BY <1>3, <2>1, <2>2, <2>3, CountBounded
  <2> QED
    BY <1>5, <2>4 DEF Fits, kind, v, l
<1>6. CASE kind = "responses"
  <2> DEFINE list == FlattenSeq(ResponseParts(v))
  <2>1. v \in Seq(Response) /\ FieldBytes(kind, v) = <<Len(v) % W16>> \o list
    BY <1>4, <1>6 DEF FieldFacts
  <2>2. list \in Seq(Nat) /\ Len(v) * KeyLen <= Len(list) /\ Len(v) \in Nat
    BY <2>1, ResponsesLaid
  <2>3. Len(v) < W16
    <3> HIDE DEF list
    <3> QED
      BY <1>3, <2>1, <2>2, CountBounded
  <2> QED
    BY <1>6, <2>3 DEF Fits, kind, v, l
<1>7. CASE kind \notin {"keys", "responses"}
  BY <1>2, <1>7 DEF Fits, kind, v, l
<1> QED
  BY <1>5, <1>6, <1>7

\* A frame within the limit is read as it was written.
LEMMA FrameReads ==
  ASSUME NEW type \in DOMAIN Reader, NEW values, Typed(type, values),
         Len(ToBytes(type, values)) <= MaxLen
  PROVE  /\ FromBytes(type, ToBytes(type, values)) = Read(values, Len(ToBytes(type, values)))
         /\ CutRefused(type, ToBytes(type, values))
<1>1. type \in DOMAIN Layout /\ Short(type, values)
  BY Layouts, LimitCounts
<1> QED
  BY <1>1, RoundTrip

\* The lengths of the frames that the relay must be able to write.
LEMMA FrameLengths ==
  ASSUME NEW type \in DOMAIN Reader, NEW values, Typed(type, values)
  PROVE  /\ Len(ToBytes(type, values)) \in Nat
         /\ type = "HELLO" => Len(ToBytes(type, values)) = 3
         /\ type = "SEND" => Len(ToBytes(type, values)) = KeyLen + KeyLen + (1 + Len(values[3]))
         /\ type = "DELIVER" => Len(ToBytes(type, values)) = 1 + KeyLen + (1 + Len(values[3]))
         /\ type \in {"ACK", "SEND_RESULT"} => Len(ToBytes(type, values)) = 1 + (1 + Len(values[2]))
<1> DEFINE l == Layout[type]
           len(i) == Len(FieldBytes(l[i], values[i]))
           all == Len(ToBytes(type, values))
<1>1. type \in DOMAIN Layout /\ 1 \in 1 .. Len(l)
  BY Layouts, LayoutKinds
<1>2. all \in Nat
  BY <1>1, FieldWithin
<1>3. /\ Len(l) = 2 => all = len(1) + len(2)
      /\ Len(l) = 3 => all = len(1) + len(2) + len(3)
  BY <1>1, LengthTwo, LengthThree
<1>4. \A i \in 1 .. Len(l) : FieldFacts(l[i], values[i])
  <2>1. \A i \in 1 .. Len(l) : l[i] \in Kinds /\ values[i] \in Values(l[i])
    BY <1>1, PartsCells
  <2> HIDE DEF l
  <2> QED
    BY <2>1, FieldCells
<1> HIDE DEF l
<1>5. \A i \in 1 .. Len(l) :
        /\ l[i] = "number" => len(i) = 1
        /\ l[i] = "key" => len(i) = KeyLen
        /\ l[i] = "blob" => len(i) = 1 + Len(values[i])
  <2>1. ASSUME NEW v \in Nat
        PROVE  Len(<<v>>) = 1
    OBVIOUS
  <2>2. ASSUME NEW v \in Seq(Nat)
        PROVE  Len(<<Len(v)>> \o v) = 1 + Len(v)
    BY OneCell
  <2> QED
    BY <1>4, <2>1, <2>2 DEF FieldFacts
<1> HIDE DEF len, all
<1>6. CASE l = <<"number", "number", "number">>
  <2>1. Len(l) = 3 /\ l[1] = "number" /\ l[2] = "number" /\ l[3] = "number"
    BY <1>6
  <2> QED
    BY <1>2, <1>3, <1>5, <1>6, <2>1, Layouts DEF all, l
<1>7. CASE l = <<"key", "key", "blob">>
  <2>1. Len(l) = 3 /\ l[1] = "key" /\ l[2] = "key" /\ l[3] = "blob"
    BY <1>7
  <2> QED
    BY <1>2, <1>3, <1>5, <1>7, <2>1, Layouts DEF all, l
<1>8. CASE l = <<"number", "key", "blob">>
  <2>1. Len(l) = 3 /\ l[1] = "number" /\ l[2] = "key" /\ l[3] = "blob"
    BY <1>8
  <2> QED
    BY <1>2, <1>3, <1>5, <1>8, <2>1, Layouts DEF all, l
<1>9. CASE l = <<"number", "blob">>
  <2>1. Len(l) = 2 /\ l[1] = "number" /\ l[2] = "blob"
    BY <1>9
  <2> QED
    BY <1>2, <1>3, <1>5, <1>9, <2>1, Layouts DEF all, l
<1> QED
  BY <1>2, <1>6, <1>7, <1>8, <1>9, Layouts, Zenon DEF l, all

(***************************************************************************)
(* What the frames carry                                                   *)
(***************************************************************************)
LEMMA TextFacts ==
  ASSUME NEW t \in Texts
  PROVE  /\ t \in Seq(Nat) /\ IsJson(t) /\ Len(t) \in Nat /\ Len(t) > 1
         /\ t[1] = Open /\ t[Len(t)] = Close
         /\ \A i \in 1 .. Len(t) - 1 : t[i] # Close
<1>1. t \in Seq(Chars) /\ IsJson(t) /\ t[Len(t)] = Close
  BY TextAssumption
<1>2. t \in Seq(Nat)
  <2>1. ASSUME NEW i \in 1 .. Len(t)
        PROVE  t[i] \in Nat
    <3>1. t[i] \in Chars
      BY <1>1
    <3> QED
      BY <3>1, WireAssumption
  <2>2. t = [i \in 1 .. Len(t) |-> t[i]] /\ Len(t) \in Nat
    BY <1>1
  <2> QED
    BY <2>1, <2>2
<1>3. PICK c \in DOMAIN t :
        /\ Head(t) = Open /\ t[c] = Close
        /\ \A i \in 2 .. c - 1 : t[i] \notin {Open, Close}
        /\ \A i \in c + 1 .. Len(t) : t[i] = Blank
  BY <1>1 DEF IsJson
<1>4. c \in 1 .. Len(t) /\ Len(t) \in Nat /\ Head(t) = t[1]
  BY <1>2
<1>5. Open # Close /\ Close # Blank
  BY WireAssumption
<1>6. c = Len(t)
  <2>1. CASE c < Len(t)
    <3>1. Len(t) \in c + 1 .. Len(t)
      BY <1>4, <2>1
    <3> QED
      BY <1>1, <1>3, <1>5, <3>1
  <2> QED
    BY <1>4, <2>1
<1>7. t[1] = Open /\ Len(t) > 1
  <2>1. t[1] = Open
    BY <1>3, <1>4
  <2>2. Len(t) # 1
    BY <1>1, <1>5, <2>1
  <2>3. c \in Int /\ 1 <= c /\ c <= Len(t) /\ Len(t) \in Int
    BY <1>4
  <2> DEFINE n == Len(t)
  <2>4. n > 1
    <3>1. n # 1 /\ c \in Int /\ 1 <= c /\ c <= n /\ n \in Int
      BY <2>2, <2>3
    <3> HIDE DEF n
    <3> QED
      BY <3>1
  <2> QED
    BY <2>1, <2>4
<1>8. ASSUME NEW i \in 1 .. Len(t) - 1
      PROVE  t[i] # Close
  <2>1. i = 1 \/ i \in 2 .. c - 1
    BY <1>4, <1>6
  <2> QED
    BY <1>3, <1>5, <1>7, <2>1
<1> QED
  BY <1>1, <1>2, <1>4, <1>7, <1>8

\* A preimage after a text is not taken for white space, unless it is that.
LEMMA TextThenKey ==
  ASSUME NEW t \in Texts, NEW p \in Key, IsJson(t \o p)
  PROVE  p = [i \in 1 .. KeyLen |-> Blank]
<1> DEFINE all == t \o p
           last == Len(t)
<1>1. /\ t \in Seq(Nat) /\ last \in Nat /\ last > 1 /\ t[1] = Open /\ t[last] = Close
      /\ \A i \in 1 .. last - 1 : t[i] # Close
  BY TextFacts
<1>2. p \in Seq(Nat) /\ Len(p) = KeyLen /\ KeyLen \in Nat
  BY KeyCells
<1>3. /\ all \in Seq(Nat) /\ Len(all) = last + KeyLen
      /\ \A j \in 1 .. last : all[j] = t[j]
      /\ \A j \in 1 .. KeyLen : all[last + j] = p[j]
  BY <1>1, <1>2, JoinFacts
<1> HIDE DEF all, last
<1>4. PICK c \in 1 .. Len(all) :
        /\ all[c] = Close
        /\ \A i \in 2 .. c - 1 : all[i] \notin {Open, Close}
        /\ \A i \in c + 1 .. Len(all) : all[i] = Blank
  <2>1. IsJson(all) /\ DOMAIN all = 1 .. Len(all)
    BY <1>3 DEF all
  <2> QED
    BY <2>1, Zenon DEF IsJson
<1>5. ~ (c < last)
  <2> SUFFICES ASSUME c < last
               PROVE  FALSE
    OBVIOUS
  <2>1. c \in 1 .. last - 1 /\ c \in 1 .. last
    BY <1>1
  <2> QED
    BY <1>1, <1>3, <1>4, <2>1
<1>6. ~ (last < c)
  <2> SUFFICES ASSUME last < c
               PROVE  FALSE
    OBVIOUS
  <2>1. last \in 2 .. c - 1 /\ last \in 1 .. last
    BY <1>1
  <2> QED
    BY <1>1, <1>3, <1>4, <2>1
<1>7. c = last
  BY <1>1, <1>5, <1>6
<1>8. ASSUME NEW j \in 1 .. KeyLen
      PROVE  p[j] = Blank
  <2>1. last + j \in c + 1 .. Len(all)
    BY <1>1, <1>2, <1>3, <1>7
  <2> QED
    BY <1>3, <1>4, <2>1
<1> QED
  BY <1>8 DEF Key

\* What the callee and the caller make of cells, as they were written.
JsonBody(b) == \E t \in Texts, p \in Keys \cup {<<>>} : b = Json(t, p)

TypedBody(b) ==
  /\ b.name \in DOMAIN Tag /\ b = Body(b.name, b.values)
  /\ Typed(b.name, b.values)
  /\ Sound(b) => Short(b.name, b.values)

LEMMA InputFacts ==
  /\ Keys \subseteq Key /\ Urls \subseteq Seq(Chars) /\ Contents \subseteq Seq(Nat)
  /\ Statuses \subseteq Nat /\ Nothing \in Key /\ <<>> \in Seq(Chars) /\ Seq(Keys) \subseteq Seq(Key)
<1>1. Keys \subseteq Key /\ Urls \subseteq Seq(Chars) /\ Contents \subseteq Seq(Nat)
  BY WireAssumption DEF Key
<1>2. Statuses \subseteq Nat
  BY DEF Statuses
<1>3. Nothing \in Key
  BY DEF Nothing, Key
<1>4. ASSUME NEW s \in Seq(Keys)
      PROVE  s \in Seq(Key)
  <2>1. ASSUME NEW i \in 1 .. Len(s)
        PROVE  s[i] \in Key
    <3>1. s[i] \in Keys
      OBVIOUS
    <3> QED
      BY <1>1, <3>1
  <2>2. s = [i \in 1 .. Len(s) |-> s[i]] /\ Len(s) \in Nat
    OBVIOUS
  <2> QED
    BY <2>1, <2>2
<1> QED
  BY <1>1, <1>2, <1>3, <1>4

LEMMA ShortBody ==
  ASSUME NEW name \in DOMAIN Tag, NEW values, Typed(name, values), Sound(Body(name, values))
  PROVE  Short(name, values)
<1> DEFINE at == IF name = "message" THEN 3 ELSE 4
           l == Layout[name]
<1>1. Len(values[at]) < W16
  <2>1. Body(name, values).name = name /\ Body(name, values).values = values /\ name # "json"
    BY DEF Body, Tag
  <2>2. Url(Body(name, values)) = values[at]
    <3> HIDE DEF Body
    <3> QED
      BY <2>1 DEF Url
  <2> QED
    BY <2>2 DEF Sound
<1>2. \A i \in 1 .. Len(l) : l[i] \in {"url", "keys", "responses"} => i = at
  <2>1. CASE name = "init"
    <3>1. l = <<"init", "key", "key", "url">> /\ at = 4
      BY <2>1, Layouts
    <3> HIDE DEF l, at
    <3> QED
      BY <3>1
  <2>2. CASE name = "complete"
    <3>1. l = <<"complete", "number", "key", "url">> /\ at = 4
      BY <2>2, Layouts
    <3> HIDE DEF l, at
    <3> QED
      BY <3>1
  <2>3. CASE name = "message"
    <3>1. l = <<"message", "number", "url", "blob">> /\ at = 3
      BY <2>3, Layouts
    <3> HIDE DEF l, at
    <3> QED
      BY <3>1
  <2>4. CASE name = "response"
    <3>1. l = <<"response", "number", "key", "url", "blob">> /\ at = 4
      BY <2>4, Layouts
    <3> HIDE DEF l, at
    <3> QED
      BY <3>1
  <2> QED
    BY <2>1, <2>2, <2>3, <2>4 DEF Tag
<1>3. Len(values) = Len(l)
  BY DEF Typed
<1> HIDE DEF at, l
<1> QED
  BY <1>1, <1>2, <1>3 DEF Short, Fits, l

LEMMA TypedBodies ==
  /\ \A b \in Calls : /\ b.name \in {"init", "message", "json"}
                      /\ b.name = "json" => \E t \in Texts : b = Json(t, <<>>)
                      /\ b.name # "json" => TypedBody(b)
  /\ \A r \in Replies("init") : r.name = "complete" /\ TypedBody(r)
  /\ \A r \in Replies("message") : r.name = "response" /\ TypedBody(r)
  /\ \A r \in Replies("json") : r.name = "json" /\ JsonBody(r)
<1>1. ASSUME NEW name \in DOMAIN Tag, NEW values, Typed(name, values)
      PROVE  TypedBody(Body(name, values)) /\ Body(name, values).name = name
  <2>1. Body(name, values).name = name /\ Body(name, values).values = values
    BY DEF Body
  <2>2. Sound(Body(name, values)) => Short(name, values)
    BY <1>1, ShortBody
  <2> HIDE DEF Body
  <2> QED
    BY <1>1, <2>1, <2>2 DEF TypedBody
<1>2. ASSUME NEW id \in Keys, NEW k \in Keys, NEW u \in Urls
      PROVE  Typed("init", <<Tag.init, id, k, u>>)
  BY InputFacts, KindValues, Layouts, TypedFour DEF Tag
<1>3. ASSUME NEW n \in Statuses, NEW k \in Key, NEW u \in Seq(Chars)
      PROVE  Typed("complete", <<Tag.complete, n, k, u>>)
  BY InputFacts, KindValues, Layouts, TypedFour DEF Tag
<1>4. ASSUME NEW n \in Statuses, NEW u \in Urls, NEW c \in Contents
      PROVE  Typed("message", <<Tag.message, n, u, c>>)
  BY InputFacts, KindValues, Layouts, TypedFour DEF Tag
<1>5. ASSUME NEW n \in Statuses, NEW k \in Keys, NEW u \in Urls, NEW c \in Contents
      PROVE  Typed("response", <<Tag.response, n, k, u, c>>)
  <2>1. /\ n \in Values("number") /\ k \in Values("key") /\ u \in Values("url")
        /\ c \in Values("blob") /\ 17 \in Values("response") /\ Tag.response = 17
    BY InputFacts, KindValues DEF Tag
  <2>2. {"response", "number", "key", "url", "blob"} \subseteq Kinds
    BY KindValues
  <2>3. Layout["response"] = <<"response", "number", "key", "url", "blob">>
    BY Layouts
  <2> QED
    BY <2>1, <2>2, <2>3, TypedFive
<1>6. {"init", "complete", "message", "response"} \subseteq DOMAIN Tag
  BY DEF Tag
<1>7. \A t, p : Json(t, p).name = "json"
  BY DEF Json, Body
<1>8. \A b \in Calls :
        \/ \E id \in Keys, k \in Keys, u \in Urls : b = Body("init", <<Tag.init, id, k, u>>)
        \/ \E t \in Texts : b = Json(t, <<>>)
        \/ \E n \in Statuses, u \in Urls, c \in Contents : b = Body("message", <<Tag.message, n, u, c>>)
  <2> DEFINE A == {Body("init", <<Tag.init, id, k, u>>) : id \in Keys, k \in Keys, u \in Urls}
             B == {Json(t, <<>>) : t \in Texts}
             C == {Body("message", <<Tag.message, n, u, c>>) : n \in Statuses, u \in Urls, c \in Contents}
  <2>1. \A b \in A : \E id \in Keys, k \in Keys, u \in Urls : b = Body("init", <<Tag.init, id, k, u>>)
    OBVIOUS
  <2>2. \A b \in B : \E t \in Texts : b = Json(t, <<>>)
    OBVIOUS
  <2>3. \A b \in C : \E n \in Statuses, u \in Urls, c \in Contents :
                     b = Body("message", <<Tag.message, n, u, c>>)
    OBVIOUS
  <2>4. Calls = (A \cup B) \cup C
    BY DEF Calls
  <2> HIDE DEF A, B, C
  <2> QED
    BY <2>1, <2>2, <2>3, <2>4, Zenon
<1>9. \A r \in Replies("init") :
        \E n \in Statuses, k \in Key, u \in Seq(Chars) : r = Body("complete", <<Tag.complete, n, k, u>>)
  <2>1. 0 \in Statuses /\ 1 \in Statuses
    BY DEF Statuses
  <2> DEFINE A == {Body("complete", <<Tag.complete, 0, k, u>>) : k \in Keys, u \in Urls}
             X == Body("complete", <<Tag.complete, 1, Nothing, <<>>>>)
             is(r, n, k, u) == r = Body("complete", <<Tag.complete, n, k, u>>)
  <2>2. Replies("init") = A \cup {X}
    BY DEF Replies
  <2>3. \A r \in A : \E k \in Keys, u \in Urls : is(r, 0, k, u)
    OBVIOUS
  <2>4. is(X, 1, Nothing, <<>>)
    OBVIOUS
  <2> HIDE DEF A, X, is
  <2>5. ASSUME NEW r \in Replies("init")
        PROVE  \E n \in Statuses, k \in Key, u \in Seq(Chars) : is(r, n, k, u)
    <3>1. CASE r \in A
      BY <2>1, <2>3, <3>1, InputFacts
    <3>2. CASE r = X
      <4>1. Nothing \in Key /\ <<>> \in Seq(Chars)
        BY InputFacts
      <4> QED
        BY <2>1, <2>4, <3>2, <4>1, Zenon
    <3> QED
      BY <2>2, <3>1, <3>2
  <2> QED
    BY <2>5 DEF is
<1>10. \A r \in Replies("message") : \E n \in Statuses, k \in Keys, u \in Urls, c \in Contents :
         r = Body("response", <<Tag.response, n, k, u, c>>)
  BY DEF Replies
<1>11. \A r \in Replies("json") : JsonBody(r) /\ r.name = "json"
  <2>1. Replies("json") = {Json(t, p) : t \in Texts, p \in Keys \cup {<<>>}}
    BY DEF Replies
  <2> QED
    BY <1>7, <2>1 DEF JsonBody
<1>12. ASSUME NEW b \in Calls
       PROVE  /\ b.name \in {"init", "message", "json"}
              /\ b.name = "json" => \E t \in Texts : b = Json(t, <<>>)
              /\ b.name # "json" => TypedBody(b)
  <2>1. CASE \E id \in Keys, k \in Keys, u \in Urls : b = Body("init", <<Tag.init, id, k, u>>)
    <3>1. b.name = "init" /\ TypedBody(b)
      BY <1>1, <1>2, <1>6, <2>1
    <3> QED
      BY <3>1
  <2>2. CASE \E t \in Texts : b = Json(t, <<>>)
    BY <1>7, <2>2
  <2>3. CASE \E n \in Statuses, u \in Urls, c \in Contents : b = Body("message", <<Tag.message, n, u, c>>)
    <3>1. b.name = "message" /\ TypedBody(b)
      BY <1>1, <1>4, <1>6, <2>3
    <3> QED
      BY <3>1
  <2> QED
    BY <1>8, <2>1, <2>2, <2>3
<1>13. \A r \in Replies("init") : r.name = "complete" /\ TypedBody(r)
  <2> TAKE r \in Replies("init")
  <2>1. PICK n \in Statuses, k \in Key, u \in Seq(Chars) : r = Body("complete", <<Tag.complete, n, k, u>>)
    BY <1>9
  <2>2. Typed("complete", <<Tag.complete, n, k, u>>) /\ "complete" \in DOMAIN Tag
    BY <1>3, <1>6
  <2> QED
    BY <1>1, <2>1, <2>2
<1>14. \A r \in Replies("message") : r.name = "response" /\ TypedBody(r)
  <2> TAKE r \in Replies("message")
  <2>1. PICK n \in Statuses, k \in Keys, u \in Urls, c \in Contents :
          r = Body("response", <<Tag.response, n, k, u, c>>)
    BY <1>10
  <2>2. Typed("response", <<Tag.response, n, k, u, c>>) /\ "response" \in DOMAIN Tag
    BY <1>5, <1>6
  <2> QED
    BY <1>1, <2>1, <2>2
<1> QED
  BY <1>11, <1>12, <1>13, <1>14

LEMMA BodyCells ==
  /\ \A b : TypedBody(b) => b.name # "json" /\ b.name \in DOMAIN Layout
                             /\ BodyBytes(b) = ToBytes(b.name, b.values) /\ BodyBytes(b) \in Seq(Nat)
  /\ \A b \in Calls : BodyBytes(b) \in Seq(Nat)
  /\ \A name \in {"init", "message", "json"} : \A r \in Replies(name) : BodyBytes(r) \in Seq(Nat)
  /\ \A t, p : BodyBytes(Json(t, p)) = t \o p
  /\ \A t \in Texts : t \o <<>> = t
<1>1. ASSUME NEW b, TypedBody(b)
      PROVE  b.name # "json" /\ b.name \in DOMAIN Layout
             /\ BodyBytes(b) = ToBytes(b.name, b.values) /\ BodyBytes(b) \in Seq(Nat)
  <2>1. b.name \in DOMAIN Tag /\ Typed(b.name, b.values)
    BY <1>1 DEF TypedBody
  <2>2. b.name \in {"init", "complete", "message", "response"}
    BY <2>1 DEF Tag
  <2>3. b.name # "json" /\ b.name \in DOMAIN Layout
    BY <2>2, Layouts
  <2>4. BodyBytes(b) = ToBytes(b.name, b.values)
    BY <2>3, Zenon DEF BodyBytes
  <2>5. 1 \in 1 .. Len(Layout[b.name])
    BY <2>3, LayoutKinds
  <2>6. ToBytes(b.name, b.values) \in Seq(Nat)
    BY <2>1, <2>3, <2>5, FieldWithin
  <2> QED
    BY <2>3, <2>4, <2>6
<1>2. \A t, p : BodyBytes(Json(t, p)) = t \o p
  BY DEF BodyBytes, Json, Body
<1>3. ASSUME NEW t \in Texts
      PROVE  t \o <<>> = t /\ t \in Seq(Nat)
  <2>1. t \in Seq(Nat)
    BY TextFacts
  <2> QED
    BY <2>1
<1>4. ASSUME NEW b, JsonBody(b)
      PROVE  BodyBytes(b) \in Seq(Nat)
  <2>1. PICK t \in Texts, p \in Keys \cup {<<>>} : b = Json(t, p)
    BY <1>4 DEF JsonBody
  <2>2. p \in Seq(Nat)
    <3>1. CASE p \in Keys
      BY <3>1, InputFacts, KeyCells
    <3>2. CASE p = <<>>
      BY <3>2
    <3> QED
      BY <3>1, <3>2
  <2>3. t \in Seq(Nat)
    BY <1>3
  <2>4. t \o p \in Seq(Nat)
    BY <2>2, <2>3
  <2> QED
    BY <1>2, <2>1, <2>4
<1>5. ASSUME NEW b \in Calls
      PROVE  BodyBytes(b) \in Seq(Nat)
  <2>1. CASE b.name = "json"
    BY <2>1, <1>4, TypedBodies DEF JsonBody
  <2>2. CASE b.name # "json"
    BY <2>2, <1>1, TypedBodies
  <2> QED
    BY <2>1, <2>2
<1>6. ASSUME NEW name \in {"init", "message", "json"}, NEW r \in Replies(name)
      PROVE  BodyBytes(r) \in Seq(Nat)
  BY <1>1, <1>4, TypedBodies
<1> QED
  BY <1>1, <1>2, <1>3, <1>5, <1>6

LEMMA TagFirst ==
  ASSUME NEW name \in DOMAIN Tag, NEW values, Typed(name, values)
  PROVE  ToBytes(name, values) # <<>> /\ Head(ToBytes(name, values)) = Tag[name]
<1> DEFINE bytes == ToBytes(name, values)
           parts == Parts(name, values)
           n == Len(Layout[name])
<1>1. name \in DOMAIN Layout /\ n \in Nat /\ n >= 1 /\ Layout[name][1] = name
  <2>1. name \in {"init", "complete", "message", "response"}
    BY DEF Tag
  <2>2. name \in DOMAIN Layout
    BY <2>1, Layouts
  <2>3. \/ Layout[name] = <<name, "key", "key", "url">>
        \/ Layout[name] = <<name, "number", "key", "url">>
        \/ Layout[name] = <<name, "number", "url", "blob">>
        \/ Layout[name] = <<name, "number", "key", "url", "blob">>
    BY <2>1, Layouts, Zenon
  <2>4. Len(Layout[name]) \in {4, 5} /\ Layout[name][1] = name
    <3>1. CASE Layout[name] = <<name, "key", "key", "url">>
      BY <3>1
    <3>2. CASE Layout[name] = <<name, "number", "key", "url">>
      BY <3>2
    <3>3. CASE Layout[name] = <<name, "number", "url", "blob">>
      BY <3>3
    <3>4. CASE Layout[name] = <<name, "number", "key", "url", "blob">>
      BY <3>4
    <3> QED
      BY <2>3, <3>1, <3>2, <3>3, <3>4
  <2> QED
    BY <2>2, <2>4
<1>2. PICK off : Laid(parts, n, off, bytes)
  BY <1>1, PartsCells, FlattenLays
<1>3. name \in Kinds /\ values[1] \in Values(name) /\ parts[1] = FieldBytes(name, values[1])
  <2>1. 1 \in 1 .. n
    BY <1>1
  <2> QED
    BY <1>1, <2>1, PartsCells
<1>4. FieldBytes(name, values[1]) = <<Tag[name]>> /\ Tag[name] \in Nat
  <2>1. FieldFacts(name, values[1])
    BY <1>3, FieldCells
  <2> QED
    BY <2>1, Zenon DEF FieldFacts
<1> HIDE DEF bytes, parts, n
<1>5. Len(parts[1]) = 1 /\ parts[1][1] = Tag[name]
  BY <1>3, <1>4
<1>6. /\ off[0] = 0 /\ off[1] = off[0] + Len(parts[1]) /\ off[1] <= Len(bytes) /\ bytes \in Seq(Nat)
      /\ \A j \in 1 .. Len(parts[1]) : bytes[off[0] + j] = parts[1][j]
  <2>1. 1 \in 1 .. n /\ 1 \in 0 .. n /\ 1 - 1 = 0
    BY <1>1
  <2> QED
    BY <1>2, <2>1 DEF Laid, Offsets
<1>7. 1 <= Len(bytes) /\ bytes[1] = Tag[name]
  BY <1>5, <1>6
<1>8. bytes # <<>> /\ Head(bytes) = bytes[1]
  BY <1>6, <1>7
<1> QED
  BY <1>7, <1>8 DEF bytes

LEMMA CallKinds ==
  ASSUME NEW b \in Calls
  PROVE  CallKind(BodyBytes(b)) = b.name
<1> DEFINE cells == BodyBytes(b)
<1>1. CASE b.name = "json"
  <2>1. PICK t \in Texts : b = Json(t, <<>>)
    BY <1>1, TypedBodies
  <2>2. cells = t
    BY <2>1, BodyCells
  <2>3. t \in Seq(Nat) /\ Len(t) > 1 /\ t[1] = Open
    BY TextFacts
  <2>4. Head(t) = Open
    BY <2>3
  <2>5. Head(cells) \notin {Tag.init, Tag.message}
    BY <2>2, <2>4, WireAssumption DEF Tag
  <2> HIDE DEF cells
  <2> QED
    BY <1>1, <2>5 DEF CallKind, cells
<1>2. CASE b.name # "json"
  <2>1. b.name \in {"init", "message"} /\ TypedBody(b)
    BY <1>2, TypedBodies
  <2>2. cells = ToBytes(b.name, b.values)
    BY <2>1, BodyCells
  <2>3. b.name \in DOMAIN Tag /\ Typed(b.name, b.values)
    BY <2>1 DEF TypedBody
  <2>4. cells # <<>> /\ Head(cells) = Tag[b.name]
    BY <2>2, <2>3, TagFirst
  <2> HIDE DEF cells
  <2>5. Tag.init = 1 /\ Tag.message = 16
    BY DEF Tag
  <2>6. CASE b.name = "init"
    BY <2>4, <2>6 DEF CallKind, cells
  <2>7. CASE b.name = "message"
    BY <2>4, <2>5, <2>7 DEF CallKind, cells
  <2> QED
    BY <2>1, <2>6, <2>7
<1> QED
  BY <1>1, <1>2

LEMMA ParsesBody ==
  ASSUME NEW b, TypedBody(b)
  PROVE  /\ Sound(b) => Parses(b.name, BodyBytes(b)) = {b} /\ CutRefused(b.name, BodyBytes(b))
         /\ \A name, cells : \A h \in Parses(name, cells) : h.name = name
<1>1. ASSUME Sound(b)
      PROVE  Parses(b.name, BodyBytes(b)) = {b} /\ CutRefused(b.name, BodyBytes(b))
  <2> DEFINE cells == BodyBytes(b)
             r == FromBytes(b.name, cells)
  <2>1. /\ b.name \in DOMAIN Layout /\ Typed(b.name, b.values) /\ Short(b.name, b.values)
        /\ cells = ToBytes(b.name, b.values) /\ b = Body(b.name, b.values)
    BY <1>1, BodyCells DEF TypedBody
  <2>2. r = Read(b.values, Len(cells)) /\ CutRefused(b.name, cells)
    BY <2>1, RoundTrip
  <2>3. r.ok /\ r.value = b.values
    <3> HIDE DEF r
    <3> QED
      BY <2>2 DEF Read
  <2>4. {x \in {r} : x.ok} = {r}
    <3> HIDE DEF r
    <3> QED
      BY <2>3
  <2>5. Parses(b.name, cells) = {Body(b.name, x.value) : x \in {r}}
    <3>1. Parses(b.name, cells) = {Body(b.name, x.value) : x \in {y \in {r} : y.ok}}
      BY Zenon DEF Parses
    <3> HIDE DEF r
    <3> QED
      BY <2>4, <3>1
  <2> HIDE DEF r, cells
  <2>6. Parses(b.name, cells) = {Body(b.name, b.values)}
    BY <2>3, <2>5
  <2> QED
    BY <2>1, <2>2, <2>6 DEF cells
<1>2. ASSUME NEW name, NEW cells, NEW h \in Parses(name, cells)
      PROVE  h.name = name
  BY <1>2 DEF Parses, Body
<1> QED
  BY <1>1, <1>2

\* The callee hears what the caller sent.
LEMMA CallsHeard ==
  ASSUME NEW b \in Calls
  PROVE  /\ \A h \in CallBodies(BodyBytes(b)) : h.name = b.name
         /\ Sound(b) => CallBodies(BodyBytes(b)) = {b}
         /\ Sound(b) /\ b.name # "json" => CutRefused(b.name, BodyBytes(b))
<1> DEFINE cells == BodyBytes(b)
<1>1. CallKind(cells) = b.name
  BY CallKinds
<1>2. CASE b.name = "json"
  <2>1. PICK t \in Texts : b = Json(t, <<>>)
    BY <1>2, TypedBodies
  <2>2. cells = t
    BY <2>1, BodyCells
  <2> HIDE DEF cells
  <2>3. CallBodies(cells) = {b}
    BY <1>1, <1>2, <2>1, <2>2 DEF CallBodies
  <2> QED
    BY <1>2, <2>3 DEF cells
<1>3. CASE b.name # "json"
  <2>1. TypedBody(b)
    BY <1>3, TypedBodies
  <2>2. CallBodies(cells) = Parses(b.name, cells)
    BY <1>1, <1>3 DEF CallBodies
  <2> QED
    BY <2>1, <2>2, ParsesBody
<1> QED
  BY <1>2, <1>3

LEMMA Splits ==
  ASSUME NEW t \in Texts, NEW p \in Keys \cup {<<>>}
  PROVE  LET s == SplitReply(t \o p)
         IN  /\ p # [i \in 1 .. KeyLen |-> Blank] => s = Json(t, p) /\ IsJson(s.values[1])
             /\ s.name = "json" /\ Len(s.values[2]) \in {0, KeyLen}
<1> DEFINE cells == t \o p
           s == SplitReply(cells)
<1>1. t \in Seq(Nat) /\ Len(t) \in Nat /\ Len(t) > 1 /\ IsJson(t)
  BY TextFacts
<1>2. KeyLen \in Nat /\ KeyLen > 0
  BY KeyCells
<1>3. \A a, c : /\ Json(a, c).name = "json" /\ Json(a, c).values[1] = a /\ Json(a, c).values[2] = c
  BY DEF Json, Body
<1>4. Len(<< >>) = 0
  OBVIOUS
<1>5. CASE p = <<>>
  <2>1. cells = t
    BY <1>1, <1>5
  <2>2. s = Json(t, <<>>)
    BY <1>1, <2>1 DEF SplitReply
  <2> HIDE DEF s
  <2> QED
    BY <1>1, <1>3, <1>4, <1>5, <2>2 DEF s
<1>6. CASE p \in Keys
  <2>1. p \in Key /\ p \in Seq(Nat) /\ Len(p) = KeyLen
    BY <1>6, InputFacts, KeyCells
  <2>2. /\ cells \in Seq(Nat) /\ Len(cells) = Len(t) + KeyLen
        /\ \A j \in 1 .. Len(t) : cells[j] = t[j]
        /\ \A j \in 1 .. KeyLen : cells[Len(t) + j] = p[j]
    BY <1>1, <2>1, JoinFacts
  <2> DEFINE n == Len(t)
             a == SubSeq(cells, 1, Len(cells) - KeyLen)
             c == SubSeq(cells, Len(cells) - KeyLen + 1, Len(cells))
  <2>3. IsJson(cells) => p = [i \in 1 .. KeyLen |-> Blank]
    BY <2>1, TextThenKey
  <2>4. Len(cells) > KeyLen
    BY <1>1, <1>2, <2>2
  <2>5. s = IF Len(cells) > KeyLen /\ ~ IsJson(cells) THEN Json(a, c) ELSE Json(cells, <<>>)
    BY Zenon DEF SplitReply
  <2> HIDE DEF cells, s
  <2>6. Len(cells) - KeyLen = n /\ n \in Nat /\ n + KeyLen = Len(cells)
    BY <1>1, <1>2, <2>2
  <2>7. a = t
    <3>1. a = SubSeq(cells, 0 + 1, 0 + n)
      BY <2>6
    <3>2. /\ SubSeq(cells, 0 + 1, 0 + n) \in Seq(Nat) /\ Len(SubSeq(cells, 0 + 1, 0 + n)) = n
          /\ \A j \in 1 .. n : SubSeq(cells, 0 + 1, 0 + n)[j] = cells[0 + j]
      BY <1>2, <2>2, <2>6, PartOf
    <3> HIDE DEF a
    <3>3. a \in Seq(Nat) /\ Len(a) = n /\ \A j \in 1 .. n : a[j] = cells[j]
      BY <3>1, <3>2
    <3>4. \A j \in 1 .. n : a[j] = t[j]
      BY <2>2, <3>3
    <3> QED
      BY <1>1, <3>3, <3>4, SameSeq
  <2>8. c = p
    <3>1. c = SubSeq(cells, n + 1, n + KeyLen)
      BY <2>6
    <3>2. /\ SubSeq(cells, n + 1, n + KeyLen) \in Seq(Nat)
          /\ Len(SubSeq(cells, n + 1, n + KeyLen)) = KeyLen
          /\ \A j \in 1 .. KeyLen : SubSeq(cells, n + 1, n + KeyLen)[j] = cells[n + j]
      <4>1. n + KeyLen <= Len(cells)
        BY <1>2, <2>6
      <4> QED
        BY <1>2, <2>2, <2>6, <4>1, PartOf
    <3> HIDE DEF c
    <3>3. c \in Seq(Nat) /\ Len(c) = KeyLen /\ \A j \in 1 .. KeyLen : c[j] = cells[n + j]
      BY <3>1, <3>2
    <3>4. \A j \in 1 .. KeyLen : c[j] = p[j]
      BY <2>2, <3>3
    <3> QED
      BY <2>1, <3>3, <3>4, SameSeq
  <2> HIDE DEF a, c
  <2>9. s = Json(t, p) \/ s = Json(cells, <<>>)
    BY <2>5, <2>7, <2>8
  <2>10. p # [i \in 1 .. KeyLen |-> Blank] => s = Json(t, p)
    BY <2>3, <2>4, <2>5, <2>7, <2>8
  <2>11. s.name = "json" /\ Len(s.values[2]) \in {0, KeyLen}
    <3>1. CASE s = Json(t, p)
      BY <1>3, <2>1, <3>1
    <3>2. CASE s = Json(cells, <<>>)
      BY <1>3, <1>4, <3>2
    <3> QED
      BY <2>9, <3>1, <3>2
  <2>12. p # [i \in 1 .. KeyLen |-> Blank] => IsJson(s.values[1])
    BY <1>1, <1>3, <2>10
  <2> QED
    BY <2>10, <2>11, <2>12 DEF s, cells
<1> QED
  BY <1>5, <1>6

\* The caller is told what the callee answered.
LEMMA AnswersTold ==
  ASSUME NEW name \in {"init", "message", "json"}, NEW r \in Replies(name)
  PROVE  /\ \A a \in AnswerBodies(name, BodyBytes(r)) :
              /\ a.name = AnswerKind[name]
              /\ a.name = "json" => IsJson(a.values[1]) /\ Len(a.values[2]) \in {0, KeyLen}
         /\ Sound(r) => AnswerBodies(name, BodyBytes(r)) = {r}
         /\ Sound(r) /\ r.name # "json" => CutRefused(r.name, BodyBytes(r))
<1> DEFINE cells == BodyBytes(r)
<1>1. CASE name = "json"
  <2>1. r.name = "json" /\ JsonBody(r) /\ AnswerKind[name] = "json"
    BY <1>1, TypedBodies DEF AnswerKind
  <2>2. PICK t \in Texts, p \in Keys \cup {<<>>} : r = Json(t, p)
    BY <2>1 DEF JsonBody
  <2>3. cells = t \o p
    BY <2>2, BodyCells
  <2> DEFINE s == SplitReply(cells)
  <2> HIDE DEF cells
  <2>4. /\ p # [i \in 1 .. KeyLen |-> Blank] => s = Json(t, p) /\ IsJson(s.values[1])
        /\ s.name = "json" /\ Len(s.values[2]) \in {0, KeyLen}
    BY <2>3, Splits
  <2>5. AnswerBodies(name, cells) = {b \in {s} : IsJson(b.values[1])}
    BY <1>1 DEF AnswerBodies
  <2> HIDE DEF s
  <2>6. Sound(r) => p # [i \in 1 .. KeyLen |-> Blank]
    BY <2>1, <2>2 DEF Sound, Json, Body
  <2>7. Sound(r) => AnswerBodies(name, cells) = {r}
    BY <2>2, <2>4, <2>5, <2>6
  <2>8. \A a \in AnswerBodies(name, cells) : a = s /\ IsJson(a.values[1])
    BY <2>5
  <2> QED
    BY <2>1, <2>4, <2>7, <2>8 DEF cells
<1>2. CASE name # "json"
  <2>1. TypedBody(r) /\ r.name = AnswerKind[name] /\ r.name # "json"
    <3>1. CASE name = "init"
      BY <3>1, TypedBodies DEF AnswerKind
    <3>2. CASE name = "message"
      BY <3>2, TypedBodies DEF AnswerKind
    <3> QED
      BY <1>2, <3>1, <3>2
  <2>2. AnswerBodies(name, cells) = Parses(r.name, cells)
    BY <1>2, <2>1, Zenon DEF AnswerBodies
  <2> QED
    BY <2>1, <2>2, ParsesBody
<1> QED
  BY <1>1, <1>2

(***************************************************************************)
(* The frame and the bodies, at every step                                 *)
(***************************************************************************)
\* The frame on its way says what was written, and where the call is.
FrameInv ==
  frame # None =>
    /\ frame.msg_type \in DOMAIN Reader /\ Typed(frame.msg_type, written)
    /\ frame = [msg_type |-> frame.msg_type, payload |-> ToBytes(frame.msg_type, written)]
    /\ frame.msg_type \in {"HELLO", "DELIVER", "SEND_RESULT"} => Len(frame.payload) <= MaxLen
    /\ frame.msg_type = "I_AM" => written[4] \in Seq(Keys)
    /\ frame.msg_type = "UPDATE_COMMITS" => commits # None /\ written[1] \in Seq(Keys)
    /\ frame.msg_type = "SEND" => commits # None
    /\ frame.msg_type \in {"SEND", "DELIVER"} =>
         /\ call # None /\ reply = None /\ heard = None /\ told = None
         /\ written[3] = BodyBytes(call)
    /\ frame.msg_type = "ACK" => reply # None /\ told = None /\ written[2] = BodyBytes(reply)
    /\ frame.msg_type = "SEND_RESULT" =>
         /\ call # None /\ told = None
         /\ written[1] = 0 => reply # None /\ written[2] = BodyBytes(reply)
         /\ written[1] # 0 => reply = None /\ heard = None

\* What the programs have is what they took from each other's cells.
BodiesInv ==
  /\ commits # None => commits \subseteq Keys
  /\ call # None => call \in Calls
  /\ reply # None => call # None /\ reply \in Replies(call.name)
  /\ heard # None => call # None /\ heard \in CallBodies(BodyBytes(call))
  /\ told # None => reply # None /\ told \in AnswerBodies(call.name, BodyBytes(reply))

\* A body is refused where none can be made of it.
RefusedInv ==
  refused # None =>
    \/ refused = <<"relay", "frame">>
    \/ /\ refused = <<"callee", "body">> /\ frame = None
       /\ call # None /\ CallBodies(BodyBytes(call)) = {}
    \/ /\ refused = <<"caller", "body">> /\ frame = None
       /\ reply # None /\ AnswerBodies(call.name, BodyBytes(reply)) = {}

WireInv == FrameInv /\ BodiesInv /\ RefusedInv

\* A reader that reads has what was written.
LEMMA ReadFacts ==
  ASSUME FrameInv, NEW type, Reads(type)
  PROVE  /\ frame # None /\ frame.msg_type = type /\ type \in DOMAIN Reader
         /\ Fields = written /\ Typed(type, written) /\ FrameFields(type, written)
         /\ Len(ToBytes(type, written)) <= MaxLen
<1>1. /\ frame # None /\ frame.msg_type = type /\ ~ TooLarge(frame)
  BY DEF Reads, Readable
<1>2. /\ type \in DOMAIN Reader /\ Typed(type, written) /\ frame.payload = ToBytes(type, written)
  BY <1>1 DEF FrameInv
<1>3. Len(ToBytes(type, written)) \in Nat /\ FrameFields(type, written)
  BY <1>2, FrameLengths, TypedFields
<1>4. Len(ToBytes(type, written)) <= MaxLen
  BY <1>1, <1>2, <1>3, WireAssumption DEF TooLarge
<1>5. FromBytes(type, ToBytes(type, written)) = Read(written, Len(ToBytes(type, written)))
  BY <1>2, <1>4, FrameReads
<1>6. Fields = written
  BY <1>1, <1>2, <1>5 DEF Fields, Parsed, Read
<1> QED
  BY <1>1, <1>2, <1>3, <1>4, <1>6

\* A frame within the limit is readable.
LEMMA WithinReadable ==
  ASSUME FrameInv, frame # None, ~ TooLarge(frame)
  PROVE  /\ Parsed.ok /\ Fields = written /\ Readable
         /\ CutRefused(frame.msg_type, frame.payload)
<1> DEFINE type == frame.msg_type
<1>1. /\ type \in DOMAIN Reader /\ Typed(type, written) /\ frame.payload = ToBytes(type, written)
  BY DEF FrameInv
<1>2. Len(ToBytes(type, written)) \in Nat
  BY <1>1, FrameLengths
<1>3. Len(ToBytes(type, written)) <= MaxLen
  BY <1>1, <1>2, WireAssumption DEF TooLarge
<1>4. /\ FromBytes(type, ToBytes(type, written)) = Read(written, Len(ToBytes(type, written)))
      /\ CutRefused(type, ToBytes(type, written))
  BY <1>1, <1>3, FrameReads
<1>5. Parsed = Read(written, Len(ToBytes(type, written)))
  BY <1>1, <1>4 DEF Parsed
<1>6. Parsed.ok /\ Fields = written
  BY <1>5 DEF Fields, Read
<1> QED
  BY <1>1, <1>4, <1>6 DEF Readable

LEMMA Written ==
  ASSUME NEW type \in DOMAIN Reader, NEW values, Write(type, values), Typed(type, values)
  PROVE  /\ frame'.msg_type = type /\ frame'.payload = ToBytes(type, values) /\ written' = values
         /\ frame' = [msg_type |-> frame'.msg_type, payload |-> ToBytes(frame'.msg_type, written')]
         /\ frame'.msg_type \in DOMAIN Reader /\ Typed(frame'.msg_type, written')
BY DEF Write

LEMMA RefusedStays ==
  ASSUME RefusedInv, refused' = refused, frame # None
  PROVE  RefusedInv'
BY DEF RefusedInv

\* The frames that the programs write.
LEMMA WrittenTyped ==
  /\ \A n \in Nat : Typed("HELLO", <<1, n, 64 * 1024>>)
  /\ \A id, signature \in Key, list \in Seq(Key) :
       Typed("I_AM", <<id, signature, signature, list, <<>>>>)
  /\ \A list \in Seq(Key) : Typed("UPDATE_COMMITS", <<list>>)
  /\ \A to, preimage \in Key, cells \in Seq(Nat) : Typed("SEND", <<to, preimage, cells>>)
  /\ \A n \in Nat, commit \in Key, cells \in Seq(Nat) : Typed("DELIVER", <<n, commit, cells>>)
  /\ \A n \in Nat, cells \in Seq(Nat) : Typed("ACK", <<n, cells>>) /\ Typed("SEND_RESULT", <<n, cells>>)
<1>1. {"key", "blob", "keys", "responses", "number"} \subseteq Kinds
  BY KindValues
<1>2. /\ Values("key") = Key /\ Values("blob") = Seq(Nat) /\ Values("keys") = Seq(Key)
      /\ Values("number") = Nat /\ <<>> \in Values("responses")
  <2>1. <<>> \in Seq(Response)
    OBVIOUS
  <2> QED
    BY <2>1, KindValues
<1>3. ASSUME NEW n \in Nat
      PROVE  Typed("HELLO", <<1, n, 64 * 1024>>)
  <2> DEFINE max == 64 * 1024
  <2>1. 1 \in Nat /\ max \in Nat
    OBVIOUS
  <2> HIDE DEF max
  <2>2. 1 \in Values("number") /\ n \in Values("number") /\ max \in Values("number") /\ "number" \in Kinds
    BY <1>1, <1>2, <2>1
  <2>3. Layout["HELLO"] = <<"number", "number", "number">>
    BY Layouts
  <2>4. Typed("HELLO", <<1, n, max>>)
    BY <2>2, <2>3, TypedThree
  <2> QED
    BY <2>4 DEF max
<1>4. ASSUME NEW id \in Key, NEW signature \in Key, NEW list \in Seq(Key)
      PROVE  Typed("I_AM", <<id, signature, signature, list, <<>>>>)
  <2>1. /\ id \in Values("key") /\ signature \in Values("key") /\ list \in Values("keys")
        /\ {"key", "keys", "responses"} \subseteq Kinds
    BY <1>1, <1>2
  <2>2. Layout["I_AM"] = <<"key", "key", "key", "keys", "responses">>
    BY Layouts
  <2> QED
    BY <1>2, <2>1, <2>2, TypedFive
<1>5. ASSUME NEW list \in Seq(Key)
      PROVE  Typed("UPDATE_COMMITS", <<list>>)
  BY <1>1, <1>2, Layouts, TypedOne
<1>6. ASSUME NEW to \in Key, NEW preimage \in Key, NEW cells \in Seq(Nat)
      PROVE  Typed("SEND", <<to, preimage, cells>>)
  BY <1>1, <1>2, Layouts, TypedThree
<1>7. ASSUME NEW n \in Nat, NEW commit \in Key, NEW cells \in Seq(Nat)
      PROVE  Typed("DELIVER", <<n, commit, cells>>)
  BY <1>1, <1>2, Layouts, TypedThree
<1>8. ASSUME NEW n \in Nat, NEW cells \in Seq(Nat)
      PROVE  Typed("ACK", <<n, cells>>) /\ Typed("SEND_RESULT", <<n, cells>>)
  BY <1>1, <1>2, Layouts, TypedTwo
<1> QED
  BY <1>3, <1>4, <1>5, <1>6, <1>7, <1>8

LEMMA WireInit == Init => WireInv
BY DEF Init, WireInv, FrameInv, BodiesInv, RefusedInv

LEMMA WireStep == WireInv /\ [Next]_vars => WireInv'
<1> SUFFICES ASSUME WireInv, [Next]_vars
             PROVE  WireInv'
  OBVIOUS
<1>1. FrameInv /\ BodiesInv /\ RefusedInv
  BY DEF WireInv
<1>2. KeyLen \in Nat /\ KeyLen > 0 /\ MaxLen \in Nat /\ 3 <= MaxLen
  BY KeyCells, WireAssumption
<1>3. /\ Keys \subseteq Key /\ Seq(Keys) \subseteq Seq(Key) /\ Statuses \subseteq Nat
      /\ CommitLists \subseteq Seq(Keys)
  BY InputFacts, WireAssumption
<1>4. ASSUME NEW n \in Statuses, SendHello(n)
      PROVE  WireInv'
  <2> DEFINE values == <<1, n, 64 * 1024>>
  <2>1. /\ Write("HELLO", values) /\ refused = None
        /\ UNCHANGED <<commits, call, reply, heard, told, refused>>
    BY <1>4, Zenon DEF SendHello
  <2>2. "HELLO" \in DOMAIN Reader /\ Typed("HELLO", values)
    BY <1>3, WrittenTyped DEF Reader
  <2> HIDE DEF values
  <2>3. Len(ToBytes("HELLO", values)) = 3
    BY <2>2, FrameLengths
  <2>4. FrameInv'
    BY <1>2, <2>1, <2>2, <2>3, Written DEF FrameInv
  <2>5. BodiesInv' /\ RefusedInv'
    BY <1>1, <2>1 DEF BodiesInv, RefusedInv
  <2> QED
    BY <2>4, <2>5 DEF WireInv
<1>5. ASSUME NEW id \in Keys, NEW signature \in Keys, NEW list \in CommitLists,
             SendIAm(id, signature, list)
      PROVE  WireInv'
  <2> DEFINE values == <<id, signature, signature, list, <<>>>>
  <2>1. /\ Reads("HELLO") /\ Write("I_AM", values)
        /\ UNCHANGED <<commits, call, reply, heard, told, refused>>
    BY <1>5 DEF SendIAm
  <2>2. "I_AM" \in DOMAIN Reader /\ Typed("I_AM", values) /\ values[4] \in Seq(Keys)
    <3>1. id \in Key /\ signature \in Key /\ list \in Seq(Key) /\ list \in Seq(Keys)
      BY <1>3
    <3> QED
      BY <3>1, WrittenTyped DEF Reader
  <2> HIDE DEF values
  <2>3. FrameInv'
    BY <2>1, <2>2, Written DEF FrameInv
  <2>4. RefusedInv'
    BY <1>1, <2>1, RefusedStays DEF Reads
  <2>5. BodiesInv'
    BY <1>1, <2>1 DEF BodiesInv
  <2> QED
    BY <2>3, <2>4, <2>5 DEF WireInv
<1>6. CASE HandleIAm
  <2>1. /\ Reads("I_AM") /\ commits' = ToSet(Fields[4]) /\ frame' = None
        /\ UNCHANGED <<call, reply, heard, told, refused>>
    BY <1>6 DEF HandleIAm, NoFrame
  <2>2. frame # None /\ Fields = written /\ written[4] \in Seq(Keys)
    BY <1>1, <2>1, ReadFacts DEF FrameInv
  <2>3. commits' \subseteq Keys
    BY <2>1, <2>2 DEF ToSet
  <2>4. BodiesInv'
    BY <1>1, <2>1, <2>3 DEF BodiesInv
  <2>5. RefusedInv'
    BY <1>1, <2>1, <2>2, RefusedStays
  <2> QED
    BY <2>1, <2>4, <2>5 DEF WireInv, FrameInv
<1>7. ASSUME NEW commit \in Keys, SendCommit(commit)
      PROVE  WireInv'
  <2> DEFINE values == <<<<commit>>>>
  <2>1. /\ frame = None /\ commits # None /\ call = None /\ Write("UPDATE_COMMITS", values)
        /\ UNCHANGED <<commits, call, reply, heard, told, refused>>
    BY <1>7 DEF SendCommit
  <2>2. "UPDATE_COMMITS" \in DOMAIN Reader /\ Typed("UPDATE_COMMITS", values) /\ values[1] \in Seq(Keys)
    <3> DEFINE list == <<commit>>
    <3>1. list \in Seq(Keys) /\ list \in Seq(Key)
      BY <1>3
    <3> HIDE DEF list
    <3>2. Typed("UPDATE_COMMITS", <<list>>) /\ <<list>>[1] = list
      BY <3>1, WrittenTyped
    <3>3. "UPDATE_COMMITS" \in DOMAIN Reader
      BY DEF Reader
    <3> QED
      BY <3>1, <3>2, <3>3, Zenon DEF list
  <2> HIDE DEF values
  <2>3. FrameInv'
    BY <2>1, <2>2, Written DEF FrameInv
  <2>4. BodiesInv' /\ RefusedInv'
    BY <1>1, <2>1 DEF BodiesInv, RefusedInv
  <2> QED
    BY <2>3, <2>4 DEF WireInv
<1>8. CASE HandleUpdateCommits
  <2>1. /\ Reads("UPDATE_COMMITS") /\ commits' = commits \cup ToSet(Fields[1]) /\ frame' = None
        /\ UNCHANGED <<call, reply, heard, told, refused>>
    BY <1>8 DEF HandleUpdateCommits, NoFrame
  <2>2. frame # None /\ Fields = written /\ written[1] \in Seq(Keys) /\ commits # None
    BY <1>1, <2>1, ReadFacts DEF FrameInv
  <2>3. ToSet(written[1]) \subseteq Keys /\ commits \subseteq Keys
    BY <1>1, <2>2 DEF ToSet, BodiesInv
  <2>4. BodiesInv'
    BY <1>1, <2>1, <2>2, <2>3 DEF BodiesInv
  <2>5. RefusedInv'
    BY <1>1, <2>1, <2>2, RefusedStays
  <2> QED
    BY <2>1, <2>4, <2>5 DEF WireInv, FrameInv
<1>9. ASSUME NEW to \in Keys, NEW preimage \in Keys, NEW b \in Calls, SendCall(to, preimage, b)
      PROVE  WireInv'
  <2> DEFINE values == <<to, preimage, BodyBytes(b)>>
  <2>1. /\ frame = None /\ commits # None /\ call = None /\ refused = None
        /\ call' = b /\ Write("SEND", values)
        /\ UNCHANGED <<commits, reply, heard, told, refused>>
    BY <1>9 DEF SendCall
  <2>2. reply = None /\ heard = None /\ told = None
    BY <1>1, <2>1 DEF BodiesInv
  <2>3. b # None
    BY NoneAssumption
  <2>4. "SEND" \in DOMAIN Reader /\ Typed("SEND", values) /\ values[3] = BodyBytes(b)
    <3>1. to \in Key /\ preimage \in Key /\ BodyBytes(b) \in Seq(Nat)
      BY <1>3, BodyCells
    <3> QED
      BY <3>1, WrittenTyped DEF Reader
  <2> HIDE DEF values
  <2>5. FrameInv'
    BY <2>1, <2>2, <2>3, <2>4, Written DEF FrameInv
  <2>6. BodiesInv' /\ RefusedInv'
    BY <1>1, <2>1, <2>2 DEF BodiesInv, RefusedInv
  <2> QED
    BY <2>5, <2>6 DEF WireInv
<1>10. ASSUME NEW n \in Statuses, HandleSend(n)
       PROVE  WireInv'
  <2> DEFINE values == <<n, Fields[2], Fields[3]>>
  <2>1. /\ Reads("SEND") /\ commits' = commits \ {Fields[2]} /\ Write("DELIVER", values)
        /\ UNCHANGED <<call, reply, heard, told, refused>>
    BY <1>10 DEF HandleSend
  <2>2. /\ frame # None /\ frame.msg_type = "SEND" /\ Fields = written /\ Typed("SEND", written)
        /\ written[1] \in Key /\ written[2] \in Key /\ written[3] \in Seq(Nat)
        /\ Len(ToBytes("SEND", written)) <= MaxLen /\ "SEND" \in DOMAIN Reader
    BY <1>1, <2>1, ReadFacts DEF FrameFields
  <2>3. /\ commits # None /\ call # None /\ reply = None /\ heard = None /\ told = None
        /\ written[3] = BodyBytes(call)
    BY <1>1, <2>2 DEF FrameInv
  <2>4. "DELIVER" \in DOMAIN Reader /\ Typed("DELIVER", values) /\ values[3] = written[3]
    <3>1. n \in Nat /\ Fields[2] \in Key /\ Fields[3] \in Seq(Nat) /\ values[3] = Fields[3]
      BY <1>3, <2>2
    <3> QED
      BY <2>2, <3>1, WrittenTyped DEF Reader
  <2> HIDE DEF values
  <2>5. /\ Len(ToBytes("SEND", written)) = KeyLen + KeyLen + (1 + Len(written[3]))
        /\ Len(ToBytes("DELIVER", values)) = 1 + KeyLen + (1 + Len(values[3]))
    BY <2>2, <2>4, FrameLengths
  <2>6. Len(ToBytes("DELIVER", values)) <= MaxLen
    <3> DEFINE n3 == Len(written[3])
               sent == Len(ToBytes("SEND", written))
               delivered == Len(ToBytes("DELIVER", values))
    <3>1. n3 \in Nat /\ sent <= MaxLen
      BY <2>2
    <3>2. sent = KeyLen + KeyLen + (1 + n3) /\ delivered = 1 + KeyLen + (1 + n3)
      BY <2>4, <2>5, Zenon
    <3> HIDE DEF n3, sent, delivered
    <3>3. delivered <= MaxLen
      BY <1>2, <3>1, <3>2
    <3> QED
      BY <3>3 DEF delivered
  <2>7. FrameInv'
    BY <2>1, <2>3, <2>4, <2>6, Written DEF FrameInv
  <2>8. BodiesInv'
    BY <1>1, <2>1, <2>3 DEF BodiesInv
  <2>9. RefusedInv'
    BY <1>1, <2>1, <2>2, RefusedStays
  <2> QED
    BY <2>7, <2>8, <2>9 DEF WireInv
<1>11. ASSUME NEW status \in 1 .. 4, SendFails(status)
       PROVE  WireInv'
  <2> DEFINE values == <<status, <<>>>>
  <2>1. /\ Reads("SEND") /\ Write("SEND_RESULT", values)
        /\ UNCHANGED <<commits, call, reply, heard, told, refused>>
    BY <1>11 DEF SendFails
  <2>2. /\ frame # None /\ frame.msg_type = "SEND"
    BY <1>1, <2>1, ReadFacts
  <2>3. call # None /\ reply = None /\ heard = None /\ told = None
    BY <1>1, <2>2 DEF FrameInv
  <2>4. /\ "SEND_RESULT" \in DOMAIN Reader /\ Typed("SEND_RESULT", values)
        /\ values[1] # 0 /\ Len(values[2]) = 0
    <3>1. status \in Nat /\ <<>> \in Seq(Nat) /\ values[1] = status /\ values[2] = <<>> /\ Len(<< >>) = 0
      OBVIOUS
    <3>2. status # 0
      OBVIOUS
    <3> QED
      BY <3>1, <3>2, WrittenTyped DEF Reader
  <2> HIDE DEF values
  <2>5. Len(ToBytes("SEND_RESULT", values)) <= MaxLen
    <3>1. Len(ToBytes("SEND_RESULT", values)) = 1 + (1 + 0)
      BY <2>4, FrameLengths
    <3> QED
      BY <1>2, <3>1
  <2>6. FrameInv'
    BY <2>1, <2>3, <2>4, <2>5, Written DEF FrameInv
  <2>7. BodiesInv'
    BY <1>1, <2>1 DEF BodiesInv
  <2>8. RefusedInv'
    BY <1>1, <2>1, <2>2, RefusedStays
  <2> QED
    BY <2>6, <2>7, <2>8 DEF WireInv
<1>12. CASE HandleDeliver
  <2>1. Reads("DELIVER") /\ UNCHANGED <<commits, call, told, refused>>
    BY <1>12 DEF HandleDeliver
  <2>2. PICK b \in CallBodies(Fields[3]), r \in Replies(CallKind(Fields[3])) :
          heard' = b /\ reply' = r /\ Write("ACK", <<Fields[1], BodyBytes(r)>>)
    BY <1>12 DEF HandleDeliver
  <2>3. /\ frame # None /\ frame.msg_type = "DELIVER" /\ Fields = written /\ written[1] \in Nat
    BY <1>1, <2>1, ReadFacts DEF FrameFields
  <2>4. call # None /\ told = None /\ written[3] = BodyBytes(call) /\ call \in Calls
    BY <1>1, <2>3 DEF FrameInv, BodiesInv
  <2>5. b \in CallBodies(BodyBytes(call)) /\ r \in Replies(call.name)
    BY <2>2, <2>3, <2>4, CallKinds
  <2>6. r # None /\ BodyBytes(r) \in Seq(Nat)
    <3>1. call.name \in {"init", "message", "json"}
      BY <2>4, TypedBodies
    <3> QED
      BY <2>4, <2>5, <3>1, BodyCells, NoneAssumption
  <2> DEFINE values == <<Fields[1], BodyBytes(r)>>
  <2>7. "ACK" \in DOMAIN Reader /\ Typed("ACK", values) /\ values[2] = BodyBytes(r)
    BY <2>3, <2>6, WrittenTyped DEF Reader
  <2>8. Write("ACK", values)
    BY <2>2
  <2> HIDE DEF values
  <2>9. FrameInv'
    BY <2>1, <2>2, <2>4, <2>6, <2>7, <2>8, Written DEF FrameInv
  <2>10. BodiesInv'
    BY <1>1, <2>1, <2>2, <2>4, <2>5 DEF BodiesInv
  <2>11. RefusedInv'
    BY <1>1, <2>1, <2>3, RefusedStays
  <2> QED
    BY <2>9, <2>10, <2>11 DEF WireInv
<1>13. CASE DeliverRefused
  <2>1. /\ Reads("DELIVER") /\ CallBodies(Fields[3]) = {} /\ refused' = <<"callee", "body">>
        /\ frame' = None /\ UNCHANGED <<commits, call, reply, heard, told>>
    BY <1>13 DEF DeliverRefused, NoFrame
  <2>2. frame # None /\ frame.msg_type = "DELIVER" /\ Fields = written
    BY <1>1, <2>1, ReadFacts
  <2>3. call # None /\ written[3] = BodyBytes(call)
    BY <1>1, <2>2 DEF FrameInv
  <2>4. RefusedInv'
    BY <2>1, <2>2, <2>3 DEF RefusedInv
  <2>5. BodiesInv'
    BY <1>1, <2>1 DEF BodiesInv
  <2> QED
    BY <2>1, <2>4, <2>5 DEF WireInv, FrameInv
<1>14. CASE HandleAck
  <2> DEFINE values == <<0, Fields[2]>>
  <2>1. /\ Reads("ACK") /\ Write("SEND_RESULT", values)
        /\ UNCHANGED <<commits, call, reply, heard, told, refused>>
    BY <1>14 DEF HandleAck
  <2>2. /\ frame # None /\ frame.msg_type = "ACK" /\ Fields = written /\ Typed("ACK", written)
        /\ written[2] \in Seq(Nat) /\ Len(ToBytes("ACK", written)) <= MaxLen /\ "ACK" \in DOMAIN Reader
    BY <1>1, <2>1, ReadFacts DEF FrameFields
  <2>3. call # None /\ reply # None /\ told = None /\ written[2] = BodyBytes(reply)
    BY <1>1, <2>2 DEF FrameInv, BodiesInv
  <2>4. /\ "SEND_RESULT" \in DOMAIN Reader /\ Typed("SEND_RESULT", values)
        /\ values[1] = 0 /\ values[2] = written[2]
    <3>1. 0 \in Nat /\ Fields[2] \in Seq(Nat) /\ values[1] = 0 /\ values[2] = Fields[2]
      BY <2>2
    <3> QED
      BY <2>2, <3>1, WrittenTyped DEF Reader
  <2> HIDE DEF values
  <2>5. Len(ToBytes("SEND_RESULT", values)) <= MaxLen
    <3>1. /\ Len(ToBytes("SEND_RESULT", values)) = 1 + (1 + Len(values[2]))
          /\ Len(ToBytes("ACK", written)) = 1 + (1 + Len(written[2]))
      BY <2>2, <2>4, FrameLengths
    <3> QED
      BY <2>2, <2>4, <3>1
  <2>6. FrameInv'
    BY <2>1, <2>3, <2>4, <2>5, Written DEF FrameInv
  <2>7. BodiesInv'
    BY <1>1, <2>1 DEF BodiesInv
  <2>8. RefusedInv'
    BY <1>1, <2>1, <2>2, RefusedStays
  <2> QED
    BY <2>6, <2>7, <2>8 DEF WireInv
<1>15. CASE HandleResult
  <2>1. /\ Reads("SEND_RESULT") /\ Fields[1] = 0 /\ told' \in AnswerBodies(call.name, Fields[2])
        /\ frame' = None /\ UNCHANGED <<commits, call, reply, heard, refused>>
    BY <1>15 DEF HandleResult, NoFrame
  <2>2. frame # None /\ frame.msg_type = "SEND_RESULT" /\ Fields = written
    BY <1>1, <2>1, ReadFacts
  <2>3. reply # None /\ written[2] = BodyBytes(reply)
    BY <1>1, <2>1, <2>2 DEF FrameInv
  <2>4. BodiesInv'
    BY <1>1, <2>1, <2>2, <2>3 DEF BodiesInv
  <2>5. RefusedInv'
    BY <1>1, <2>1, <2>2, RefusedStays
  <2> QED
    BY <2>1, <2>4, <2>5 DEF WireInv, FrameInv
<1>16. CASE ResultRefused
  <2>1. /\ Reads("SEND_RESULT") /\ Fields[1] = 0 /\ AnswerBodies(call.name, Fields[2]) = {}
        /\ refused' = <<"caller", "body">> /\ frame' = None
        /\ UNCHANGED <<commits, call, reply, heard, told>>
    BY <1>16 DEF ResultRefused, NoFrame
  <2>2. frame # None /\ frame.msg_type = "SEND_RESULT" /\ Fields = written
    BY <1>1, <2>1, ReadFacts
  <2>3. reply # None /\ written[2] = BodyBytes(reply)
    BY <1>1, <2>1, <2>2 DEF FrameInv
  <2>4. RefusedInv'
    BY <2>1, <2>2, <2>3 DEF RefusedInv
  <2>5. BodiesInv'
    BY <1>1, <2>1 DEF BodiesInv
  <2> QED
    BY <2>1, <2>4, <2>5 DEF WireInv, FrameInv
<1>17. CASE HandleError
  <2>1. /\ Reads("SEND_RESULT") /\ Fields[1] # 0 /\ call' = None /\ frame' = None
        /\ UNCHANGED <<commits, reply, heard, told, refused>>
    BY <1>17 DEF HandleError, NoFrame
  <2>2. frame # None /\ frame.msg_type = "SEND_RESULT" /\ Fields = written
    BY <1>1, <2>1, ReadFacts
  <2>3. reply = None /\ heard = None /\ told = None
    BY <1>1, <2>1, <2>2 DEF FrameInv
  <2>4. BodiesInv'
    BY <1>1, <2>1, <2>3 DEF BodiesInv
  <2>5. RefusedInv'
    BY <1>1, <2>1, <2>2, RefusedStays
  <2> QED
    BY <2>1, <2>4, <2>5 DEF WireInv, FrameInv
<1>18. CASE FrameRefused
  <2>1. /\ frame # None /\ ~ Readable /\ refused' = <<Reader[frame.msg_type], "frame">>
        /\ frame' = None /\ UNCHANGED <<commits, call, reply, heard, told>>
    BY <1>18 DEF FrameRefused, NoFrame
  <2>2. TooLarge(frame)
    BY <1>1, <2>1, WithinReadable
  <2>3. Len(frame.payload) \in Nat /\ frame.msg_type \in DOMAIN Reader
    BY <1>1, <2>1, FrameLengths DEF FrameInv
  <2>4. frame.msg_type \notin {"HELLO", "DELIVER", "SEND_RESULT"}
    BY <1>1, <1>2, <2>1, <2>2, <2>3 DEF FrameInv, TooLarge
  <2>5. Reader[frame.msg_type] = "relay"
    BY <2>3, <2>4 DEF Reader
  <2>6. RefusedInv'
    BY <2>1, <2>5 DEF RefusedInv
  <2>7. BodiesInv'
    BY <1>1, <2>1 DEF BodiesInv
  <2> QED
    BY <2>1, <2>6, <2>7 DEF WireInv, FrameInv
<1>19. CASE Again
  BY <1>19 DEF Again, WireInv, FrameInv, BodiesInv, RefusedInv
<1>20. CASE UNCHANGED vars
  BY <1>1, <1>20 DEF vars, WireInv, FrameInv, BodiesInv, RefusedInv
<1> QED
  BY <1>4, <1>5, <1>6, <1>7, <1>8, <1>9, <1>10, <1>11, <1>12, <1>13, <1>14, <1>15, <1>16, <1>17,
     <1>18, <1>19, <1>20 DEF Next

LEMMA WireAlways == Spec => []WireInv
BY WireInit, WireStep, PTL DEF Spec

(***************************************************************************)
(* What the runs check                                                     *)
(***************************************************************************)

LEMMA TypesHold ==
  ASSUME WireInv
  PROVE  TypeOK
<1>1. FrameInv /\ BodiesInv /\ RefusedInv
  BY DEF WireInv
<1>2. ASSUME frame # None
      PROVE  /\ frame.msg_type \in DOMAIN Reader
             /\ \A i \in DOMAIN frame.payload : frame.payload[i] \in Nat
  <2>1. /\ frame.msg_type \in DOMAIN Reader /\ Typed(frame.msg_type, written)
        /\ frame.payload = ToBytes(frame.msg_type, written)
    BY <1>1, <1>2 DEF FrameInv
  <2>2. frame.msg_type \in DOMAIN Layout
    BY <2>1, Layouts
  <2>3. 1 \in 1 .. Len(Layout[frame.msg_type])
    BY <2>2, LayoutKinds
  <2>4. frame.payload \in Seq(Nat)
    BY <2>1, <2>2, <2>3, FieldWithin
  <2> QED
    BY <2>1, <2>4
<1>3. call # None => call \in Calls /\ call.name \in {"init", "message", "json"}
  BY <1>1, TypedBodies DEF BodiesInv
<1>4. call # None => call.name \in DOMAIN AnswerKind
  BY <1>3 DEF AnswerKind
<1>5. heard # None => call # None /\ heard.name = call.name
  BY <1>1, <1>3, CallsHeard DEF BodiesInv
<1>6. told # None =>
        /\ told.name = AnswerKind[call.name]
        /\ told.name = "json" => IsJson(told.values[1]) /\ Len(told.values[2]) \in {0, KeyLen}
  <2> SUFFICES ASSUME told # None
               PROVE  /\ told.name = AnswerKind[call.name]
                      /\ told.name = "json" =>
                           IsJson(told.values[1]) /\ Len(told.values[2]) \in {0, KeyLen}
    OBVIOUS
  <2>1. call # None /\ reply \in Replies(call.name) /\ told \in AnswerBodies(call.name, BodyBytes(reply))
    BY <1>1 DEF BodiesInv
  <2> QED
    BY <1>3, <2>1, AnswersTold
<1>7. refused # None => refused \in {"relay", "callee", "caller"} \X {"frame", "body"}
  BY <1>1 DEF RefusedInv
<1>8. commits # None => commits \subseteq Keys
  BY <1>1 DEF BodiesInv
<1> QED
  BY <1>2, <1>4, <1>5, <1>6, <1>7, <1>8 DEF TypeOK

LEMMA IntactHolds ==
  ASSUME WireInv
  PROVE  Intact
<1>1. FrameInv /\ BodiesInv
  BY DEF WireInv
<1>2. call # None => call \in Calls /\ call.name \in {"init", "message", "json"}
  BY <1>1, TypedBodies DEF BodiesInv
<1>3. reply # None => call # None /\ reply \in Replies(call.name)
  BY <1>1 DEF BodiesInv
<1>4. frame # None /\ ~ TooLarge(frame) =>
        Parsed.ok /\ Fields = written /\ CutRefused(frame.msg_type, frame.payload)
  BY <1>1, WithinReadable
<1>5. ASSUME NEW b \in {call, reply} \ {None}, b.name # "json", Sound(b)
      PROVE  CutRefused(b.name, BodyBytes(b))
  <2>1. CASE b = call
    BY <1>2, <1>5, <2>1, CallsHeard
  <2>2. CASE b = reply
    BY <1>2, <1>3, <1>5, <2>2, AnswersTold
  <2> QED
    BY <2>1, <2>2
<1>6. ASSUME heard # None, Sound(call)
      PROVE  heard = call
  <2>1. call \in Calls /\ heard \in CallBodies(BodyBytes(call))
    BY <1>1, <1>2, <1>6 DEF BodiesInv
  <2>2. CallBodies(BodyBytes(call)) = {call}
    BY <1>6, <2>1, CallsHeard
  <2> QED
    BY <2>1, <2>2
<1>7. ASSUME told # None, Sound(reply)
      PROVE  told = reply
  <2>1. reply # None /\ told \in AnswerBodies(call.name, BodyBytes(reply))
    BY <1>1, <1>7 DEF BodiesInv
  <2>2. AnswerBodies(call.name, BodyBytes(reply)) = {reply}
    BY <1>2, <1>3, <1>7, <2>1, AnswersTold
  <2> QED
    BY <2>1, <2>2
<1> QED
  BY <1>4, <1>5, <1>6, <1>7 DEF Intact

LEMMA ForwardsHolds ==
  ASSUME WireInv
  PROVE  Forwards
<1> SUFFICES ASSUME refused # None
             PROVE  \/ refused = <<"relay", "frame">>
                    \/ refused[2] = "body" /\ \E b \in {call, reply} \ {None} : ~ Sound(b)
  BY DEF Forwards
<1>1. BodiesInv /\ RefusedInv
  BY DEF WireInv
<1>2. CASE refused = <<"callee", "body">> /\ call # None /\ CallBodies(BodyBytes(call)) = {}
  <2>1. call \in Calls
    BY <1>1, <1>2 DEF BodiesInv
  <2>2. ~ Sound(call)
    BY <1>2, <2>1, CallsHeard
  <2> QED
    BY <1>2, <2>2
<1>3. CASE refused = <<"caller", "body">> /\ reply # None /\ AnswerBodies(call.name, BodyBytes(reply)) = {}
  <2>1. call \in Calls /\ reply \in Replies(call.name)
    BY <1>1, <1>3 DEF BodiesInv
  <2>2. call.name \in {"init", "message", "json"}
    BY <2>1, TypedBodies
  <2>3. ~ Sound(reply)
    BY <1>3, <2>1, <2>2, AnswersTold
  <2> QED
    BY <1>3, <2>3
<1> QED
  BY <1>1, <1>2, <1>3 DEF RefusedInv

\* Frames are cells, the relay holds commits, and what the caller is told is an
\* answer to its kind of call, with no preimage or a whole one: Session::handle_frame,
\* Node::send.
THEOREM WireTypes == Spec => []TypeOK
<1>1. WireInv => TypeOK
  BY TypesHold
<1> QED
  BY <1>1, WireAlways, PTL

\* Whatever the lengths of the keys, texts, addresses and lists, a frame within
\* the limit is read as it was written, no beginning of a message is taken for it,
\* and what the callee and the caller make of the bodies is what was sent, except
\* where an address outgrows its 16 bits or a preimage is white space.
THEOREM WireIntact == Spec => []Intact
<1>1. WireInv => Intact
  BY IntactHolds
<1> QED
  BY <1>1, WireAlways, PTL

\* The relay never writes a HELLO, DELIVER or SEND_RESULT that its reader refuses
\* (read_frame), though it adds headers of its own to what it was sent.
THEOREM WireForwards == Spec => []Forwards
<1>1. WireInv => Forwards
  BY ForwardsHolds
<1> QED
  BY <1>1, WireAlways, PTL

==============================================================================
