-------------------------- MODULE Esp32SwitchProofs --------------------------
(***************************************************************************)
(* Theorems about Esp32Switch, for any networks, any number of resets and  *)
(* restarts, and any commands of the owner.                                *)
(***************************************************************************)
EXTENDS Esp32Switch, FiniteSetTheorems, SequenceTheorems, TLAPS

(***************************************************************************)
(* Inductive invariants                                                    *)
(***************************************************************************)

\* StateFits: the one record is an invite, or the peer that came of it.
OneRecord ==
  /\ Stored.invites = {} \/ Stored.peers = {}
  /\ \A x, y \in Stored.invites \cup Stored.peers : x = y

\* IssuedReachable: the I_AM that replaces the commits comes before all of them.
ReachableInv ==
  /\ IssuedReachable
  /\ At("hello") => commits = {} /\ uplink = <<>>
  /\ \A i \in DOMAIN uplink : uplink[i].type = "I_AM" => i = 1 /\ commits = {}
  /\ At("write") => \A i \in DOMAIN task.frames : task.frames[i].type # "I_AM"

\* OwnerKnowsLight: a reset removes the key before the rest.
KeyGoesFirst(todo) ==
  \A i \in DOMAIN todo :
    todo[i][1] \in {"state", "led_on"} => \E j \in 1 .. i - 1 : todo[j][1] = "secret_key"

ResetInOrder ==
  /\ KeyGoesFirst(ble.command)
  /\ At("flash") => nvs["secret_key"] = None \/ KeyGoesFirst(task.todo)

\* A preimage that was answered with the next one is not honoured again.
AnsweredIsRetired ==
  \A a \in Answers :
    /\ a.is_on # None => a.next # None
    /\ a.next # None => a.preimage \notin Stored.invites \cup Stored.peers

\* Commands come with the preimage the owner holds.
CommandsAreHeld ==
  task.at \notin {"off", "flash"} =>
    /\ \A i \in DOMAIN downlink :
         downlink[i].preimage \in peers => held # None /\ held.preimage = downlink[i].preimage
    /\ task.at \in {"led", "renew"} => held # None /\ held.preimage = task.preimage

\* The answer that waits for the owner is the last one, and true.
AnswerIsCurrent ==
  held # None /\ held.key = nvs["secret_key"] =>
    \A a \in Answers : a.preimage = held.preimage =>
      /\ a.next # None => a.next \in Stored.peers
      /\ a.is_on # None => LoadLed = a.is_on /\ (~ At("off") => is_on = a.is_on)

LightInv ==
  /\ OwnerKnowsLight /\ ResetInOrder /\ AnsweredIsRetired /\ CommandsAreHeld /\ AnswerIsCurrent
  /\ known # None => held # None
  /\ task.at \notin {"off", "flash", "led"} => is_on = LoadLed
  /\ At("led") /\ held.key = nvs["secret_key"] => known = None

\* HonouredOnce: a preimage that was executed is being renewed.
ExecutedInv ==
  \A p \in Stored.peers \cap executed :
    task.at \in {"led", "renew"} /\ task.preimage = p

(***************************************************************************)
(* Steps                                                                   *)
(***************************************************************************)

\* The values drawn stay drawn.
LEMMA DrawnGrows ==
  ASSUME fresh \in Nat \ {0}, fresh' \in {fresh, fresh + 1}
  PROVE  /\ Drawn \subseteq Drawn' /\ fresh' \in Nat \ {0}
         /\ fresh' = fresh + 1 => fresh \in Drawn'
         /\ fresh \notin Drawn /\ Drawn \subseteq Nat /\ Drawn' \subseteq Nat
<1>1. fresh' \in Nat \ {0} /\ fresh <= fresh'
  OBVIOUS
<1>2. /\ Drawn = {n \in Nat : 1 <= n /\ n < fresh}
      /\ Drawn' = {n \in Nat : 1 <= n /\ n < fresh'}
  BY <1>1 DEF Drawn
<1> QED
  BY <1>1, <1>2

\* At most one value is drawn in a step.
LEMMA DrawsOne ==
  ASSUME [Next]_vars
  PROVE  fresh' \in {fresh, fresh + 1}
<1> USE DEF historyVars
<1>1. CASE UNCHANGED vars
  BY <1>1 DEF vars
<1>2. CASE Program
  BY <1>2 DEF Program, Boot, CreateOwnerInvite, GetInviteToken, Paired, TakeCommand, NoCommand,
       Flash, Connect, RunConnectionFails, ReadTimesOut, Handle, AcceptHandshake, Refuse,
       SwitchLight, ReadStatus, SaveLedState, RenewPreimage, WriteFrame
<1>3. CASE BleClient \/ RelayStep \/ Owner
  BY <1>3 DEF BleClient, WriteSsid, WritePassword, WriteReset, WriteProvision, RelayStep,
       RegisterFrame, CommitsFrame, AckFrame, Owner, OwnerIsAnswered, OwnerSends
<1>4. CASE SignIn \/ Disconnect \/ PowerLost \/ \E p \in DOMAIN response_cache : Expire(p)
  BY <1>4 DEF SignIn, Disconnect, PowerLost, Expire
<1> QED
  BY <1>1, <1>2, <1>3, <1>4 DEF Next

\* The commands are sequences of writes.
LEMMA CommandTypes ==
  /\ Reset \in Seq(Writes) /\ Reset # <<>>
  /\ \A s, p \in Networks : Provision(s, p) \in Seq(Writes) /\ Provision(s, p) # <<>>
  /\ <<>> \in Seq(Writes)
<1>1. /\ <<"wifi_ssid", None>> \in Writes /\ <<"wifi_pass", None>> \in Writes
      /\ <<"secret_key", None>> \in Writes /\ <<"state", None>> \in Writes
      /\ <<"led_on", None>> \in Writes
  BY DEF Writes, Keys
<1>2. ASSUME NEW s \in Networks, NEW p \in Networks
      PROVE  <<"wifi_ssid", s>> \in Writes /\ <<"wifi_pass", p>> \in Writes
  BY DEF Writes
<1> QED
  BY <1>1, <1>2 DEF Reset, Provision

\* What is left of a sequence.
LEMMA TailTypes ==
  ASSUME NEW S, NEW s \in Seq(S), s # <<>>
  PROVE  /\ Head(s) \in S /\ Head(s) = s[1] /\ 1 \in DOMAIN s
         /\ Tail(s) \in Seq(S) /\ (Len(s) # 1 => Tail(s) # <<>>)
         /\ \A i \in DOMAIN Tail(s) : i + 1 \in DOMAIN s /\ Tail(s)[i] = s[i + 1]
<1>1. Head(s) \in S /\ Head(s) = s[1] /\ 1 \in DOMAIN s
  OBVIOUS
<1>2. Tail(s) \in Seq(S) /\ Len(Tail(s)) = Len(s) - 1 /\ Len(s) \in Nat \ {0}
  OBVIOUS
<1>3. Len(s) # 1 => Tail(s) # <<>>
  <2>1. Len(s) # 1 => Len(Tail(s)) # 0
    BY <1>2
  <2>2. Len(<< >>) = 0
    BY EmptySeq
  <2> QED
    BY <2>1, <2>2
<1>4. \A i \in DOMAIN Tail(s) : i + 1 \in DOMAIN s /\ Tail(s)[i] = s[i + 1]
  OBVIOUS
<1> QED
  BY <1>1, <1>2, <1>3, <1>4

\* What is at the head of a sequence, or else behind it.
LEMMA HeadOrTail ==
  ASSUME NEW S, NEW s \in Seq(S), s # <<>>, NEW i \in DOMAIN s
  PROVE  s[i] = Head(s) \/ \E j \in DOMAIN Tail(s) : Tail(s)[j] = s[i]
<1>1. CASE i = 1
  BY <1>1
<1>2. CASE i # 1
  <2>1. i - 1 \in DOMAIN Tail(s) /\ Tail(s)[i - 1] = s[i]
    BY <1>2
  <2> QED
    BY <2>1
<1> QED
  BY <1>1, <1>2

\* A state is not taken for none.
LEMMA StateIsSome ==
  \A is, ps \in SUBSET Nat, size \in Nat : StoredState(is, ps, size) # None
<1> DEFINE States == [invites : SUBSET Nat, peers : SUBSET Nat, address : Nat]
<1>1. \A is, ps \in SUBSET Nat, size \in Nat : StoredState(is, ps, size) \in States
  BY DEF StoredState
<1>2. None \notin States
  BY SwitchAssumption
<1> QED
  BY <1>1, <1>2

\* The frames are what the firmware says they are.
LEMMA FrameTypes ==
  /\ \A ps \in SUBSET Nat : IAm(ps) \in Frame /\ UpdateCommits(ps) \in Frame
  /\ \A p \in Nat, next \in Nat \cup {None}, light \in BOOLEAN \cup {None} :
       Ack(p, next, light) \in Frame
BY DEF Frame, IAm, UpdateCommits, Ack

\* Without new frames there are no new answers, if the relay gets none.
LEMMA FewerAnswers ==
  ASSUME Frames' \subseteq Frames,
         DOMAIN response_cache' \subseteq DOMAIN response_cache,
         \A p \in DOMAIN response_cache' : response_cache'[p] = response_cache[p]
  PROVE  Answers' \subseteq Answers
BY DEF Answers

\* Where the program does not begin to write, nothing is said that was not.
LEMMA FewerFrames ==
  ASSUME uplink' = uplink, task' = task \/ task'.at # "write"
  PROVE  Frames' \subseteq Frames
BY DEF Frames, At

\* Where it does, its frames are new.
LEMMA NewFrames ==
  ASSUME uplink' = uplink, NEW frames, task' = Writing(frames)
  PROVE  Frames' \subseteq Frames \cup {frames[i] : i \in DOMAIN frames}
BY DEF Frames, At, Writing

\* The relay takes a frame, or the program writes one.
LEMMA MovedFrames ==
  ASSUME uplink \in Seq(Frame),
         \/ uplink # <<>> /\ uplink' = Tail(uplink) /\ task' = task
         \/ At("write") /\ task.frames \in Seq(Frame) /\ task.frames # <<>> /\ WriteFrame
         \/ uplink' = <<>> /\ (task' = task \/ task'.at # "write")
  PROVE  Frames' \subseteq Frames
<1>1. CASE uplink # <<>> /\ uplink' = Tail(uplink) /\ task' = task
  <2>1. \A i \in DOMAIN uplink' : i + 1 \in DOMAIN uplink /\ uplink'[i] = uplink[i + 1]
    BY <1>1
  <2> QED
    BY <1>1, <2>1 DEF Frames, At
<1>2. CASE At("write") /\ task.frames \in Seq(Frame) /\ task.frames # <<>> /\ WriteFrame
  <2> DEFINE fs == task.frames
  <2>1. /\ fs \in Seq(Frame) /\ fs # <<>> /\ uplink' = Append(uplink, Head(fs))
        /\ task' = IF Len(fs) = 1 THEN Place("poll") ELSE Writing(Tail(fs))
    BY <1>2 DEF WriteFrame
  <2>2. ASSUME NEW i \in DOMAIN uplink'
        PROVE  uplink'[i] \in Frames
    <3>1. \/ i \in DOMAIN uplink /\ uplink'[i] = uplink[i]
          \/ uplink'[i] = fs[1] /\ 1 \in DOMAIN fs
      BY <2>1
    <3> QED
      BY <1>2, <3>1 DEF Frames
  <2>3. ASSUME At("write")', NEW i \in DOMAIN task'.frames
        PROVE  task'.frames[i] \in Frames
    <3>1. task'.frames = Tail(fs)
      BY <2>1, <2>3 DEF At, Place, Writing
    <3>2. i \in DOMAIN Tail(fs)
      BY <2>3, <3>1
    <3>3. i + 1 \in DOMAIN fs /\ Tail(fs)[i] = fs[i + 1]
      <4> HIDE DEF fs
      <4> QED
        BY <2>1, <3>2
    <3> QED
      BY <1>2, <3>1, <3>3 DEF Frames
  <2> QED
    BY <2>2, <2>3 DEF Frames
<1>3. CASE uplink' = <<>> /\ (task' = task \/ task'.at # "write")
  BY <1>3 DEF Frames, At
<1> QED
  BY <1>1, <1>2, <1>3

\* What the relay takes was said before, and is an answer if it is cached.
LEMMA RelayTakes ==
  ASSUME uplink \in Seq(Frame), RelayStep
  PROVE  /\ Head(uplink) \in Frames /\ Head(uplink) \in Frame /\ uplink' \in Seq(Frame)
         /\ Frames' \subseteq Frames /\ Answers' \subseteq Answers
<1>1. /\ uplink # <<>> /\ uplink' = Tail(uplink) /\ task' = task
  BY DEF RelayStep, RegisterFrame, CommitsFrame, AckFrame
<1>2. Head(uplink) \in Frames /\ Head(uplink) \in Frame /\ uplink' \in Seq(Frame)
  BY <1>1, TailTypes DEF Frames
<1>3. Frames' \subseteq Frames
  BY <1>1, MovedFrames
<1>4. CASE RegisterFrame \/ CommitsFrame
  BY <1>2, <1>3, <1>4, FewerAnswers DEF RegisterFrame, CommitsFrame
<1>5. CASE AckFrame
  <2> DEFINE ack == Head(uplink)
  <2>1. /\ ack.type = "ACK"
        /\ response_cache' = Put(response_cache, ack.preimage,
                                 [next |-> ack.next, is_on |-> ack.is_on])
    BY <1>5 DEF AckFrame
  <2>2. ack = Ack(ack.preimage, ack.next, ack.is_on) /\ ack \in Answers
    BY <1>2, <2>1 DEF Frame, Ack, Answers
  <2>3. ASSUME NEW p \in DOMAIN response_cache'
        PROVE  Ack(p, response_cache'[p].next, response_cache'[p].is_on) \in Answers
    <3> HIDE DEF ack
    <3>1. CASE p = ack.preimage
      <4>1. response_cache'[p] = [next |-> ack.next, is_on |-> ack.is_on]
        BY <2>1, <3>1 DEF Put
      <4>2. response_cache'[p].next = ack.next /\ response_cache'[p].is_on = ack.is_on
        BY <4>1
      <4> QED
        BY <2>2, <3>1, <4>2
    <3>2. CASE p # ack.preimage
      <4>1. p \in DOMAIN response_cache /\ response_cache'[p] = response_cache[p]
        BY <2>1, <2>3, <3>2 DEF Put
      <4> QED
        BY <4>1 DEF Answers
    <3> QED
      BY <3>1, <3>2
  <2>4. Answers' \subseteq Answers
    BY <1>3, <2>3 DEF Answers
  <2> QED
    BY <1>2, <1>3, <2>4
<1> QED
  BY <1>4, <1>5 DEF RelayStep

(***************************************************************************)
(* Types                                                                   *)
(***************************************************************************)

\* A step that leaves flash alone.
LEMMA FlashStays ==
  ASSUME FlashOK, nvs' = nvs, fresh' \in {fresh, fresh + 1}
  PROVE  FlashOK'
BY DrawnGrows DEF FlashOK, Records

\* A step that leaves flash and memory alone.
LEMMA MemoryStays ==
  ASSUME FlashOK, MemoryOK, UNCHANGED <<nvs, memory>>, fresh' \in {fresh, fresh + 1},
         \/ task'.at \in {"off", "flash"}
         \/ task.at \notin {"off", "flash"} /\ task'.at = task.at
         \/ /\ task.at \notin {"off", "flash"} /\ task'.at \notin {"pairing", "ble"}
            /\ Stored = StoredState(invites, peers, address),
         ble' \in [ssid : Networks \cup {None}, password : Networks \cup {None},
                   command : Seq(Writes)]
  PROVE  MemoryOK'
<1>1. Stored' = Stored /\ LoadState' = LoadState
  BY DEF Stored, LoadState
<1> QED
  BY <1>1, DrawnGrows DEF FlashOK, MemoryOK, memory

\* What was loaded is what is stored, if it is anything.
LEMMA LoadedIsStored ==
  /\ LoadState \in {Stored, NoState}
  /\ LoadState.invites # {} \/ LoadState.peers # {} => LoadState = Stored
BY DEF LoadState, NoState, StoredState

\* A step that leaves the connection alone, and says nothing new.
LEMMA LinkStays ==
  ASSUME FlashOK, LinkOK, Frames' \subseteq Frames, UNCHANGED linkVars,
         commits' \cup executed' \cup refused' \subseteq Drawn',
         fresh' \in {fresh, fresh + 1},
         ~ link => commits' = {},
         task'.at \in {"off", "pairing", "ble", "loop", "connect"} => ~ link
  PROVE  LinkOK'
BY DrawnGrows DEF FlashOK, LinkOK, linkVars

\* A step that breaks the connection.
LEMMA LinkBreaks ==
  ASSUME FlashOK, LinkOK, LinkDown, Frames' \subseteq Frames,
         executed' \cup refused' \subseteq Drawn', fresh' \in {fresh, fresh + 1}
  PROVE  LinkOK'
<1>1. link' = FALSE /\ uplink' = <<>> /\ downlink' = <<>> /\ commits' = {}
  BY DEF LinkDown
<1>2. uplink' \in Seq(Frame) /\ downlink' \in Seq(Delivery) /\ DOMAIN downlink' = {}
  BY <1>1
<1>3. \A f \in Frames' : f.type # "ACK" => f.commits \subseteq Drawn'
  BY DrawnGrows DEF LinkOK, FlashOK
<1> QED
  BY <1>1, <1>2, <1>3 DEF LinkOK

\* A step without new answers that leaves the owner alone.
LEMMA OwnerStays ==
  ASSUME FlashOK, OwnerOK, Answers' \subseteq Answers, held' = held, known' \in {known, None},
         fresh' \in {fresh, fresh + 1}
  PROVE  OwnerOK'
BY DrawnGrows DEF FlashOK, OwnerOK

\* Every step of the program keeps the types.
LEMMA ProgramTypes ==
  ASSUME TypeOK, Program
  PROVE  TypeOK'
<1> USE SwitchAssumption
<1> USE DEF TypeOK, ServingPlaces
<1>1. fresh' \in {fresh, fresh + 1}
  BY DrawsOne DEF Next
<1>2. /\ Drawn \subseteq Drawn' /\ fresh' \in Nat \ {0} /\ Drawn \subseteq Nat /\ Drawn' \subseteq Nat
      /\ fresh' = fresh + 1 => fresh \in Drawn'
  BY <1>1, DrawnGrows DEF FlashOK
\* A step that changes the task and the BLE command only.
<1>3. ASSUME UNCHANGED <<nvs, memory, linkVars, relayVars, ownerVars, historyVars>>,
             task'.at \notin {"off", "write", "led", "renew"}, TaskOK',
             task.at \notin {"off", "flash"}, ble' = ble \/ ble' = [ble EXCEPT !.command = <<>>],
             \/ task'.at = "flash"
             \/ task'.at \notin {"pairing", "ble"} /\ Stored = StoredState(invites, peers, address),
             task'.at \in {"off", "pairing", "ble", "loop", "connect"} => ~ link
      PROVE  TypeOK'
  <2>1. MemoryOK'
    BY <1>1, <1>3, MemoryStays, CommandTypes DEF MemoryOK
  <2>2. Frames' \subseteq Frames /\ Answers' \subseteq Answers
    BY <1>3, FewerFrames, FewerAnswers DEF linkVars, relayVars
  <2>3. LinkOK'
    BY <1>1, <1>2, <1>3, <2>2, LinkStays DEF relayVars, historyVars, LinkOK
  <2>4. FlashOK' /\ OwnerOK'
    BY <1>1, <1>3, <2>2, FlashStays, OwnerStays DEF ownerVars
  <2> QED
    BY <1>3, <2>1, <2>3, <2>4
<1>4. ASSUME Paired \/ NoCommand \/ RunConnectionFails \/ ReadTimesOut
      PROVE  TypeOK'
  <2>1. /\ UNCHANGED <<nvs, memory, linkVars, relayVars, ownerVars, historyVars, ble>>
        /\ task' \in {Place("loop"), Place("connect"), Place("receive"), Place("poll")}
        /\ task.at \notin {"off", "flash"}
        /\ task'.at \in {"loop", "connect"} => ~ link
        /\ task.at # "ble" /\ (task.at = "pairing" => peers # {})
    BY <1>4 DEF Paired, NoCommand, RunConnectionFails, ReadTimesOut, At, Place, LinkOK
  <2>2. TaskOK' /\ task'.at \in {"loop", "connect", "receive", "poll"}
    BY <2>1 DEF TaskOK, At, Place
  <2>3. Stored = StoredState(invites, peers, address)
    BY <2>1, LoadedIsStored DEF MemoryOK, StoredState
  <2> QED
    BY <1>3, <2>1, <2>2, <2>3
<1>5. ASSUME TakeCommand
      PROVE  TypeOK'
  <2>1. ble.command \in Seq(Writes) /\ ble.command # <<>>
    BY <1>5 DEF TakeCommand, MemoryOK
  <2>2. task'.at = "flash" /\ task'.todo = ble.command
    BY <1>5 DEF TakeCommand, Flashing
  <2>3. TaskOK'
    BY <2>1, <2>2 DEF TaskOK, At
  <2> QED
    BY <1>3, <1>5, <2>2, <2>3 DEF TakeCommand
\* Start
<1>6. ASSUME NEW wifi \in BOOLEAN, Boot(wifi)
      PROVE  TypeOK'
  <2>1. /\ key' = nvs'["secret_key"] /\ key' \in Drawn' /\ DOMAIN nvs' = Keys
        /\ \A k \in Keys \ {"secret_key"} : nvs'[k] = nvs[k]
        /\ task' = Place(IF wifi THEN "pairing" ELSE "ble")
        /\ UNCHANGED <<ble, linkVars, relayVars, ownerVars, executed, refused>>
        /\ invites' = LoadState.invites /\ peers' = LoadState.peers
        /\ address' = LoadState.address /\ is_on' = LoadLed
    BY <1>2, <1>6 DEF Boot, FlashOK, Keys
  <2>2. /\ task'.at \in {"pairing", "ble"} /\ TaskOK'
    BY <2>1 DEF TaskOK, At, Place
  <2>3. FlashOK'
    BY <1>2, <2>1 DEF FlashOK, Keys, Records
  <2>4. Stored \in Records /\ NoState \in Records /\ LoadLed \in BOOLEAN
    BY <2>1 DEF Stored, NoState, FlashOK, Records, StoredState, LoadLed, Keys
  <2>10. LoadState \in Records /\ LoadState' = LoadState
    BY <2>1, <2>4 DEF LoadState, Stored, Keys
  <2>9. nvs'["secret_key"] # None
    BY <1>2, <2>1
  <2>5. MemoryOK'
    BY <1>2, <2>1, <2>2, <2>4, <2>9, <2>10 DEF MemoryOK, Records, StoredState
  <2>6. Frames' \subseteq Frames /\ Answers' \subseteq Answers
    BY <2>1, <2>2, FewerFrames, FewerAnswers DEF linkVars, relayVars
  <2>7. LinkOK'
    BY <1>1, <1>2, <1>6, <2>1, <2>6, LinkStays DEF relayVars, LinkOK, Boot, At
  <2>8. OwnerOK'
    BY <1>1, <2>1, <2>6, OwnerStays DEF ownerVars
  <2> QED
    BY <2>2, <2>3, <2>5, <2>7, <2>8
<1>7. ASSUME NEW p \in Drawn', ShowToken(p), Answers' \subseteq Answers, task.at = "pairing",
             key' = key
      PROVE  OwnerOK'
  <2>1. key \in Drawn /\ held' = [key |-> key, preimage |-> p] /\ known' = None
    BY <1>7 DEF ShowToken, FlashOK, MemoryOK
  <2> QED
    BY <1>2, <1>7, <2>1 DEF OwnerOK
<1>8. ASSUME CreateOwnerInvite \/ GetInviteToken
      PROVE  TypeOK'
  <2>1. /\ task.at = "pairing" /\ task' = Place("loop") /\ key' = key
        /\ UNCHANGED <<peers, address, is_on, ble, linkVars, relayVars, executed, refused>>
        /\ \E p \in invites' : ShowToken(p)
    BY <1>8 DEF CreateOwnerInvite, GetInviteToken, At, memory, historyVars
  <2>2. TaskOK' /\ task'.at = "loop"
    BY <2>1 DEF TaskOK, At, Place
  <2>3. FlashOK' /\ MemoryOK'
    <3>1. CASE GetInviteToken
      <4>1. Stored = StoredState(invites, peers, address)
        BY <2>1, <3>1, LoadedIsStored DEF GetInviteToken, MemoryOK, StoredState
      <4> QED
        BY <1>1, <2>1, <2>2, <3>1, <4>1, FlashStays, MemoryStays DEF GetInviteToken, MemoryOK
    <3>2. CASE CreateOwnerInvite
      <4>1. /\ invites' = {fresh} /\ peers = {} /\ fresh' = fresh + 1
            /\ nvs' = [nvs EXCEPT !["state"] = StoredState(invites', peers, address)]
        BY <3>2 DEF CreateOwnerInvite
      <4>2. invites' \subseteq Drawn' /\ StoredState(invites', peers, address) \in Records'
        BY <1>2, <4>1 DEF StoredState, Records, MemoryOK
      <4>3. FlashOK' /\ nvs'["state"] = StoredState(invites', peers, address) /\ nvs'["secret_key"] = nvs["secret_key"]
        BY <1>2, <4>1, <4>2 DEF FlashOK, Keys
      <4>4. Stored' = StoredState(invites', peers', address')
        <5>1. invites' \in SUBSET Nat /\ peers \in SUBSET Nat /\ address \in Nat
          BY <1>2, <4>1 DEF FlashOK, MemoryOK
        <5> QED
          BY <2>1, <4>3, <5>1, StateIsSome DEF Stored
      <4> QED
        BY <1>2, <2>1, <2>2, <4>1, <4>2, <4>3, <4>4 DEF MemoryOK
    <3> QED
      BY <1>8, <3>1, <3>2
  <2>4. Frames' \subseteq Frames /\ Answers' \subseteq Answers
    BY <2>1, <2>2, FewerFrames, FewerAnswers DEF linkVars, relayVars
  <2>5. LinkOK'
    BY <1>1, <1>2, <2>1, <2>4, LinkStays DEF relayVars, LinkOK
  <2>6. OwnerOK'
    BY <1>7, <2>1, <2>3, <2>4 DEF MemoryOK
  <2> QED
    BY <2>2, <2>3, <2>5, <2>6
\* Writes to flash
<1>9. ASSUME Flash
      PROVE  TypeOK'
  <2> DEFINE todo == task.todo
  <2>1. todo \in Seq(Writes) /\ todo # <<>> /\ Head(todo) \in Writes /\ fresh' = fresh
    BY <1>9 DEF Flash, TaskOK, historyVars
  <2>2. FlashOK'
    <3>1. PICK k \in Keys, v \in Networks \cup {None} :
            /\ nvs' = [nvs EXCEPT ![k] = v]
            /\ k \notin {"wifi_ssid", "wifi_pass"} => v = None
      <4>1. Head(todo)[1] \in Keys /\ Head(todo)[2] \in Networks \cup {None}
            /\ (Head(todo)[1] \notin {"wifi_ssid", "wifi_pass"} => Head(todo)[2] = None)
        BY <2>1 DEF Writes, Keys
      <4> QED
        BY <1>9, <4>1 DEF Flash
    <3>2. /\ DOMAIN nvs' = Keys
          /\ \A x \in Keys : nvs'[x] = IF x = k THEN v ELSE nvs[x]
      BY <3>1 DEF FlashOK
    <3> QED
      BY <1>2, <2>1, <3>1, <3>2 DEF FlashOK, Keys, Records
  <2>3. CASE Off /\ LinkDown
    <3>1. /\ task'.at = "off" /\ invites' = {} /\ peers' = {} /\ address' = 0 /\ is_on' = FALSE
          /\ ble' = NoBle /\ uplink' = <<>>
      BY <2>3 DEF Off, Place, LinkDown
    <3>2. TaskOK' /\ MemoryOK'
      BY <3>1, CommandTypes DEF TaskOK, MemoryOK, At, NoBle
    <3>3. Frames' \subseteq Frames /\ Answers' \subseteq Answers
      BY <1>9, <3>1, MovedFrames, FewerAnswers DEF Flash, LinkOK
    <3>4. LinkOK' /\ OwnerOK'
      BY <1>1, <1>2, <1>9, <2>3, <3>3, LinkBreaks, OwnerStays
      DEF Flash, ownerVars, historyVars, LinkOK
    <3> QED
      BY <2>2, <3>2, <3>4
  <2>4. CASE /\ Len(todo) # 1 /\ task' = Flashing(Tail(todo))
             /\ UNCHANGED <<memory, ble, linkVars, commits>>
    <3>1. Tail(todo) \in Seq(Writes) /\ Tail(todo) # <<>>
      BY <2>1, <2>4, TailTypes
    <3>2. task'.at = "flash" /\ task'.todo = Tail(todo)
      BY <2>4 DEF Flashing
    <3>3. TaskOK'
      BY <3>1, <3>2 DEF TaskOK, At
    <3>4. MemoryOK'
      BY <1>2, <2>4, <3>2 DEF MemoryOK, memory
    <3>5. Frames' \subseteq Frames /\ Answers' \subseteq Answers
      BY <1>9, <2>4, <3>2, FewerFrames, FewerAnswers DEF Flash, linkVars
    <3>6. LinkOK' /\ OwnerOK'
      BY <1>1, <1>2, <1>9, <2>4, <3>2, <3>5, LinkStays, OwnerStays
      DEF Flash, ownerVars, historyVars, LinkOK
    <3> QED
      BY <2>2, <3>3, <3>4, <3>6
  <2> QED
    BY <1>9, <2>3, <2>4 DEF Flash
\* The connection
<1>10. ASSUME Connect
       PROVE  TypeOK'
  <2>1. /\ task' = Place("hello") /\ link' = TRUE /\ task.at = "connect"
        /\ UNCHANGED <<nvs, memory, ble, uplink, downlink, relayVars, ownerVars, historyVars>>
    BY <1>10 DEF Connect, At
  <2>2. TaskOK' /\ task'.at = "hello"
    BY <2>1 DEF TaskOK, At, Place
  <2>3. FlashOK' /\ MemoryOK'
    BY <1>1, <2>1, <2>2, FlashStays, MemoryStays DEF MemoryOK
  <2>4. Frames' \subseteq Frames /\ Answers' \subseteq Answers
    BY <2>1, <2>2, FewerFrames, FewerAnswers DEF relayVars
  <2>5. LinkOK'
    BY <1>2, <2>1, <2>2, <2>4 DEF LinkOK, relayVars, historyVars
  <2>6. OwnerOK'
    BY <1>1, <2>1, <2>4, OwnerStays DEF ownerVars
  <2> QED
    BY <2>2, <2>3, <2>5, <2>6
<1>11. ASSUME NEW d, Receives(d)
       PROVE  /\ d \in Delivery /\ d.preimage \in Drawn /\ downlink' \in Seq(Delivery)
              /\ \A i \in DOMAIN downlink' : downlink'[i].preimage \in Drawn
              /\ link /\ downlink # <<>> /\ task.at = "receive" /\ key = nvs["secret_key"] /\ key # None
              /\ Stored = StoredState(invites, peers, address)
  <2>1. downlink \in Seq(Delivery) /\ downlink # <<>> /\ d = Head(downlink) /\ downlink' = Tail(downlink)
    BY <1>11 DEF Receives, LinkOK
  <2>2. d = downlink[1] /\ 1 \in DOMAIN downlink /\ d \in Delivery /\ downlink' \in Seq(Delivery)
    BY <2>1
  <2>3. \A i \in DOMAIN downlink' : i + 1 \in DOMAIN downlink /\ downlink'[i] = downlink[i + 1]
    BY <2>1
  <2> QED
    BY <1>11, <2>2, <2>3 DEF Receives, LinkOK, MemoryOK, At
\* A step that begins to write frames.
<1>12. ASSUME NEW frames \in Seq(Frame), frames # <<>>, task' = Writing(frames),
              link' = link, uplink' = uplink, UNCHANGED relayVars, UNCHANGED ownerVars,
              executed' = executed,
              \A i \in DOMAIN frames :
                IF frames[i].type = "ACK"
                  THEN /\ frames[i].preimage \in Drawn' /\ frames[i].next \in Drawn' \cup {None}
                       /\ frames[i].is_on \in BOOLEAN \cup {None}
                  ELSE frames[i].commits \subseteq Drawn',
              refused' \subseteq Drawn', downlink' \in Seq(Delivery),
              downlink = <<>> => downlink' = <<>>,
              \A i \in DOMAIN downlink' : downlink'[i].preimage \in Drawn'
       PROVE  TaskOK' /\ LinkOK' /\ OwnerOK'
  <2>1. task'.at = "write" /\ task'.frames = frames
    BY <1>12 DEF Writing
  <2>2. TaskOK'
    BY <1>12, <2>1 DEF TaskOK, At
  <2>3. Frames' \subseteq Frames \cup {frames[i] : i \in DOMAIN frames}
    BY <1>12, NewFrames
  <2>4. ASSUME NEW f \in Frames'
        PROVE  IF f.type = "ACK"
                 THEN /\ f.preimage \in Drawn' /\ f.next \in Drawn' \cup {None}
                      /\ f.is_on \in BOOLEAN \cup {None}
                 ELSE f.commits \subseteq Drawn'
    <3>1. CASE f \in Frames
      <4>1. CASE f.type = "ACK"
        BY <1>2, <3>1, <4>1 DEF OwnerOK, Answers
      <4>2. CASE f.type # "ACK"
        BY <1>2, <3>1, <4>2 DEF LinkOK
      <4> QED
        BY <4>1, <4>2
    <3>2. CASE \E i \in DOMAIN frames : f = frames[i]
      BY <1>12, <3>2
    <3> QED
      BY <2>3, <3>1, <3>2
  <2>5. LinkOK'
    <3>1. commits' \subseteq Drawn' /\ executed' \subseteq Drawn' /\ (~ link => commits' = {})
      BY <1>2, <1>12 DEF LinkOK, relayVars
    <3>2. \A f \in Frames' : f.type # "ACK" => f.commits \subseteq Drawn'
      BY <2>4
    <3>3. link' \in BOOLEAN /\ uplink' \in Seq(Frame) /\ (~ link' => uplink' = <<>>)
      BY <1>12 DEF LinkOK
    <3>4. /\ downlink' \in Seq(Delivery) /\ (~ link' => downlink' = <<>> /\ commits' = {})
          /\ \A i \in DOMAIN downlink' : downlink'[i].preimage \in Drawn'
          /\ refused' \subseteq Drawn'
      BY <1>2, <1>12, <3>1 DEF LinkOK
    <3> QED
      BY <2>1, <3>1, <3>2, <3>3, <3>4 DEF LinkOK
  <2>6. Answers' \subseteq Answers \cup {f \in Frames' : f.type = "ACK"}
    BY <1>12 DEF Answers, relayVars
  <2>7. OwnerOK'
    BY <1>2, <1>12, <2>4, <2>6 DEF OwnerOK, ownerVars
  <2> QED
    BY <2>2, <2>5, <2>7
\* The state is saved as it is in memory.
<1>13. ASSUME invites' \in SUBSET Drawn', peers' \in SUBSET Drawn', address' \in Nat,
              is_on' = is_on, key' = key, ble' = ble,
              task.at \notin {"off", "flash"}, task'.at \notin {"pairing", "ble"},
              nvs' = [nvs EXCEPT !["state"] = StoredState(invites', peers', address')]
       PROVE  FlashOK' /\ MemoryOK'
  <2>1. /\ DOMAIN nvs' = Keys /\ nvs'["state"] = StoredState(invites', peers', address')
        /\ \A k \in Keys \ {"state"} : nvs'[k] = nvs[k]
    BY <1>13 DEF FlashOK, Keys
  <2>2. StoredState(invites', peers', address') \in Records'
    BY <1>13 DEF StoredState, Records
  <2>3. invites' \in SUBSET Nat /\ peers' \in SUBSET Nat
    BY <1>2, <1>13
  <2>4. Stored' = StoredState(invites', peers', address')
    BY <1>13, <2>1, <2>3, StateIsSome DEF Stored
  <2>5. FlashOK'
    BY <1>2, <2>1, <2>2 DEF FlashOK, Keys
  <2>6. key' # None /\ key' = nvs'["secret_key"]
    BY <1>13, <2>1 DEF MemoryOK, Keys
  <2> QED
    BY <1>13, <2>4, <2>5, <2>6 DEF MemoryOK
<1>14. ASSUME NEW d, AcceptHandshake(d)
       PROVE  TypeOK'
  <2> DEFINE frames == <<Ack(d.preimage, fresh, None), UpdateCommits({fresh})>>
  <2>1. /\ d.preimage \in invites /\ Receives(d) /\ fresh' = fresh + 1 /\ task' = Writing(frames)
        /\ invites' = invites \ {d.preimage} /\ peers' = peers \cup {fresh}
        /\ nvs' = [nvs EXCEPT !["state"] = StoredState(invites', peers', address')]
        /\ address' \in Nat /\ task'.at = "write"
        /\ UNCHANGED <<key, is_on, ble, link, uplink, relayVars, ownerVars, executed, refused>>
    BY <1>14 DEF AcceptHandshake, MemoryOK, Writing
  <2>2. /\ d.preimage \in Drawn' /\ fresh \in Drawn'
        /\ invites' \in SUBSET Drawn' /\ peers' \in SUBSET Drawn'
    BY <1>2, <1>11, <2>1 DEF MemoryOK
  <2>3. FlashOK' /\ MemoryOK'
    <3>1. task.at \notin {"off", "flash"} /\ task'.at \notin {"pairing", "ble"}
      BY <1>11, <2>1
    <3>2. /\ address' \in Nat /\ is_on' = is_on /\ key' = key /\ ble' = ble
          /\ nvs' = [nvs EXCEPT !["state"] = StoredState(invites', peers', address')]
      BY <2>1
    <3> QED
      BY <1>13, <2>2, <3>1, <3>2
  <2>4. /\ frames \in Seq(Frame) /\ frames # <<>> /\ DOMAIN frames = {1, 2}
        /\ frames[1] = Ack(d.preimage, fresh, None) /\ frames[2] = UpdateCommits({fresh})
    <3>1. Ack(d.preimage, fresh, None) \in Frame /\ UpdateCommits({fresh}) \in Frame
      BY <1>2, <2>2, FrameTypes
    <3> QED
      BY <3>1
  <2>5. \A i \in DOMAIN frames :
          IF frames[i].type = "ACK"
            THEN /\ frames[i].preimage \in Drawn' /\ frames[i].next \in Drawn' \cup {None}
                 /\ frames[i].is_on \in BOOLEAN \cup {None}
            ELSE frames[i].commits \subseteq Drawn'
    BY <2>2, <2>4 DEF Ack, UpdateCommits
  <2>6. /\ refused' \subseteq Drawn' /\ downlink' \in Seq(Delivery)
        /\ (downlink = <<>> => downlink' = <<>>)
        /\ \A i \in DOMAIN downlink' : downlink'[i].preimage \in Drawn'
    BY <1>2, <1>11, <2>1 DEF LinkOK, Receives
  <2> HIDE DEF frames
  <2> QED
    BY <1>11, <1>12, <2>1, <2>3, <2>4, <2>5, <2>6
<1>15. ASSUME NEW d, Refuse(d)
       PROVE  TypeOK'
  <2> DEFINE frames == <<Ack(d.preimage, None, None)>>
  <2>1. /\ Receives(d) /\ task' = Writing(frames) /\ refused' = refused \cup {d.preimage}
        /\ UNCHANGED <<nvs, memory, ble, link, uplink, relayVars, ownerVars, fresh, executed>>
    BY <1>15 DEF Refuse
  <2>2. FlashOK' /\ MemoryOK'
    <3>1. /\ task'.at = "write" /\ UNCHANGED <<nvs, memory, ble>> /\ fresh' = fresh
      BY <2>1 DEF Writing
    <3>2. task.at = "receive" /\ Stored = StoredState(invites, peers, address)
      BY <1>11, <2>1
    <3> QED
      BY <1>1, <3>1, <3>2, FlashStays, MemoryStays DEF MemoryOK
  <2>3. /\ frames \in Seq(Frame) /\ frames # <<>> /\ DOMAIN frames = {1}
        /\ frames[1] = Ack(d.preimage, None, None)
    <3>1. Ack(d.preimage, None, None) \in Frame
      BY <1>2, <1>11, <2>1, FrameTypes
    <3> QED
      BY <3>1
  <2>4. \A i \in DOMAIN frames :
          IF frames[i].type = "ACK"
            THEN /\ frames[i].preimage \in Drawn' /\ frames[i].next \in Drawn' \cup {None}
                 /\ frames[i].is_on \in BOOLEAN \cup {None}
            ELSE frames[i].commits \subseteq Drawn'
    <3>1. /\ frames[1].type = "ACK" /\ frames[1].preimage = d.preimage
          /\ frames[1].next = None /\ frames[1].is_on = None
      BY <2>3 DEF Ack
    <3>2. d.preimage \in Drawn'
      BY <1>2, <1>11, <2>1
    <3> HIDE DEF frames
    <3> QED
      BY <2>3, <3>1, <3>2
  <2>5. /\ refused' \subseteq Drawn' /\ downlink' \in Seq(Delivery)
        /\ (downlink = <<>> => downlink' = <<>>)
        /\ \A i \in DOMAIN downlink' : downlink'[i].preimage \in Drawn'
    <3>1. refused' \subseteq Drawn'
      BY <1>2, <1>11, <2>1 DEF LinkOK
    <3> QED
      BY <1>2, <1>11, <2>1, <3>1
  <2> HIDE DEF frames
  <2>6. TaskOK' /\ LinkOK' /\ OwnerOK'
    BY <1>12, <2>1, <2>3, <2>4, <2>5
  <2> QED
    BY <2>2, <2>6
\* A command
<1>16. ASSUME NEW d, SwitchLight(d) \/ ReadStatus(d)
       PROVE  TypeOK'
  <2>1. /\ Receives(d) /\ d.preimage \in peers /\ executed' = executed \cup {d.preimage}
        /\ task' = Command("led", d) \/ task' = Command("renew", d)
        /\ UNCHANGED <<nvs, key, invites, peers, address, ble, link, uplink, relayVars, held, fresh, refused>>
        /\ known' \in {known, None}
    BY <1>16 DEF SwitchLight, ReadStatus, memory, ownerVars
  <2>2. task'.at \in {"led", "renew"} /\ task'.preimage = d.preimage
    BY <2>1 DEF Command
  <2>3. is_on' \in BOOLEAN
    <3>1. is_on \in BOOLEAN
      BY DEF MemoryOK
    <3>2. Light(d.payload) \in BOOLEAN
      BY <3>1, Zenon DEF Light
    <3> QED
      BY <1>16, <3>1, <3>2 DEF SwitchLight, ReadStatus, memory
  <2>4. TaskOK'
    BY <2>1, <2>2 DEF TaskOK, At
  <2>5. FlashOK' /\ MemoryOK'
    BY <1>1, <1>11, <2>1, <2>2, <2>3, FlashStays DEF MemoryOK, Stored, Drawn
  <2>6. Frames' \subseteq Frames /\ Answers' \subseteq Answers
    BY <2>1, <2>2, FewerFrames, FewerAnswers DEF relayVars
  <2>7. LinkOK'
    <3>1. \A f \in Frames' : f.type # "ACK" => f.commits \subseteq Drawn'
      BY <1>2, <2>6 DEF LinkOK
    <3>2. commits' \subseteq Drawn' /\ executed' \subseteq Drawn' /\ refused' \subseteq Drawn'
      <4>1. commits \cup executed \cup refused \subseteq Drawn'
        BY <1>2 DEF LinkOK
      <4>2. d.preimage \in Drawn' /\ commits' = commits /\ refused' = refused
        BY <1>2, <1>11, <2>1 DEF relayVars
      <4> QED
        BY <2>1, <4>1, <4>2
    <3>3. /\ downlink' \in Seq(Delivery) /\ link' = TRUE /\ uplink' \in Seq(Frame)
          /\ \A i \in DOMAIN downlink' : downlink'[i].preimage \in Drawn'
      BY <1>2, <1>11, <2>1 DEF LinkOK
    <3> QED
      BY <2>2, <3>1, <3>2, <3>3 DEF LinkOK
  <2>8. OwnerOK'
    BY <1>1, <2>1, <2>6, OwnerStays
  <2> QED
    BY <2>4, <2>5, <2>7, <2>8
<1>17. ASSUME SaveLedState
       PROVE  TypeOK'
  <2>1. /\ task.at = "led" /\ nvs' = [nvs EXCEPT !["led_on"] = is_on]
        /\ task' = Command("renew", [preimage |-> task.preimage, payload |-> task.cmd])
        /\ UNCHANGED <<memory, ble, linkVars, relayVars, ownerVars, historyVars>>
    BY <1>17 DEF SaveLedState, At
  <2>2. task'.at = "renew" /\ task'.preimage = task.preimage
    BY <2>1 DEF Command
  <2>3. TaskOK'
    BY <2>1, <2>2 DEF TaskOK, At, memory
  <2>4. /\ DOMAIN nvs' = Keys /\ nvs'["led_on"] \in BOOLEAN
        /\ \A k \in Keys \ {"led_on"} : nvs'[k] = nvs[k]
    BY <2>1 DEF FlashOK, MemoryOK, Keys
  <2>5. FlashOK' /\ MemoryOK'
    BY <1>1, <1>2, <2>1, <2>2, <2>4 DEF FlashOK, MemoryOK, Stored, Keys, Records, memory, Drawn, historyVars
  <2>6. Frames' \subseteq Frames /\ Answers' \subseteq Answers
    BY <2>1, <2>2, FewerFrames, FewerAnswers DEF relayVars, linkVars
  <2>7. LinkOK' /\ OwnerOK'
    BY <1>1, <1>2, <2>1, <2>2, <2>6, LinkStays, OwnerStays DEF LinkOK, relayVars, ownerVars, historyVars
  <2> QED
    BY <2>3, <2>5, <2>7
<1>18. ASSUME RenewPreimage
       PROVE  TypeOK'
  <2> DEFINE frames == <<UpdateCommits({fresh}), Ack(task.preimage, fresh, is_on)>>
  <2>1. /\ task.at = "renew" /\ fresh' = fresh + 1 /\ task' = Writing(frames)
        /\ peers' = (peers \ {task.preimage}) \cup {fresh}
        /\ nvs' = [nvs EXCEPT !["state"] = StoredState(invites, peers', address)]
        /\ task'.at = "write" /\ address \in Nat
        /\ UNCHANGED <<key, invites, address, is_on, ble, link, uplink, downlink, relayVars, ownerVars,
                       executed, refused>>
    BY <1>18 DEF RenewPreimage, At, linkVars, MemoryOK, Writing
  <2>2. /\ task.preimage \in Drawn' /\ fresh \in Drawn' /\ is_on \in BOOLEAN
        /\ invites \in SUBSET Drawn' /\ peers' \in SUBSET Drawn'
    BY <1>2, <2>1 DEF MemoryOK, TaskOK
  <2>3. FlashOK' /\ MemoryOK'
    <3>1. task.at \notin {"off", "flash"} /\ task'.at \notin {"pairing", "ble"}
      BY <2>1
    <3>2. /\ address' \in Nat /\ is_on' = is_on /\ key' = key /\ ble' = ble
          /\ invites' \in SUBSET Drawn'
          /\ nvs' = [nvs EXCEPT !["state"] = StoredState(invites', peers', address')]
      BY <2>1, <2>2
    <3> QED
      BY <1>13, <2>2, <3>1, <3>2
  <2>4. /\ frames \in Seq(Frame) /\ frames # <<>> /\ DOMAIN frames = {1, 2}
        /\ frames[1] = UpdateCommits({fresh}) /\ frames[2] = Ack(task.preimage, fresh, is_on)
    <3>1. Ack(task.preimage, fresh, is_on) \in Frame /\ UpdateCommits({fresh}) \in Frame
      <4>1. /\ task.preimage \in Nat /\ fresh \in Nat \cup {None} /\ {fresh} \in SUBSET Nat
            /\ is_on \in BOOLEAN \cup {None}
        BY <1>2, <2>2
      <4> QED
        BY <4>1, FrameTypes, Zenon
    <3> QED
      BY <3>1
  <2>5. \A i \in DOMAIN frames :
          IF frames[i].type = "ACK"
            THEN /\ frames[i].preimage \in Drawn' /\ frames[i].next \in Drawn' \cup {None}
                 /\ frames[i].is_on \in BOOLEAN \cup {None}
            ELSE frames[i].commits \subseteq Drawn'
    BY <2>2, <2>4 DEF Ack, UpdateCommits
  <2>6. /\ refused' \subseteq Drawn' /\ downlink' \in Seq(Delivery)
        /\ (downlink = <<>> => downlink' = <<>>)
        /\ \A i \in DOMAIN downlink' : downlink'[i].preimage \in Drawn'
    BY <1>2, <2>1 DEF LinkOK
  <2> HIDE DEF frames
  <2>7. TaskOK' /\ LinkOK' /\ OwnerOK'
    BY <1>12, <2>1, <2>4, <2>5, <2>6
  <2> QED
    BY <2>3, <2>7
<1>19. ASSUME WriteFrame
       PROVE  TypeOK'
  <2>1. /\ task.at = "write" /\ link /\ task.frames \in Seq(Frame) /\ task.frames # <<>>
        /\ uplink' = Append(uplink, Head(task.frames))
        /\ task' = IF Len(task.frames) = 1 THEN Place("poll") ELSE Writing(Tail(task.frames))
        /\ UNCHANGED <<nvs, memory, ble, link, downlink, relayVars, ownerVars, historyVars>>
    BY <1>19 DEF WriteFrame, At, TaskOK
  <2>2. /\ Head(task.frames) \in Frame /\ Tail(task.frames) \in Seq(Frame)
        /\ Len(task.frames) # 1 => Tail(task.frames) # <<>>
    BY <2>1, TailTypes
  <2>3. /\ task'.at \in {"poll", "write"}
        /\ task'.at = "write" => task'.frames \in Seq(Frame) /\ task'.frames # <<>>
    BY <2>1, <2>2 DEF Place, Writing
  <2>4. TaskOK'
    BY <2>3 DEF TaskOK, At
  <2>5. FlashOK' /\ MemoryOK'
    BY <1>1, <2>1, <2>3, FlashStays, MemoryStays DEF MemoryOK
  <2>6. Frames' \subseteq Frames /\ Answers' \subseteq Answers
    BY <1>19, <2>1, MovedFrames, FewerAnswers DEF relayVars, LinkOK, At
  <2>7. uplink' \in Seq(Frame)
    BY <2>1, <2>2 DEF LinkOK
  <2>8. LinkOK'
    BY <1>2, <2>1, <2>3, <2>6, <2>7 DEF LinkOK, relayVars, historyVars
  <2>9. OwnerOK'
    BY <1>1, <2>1, <2>6, OwnerStays DEF ownerVars
  <2> QED
    BY <2>4, <2>5, <2>8, <2>9
<1> QED
  BY <1>4, <1>5, <1>6, <1>8, <1>9, <1>10, <1>14, <1>15, <1>16, <1>17, <1>18, <1>19
  DEF Program, Handle

\* Every other step keeps the types, too.
LEMMA EnvironmentTypes ==
  ASSUME TypeOK, SignIn \/ BleClient \/ RelayStep \/ Owner \/ Disconnect \/ PowerLost
                   \/ \E p \in DOMAIN response_cache : Expire(p)
  PROVE  TypeOK'
<1> USE SwitchAssumption
<1> USE DEF TypeOK, ServingPlaces
<1>1. fresh' \in {fresh, fresh + 1}
  BY DrawsOne DEF Next
<1>2. /\ Drawn \subseteq Drawn' /\ fresh' \in Nat \ {0} /\ Drawn \subseteq Nat /\ Drawn' \subseteq Nat
      /\ fresh' = fresh + 1 => fresh \in Drawn'
  BY <1>1, DrawnGrows DEF FlashOK
\* The program stays where it is.
<1>3. ASSUME UNCHANGED <<nvs, memory, task>>,
             ble' \in [ssid : Networks \cup {None}, password : Networks \cup {None},
                       command : Seq(Writes)]
      PROVE  FlashOK' /\ MemoryOK' /\ TaskOK'
  <2>1. FlashOK' /\ MemoryOK'
    BY <1>1, <1>3, FlashStays, MemoryStays DEF MemoryOK
  <2> QED
    BY <1>3, <2>1 DEF TaskOK, At, memory
<1>4. ASSUME BleClient
      PROVE  TypeOK'
  <2>1. /\ UNCHANGED <<nvs, memory, task, linkVars, relayVars, ownerVars, historyVars>>
        /\ \/ \E net \in Networks : ble' \in {[ble EXCEPT !.ssid = net], [ble EXCEPT !.password = net]}
           \/ \E c \in Seq(Writes) : ble' = [ble EXCEPT !.command = c]
    <3>1. CASE WriteProvision
      <4>1. ble.ssid \in Networks /\ ble.password \in Networks
        BY <3>1 DEF WriteProvision, MemoryOK
      <4> QED
        BY <3>1, <4>1, CommandTypes DEF WriteProvision
    <3>2. CASE WriteReset
      BY <3>2, CommandTypes DEF WriteReset
    <3>3. CASE \E net \in Networks : WriteSsid(net) \/ WritePassword(net)
      BY <3>3 DEF WriteSsid, WritePassword
    <3> QED
      BY <1>4, <3>1, <3>2, <3>3 DEF BleClient
  <2>2. ble' \in [ssid : Networks \cup {None}, password : Networks \cup {None},
                  command : Seq(Writes)]
    <3>1. ble \in [ssid : Networks \cup {None}, password : Networks \cup {None},
                   command : Seq(Writes)]
      BY DEF MemoryOK
    <3> QED
      BY <2>1, <3>1
  <2>3. Frames' \subseteq Frames /\ Answers' \subseteq Answers
    BY <2>1, FewerFrames, FewerAnswers DEF linkVars, relayVars
  <2>4. LinkOK' /\ OwnerOK'
    BY <1>1, <1>2, <2>1, <2>3, LinkStays, OwnerStays DEF LinkOK, relayVars, ownerVars, historyVars
  <2> QED
    BY <1>3, <2>1, <2>2, <2>4
<1>5. ASSUME SignIn
      PROVE  TypeOK'
  <2>1. /\ task.at = "hello" /\ link /\ task' = Place("poll") /\ uplink' = <<IAm(GetCommits)>>
        /\ refused' = {}
        /\ UNCHANGED <<nvs, memory, ble, link, downlink, relayVars, ownerVars, fresh, executed>>
    BY <1>5 DEF SignIn, At
  <2>2. task'.at = "poll" /\ TaskOK'
    BY <2>1 DEF TaskOK, At, Place
  <2>3. FlashOK' /\ MemoryOK'
    BY <1>1, <2>1, <2>2, FlashStays, MemoryStays DEF MemoryOK
  <2>4. GetCommits \in SUBSET Drawn
    BY DEF GetCommits, MemoryOK
  <2>5. uplink' \in Seq(Frame) /\ DOMAIN uplink' = {1} /\ uplink'[1] = IAm(GetCommits)
    <3>1. IAm(GetCommits) \in Frame
      BY <1>2, <2>4, FrameTypes
    <3> QED
      BY <2>1, <3>1
  <2>6. Frames' = {IAm(GetCommits)}
    BY <2>2, <2>5 DEF Frames, At
  <2>7. IAm(GetCommits).type # "ACK" /\ IAm(GetCommits).commits \subseteq Drawn'
    BY <1>2, <2>4 DEF IAm
  <2>8. LinkOK'
    BY <1>2, <2>1, <2>2, <2>5, <2>6, <2>7 DEF LinkOK, relayVars
  <2>9. Answers' \subseteq Answers
    BY <2>1, <2>6, <2>7 DEF Answers, relayVars
  <2>10. OwnerOK'
    BY <1>1, <2>1, <2>9, OwnerStays DEF ownerVars
  <2> QED
    BY <2>2, <2>3, <2>8, <2>10
<1>6. ASSUME RelayStep
      PROVE  TypeOK'
  <2>1. /\ uplink \in Seq(Frame) /\ uplink # <<>> /\ uplink' = Tail(uplink) /\ fresh' = fresh
        /\ UNCHANGED <<nvs, memory, ble, task, link, downlink, ownerVars, historyVars>>
    BY <1>6 DEF RelayStep, RegisterFrame, CommitsFrame, AckFrame, LinkOK, historyVars
  <2>2. FlashOK' /\ MemoryOK' /\ TaskOK'
    BY <1>3, <2>1 DEF MemoryOK
  <2>3. /\ Head(uplink) \in Frames /\ Head(uplink) \in Frame /\ uplink' \in Seq(Frame)
        /\ Frames' \subseteq Frames /\ Answers' \subseteq Answers
    BY <1>6, <2>1, RelayTakes
  <2>4. LinkOK'
    <3>1. commits' \subseteq Drawn
      BY <1>6, <2>3 DEF RelayStep, RegisterFrame, CommitsFrame, AckFrame, LinkOK
    <3>2. link
      BY <2>1 DEF LinkOK
    <3>3. Drawn' = Drawn
      BY <2>1 DEF Drawn
    <3> QED
      BY <2>1, <2>3, <3>1, <3>2, <3>3 DEF LinkOK, historyVars
  <2>5. OwnerOK'
    BY <1>1, <2>1, <2>3, OwnerStays DEF ownerVars
  <2> QED
    BY <2>2, <2>4, <2>5
\* The owner
<1>7. ASSUME NEW payload \in Payloads, OwnerSends(payload)
      PROVE  TypeOK'
  <2> DEFINE d == [preimage |-> held.preimage, payload |-> payload]
  <2>1. /\ held # None /\ held.preimage \in commits /\ commits' = commits \ {held.preimage}
        /\ downlink' = Append(downlink, d)
        /\ UNCHANGED <<nvs, memory, ble, task, link, uplink, response_cache, ownerVars, historyVars>>
    BY <1>7 DEF OwnerSends
  <2>2. FlashOK' /\ MemoryOK' /\ TaskOK'
    BY <1>3, <2>1 DEF MemoryOK
  <2>3. Frames' \subseteq Frames /\ Answers' \subseteq Answers
    BY <2>1, FewerFrames, FewerAnswers
  <2>4. d \in Delivery /\ d.preimage \in Drawn
    BY <1>2, <2>1 DEF Delivery, LinkOK
  <2>5. downlink' \in Seq(Delivery) /\ \A i \in DOMAIN downlink' : downlink'[i].preimage \in Drawn
    <3> HIDE DEF d
    <3>1. downlink' \in Seq(Delivery)
      BY <2>1, <2>4 DEF LinkOK
    <3>2. ASSUME NEW i \in DOMAIN downlink'
          PROVE  (i \in DOMAIN downlink /\ downlink'[i] = downlink[i]) \/ downlink'[i] = d
      BY <2>1, <2>4 DEF LinkOK
    <3> QED
      BY <2>4, <3>1, <3>2 DEF LinkOK
  <2>6. LinkOK'
    <3>1. link
      BY <2>1 DEF LinkOK
    <3>2. commits' \subseteq Drawn /\ Drawn' = Drawn
      BY <2>1 DEF LinkOK, Drawn, historyVars
    <3> QED
      BY <2>1, <2>3, <2>5, <3>1, <3>2 DEF LinkOK, historyVars
  <2>7. OwnerOK'
    BY <1>1, <2>1, <2>3, OwnerStays DEF ownerVars
  <2> QED
    BY <2>2, <2>6, <2>7
<1>8. ASSUME OwnerIsAnswered
      PROVE  TypeOK'
  <2> DEFINE p == held.preimage
             r == response_cache[p]
  <2>1. /\ held # None /\ p \in DOMAIN response_cache
        /\ response_cache' = Drop(response_cache, p)
        /\ held' = IF r.next = None THEN held ELSE [key |-> held.key, preimage |-> r.next]
        /\ known' = IF r.is_on = None THEN known ELSE r.is_on
        /\ UNCHANGED <<nvs, memory, ble, task, linkVars, commits, historyVars>>
    BY <1>8 DEF OwnerIsAnswered
  <2>2. FlashOK' /\ MemoryOK' /\ TaskOK'
    BY <1>3, <2>1 DEF MemoryOK
  <2>3. Frames' \subseteq Frames /\ Answers' \subseteq Answers
    BY <2>1, FewerFrames, FewerAnswers DEF linkVars, Drop, Restrict
  <2>4. LinkOK'
    BY <1>1, <1>2, <2>1, <2>3, LinkStays DEF LinkOK, historyVars
  <2>5. r.next \in Drawn \cup {None} /\ r.is_on \in BOOLEAN \cup {None}
    <3>1. Ack(p, r.next, r.is_on) \in Answers
      BY <2>1 DEF Answers
    <3> QED
      BY <3>1 DEF OwnerOK, Ack
  <2>6. held' \in [key : Drawn, preimage : Drawn] /\ known' \in BOOLEAN \cup {None}
    <3>1. held \in [key : Drawn, preimage : Drawn] /\ known \in BOOLEAN \cup {None}
      BY <2>1 DEF OwnerOK
    <3> HIDE DEF r
    <3>2. known' \in BOOLEAN \cup {None}
      BY <2>1, <2>5, <3>1, Zenon
    <3> QED
      BY <2>1, <2>5, <3>1, <3>2
  <2>7. OwnerOK'
    BY <1>2, <2>3, <2>6 DEF OwnerOK
  <2> QED
    BY <2>2, <2>4, <2>7
\* Failure
<1>9. ASSUME Disconnect
      PROVE  TypeOK'
  <2>1. LinkDown /\ uplink' = <<>>
        /\ UNCHANGED <<nvs, memory, ble, task, response_cache, ownerVars, historyVars>>
    BY <1>9 DEF Disconnect, LinkDown
  <2>2. FlashOK' /\ MemoryOK' /\ TaskOK'
    BY <1>3, <2>1 DEF MemoryOK
  <2>3. Frames' \subseteq Frames /\ Answers' \subseteq Answers
    BY <2>1, MovedFrames, FewerAnswers DEF LinkOK
  <2>4. LinkOK' /\ OwnerOK'
    BY <1>1, <1>2, <2>1, <2>3, LinkBreaks, OwnerStays DEF LinkOK, ownerVars, historyVars
  <2> QED
    BY <2>2, <2>4
<1>10. ASSUME PowerLost
       PROVE  TypeOK'
  <2>1. /\ task'.at = "off" /\ invites' = {} /\ peers' = {} /\ address' = 0 /\ is_on' = FALSE
        /\ ble' = NoBle /\ uplink' = <<>> /\ LinkDown /\ executed' \subseteq executed
        /\ UNCHANGED <<nvs, response_cache, ownerVars, fresh, refused>>
    BY <1>10 DEF PowerLost, Off, Place, LinkDown
  <2>2. TaskOK' /\ MemoryOK' /\ FlashOK'
    BY <1>1, <2>1, CommandTypes, FlashStays DEF TaskOK, MemoryOK, At, NoBle
  <2>3. Frames' \subseteq Frames /\ Answers' \subseteq Answers
    BY <2>1, MovedFrames, FewerAnswers DEF LinkOK
  <2>4. LinkOK' /\ OwnerOK'
    BY <1>1, <1>2, <2>1, <2>3, LinkBreaks, OwnerStays DEF LinkOK, ownerVars
  <2> QED
    BY <2>2, <2>4
<1>11. ASSUME NEW p \in DOMAIN response_cache, Expire(p)
       PROVE  TypeOK'
  <2>1. /\ response_cache' = Drop(response_cache, p)
        /\ UNCHANGED <<nvs, memory, ble, task, linkVars, commits, ownerVars, historyVars>>
    BY <1>11 DEF Expire
  <2>2. FlashOK' /\ MemoryOK' /\ TaskOK'
    BY <1>3, <2>1 DEF MemoryOK
  <2>3. Frames' \subseteq Frames /\ Answers' \subseteq Answers
    BY <2>1, FewerFrames, FewerAnswers DEF linkVars, Drop, Restrict
  <2>4. LinkOK' /\ OwnerOK'
    BY <1>1, <1>2, <2>1, <2>3, LinkStays, OwnerStays DEF LinkOK, ownerVars, historyVars
  <2> QED
    BY <2>2, <2>4
<1> QED
  BY <1>4, <1>5, <1>6, <1>7, <1>8, <1>9, <1>10, <1>11 DEF Owner

LEMMA TypeInit == Init => TypeOK
<1> SUFFICES ASSUME Init PROVE TypeOK
  OBVIOUS
<1> USE SwitchAssumption DEF Init, Place
<1>1. FlashOK
  BY DEF FlashOK, Keys
<1>2. MemoryOK
  BY CommandTypes DEF MemoryOK, NoBle
<1>3. TaskOK
  BY DEF TaskOK, At
<1>4. Frames = {}
  BY DEF Frames, At
<1>5. LinkOK
  <2>1. uplink \in Seq(Frame) /\ downlink \in Seq(Delivery)
    BY EmptySeq
  <2>2. DOMAIN downlink = {} /\ commits \cup executed \cup refused = {}
    OBVIOUS
  <2> QED
    BY <1>4, <2>1, <2>2 DEF LinkOK
<1>6. OwnerOK
  BY <1>4 DEF OwnerOK, Answers, EmptyMap
<1> QED
  BY <1>1, <1>2, <1>3, <1>5, <1>6 DEF TypeOK

LEMMA TypeStep ==
  ASSUME TypeOK, [Next]_vars
  PROVE  TypeOK'
<1>1. CASE UNCHANGED vars
  <2>1. UNCHANGED <<nvs, memory, ble, task, linkVars, relayVars, ownerVars, historyVars>>
    BY <1>1 DEF vars
  <2>2. fresh' = fresh /\ Frames' \subseteq Frames /\ Answers' \subseteq Answers
    BY <2>1, FewerFrames, FewerAnswers DEF linkVars, relayVars, historyVars
  <2>3. FlashOK' /\ MemoryOK'
    BY <2>1, <2>2, FlashStays, MemoryStays DEF TypeOK, MemoryOK
  <2>4. TaskOK'
    BY <2>1 DEF TypeOK, TaskOK, At, memory
  <2>5. LinkOK'
    BY <2>1, <2>2, LinkStays DEF TypeOK, LinkOK, relayVars, historyVars, Drawn
  <2>6. OwnerOK'
    BY <2>1, <2>2, OwnerStays DEF TypeOK, ownerVars
  <2> QED
    BY <2>3, <2>4, <2>5, <2>6 DEF TypeOK
<1> QED
  BY <1>1, ProgramTypes, EnvironmentTypes DEF Next

\* What the firmware keeps, in flash and in memory, what it says, and what its
\* owner holds have their types; memory is what was loaded, then what flash
\* holds.
THEOREM SwitchTypes == FairSpec => []TypeOK
BY TypeInit, TypeStep, PTL DEF FairSpec

(***************************************************************************)
(* One record                                                              *)
(***************************************************************************)

\* What a step leaves in flash.
Saves(is, ps) == Stored'.invites = is /\ Stored'.peers = ps

\* How the stored state changes.
LEMMA StateChanges ==
  ASSUME TypeOK, [Next]_vars
  PROVE  \/ Stored' = Stored
         \/ CreateOwnerInvite /\ Saves({fresh}, {})
         \/ \E d : AcceptHandshake(d) /\ d.preimage \in Stored.invites
              /\ Saves(Stored.invites \ {d.preimage}, Stored.peers \cup {fresh})
         \/ RenewPreimage /\ task.preimage \in Stored.peers
              /\ Saves(Stored.invites,
                                          (Stored.peers \ {task.preimage}) \cup {fresh})
         \/ Flash /\ Head(task.todo)[1] = "state" /\ Saves({}, {})
<1>1. TypeOK'
  BY TypeStep
<1>2. ASSUME nvs'["state"] = nvs["state"]
      PROVE  Stored' = Stored
  BY <1>2 DEF Stored
<1>3. CASE UNCHANGED nvs
  BY <1>2, <1>3
<1>4. ASSUME NEW k \in Keys \ {"state"}, NEW v, nvs' = [nvs EXCEPT ![k] = v]
      PROVE  Stored' = Stored
  BY <1>2, <1>4 DEF TypeOK, FlashOK, Keys
<1>5. ASSUME NEW wifi, Boot(wifi)
      PROVE  Stored' = Stored
  BY <1>2, <1>5 DEF Boot, TypeOK, FlashOK, Keys
<1>6. ASSUME SaveLedState
      PROVE  Stored' = Stored
  BY <1>4, <1>6 DEF SaveLedState, Keys
<1>7. ASSUME CreateOwnerInvite
      PROVE  Saves({fresh}, {})
  <2>1. task.at = "pairing" /\ invites = {} /\ peers = {} /\ invites' = {fresh} /\ peers' = {}
        /\ task'.at = "loop"
    BY <1>7 DEF CreateOwnerInvite, At, Place
  <2> QED
    BY <1>1, <2>1 DEF TypeOK, MemoryOK, StoredState, Saves
<1>8. ASSUME NEW d, AcceptHandshake(d)
      PROVE  /\ d.preimage \in Stored.invites
             /\ Saves(Stored.invites \ {d.preimage}, Stored.peers \cup {fresh})
  <2>1. task.at = "receive" /\ d.preimage \in invites /\ invites' = invites \ {d.preimage}
        /\ peers' = peers \cup {fresh} /\ task'.at = "write"
    BY <1>8 DEF AcceptHandshake, Receives, At, Writing
  <2>2. Stored.invites = invites /\ Stored.peers = peers
    BY <2>1 DEF TypeOK, MemoryOK, StoredState
  <2> QED
    BY <1>1, <2>1, <2>2 DEF TypeOK, MemoryOK, StoredState, Saves
<1>9. ASSUME RenewPreimage
      PROVE  /\ task.preimage \in Stored.peers
             /\ Saves(Stored.invites,
                                         (Stored.peers \ {task.preimage}) \cup {fresh})
  <2>1. task.at = "renew" /\ invites' = invites
        /\ peers' = (peers \ {task.preimage}) \cup {fresh} /\ task'.at = "write"
    BY <1>9 DEF RenewPreimage, At, Writing
  <2>2. Stored.invites = invites /\ Stored.peers = peers /\ task.preimage \in peers
    BY <2>1 DEF TypeOK, MemoryOK, TaskOK, StoredState
  <2> QED
    BY <1>1, <2>1, <2>2 DEF TypeOK, MemoryOK, StoredState, Saves
<1>10. ASSUME Flash
       PROVE  \/ Stored' = Stored
              \/ Head(task.todo)[1] = "state" /\ Saves({}, {})
  <2> DEFINE todo == task.todo
  <2>1. todo \in Seq(Writes) /\ todo # <<>>
    BY <1>10 DEF Flash, TypeOK, TaskOK
  <2>2. Head(todo) \in Writes
    BY <2>1, TailTypes
  <2>3. Head(todo)[1] \in Keys /\ (Head(todo)[1] = "state" => Head(todo)[2] = None)
    BY <2>2 DEF Writes, Keys
  <2>4. nvs' = [nvs EXCEPT ![Head(todo)[1]] = Head(todo)[2]]
    BY <1>10 DEF Flash
  <2>5. CASE Head(todo)[1] = "state"
    <3>1. nvs'["state"] = None
      BY <2>3, <2>4, <2>5 DEF TypeOK, FlashOK, Keys
    <3> QED
      BY <2>5, <3>1 DEF Stored, NoState, StoredState, Saves
  <2>6. CASE Head(todo)[1] # "state"
    <3>1. PICK k \in Keys \ {"state"} : \E v : nvs' = [nvs EXCEPT ![k] = v]
      BY <2>3, <2>4, <2>6
    <3> QED
      BY <1>4, <3>1
  <2> QED
    BY <2>5, <2>6
<1>11. \/ UNCHANGED nvs \/ (\E wifi \in BOOLEAN : Boot(wifi)) \/ CreateOwnerInvite \/ Flash
       \/ (\E d : AcceptHandshake(d)) \/ SaveLedState \/ RenewPreimage
  <2>1. CASE UNCHANGED vars
    BY <2>1 DEF vars
  <2>2. CASE Program
    BY <2>2 DEF Program, GetInviteToken, Paired, TakeCommand, NoCommand, Connect, RunConnectionFails,
         ReadTimesOut, Handle, Refuse, SwitchLight, ReadStatus, WriteFrame
  <2>3. CASE BleClient \/ RelayStep \/ Owner
    BY <2>3 DEF BleClient, WriteSsid, WritePassword, WriteReset, WriteProvision, RelayStep,
         RegisterFrame, CommitsFrame, AckFrame, Owner, OwnerIsAnswered, OwnerSends
  <2>4. CASE SignIn \/ Disconnect \/ PowerLost \/ \E p \in DOMAIN response_cache : Expire(p)
    BY <2>4 DEF SignIn, Disconnect, PowerLost, Expire
  <2> QED
    BY <2>1, <2>2, <2>3, <2>4 DEF Next
<1> QED
  BY <1>3, <1>5, <1>6, <1>7, <1>8, <1>9, <1>10, <1>11

\* A record at most is stored, as an invite or as a peer.
LEMMA RecordStep ==
  ASSUME TypeOK, OneRecord, [Next]_vars
  PROVE  OneRecord'
<1> USE DEF OneRecord, Saves
<1>1. CASE Stored' = Stored
  BY <1>1
<1>2. CASE Saves({fresh}, {}) \/ Saves({}, {})
  BY <1>2
<1>3. ASSUME NEW d, d.preimage \in Stored.invites,
             Saves(Stored.invites \ {d.preimage}, Stored.peers \cup {fresh})
      PROVE  OneRecord'
  <2>1. Stored.peers = {} /\ Stored.invites \ {d.preimage} = {}
    BY <1>3
  <2> QED
    BY <1>3, <2>1
<1>4. ASSUME task.preimage \in Stored.peers,
             Saves(Stored.invites,
                                      (Stored.peers \ {task.preimage}) \cup {fresh})
      PROVE  OneRecord'
  <2>1. Stored.invites = {} /\ Stored.peers \ {task.preimage} = {}
    BY <1>4
  <2> QED
    BY <1>4, <2>1
<1> QED
  BY StateChanges, <1>1, <1>2, <1>3, <1>4

\* What is saved is loaded again unless the address of its only peer outgrows
\* the buffer: the records never do, however often the firmware is paired,
\* reset, restarted or renewed.
THEOREM SwitchFits == FairSpec => []StateFits
<1>1. Init => OneRecord
  BY DEF Init, OneRecord, Stored, NoState, StoredState, Keys
<1>2. TypeOK /\ OneRecord => StateFits
  <2> SUFFICES ASSUME TypeOK, OneRecord PROVE StateFits
    OBVIOUS
  <2> DEFINE ids == Stored.invites \cup Stored.peers
  <2>1. Cardinality(ids) \in {0, 1}
    <3>1. CASE ids = {}
      BY <3>1, FS_EmptySet
    <3>2. CASE ids # {}
      <4>1. PICK x \in ids : TRUE
        BY <3>2
      <4>2. ids = {x}
        BY <4>1 DEF OneRecord
      <4>3. Cardinality({x}) = 1
        BY FS_Singleton
      <4> QED
        BY <4>2, <4>3
    <3> QED
      BY <3>1, <3>2
  <2>2. Stored.address \in Nat
    BY DEF TypeOK, FlashOK, Stored, NoState, StoredState, Records
  <2>3. Size(Stored) = Cardinality(ids) + Stored.address
    BY DEF Size
  <2> HIDE DEF ids
  <2> QED
    BY <2>1, <2>2, <2>3, SwitchAssumption DEF StateFits
<1>3. TypeOK /\ OneRecord /\ [Next]_vars => OneRecord'
  BY RecordStep
<1> QED
  BY <1>1, <1>2, <1>3, SwitchTypes, PTL DEF FairSpec

(***************************************************************************)
(* What is issued can be used                                              *)
(***************************************************************************)

\* Where the program is not writing, and where a frame goes on its way, nothing
\* that was said is lost.
LEMMA FramesRemain ==
  ASSUME uplink \in Seq(Frame),
         \/ uplink' = uplink /\ (task' = task \/ task.at # "write")
         \/ At("write") /\ task.frames \in Seq(Frame) /\ task.frames # <<>> /\ WriteFrame
  PROVE  Frames \subseteq Frames'
<1>1. CASE uplink' = uplink /\ (task' = task \/ task.at # "write")
  BY <1>1 DEF Frames, At
<1>2. CASE At("write") /\ task.frames \in Seq(Frame) /\ task.frames # <<>> /\ WriteFrame
  <2> DEFINE fs == task.frames
  <2>1. /\ fs \in Seq(Frame) /\ fs # <<>> /\ uplink' = Append(uplink, Head(fs))
        /\ task' = IF Len(fs) = 1 THEN Place("poll") ELSE Writing(Tail(fs))
    BY <1>2 DEF WriteFrame
  <2>2. Head(fs) \in Frame /\ Head(fs) = fs[1]
    BY <2>1, TailTypes
  <2>3. /\ \A i \in DOMAIN uplink : i \in DOMAIN uplink' /\ uplink'[i] = uplink[i]
        /\ \E i \in DOMAIN uplink' : uplink'[i] = fs[1]
    <3> HIDE DEF fs
    <3>1. \A i \in DOMAIN uplink : i \in DOMAIN uplink' /\ uplink'[i] = uplink[i]
      BY <2>1, <2>2
    <3>2. Len(uplink) + 1 \in DOMAIN uplink' /\ uplink'[Len(uplink) + 1] = fs[1]
      BY <2>1, <2>2
    <3> QED
      BY <3>1, <3>2
  <2>4. ASSUME NEW i \in DOMAIN fs, i # 1
        PROVE  task'.at = "write" /\ \E j \in DOMAIN task'.frames : task'.frames[j] = fs[i]
    <3> HIDE DEF fs
    <3>1. Len(fs) # 1 /\ i - 1 \in DOMAIN Tail(fs) /\ Tail(fs)[i - 1] = fs[i]
      BY <2>1, <2>4
    <3> QED
      BY <2>1, <3>1 DEF Writing
  <2> QED
    BY <2>3, <2>4 DEF Frames, At
<1> QED
  BY <1>1, <1>2

\* A step by which nothing issued, and nothing that reaches it, is lost.
LEMMA ReachedStays ==
  ASSUME TypeOK, ReachableInv,
         UNCHANGED <<uplink, commits, refused>>,
         task' = task \/ (task.at # "write" /\ task'.at \notin {"write", "hello"}),
         Serving' /\ link' =>
           /\ Serving /\ link /\ invites' \subseteq invites /\ peers' \subseteq peers
           /\ \A i \in DOMAIN downlink :
                \/ \E j \in DOMAIN downlink' : downlink'[j].preimage = downlink[i].preimage
                \/ task'.at \in {"led", "renew"} /\ task'.preimage = downlink[i].preimage
           /\ task.at \in {"led", "renew"} =>
                task'.at \in {"led", "renew"} /\ task'.preimage = task.preimage
  PROVE  ReachableInv'
<1>1. Frames \subseteq Frames'
  BY FramesRemain DEF TypeOK, LinkOK
<1>2. ASSUME Serving', link', NEW p \in invites' \cup peers'
      PROVE  Reached(p)'
  BY <1>1, <1>2 DEF ReachableInv, IssuedReachable, Reached
<1> QED
  BY <1>2 DEF ReachableInv, IssuedReachable, At

\* A step that all this has nothing to do with.
LEMMA ReachedSame ==
  ASSUME ReachableInv, UNCHANGED <<invites, peers, task, link, uplink, downlink, commits, refused>>
  PROVE  ReachableInv'
<1>1. Frames' = Frames /\ Serving' = Serving
  BY DEF Frames, At, Serving
<1> QED
  BY <1>1 DEF ReachableInv, IssuedReachable, Reached, At

\* Every step keeps what is issued reachable.
LEMMA ReachableStep ==
  ASSUME TypeOK, OneRecord, ReachableInv, [Next]_vars
  PROVE  ReachableInv'
<1> USE DEF ServingPlaces, Serving
<1>1. ASSUME UNCHANGED <<uplink, commits, refused>>,
             ~ (Serving' /\ link'), task' = task \/ (task.at # "write" /\ task'.at \notin {"write", "hello"})
      PROVE  ReachableInv'
  BY <1>1, ReachedStays
<1>2. ASSUME LinkDown, task' = task \/ task'.at \notin {"write", "hello"}
      PROVE  ReachableInv'
  BY <1>2 DEF LinkDown, ReachableInv, IssuedReachable, At
\* The program
<1>3. ASSUME \E wifi : Boot(wifi)
      PROVE  ReachableInv'
  BY <1>1, <1>3 DEF Boot, At, Place, linkVars, relayVars
<1>4. ASSUME CreateOwnerInvite \/ GetInviteToken \/ Paired
      PROVE  ReachableInv'
  BY <1>1, <1>4 DEF CreateOwnerInvite, GetInviteToken, Paired, At, Place, linkVars, relayVars, historyVars
<1>5. ASSUME TakeCommand
      PROVE  ReachableInv'
  BY <1>1, <1>5 DEF TakeCommand, At, Flashing, linkVars, relayVars, historyVars
<1>6. ASSUME NoCommand \/ ReadTimesOut
      PROVE  ReachableInv'
  BY <1>6, ReachedStays DEF NoCommand, ReadTimesOut, At, Place, linkVars, relayVars, historyVars, memory
<1>7. ASSUME Flash
      PROVE  ReachableInv'
  BY <1>1, <1>2, <1>7 DEF Flash, At, Place, Off, Flashing, linkVars, historyVars
<1>8. ASSUME Connect
      PROVE  ReachableInv'
  <2>1. /\ task'.at = "hello" /\ uplink' = <<>> /\ commits' = {}
    BY <1>8 DEF Connect, At, Place, relayVars, TypeOK, LinkOK
  <2> QED
    BY <2>1 DEF ReachableInv, IssuedReachable, At
<1>9. ASSUME RunConnectionFails
      PROVE  ReachableInv'
  <2>1. task'.at = "loop" /\ uplink' = <<>> /\ commits' = {}
    BY <1>9 DEF RunConnectionFails, At, Place, linkVars, relayVars, TypeOK, LinkOK
  <2> QED
    BY <2>1 DEF ReachableInv, IssuedReachable, At
\* A step that begins to write keeps what was said, and says its frames.
<1>10. ASSUME NEW frames, task' = Writing(frames), uplink' = uplink, task.at \in {"receive", "renew"},
              commits' = commits, refused \subseteq refused',
              \A i \in DOMAIN frames : frames[i].type # "I_AM",
              \A p \in invites' \cup peers' :
                \/ p \in invites \cup peers /\ (Reached(p) => Reached(p)')
                \/ \E i \in DOMAIN frames : frames[i].type # "ACK" /\ p \in frames[i].commits,
              link' = link
       PROVE  ReachableInv'
  <2>1. task'.at = "write" /\ task'.frames = frames
    BY <1>10 DEF Writing
  <2>2. \A i \in DOMAIN frames : frames[i] \in Frames'
    BY <2>1 DEF Frames, At
  <2>3. \A p \in invites' \cup peers' : link => Reached(p)'
    BY <1>10, <2>2 DEF ReachableInv, IssuedReachable, Reached
  <2> QED
    BY <1>10, <2>1, <2>3 DEF ReachableInv, IssuedReachable, At
<1>11. ASSUME NEW d, AcceptHandshake(d)
       PROVE  ReachableInv'
  <2> DEFINE frames == <<Ack(d.preimage, fresh, None), UpdateCommits({fresh})>>
  <2>1. /\ task.at = "receive" /\ d.preimage \in invites /\ task' = Writing(frames)
        /\ invites' = invites \ {d.preimage} /\ peers' = peers \cup {fresh}
        /\ UNCHANGED <<key, is_on, ble, link, uplink, relayVars, ownerVars, executed, refused>>
    BY <1>11 DEF AcceptHandshake, Receives, At
  <2>2. invites' = {} /\ peers' = {fresh}
    BY <2>1 DEF OneRecord, TypeOK, MemoryOK, StoredState
  <2>3. /\ \A i \in DOMAIN frames : frames[i].type # "I_AM"
        /\ 2 \in DOMAIN frames /\ frames[2].type # "ACK" /\ fresh \in frames[2].commits
    BY DEF Ack, UpdateCommits
  <2> HIDE DEF frames
  <2> QED
    BY <1>10, <2>1, <2>2, <2>3 DEF relayVars
<1>12. ASSUME NEW d, Refuse(d)
       PROVE  ReachableInv'
  <2> DEFINE frames == <<Ack(d.preimage, None, None)>>
  <2>1. /\ task.at = "receive" /\ task' = Writing(frames) /\ refused' = refused \cup {d.preimage}
        /\ d = Head(downlink) /\ downlink' = Tail(downlink) /\ downlink # <<>>
        /\ UNCHANGED <<nvs, memory, ble, link, uplink, relayVars, ownerVars, fresh, executed>>
    BY <1>12 DEF Refuse, Receives, At
  <2>2. DOMAIN frames = {1} /\ frames[1].type = "ACK"
    BY DEF Ack
  <2>3. Frames \subseteq Frames'
    BY <2>1, FramesRemain DEF TypeOK, LinkOK
  <2>4. \A i \in DOMAIN downlink : downlink[i] = d \/ \E j \in DOMAIN downlink' : downlink'[j] = downlink[i]
    BY <2>1, HeadOrTail DEF TypeOK, LinkOK
  <2>5. ASSUME NEW p, Reached(p)
        PROVE  Reached(p)'
    BY <2>1, <2>3, <2>4, <2>5 DEF Reached, relayVars
  <2>6. \A p \in invites' \cup peers' : p \in invites \cup peers /\ (Reached(p) => Reached(p)')
    BY <2>1, <2>5 DEF memory
  <2>7. \A i \in DOMAIN frames : frames[i].type # "I_AM"
    BY <2>2
  <2>8. commits' = commits /\ refused \subseteq refused' /\ link' = link /\ uplink' = uplink
    BY <2>1 DEF relayVars
  <2> HIDE DEF frames
  <2> QED
    BY <1>10, <2>1, <2>6, <2>7, <2>8
<1>13. ASSUME NEW d, SwitchLight(d) \/ ReadStatus(d)
       PROVE  ReachableInv'
  <2>1. /\ task.at = "receive" /\ link /\ (task' = Command("led", d) \/ task' = Command("renew", d))
        /\ d = Head(downlink) /\ downlink' = Tail(downlink) /\ downlink # <<>>
        /\ UNCHANGED <<invites, peers, link, uplink, commits, refused>>
    BY <1>13 DEF SwitchLight, ReadStatus, Receives, At, memory, relayVars
  <2>2. task'.at \in {"led", "renew"} /\ task'.preimage = d.preimage
    BY <2>1 DEF Command
  <2>3. \A i \in DOMAIN downlink : downlink[i] = d \/ \E j \in DOMAIN downlink' : downlink'[j] = downlink[i]
    BY <2>1, HeadOrTail DEF TypeOK, LinkOK
  <2>4. /\ Serving /\ task.at # "write" /\ task.at \notin {"led", "renew"}
        /\ task'.at \notin {"write", "hello"}
    BY <2>1, <2>2
  <2>5. \A i \in DOMAIN downlink :
          \/ \E j \in DOMAIN downlink' : downlink'[j].preimage = downlink[i].preimage
          \/ task'.at \in {"led", "renew"} /\ task'.preimage = downlink[i].preimage
    BY <2>2, <2>3
  <2> QED
    BY <2>1, <2>4, <2>5, ReachedStays
<1>14. ASSUME SaveLedState
       PROVE  ReachableInv'
  <2>1. /\ task.at = "led" /\ task'.at = "renew" /\ task'.preimage = task.preimage
        /\ UNCHANGED <<invites, peers, link, uplink, downlink, commits, refused>>
    BY <1>14 DEF SaveLedState, At, Command, memory, linkVars, relayVars, historyVars
  <2> QED
    BY <2>1, ReachedStays
<1>15. ASSUME RenewPreimage
       PROVE  ReachableInv'
  <2> DEFINE frames == <<UpdateCommits({fresh}), Ack(task.preimage, fresh, is_on)>>
  <2>1. /\ task.at = "renew" /\ task' = Writing(frames)
        /\ invites' = invites /\ peers' = (peers \ {task.preimage}) \cup {fresh}
        /\ UNCHANGED <<link, uplink, downlink, commits, refused>>
    BY <1>15 DEF RenewPreimage, At, linkVars, relayVars
  <2>2. invites' = {} /\ peers' = {fresh}
    BY <2>1 DEF OneRecord, TypeOK, MemoryOK, TaskOK, StoredState
  <2>3. /\ \A i \in DOMAIN frames : frames[i].type # "I_AM"
        /\ 1 \in DOMAIN frames /\ frames[1].type # "ACK" /\ fresh \in frames[1].commits
    BY DEF Ack, UpdateCommits
  <2> HIDE DEF frames
  <2> QED
    BY <1>10, <2>1, <2>2, <2>3
<1>16. ASSUME WriteFrame
       PROVE  ReachableInv'
  <2>1. /\ task.at = "write" /\ task.frames \in Seq(Frame) /\ task.frames # <<>>
        /\ uplink' = Append(uplink, Head(task.frames))
        /\ task' = IF Len(task.frames) = 1 THEN Place("poll") ELSE Writing(Tail(task.frames))
        /\ UNCHANGED <<invites, peers, link, downlink, commits, refused>>
    BY <1>16 DEF WriteFrame, At, TypeOK, TaskOK, memory, relayVars, historyVars
  <2>2. Frames \subseteq Frames'
    BY <1>16, <2>1, FramesRemain DEF At, TypeOK, LinkOK
  <2>3. IssuedReachable'
    BY <2>1, <2>2 DEF ReachableInv, IssuedReachable, Reached
  <2>4. /\ Head(task.frames) = task.frames[1] /\ 1 \in DOMAIN task.frames
        /\ \A i \in DOMAIN Tail(task.frames) :
             i + 1 \in DOMAIN task.frames /\ Tail(task.frames)[i] = task.frames[i + 1]
    BY <2>1, TailTypes
  <2>5. /\ task'.at \in {"poll", "write"}
        /\ task'.at = "write" => task'.frames = Tail(task.frames)
    BY <2>1 DEF Place, Writing
  <2>6. \A f \in {task.frames[i] : i \in DOMAIN task.frames} : f.type # "I_AM"
    BY <2>1 DEF ReachableInv, At
  <2>7. \A i \in DOMAIN uplink' : (i \in DOMAIN uplink /\ uplink'[i] = uplink[i])
                                    \/ uplink'[i] = task.frames[1]
    <3> DEFINE f == Head(task.frames)
    <3>1. f \in Frame /\ uplink' = Append(uplink, f) /\ uplink \in Seq(Frame) /\ f = task.frames[1]
      BY <2>1, <2>4, TailTypes DEF TypeOK, LinkOK
    <3> HIDE DEF f
    <3>2. \A i \in DOMAIN uplink' : (i \in DOMAIN uplink /\ uplink'[i] = uplink[i]) \/ uplink'[i] = f
      BY <3>1
    <3> QED
      BY <3>1, <3>2
  <2>8. \A i \in DOMAIN uplink' : uplink'[i].type = "I_AM" => i = 1 /\ commits' = {}
    BY <2>1, <2>4, <2>6, <2>7 DEF ReachableInv
  <2> QED
    BY <2>3, <2>4, <2>5, <2>6, <2>8 DEF ReachableInv, At
\* The environment
<1>17. ASSUME SignIn
       PROVE  ReachableInv'
  <2>1. /\ task'.at = "poll" /\ uplink' = <<IAm(GetCommits)>> /\ task.at = "hello"
        /\ UNCHANGED <<invites, peers, commits>>
    BY <1>17 DEF SignIn, At, Place, memory, relayVars
  <2>2. DOMAIN uplink' = {1} /\ uplink'[1] = IAm(GetCommits) /\ commits' = {}
    BY <2>1 DEF ReachableInv, At
  <2>3. IAm(GetCommits) \in Frames' /\ IAm(GetCommits).type # "ACK"
        /\ IAm(GetCommits).commits = invites' \cup peers'
    BY <2>1, <2>2 DEF Frames, IAm, GetCommits
  <2> QED
    BY <2>1, <2>2, <2>3 DEF ReachableInv, IssuedReachable, Reached, At
<1>18. ASSUME BleClient
       PROVE  ReachableInv'
  <2>1. UNCHANGED <<nvs, memory, task, linkVars, relayVars, ownerVars, historyVars>>
    BY <1>18 DEF BleClient, WriteSsid, WritePassword, WriteReset, WriteProvision
  <2> QED
    BY <2>1, ReachedSame DEF linkVars, relayVars, historyVars, memory
<1>19. ASSUME RelayStep
       PROVE  ReachableInv'
  <2>1. /\ uplink \in Seq(Frame) /\ uplink # <<>> /\ uplink' = Tail(uplink)
        /\ UNCHANGED <<nvs, memory, ble, task, link, downlink, ownerVars, historyVars>>
    BY <1>19 DEF RelayStep, RegisterFrame, CommitsFrame, AckFrame, TypeOK, LinkOK
  <2>2. /\ Head(uplink) = uplink[1] /\ 1 \in DOMAIN uplink
        /\ \A i \in DOMAIN uplink' : i + 1 \in DOMAIN uplink /\ uplink'[i] = uplink[i + 1]
        /\ \A i \in DOMAIN uplink : uplink[i] = Head(uplink) \/ \E j \in DOMAIN uplink' : uplink'[j] = uplink[i]
    BY <2>1, TailTypes, HeadOrTail
  <2>3. Frames \subseteq Frames' \cup {Head(uplink)}
    BY <2>1, <2>2 DEF Frames, At
  <2>4. /\ commits \subseteq commits'
        /\ Head(uplink).type # "ACK" => Head(uplink).commits \subseteq commits'
    <3>1. Head(uplink) \in Frame
      BY <2>1, TailTypes
    <3>2. CASE RegisterFrame
      BY <2>2, <3>2 DEF RegisterFrame, ReachableInv
    <3>3. CASE CommitsFrame
      BY <3>3 DEF CommitsFrame
    <3>4. CASE AckFrame
      BY <3>4 DEF AckFrame
    <3> QED
      BY <1>19, <3>2, <3>3, <3>4 DEF RelayStep
  <2>5. IssuedReachable'
    BY <2>1, <2>3, <2>4 DEF ReachableInv, IssuedReachable, Reached, memory, historyVars
  <2>6. ASSUME NEW i \in DOMAIN uplink'
        PROVE  uplink'[i].type # "I_AM"
    <3>1. i + 1 \in DOMAIN uplink /\ uplink'[i] = uplink[i + 1] /\ i + 1 # 1
      BY <2>1, <2>2
    <3> QED
      BY <3>1 DEF ReachableInv
  <2> QED
    BY <2>1, <2>5, <2>6 DEF ReachableInv, At
<1>20. ASSUME NEW payload, OwnerSends(payload)
       PROVE  ReachableInv'
  <2> DEFINE d == [preimage |-> held.preimage, payload |-> payload]
  <2>1. /\ held.preimage \in commits /\ commits' = commits \ {held.preimage}
        /\ downlink' = Append(downlink, d) /\ downlink \in Seq(Delivery)
        /\ UNCHANGED <<invites, peers, task, link, uplink, refused>>
    BY <1>20 DEF OwnerSends, memory, historyVars, TypeOK, LinkOK
  <2>2. /\ \A i \in DOMAIN downlink : i \in DOMAIN downlink' /\ downlink'[i] = downlink[i]
        /\ \E i \in DOMAIN downlink' : downlink'[i].preimage = held.preimage
    <3>1. d.preimage = held.preimage
      OBVIOUS
    <3> HIDE DEF d
    <3>2. Len(downlink) + 1 \in DOMAIN downlink' /\ downlink'[Len(downlink) + 1] = d
      BY <2>1
    <3>3. \A i \in DOMAIN downlink : i \in DOMAIN downlink' /\ downlink'[i] = downlink[i]
      BY <2>1
    <3> QED
      BY <3>1, <3>2, <3>3
  <2>3. Frames \subseteq Frames'
    BY <2>1, FramesRemain DEF TypeOK, LinkOK
  <2>4. IssuedReachable'
    BY <2>1, <2>2, <2>3 DEF ReachableInv, IssuedReachable, Reached
  <2> QED
    BY <2>1, <2>4 DEF ReachableInv, At
<1>21. ASSUME OwnerIsAnswered \/ \E p \in DOMAIN response_cache : Expire(p)
       PROVE  ReachableInv'
  <2>1. UNCHANGED <<nvs, memory, task, linkVars, commits, refused>>
    BY <1>21 DEF OwnerIsAnswered, Expire, historyVars
  <2> QED
    BY <2>1, ReachedSame DEF linkVars, memory
<1>22. ASSUME Disconnect \/ PowerLost
       PROVE  ReachableInv'
  <2>1. LinkDown
    BY <1>22 DEF Disconnect, PowerLost
  <2>2. task' = task \/ task' = Place("off")
    BY <1>22 DEF Disconnect, PowerLost, Off
  <2>3. Place("off").at = "off"
    BY DEF Place
  <2> QED
    BY <1>2, <2>1, <2>2, <2>3
<1>23. CASE UNCHANGED vars
  BY <1>23, ReachedSame DEF vars, linkVars, relayVars, historyVars, memory
<1>24. CASE Program
  BY <1>3, <1>4, <1>5, <1>6, <1>7, <1>8, <1>9, <1>11, <1>12, <1>13, <1>14, <1>15, <1>16, <1>24
  DEF Program, Handle
<1> QED
  BY <1>17, <1>18, <1>19, <1>20, <1>21, <1>22, <1>23, <1>24 DEF Next, Owner

\* Nothing the firmware issued is dead while it is signed in: the frames that
\* register a new preimage are ordered before the answer that carries it, and
\* behind the I_AM that replaces what was registered.
THEOREM SwitchReachable == FairSpec => []IssuedReachable
<1>1. Init => ReachableInv /\ OneRecord
  BY DEF Init, ReachableInv, IssuedReachable, Serving, ServingPlaces, At, Place,
         OneRecord, Stored, NoState, StoredState, Keys
<1>2. TypeOK /\ OneRecord /\ [Next]_vars => OneRecord'
  BY RecordStep
<1>3. TypeOK /\ OneRecord /\ ReachableInv /\ [Next]_vars => ReachableInv'
  BY ReachableStep
<1>4. ReachableInv => IssuedReachable
  BY DEF ReachableInv
<1> QED
  BY <1>1, <1>2, <1>3, <1>4, SwitchTypes, PTL DEF FairSpec

(***************************************************************************)
(* A preimage is honoured once                                             *)
(***************************************************************************)

\* A command begins when its message is received, with a preimage that is in
\* the stored state.
LEMMA CommandBegins ==
  ASSUME TypeOK, NEW d, SwitchLight(d) \/ ReadStatus(d)
  PROVE  /\ task.at = "receive" /\ task'.at \in {"led", "renew"} /\ task'.preimage = d.preimage
         /\ d.preimage \in peers /\ d.preimage \in Stored.peers
         /\ \E i \in DOMAIN downlink : downlink[i] = d
         /\ executed' = executed \cup {d.preimage}
<1>1. /\ task.at = "receive" /\ (task' = Command("led", d) \/ task' = Command("renew", d))
      /\ d = Head(downlink) /\ downlink # <<>> /\ downlink \in Seq(Delivery)
      /\ d.preimage \in peers /\ executed' = executed \cup {d.preimage}
  BY DEF SwitchLight, ReadStatus, Receives, At, TypeOK, LinkOK
<1>2. d.preimage \in Stored.peers
  BY <1>1 DEF TypeOK, MemoryOK, StoredState
<1>3. 1 \in DOMAIN downlink /\ downlink[1] = d
  BY <1>1, TailTypes
<1> QED
  BY <1>1, <1>2, <1>3 DEF Command

\* The steps in which a command begins, goes on, or ends.
LEMMA CommandSteps ==
  ASSUME TypeOK, [Next]_vars
  PROVE  \/ \E d : SwitchLight(d) \/ ReadStatus(d)
         \/ SaveLedState \/ RenewPreimage \/ PowerLost
         \/ executed' = executed /\ task' = task
         \/ executed' = executed /\ {task.at, task'.at} \cap {"led", "renew"} = {}
<1> USE DEF historyVars, At, Place
<1>1. CASE UNCHANGED vars
  BY <1>1 DEF vars
<1>2. CASE \E wifi \in BOOLEAN : Boot(wifi)
  BY <1>2 DEF Boot
<1>3. CASE CreateOwnerInvite \/ GetInviteToken \/ Paired
  BY <1>3 DEF CreateOwnerInvite, GetInviteToken, Paired
<1>4. CASE TakeCommand \/ NoCommand
  BY <1>4 DEF TakeCommand, NoCommand, Flashing
<1>5. CASE Flash
  BY <1>5 DEF Flash, Off, Flashing
<1>6. CASE Connect \/ RunConnectionFails \/ ReadTimesOut
  BY <1>6 DEF Connect, RunConnectionFails, ReadTimesOut
<1>7. CASE \E d : AcceptHandshake(d) \/ Refuse(d)
  BY <1>7 DEF AcceptHandshake, Refuse, Receives, Writing
<1>8. CASE WriteFrame
  BY <1>8 DEF WriteFrame, Writing
<1>9. CASE BleClient \/ RelayStep \/ Owner
  BY <1>9 DEF BleClient, WriteSsid, WritePassword, WriteReset, WriteProvision, RelayStep,
       RegisterFrame, CommitsFrame, AckFrame, Owner, OwnerIsAnswered, OwnerSends
<1>10. CASE SignIn \/ Disconnect \/ \E p \in DOMAIN response_cache : Expire(p)
  BY <1>10 DEF SignIn, Disconnect, Expire
<1> QED
  BY <1>1, <1>2, <1>3, <1>4, <1>5, <1>6, <1>7, <1>8, <1>9, <1>10 DEF Next, Program, Handle

\* A stored preimage that was executed is that of the command being executed.
LEMMA ExecutedStep ==
  ASSUME TypeOK, ExecutedInv, [Next]_vars
  PROVE  ExecutedInv'
<1>1. fresh \notin executed /\ executed \subseteq Drawn
  BY DrawnGrows, DrawsOne DEF TypeOK, FlashOK, LinkOK
<1>2. Stored'.peers \subseteq Stored.peers \cup {fresh}
  BY StateChanges DEF Saves
<1>3. ASSUME NEW d, SwitchLight(d) \/ ReadStatus(d)
      PROVE  ExecutedInv'
  <2>1. fresh \notin executed'
    BY <1>1, <1>3, CommandBegins, DrawnGrows, DrawsOne DEF TypeOK, FlashOK, MemoryOK
  <2> QED
    BY <1>2, <1>3, <2>1, CommandBegins DEF ExecutedInv
<1>4. CASE SaveLedState
  <2>1. /\ task.at = "led" /\ task'.at = "renew" /\ task'.preimage = task.preimage
        /\ executed' = executed
    BY <1>4 DEF SaveLedState, At, Command, historyVars
  <2> QED
    BY <1>1, <1>2, <2>1 DEF ExecutedInv
<1>5. CASE RenewPreimage
  <2>1. /\ task.at = "renew" /\ executed' = executed /\ task'.at = "write"
        /\ peers' = (peers \ {task.preimage}) \cup {fresh}
    BY <1>5 DEF RenewPreimage, At, Writing
  <2>2. TypeOK'
    BY TypeStep
  <2>3. Stored'.peers = (Stored.peers \ {task.preimage}) \cup {fresh}
    BY <2>1, <2>2 DEF TypeOK, MemoryOK, StoredState
  <2> QED
    BY <1>1, <2>1, <2>3 DEF ExecutedInv
<1>6. CASE PowerLost
  <2>1. executed' = IF task.at \in {"led", "renew"} THEN executed \ {task.preimage} ELSE executed
    BY <1>6 DEF PowerLost
  <2>2. Stored' = Stored
    BY <1>6 DEF PowerLost, Stored
  <2> QED
    BY <2>1, <2>2 DEF ExecutedInv
<1>7. CASE executed' = executed /\ task' = task
  BY <1>1, <1>2, <1>7 DEF ExecutedInv
<1>8. CASE executed' = executed /\ {task.at, task'.at} \cap {"led", "renew"} = {}
  BY <1>1, <1>2, <1>8 DEF ExecutedInv
<1> QED
  BY CommandSteps, <1>3, <1>4, <1>5, <1>6, <1>7, <1>8

\* A preimage is honoured once: what was executed is replaced in flash before
\* the next message is received, and a restart begins with what flash holds.
THEOREM SwitchHonoursOnce == FairSpec => HonouredOnce
<1>1. Init => ExecutedInv
  BY DEF Init, ExecutedInv
<1>2. TypeOK /\ ExecutedInv /\ [Next]_vars => ExecutedInv'
  BY ExecutedStep
<1>3. TypeOK /\ ExecutedInv /\ [Next]_vars =>
        [At("receive") /\ task'.at \in {"led", "renew"} => task'.preimage \notin executed]_vars
  <2> SUFFICES ASSUME TypeOK, ExecutedInv, [Next]_vars, task.at = "receive", task'.at \in {"led", "renew"}
               PROVE  task'.preimage \notin executed
    BY DEF At
  <2>1. PICK d : SwitchLight(d) \/ ReadStatus(d)
    <3>1. ~ SaveLedState /\ ~ RenewPreimage
      BY DEF SaveLedState, RenewPreimage, At
    <3>2. ~ PowerLost
      BY DEF PowerLost, Off, Place
    <3> QED
      BY <3>1, <3>2, CommandSteps
  <2>2. task'.preimage \in Stored.peers
    BY <2>1, CommandBegins
  <2> QED
    BY <2>2 DEF ExecutedInv
<1> QED
  BY <1>1, <1>2, <1>3, SwitchTypes, PTL DEF FairSpec, HonouredOnce

(***************************************************************************)
(* The owner knows the light                                               *)
(***************************************************************************)

\* A reset is in order: the key is gone before the state or the light.
LEMMA OrderStep ==
  ASSUME TypeOK, ResetInOrder, [Next]_vars
  PROVE  ResetInOrder'
<1>1. KeyGoesFirst(<<>>) /\ KeyGoesFirst(Reset)
  <2>1. KeyGoesFirst(<<>>)
    BY DEF KeyGoesFirst
  <2>2. /\ DOMAIN Reset = 1 .. 5 /\ Reset[1][1] = "wifi_ssid" /\ Reset[2][1] = "wifi_pass"
        /\ Reset[3][1] = "secret_key"
    BY DEF Reset
  <2>3. ASSUME NEW i \in DOMAIN Reset, Reset[i][1] \in {"state", "led_on"}
        PROVE  3 \in 1 .. i - 1
    BY <2>2, <2>3
  <2> QED
    BY <2>1, <2>2, <2>3 DEF KeyGoesFirst
<1>2. ASSUME NEW ssid, NEW password
      PROVE  KeyGoesFirst(Provision(ssid, password))
  BY DEF KeyGoesFirst, Provision
<1>3. ASSUME ble'.command \in {ble.command, <<>>, Reset}
               \/ \E ssid, password : ble'.command = Provision(ssid, password),
             \/ task'.at # "flash"
             \/ task' = task /\ nvs'["secret_key"] = nvs["secret_key"]
      PROVE  ResetInOrder'
  <2>1. KeyGoesFirst(ble.command)'
    BY <1>1, <1>2, <1>3 DEF ResetInOrder, KeyGoesFirst
  <2> QED
    BY <1>3, <2>1 DEF ResetInOrder, At, KeyGoesFirst
<1>4. CASE TakeCommand
  <2>1. task'.at = "flash" /\ task'.todo = ble.command /\ ble'.command = <<>>
    BY <1>4 DEF TakeCommand, Flashing, TypeOK, MemoryOK
  <2> QED
    BY <1>1, <2>1 DEF ResetInOrder, KeyGoesFirst
<1>5. CASE Flash
  <2> DEFINE todo == task.todo
  <2>1. /\ task.at = "flash" /\ todo \in Seq(Writes) /\ todo # <<>>
        /\ nvs' = [nvs EXCEPT ![Head(todo)[1]] = Head(todo)[2]]
    BY <1>5 DEF Flash, At, TypeOK, TaskOK
  <2>2. Head(todo) = todo[1] /\ 1 \in DOMAIN todo /\ Head(todo) \in Writes
    BY <2>1, TailTypes
  <2>3. nvs'["secret_key"] = nvs["secret_key"] \/ nvs'["secret_key"] = None
    BY <2>1, <2>2 DEF Writes, Keys, TypeOK, FlashOK
  <2>4. CASE task'.at # "flash"
    <3>1. ble' = ble \/ ble' = NoBle
      BY <1>5 DEF Flash, Off
    <3> QED
      BY <1>3, <2>4, <3>1 DEF NoBle
  <2>5. CASE task'.at = "flash"
    <3>1. task'.todo = Tail(todo) /\ ble' = ble
      <4>1. ~ Off
        BY <2>5 DEF Off, Place
      <4>2. task' = Flashing(Tail(todo)) /\ ble' = ble
        BY <1>5, <4>1 DEF Flash
      <4> QED
        BY <4>2 DEF Flashing
    <3>2. nvs'["secret_key"] = None \/ KeyGoesFirst(Tail(todo))
      <4>1. CASE nvs["secret_key"] = None
        BY <2>3, <4>1
      <4>2. CASE Head(todo)[1] = "secret_key"
        BY <2>1, <2>2, <4>2 DEF Writes, Keys, TypeOK, FlashOK
      <4>3. CASE nvs["secret_key"] # None /\ todo[1][1] # "secret_key"
        <5>1. KeyGoesFirst(todo)
          BY <2>1, <4>3 DEF ResetInOrder, At
        <5>2. ASSUME NEW i \in DOMAIN Tail(todo), Tail(todo)[i][1] \in {"state", "led_on"}
              PROVE  \E j \in 1 .. i - 1 : Tail(todo)[j][1] = "secret_key"
          <6>1. /\ i + 1 \in DOMAIN todo /\ Tail(todo)[i] = todo[i + 1]
                /\ DOMAIN todo = 1 .. Len(todo) /\ Len(todo) \in Nat
                /\ DOMAIN Tail(todo) = 1 .. Len(todo) - 1
            BY <2>1, TailTypes
          <6>2. PICK j \in 1 .. (i + 1) - 1 : todo[j][1] = "secret_key"
            BY <5>1, <5>2, <6>1 DEF KeyGoesFirst
          <6>3. j # 1 /\ j - 1 \in 1 .. i - 1 /\ j - 1 \in DOMAIN Tail(todo)
            BY <4>3, <5>2, <6>1, <6>2
          <6>4. Tail(todo)[j - 1] = todo[(j - 1) + 1] /\ (j - 1) + 1 = j
            BY <2>1, <6>2, <6>3, TailTypes
          <6> QED
            BY <6>2, <6>3, <6>4
        <5> QED
          BY <5>2 DEF KeyGoesFirst
      <4> QED
        BY <2>2, <4>1, <4>2, <4>3
    <3> QED
      BY <2>5, <3>1, <3>2 DEF ResetInOrder, At, KeyGoesFirst
  <2> QED
    BY <2>4, <2>5
<1>6. CASE BleClient
  <2>1. /\ UNCHANGED <<nvs, task>>
        /\ \/ \E net \in Networks : ble' \in {[ble EXCEPT !.ssid = net], [ble EXCEPT !.password = net]}
           \/ ble' = [ble EXCEPT !.command = Reset]
           \/ \E ssid, password : ble' = [ble EXCEPT !.command = Provision(ssid, password)]
    BY <1>6 DEF BleClient, WriteSsid, WritePassword, WriteReset, WriteProvision
  <2>2. ble \in [ssid : Networks \cup {None}, password : Networks \cup {None},
                 command : Seq(Writes)]
    BY DEF TypeOK, MemoryOK
  <2>3. ble'.command \in {ble.command, <<>>, Reset}
          \/ \E ssid, password : ble'.command = Provision(ssid, password)
    BY <2>1, <2>2
  <2> QED
    BY <1>3, <2>1, <2>3
<1>7. CASE UNCHANGED vars
  BY <1>3, <1>7 DEF vars
<1>8. CASE \E wifi \in BOOLEAN : Boot(wifi)
  BY <1>3, <1>8 DEF Boot, Place
<1>9. CASE CreateOwnerInvite \/ GetInviteToken \/ Paired \/ NoCommand \/ Connect
           \/ RunConnectionFails \/ ReadTimesOut
  BY <1>3, <1>9 DEF CreateOwnerInvite, GetInviteToken, Paired, NoCommand, Connect,
     RunConnectionFails, ReadTimesOut, Place
<1>10. CASE \E d : Handle(d)
  BY <1>3, <1>10 DEF Handle, AcceptHandshake, Refuse, SwitchLight, ReadStatus, Writing, Command
<1>11. CASE SaveLedState \/ RenewPreimage \/ WriteFrame
  BY <1>3, <1>11 DEF SaveLedState, RenewPreimage, WriteFrame, Writing, Command, Place
<1>12. CASE RelayStep \/ Owner
  BY <1>3, <1>12 DEF RelayStep, RegisterFrame, CommitsFrame, AckFrame, Owner, OwnerIsAnswered, OwnerSends
<1>13. CASE SignIn \/ Disconnect \/ PowerLost \/ \E p \in DOMAIN response_cache : Expire(p)
  <2>1. CASE PowerLost
    <3>1. ble' = NoBle /\ task'.at = "off"
      BY <2>1 DEF PowerLost, Off, Place
    <3> QED
      BY <1>3, <3>1 DEF NoBle
  <2> QED
    BY <1>3, <1>13, <2>1 DEF SignIn, Disconnect, Expire, Place
<1> QED
  BY <1>4, <1>5, <1>6, <1>7, <1>8, <1>9, <1>10, <1>11, <1>12, <1>13 DEF Next, Program

\* New answers.
LEMMA AnswerChanges ==
  ASSUME TypeOK, [Next]_vars
  PROVE  \/ Answers' \subseteq Answers
         \/ \E d : AcceptHandshake(d) /\ Answers' \subseteq Answers \cup {Ack(d.preimage, fresh, None)}
         \/ \E d : Refuse(d) /\ Answers' \subseteq Answers \cup {Ack(d.preimage, None, None)}
         \/ RenewPreimage /\ Answers' \subseteq Answers \cup {Ack(task.preimage, fresh, is_on)}
<1>1. ASSUME Frames' \subseteq Frames, response_cache' = response_cache
      PROVE  Answers' \subseteq Answers
  BY <1>1, FewerAnswers
<1>2. ASSUME NEW frames, task' = Writing(frames), uplink' = uplink, response_cache' = response_cache
      PROVE  Answers' \subseteq Answers \cup {f \in {frames[i] : i \in DOMAIN frames} : f.type = "ACK"}
  BY <1>2, NewFrames DEF Answers
<1>3. ASSUME uplink' = uplink, response_cache' = response_cache, task' = task \/ task'.at # "write"
      PROVE  Answers' \subseteq Answers
  BY <1>1, <1>3, FewerFrames
<1>4. ASSUME LinkDown, response_cache' = response_cache, task' = task \/ task'.at # "write"
      PROVE  Answers' \subseteq Answers
  BY <1>1, <1>4, MovedFrames DEF LinkDown, TypeOK, LinkOK
<1>5. CASE \E wifi \in BOOLEAN : Boot(wifi)
  BY <1>3, <1>5 DEF Boot, linkVars, relayVars, Place
<1>6. CASE CreateOwnerInvite \/ GetInviteToken \/ Paired \/ NoCommand \/ TakeCommand \/ Connect
           \/ RunConnectionFails \/ ReadTimesOut
  BY <1>3, <1>6 DEF CreateOwnerInvite, GetInviteToken, Paired, NoCommand, TakeCommand, Connect,
     RunConnectionFails, ReadTimesOut, linkVars, relayVars, Place, Flashing
<1>7. CASE Flash
  BY <1>3, <1>4, <1>7 DEF Flash, Off, linkVars, Place, Flashing
<1>8. ASSUME NEW d, AcceptHandshake(d)
      PROVE  Answers' \subseteq Answers \cup {Ack(d.preimage, fresh, None)}
  <2> DEFINE frames == <<Ack(d.preimage, fresh, None), UpdateCommits({fresh})>>
  <2>1. task' = Writing(frames) /\ uplink' = uplink /\ response_cache' = response_cache
    BY <1>8 DEF AcceptHandshake, relayVars
  <2>2. {f \in {frames[i] : i \in DOMAIN frames} : f.type = "ACK"} \subseteq {frames[1]}
    BY DEF UpdateCommits
  <2>3. frames[1] = Ack(d.preimage, fresh, None)
    OBVIOUS
  <2> HIDE DEF frames
  <2> QED
    BY <1>2, <2>1, <2>2, <2>3
<1>9. ASSUME NEW d, Refuse(d)
      PROVE  Answers' \subseteq Answers \cup {Ack(d.preimage, None, None)}
  <2> DEFINE frames == <<Ack(d.preimage, None, None)>>
  <2>1. task' = Writing(frames) /\ uplink' = uplink /\ response_cache' = response_cache
    BY <1>9 DEF Refuse, relayVars
  <2>2. {f \in {frames[i] : i \in DOMAIN frames} : f.type = "ACK"} \subseteq {frames[1]}
    OBVIOUS
  <2>3. frames[1] = Ack(d.preimage, None, None)
    OBVIOUS
  <2> HIDE DEF frames
  <2> QED
    BY <1>2, <2>1, <2>2, <2>3
<1>10. CASE \E d : SwitchLight(d) \/ ReadStatus(d)
  BY <1>3, <1>10 DEF SwitchLight, ReadStatus, relayVars, Command
<1>11. CASE SaveLedState
  BY <1>3, <1>11 DEF SaveLedState, linkVars, relayVars, Command
<1>12. ASSUME RenewPreimage
       PROVE  Answers' \subseteq Answers \cup {Ack(task.preimage, fresh, is_on)}
  <2> DEFINE frames == <<UpdateCommits({fresh}), Ack(task.preimage, fresh, is_on)>>
  <2>1. task' = Writing(frames) /\ uplink' = uplink /\ response_cache' = response_cache
    BY <1>12 DEF RenewPreimage, linkVars, relayVars
  <2>2. {f \in {frames[i] : i \in DOMAIN frames} : f.type = "ACK"} \subseteq {frames[2]}
    BY DEF UpdateCommits
  <2>3. frames[2] = Ack(task.preimage, fresh, is_on)
    OBVIOUS
  <2> HIDE DEF frames
  <2> QED
    BY <1>2, <2>1, <2>2, <2>3
<1>13. CASE WriteFrame
  <2>1. At("write") /\ task.frames \in Seq(Frame) /\ task.frames # <<>> /\ response_cache' = response_cache
    BY <1>13 DEF WriteFrame, TypeOK, TaskOK, relayVars
  <2> QED
    BY <1>1, <1>13, <2>1, MovedFrames DEF TypeOK, LinkOK
<1>14. CASE SignIn
  <2>1. /\ task'.at = "poll" /\ uplink' = <<IAm(GetCommits)>> /\ response_cache' = response_cache
    BY <1>14 DEF SignIn, Place, relayVars
  <2>2. Frames' = {IAm(GetCommits)} /\ IAm(GetCommits).type # "ACK"
    BY <2>1 DEF Frames, At, IAm
  <2> QED
    BY <2>1, <2>2 DEF Answers
<1>15. CASE BleClient
  BY <1>3, <1>15 DEF BleClient, WriteSsid, WritePassword, WriteReset, WriteProvision, linkVars, relayVars
<1>16. CASE RelayStep
  BY <1>16, RelayTakes DEF TypeOK, LinkOK
<1>17. CASE \E payload \in Payloads : OwnerSends(payload)
  BY <1>3, <1>17 DEF OwnerSends
<1>18. CASE OwnerIsAnswered \/ \E p \in DOMAIN response_cache : Expire(p)
  <2>1. /\ UNCHANGED <<task, linkVars>>
        /\ \E p \in DOMAIN response_cache : response_cache' = Drop(response_cache, p)
    BY <1>18 DEF OwnerIsAnswered, Expire
  <2>2. Frames' \subseteq Frames
    BY <2>1, FewerFrames DEF linkVars
  <2> QED
    BY <2>1, <2>2, FewerAnswers DEF Drop, Restrict
<1>19. CASE Disconnect \/ PowerLost
  BY <1>4, <1>19 DEF Disconnect, PowerLost, Off, Place
<1>20. CASE UNCHANGED vars
  BY <1>3, <1>20 DEF vars, linkVars, relayVars
<1>21. CASE Program
  BY <1>5, <1>6, <1>7, <1>8, <1>9, <1>10, <1>11, <1>12, <1>13, <1>21 DEF Program, Handle
<1> QED
  BY <1>14, <1>15, <1>16, <1>17, <1>18, <1>19, <1>20, <1>21 DEF Next, Owner

\* A preimage that was answered with the next one is in no stored state.
LEMMA RetiredStep ==
  ASSUME TypeOK, OneRecord, AnsweredIsRetired, [Next]_vars
  PROVE  AnsweredIsRetired'
<1> DEFINE ids == Stored.invites \cup Stored.peers
<1>1. fresh \notin Drawn /\ Drawn \subseteq Nat
  BY DrawnGrows, DrawsOne DEF TypeOK, FlashOK
<1>2. ids' \subseteq ids \cup {fresh}
  BY StateChanges DEF Saves
<1>3. ids \subseteq Drawn
  BY DEF TypeOK, FlashOK, Stored, NoState, Records, StoredState
<1>4. ASSUME NEW a \in Answers
      PROVE  /\ a.is_on # None => a.next # None
             /\ a.next # None => a.preimage \notin ids'
  <2>1. a.preimage # fresh
    BY <1>1 DEF TypeOK, OwnerOK
  <2> QED
    BY <1>2, <2>1 DEF AnsweredIsRetired
<1>5. ASSUME NEW d, AcceptHandshake(d)
      PROVE  d.preimage \notin ids'
  <2>1. d.preimage \in Stored.invites
        /\ Saves(Stored.invites \ {d.preimage}, Stored.peers \cup {fresh})
    <3>1. task.at = "receive" /\ d.preimage \in invites /\ invites' = invites \ {d.preimage}
          /\ peers' = peers \cup {fresh} /\ task'.at = "write"
      BY <1>5 DEF AcceptHandshake, Receives, At, Writing
    <3>2. TypeOK'
      BY TypeStep
    <3> QED
      BY <3>1, <3>2 DEF TypeOK, MemoryOK, StoredState, Saves
  <2>2. Stored.peers = {} /\ d.preimage # fresh
    BY <1>1, <1>3, <2>1 DEF OneRecord
  <2> QED
    BY <2>1, <2>2 DEF Saves
<1>6. ASSUME RenewPreimage
      PROVE  task.preimage \notin ids'
  <2>1. task.preimage \in Stored.peers
        /\ Saves(Stored.invites, (Stored.peers \ {task.preimage}) \cup {fresh})
    <3>1. task.at = "renew" /\ invites' = invites
          /\ peers' = (peers \ {task.preimage}) \cup {fresh} /\ task'.at = "write"
      BY <1>6 DEF RenewPreimage, At, Writing
    <3>2. TypeOK'
      BY TypeStep
    <3> QED
      BY <3>1, <3>2 DEF TypeOK, MemoryOK, TaskOK, StoredState, Saves
  <2>2. Stored.invites = {} /\ task.preimage # fresh
    BY <1>1, <1>3, <2>1 DEF OneRecord
  <2> QED
    BY <2>1, <2>2 DEF Saves
<1>7. fresh # None
  BY SwitchAssumption DEF TypeOK, FlashOK
<1> HIDE DEF ids
<1>8. ASSUME NEW a \in Answers'
      PROVE  /\ a.is_on # None => a.next # None
             /\ a.next # None => a.preimage \notin ids'
  BY <1>4, <1>5, <1>6, <1>7, <1>8, AnswerChanges DEF Ack
<1> QED
  BY <1>8 DEF AnsweredIsRetired, ids

\* A step after which no other commands wait, and none is being handled.
LEMMA HeldStays ==
  ASSUME TypeOK, CommandsAreHeld, held' = held, peers' \subseteq peers \cup {fresh},
         \/ task'.at \in {"off", "flash"}
         \/ /\ task.at \notin {"off", "flash"}
            /\ \A i \in DOMAIN downlink' :
                 \/ \E j \in DOMAIN downlink : downlink'[i] = downlink[j]
                 \/ held # None /\ downlink'[i].preimage = held.preimage
            /\ task'.at \in {"led", "renew"} =>
                 \/ task.at \in {"led", "renew"} /\ task'.preimage = task.preimage
                 \/ held # None /\ task'.preimage = held.preimage
  PROVE  CommandsAreHeld'
<1>1. fresh \notin Drawn
  BY DEF TypeOK, FlashOK, Drawn
<1>2. \A j \in DOMAIN downlink : downlink[j].preimage # fresh
  BY <1>1 DEF TypeOK, LinkOK
<1> QED
  BY <1>2 DEF CommandsAreHeld

\* Commands come with what the owner holds.
LEMMA HeldStep ==
  ASSUME TypeOK, AnsweredIsRetired, CommandsAreHeld, [Next]_vars
  PROVE  CommandsAreHeld'
<1> USE DEF At
<1>1. ASSUME task'.at \notin {"led", "renew"}, downlink' = <<>>
      PROVE  CommandsAreHeld'
  BY <1>1 DEF CommandsAreHeld
<1>2. CASE (\E wifi \in BOOLEAN : Boot(wifi)) \/ CreateOwnerInvite \/ GetInviteToken
  <2>1. task.at \in {"off", "pairing"} /\ downlink' = downlink /\ task'.at \in {"pairing", "ble", "loop"}
    BY <1>2 DEF Boot, CreateOwnerInvite, GetInviteToken, Place, linkVars
  <2> QED
    BY <1>1, <2>1 DEF TypeOK, LinkOK
<1>3. CASE Paired \/ NoCommand \/ Connect \/ RunConnectionFails \/ ReadTimesOut
  BY <1>3, HeldStays DEF Paired, NoCommand, Connect, RunConnectionFails, ReadTimesOut, Place,
     linkVars, ownerVars, memory
<1>4. CASE TakeCommand \/ Flash
  <2>1. task'.at \in {"off", "flash"}
    BY <1>4 DEF TakeCommand, Flash, Off, Place, Flashing
  <2> QED
    BY <2>1 DEF CommandsAreHeld
<1>5. ASSUME NEW d, Receives(d)
      PROVE  /\ task.at = "receive"
             /\ \A i \in DOMAIN downlink' : \E j \in DOMAIN downlink : downlink'[i] = downlink[j]
             /\ d.preimage \in peers => held # None /\ held.preimage = d.preimage
  <2>1. /\ task.at = "receive" /\ d = Head(downlink) /\ downlink' = Tail(downlink)
        /\ downlink # <<>> /\ downlink \in Seq(Delivery)
    BY <1>5 DEF Receives, TypeOK, LinkOK
  <2>2. /\ 1 \in DOMAIN downlink /\ downlink[1] = d
        /\ \A i \in DOMAIN downlink' : i + 1 \in DOMAIN downlink /\ downlink'[i] = downlink[i + 1]
    BY <2>1, TailTypes
  <2> QED
    BY <2>1, <2>2 DEF CommandsAreHeld
<1>6. CASE \E d : AcceptHandshake(d) \/ Refuse(d)
  BY <1>5, <1>6, HeldStays DEF AcceptHandshake, Refuse, Writing, ownerVars, memory
<1>7. CASE \E d : SwitchLight(d) \/ ReadStatus(d)
  BY <1>5, <1>7, HeldStays DEF SwitchLight, ReadStatus, Command, ownerVars, memory
<1>8. CASE SaveLedState
  BY <1>8, HeldStays DEF SaveLedState, Command, linkVars, ownerVars, memory
<1>9. CASE RenewPreimage
  BY <1>9, HeldStays DEF RenewPreimage, Writing, linkVars, ownerVars
<1>10. CASE WriteFrame
  BY <1>10, HeldStays DEF WriteFrame, Place, Writing, ownerVars, memory
<1>11. CASE SignIn
  BY <1>11, HeldStays DEF SignIn, Place, ownerVars, memory
<1>12. ASSUME UNCHANGED <<held, peers, task, downlink>>
       PROVE  CommandsAreHeld'
  BY <1>12 DEF CommandsAreHeld
<1>13. CASE BleClient \/ RelayStep \/ \E p \in DOMAIN response_cache : Expire(p)
  BY <1>12, <1>13 DEF BleClient, WriteSsid, WritePassword, WriteReset, WriteProvision, RelayStep,
     RegisterFrame, CommitsFrame, AckFrame, Expire, linkVars, ownerVars, memory
<1>14. CASE \E payload \in Payloads : OwnerSends(payload)
  <2>1. PICK payload : OwnerSends(payload)
    BY <1>14
  <2> DEFINE d == [preimage |-> held.preimage, payload |-> payload]
  <2>2. /\ held # None /\ downlink' = Append(downlink, d) /\ downlink \in Seq(Delivery)
        /\ UNCHANGED <<held, peers, task>>
    BY <2>1 DEF OwnerSends, ownerVars, memory, TypeOK, LinkOK
  <2>3. ASSUME NEW i \in DOMAIN downlink'
        PROVE  (i \in DOMAIN downlink /\ downlink'[i] = downlink[i]) \/ downlink'[i] = d
    <3> HIDE DEF d
    <3> QED
      BY <2>2, <2>3
  <2>4. d.preimage = held.preimage
    OBVIOUS
  <2>5. \A i \in DOMAIN downlink' : (i \in DOMAIN downlink /\ downlink'[i] = downlink[i])
                                      \/ downlink'[i].preimage = held.preimage
    BY <2>3, <2>4
  <2> QED
    BY <2>2, <2>5 DEF CommandsAreHeld
<1>15. CASE OwnerIsAnswered
  <2> DEFINE p == held.preimage
             r == response_cache[p]
  <2>1. /\ held # None /\ p \in DOMAIN response_cache
        /\ held' = IF r.next = None THEN held ELSE [key |-> held.key, preimage |-> r.next]
        /\ UNCHANGED <<nvs, peers, task, downlink>>
    BY <1>15 DEF OwnerIsAnswered, memory, linkVars
  <2>2. CASE r.next = None
    BY <1>12, <2>1, <2>2
  <2>3. CASE r.next # None
    <3>1. Ack(p, r.next, r.is_on) \in Answers
      BY <2>1 DEF Answers
    <3>2. p \notin Stored.peers
      BY <2>3, <3>1 DEF AnsweredIsRetired, Ack
    <3>3. task.at \notin {"off", "flash"} => p \notin peers
      BY <3>2, LoadedIsStored DEF TypeOK, MemoryOK, StoredState, NoState
    <3> QED
      BY <2>1, <3>3 DEF CommandsAreHeld, TypeOK, TaskOK
  <2> QED
    BY <2>2, <2>3
<1>16. CASE Disconnect
  <2>1. downlink' = <<>> /\ UNCHANGED <<held, peers, task>>
    BY <1>16 DEF Disconnect, LinkDown, ownerVars, memory
  <2> QED
    BY <2>1 DEF CommandsAreHeld
<1>17. CASE PowerLost
  <2>1. task'.at = "off"
    BY <1>17 DEF PowerLost, Off, Place
  <2> QED
    BY <2>1 DEF CommandsAreHeld
<1>18. CASE UNCHANGED vars
  BY <1>12, <1>18 DEF vars, linkVars, ownerVars, memory
<1>19. CASE Program
  BY <1>2, <1>3, <1>4, <1>6, <1>7, <1>8, <1>9, <1>10, <1>19 DEF Program, Handle
<1> QED
  BY <1>11, <1>13, <1>14, <1>15, <1>16, <1>17, <1>18, <1>19 DEF Next, Owner

\* What LightInv says of the light, of what the owner knows, and of the answers
\* that wait for it.
LightIsKnown ==
  /\ OwnerKnowsLight /\ AnswerIsCurrent
  /\ known # None => held # None
  /\ task.at \notin {"off", "flash", "led"} => is_on = LoadLed
  /\ At("led") /\ held.key = nvs["secret_key"] => known = None

\* A step that leaves the light, the state, and the owner alone.
LEMMA LightStays ==
  ASSUME LightIsKnown, UNCHANGED <<nvs, held>>, known' \in {known, None},
         Answers' \subseteq Answers,
         \/ task'.at = "off"
         \/ is_on' = is_on /\ task.at # "off"
              /\ (task'.at = "flash" \/ task'.at = task.at
                   \/ {task.at, task'.at} \cap {"off", "flash", "led"} = {})
  PROVE  LightIsKnown'
<1>1. Stored' = Stored /\ LoadLed' = LoadLed
  BY DEF Stored, LoadLed
<1> QED
  BY <1>1 DEF LightIsKnown, OwnerKnowsLight, AnswerIsCurrent, At

\* Every step keeps the light known.
LEMMA LightStep ==
  ASSUME TypeOK, OneRecord, LightInv, [Next]_vars
  PROVE  LightIsKnown'
<1> USE SwitchAssumption DEF At
<1>1. LightIsKnown /\ AnsweredIsRetired /\ CommandsAreHeld /\ ResetInOrder /\ TypeOK'
  BY TypeStep DEF LightInv, LightIsKnown
\* Without an answer for what the owner holds, and with nothing known of the
\* light.
<1>2. ASSUME known' = None, \A a \in Answers' : a.preimage = held'.preimage => a.next = None /\ a.is_on = None,
             task'.at \notin {"off", "flash", "led"} => is_on' = LoadLed'
      PROVE  LightIsKnown'
  BY <1>2 DEF LightIsKnown, OwnerKnowsLight, AnswerIsCurrent
\* The program
<1>3. CASE \E wifi \in BOOLEAN : Boot(wifi)
  <2>1. /\ task.at = "off" /\ task'.at \in {"pairing", "ble"} /\ is_on' = LoadLed
        /\ nvs'["led_on"] = nvs["led_on"] /\ nvs'["state"] = nvs["state"]
        /\ nvs'["secret_key"] \in {fresh, nvs["secret_key"]}
        /\ UNCHANGED <<held, known, linkVars, relayVars>>
    BY <1>3 DEF Boot, Place, ownerVars, TypeOK, FlashOK, Keys
  <2>2. Answers' \subseteq Answers
    BY <2>1, FewerFrames, FewerAnswers DEF linkVars, relayVars
  <2>3. Stored' = Stored /\ LoadLed' = LoadLed
    BY <2>1 DEF Stored, LoadLed
  <2>4. held # None => held.key # fresh
    BY DEF TypeOK, FlashOK, OwnerOK, Drawn
  <2> QED
    BY <1>1, <2>1, <2>2, <2>3, <2>4 DEF LightIsKnown, OwnerKnowsLight, AnswerIsCurrent
<1>4. ASSUME CreateOwnerInvite \/ GetInviteToken
      PROVE  LightIsKnown'
  <2>1. /\ task.at = "pairing" /\ task'.at = "loop" /\ is_on' = is_on /\ UNCHANGED <<linkVars, relayVars>>
        /\ nvs'["led_on"] = nvs["led_on"]
        /\ known' = None
        /\ held'.preimage = fresh \/ held'.preimage \in invites
    BY <1>4 DEF CreateOwnerInvite, GetInviteToken, ShowToken, Place, memory, TypeOK, FlashOK, Keys
  <2>2. Answers' \subseteq Answers
    BY <2>1, FewerFrames, FewerAnswers DEF linkVars, relayVars
  <2>3. ASSUME NEW a \in Answers', a.preimage = held'.preimage
        PROVE  a.next = None /\ a.is_on = None
    <3>1. a \in Answers /\ a.preimage # fresh
      BY <2>2, <2>3 DEF TypeOK, FlashOK, OwnerOK, Drawn
    <3>2. a.preimage \in Stored.invites
      BY <2>1, <2>3, <3>1, LoadedIsStored DEF TypeOK, MemoryOK, StoredState
    <3> QED
      BY <1>1, <3>1, <3>2 DEF AnsweredIsRetired
  <2>4. is_on' = LoadLed'
    BY <1>1, <2>1 DEF LightIsKnown, LoadLed
  <2> QED
    BY <1>2, <2>1, <2>3, <2>4
<1>5. CASE Paired \/ NoCommand \/ TakeCommand \/ Connect \/ RunConnectionFails \/ ReadTimesOut
  <2>1. /\ UNCHANGED <<nvs, is_on, held, known, uplink, relayVars>>
        /\ task.at \notin {"off", "flash", "led"} /\ task'.at \notin {"off", "led", "write"}
    BY <1>5 DEF Paired, NoCommand, TakeCommand, Connect, RunConnectionFails, ReadTimesOut, Place,
       Flashing, memory, linkVars, ownerVars
  <2>2. Answers' \subseteq Answers
    BY <2>1, FewerFrames, FewerAnswers DEF relayVars
  <2> QED
    BY <1>1, <2>1, <2>2, LightStays
<1>6. CASE Flash
  <2> DEFINE todo == task.todo
  <2>1. /\ task.at = "flash" /\ todo \in Seq(Writes) /\ todo # <<>>
        /\ nvs' = [nvs EXCEPT ![Head(todo)[1]] = Head(todo)[2]]
        /\ UNCHANGED <<held, known>>
    BY <1>6 DEF Flash, TypeOK, TaskOK, ownerVars
  <2>2. Head(todo) = todo[1] /\ 1 \in DOMAIN todo /\ Head(todo) \in Writes
    BY <2>1, TailTypes
  <2>3. task'.at \in {"off", "flash"} /\ (task'.at = "off" \/ is_on' = is_on)
    <3>1. CASE Off
      BY <3>1 DEF Off, Place
    <3>2. CASE task' = Flashing(Tail(todo)) /\ UNCHANGED memory
      BY <3>2 DEF Flashing, memory
    <3> QED
      BY <1>6, <3>1, <3>2 DEF Flash
  <2>4. Answers' \subseteq Answers
    <3>1. ~ RenewPreimage /\ \A d : ~ AcceptHandshake(d) /\ ~ Refuse(d)
      BY <2>1 DEF RenewPreimage, AcceptHandshake, Refuse, Receives
    <3> QED
      BY <3>1, AnswerChanges
  <2>5. CASE nvs'["secret_key"] = None
    <3>1. held # None => held.key # nvs'["secret_key"]
      BY <2>5 DEF TypeOK, OwnerOK, FlashOK, Drawn
    <3> QED
      BY <1>1, <2>1, <2>3, <3>1 DEF LightIsKnown, OwnerKnowsLight, AnswerIsCurrent
  <2>6. CASE nvs'["secret_key"] # None
    <3>1. Head(todo)[1] \notin {"secret_key", "state", "led_on"}
      <4>1. Head(todo)[1] # "secret_key"
        BY <2>1, <2>2, <2>6 DEF Writes, Keys, TypeOK, FlashOK
      <4>2. nvs["secret_key"] # None
        BY <2>1, <2>2, <2>6 DEF Writes, Keys, TypeOK, FlashOK
      <4>3. KeyGoesFirst(todo)
        BY <1>1, <2>1, <4>2 DEF ResetInOrder
      <4>4. 1 .. 1 - 1 = {}
        OBVIOUS
      <4> QED
        BY <2>2, <4>1, <4>3, <4>4 DEF KeyGoesFirst
    <3>2. /\ nvs'["led_on"] = nvs["led_on"] /\ nvs'["state"] = nvs["state"]
          /\ nvs'["secret_key"] = nvs["secret_key"]
      BY <2>1, <2>2, <3>1 DEF Writes, Keys, TypeOK, FlashOK
    <3>3. Stored' = Stored /\ LoadLed' = LoadLed
      BY <3>2 DEF Stored, LoadLed
    <3> QED
      BY <1>1, <2>1, <2>3, <2>4, <3>2, <3>3 DEF LightIsKnown, OwnerKnowsLight, AnswerIsCurrent
  <2> QED
    BY <2>5, <2>6
\* A message received
<1>7. ASSUME NEW d, AcceptHandshake(d)
      PROVE  LightIsKnown'
  <2>1. /\ task.at = "receive" /\ task'.at = "write" /\ UNCHANGED <<is_on, held, known>>
        /\ nvs'["led_on"] = nvs["led_on"] /\ nvs'["secret_key"] = nvs["secret_key"]
        /\ d.preimage \in invites /\ peers' = peers \cup {fresh}
    BY <1>7 DEF AcceptHandshake, Receives, Writing, ownerVars, TypeOK, FlashOK, Keys
  <2>2. LoadLed' = LoadLed /\ Stored.peers = peers /\ Stored'.peers = peers'
    BY <1>1, <2>1 DEF LoadLed, TypeOK, MemoryOK, StoredState
  <2>3. Answers' \subseteq Answers \cup {Ack(d.preimage, fresh, None)}
    <3>1. /\ ~ RenewPreimage /\ \A e : ~ Refuse(e) /\ (AcceptHandshake(e) => e = d)
      BY <1>7, <2>1 DEF RenewPreimage, AcceptHandshake, Refuse, Receives
    <3> QED
      BY <3>1, AnswerChanges
  <2>4. ASSUME held # None, held.key = nvs["secret_key"], NEW a \in Answers', a.preimage = held.preimage
        PROVE  /\ a.next # None => a.next \in Stored'.peers
               /\ a.is_on # None => LoadLed = a.is_on /\ is_on = a.is_on
    <3>1. CASE a \in Answers
      BY <1>1, <2>1, <2>2, <2>4, <3>1 DEF LightIsKnown, AnswerIsCurrent
    <3>2. CASE a = Ack(d.preimage, fresh, None)
      BY <2>1, <2>2, <3>2 DEF Ack
    <3> QED
      BY <2>3, <2>4, <3>1, <3>2
  <2> QED
    BY <1>1, <2>1, <2>2, <2>4 DEF LightIsKnown, OwnerKnowsLight, AnswerIsCurrent
<1>8. ASSUME NEW d, Refuse(d)
      PROVE  LightIsKnown'
  <2>1. /\ task.at = "receive" /\ task'.at = "write" /\ UNCHANGED <<nvs, is_on, held, known>>
    BY <1>8 DEF Refuse, Receives, Writing, ownerVars, memory
  <2>2. LoadLed' = LoadLed /\ Stored' = Stored
    BY <2>1 DEF LoadLed, Stored
  <2>3. Answers' \subseteq Answers \cup {Ack(d.preimage, None, None)}
    <3>1. /\ ~ RenewPreimage /\ \A e : ~ AcceptHandshake(e) /\ (Refuse(e) => e = d)
      BY <1>8, <2>1 DEF RenewPreimage, AcceptHandshake, Refuse, Receives
    <3> QED
      BY <3>1, AnswerChanges
  <2>4. Ack(d.preimage, None, None).next = None /\ Ack(d.preimage, None, None).is_on = None
    BY DEF Ack
  <2>5. AnswerIsCurrent'
    BY <1>1, <2>1, <2>2, <2>3, <2>4 DEF LightIsKnown, AnswerIsCurrent
  <2> QED
    BY <1>1, <2>1, <2>2, <2>5 DEF LightIsKnown, OwnerKnowsLight
<1>9. ASSUME NEW d, SwitchLight(d)
      PROVE  LightIsKnown'
  <2>1. /\ task'.at = "led" /\ known' = None /\ UNCHANGED <<nvs, held>> /\ uplink' = uplink
        /\ response_cache' = response_cache
    BY <1>9 DEF SwitchLight, Command, relayVars
  <2>2. /\ d.preimage \in Stored.peers /\ held # None /\ held.preimage = d.preimage
    <3>1. /\ task.at = "receive" /\ d.preimage \in peers /\ d.preimage \in Stored.peers
          /\ \E i \in DOMAIN downlink : downlink[i] = d
      BY <1>9, CommandBegins
    <3> QED
      BY <1>1, <3>1 DEF CommandsAreHeld
  <2>3. Answers' \subseteq Answers
    BY <2>1, FewerFrames, FewerAnswers
  <2>4. \A a \in Answers' : a.preimage = held'.preimage => a.next = None /\ a.is_on = None
    BY <1>1, <2>1, <2>2, <2>3 DEF AnsweredIsRetired
  <2> QED
    BY <1>2, <2>1, <2>4
<1>10. CASE \E d : ReadStatus(d)
  <2>1. /\ task.at = "receive" /\ task'.at = "renew" /\ UNCHANGED <<nvs, is_on, held, known>>
        /\ uplink' = uplink /\ response_cache' = response_cache
    BY <1>10 DEF ReadStatus, Receives, Command, relayVars, ownerVars, memory
  <2>2. Answers' \subseteq Answers
    BY <2>1, FewerFrames, FewerAnswers
  <2> QED
    BY <1>1, <2>1, <2>2, LightStays
<1>11. CASE SaveLedState
  <2>1. /\ task.at = "led" /\ task'.at = "renew" /\ UNCHANGED <<is_on, held, known>>
        /\ uplink' = uplink /\ response_cache' = response_cache
        /\ nvs'["led_on"] = is_on /\ is_on \in BOOLEAN
        /\ nvs'["state"] = nvs["state"] /\ nvs'["secret_key"] = nvs["secret_key"]
    BY <1>11 DEF SaveLedState, Command, relayVars, linkVars, ownerVars, memory, TypeOK, FlashOK,
       MemoryOK, Keys
  <2>2. LoadLed' = is_on
    BY <2>1 DEF LoadLed
  <2>3. Stored' = Stored
    BY <2>1 DEF Stored
  <2>4. Answers' \subseteq Answers
    BY <2>1, FewerFrames, FewerAnswers
  <2>5. AnswerIsCurrent'
    BY <1>1, <2>1, <2>2, <2>3, <2>4 DEF LightIsKnown, AnswerIsCurrent
  <2> QED
    BY <1>1, <2>1, <2>2, <2>5 DEF LightIsKnown, OwnerKnowsLight
<1>12. CASE RenewPreimage
  <2>1. /\ task.at = "renew" /\ task'.at = "write" /\ UNCHANGED <<is_on, held, known>>
        /\ nvs'["led_on"] = nvs["led_on"] /\ nvs'["secret_key"] = nvs["secret_key"]
        /\ peers' = (peers \ {task.preimage}) \cup {fresh}
    BY <1>12 DEF RenewPreimage, Writing, ownerVars, TypeOK, FlashOK, Keys
  <2>2. LoadLed' = LoadLed /\ Stored.peers = peers /\ Stored'.peers = peers' /\ is_on = LoadLed
    BY <1>1, <2>1 DEF LoadLed, TypeOK, MemoryOK, StoredState, LightIsKnown
  <2>3. Answers' \subseteq Answers \cup {Ack(task.preimage, fresh, is_on)}
    <3>1. \A e : ~ AcceptHandshake(e) /\ ~ Refuse(e)
      BY <2>1 DEF AcceptHandshake, Refuse, Receives
    <3> QED
      BY <3>1, AnswerChanges
  <2>4. held # None /\ held.preimage = task.preimage /\ task.preimage \in Stored.peers
    BY <1>1, <2>1, <2>2 DEF CommandsAreHeld, TypeOK, TaskOK
  <2>5. ASSUME NEW a \in Answers', a.preimage = held.preimage
        PROVE  /\ a.next # None => a.next \in Stored'.peers
               /\ a.is_on # None => LoadLed = a.is_on /\ is_on = a.is_on
    <3>1. CASE a \in Answers
      BY <1>1, <2>4, <2>5, <3>1 DEF AnsweredIsRetired
    <3>2. CASE a = Ack(task.preimage, fresh, is_on)
      BY <2>1, <2>2, <3>2 DEF Ack
    <3> QED
      BY <2>3, <3>1, <3>2
  <2> QED
    BY <1>1, <2>1, <2>2, <2>5 DEF LightIsKnown, OwnerKnowsLight, AnswerIsCurrent
\* The environment
<1>13. CASE OwnerIsAnswered
  <2> DEFINE p == held.preimage
             r == response_cache[p]
  <2>1. /\ held # None /\ p \in DOMAIN response_cache
        /\ response_cache' = Drop(response_cache, p)
        /\ held' = IF r.next = None THEN held ELSE [key |-> held.key, preimage |-> r.next]
        /\ known' = IF r.is_on = None THEN known ELSE r.is_on
        /\ UNCHANGED <<nvs, is_on, task, linkVars>>
    BY <1>13 DEF OwnerIsAnswered, memory
  <2>2. Answers' \subseteq Answers
    BY <2>1, FewerFrames, FewerAnswers DEF linkVars, Drop, Restrict
  <2>3. LoadLed' = LoadLed /\ Stored' = Stored
    BY <2>1 DEF LoadLed, Stored
  <2>4. /\ r.is_on # None => r.next # None
        /\ r.next # None => p \notin Stored.peers
        /\ held.key = nvs["secret_key"] =>
             /\ r.next # None => r.next \in Stored.peers
             /\ r.is_on # None => LoadLed = r.is_on /\ (~ At("off") => is_on = r.is_on)
    <3>1. Ack(p, r.next, r.is_on) \in Answers
      BY <2>1 DEF Answers
    <3>2. /\ Ack(p, r.next, r.is_on).preimage = p /\ Ack(p, r.next, r.is_on).next = r.next
          /\ Ack(p, r.next, r.is_on).is_on = r.is_on
      BY DEF Ack
    <3> HIDE DEF p, r
    <3>3. held # None /\ p = held.preimage
      BY <2>1 DEF p
    <3> QED
      BY <1>1, <3>1, <3>2, <3>3 DEF AnsweredIsRetired, LightIsKnown, AnswerIsCurrent
  <2>5. CASE r.next = None
    BY <1>1, <2>1, <2>2, <2>4, <2>5, LightStays
  <2>6. CASE r.next # None
    <3>1. held' = [key |-> held.key, preimage |-> r.next] /\ held' # None
      <4>1. held' = [key |-> held.key, preimage |-> r.next]
        BY <2>1, <2>6
      <4>2. held.key \in Drawn /\ r.next \in Drawn
        <5>1. Ack(p, r.next, r.is_on) \in Answers
          BY <2>1 DEF Answers
        <5>2. Ack(p, r.next, r.is_on).next = r.next
          BY DEF Ack
        <5> HIDE DEF r, p
        <5> QED
          BY <2>1, <2>6, <5>1, <5>2 DEF TypeOK, OwnerOK
      <4>3. [key |-> held.key, preimage |-> r.next] \in [key : Nat, preimage : Nat]
        BY <4>2 DEF Drawn
      <4>4. None \notin [key : Nat, preimage : Nat]
        OBVIOUS
      <4> QED
        BY <4>1, <4>3, <4>4
    <3>2. held'.key = held.key /\ held'.preimage = r.next
      BY <3>1
    <3> HIDE DEF p, r
    <3>3. CASE held.key = nvs["secret_key"]
      <4>1. r.next \in Stored.peers
        BY <2>4, <2>6, <3>3
      <4>2. \A a \in Answers : a.preimage = held'.preimage => a.next = None /\ a.is_on = None
        BY <1>1, <3>2, <4>1 DEF AnsweredIsRetired
      <4>3. known' # None => LoadLed = known' /\ (~ At("off") => is_on = known')
        <5>1. CASE r.is_on = None
          BY <1>1, <2>1, <3>3, <5>1 DEF LightIsKnown, OwnerKnowsLight
        <5>2. CASE r.is_on # None
          BY <2>1, <2>4, <3>3, <5>2
        <5> QED
          BY <5>1, <5>2
      <4>4. task.at # "led"
        BY <1>1, <2>1, <2>4, <2>6 DEF CommandsAreHeld, TypeOK, MemoryOK, TaskOK, StoredState, p
      <4> QED
        BY <1>1, <2>1, <2>2, <2>3, <3>1, <3>2, <4>1, <4>2, <4>3, <4>4
        DEF LightIsKnown, OwnerKnowsLight, AnswerIsCurrent
    <3>4. CASE held.key # nvs["secret_key"]
      BY <1>1, <2>1, <2>3, <3>1, <3>2, <3>4 DEF LightIsKnown, OwnerKnowsLight, AnswerIsCurrent
    <3> QED
      BY <3>3, <3>4
  <2> QED
    BY <2>5, <2>6
<1>14. CASE PowerLost
  <2>1. task'.at = "off" /\ UNCHANGED <<nvs, held, known>>
    BY <1>14 DEF PowerLost, Off, Place, ownerVars
  <2>2. Answers' \subseteq Answers
    <3>1. uplink' = <<>> /\ response_cache' = response_cache
      BY <1>14 DEF PowerLost, LinkDown
    <3> QED
      BY <2>1, <3>1, MovedFrames, FewerAnswers DEF TypeOK, LinkOK
  <2> QED
    BY <1>1, <2>1, <2>2, LightStays
\* A step by which nothing moves but frames.
<1>15. ASSUME UNCHANGED <<nvs, is_on, held, known>>, Answers' \subseteq Answers,
              task' = task \/ {task.at, task'.at} \cap {"off", "flash", "led"} = {}
       PROVE  LightIsKnown'
  <2>1. LoadLed' = LoadLed /\ Stored' = Stored
    BY <1>15 DEF LoadLed, Stored
  <2> QED
    BY <1>1, <1>15, <2>1 DEF LightIsKnown, OwnerKnowsLight, AnswerIsCurrent
<1>16. CASE WriteFrame \/ SignIn
  <2>1. /\ UNCHANGED <<nvs, is_on, held, known>> /\ {task.at, task'.at} \cap {"off", "flash", "led"} = {}
        /\ task.at \in {"write", "hello"}
    BY <1>16 DEF WriteFrame, SignIn, Place, Writing, memory, ownerVars
  <2>2. Answers' \subseteq Answers
    <3>1. ~ RenewPreimage /\ \A d : ~ AcceptHandshake(d) /\ ~ Refuse(d)
      BY <2>1 DEF RenewPreimage, AcceptHandshake, Refuse, Receives
    <3> QED
      BY <3>1, AnswerChanges
  <2> QED
    BY <1>15, <2>1, <2>2
<1>17. CASE \/ BleClient \/ RelayStep \/ Disconnect \/ UNCHANGED vars
            \/ (\E payload \in Payloads : OwnerSends(payload))
            \/ (\E p \in DOMAIN response_cache : Expire(p))
  <2>1. UNCHANGED <<nvs, is_on, held, known, task, fresh>>
    BY <1>17 DEF BleClient, WriteSsid, WritePassword, WriteReset, WriteProvision, RelayStep,
       RegisterFrame, CommitsFrame, AckFrame, Disconnect, vars, OwnerSends, Expire, memory, ownerVars,
       historyVars
  <2>2. Answers' \subseteq Answers
    <3>1. ~ RenewPreimage
      BY <2>1 DEF RenewPreimage, TypeOK, FlashOK
    <3>2. ~ \E d : AcceptHandshake(d) \/ Refuse(d)
      BY <2>1 DEF AcceptHandshake, Refuse, Receives, Writing
    <3> QED
      BY <3>1, <3>2, AnswerChanges
  <2> QED
    BY <1>15, <2>1, <2>2
<1>18. CASE Program
  BY <1>3, <1>4, <1>5, <1>6, <1>7, <1>8, <1>9, <1>10, <1>11, <1>12, <1>16, <1>18 DEF Program, Handle
<1> QED
  BY <1>13, <1>14, <1>16, <1>17, <1>18 DEF Next, Owner

LEMMA LightKept == FairSpec => []LightInv
<1>1. Init => OneRecord /\ LightInv
  <2> SUFFICES ASSUME Init PROVE OneRecord /\ LightInv
    OBVIOUS
  <2> USE DEF Init, Place, At
  <2>1. OneRecord
    BY DEF OneRecord, Stored, NoState, StoredState, Keys
  <2>2. Answers = {}
    BY DEF Answers, Frames, EmptyMap
  <2>3. KeyGoesFirst(ble.command)
    BY DEF KeyGoesFirst, NoBle
  <2> QED
    BY <2>1, <2>2, <2>3 DEF LightInv, OwnerKnowsLight, ResetInOrder, AnsweredIsRetired,
       CommandsAreHeld, AnswerIsCurrent
<1>2. TypeOK /\ OneRecord /\ [Next]_vars => OneRecord'
  BY RecordStep
<1>3. TypeOK /\ OneRecord /\ LightInv /\ [Next]_vars => LightInv'
  <2> SUFFICES ASSUME TypeOK, OneRecord, LightInv, [Next]_vars
               PROVE  LightInv'
    OBVIOUS
  <2>1. ResetInOrder' /\ AnsweredIsRetired' /\ CommandsAreHeld' /\ LightIsKnown'
    BY OrderStep, RetiredStep, HeldStep, LightStep DEF LightInv
  <2> QED
    BY <2>1 DEF LightInv, LightIsKnown
<1> QED
  BY <1>1, <1>2, <1>3, SwitchTypes, PTL DEF FairSpec

\* What the owner was last told of the light is true, through restarts and
\* losses of power at any point, and through a reset in any place.
THEOREM SwitchKnowsLight == FairSpec => []OwnerKnowsLight
<1>1. LightInv => OwnerKnowsLight
  BY DEF LightInv
<1> QED
  BY <1>1, LightKept, PTL

(***************************************************************************)
(* The owner stays in touch                                                *)
(***************************************************************************)

\* As long as the owner, the key and the state are the same, it is the loss of
\* the answer that ends the touch.
LEMMA TouchStays ==
  ASSUME InTouch, held' = held, Stored' = Stored, nvs'["secret_key"] = nvs["secret_key"]
  PROVE  InTouch' \/ \E p \in {held.preimage} :
                       held' = held /\ ReplyExists(p) /\ ~ ReplyExists(p)'
<1>1. PICK p : p = held.preimage
  OBVIOUS
<1>2. /\ held' # None /\ held'.key = nvs'["secret_key"] /\ held'.preimage = p
      /\ p \in Stored.invites \cup Stored.peers \/ ReplyExists(p)
  BY <1>1 DEF InTouch
<1>3. CASE p \in Stored.invites \cup Stored.peers
  <2>1. held'.preimage \in Stored'.invites \cup Stored'.peers
    BY <1>2, <1>3
  <2> QED
    BY <1>2, <2>1 DEF InTouch
<1>4. CASE ReplyExists(p) /\ ~ ReplyExists(p)'
  BY <1>1, <1>4
<1>5. CASE ReplyExists(p)'
  BY <1>2, <1>5 DEF InTouch, ReplyExists
<1> QED
  BY <1>2, <1>3, <1>4, <1>5

\* A step that only adds frames keeps the answers.
LEMMA ReplyStays ==
  ASSUME NEW p, ReplyExists(p), ~ At("write"), uplink' = uplink, response_cache' = response_cache
  PROVE  ReplyExists(p)'
BY DEF ReplyExists, Frames

LEMMA TouchStep ==
  ASSUME TypeOK, LightInv, [Next]_vars, InTouch,
         ~ (At("flash") /\ Head(task.todo)[1] = "secret_key")
  PROVE  InTouch' \/ \E p \in {held.preimage} :
                       held' = held /\ ReplyExists(p) /\ ~ ReplyExists(p)'
<1> DEFINE Goal == InTouch' \/ \E p \in {held.preimage} :
                                 held' = held /\ ReplyExists(p) /\ ~ ReplyExists(p)'
<1>1. PICK p : p = held.preimage
  OBVIOUS
<1>2. TypeOK'
  BY TypeStep
<1>3. /\ held # None /\ held \in [key : Drawn, preimage : Drawn] /\ held.key = nvs["secret_key"]
      /\ p \in Stored.invites \cup Stored.peers \/ ReplyExists(p)
  BY <1>1 DEF InTouch, TypeOK, OwnerOK
<1>4. nvs["secret_key"] # None /\ DOMAIN nvs = Keys
  <2>1. Drawn \subseteq Nat
    BY DEF Drawn, TypeOK, FlashOK
  <2> QED
    BY <1>3, <2>1, SwitchAssumption DEF TypeOK, FlashOK
<1>5. ASSUME held' = held, nvs' = nvs
      PROVE  Goal
  BY <1>5, TouchStays DEF Stored
<1>6. ASSUME NEW wifi, Boot(wifi)
      PROVE  Goal
  <2>1. held' = held /\ nvs' = [nvs EXCEPT !["secret_key"] = nvs["secret_key"]]
    BY <1>4, <1>6 DEF Boot, ownerVars
  <2>2. nvs'["secret_key"] = nvs["secret_key"] /\ nvs'["state"] = nvs["state"]
    BY <1>4, <2>1 DEF Keys
  <2> QED
    BY <2>1, <2>2, TouchStays DEF Stored
<1>7. ASSUME NEW q \in Nat, held' = [key |-> key, preimage |-> q], key = nvs["secret_key"],
             nvs'["secret_key"] = nvs["secret_key"], q \in Stored'.invites \cup Stored'.peers
      PROVE  InTouch'
  <2>1. held' \in [key : Nat, preimage : Nat]
    BY <1>3, <1>7 DEF Drawn, TypeOK, FlashOK
  <2>2. held' # None
    BY <2>1, SwitchAssumption
  <2> QED
    BY <1>7, <2>2 DEF InTouch
<1>8. CASE CreateOwnerInvite
  <2>1. /\ task.at = "pairing" /\ held' = [key |-> key, preimage |-> fresh]
        /\ nvs' = [nvs EXCEPT !["state"] = StoredState({fresh}, peers, address)]
        /\ invites' = {fresh} /\ task'.at = "loop"
    BY <1>8 DEF CreateOwnerInvite, ShowToken, At, Place
  <2>2. key = nvs["secret_key"] /\ nvs'["secret_key"] = nvs["secret_key"] /\ fresh \in Nat
    BY <1>4, <2>1 DEF TypeOK, MemoryOK, FlashOK, Keys
  <2>3. fresh \in Stored'.invites
    BY <1>2, <2>1 DEF TypeOK, MemoryOK, StoredState
  <2> QED
    BY <1>7, <2>1, <2>2, <2>3
<1>9. CASE GetInviteToken
  <2>1. PICK q \in invites : held' = [key |-> key, preimage |-> q]
    BY <1>9 DEF GetInviteToken, ShowToken
  <2>2. task.at = "pairing" /\ nvs' = nvs
    BY <1>9 DEF GetInviteToken, At
  <2>3. /\ key = nvs["secret_key"] /\ Stored.invites = invites /\ q \in Nat
        /\ Stored' = Stored
    BY <2>1, <2>2, LoadedIsStored DEF TypeOK, MemoryOK, FlashOK, Drawn, StoredState, Stored
  <2> QED
    BY <1>7, <2>1, <2>2, <2>3
<1>10. ASSUME NEW q, NEW next \in Nat, NEW frames, NEW i \in DOMAIN frames, NEW light,
              frames[i] = Ack(q, next, light), task' = Writing(frames),
              p = q \/ p \in Stored'.invites \cup Stored'.peers \/ ReplyExists(p)',
              held' = held, nvs'["secret_key"] = nvs["secret_key"]
       PROVE  InTouch'
  <2>1. next # None
    BY <1>10, SwitchAssumption
  <2>2. CASE p = q
    <3>1. frames[i] \in Frames'
      BY <1>10 DEF Frames, At, Writing
    <3>2. frames[i].type = "ACK" /\ frames[i].preimage = p /\ frames[i].next # None
      BY <1>10, <2>1, <2>2 DEF Ack
    <3>3. ReplyExists(p)'
      BY <3>1, <3>2 DEF ReplyExists
    <3> QED
      BY <1>1, <1>3, <1>10, <3>3 DEF InTouch, ReplyExists
  <2> QED
    BY <1>1, <1>3, <1>10, <2>2 DEF InTouch, ReplyExists
<1>11. ASSUME NEW d, AcceptHandshake(d)
       PROVE  Goal
  <2>1. /\ task.at = "receive" /\ held' = held /\ uplink' = uplink
        /\ response_cache' = response_cache /\ invites' = invites \ {d.preimage}
        /\ peers' = peers \cup {fresh}
        /\ nvs' = [nvs EXCEPT !["state"] = StoredState(invites', peers', address')]
        /\ task' = Writing(<<Ack(d.preimage, fresh, None), UpdateCommits({fresh})>>)
    BY <1>11 DEF AcceptHandshake, Receives, At, ownerVars, relayVars
  <2>2. /\ Stored.invites = invites /\ Stored.peers = peers
        /\ Stored'.invites = invites' /\ Stored'.peers = peers'
    BY <1>2, <2>1 DEF TypeOK, MemoryOK, Writing, StoredState
  <2>3. ReplyExists(p) => ReplyExists(p)'
    BY <2>1, ReplyStays DEF At
  <2>4. p = d.preimage \/ p \in Stored'.invites \cup Stored'.peers \/ ReplyExists(p)'
    BY <1>3, <2>1, <2>2, <2>3
  <2>5. nvs'["secret_key"] = nvs["secret_key"] /\ fresh \in Nat
    BY <1>4, <2>1 DEF TypeOK, FlashOK, Keys
  <2> QED
    BY <1>10, <2>1, <2>4, <2>5
<1>12. CASE RenewPreimage
  <2>1. /\ task.at = "renew" /\ held' = held /\ uplink' = uplink
        /\ response_cache' = response_cache /\ invites' = invites
        /\ peers' = (peers \ {task.preimage}) \cup {fresh}
        /\ nvs' = [nvs EXCEPT !["state"] = StoredState(invites, peers', address)]
        /\ task' = Writing(<<UpdateCommits({fresh}), Ack(task.preimage, fresh, is_on)>>)
    BY <1>12 DEF RenewPreimage, At, ownerVars, relayVars, linkVars
  <2>2. /\ Stored.invites = invites /\ Stored.peers = peers
        /\ Stored'.invites = invites' /\ Stored'.peers = peers'
    BY <1>2, <2>1 DEF TypeOK, MemoryOK, Writing, StoredState
  <2>3. ReplyExists(p) => ReplyExists(p)'
    BY <2>1, ReplyStays DEF At
  <2>4. p = task.preimage \/ p \in Stored'.invites \cup Stored'.peers \/ ReplyExists(p)'
    BY <1>3, <2>1, <2>2, <2>3
  <2>5. nvs'["secret_key"] = nvs["secret_key"] /\ fresh \in Nat
    BY <1>4, <2>1 DEF TypeOK, FlashOK, Keys
  <2> QED
    BY <1>10, <2>1, <2>4, <2>5
<1>13. CASE SaveLedState
  <2>1. held' = held /\ nvs' = [nvs EXCEPT !["led_on"] = is_on]
    BY <1>13 DEF SaveLedState, ownerVars
  <2>2. nvs'["secret_key"] = nvs["secret_key"] /\ Stored' = Stored
    BY <1>4, <2>1 DEF Stored, Keys
  <2> QED
    BY <2>1, <2>2, TouchStays
<1>14. CASE OwnerIsAnswered
  <2>1. PICK r : r = response_cache[p]
    OBVIOUS
  <2>2. /\ p \in DOMAIN response_cache /\ nvs' = nvs
        /\ held' = IF r.next = None THEN held ELSE [key |-> held.key, preimage |-> r.next]
    BY <1>1, <1>14, <2>1 DEF OwnerIsAnswered
  <2>3. CASE r.next = None
    BY <1>5, <2>2, <2>3
  <2>4. CASE r.next # None
    <3>1. PICK a : a = Ack(p, r.next, r.is_on)
      OBVIOUS
    <3>2. a \in Answers /\ a.preimage = p /\ a.next = r.next
      BY <2>1, <2>2, <3>1 DEF Answers, Ack
    <3>3. r.next \in Stored.peers /\ r.next \in Drawn
      BY <1>1, <1>3, <2>4, <3>2 DEF LightInv, AnswerIsCurrent, TypeOK, OwnerOK
    <3>4. held' \in [key : Nat, preimage : Nat]
      BY <1>3, <2>2, <2>4, <3>3 DEF Drawn, TypeOK, FlashOK
    <3>5. held' # None
      BY <3>4, SwitchAssumption
    <3>6. Stored' = Stored
      BY <2>2 DEF Stored
    <3> QED
      BY <1>3, <2>2, <2>4, <3>3, <3>5, <3>6 DEF InTouch
  <2> QED
    BY <2>3, <2>4
<1>15. CASE \/ Paired \/ TakeCommand \/ NoCommand \/ Connect \/ RunConnectionFails \/ ReadTimesOut
            \/ WriteFrame \/ SignIn \/ Disconnect \/ PowerLost
            \/ (\E d : Refuse(d) \/ SwitchLight(d) \/ ReadStatus(d))
  <2>1. held' = held /\ nvs' = nvs
    BY <1>15 DEF Paired, TakeCommand, NoCommand, Connect, RunConnectionFails, ReadTimesOut, WriteFrame,
       SignIn, Disconnect, PowerLost, Refuse, SwitchLight, ReadStatus, ownerVars
  <2> QED
    BY <1>5, <2>1
<1>16. CASE \/ BleClient \/ RelayStep \/ UNCHANGED vars
            \/ (\E payload \in Payloads : OwnerSends(payload))
            \/ (\E q \in DOMAIN response_cache : Expire(q))
  <2>1. held' = held /\ nvs' = nvs
    BY <1>16 DEF BleClient, WriteSsid, WritePassword, WriteReset, WriteProvision, RelayStep,
       RegisterFrame, CommitsFrame, AckFrame, vars, OwnerSends, Expire, ownerVars
  <2> QED
    BY <1>5, <2>1
\* The state is removed after the key, and a provision removes neither.
<1>17. CASE Flash
  <2> DEFINE todo == task.todo
  <2>1. /\ task.at = "flash" /\ todo \in Seq(Writes) /\ todo # <<>>
        /\ nvs' = [nvs EXCEPT ![Head(todo)[1]] = Head(todo)[2]] /\ held' = held
    BY <1>17 DEF Flash, At, TypeOK, TaskOK, ownerVars
  <2>2. Head(todo) = todo[1] /\ 1 \in DOMAIN todo /\ Head(todo) \in Writes
    BY <2>1, TailTypes
  <2>3. KeyGoesFirst(todo)
    BY <1>4, <2>1 DEF LightInv, ResetInOrder, At
  <2>4. todo[1][1] \notin {"state", "led_on"}
    BY <2>2, <2>3 DEF KeyGoesFirst
  <2>5. Head(todo)[1] \notin {"state", "secret_key"}
    BY <2>1, <2>2, <2>4 DEF At
  <2>6. nvs'["secret_key"] = nvs["secret_key"] /\ nvs'["state"] = nvs["state"]
    BY <1>4, <2>1, <2>5 DEF Keys
  <2> QED
    BY <2>1, <2>6, TouchStays DEF Stored
<1>18. CASE Program
  BY <1>6, <1>8, <1>9, <1>11, <1>12, <1>13, <1>15, <1>17, <1>18 DEF Program, Handle
<1> QED
  BY <1>14, <1>15, <1>16, <1>18 DEF Next, Owner

\* Power lost at any point does not lock the owner out: whatever breaks, the
\* owner can go on until an answer on its way to it is lost, or a reset comes to
\* the key.
THEOREM SwitchStaysInTouch == FairSpec => StaysInTouch
<1>1. TypeOK /\ LightInv /\ [Next]_vars =>
        [InTouch => \/ InTouch'
                    \/ At("flash") /\ Head(task.todo)[1] = "secret_key"
                    \/ \E p \in {held.preimage} :
                         held' = held /\ ReplyExists(p) /\ ~ ReplyExists(p)']_vars
  BY TouchStep
<1> QED
  BY <1>1, SwitchTypes, LightKept, PTL DEF FairSpec, StaysInTouch

=============================================================================
