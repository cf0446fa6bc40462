----------------------------- MODULE Esp32Switch -----------------------------
(***************************************************************************)
(* The firmware of the smart switch (examples/esp32-smart-switch): what it *)
(* keeps in flash and in memory, its one loop, and the BLE callbacks that  *)
(* leave commands to it.  Power can be lost between any two writes to      *)
(* flash.                                                                  *)
(*                                                                         *)
(* The firmware makes owner invites only, so that every peer is an owner,  *)
(* the refusals of a reader's commands cannot happen, and a peer is the    *)
(* preimage it was issued.  Its owner is one caller that may send          *)
(* anything; the relay is what the two can tell of it (Relay models it).   *)
(*                                                                         *)
(* The state is written whole and read into a buffer.  The unit of its     *)
(* size is a record without the relay address that a peer may bring along. *)
(***************************************************************************)
EXTENDS Integers, Sequences, FiniteSets, Maps

CONSTANTS
  Networks,   \* WiFi networks; each stands for its ssid and its password
  Payloads,   \* what the owner sends
  Addresses,  \* sizes of the relay address in a HANDSHAKE_INIT, 0 for none
  Buffer,     \* size of load_state's buffer
  None,
  MaxFresh    \* bound: keys and preimages drawn before the last reset or call

Switching == {"on", "off", "toggle"}

ASSUME SwitchAssumption ==
  /\ Payloads \subseteq Switching \cup {"status", "HANDSHAKE_INIT", "invalid"}
  /\ Addresses \subseteq Nat
  /\ Buffer \in Nat \ {0}
  /\ MaxFresh \in Nat
  /\ None \notin Networks \cup Nat \cup BOOLEAN
  /\ None \notin [invites : SUBSET Nat, peers : SUBSET Nat, address : Nat]
  /\ None \notin [key : Nat, preimage : Nat]

VARIABLES
  nvs,             \* flash: key -> value
  key,             \* secret_key, in memory
  invites, peers,  \* StoredState, in memory: the preimages issued
  address,         \* and the size of the relay addresses of the peers
  is_on,           \* IS_ON and the LED
  ble,             \* BleState: [ssid, password, command]
  task,            \* where the program is
  \* the connection
  link,            \* is it up
  uplink,          \* frames the relay has not handled
  downlink,        \* deliveries the firmware has not received
  \* the relay
  commits,         \* preimages whose commit is registered for this connection
  response_cache,  \* preimage -> response
  \* the owner
  held,            \* the token or preimage it uses next: [key, preimage]
  known,           \* what it was told of the light, and has not changed since
  \* history
  fresh,           \* the next value rand::random returns
  executed,        \* preimages whose command was executed
  refused          \* preimages of refused messages since the last sign-in

memory     == <<key, invites, peers, address, is_on>>
linkVars   == <<link, uplink, downlink>>
relayVars  == <<commits, response_cache>>
ownerVars  == <<held, known>>
historyVars == <<fresh, executed, refused>>
vars == <<nvs, memory, ble, task, linkVars, relayVars, ownerVars, historyVars>>

------------------------------------------------------------------------------
(***************************************************************************)
(* Data                                                                    *)
(***************************************************************************)

Keys == {"secret_key", "state", "led_on", "wifi_ssid", "wifi_pass"}

StoredState(is, ps, size) == [invites |-> is, peers |-> ps, address |-> size]
NoState     == StoredState({}, {}, 0)
Size(state) == Cardinality(state.invites \cup state.peers) + state.address

\* What is in flash, and what load_state makes of it: a state that is larger
\* than the buffer is no state.
Stored    == IF nvs["state"] = None THEN NoState ELSE nvs["state"]
LoadState == IF Size(Stored) > Buffer THEN NoState ELSE Stored

\* load_led_state, load_wifi_credentials
LoadLed        == nvs["led_on"] = TRUE
HasCredentials == nvs["wifi_ssid"] # None /\ nvs["wifi_pass"] # None

NoBle == [ssid |-> None, password |-> None, command |-> <<>>]

\* Commands to the main loop: the writes to flash they lead to.
Reset == << <<"wifi_ssid", None>>, <<"wifi_pass", None>>, <<"secret_key", None>>,
            <<"state", None>>, <<"led_on", None>> >>
Provision(ssid, password) == << <<"wifi_ssid", ssid>>, <<"wifi_pass", password>> >>
Writes == ({"wifi_ssid", "wifi_pass"} \X (Networks \cup {None})) \cup (Keys \X {None})

\* Fault: the commits of the peers are left out.
GetCommits_invites == invites

\* get_commits
GetCommits == invites \cup peers

\* Frames.  A response tells the light, if it is about the light, and has the
\* next preimage appended, unless the message was refused.
IAm(ps)           == [type |-> "I_AM", commits |-> ps]
UpdateCommits(ps) == [type |-> "UPDATE_COMMITS", commits |-> ps]
Ack(p, next, light) ==
  [type |-> "ACK", preimage |-> p, next |-> next, is_on |-> light]

Frame == [type : {"I_AM", "UPDATE_COMMITS"}, commits : SUBSET Nat]
           \cup [type : {"ACK"}, preimage : Nat, next : Nat \cup {None},
                 is_on : BOOLEAN \cup {None}]
Delivery == [preimage : Nat, payload : Payloads]

Place(at)       == [at |-> at]
Flashing(todo)  == [at |-> "flash", todo |-> todo]
Command(at, d)  == [at |-> at, preimage |-> d.preimage, cmd |-> d.payload]
Writing(frames) == [at |-> "write", frames |-> frames]

At(at) == task.at = at
\* The program holds a connection it has signed in on.
ServingPlaces == {"poll", "receive", "led", "renew", "write"}
Serving == task.at \in ServingPlaces

Off ==
  /\ task' = Place("off")
  /\ key' = None /\ invites' = {} /\ peers' = {} /\ address' = 0 /\ is_on' = FALSE
  /\ ble' = NoBle

LinkDown ==
  link' = FALSE /\ uplink' = <<>> /\ downlink' = <<>> /\ commits' = {}

Init ==
  /\ nvs = [k \in Keys |-> None]
  /\ key = None /\ invites = {} /\ peers = {} /\ address = 0 /\ is_on = FALSE
  /\ ble = NoBle
  /\ task = Place("off")
  /\ link = FALSE /\ uplink = <<>> /\ downlink = <<>>
  /\ commits = {} /\ response_cache = EmptyMap
  /\ held = None /\ known = None
  /\ fresh = 1 /\ executed = {} /\ refused = {}

------------------------------------------------------------------------------
(***************************************************************************)
(* Start                                                                   *)
(***************************************************************************)

\* main, up to the WiFi connection: the key is loaded, or made and saved; then
\* the state and the light.  Without credentials, or when they do not work,
\* the program waits for a BLE command.
Boot(wifi) ==
  LET new == nvs["secret_key"] = None IN
  /\ At("off")
  /\ wifi => HasCredentials /\ nvs["wifi_ssid"] = nvs["wifi_pass"]
  /\ key' = IF new THEN fresh ELSE nvs["secret_key"]
  /\ fresh' = IF new THEN fresh + 1 ELSE fresh
  /\ nvs' = [nvs EXCEPT !["secret_key"] = key']
  /\ invites' = LoadState.invites
  /\ peers' = LoadState.peers
  /\ address' = LoadState.address
  /\ is_on' = LoadLed
  /\ task' = Place(IF wifi THEN "pairing" ELSE "ble")
  /\ UNCHANGED <<ble, linkVars, relayVars, ownerVars, executed, refused>>

\* The owner is shown the token of an invite.
ShowToken(p) == held' = [key |-> key, preimage |-> p] /\ known' = None

\* Fault: an invite is made whenever there is no peer.
CreateOwnerInvite_always ==
  /\ At("pairing") /\ peers = {}
  /\ invites' = invites \cup {fresh}
  /\ nvs' = [nvs EXCEPT !["state"] = StoredState(invites', peers, address)]
  /\ fresh' = fresh + 1
  /\ ShowToken(fresh)
  /\ task' = Place("loop")
  /\ UNCHANGED <<key, peers, address, is_on, ble, linkVars, relayVars, executed, refused>>

CreateOwnerInvite ==
  /\ At("pairing") /\ peers = {} /\ invites = {}
  /\ invites' = {fresh}
  /\ nvs' = [nvs EXCEPT !["state"] = StoredState(invites', peers, address)]
  /\ fresh' = fresh + 1
  /\ ShowToken(fresh)
  /\ task' = Place("loop")
  /\ UNCHANGED <<key, peers, address, is_on, ble, linkVars, relayVars, executed, refused>>

GetInviteToken ==
  /\ At("pairing") /\ peers = {}
  /\ \E p \in invites : ShowToken(p)
  /\ task' = Place("loop")
  /\ UNCHANGED <<nvs, memory, ble, linkVars, relayVars, historyVars>>

Paired ==
  /\ At("pairing") /\ peers # {}
  /\ task' = Place("loop")
  /\ UNCHANGED <<nvs, memory, ble, linkVars, relayVars, ownerVars, historyVars>>

------------------------------------------------------------------------------
(***************************************************************************)
(* BLE                                                                     *)
(***************************************************************************)

\* The callbacks run at any time.
WriteSsid(net) ==
  /\ ~ At("off")
  /\ ble' = [ble EXCEPT !.ssid = net]
  /\ UNCHANGED <<nvs, memory, task, linkVars, relayVars, ownerVars, historyVars>>

WritePassword(net) ==
  /\ ~ At("off")
  /\ ble' = [ble EXCEPT !.password = net]
  /\ UNCHANGED <<nvs, memory, task, linkVars, relayVars, ownerVars, historyVars>>

WriteReset ==
  /\ ~ At("off") /\ fresh <= MaxFresh
  /\ ble' = [ble EXCEPT !.command = Reset]
  /\ UNCHANGED <<nvs, memory, task, linkVars, relayVars, ownerVars, historyVars>>

WriteProvision ==
  /\ ~ At("off") /\ ble.ssid # None /\ ble.password # None
  /\ ble' = [ble EXCEPT !.command = Provision(ble.ssid, ble.password)]
  /\ UNCHANGED <<nvs, memory, task, linkVars, relayVars, ownerVars, historyVars>>

\* check_ble_command takes the command, of which at most one is left.
TakeCommand ==
  /\ task.at \in {"ble", "loop", "poll"} /\ ble.command # <<>>
  /\ task' = Flashing(ble.command)
  /\ ble' = [ble EXCEPT !.command = <<>>]
  /\ UNCHANGED <<nvs, memory, linkVars, relayVars, ownerVars, historyVars>>

NoCommand ==
  /\ task.at \in {"loop", "poll"} /\ ble.command = <<>>
  /\ task' = Place(IF At("loop") THEN "connect" ELSE "receive")
  /\ UNCHANGED <<nvs, memory, ble, linkVars, relayVars, ownerVars, historyVars>>

\* One write of reset_device or save_wifi_credentials; after the last the
\* device restarts.
Flash ==
  LET k == Head(task.todo)[1]
      v == Head(task.todo)[2] IN
  /\ At("flash")
  /\ nvs' = [nvs EXCEPT ![k] = v]
  /\ IF Len(task.todo) = 1
       THEN Off /\ LinkDown
       ELSE /\ task' = Flashing(Tail(task.todo))
            /\ UNCHANGED <<memory, ble, linkVars, commits>>
  /\ UNCHANGED <<response_cache, ownerVars, historyVars>>

------------------------------------------------------------------------------
(***************************************************************************)
(* The connection                                                          *)
(***************************************************************************)

\* TcpStream::connect.  On failure, here and below, run_connection returns
\* and the loop begins again, after looking for commands.
Connect ==
  /\ At("connect")
  /\ link' = TRUE
  /\ task' = Place("hello")
  /\ UNCHANGED <<nvs, memory, ble, uplink, downlink, relayVars, ownerVars, historyVars>>

\* Nothing can be reached, or the connection is broken.
RunConnectionFails ==
  /\ \/ At("connect")
     \/ task.at \in {"hello", "receive", "write"} /\ ~ link
  /\ task' = Place("loop")
  /\ UNCHANGED <<nvs, memory, ble, linkVars, relayVars, ownerVars, historyVars>>

\* The relay says HELLO; the firmware signs in and waits for no answer.
SignIn ==
  /\ At("hello") /\ link
  /\ uplink' = <<IAm(GetCommits)>>
  /\ refused' = {}
  /\ task' = Place("poll")
  /\ UNCHANGED <<nvs, memory, ble, link, downlink, relayVars, ownerVars, fresh, executed>>

\* Fault: the read has no timeout.
ReadTimesOut_never == FALSE

\* WouldBlock or TimedOut.
ReadTimesOut ==
  /\ At("receive") /\ link /\ downlink = <<>>
  /\ task' = Place("poll")
  /\ UNCHANGED <<nvs, memory, ble, linkVars, relayVars, ownerVars, historyVars>>

Receives(d) ==
  /\ At("receive") /\ link /\ downlink # <<>>
  /\ d = Head(downlink)
  /\ downlink' = Tail(downlink)

\* The invite becomes a peer, in one save, with the address it gave, of any
\* length; the answer precedes the commit.
AcceptHandshake(d) ==
  /\ Receives(d) /\ d.payload = "HANDSHAKE_INIT"
  /\ d.preimage \in invites
  /\ invites' = invites \ {d.preimage}
  /\ peers' = peers \cup {fresh}
  /\ \E size \in Addresses : address' = address + size
  /\ nvs' = [nvs EXCEPT !["state"] = StoredState(invites', peers', address')]
  /\ fresh' = fresh + 1
  /\ task' = Writing(<<Ack(d.preimage, fresh, None), UpdateCommits({fresh})>>)
  /\ UNCHANGED <<key, is_on, ble, link, uplink, relayVars, ownerVars, executed, refused>>

\* reject_handshake, unauthorized, and a request that does not parse: the
\* message is answered, and its preimage neither used nor renewed.
Refuse(d) ==
  /\ Receives(d)
  /\ IF d.payload = "HANDSHAKE_INIT" THEN d.preimage \notin invites
                                     ELSE d.preimage \in peers => d.payload = "invalid"
  /\ task' = Writing(<<Ack(d.preimage, None, None)>>)
  /\ refused' = refused \cup {d.preimage}
  /\ UNCHANGED <<nvs, memory, ble, link, uplink, relayVars, ownerVars, fresh, executed>>

\* dispatch_command.  A command that was executed and not yet followed by the
\* new preimage in flash is executed again after a loss of power.
Light(cmd) == CASE cmd = "on" -> TRUE [] cmd = "off" -> FALSE [] OTHER -> ~ is_on

SwitchLight(d) ==
  /\ Receives(d) /\ d.payload \in Switching
  /\ d.preimage \in peers
  /\ is_on' = Light(d.payload)
  /\ known' = None
  /\ executed' = executed \cup {d.preimage}
  /\ task' = Command("led", d)
  /\ UNCHANGED <<nvs, key, invites, peers, address, ble, link, uplink, relayVars, held, fresh,
                 refused>>

ReadStatus(d) ==
  /\ Receives(d) /\ d.payload = "status"
  /\ d.preimage \in peers
  /\ executed' = executed \cup {d.preimage}
  /\ task' = Command("renew", d)
  /\ UNCHANGED <<nvs, memory, ble, link, uplink, relayVars, ownerVars, fresh, refused>>

\* Fault: the result of a toggle is not saved.
SaveLedState_notToggle ==
  /\ At("led")
  /\ nvs' = IF task.cmd = "toggle" THEN nvs ELSE [nvs EXCEPT !["led_on"] = is_on]
  /\ task' = Command("renew", [preimage |-> task.preimage, payload |-> task.cmd])
  /\ UNCHANGED <<memory, ble, linkVars, relayVars, ownerVars, historyVars>>

SaveLedState ==
  /\ At("led")
  /\ nvs' = [nvs EXCEPT !["led_on"] = is_on]
  /\ task' = Command("renew", [preimage |-> task.preimage, payload |-> task.cmd])
  /\ UNCHANGED <<memory, ble, linkVars, relayVars, ownerVars, historyVars>>

\* Faults: the new preimage is not saved; the old one stays.
RenewPreimage_unsaved ==
  /\ At("renew")
  /\ peers' = (peers \ {task.preimage}) \cup {fresh}
  /\ fresh' = fresh + 1
  /\ task' = Writing(<<UpdateCommits({fresh}), Ack(task.preimage, fresh, is_on)>>)
  /\ UNCHANGED <<nvs, key, invites, address, is_on, ble, linkVars, relayVars, ownerVars,
                 executed, refused>>

RenewPreimage_keepsOld ==
  /\ At("renew")
  /\ peers' = peers \cup {fresh}
  /\ nvs' = [nvs EXCEPT !["state"] = StoredState(invites, peers', address)]
  /\ fresh' = fresh + 1
  /\ task' = Writing(<<UpdateCommits({fresh}), Ack(task.preimage, fresh, is_on)>>)
  /\ UNCHANGED <<key, invites, address, is_on, ble, linkVars, relayVars, ownerVars, executed,
                 refused>>

\* renew_preimage; the commit precedes the answer that carries the preimage.
RenewPreimage ==
  /\ At("renew")
  /\ peers' = (peers \ {task.preimage}) \cup {fresh}
  /\ nvs' = [nvs EXCEPT !["state"] = StoredState(invites, peers', address)]
  /\ fresh' = fresh + 1
  /\ task' = Writing(<<UpdateCommits({fresh}), Ack(task.preimage, fresh, is_on)>>)
  /\ UNCHANGED <<key, invites, address, is_on, ble, linkVars, relayVars, ownerVars, executed,
                 refused>>

WriteFrame ==
  LET frames == task.frames IN
  /\ At("write") /\ link
  /\ uplink' = Append(uplink, Head(frames))
  /\ task' = IF Len(frames) = 1 THEN Place("poll") ELSE Writing(Tail(frames))
  /\ UNCHANGED <<nvs, memory, ble, link, downlink, relayVars, ownerVars, historyVars>>

------------------------------------------------------------------------------
(***************************************************************************)
(* The relay and the owner                                                 *)
(***************************************************************************)

RegisterFrame ==
  /\ uplink # <<>> /\ Head(uplink).type = "I_AM"
  /\ commits' = Head(uplink).commits
  /\ uplink' = Tail(uplink)
  /\ UNCHANGED <<nvs, memory, ble, task, link, downlink, response_cache, ownerVars, historyVars>>

CommitsFrame ==
  /\ uplink # <<>> /\ Head(uplink).type = "UPDATE_COMMITS"
  /\ commits' = commits \cup Head(uplink).commits
  /\ uplink' = Tail(uplink)
  /\ UNCHANGED <<nvs, memory, ble, task, link, downlink, response_cache, ownerVars, historyVars>>

AckFrame ==
  LET ack == Head(uplink) IN
  /\ uplink # <<>> /\ ack.type = "ACK"
  /\ response_cache' = Put(response_cache, ack.preimage,
                           [next |-> ack.next, is_on |-> ack.is_on])
  /\ uplink' = Tail(uplink)
  /\ UNCHANGED <<nvs, memory, ble, task, link, downlink, commits, ownerVars, historyVars>>

\* The owner sends something with the preimage it holds.  An answer reaches it
\* as the answer of the next call with that preimage does: from the cache.
OwnerSends(payload) ==
  LET p == held.preimage IN
  /\ held # None /\ held.key = key
  /\ fresh <= MaxFresh
  /\ p \in commits /\ p \notin DOMAIN response_cache
  /\ commits' = commits \ {p}
  /\ downlink' = Append(downlink, [preimage |-> p, payload |-> payload])
  /\ UNCHANGED <<nvs, memory, ble, task, link, uplink, response_cache, ownerVars, historyVars>>

OwnerIsAnswered ==
  LET p == held.preimage
      r == response_cache[p] IN
  /\ held # None /\ p \in DOMAIN response_cache
  /\ response_cache' = Drop(response_cache, p)
  /\ held' = IF r.next = None THEN held ELSE [key |-> held.key, preimage |-> r.next]
  /\ known' = IF r.is_on = None THEN known ELSE r.is_on
  /\ UNCHANGED <<nvs, memory, ble, task, linkVars, commits, historyVars>>

------------------------------------------------------------------------------
(***************************************************************************)
(* Failure                                                                 *)
(***************************************************************************)

Disconnect ==
  /\ link /\ LinkDown
  /\ UNCHANGED <<nvs, memory, ble, task, response_cache, ownerVars, historyVars>>

\* Power is lost.
PowerLost ==
  /\ ~ At("off")
  /\ Off /\ LinkDown
  /\ executed' = IF task.at \in {"led", "renew"} THEN executed \ {task.preimage}
                                                 ELSE executed
  /\ UNCHANGED <<nvs, response_cache, ownerVars, fresh, refused>>

\* The relay forgets an answer.
Expire(p) ==
  /\ p \in DOMAIN response_cache
  /\ response_cache' = Drop(response_cache, p)
  /\ UNCHANGED <<nvs, memory, ble, task, linkVars, commits, ownerVars, historyVars>>

------------------------------------------------------------------------------
(***************************************************************************)
(* The specification                                                       *)
(***************************************************************************)

Handle(d) == AcceptHandshake(d) \/ Refuse(d) \/ SwitchLight(d) \/ ReadStatus(d)

Program ==
  \/ \E wifi \in BOOLEAN : Boot(wifi)
  \/ CreateOwnerInvite \/ GetInviteToken \/ Paired
  \/ TakeCommand \/ NoCommand \/ Flash
  \/ Connect \/ RunConnectionFails \/ ReadTimesOut
  \/ \E i \in DOMAIN downlink : Handle(downlink[i])
  \/ SaveLedState \/ RenewPreimage \/ WriteFrame

BleClient ==
  \/ \E net \in Networks : WriteSsid(net) \/ WritePassword(net)
  \/ WriteReset \/ WriteProvision

RelayStep == RegisterFrame \/ CommitsFrame \/ AckFrame

Owner == OwnerIsAnswered \/ \E payload \in Payloads : OwnerSends(payload)

Next ==
  \/ Program \/ SignIn \/ BleClient \/ RelayStep \/ Owner
  \/ Disconnect \/ PowerLost \/ \E p \in DOMAIN response_cache : Expire(p)

\* The program runs, and a relay that accepts a connection says HELLO.
FairSpec == Init /\ [][Next]_vars /\ WF_vars(Program) /\ WF_vars(SignIn)

------------------------------------------------------------------------------
(***************************************************************************)
(* Safety                                                                  *)
(***************************************************************************)

Drawn == 1 .. fresh - 1
Records == [invites : SUBSET Drawn, peers : SUBSET Drawn, address : Nat]

FlashOK ==
  /\ fresh \in Nat \ {0}
  /\ DOMAIN nvs = Keys
  /\ nvs["secret_key"] \in Drawn \cup {None}
  /\ nvs["state"] \in Records \cup {None}
  /\ nvs["led_on"] \in BOOLEAN \cup {None}
  /\ {nvs["wifi_ssid"], nvs["wifi_pass"]} \subseteq Networks \cup {None}

MemoryOK ==
  /\ invites \subseteq Drawn /\ peers \subseteq Drawn /\ address \in Nat /\ is_on \in BOOLEAN
  /\ task.at \notin {"off", "flash"} =>
       /\ key # None /\ key = nvs["secret_key"]
       /\ StoredState(invites, peers, address) =
            IF task.at \in {"pairing", "ble"} THEN LoadState ELSE Stored
  /\ ble \in [ssid : Networks \cup {None}, password : Networks \cup {None},
              command : Seq(Writes)]

TaskOK ==
  /\ task.at \in {"off", "pairing", "ble", "flash", "loop", "connect", "hello"} \cup ServingPlaces
  /\ At("flash") => task.todo \in Seq(Writes) /\ task.todo # <<>>
  /\ task.at \in {"led", "renew"} => task.preimage \in peers
  /\ At("write") => task.frames \in Seq(Frame) /\ task.frames # <<>>

Frames == {uplink[i] : i \in DOMAIN uplink}
            \cup (IF At("write") THEN {task.frames[i] : i \in DOMAIN task.frames} ELSE {})

LinkOK ==
  /\ link \in BOOLEAN
  /\ uplink \in Seq(Frame) /\ downlink \in Seq(Delivery)
  /\ ~ link => uplink = <<>> /\ downlink = <<>> /\ commits = {}
  /\ task.at \in {"off", "pairing", "ble", "loop", "connect"} => ~ link
  /\ \A f \in Frames : f.type # "ACK" => f.commits \subseteq Drawn
  /\ \A i \in DOMAIN downlink : downlink[i].preimage \in Drawn
  /\ commits \cup executed \cup refused \subseteq Drawn

\* The answers on their way to the owner.
Answers ==
  {f \in Frames : f.type = "ACK"}
    \cup {Ack(p, response_cache[p].next, response_cache[p].is_on) :
            p \in DOMAIN response_cache}

OwnerOK ==
  /\ held # None => held \in [key : Drawn, preimage : Drawn]
  /\ known \in BOOLEAN \cup {None}
  /\ \A a \in Answers :
       /\ a.preimage \in Drawn /\ a.next \in Drawn \cup {None}
       /\ a.is_on \in BOOLEAN \cup {None}

\* Every variable has its type, and every key and preimage that is anywhere was
\* drawn; what is in memory is what was loaded at first, and what is in flash
\* while the program goes on, except during a write of its own.
TypeOK == FlashOK /\ MemoryOK /\ TaskOK /\ LinkOK /\ OwnerOK

\* What is saved is loaded again, unless its only peer came with an address that
\* outgrows the buffer: load_state takes what is larger for no state.  Records
\* never add up to that, through lost answers, lost power and resets.
StateFits == Size(Stored) > Buffer => 1 + Stored.address > Buffer

\* The commit of p is registered or on the way, or the message sent with p is on
\* the way, being handled, or was refused.
Reached(p) ==
  \/ p \in commits \cup refused
  \/ \E f \in Frames : f.type # "ACK" /\ p \in f.commits
  \/ \E i \in DOMAIN downlink : downlink[i].preimage = p
  \/ task.at \in {"led", "renew"} /\ task.preimage = p

\* While the firmware is signed in, the preimage its owner may use is not dead.
IssuedReachable ==
  Serving /\ link => \A p \in invites \cup peers : Reached(p)

\* What the owner was last told of the light is true as long as no command has
\* changed it since, through restarts and losses of power at any point.
OwnerKnowsLight ==
  known # None /\ held.key = nvs["secret_key"] =>
    /\ LoadLed = known
    /\ ~ At("off") => is_on = known

\* A command is executed once for a preimage, whatever breaks in between (one
\* that lost power before its preimage was renewed may be executed once more).
HonouredOnce ==
  [][At("receive") /\ task'.at \in {"led", "renew"} =>
       task'.preimage \notin executed]_vars

\* The next preimage exists and may reach the owner that used p.
ReplyExists(p) ==
  \/ p \in DOMAIN response_cache /\ response_cache[p].next # None
  \/ \E f \in Frames : f.type = "ACK" /\ f.preimage = p /\ f.next # None

\* The owner can go on using the switch, or will be shown the token of a new
\* invite, which takes the place of a state that is too large to be loaded.
InTouch ==
  /\ held # None /\ held.key = nvs["secret_key"]
  /\ \/ held.preimage \in Stored.invites \cup Stored.peers
     \/ ReplyExists(held.preimage)

\* Power lost at any point does not lock the owner out: that takes the loss of
\* an answer, or a reset that has come to the key.
StaysInTouch ==
  [][InTouch => \/ InTouch'
                \/ At("flash") /\ Head(task.todo)[1] = "secret_key"
                \/ \E p \in {held.preimage} :
                     held' = held /\ ReplyExists(p) /\ ~ ReplyExists(p)']_vars

\* A command given over BLE is taken (or lost with power), whatever the
\* connection does.
BleServed == ble.command # <<>> ~> ble.command = <<>>

------------------------------------------------------------------------------
(***************************************************************************)
(* What is not so                                                          *)
(***************************************************************************)

\* "Load or create device state from NVS": what was saved is there after a restart.
\* The address of a peer is saved whatever its length.
StateLoads == LoadState = Stored

\* "Reset device - clear all NVS data": nothing of the old device is left to
\* the new key.  Power lost between two removals leaves it the old peer, and no
\* invite is ever made.
ResetClears ==
  task.at \notin {"off", "flash"} /\ peers # {} => held.key = key

\* The ssid and the password in use were given together.  Two attempts can be
\* mixed in BleState, and power can be lost between the two writes.
CredentialsTogether ==
  ~ At("flash") /\ HasCredentials => nvs["wifi_ssid"] = nvs["wifi_pass"]

==============================================================================
