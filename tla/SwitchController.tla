--------------------------- MODULE SwitchController ---------------------------
(***************************************************************************)
(* The command line of switch-controller: every command is a process of    *)
(* its own that loads the home directory, makes one call through the relay *)
(* and saves (identity.rs, DeviceState::load and save, Node::new, pair and *)
(* send), or writes to a switch over BLE (bhumi-ble-controller).  Nothing  *)
(* locks the home directory: two commands may run at the same time.        *)
(*                                                                         *)
(* A file is truncated and then written; a process can be killed between   *)
(* the two.  What was loaded is saved again after the call, whatever       *)
(* another process has saved meanwhile.                                    *)
(*                                                                         *)
(* The relay and the firmware are reduced to what this program can tell of *)
(* them (Node, Relay and Esp32Switch model them).  The preimages the home  *)
(* issues are left out, since the program never serves, and so are         *)
(* aliases: every pairing has the default alias "switch", so that a        *)
(* command names any of them.                                              *)
(***************************************************************************)
EXTENDS Integers, FiniteSets, Maps

CONSTANTS
  Processes,   \* commands that can run at the same time
  Switches,    \* the devices
  Networks,    \* WiFi networks; each stands for its ssid and its password
  None,
  Empty,       \* the content of a file that was truncated
  Garbled,     \* a file of two contents, one over the other
  \* bounds of the model: the values drawn
  MaxPairing,  \* before the last invite or reset
  MaxFresh     \* before the last command is started

ASSUME ControllerAssumption ==
  /\ MaxPairing \in Nat /\ MaxFresh \in Nat
  /\ IsFiniteSet(Switches)
  /\ {None, Empty, Garbled} \cap (Nat \cup Networks) = {}

VARIABLES
  \* the home directory
  identity_key,  \* None, Empty, or the key
  state_json,    \* None, Empty, Garbled, or the DeviceState
  \* the processes
  at,            \* where each is
  cmd,           \* the command it runs
  key,           \* its secret_key
  state,         \* its DeviceState
  call,          \* its call: [to, preimage]
  \* the switches
  id52,          \* the identity of each
  invites,       \* its open invites
  issued,        \* key of a peer -> the preimage it was issued
  ble,           \* BleState: [ssid, password, command]
  \* the relay
  response_cache,  \* preimage -> the next preimage, told in the answer
  \* the world
  fresh,         \* the next random value
  given,         \* the tokens: preimage -> id52
  stale,         \* processes that loaded a state another has begun to save over
  raced,         \* two processes drew an identity at the same time (history)
  undisturbed    \* provisions during which nobody else has written (history)

homeVars   == <<identity_key, state_json>>
procVars   == <<cmd, key, state, call>>
switchVars == <<id52, invites, issued>>
bleVars    == <<ble, undisturbed>>
vars == <<homeVars, at, procVars, switchVars, bleVars, response_cache,
          fresh, given, stale, raced>>

------------------------------------------------------------------------------
(***************************************************************************)
(* Data                                                                    *)
(***************************************************************************)

\* DeviceState: the nodes a pairing was begun with; their_preimage of each peer.
DeviceState(pending, peers) == [pending_peers |-> pending, peers |-> peers]
NoState == DeviceState({}, EmptyMap)

\* State files of the same shape are of the same length.
SameShape(s, t) ==
  s.pending_peers = t.pending_peers /\ DOMAIN s.peers = DOMAIN t.peers

\* What a file may hold after new was written over old from the beginning.
Overwrites(old, new) ==
  IF old = Empty THEN {new}
  ELSE IF old # Garbled /\ SameShape(old, new) THEN {new}
  ELSE {new, Garbled}

NoBle == [ssid |-> None, password |-> None, command |-> None]
Reset == [name |-> "reset"]
Credentials(ssid, password) ==
  [name |-> "provision", ssid |-> ssid, password |-> password]
BleCommands ==
  {None, Reset} \cup {Credentials(a, b) : a, b \in Networks \cup {None}}

At(p, place) == at[p] = place
Goto(p, place) == at' = [at EXCEPT ![p] = place]

BlePlaces == {"ssid", "password", "command"}
Loaded    == {"open1", "write1", "call", "open2", "write2"}
Places    == {"idle", "key", "newkey", "keyfile", "state"} \cup Loaded \cup BlePlaces

\* Where the processes are when ps have ended, with or without success.
Ended(ps) ==
  /\ at'    = [p \in Processes |-> IF p \in ps THEN "idle" ELSE at[p]]
  /\ cmd'   = [p \in Processes |-> IF p \in ps THEN None ELSE cmd[p]]
  /\ key'   = [p \in Processes |-> IF p \in ps THEN None ELSE key[p]]
  /\ state' = [p \in Processes |-> IF p \in ps THEN None ELSE state[p]]
  /\ call'  = [p \in Processes |-> IF p \in ps THEN None ELSE call[p]]
  /\ undisturbed' = undisturbed \ ps

End(ps) == Ended(ps) /\ stale' = stale \ ps

Init ==
  /\ identity_key = None /\ state_json = None
  /\ at = [p \in Processes |-> "idle"]
  /\ cmd = [p \in Processes |-> None] /\ key = [p \in Processes |-> None]
  /\ state = [p \in Processes |-> None] /\ call = [p \in Processes |-> None]
  /\ \E ids \in [Switches -> 1 .. Cardinality(Switches)] :
       /\ \A s, t \in Switches : s # t => ids[s] # ids[t]
       /\ id52 = ids
  /\ invites = [s \in Switches |-> {}]
  /\ issued = [s \in Switches |-> EmptyMap]
  /\ ble = [s \in Switches |-> NoBle]
  /\ response_cache = EmptyMap
  /\ fresh = Cardinality(Switches) + 1
  /\ given = EmptyMap
  /\ stale = {} /\ raced = FALSE /\ undisturbed = {}

------------------------------------------------------------------------------
(***************************************************************************)
(* The start of a command                                                  *)
(***************************************************************************)

\* What the user can type.
CliCommands ==
  {[name |-> "list"], [name |-> "send"]}
    \cup {[name |-> "pair", token |-> t] : t \in DOMAIN given}
    \cup {[name |-> "reset", device |-> s] : s \in Switches}
    \cup {[name |-> "provision", device |-> s, network |-> n] :
             s \in Switches, n \in Networks}

\* main: the commands of the relay begin with Node::new, those of BLE with a
\* connection to the device.
Start(p, c) ==
  /\ At(p, "idle") /\ fresh <= MaxFresh
  /\ cmd' = [cmd EXCEPT ![p] = c]
  /\ Goto(p, IF c.name = "provision" THEN "ssid"
             ELSE IF c.name = "reset" THEN "command" ELSE "key")
  /\ UNCHANGED <<homeVars, key, state, call, switchVars, bleVars,
                 response_cache, fresh, given, stale, raced>>

\* Fault: a truncated file is taken for a key.
LoadOrCreate_empty(p) ==
  /\ At(p, "key")
  /\ IF identity_key = None
       THEN /\ key' = [key EXCEPT ![p] = fresh] /\ fresh' = fresh + 1
            /\ raced' = (raced \/ \E q \in Processes : at[q] \in {"newkey", "keyfile"})
            /\ Goto(p, "newkey")
       ELSE /\ key' = [key EXCEPT ![p] = identity_key]
            /\ Goto(p, "state") /\ UNCHANGED <<fresh, raced>>
  /\ UNCHANGED <<homeVars, cmd, state, call, switchVars, bleVars,
                 response_cache, given, stale>>

\* load_or_create: the key in the file, or a new one; a file that is not a
\* key ends the program.
LoadOrCreate(p) ==
  /\ At(p, "key")
  /\ \/ /\ identity_key = None
        /\ key' = [key EXCEPT ![p] = fresh]
        /\ fresh' = fresh + 1
        /\ raced' = (raced \/ \E q \in Processes : at[q] \in {"newkey", "keyfile"})
        /\ Goto(p, "newkey")
        /\ UNCHANGED <<cmd, state, call, stale, undisturbed>>
     \/ /\ identity_key = Empty
        /\ End({p}) /\ UNCHANGED <<fresh, raced>>
     \/ /\ identity_key \notin {None, Empty}
        /\ key' = [key EXCEPT ![p] = identity_key]
        /\ Goto(p, "state")
        /\ UNCHANGED <<cmd, state, call, stale, undisturbed, fresh, raced>>
  /\ UNCHANGED <<homeVars, switchVars, ble, response_cache, given>>

\* Fault: the new key is used and not saved.
OpenKeyFile_skips(p) ==
  /\ At(p, "newkey")
  /\ Goto(p, "state")
  /\ UNCHANGED <<homeVars, procVars, switchVars, bleVars, response_cache,
                 fresh, given, stale, raced>>

\* fs::write of the new key.
OpenKeyFile(p) ==
  /\ At(p, "newkey")
  /\ identity_key' = Empty
  /\ Goto(p, "keyfile")
  /\ UNCHANGED <<state_json, procVars, switchVars, bleVars, response_cache,
                 fresh, given, stale, raced>>

WriteKeyFile(p) ==
  /\ At(p, "keyfile")
  /\ identity_key' = key[p]
  /\ Goto(p, "state")
  /\ UNCHANGED <<state_json, procVars, switchVars, bleVars, response_cache,
                 fresh, given, stale, raced>>

\* DeviceState::load: a file that does not parse ends the program.
LoadFails(p) ==
  /\ At(p, "state") /\ state_json \in {Empty, Garbled}
  /\ End({p})
  /\ UNCHANGED <<homeVars, switchVars, ble, response_cache, fresh,
                 given, raced>>

LoadedState == IF state_json = None THEN NoState ELSE state_json

Loads(p, name) ==
  /\ At(p, "state") /\ state_json \notin {Empty, Garbled}
  /\ cmd[p].name = name
  /\ UNCHANGED <<homeVars, switchVars, ble, response_cache, fresh,
                 given, raced>>

\* cmd_list reads only; send ends where no peer has the name.
ListPeers(p) ==
  \/ Loads(p, "list") /\ End({p})
  \/ Loads(p, "send") /\ DOMAIN LoadedState.peers = {} /\ End({p})

\* pair stores a pending peer, to be saved before the call.
PairBegins(p) ==
  /\ Loads(p, "pair")
  /\ \E d \in {given[cmd[p].token]} :
       /\ state' = [state EXCEPT ![p] =
            DeviceState(LoadedState.pending_peers \cup {d}, LoadedState.peers)]
       /\ call' = [call EXCEPT ![p] = [to |-> d, preimage |-> cmd[p].token]]
  /\ Goto(p, "open1")
  /\ UNCHANGED <<cmd, key, stale, undisturbed>>

\* send takes a peer of that name, and its preimage.
SendBegins(p) ==
  /\ Loads(p, "send")
  /\ state' = [state EXCEPT ![p] = LoadedState]
  /\ \E d \in DOMAIN LoadedState.peers :
       call' = [call EXCEPT ![p] = [to |-> d, preimage |-> LoadedState.peers[d]]]
  /\ Goto(p, "call")
  /\ UNCHANGED <<cmd, key, stale, undisturbed>>

------------------------------------------------------------------------------
(***************************************************************************)
(* Saving                                                                  *)
(***************************************************************************)

\* Those that hold what p is saving over.
Overtaken(p) == {q \in Processes \ {p} : at[q] \in Loaded}

\* fs::write opens the file and truncates it ...
OpenStateFile(p) ==
  /\ at[p] \in {"open1", "open2"}
  /\ state_json' = Empty
  /\ stale' = stale \cup Overtaken(p)
  /\ Goto(p, IF At(p, "open1") THEN "write1" ELSE "write2")
  /\ UNCHANGED <<identity_key, procVars, switchVars, bleVars, response_cache,
                 fresh, given, raced>>

\* ... and writes what the process holds.  pair goes on to its call, and what
\* is saved after a call is the end of the command.
WriteStateFile(p) ==
  /\ at[p] \in {"write1", "write2"}
  /\ state_json' \in Overwrites(state_json, state[p])
  /\ IF At(p, "write1")
       THEN /\ Goto(p, "call") /\ UNCHANGED <<procVars, undisturbed>>
            /\ stale' = stale \cup Overtaken(p)
       ELSE Ended({p}) /\ stale' = (stale \cup Overtaken(p)) \ {p}
  /\ UNCHANGED <<identity_key, switchVars, ble, response_cache, fresh,
                 given, raced>>

------------------------------------------------------------------------------
(***************************************************************************)
(* The call                                                                *)
(***************************************************************************)

\* Fault: the answer to a command is reported and its preimage dropped.
Answered_drops(p, next) ==
  LET d == call[p].to IN
  /\ state' = [state EXCEPT ![p] =
       DeviceState(@.pending_peers \ {d},
                   IF cmd[p].name = "pair" THEN Put(@.peers, d, next) ELSE @.peers)]
  /\ Goto(p, "open2")
  /\ UNCHANGED <<cmd, key, call, stale, undisturbed>>

\* complete_handshake_as_acceptor, or update_peer_preimage: in memory.
Answered(p, next) ==
  LET d == call[p].to IN
  /\ state' = [state EXCEPT ![p] =
       DeviceState(IF cmd[p].name = "pair" THEN @.pending_peers \ {d}
                                           ELSE @.pending_peers,
                   Put(@.peers, d, next))]
  /\ Goto(p, "open2")
  /\ UNCHANGED <<cmd, key, call, stale, undisturbed>>

\* The switch takes the message: a handshake turns the invite into a peer under
\* the key it names, a command renews the preimage it used.
Honours(s, p) ==
  LET q == call[p].preimage IN
  \/ /\ cmd[p].name = "pair" /\ q \in invites[s]
     /\ invites' = [invites EXCEPT ![s] = @ \ {q}]
     /\ issued' = [issued EXCEPT ![s] = Put(@, key[p], fresh)]
  \/ /\ cmd[p].name = "send"
     /\ \E k \in DOMAIN issued[s] :
          issued[s][k] = q /\ issued' = [issued EXCEPT ![s] = Put(@, k, fresh)]
     /\ UNCHANGED invites

\* The message is routed and answered; the answer is cached, and reaches the
\* process unless that is late or was killed.
Delivered(p, s) ==
  LET q == call[p].preimage IN
  /\ At(p, "call") /\ id52[s] = call[p].to
  /\ q \notin DOMAIN response_cache
  /\ Honours(s, p)
  /\ response_cache' = Put(response_cache, q, fresh)
  /\ fresh' = fresh + 1
  /\ Answered(p, fresh) \/ End({p})
  /\ UNCHANGED <<homeVars, id52, ble, given, raced>>

\* The relay answers from its cache, and forgets the answer.
CachedResponse(p) ==
  LET q == call[p].preimage IN
  /\ At(p, "call") /\ q \in DOMAIN response_cache
  /\ response_cache' = Drop(response_cache, q)
  /\ Answered(p, response_cache[q]) \/ End({p})
  /\ UNCHANGED <<homeVars, switchVars, ble, fresh, given, raced>>

------------------------------------------------------------------------------
(***************************************************************************)
(* BLE                                                                     *)
(***************************************************************************)

\* Provisions of s that others have begun.
Others(p, s) ==
  {q \in Processes \ {p} : at[q] \in {"password", "command"} /\ cmd[q].device = s}

\* provision writes the ssid, the password and the command one after the other,
\* each with a response.
WriteSsid(p) ==
  LET s == cmd[p].device IN
  /\ At(p, "ssid")
  /\ ble' = [ble EXCEPT ![s].ssid = cmd[p].network]
  /\ undisturbed' = (undisturbed \cup {p}) \ Others(p, s)
  /\ Goto(p, "password")
  /\ UNCHANGED <<homeVars, procVars, switchVars, response_cache, fresh,
                 given, stale, raced>>

WritePassword(p) ==
  LET s == cmd[p].device IN
  /\ At(p, "password")
  /\ ble' = [ble EXCEPT ![s].password = cmd[p].network]
  /\ undisturbed' = undisturbed \ Others(p, s)
  /\ Goto(p, "command")
  /\ UNCHANGED <<homeVars, procVars, switchVars, response_cache, fresh,
                 given, stale, raced>>

\* PROVISION stands for the ssid and the password that were written last, by
\* whomever; either command replaces one that was not taken yet.
WriteCommand(p) ==
  LET s == cmd[p].device IN
  /\ At(p, "command")
  /\ IF cmd[p].name = "reset"
       THEN ble' = [ble EXCEPT ![s].command = Reset]
       ELSE IF None \in {ble[s].ssid, ble[s].password} THEN UNCHANGED ble
       ELSE ble' = [ble EXCEPT ![s].command = Credentials(ble[s].ssid, ble[s].password)]
  /\ End({p})
  /\ UNCHANGED <<homeVars, switchVars, response_cache, fresh, given, raced>>

\* Fault: who is connected goes on with the device that restarted.
Restarts_connected(s) ==
  /\ ble' = [ble EXCEPT ![s] = NoBle]
  /\ UNCHANGED <<at, procVars, stale, undisturbed>>

\* The main loop of s takes the command and restarts: who is connected is cut
\* off, and nothing of BleState is left.
Restarts(s) ==
  /\ ble' = [ble EXCEPT ![s] = NoBle]
  /\ End({p \in Processes : at[p] \in BlePlaces /\ cmd[p].device = s})

TakeProvision(s) ==
  /\ ble[s].command # None /\ ble[s].command.name = "provision"
  /\ Restarts(s)
  /\ UNCHANGED <<homeVars, switchVars, response_cache, fresh, given, raced>>

\* A switch that was reset is another device: its key, its peers and its
\* invites are gone.
TakeReset(s) ==
  /\ ble[s].command = Reset
  /\ fresh < MaxPairing
  /\ id52' = [id52 EXCEPT ![s] = fresh]
  /\ fresh' = fresh + 1
  /\ invites' = [invites EXCEPT ![s] = {}]
  /\ issued' = [issued EXCEPT ![s] = EmptyMap]
  /\ Restarts(s)
  /\ UNCHANGED <<homeVars, response_cache, given, raced>>

------------------------------------------------------------------------------
(***************************************************************************)
(* The world                                                               *)
(***************************************************************************)

\* A process is killed or its call or write fails: what it was writing stays
\* as it is.
Stops(p) ==
  /\ ~ At(p, "idle")
  /\ End({p})
  /\ UNCHANGED <<homeVars, switchVars, ble, response_cache, fresh,
                 given, raced>>

\* The switch makes an invite; the user of the program is given the token.
Invite(s) ==
  /\ fresh < MaxPairing
  /\ invites' = [invites EXCEPT ![s] = @ \cup {fresh}]
  /\ given' = Put(given, fresh, id52[s])
  /\ fresh' = fresh + 1
  /\ UNCHANGED <<homeVars, at, procVars, id52, issued, bleVars, response_cache,
                 stale, raced>>

PowerLost(s) ==
  /\ ble[s] # NoBle
  /\ Restarts(s)
  /\ UNCHANGED <<homeVars, switchVars, response_cache, fresh, given, raced>>

\* The relay forgets an answer.
Expire(q) ==
  /\ q \in DOMAIN response_cache
  /\ response_cache' = Drop(response_cache, q)
  /\ UNCHANGED <<homeVars, at, procVars, switchVars, bleVars, fresh, given,
                 stale, raced>>

Step(p) ==
  \/ LoadOrCreate(p) \/ OpenKeyFile(p) \/ WriteKeyFile(p)
  \/ LoadFails(p) \/ ListPeers(p) \/ PairBegins(p) \/ SendBegins(p)
  \/ OpenStateFile(p) \/ WriteStateFile(p)
  \/ CachedResponse(p) \/ \E s \in Switches : Delivered(p, s)
  \/ WriteSsid(p) \/ WritePassword(p) \/ WriteCommand(p)

Device(s) == TakeProvision(s) \/ TakeReset(s) \/ Invite(s) \/ PowerLost(s)

Next ==
  \/ \E p \in Processes : Step(p) \/ Stops(p) \/ \E c \in CliCommands : Start(p, c)
  \/ \E s \in Switches : Device(s)
  \/ \E q \in DOMAIN response_cache : Expire(q)

Spec == Init /\ [][Next]_vars

------------------------------------------------------------------------------
(***************************************************************************)
(* Properties                                                              *)
(***************************************************************************)

Drawn == 1 .. fresh - 1

IsState(s) ==
  /\ s.pending_peers \subseteq Drawn /\ DOMAIN s.peers \subseteq Drawn
  /\ \A d \in DOMAIN s.peers : s.peers[d] \in Drawn

HomeOK ==
  /\ fresh \in Nat \ {0}
  /\ identity_key \in Drawn \cup {None, Empty}
  /\ state_json \notin {None, Empty, Garbled} => IsState(state_json)

\* A process has the parts of its command that it is going to use.
CommandOK(p) ==
  /\ At(p, "idle") => cmd[p] = None
  /\ at[p] \in {"ssid", "password"} => cmd[p].name = "provision"
  /\ at[p] \in BlePlaces =>
       /\ cmd[p].device \in Switches
       /\ cmd[p].name = "provision" => cmd[p].network \in Networks
  /\ at[p] \in {"key", "newkey", "keyfile", "state"} /\ cmd[p].name = "pair" =>
       cmd[p].token \in DOMAIN given

ProcessOK(p) ==
  /\ IF at[p] \in {"newkey", "keyfile", "state"} \cup Loaded
       THEN key[p] \in Drawn ELSE key[p] = None
  /\ IF at[p] \in Loaded
       THEN IsState(state[p]) /\ call[p] \in [to : Drawn, preimage : Drawn]
       ELSE state[p] = None /\ call[p] = None

ProcessesOK ==
  /\ at \in [Processes -> Places]
  /\ DOMAIN cmd = Processes /\ DOMAIN key = Processes
  /\ DOMAIN state = Processes /\ DOMAIN call = Processes
  /\ \A p \in Processes : CommandOK(p) /\ ProcessOK(p)
  /\ stale \subseteq {p \in Processes : at[p] \in Loaded}
  /\ undisturbed \subseteq {p \in Processes : at[p] \in {"password", "command"}}

SwitchesOK ==
  /\ id52 \in [Switches -> Drawn]
  /\ invites \in [Switches -> SUBSET Drawn]
  /\ DOMAIN issued = Switches
  /\ \A s \in Switches :
       /\ DOMAIN issued[s] \subseteq Drawn
       /\ \A k \in DOMAIN issued[s] : issued[s][k] \in Drawn
  /\ ble \in [Switches -> [ssid : Networks \cup {None}, password : Networks \cup {None},
                           command : BleCommands]]

TokensOK ==
  /\ DOMAIN given \subseteq Drawn /\ \A t \in DOMAIN given : given[t] \in Drawn
  /\ DOMAIN response_cache \subseteq Drawn
  /\ \A q \in DOMAIN response_cache : response_cache[q] \in Drawn

\* Every variable has its type, and every key and preimage that is anywhere was
\* drawn.  A process holds a key once it is past the key file, and a state and
\* a call once it has begun its work.
TypeOK == HomeOK /\ ProcessesOK /\ SwitchesOK /\ TokensOK

\* What the home directory holds, and what is being written to it.
Records ==
  ({state_json} \ {None, Empty, Garbled})
    \cup {state[p] : p \in {r \in Processes : at[r] \in {"write1", "write2"}}}

\* The preimages of switch d that are held: recorded, about to be saved, or a
\* token that can be typed again.
Held(d) ==
  {r.peers[d] : r \in {x \in Records : d \in DOMAIN x.peers}}
    \cup {state[p].peers[d] : p \in {q \in Processes : At(q, "open2") /\ call[q].to = d}}
    \cup {t \in DOMAIN given : given[t] = d}

\* The home directory can go on using switch s: it is readable, or being
\* written, and it holds the preimage the switch waits for, or one that the
\* relay will answer with it.
InTouch(s) ==
  /\ Records # {}
  /\ \E k \in DOMAIN issued[s], q \in Held(id52[s]) :
       \/ issued[s][k] = q
       \/ q \in DOMAIN response_cache /\ issued[s][k] = response_cache[q]

\* The answer to the message sent with q is with the relay, or with a process
\* that goes on to save it.
AnswerExists(q) ==
  \/ q \in DOMAIN response_cache
  \/ \E p \in Processes : at[p] \in {"open2", "write2"} /\ call[p].preimage = q

\* The answer to q is lost to the home.
AnswerLost(q) == AnswerExists(q) /\ ~ AnswerExists(q)' /\ UNCHANGED homeVars

\* The answer to a token for s begins to be saved.
SavesPairing(s) ==
  \E p \in Processes : /\ At(p, "open2") /\ cmd[p].name = "pair"
                       /\ call[p].to = id52[s] /\ OpenStateFile(p)

\* Whatever commands fail or are killed, a home directory loses a switch only
\* when the answer to a message is lost, when a process is killed inside its
\* write of the state file, when one goes on whose state another has saved over,
\* when the switch is reset, or when a pairing with it is saved once more.
KeepsTouch ==
  [][\A s \in Switches :
       InTouch(s) =>
         \/ InTouch(s)'
         \/ \E q \in Drawn : AnswerLost(q)
         \/ \E p \in Processes : at[p] \in {"write1", "write2"} /\ Stops(p)
         \/ \E p \in stale : at'[p] # at[p]
         \/ id52'[s] # id52[s]
         \/ SavesPairing(s)]_vars

\* The switches know the home by one identity, the one in its file, unless two
\* commands started on a new home at the same time.
OneIdentity ==
  ~ raced => \A s \in Switches : DOMAIN issued[s] \subseteq {identity_key}

\* The credentials a provision has written are together when it writes its
\* command, unless another has written to the same switch in between.
ProvisionIntact ==
  \A p \in undisturbed :
    At(p, "command") =>
      \E b \in {ble[cmd[p].device]} :
        b.ssid = cmd[p].network /\ b.password = cmd[p].network

------------------------------------------------------------------------------
(***************************************************************************)
(* What is not so                                                          *)
(***************************************************************************)

\* Commands at the same time do no harm: a switch is lost only by the loss of
\* an answer, a kill, a reset or a second pairing.
OverlapHarmless ==
  [][\A s \in Switches :
       InTouch(s) =>
         \/ InTouch(s)'
         \/ \E q \in Drawn : AnswerLost(q)
         \/ \E p \in Processes : Stops(p)
         \/ id52'[s] # id52[s]
         \/ SavesPairing(s)]_vars

\* Nor does a token that is used again.
TokenRepeatable ==
  [][\A s \in Switches :
       InTouch(s) =>
         \/ InTouch(s)'
         \/ \E q \in Drawn : AnswerLost(q)
         \/ \E p \in Processes : Stops(p)
         \/ \E p \in stale : at'[p] # at[p]
         \/ id52'[s] # id52[s]]_vars

\* A home whose program was killed can still be used.
HomeUsable ==
  (\A p \in Processes : At(p, "idle")) =>
    identity_key # Empty /\ state_json \notin {Empty, Garbled}

\* The name of a switch names the switch: no peer that is no more has it too.
NameIsCurrent ==
  \A r \in Records : Cardinality(DOMAIN r.peers) <= Cardinality(Switches)

==============================================================================
