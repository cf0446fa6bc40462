# Formal models of Bhumi

Bhumi lets devices and their users talk through a relay that neither knows who
sends nor reads what is sent.  A message is allowed by a *preimage*: the
recipient registers the SHA-256 of it (a *commit*) with the relay, hands the
preimage to its peer, and the relay delivers one message for it.  Each answer
carries the next preimage.

This directory holds TLA+ models of the parts of the repository that have
state, TLC configurations that check them on small instances, and TLAPS proofs
for all values of the constants.  `PROJECT.json` lists components, runs,
mutants, the lines each definition stands for, findings and hazards.

    tlc -workers 2 -config relay_mixed.cfg MCRelay.tla
    tlapm RelayProofs.tla

## 1. Inventory

| Component | State | Operations | Works with |
|---|---|---|---|
| **Relay** `bhumi-relay` | `Router`: `devices` (commits and delivery channel of each identity), `response_cache`, `pending` (who waits for which message id), `next_msg_id`; per connection a `Session` task with its identity and an mpsc channel of 32 | I_AM, UPDATE_COMMITS, SEND, ACK; timeout of 30 s; cache lifetime; disconnection | every node, over TCP; sessions share the router through three locks |
| **Node** `bhumi-node` | `DeviceState` on disk: `invites`, `pending_peers`, `peers` (role, issued preimages, their preimage) | `create_invite`, `pair`, `send`, `run` (handshakes, commands, built-in commands), `save`, `load` | the relay, twice: a signed connection to receive on, an anonymous one per call |
| **Wire format** `bhumi-proto` | none of its own; a frame half read | `Frame::write_to`, `read_from`, `read_frame`, `to_bytes`/`from_bytes` of each message | everything |
| **ESP32 switch** `examples/esp32-smart-switch` | NVS: key, invites, peers, LED, WiFi credentials; the slot in which BLE callbacks leave a command | the serving side of Node once more, BLE provisioning and reset | relay; BLE callbacks share a mutex with the main loop |
| **Kaya** `bhumi-kaya/kaya.js` | chord buffer, pressed keys, two timers, reading queue | keydown, keyup, space, timeouts | a browser |
| **Node identity** `bhumi-node/src/identity.rs` | the key file of a home directory | `load_or_create` | every program that is a node |
| **Switch controller** `examples/switch-controller` | none in memory: each command is a process over the home directory | `pair`, `list`, `<switch> on` and its like, `ble scan`, `ble provision`, `ble reset` | Node's `pair` and `send`; the BLE controller; other commands, through the files |
| **BLE controller** `bhumi-ble-controller` | a connection while a command runs | `scan`, `provision`, `reset` | the characteristics of a switch |
| **MCU**, **hub**, **fastn-id52** | none worth modelling | constants and traits; stubs; keys and signatures | |

What is hard, and what makes each part correct:

* *Relay.*  Handlers are interleaved at every `.await`, hold no lock across
  them, and keep copies (the recipient's channel, a message id) of what other
  tasks change meanwhile.  Correct means: a preimage is good for one message
  per grant; messages reach only a connection that proved the identity; an
  answer gets back to the sender that waits for it and to nobody else; every
  SEND comes to an outcome; a retry finds the answer that was given.
* *Node.*  Execution, save, commit frame and acknowledgement are separate
  steps, each of which may be the last; calls time out with their outcome
  unknown and are repeated; both directions of a pairing share one record.
  Correct means: a preimage is honoured once; a command is attributed to its
  sender, who is not named in it; what a peer may use is registered; two nodes
  stay in touch.
* *Wire format.*  Streams cut frames anywhere, and two of the three readers
  give up reads; lengths of 16 and of 32 bits are nested under one limit, and
  the relay puts what it took out of one message into another.  Correct means:
  what is handled is what was written, and nothing is made of a part of it.
* *ESP32 switch.*  As Node, with a second actor (BLE), several flash writes per
  change and a fixed read buffer.
* *Switch controller.*  Two commands may run at the same time and share two
  files without a lock; each loads at its start and saves what it loaded up to
  30 s later; a write to a file truncates it first.  Correct means: the home
  keeps its identity and its switches, and credentials are not mixed.
* *Kaya.*  Timers outlive the state they were started for.

## 2. Modules

    Maps                       a HashMap as a function
    Relay  <- RelayRefinement  the relay, and how it implements RelayService
    RelayService               what the relay promises
    MCRelay                    instances for TLC
    RelayProofs                theorems of Relay and RelayRefinement
    Node   <- MCNode           nodes and what they see of the relay
    FrameStream <- MCFrameStream     frames on a stream, and their readers
    WireFormat  <- MCWireFormat      messages in frames, and who passes them on
    SwitchController <- MCSwitchController    commands over a home directory
    Esp32Switch <- MCEsp32Switch     the firmware of the switch
    Kaya   <- MCKaya                 the chord keyboard
    NodeProofs <- NodeTouchProofs    theorems of Node; that nodes stay in touch
    FrameStreamProofs, WireFormatProofs, SwitchControllerProofs, Esp32SwitchProofs,
    KayaProofs                 theorems of the module they are named for

### Relay

One action per critical section: a handler is cut exactly where the code takes
a lock of the router, sends on a channel, waits or writes.  `pc[s]` is the place
where the task of connection `s` is, `local[s]` the local variables it has
there.

| Code | Actions |
|---|---|
| `Server::run`, `Session::run` | `Accept`, `Disconnect`, `SendDelivery` |
| `handle_i_am`, `Router::register`, `unregister` | `HandleIAm`; `Unregister`, `Reregister` when the connection had an identity |
| `handle_update_commits` | `AddCommits` |
| `handle_send`, `Router::route_message` | `CheckCache`; `NotConnected`, `StaleEntry`, `InvalidPreimage` or `ClaimCommit`; `RegisterPending`; `QueueDelivery`, or `QueueClosed` and `WithdrawPending`; `ReceiveResponse` or `TimeOut`; `WriteResult` |
| `Router::handle_ack` | `TakePending`, `CacheResponse`, `SendResponse` |
| cache lifetime, process | `Expire`, `Restart` |

A connection that ends takes its task with it and leaves its binding behind,
as in the code (see the findings).  Signatures are perfect: `Owns[s]` are the
identities whose key the client of `s` has, of which it may use one after the
other.  Beyond that a client is not trusted, because the Router does not check
it: `TakePending` accepts an ACK of *any* message id from any connection, as
often as it comes, also after a reconnection or for an id of the time before a
restart, and `HandleIAm` caches whatever responses a client uploads
(`Uploads`).  `Batches` are the sets of commits that a client registers at once.
Payloads, HELLO, nonce and logging are abstracted; `cleanup_cache` has no caller
and no action.

History: `issued`, the preimage each message id was drawn for, and `delivered`,
which ids were written to which connection, both since the last restart;
`answered`, the responses acknowledged under an id of a preimage or uploaded
under it; `spent`, the rights used.  So an answer is *genuine* when it was given
to its preimage, by whomever; that the one who gives it had the delivery is not
so in the code (`AckFollowsDelivery`, section 5).

`RelayService` states the promise without tasks: rights `<<device, preimage>>`
are granted and used up, a message is `underway` until it is delivered (its id
has `arrived`) or lost, and, apart from that, `asked` until it is answered; a
call ends with an answer that was given to its preimage, or with a status.
Each message is delivered once and answered once.  `RelayRefinement` maps the
commits held to the rights, the messages in tasks and channels to those that are
underway, the pending entries to those asked, and each handler to its call.

### Node

A node is one sequential program, because `run`, `pair` and `send` borrow it
mutably: `task[n]` says whether it serves, has a call open, or writes the frames
of a handler.  The relay is reduced to what a client can tell: `commits`,
`response_cache`, and the frames on the way up and down a serving connection.

| Code | Actions |
|---|---|
| `create_invite` | `CreateInvite`; the token is given to one holder, as the protocol asks ("One token = one peer") |
| `pair`, `accept_invite`, `complete_handshake_as_acceptor` | `Pair`, `HandshakeAccepted`, `HandshakeRejected`, `Fail` |
| `send` | `Send`, `CommandAnswered`, `Fail` |
| `run`, `receive` | `Run`, `RunEnds` |
| `handle_handshake` | `AcceptHandshake`, `RejectHandshake`, then `WriteFrame` per frame |
| `handle_command`, `dispatch_command` | `Unauthorized`; `RunHandler`, `RefuseCommand`, `InviteCreate`, `InviteDelete`; then `RenewPreimage`; then `WriteFrame` per frame |
| relay | `CachedResponse`, `Refused`, `RouteMessage`, `RegisterFrame`, `CommitsFrame`, `AckFrame`, `Expire`, `RelayRestart` |
| links and processes | `Disconnect`, `Crash` |

`save` follows each change at once, so memory and disk differ only while a
command has been executed and its preimage not yet renewed (`task.at =
"renew"`).  A crash there lets the command run again: `Crash` takes it out of the
history `executed`, so that `HonouredOnce` allows this repetition, and says that
nothing but such a kill (`KilledUnsaved`) takes anything out of it.
A call whose caller gave up leaves its message on its way (`Fail` after
`RouteMessage`).  Aliases, relay addresses, timestamps, JSON and the commands
that only read (`node/info`, the lists) are left out; "writer" is treated like
"reader" by node.rs.

`InTouch(n, m)` says that `n` can go on talking to its peer `m`: with the preimage it
holds, or with one it comes to when it sends with that once more and is told
the next (`Told`, from the responses that exist).  A chain of such answers is
followed by the sets that are `Closed` under them.  `StaysInTouch` allows three
ways to lose touch, each of which TLC finds when it is left out: what
`BreaksOff` (a crash, a lost link, a call given up) takes along a response that was
`Onward` of what `n` holds, and the two sides of a new pairing (`PairsAnew`).  Only
that an inviter accepts a known peer again needs more values than the runs
have; there the theorem, not TLC, says that nothing else goes wrong.

### FrameStream

A frame is its type, its length and the units of its payload, each a cell of
the stream, and a payload may look like any header.  `got` is what the pending
`read_exact` has taken; `GiveUp` loses it, in `DropRead` (the relay's `select!`
prefers a delivery) and in `TimeOutRead` (the firmware's 500 ms).  What the end
of a connection loses of what was written is not modelled: the reader then sees
a shorter stream.

### WireFormat

A message is a layout, a sequence of kinds of fields (`Layout.SEND = <<"key", "key",
"blob">>`), and its values.  `ToBytes` and `FromBytes` are the pairs `to_bytes`
and `from_bytes` of lib.rs, told once for all messages: a key is `KeyLen` cells,
a blob has a length before it, the length of an address and the count of a list
are taken modulo `W16`, an address must be UTF-8, and what follows the last
field is ignored.  Reading goes by position, like the `pos` of the code: each
field is read at the place where the one before it ends, and is either a value
and the next place, or truncated.

| Code | Actions |
|---|---|
| `Connection::handshake`, `Session::run`, `handle_i_am` | `SendHello`, `SendIAm`, `HandleIAm` |
| `update_commits`, `handle_update_commits` | `SendCommit`, `HandleUpdateCommits` |
| `Connection::send`, `handle_send`, `send_delivery` | `SendCall`; `HandleSend` or `SendFails` |
| `handle_handshake`, `handle_command`, `Connection::receive` | `HandleDeliver`, `DeliverRefused` |
| `handle_ack` | `HandleAck` |
| `Node::pair`, `Node::send` | `HandleResult`, `ResultRefused`, `HandleError` |
| `read_frame`, a body that does not parse | `FrameRefused` |

`call`, `heard`, `reply` and `told` are what the devices said and understood;
`written` is what is in the frame.  Lengths of 32 bits do not wrap: they count
what is in memory, and a frame of more than 1 MiB is refused by its reader.  A
number of 32 bits is one cell.  Nodes exchange handshakes and JSON, and a JSON
answer may have a preimage appended; `DeviceMessage` and its response are sent
only by a program that uses a `Connection` itself.  A text is an object of one
level, which is what can be told of it by where it ends.  `max_payload_size` of
HELLO is read by nobody.  `IAm::new` gives no responses, so the frames of the
model carry none; how a list of them is written and read is in `FieldBytes` and
`FromResponses`, and `RoundTrip` proves it for lists of any length.  The bodies
are those that programs write: a payload of a stranger that is no message, and
ends `run`, is not among them.

### SwitchController

`at[p]` is where the process `p` is in its command, and `state[p]` the `DeviceState`
it loaded.

| Code | Actions |
|---|---|
| `main`, the `Commands` of the command line | `Start` |
| `load_or_create` | `LoadOrCreate`, `OpenKeyFile`, `WriteKeyFile` |
| `DeviceState::load` | `LoadFails`, or within the three below |
| `cmd_list`, `cmd_pair`, `run_switch` | `ListPeers`, `PairBegins`, `SendBegins` |
| `DeviceState::save` (`fs::write`) | `OpenStateFile`, `WriteStateFile` |
| `Node::pair`, `Node::send` | `Delivered` or `CachedResponse`, with `Answered` or the end of the command |
| `provision`, `reset` | `WriteSsid`, `WritePassword`, `WriteCommand` |
| the switch | `TakeProvision`, `TakeReset`, `Invite`, `PowerLost` |
| the relay; the user or the system | `Expire`; `Stops` |

Two processes that write one file leave it as the later one wrote it, or
`Garbled` when the earlier one wrote a longer text.  That the switch answers, and
that the answer reaches the process, is one step or, when the process is gone or
gave up, none: the other orders of a call are in Node and Relay.  `InTouch(s)` says
that the home still holds, or will be given, a preimage that the switch accepts.
All commands of `<switch>` send one command and renew one preimage, so they are
one; every pairing has the default alias, since only the order of the map decides
between two peers of one name.  `config.json` is written once and only printed.
`ble scan` only reads.

### Esp32Switch

The firmware is one loop on one thread; `task` is the place it is at.  Flash
(`nvs`) is written key by key, and power can be lost between any two writes.

| Code | Actions |
|---|---|
| `main`, up to the loop | `Boot`, which ends with or without WiFi; `CreateOwnerInvite`, `GetInviteToken` or `Paired` |
| BLE callbacks, on a thread of their own | `WriteSsid`, `WritePassword`, `WriteReset`, `WriteProvision` |
| `check_ble_command`, `save_wifi_credentials`, `reset_device` | `TakeCommand`, `NoCommand`; `Flash` per key, the last one with the restart |
| `Connection::connect` | `Connect`, `SignIn` (I_AM follows HELLO and is not answered) |
| `run_connection`, `receive` | `ReadTimesOut`, `RunConnectionFails`, `WriteFrame` per frame |
| `handle_handshake`, `handle_command` | `AcceptHandshake`; `SwitchLight` or `ReadStatus`, `SaveLedState`, `RenewPreimage`; `Refuse` |
| relay, owner | `RegisterFrame`, `CommitsFrame`, `AckFrame`, `Expire`; `OwnerSends`, `OwnerIsAnswered` |
| links and power | `Disconnect`, `PowerLost` |

The firmware makes owner invites only, so that no peer has another role, and the
role checks and what they refuse are left out.  WiFi works, or does not, by
choice at each start.  A network stands for its ssid and its password, so that a
mixed pair can be told.  `Stored` is what flash holds of the state and `LoadState`
what the next start makes of it, which is an empty state when `Stored` outgrows
the `Buffer`.  The size of a state (`Size`) is a unit per record and the length
of the relay address that the peer gave in its handshake, which the code stores
whatever its length (state.rs:153).  A write of the key or the state that fails
panics, which is a loss of power before it; one of the light is logged and
ignored, and left out.  `known` is what the owner was told of the light,
`executed` and `refused` are history.

### Kaya

One action per event handler and per timeout.  `KeyDown`, and the keyup of the
space bar in its cases: `TurnPage`, `AddChord`, or an action per kriya
(`ExecuteSwitchMode` ... `ExecuteUnknown`); `ClickMode`, `AddKriya`; the two
timers count seconds (`Tick`, `TimerFires`), `PageTurns` and `SequenceEnds` are
the other timeouts.  Patterns are blank, a signal or a page, and a sequence of
patterns is one signal and the blank that ends it.  `pressedKeys` only filters
the repetition of a held key and is left out, as are the labels that
`promptAddPratyaya` changes.

## 3. Runs

At most a dozen runs are kept: those that ask the questions above, and one
disagreement with the documents that no other run is near to.

| Run | Shows |
|---|---|
| `relay_mixed` | types, message ids, wakeups, one-time rights and the refinement, when one connection sends, one receives and one does both, any id is acknowledged by anybody and responses are uploaded |
| `relay_owners` | identities and answers are not confused, with two of each, and answers are kept; one connection may sign in as either device |
| `relay_roles` | liveness of SEND and of the delivery queues |
| `node_service` | attribution, at-most-once, registered preimages and staying in touch, with a device and two clients |
| `node_mutual` | the same for two nodes that serve and call each other, with the built-in commands, and the types |
| `node_retry` | repeating a command converges |
| `stream_whole` | frames are intact and arrive, for each of the readers |
| `wire_messages` | every message arrives as it was written, at every length around the limits; no part of one is taken for a whole; the relay writes nothing its reader refuses |
| `controller` | what can make a home directory lose a switch is named completely; a home has one identity; credentials are not mixed |
| `switch_service` | the switch keeps its light, its peer and its invite through any loss of power, unless the address of its peer outgrows the buffer; it honours a preimage once and serves BLE |
| `kaya_input` | input is cancelled in time, reading and input exclude each other, the keyboard comes to rest |
| `stream_cut` | a disagreement, below |

Each property of a passing run has a mutant: a plausible bug in the code it
speaks about (`..._peek`, `..._noUpdate`), defined beside the action it replaces,
under which TLC finds the property violated.

**Bounds.**  `MaxSends` 2 message ids between restarts: two SENDs in flight are
what ids, wakeups and rights can be confused by, and a restart hands them out
again, with late ACKs of the ids before it.  `ChanCap` 1 lets the channel be full,
which 32 would not.  Three connections are a sender, a recipient and one that may
be either: two of one identity, or two senders racing.  In `relay_owners`, two
preimages and two answers tell whose an answer is and a stale one from a new one;
one upload, given in an ACK or not, is enough to be found under a preimage it
was not given to.  In Node,
`MaxPairing` bounds the preimages drawn before the last pairing begins and
`MaxFresh` those drawn before the last command: with 5 and 6 two
clients pair and the first sends its command before or after the second has
paired, with crashes and lost answers between (the command deletes an invite, so
that a token can be refused); with 5 and 5 two nodes pair in both directions, or
pair again and send commands.  FrameStream writes two frames,
because what a cut does to a frame shows in the next; lengths 1 to 3 with
`MaxLen` 2 include a frame that is too large.  WireFormat is parametric in its
widths, and the instance keeps their order: three cells for a key, three bits
for a length of 16, and a `MaxLen` of 23 under which an address outgrows its
length and a list of keys cannot (`WireAssumption`, true of 32, 2^16 and 2^20).
The texts are such that a SEND, a DELIVER, an ACK and a SEND_RESULT each just
fit and just do not; a key of white space and one that ends like a text are
among the preimages.  In SwitchController two processes are those that race;
`MaxPairing` 4 bounds the values drawn before the last invite or reset and
`MaxFresh` 5 those drawn before the last command starts, which is one switch,
a race for the key, an invite, its pairing and a command after it.  It also passes with 4 and
6, with 5 and 5, and for one process with 6 and 7.  In Esp32Switch, `MaxFresh` 6
bounds the keys and preimages drawn before the last message or reset: a key, an
invite, the preimage of the pairing and those of a few commands, or a
reset and a second pairing; a `Buffer` of 2 holds the one record there is, and
not with the address of 2 that a peer may give, or not give.  In Kaya, two chords are the longest sequence that
any global kriya has, `MaxTurning` 2 lets a page be turned while
another is turning, and with `MaxChains` 1 one sequence at a time is shown; the chords
are those the kriyas consist of, and one that is part of them.

**Symmetry** of clients (`node_service`), and of processes and networks
(`controller`), is used in runs of safety properties only.

**Fairness.**  `Relay!FairSpec`: weak fairness of every handler (tokio runs a
task that can run, `timeout` fires) and strong fairness of writing a delivery
(`select!` chooses at random among the ready branches, and the client reads its
socket).  `UnreadSpec` drops the second.  Nothing is assumed of clients:
they need not answer, send or stay.  The process does not stop in these specifications,
since what it owes it owes while it lives.  `Node!FairSpec`: programs run
their handlers, the relay handles frames, a call that was routed times out, a server
is started again, and a user repeats a command whose outcome is not known;
`Calm` says that from some time on
nothing breaks, where calls may still be refused, rejected or time out.  `FrameStream!FairSpec`: a
writer finishes the frame it has begun, a reader reads.  `Esp32Switch!FairSpec`:
the loop runs (its reads time out after 500 ms), and a relay that accepts a connection says HELLO or the
connection breaks, because the read of HELLO has no timeout; nothing
is assumed of BLE clients, the owner or the links.  `Kaya!FairSpec`: time
passes, and the browser runs the timeouts that are due; users need not press anything.

Deadlock is checked in all runs but the two of FrameStream, where a closed
connection stops, and so does a writer after its last frame, and `controller`,
where nobody types once the bounds are reached.

## 4. Proofs

Each theorem is proved for every value of the constants that its module assumes
something of, and for runs of any length: the bounds of section 3 are parameters
here.  Every property below is also checked by a run.

| Module | Theorem | Statement |
|---|---|---|
| `RelayProofs` | `RelayTypes` | `Spec => []TypeOK` |
| | `RelaySingleUse`, `RelayOwners` | `Spec => []SingleUse`, `[]OnlyToOwner` |
| | `RelayRouting` | `Spec => []RoutingInv` |
| | `RelayWakeup` | `Spec => []AnswerWillFindSender` |
| | `RelayAnswers` | `Spec => []AnswersAreGenuine` |
| | `RelayImplementsService` | `Spec => ImplementsService`: the relay implements `RelayService` |
| | `RelayKeepsAnswers` | `Spec => AnswerKept` |
| `NodeProofs` | `NodeTypes` | `Spec => []TypeOK` |
| | `NodeAttributes` | `Spec => []CommandsAttributed` |
| | `NodeReachable` | `Spec => []IssuedReachable` |
| | `NodeHonoursOnce` | `Spec => HonouredOnce` |
| `NodeTouchProofs` | `NodeStaysInTouch` | `Spec => StaysInTouch` |
| `FrameStreamProofs` | `StreamTypes`, `StreamIntact` | `Spec => []TypeOK`, `[]FramesIntact` |
| `WireFormatProofs` | `RoundTrip` | what `to_bytes` writes, `from_bytes` reads, whole, for every message and any lists of keys and responses that 16 bits count; no beginning of it is taken for a message |
| | `WireTypes` | `Spec => []TypeOK` |
| | `WireIntact`, `WireForwards` | `Spec => []Intact`, `[]Forwards` |
| `Esp32SwitchProofs` | `SwitchTypes`, `SwitchFits` | `FairSpec => []TypeOK`, `[]StateFits` |
| | `SwitchReachable` | `FairSpec => []IssuedReachable` |
| | `SwitchHonoursOnce` | `FairSpec => HonouredOnce` |
| | `SwitchKnowsLight` | `FairSpec => []OwnerKnowsLight` |
| | `SwitchStaysInTouch` | `FairSpec => StaysInTouch` |
| `SwitchControllerProofs` | `ControllerTypes` | `Spec => []TypeOK` |
| | `ControllerIdentity` | `Spec => []OneIdentity` |
| | `ControllerProvision` | `Spec => []ProvisionIntact` |
| | `ControllerKeepsTouch` | `Spec => KeepsTouch`, from `StatesAreReadable` |
| `KayaProofs` | `KayaTypes`, `KayaMore` | `FairSpec => []TypeOK`, `[]MoreIsTrue` |
| | `KayaReading`, `KayaCancels` | `FairSpec => []ReadingHoldsNothing`, `[]CancelIsDue` |

**Assumptions.**  The `ASSUME` of each module and nothing else, but for
`ControllerKeepsTouch`.  They say what the code fixes: the capacity of a channel
is positive, what stands for an absent value is no value, and `Switches` is
finite, because the identities it starts with are counted.  Of the wire they
say that a frame holds a HELLO and fewer than 2^16 keys (`WireAssumption`), that a
text ends where its object does (`TextAssumption`), and that `{` is the tag of no
message of devices, by which a callee tells them apart.  `StatesAreReadable`
says that no `DeviceState` is what a missing, truncated or spoilt file holds.  It
is a hypothesis of the theorem and no `ASSUME` because it speaks of all records;
TLC takes it for granted, since a model value equals no record.

**Inductive invariants.**  What each proof needs beyond the property, and why:

* *Relay.*  `SingleUse /\ OnlyToOwner` is inductive given the types.  That
  answers are genuine is not: an ACK finds its sender by message id, and anybody
  may name any id, so one needs that all that is filed, held, queued or delivered
  under an id belongs to the preimage the id was drawn for (`IdsAgree`), that two
  SENDs never share an id (`OwnIds`), and that a message still to be queued is in no
  channel, with no client and, before it is registered, not to be answered
  (`NotQueuedYet`); these make `RoutingInv`, which is inductive and checked by
  `relay_mixed`.  `AnswersInv` adds the answers that tasks hold on their way.  A
  restart takes `issued` and every holder of an id away together, which is why the
  ids that are drawn again do no harm within the relay.  `AnswerKept` is an action
  property: it lists the ways in which a cached answer may disappear or be
  replaced, by a newer ACK or an upload for the same preimage.
* *Refinement of the relay.*  Each handler is a step of the abstract call or
  changes nothing there.  There a message is delivered once, so that here none may
  be queued twice or be queued when it was delivered: `OneCopy`.
* *Node.*  A command names no sender; it is attributed by its preimage.
  `OwnedInv` says that there are two functions, who drew a preimage and for whom,
  which everything that is stored, sent, cached or answered agrees with; the
  functions grow with each value drawn.  `IssuedReachable` needs that the I_AM, which
  *replaces* the commits, is the first frame of a connection (`ReachableInv`):
  an UPDATE_COMMITS it overtook would be lost.  `HonouredOnce` needs that a
  preimage that was honoured is in no table, or is the one being renewed
  (`RetiredInv`).
* *Node, staying in touch.*  A step that takes a response away, or a preimage out
  of what is accepted, must leave nobody behind it.  `OnceInv` says what that
  takes.  `OnePlace`: a preimage is in one place at a time, as a commit on its
  way, registered, as a message, or being renewed, because a second copy could
  be answered after the first.  `IssuedOnce` and `OfferUnused`: what a node accepts, or
  offers in a handshake, was not answered yet.  `AnsweredOnce`: what was answered
  with a next preimage is nowhere in use, and all copies of its response name
  the same next one; so the loss of one copy matters only if it is the last, and
  a chain of answers has no second branch.  `RenewsIssued` and `CallsCurrent`: what is
  renewed is still issued, and a command is sent with what its peer issued last, so
  that a response never overwrites a newer preimage.  The proof goes by what a step
  can do to responses, commits and places (`AnswersFrom`, `AnswersKept`, `Moves`), told once
  for all actions.
* *FrameStream.*  `StreamInv`: what was handled, taken, on the wire and
  unwritten is, end to end, what was sent; the cut of the stream into frames is
  a sequence of positions, and the reader stands at one of them.  Hence payloads
  that look like headers do no harm unless a read was given up (`cut`).
* *WireFormat.*  `RoundTrip` is an induction over the fields of a message, and inside
  it over the keys or the responses of a list.  The induction theorems of the library take an operator;
  `EveryNumber` says the same of a set, from the well-foundedness of the finite sets.
  A message is laid out end to end (`Laid`), each field is read at the place where
  it was laid, and a beginning of the message is too short for one of them.
  A response of any length has at least the cells of its preimage, so that a frame
  within the limit holds fewer than 2^16 of them (`CountBounded`).  `WireInv` is `FrameInv` (the cells on the way are
  those of the values written, and carry the call or the answer), `BodiesInv` (what was
  heard or told was made of the cells of what was said) and `RefusedInv` (who refuses a
  body could make none of it); with `RoundTrip` it gives `Intact` and `Forwards`.
* *Esp32Switch.*  `StateFits` says that a state that outgrows the buffer has an
  address that does so beside a single record.  It is inductive as *one record at a
  time* (`OneRecord`), with what memory holds: the state that was loaded, and from
  the first save on the one that is stored.  `OwnerKnowsLight` needs the order in which flash is written:
  a reset removes the key first (`ResetInOrder`), memory agrees with flash outside
  of a write, a command under way was sent with what the owner holds
  (`CommandsAreHeld`), what was answered is retired, and an answer that exists tells the
  light and the preimage that are current (`AnswerIsCurrent`); together
  `LightInv`.  `StaysInTouch` follows from it step by step.
* *SwitchController.*  `IdentityInv` says where a process may be in
  `load_or_create` while there is no key in the file, `ProvisionInv` which of
  the two characteristics an undisturbed provision has written.  `KeepsTouch` rests on
  five invariants.  `CopyInv`: a process that was not overtaken has in memory all
  that the file holds, but for the peer that has answered.  `IssuedOnce` and
  `AnswersInv`: a preimage waits in one place, nobody waits for one that was
  answered, and all copies of an answer agree.  `NamedInv`: a preimage belongs to one
  switch, wherever it is kept (as in Node, by a function that exists).  `Unshared`: an answer that the
  relay still has, while the process that got it has not begun to save it, is nowhere else, so that
  the death of this process takes nothing with it: sending the message again
  brings the answer back.
* *Kaya.*  `ReadingHoldsNothing` is inductive alone.  `CancelIsDue` is not:
  turning a page clears both timers, which leaves input without one unless
  nothing is held while pages are read; the two and the types of the timers make
  `InputInv`.

Invariants that only a proof needs are in its module, but for those of Relay.

**Only model-checked.**  Liveness (`SendAnswered`, `QueueDrains`,
`RetryConverges`, `FramesArrive`, `BleServed`, `ComesToRest`), which needs
ENABLED.  All other properties of the passing runs are theorems.

## 5. Findings

With a run (and in `PROJECT.json`, with the lines quoted):

* `stream_cut`: a delivery that is ready while a frame is half read makes the
  relay read on in the middle of the frame.  The firmware's read timeout does
  the same.

Without a run of their own; each is a property at the end of its module that TLC
refutes within minutes when put into the cfg named:

| Property | Cfg | The document | The code |
|---|---|---|---|
| `BindingForgotten` | relay_mixed | "Binding is forgotten on disconnect" | the cleanup after the loop of `Session::run` is never reached: the loop is only left by `?` (session.rs:57) |
| `RetryIsSafe` | relay_mixed | "Preimage acts as idempotency key — safe to retry" | a retry while the first SEND is in flight finds neither commit nor cached response and is refused as an invalid preimage (router.rs:195) |
| `SendAnswered` | relay_roles with `SPECIFICATION UnreadSpec` | relay protocol: "Sender always learns the outcome", "blocks until recipient responds or error" | a recipient that stays connected and does not read fills its channel, and a SEND that waits for room there waits for ever: the timeout covers only the wait for the answer (router.rs:229) |
| `AckFollowsDelivery` | relay_mixed | relay protocol, ACK: "Response to DELIVER" | the relay takes any message id from any connection: an ACK of a delivery before a restart, or of one that somebody else had, completes whatever SEND has the id now (session.rs:168, router.rs:120) |
| `TimeoutMeansConnected` | relay_mixed | relay protocol: 3 "connected but didn't ACK", 4 "disconnected during delivery" | a disconnected recipient is reported as a timeout (router.rs:247-261) |
| `BindingBelongsToConnection` | relay_mixed | "Relay binds this TCP connection to id52" | a second I_AM removes the binding of another connection of the identity (router.rs:98) |
| `InviteReachable` | node_mutual | "Alice registers `commit` with relay" | an invite created by a command is not registered until the next connection (node.rs:401) |
| `CancelRevokes` | node_mutual | "On cancel: ... revoke commit from relay" | the commit stays (node.rs:435) |
| `RejectedForgotten` | node_service | "status≠0: remove from `pending_peers`" | it stays (node.rs:198) |
| `InviterCanReply` | node_mutual | both devices have "a preimage to send the next message" | a repeated pairing replaces `my_preimage` after the inviter stored the first (state.rs:246) |
| `FreshPreimageAccepted` | node_service | the same | the answer to the handshake precedes the commit of its preimage (node.rs:325) |
| `AnswersOwnCommand` | node_service with two nodes `Nodes = {device, phone}`, `Clients = {phone}`, `Commands = {on, off}`, `BuiltIns = {}`, `MaxPairing = 6`, `MaxFresh = 6` | connection.rs:79 "Send a message to another device and wait for response" | after a call that timed out, a *different* command is answered with the cached response to the first, and not executed (node.rs:218) |
| `RoleKept` | node_mutual with `MaxPairing = 6` | state.rs:296 "not used on acceptor side" | accepting an owner's invite makes the owner a reader (node.rs:347) |
| `ResetClears` | switch_service | ble.rs:229 "clear all NVS data" | power lost between two removals leaves the new key the old peer, and no invite is made (ble.rs:235) |
| `StateLoads` | switch_service | state.rs:59 "Load or create device state from NVS" | the relay address of a peer is saved whatever its length (state.rs:153), and a state of more than 4096 bytes is not read back: the peer is gone after the next start (state.rs:238) |
| `CredentialsTogether` | switch_service with `Networks = {home, cafe}` | ble.rs:202 "Save WiFi credentials to NVS", as one pair | ssid and password of two attempts, or of one cut by a loss of power, are used together (ble.rs:132, 203) |
| `CancelledInQuiet` | kaya_input | GRAMMAR.md:111 "Auto-cancel: 2 seconds of no input" | the timer of the last chord goes on while the next is pressed (kaya.js:282) |
| `NoPageMissing` | kaya_input | GRAMMAR.md:119 "Space: advances to next pratyaya" | a second space, or a chord, before the page has turned lets the timeout take a page that is not there (kaya.js:158) |
| `PageStays` | kaya_input | GRAMMAR.md:122 "user-paced consumption" | a sequence that is still being shown overwrites the page (kaya.js:131) |
| `KriyaIsExecuted` | kaya_input with `NewKriyas <- ExampleOfPrompt` | kaya.js:434 'Chord sequence (e.g., "1", "12", "14_1")' | a kriya that begins with 14_ is taken for a switch of mode (kaya.js:341) |

No document promises the following of `switch-controller`; a user would expect it,
and TLC refutes it.  `KeepsTouch` and `OneIdentity`, which the run checks, name
exactly these ways and hold without them.

| Property | Cfg | The code |
|---|---|---|
| `OverlapHarmless` | controller | two commands at the same time: the later one saves the state it loaded before the earlier one saved, and a preimage the switch has renewed is lost (state.rs:196, node.rs:261) |
| `TokenRepeatable` | controller | a token typed again while the relay caches the answer is answered with the preimage of the first pairing, which replaces the current one (node.rs:177); the protocol asks not to reuse a token |
| `HomeUsable` | controller | a process killed inside `fs::write` leaves an empty file, and every later command panics at load (state.rs:211, identity.rs:45) |
| `NameIsCurrent` | controller with one process, `Networks = {home}`, `MaxPairing = 7`, `MaxFresh = 8` | a switch that was reset and paired again has the name of the peer it was before, and a command goes to either (state.rs:382) |

## 6. Not modelled

Not modelled: the hub (stubs of a server to come), the MCU crate (constants and
traits without an implementation here), fastn-id52 (a wrapper of an Ed25519
library and of the system keyring).  Two limits of the code are beyond an
instance worth running and beyond what a property could add: the 32-bit message
id, which overflows after 2^32 SENDs (router.rs:210), and the maps of the relay
that nothing cleans up (`pending` after a timeout, router.rs:254; `cleanup_cache`
has no caller, router.rs:265).  A node that has issued so many commits that its
I_AM exceeds 1 MiB can never sign in again; WireFormat shows the refusal, for a
list of its size.

What could be added: the **composition** of a switch with the task-level relay,
instead of with what a client can tell of it; the two meet in `RelayService` on
one side and in the relay actions of Node and Esp32Switch on the other, which are
compared here by reading only.
