-------------------------------- MODULE Relay --------------------------------
(***************************************************************************)
(* The relay server, bhumi-relay: the Router shared by every connection    *)
(* (router.rs) and the Session task that serves one connection             *)
(* (session.rs, server.rs).                                                *)
(*                                                                         *)
(* A session is a sequential task on a multi-threaded tokio runtime.  It   *)
(* may be preempted at every `.await', so a handler is split exactly where *)
(* the code takes a lock of the Router, sends on a channel, waits or       *)
(* writes to its socket: one action per critical section.  The frame that  *)
(* starts a handler is read in the same action as the handler's first      *)
(* critical section, because reading touches only the session's own        *)
(* socket.                                                                 *)
(*                                                                         *)
(* Payloads, logging, the HELLO frame and the nonce are abstracted.  An    *)
(* answer is a member of Responses, a request is named by its preimage.    *)
(***************************************************************************)
EXTENDS Integers, Sequences, FiniteSets, Maps

CONSTANTS
  Sessions,   \* connections the listener will ever accept
  Senders,    \* sessions whose client issues SEND
  Receivers,  \* sessions whose client issues I_AM, ACK and UPDATE_COMMITS
  Devices,    \* id52 identities
  Owns,       \* the identities whose key the client of each session holds
  Preimages,  \* one-time preimages
  Responses,  \* answers a recipient may put in an ACK
  Batches,    \* sets of commits a client may register at once
  Uploads,    \* recent responses a client may bring along, by preimage
  ChanCap,    \* capacity of a session's delivery channel (32 in the code)
  MaxSends,   \* bound of the model: message ids handed out between restarts
  Expired,    \* a cached answer whose time to live has passed
  None        \* the absent value of an Option

\* SHA-256 is modelled as an injection into values that are not preimages.
Sha256(p) == [sha256 |-> p]
Commits   == {Sha256(p) : p \in Preimages}

ASSUME RelayAssumption ==
  /\ Senders \cup Receivers \subseteq Sessions
  /\ ChanCap \in Nat \ {0}
  /\ MaxSends \in Nat
  /\ Owns \in [Sessions -> SUBSET Devices]
  /\ Batches \subseteq SUBSET Commits
  /\ Uploads \subseteq UNION {[ps -> Responses] : ps \in SUBSET Preimages}
  /\ Expired \notin Responses
  /\ None \notin Devices \cup Responses

VARIABLES
  \* the tasks
  pc,              \* where each session's task is
  local,           \* the local variables of the handler it is running
  id52,            \* Session::id52
  queue,           \* the mpsc channel of deliveries to the session
  \* the Router
  devices,         \* Router::devices
  response_cache,  \* Router::response_cache
  pending,         \* Router::pending
  next_msg_id,     \* Router::next_msg_id
  \* history: what the properties speak of
  issued,          \* the preimage of each message id, since the process started
  delivered,       \* <<session, message id>> written, since the process started
  answered,        \* the answers given to each preimage
  spent            \* <<device, preimage>> used and not granted since

routerVars  == <<devices, response_cache, pending, next_msg_id>>
historyVars == <<issued, delivered, answered, spent>>
vars == <<pc, local, id52, queue, routerVars, historyVars>>

(***************************************************************************)
(* Data                                                                    *)
(***************************************************************************)

MsgIds  == Nat \ {0}

SEND_OK                   == 0
SEND_ERR_NOT_CONNECTED    == 1
SEND_ERR_INVALID_PREIMAGE == 2
SEND_ERR_TIMEOUT          == 3
SEND_ERR_DISCONNECTED     == 4

PendingDelivery == [msg_id : MsgIds, preimage : Preimages]

(***************************************************************************)
(* Where a session's task can be:                                          *)
(*   "new"       not accepted yet          "select"    run()'s select!     *)
(*   "ended"     task finished, channel receiver dropped                   *)
(*   "register"  handle_i_am, between unregister and register              *)
(*   "claim" .. "result"  the steps of handle_send / route_message         *)
(*   "cache", "reply"     the steps of handle_ack                          *)
(***************************************************************************)
Locations == {"new", "select", "ended", "register",
              "claim", "pend", "enqueue", "withdraw", "await", "result",
              "cache", "reply"}

Ended(s) == pc[s] = "ended"

\* A task holds the receiving half of a oneshot channel at these places.
Waiting(s) == pc[s] \in {"enqueue", "await"}

\* The handler returns to run()'s loop / moves on with local variables l.
Goto(s, place, l) ==
  /\ pc' = [pc EXCEPT ![s] = place]
  /\ local' = [local EXCEPT ![s] = l]

Finish(s) == Goto(s, "select", None)

\* route_message returns a SendOutcome.
Outcome(s, p, status, payload) ==
  Goto(s, "result", [preimage |-> p, status |-> status, payload |-> payload])

\* run() returns: the receiver is dropped with what it holds.  The Router is
\* not told.
End(s) ==
  /\ Goto(s, "ended", None)
  /\ queue' = [queue EXCEPT ![s] = <<>>]
  /\ id52' = [id52 EXCEPT ![s] = None]

Init ==
  /\ pc = [s \in Sessions |-> "new"]
  /\ local = [s \in Sessions |-> None]
  /\ id52 = [s \in Sessions |-> None]
  /\ queue = [s \in Sessions |-> <<>>]
  /\ devices = EmptyMap
  /\ response_cache = EmptyMap
  /\ pending = EmptyMap
  /\ next_msg_id = 1
  /\ issued = EmptyMap
  /\ delivered = {}
  /\ answered = [p \in Preimages |-> {}]
  /\ spent = {}

------------------------------------------------------------------------------
(***************************************************************************)
(* The connection                                                          *)
(***************************************************************************)

\* The listener accepts a connection and spawns its session.
Accept(s) ==
  /\ pc[s] = "new"
  /\ Goto(s, "select", None)
  /\ UNCHANGED <<id52, queue, routerVars, historyVars>>

\* read_frame fails (end of stream, reset, oversized frame), the frame does
\* not parse, or an I_AM does not verify: `?' leaves run() at once, past the
\* cleanup code that follows the loop.
Disconnect(s) ==
  /\ pc[s] = "select"
  /\ End(s)
  /\ UNCHANGED <<routerVars, historyVars>>

\* Fault: the next delivery waits until the client has answered the last one.
SendDelivery_oneAtATime(s) ==
  /\ pc[s] = "select"
  /\ queue[s] # <<>>
  /\ \A m \in DOMAIN pending : <<s, m>> \notin delivered
  /\ queue' = [queue EXCEPT ![s] = Tail(@)]
  /\ delivered' = delivered \cup {<<s, Head(queue[s]).msg_id>>}
  /\ UNCHANGED <<pc, local, id52, routerVars, issued, answered, spent>>

\* select! takes a delivery from the channel and writes DELIVER.
SendDelivery(s) ==
  /\ pc[s] = "select"
  /\ queue[s] # <<>>
  /\ \/ /\ queue' = [queue EXCEPT ![s] = Tail(@)]
        /\ delivered' = delivered \cup {<<s, Head(queue[s]).msg_id>>}
        /\ UNCHANGED <<pc, local, id52>>
     \/ End(s) /\ UNCHANGED delivered                 \* the write fails
  /\ UNCHANGED <<routerVars, issued, answered, spent>>

------------------------------------------------------------------------------
(***************************************************************************)
(* I_AM and UPDATE_COMMITS                                                 *)
(***************************************************************************)

\* A recipient hands the relay the one-time right to reach it for these
\* commits (history only).
Granted(d, cs) ==
  spent' = {u \in spent : ~ (u[1] = d /\ Sha256(u[2]) \in cs)}

\* The client says what it answered to these preimages (history only).
Uploaded(responses) ==
  answered' = [p \in Preimages |->
                 IF p \in DOMAIN responses THEN answered[p] \cup {responses[p]}
                                           ELSE answered[p]]

\* The commits of a device's entry change in place.
SetCommits(d, cs) ==
  devices' = [devices EXCEPT ![d] = [commits |-> cs, sender |-> @.sender]]

\* Fault: the uploaded responses replace the cache.
Register_newCache(s, d, cs, responses) ==
  /\ devices' = Put(devices, d, [commits |-> cs, sender |-> s])
  /\ response_cache' = responses
  /\ id52' = [id52 EXCEPT ![s] = d]
  /\ Granted(d, cs)
  /\ Uploaded(responses)
  /\ Finish(s)

\* Router::register.  responses is a function on the uploaded preimages.  The
\* cache is locked while the devices lock is held.
Register(s, d, cs, responses) ==
  /\ devices' = Put(devices, d, [commits |-> cs, sender |-> s])
  /\ response_cache' = [p \in DOMAIN response_cache \cup DOMAIN responses |->
                          IF p \in DOMAIN responses THEN responses[p]
                                                    ELSE response_cache[p]]
  /\ id52' = [id52 EXCEPT ![s] = d]
  /\ Granted(d, cs)
  /\ Uploaded(responses)
  /\ Finish(s)

\* Fault: the signature is not checked.
Verified_anyone(s, d) == TRUE

\* I_AM verifies: the client signed the session's nonce with the key of d.
Verified(s, d) == d \in Owns[s]

\* I_AM from a client that has no identity yet.  Nothing compares the responses
\* it uploads with the answers that were given.
HandleIAm(s, d, cs, responses) ==
  /\ pc[s] = "select" /\ s \in Receivers
  /\ Verified(s, d)
  /\ id52[s] = None
  /\ Register(s, d, cs, responses)
  /\ UNCHANGED <<queue, pending, next_msg_id, issued, delivered>>

\* I_AM again: the old identity is unregistered first, whoever serves it now.
Unregister(s, d, cs, responses) ==
  /\ pc[s] = "select" /\ s \in Receivers
  /\ Verified(s, d)
  /\ id52[s] # None
  /\ devices' = Drop(devices, id52[s])
  /\ id52' = [id52 EXCEPT ![s] = None]
  /\ Goto(s, "register", [id52 |-> d, commits |-> cs, responses |-> responses])
  /\ UNCHANGED <<queue, response_cache, pending, next_msg_id, historyVars>>

Reregister(s) ==
  /\ pc[s] = "register"
  /\ Register(s, local[s].id52, local[s].commits, local[s].responses)
  /\ UNCHANGED <<queue, pending, next_msg_id, issued, delivered>>

\* UPDATE_COMMITS: Router::add_commits by identity.  Without a registered
\* identity, or when its entry is gone, the frame changes nothing.
AddCommits(s, cs) ==
  /\ pc[s] = "select" /\ s \in Receivers
  /\ id52[s] \in DOMAIN devices
  /\ SetCommits(id52[s], devices[id52[s]].commits \cup cs)
  /\ Granted(id52[s], cs)
  /\ UNCHANGED <<pc, local, id52, queue, response_cache, pending, next_msg_id,
                 issued, delivered, answered>>

------------------------------------------------------------------------------
(***************************************************************************)
(* SEND: handle_send and Router::route_message                             *)
(***************************************************************************)

\* Bound of the model: SENDs past the cache that have taken a message id or
\* may still take one.
SendsLeft ==
  next_msg_id + Cardinality({t \in Sessions : pc[t] = "claim"}) <= MaxSends

\* Step 1: the response cache.  The entry is taken out whether or not it is
\* still valid.
CheckCache(s, d, p) ==
  /\ pc[s] = "select" /\ s \in Senders
  /\ SendsLeft
  /\ response_cache' = Drop(response_cache, p)
  /\ IF p \in DOMAIN response_cache /\ response_cache[p] # Expired
       THEN Outcome(s, p, SEND_OK, response_cache[p])
       ELSE Goto(s, "claim", [to_id52 |-> d, preimage |-> p])
  /\ UNCHANGED <<id52, queue, devices, pending, next_msg_id, historyVars>>

\* Steps 2 and 3, under the devices lock.
NotConnected(s) ==
  /\ pc[s] = "claim"
  /\ local[s].to_id52 \notin DOMAIN devices
  /\ Outcome(s, local[s].preimage, SEND_ERR_NOT_CONNECTED, None)
  /\ UNCHANGED <<id52, queue, routerVars, historyVars>>

\* The entry's session has ended (sender.is_closed()): the entry is removed.
StaleEntry(s) ==
  LET d == local[s].to_id52 IN
  /\ pc[s] = "claim"
  /\ d \in DOMAIN devices
  /\ Ended(devices[d].sender)
  /\ devices' = Drop(devices, d)
  /\ Outcome(s, local[s].preimage, SEND_ERR_NOT_CONNECTED, None)
  /\ UNCHANGED <<id52, queue, response_cache, pending, next_msg_id, historyVars>>

InvalidPreimage(s) ==
  LET d == local[s].to_id52 IN
  /\ pc[s] = "claim"
  /\ d \in DOMAIN devices
  /\ ~ Ended(devices[d].sender)
  /\ Sha256(local[s].preimage) \notin devices[d].commits
  /\ Outcome(s, local[s].preimage, SEND_ERR_INVALID_PREIMAGE, None)
  /\ UNCHANGED <<id52, queue, routerVars, historyVars>>

\* Faults: the commit stays; the counter is read and stored back too late.
ClaimCommit_peek(s) ==
  LET d == local[s].to_id52
      p == local[s].preimage IN
  /\ pc[s] = "claim"
  /\ d \in DOMAIN devices
  /\ ~ Ended(devices[d].sender)
  /\ Sha256(p) \in devices[d].commits
  /\ next_msg_id' = next_msg_id + 1
  /\ Goto(s, "pend", [to_id52 |-> d, preimage |-> p, msg_id |-> next_msg_id,
                      sender |-> devices[d].sender])
  /\ issued' = Put(issued, next_msg_id, p)
  /\ spent' = spent \cup {<<d, p>>}
  /\ UNCHANGED <<id52, queue, devices, response_cache, pending, delivered, answered>>

ClaimCommit_sameId(s) ==
  LET d == local[s].to_id52
      p == local[s].preimage IN
  /\ pc[s] = "claim"
  /\ d \in DOMAIN devices
  /\ ~ Ended(devices[d].sender)
  /\ Sha256(p) \in devices[d].commits
  /\ SetCommits(d, devices[d].commits \ {Sha256(p)})
  /\ next_msg_id' \in {next_msg_id, next_msg_id + 1}
  /\ Goto(s, "pend", [to_id52 |-> d, preimage |-> p, msg_id |-> next_msg_id,
                      sender |-> devices[d].sender])
  /\ issued' = Put(issued, next_msg_id, p)
  /\ spent' = spent \cup {<<d, p>>}
  /\ UNCHANGED <<id52, queue, response_cache, pending, delivered, answered>>

\* The commit is consumed, a message id taken and the channel's sender cloned.
ClaimCommit(s) ==
  LET d == local[s].to_id52
      p == local[s].preimage IN
  /\ pc[s] = "claim"
  /\ d \in DOMAIN devices
  /\ ~ Ended(devices[d].sender)
  /\ Sha256(p) \in devices[d].commits
  /\ SetCommits(d, devices[d].commits \ {Sha256(p)})
  /\ next_msg_id' = next_msg_id + 1
  /\ Goto(s, "pend", [to_id52 |-> d, preimage |-> p, msg_id |-> next_msg_id,
                      sender |-> devices[d].sender])
  /\ issued' = Put(issued, next_msg_id, p)
  /\ spent' = spent \cup {<<d, p>>}
  /\ UNCHANGED <<id52, queue, response_cache, pending, delivered, answered>>

\* Step 4: the oneshot channel, registered before the delivery is queued.
RegisterPending(s) ==
  /\ pc[s] = "pend"
  /\ pending' = Put(pending, local[s].msg_id, local[s].preimage)
  /\ Goto(s, "enqueue", [preimage |-> local[s].preimage,
                         msg_id |-> local[s].msg_id,
                         sender |-> local[s].sender,
                         response |-> None])
  /\ UNCHANGED <<id52, queue, devices, response_cache, next_msg_id, historyVars>>

\* Fault: the channel has no bound.
QueueDelivery_unbounded(s) ==
  LET r == local[s].sender IN
  /\ pc[s] = "enqueue"
  /\ ~ Ended(r)
  /\ queue' = [queue EXCEPT ![r] = Append(@, [msg_id |-> local[s].msg_id,
                                              preimage |-> local[s].preimage])]
  /\ Goto(s, "await", local[s])
  /\ UNCHANGED <<id52, routerVars, historyVars>>

\* sender.send(delivery).await: waits for room, without a time limit.
QueueDelivery(s) ==
  LET r == local[s].sender IN
  /\ pc[s] = "enqueue"
  /\ ~ Ended(r)
  /\ Len(queue[r]) < ChanCap
  /\ queue' = [queue EXCEPT ![r] = Append(@, [msg_id |-> local[s].msg_id,
                                              preimage |-> local[s].preimage])]
  /\ Goto(s, "await", local[s])
  /\ UNCHANGED <<id52, routerVars, historyVars>>

\* The channel is closed, or closes while the sender waits for room.
QueueClosed(s) ==
  /\ pc[s] = "enqueue"
  /\ Ended(local[s].sender)
  /\ Goto(s, "withdraw", local[s])
  /\ UNCHANGED <<id52, queue, routerVars, historyVars>>

WithdrawPending(s) ==
  /\ pc[s] = "withdraw"
  /\ pending' = Drop(pending, local[s].msg_id)
  /\ Outcome(s, local[s].preimage, SEND_ERR_DISCONNECTED, None)
  /\ UNCHANGED <<id52, queue, devices, response_cache, next_msg_id, historyVars>>

\* Step 5: the answer, or the 30 seconds pass.  timeout() polls the channel
\* first.  The third arm, a dropped oneshot sender, cannot be reached: see
\* AnswerWillFindSender.  The pending entry stays behind after a timeout.
ReceiveResponse(s) ==
  /\ pc[s] = "await"
  /\ local[s].response # None
  /\ Outcome(s, local[s].preimage, SEND_OK, local[s].response)
  /\ UNCHANGED <<id52, queue, routerVars, historyVars>>

\* Fault: the wait has no time limit.
TimeOut_never(s) == FALSE

TimeOut(s) ==
  /\ pc[s] = "await"
  /\ local[s].response = None
  /\ Outcome(s, local[s].preimage, SEND_ERR_TIMEOUT, None)
  /\ UNCHANGED <<id52, queue, routerVars, historyVars>>

\* handle_send writes SEND_RESULT; the client may be gone by then.
WriteResult(s) ==
  /\ pc[s] = "result"
  /\ \/ Finish(s) /\ UNCHANGED <<id52, queue>>
     \/ End(s)
  /\ UNCHANGED <<routerVars, historyVars>>

------------------------------------------------------------------------------
(***************************************************************************)
(* ACK: Router::handle_ack                                                 *)
(***************************************************************************)

\* A client may name any message id, on any connection and any number of
\* times: of a delivery it never had, had on an earlier connection, or had
\* before the relay was restarted.  The Router looks only for a pending entry.
TakePending(s, m, r) ==
  /\ pc[s] = "select" /\ s \in Receivers
  /\ pending' = Drop(pending, m)
  /\ IF m \in DOMAIN pending
       THEN /\ Goto(s, "cache", [msg_id |-> m, preimage |-> pending[m],
                                 response |-> r])
            /\ answered' = [answered EXCEPT ![issued[m]] = @ \cup {r}]
       ELSE UNCHANGED <<pc, local, answered>>
  /\ UNCHANGED <<id52, queue, devices, response_cache, next_msg_id, issued,
                 delivered, spent>>

\* Fault: the waiting task is forgotten once the answer is cached.
CacheResponse_return(s) ==
  /\ pc[s] = "cache"
  /\ response_cache' = Put(response_cache, local[s].preimage, local[s].response)
  /\ Finish(s)
  /\ UNCHANGED <<id52, queue, devices, pending, next_msg_id, historyVars>>

CacheResponse(s) ==
  /\ pc[s] = "cache"
  /\ response_cache' = Put(response_cache, local[s].preimage, local[s].response)
  /\ Goto(s, "reply", local[s])
  /\ UNCHANGED <<id52, queue, devices, pending, next_msg_id, historyVars>>

\* Fault: whoever waits gets the answer.
SendResponse_anyone(s) ==
  /\ pc[s] = "reply"
  /\ pc' = [pc EXCEPT ![s] = "select"]
  /\ local' = [t \in Sessions |->
                 CASE t = s -> None
                   [] t # s /\ Waiting(t) ->
                        [local[t] EXCEPT !.response = local[s].response]
                   [] OTHER -> local[t]]
  /\ UNCHANGED <<id52, queue, routerVars, historyVars>>

\* tx.send(response): lost if the waiting task has given up.
SendResponse(s) ==
  /\ pc[s] = "reply"
  /\ pc' = [pc EXCEPT ![s] = "select"]
  /\ local' = [t \in Sessions |->
                 CASE t = s -> None
                   [] t # s /\ Waiting(t) /\ local[t].msg_id = local[s].msg_id ->
                        [local[t] EXCEPT !.response = local[s].response]
                   [] OTHER -> local[t]]
  /\ UNCHANGED <<id52, queue, routerVars, historyVars>>

------------------------------------------------------------------------------
(***************************************************************************)
(* Time and failure                                                        *)
(***************************************************************************)

\* The time to live of a cached response passes.  Nothing removes the entry
\* until a SEND looks it up: cleanup_cache is never called.
Expire(p) ==
  /\ p \in DOMAIN response_cache
  /\ response_cache[p] # Expired
  /\ response_cache' = [response_cache EXCEPT ![p] = Expired]
  /\ UNCHANGED <<pc, local, id52, queue, devices, pending, next_msg_id, historyVars>>

\* The process stops and starts again: everything it holds is in memory.
Restart ==
  /\ \E s \in Sessions : pc[s] \notin {"new", "ended"}
  /\ pc' = [s \in Sessions |-> IF pc[s] = "new" THEN "new" ELSE "ended"]
  /\ local' = [s \in Sessions |-> None]
  /\ id52' = [s \in Sessions |-> None]
  /\ queue' = [s \in Sessions |-> <<>>]
  /\ devices' = EmptyMap
  /\ response_cache' = EmptyMap
  /\ pending' = EmptyMap
  /\ next_msg_id' = 1
  /\ issued' = EmptyMap
  /\ delivered' = {}
  /\ UNCHANGED <<answered, spent>>

\* Every task is waiting for a connection or a frame: nothing is left to do.
Quiet ==
  /\ \A s \in Sessions : pc[s] \in {"new", "select", "ended"}
  /\ UNCHANGED vars

------------------------------------------------------------------------------
(***************************************************************************)
(* The specification                                                       *)
(***************************************************************************)

\* What a client makes its session do; the relay cannot wait for any of it.
ClientStep(s) ==
  \/ Accept(s)
  \/ Disconnect(s)
  \/ \E d \in Devices, cs \in Batches, rs \in Uploads :
       HandleIAm(s, d, cs, rs) \/ Unregister(s, d, cs, rs)
  \/ \E cs \in Batches : AddCommits(s, cs)
  \/ \E d \in Devices, p \in Preimages : CheckCache(s, d, p)
  \/ \E m \in 1 .. MaxSends, r \in Responses : TakePending(s, m, r)

\* What the runtime makes of a handler once it has begun.
HandlerStep(s) ==
  \/ Reregister(s)
  \/ NotConnected(s) \/ StaleEntry(s) \/ InvalidPreimage(s) \/ ClaimCommit(s)
  \/ RegisterPending(s)
  \/ QueueDelivery(s) \/ QueueClosed(s) \/ WithdrawPending(s)
  \/ ReceiveResponse(s) \/ TimeOut(s)
  \/ WriteResult(s)
  \/ CacheResponse(s) \/ SendResponse(s)

\* The relay while its process lives.
Running ==
  \/ \E s \in Sessions : ClientStep(s) \/ SendDelivery(s) \/ HandlerStep(s)
  \/ \E p \in Preimages : Expire(p)
  \/ Quiet

Next == Running \/ Restart

Spec == Init /\ [][Next]_vars

\* The runtime runs every task that can run, and a timeout fires.
HandlersRun == \A s \in Sessions : WF_vars(HandlerStep(s))

\* select! picks its branch at random, so that a delivery it could take
\* infinitely often is taken; a client that reads lets the write finish.
ClientsRead == \A s \in Sessions : SF_vars(SendDelivery(s))

\* The process does not stop: what a session is owed while it lives, by a
\* relay whose clients read their sockets and owe it nothing else ...
FairSpec == Init /\ [][Running]_vars /\ HandlersRun /\ ClientsRead

\* ... and by a relay whose clients may stop reading.
UnreadSpec == Init /\ [][Running]_vars /\ HandlersRun

------------------------------------------------------------------------------
(***************************************************************************)
(* Types                                                                   *)
(***************************************************************************)

Binding == [commits : SUBSET Commits, sender : Sessions]

\* The local variables l that session s has at a place of its code.
Fits(s, place, l) ==
  /\ place \in {"new", "select", "ended"} => l = None
  /\ place = "register" =>
       /\ l.id52 \in Owns[s]
       /\ l.commits \in SUBSET Commits
       /\ DOMAIN l.responses \subseteq Preimages
       /\ \A p \in DOMAIN l.responses : l.responses[p] \in Responses
  /\ place = "claim" => l \in [to_id52 : Devices, preimage : Preimages]
  /\ place = "pend" =>
       l \in [to_id52 : Devices, preimage : Preimages,
              msg_id : MsgIds, sender : Sessions]
  /\ place \in {"enqueue", "withdraw", "await"} =>
       l \in [preimage : Preimages, msg_id : MsgIds,
              sender : Sessions, response : Responses \cup {None}]
  /\ place = "result" =>
       l \in [preimage : Preimages, status : 0..4,
              payload : Responses \cup {None}]
  /\ place \in {"cache", "reply"} =>
       l \in [msg_id : MsgIds, preimage : Preimages, response : Responses]

TasksOK ==
  /\ pc \in [Sessions -> Locations]
  /\ DOMAIN local = Sessions
  /\ \A s \in Sessions : Fits(s, pc[s], local[s])

ConnectionsOK ==
  /\ id52 \in [Sessions -> Devices \cup {None}]
  /\ queue \in [Sessions -> Seq(PendingDelivery)]
  /\ \A s \in Sessions : Len(queue[s]) <= ChanCap

DevicesOK ==
  /\ DOMAIN devices \subseteq Devices
  /\ \A d \in DOMAIN devices : devices[d] \in Binding

AnswersOK ==
  /\ DOMAIN response_cache \subseteq Preimages
  /\ \A p \in DOMAIN response_cache :
       response_cache[p] \in Responses \cup {Expired}
  /\ DOMAIN pending \subseteq MsgIds
  /\ \A m \in DOMAIN pending : pending[m] \in Preimages
  /\ next_msg_id \in MsgIds

HistoryOK ==
  /\ DOMAIN issued \subseteq MsgIds
  /\ \A m \in DOMAIN issued : issued[m] \in Preimages
  /\ delivered \subseteq Sessions \X MsgIds
  /\ answered \in [Preimages -> SUBSET Responses]
  /\ spent \subseteq Devices \X Preimages

\* Every variable holds a value of the type its declaration in the code gives
\* it, the locals of a handler those of the place it has reached, and a
\* delivery channel at most its capacity.
TypeOK == TasksOK /\ ConnectionsOK /\ DevicesOK /\ AnswersOK /\ HistoryOK

------------------------------------------------------------------------------
(***************************************************************************)
(* Safety                                                                  *)
(***************************************************************************)

\* A task between ClaimCommit and its outcome, and a task that has taken a
\* pending entry and not completed it.
Routing(s)    == pc[s] \in {"pend", "enqueue", "withdraw", "await"}
Completing(s) == pc[s] \in {"cache", "reply"}

\* No lost wakeup: whoever waits for an answer and has none can still be
\* found by the ACK, through the pending entry of its message or through the
\* task that has taken that entry.  So the "channel closed" arm of
\* route_message's wait is never taken.
AnswerWillFindSender ==
  \A s \in Sessions :
    Waiting(s) /\ local[s].response = None =>
      \/ /\ local[s].msg_id \in DOMAIN pending
         /\ pending[local[s].msg_id] = local[s].preimage
      \/ \E t \in Sessions : /\ Completing(t)
                             /\ local[t].msg_id = local[s].msg_id

\* Every answer the relay holds or returns for a preimage was given in an ACK
\* naming a message id that was drawn for a SEND with that very preimage since
\* the process started, or was uploaded by a recipient under that preimage:
\* answers do not cross between SENDs, whatever timeouts, retries, late and
\* repeated ACKs, reconnections and restarts come between.  That the client
\* that names the id is the one that had the delivery is not promised: see
\* AckFollowsDelivery.
AnswersAreGenuine ==
  /\ \A p \in DOMAIN response_cache :
       response_cache[p] # Expired => response_cache[p] \in answered[p]
  /\ \A s \in Sessions :
       pc[s] = "result" /\ local[s].status = SEND_OK =>
         local[s].payload \in answered[local[s].preimage]

\* A preimage is good for one message per grant: once a SEND has used it the
\* relay does not hold its commit again until the recipient registers it anew.
SingleUse ==
  \A d \in DOMAIN devices : \A p \in Preimages :
    <<d, p>> \in spent => Sha256(p) \notin devices[d].commits

\* A message for an identity is only ever routed to a connection whose client
\* proved that identity, also when the binding changes while it is routed.
OnlyToOwner ==
  /\ \A d \in DOMAIN devices : d \in Owns[devices[d].sender]
  /\ \A s \in Sessions :
       pc[s] = "pend" => local[s].to_id52 \in Owns[local[s].sender]

------------------------------------------------------------------------------
(***************************************************************************)
(* The inductive invariant of the routing of messages and answers          *)
(***************************************************************************)

\* The deliveries in a session's channel.
Queued(s) == {queue[s][i] : i \in DOMAIN queue[s]}

\* A record of a message id and a preimage agrees with what was handed out.
Issued(x) == x.msg_id \in DOMAIN issued /\ issued[x.msg_id] = x.preimage

\* All that is filed, held or queued under a message id belongs to the
\* preimage the id was handed out for.
IdsAgree ==
  /\ \A m \in DOMAIN issued : m < next_msg_id
  /\ \A m \in DOMAIN pending : m \in DOMAIN issued /\ pending[m] = issued[m]
  /\ \A s \in Sessions :
       /\ Routing(s) \/ Completing(s) => Issued(local[s])
       /\ \A x \in Queued(s) : Issued(x)
  /\ \A x \in delivered : x[2] \in DOMAIN issued

\* Two SENDs never share a message id.
OwnIds ==
  \A s, t \in Sessions :
    Routing(s) /\ Routing(t) /\ s # t => local[s].msg_id # local[t].msg_id

\* A message that is still to be queued is in no channel and with no client,
\* and before that nobody can answer it.
NotQueuedYet ==
  \A s \in Sessions :
    /\ pc[s] = "pend" => local[s].msg_id \notin DOMAIN pending
    /\ pc[s] \in {"pend", "enqueue", "withdraw"} =>
         \A t \in Sessions :
           /\ \A x \in Queued(t) : x.msg_id # local[s].msg_id
           /\ <<t, local[s].msg_id>> \notin delivered

RoutingInv == IdsAgree /\ OwnIds /\ NotQueuedYet

\* A message is in one place: queued once, or delivered to one client.
OneCopy ==
  \A s, t \in Sessions : \A j \in DOMAIN queue[t] :
    /\ \A i \in DOMAIN queue[s] :
         queue[s][i].msg_id = queue[t][j].msg_id => s = t /\ i = j
    /\ <<s, queue[t][j].msg_id>> \notin delivered

\* The answers a task holds, too, were given to the preimage they are under:
\* on their way to the cache, to the waiting sender and to its client.
HeldAnswers(s) ==
  /\ pc[s] = "result" /\ local[s].status = SEND_OK =>
       local[s].payload \in answered[local[s].preimage]
  /\ Completing(s) => local[s].response \in answered[local[s].preimage]
  /\ Waiting(s) /\ local[s].response # None =>
       local[s].response \in answered[local[s].preimage]

AnswersInv == AnswersAreGenuine /\ \A s \in Sessions : HeldAnswers(s)

------------------------------------------------------------------------------
(***************************************************************************)
(* What a step may not do                                                  *)
(***************************************************************************)

\* An answer in the cache is neither lost nor replaced by another, but for
\* these reasons: it is handed to a SEND with its preimage, it expires, an ACK
\* of a message with the same preimage brings a newer one, a client that signs
\* in uploads one for the same preimage, or the process ends.
HandedOut(s, p) ==
  /\ pc[s] = "select" /\ pc'[s] = "result"
  /\ local'[s] = [preimage |-> p, status |-> SEND_OK, payload |-> response_cache[p]]
  /\ p \notin DOMAIN response_cache'

Acknowledged(s, p) ==
  /\ pc[s] = "cache" /\ pc'[s] # "cache"
  /\ \E m \in DOMAIN issued : issued[m] = p /\ local[s].msg_id = m
  /\ p \in DOMAIN response_cache' /\ response_cache'[p] = local[s].response

UploadedBy(s, p) ==
  /\ id52[s] = None /\ id52'[s] # None
  /\ p \in DOMAIN response_cache' /\ response_cache'[p] \in answered'[p]

AnswerKept ==
  [][\A p \in DOMAIN response_cache :
       response_cache[p] # Expired =>
         \/ p \in DOMAIN response_cache' /\ response_cache'[p] \in {response_cache[p], Expired}
         \/ \E s \in Sessions : HandedOut(s, p) \/ Acknowledged(s, p) \/ UploadedBy(s, p)
         \/ \A s \in Sessions : pc'[s] \in {"new", "ended"}]_vars

\* An ACK answers a delivery: the relay takes it for the message of a DELIVER
\* that it wrote to the same connection.
AckFollowsDelivery ==
  [][\A s \in Sessions :
       pc[s] = "select" /\ pc'[s] = "cache" => <<s, local'[s].msg_id>> \in delivered]_vars

\* A binding belongs to its connection: it is changed into another one, or
\* removed, only by a connection that registers the identity, by its own
\* connection, or when its connection has ended.
BindingBelongsToConnection ==
  [][\A d \in DOMAIN devices :
       LET t == devices[d].sender IN
       ~ Ended(t) /\ pc'[t] # "ended" =>
         \/ d \in DOMAIN devices'
         \/ id52[t] = d /\ id52'[t] # d]_vars

\* The code's reports agree with the protocol's table of status codes: a
\* timeout says that the recipient is connected and did not answer.
TimeoutMeansConnected ==
  [][\A s \in Sessions :
       pc[s] = "await" /\ pc'[s] = "result" /\ local'[s].status = SEND_ERR_TIMEOUT
         => ~ Ended(local[s].sender)]_vars

\* A preimage is a key of idempotency: a SEND is not refused as an invalid or
\* used preimage while the answer to an earlier SEND with it is on its way.
RetryIsSafe ==
  [][\A s \in Sessions :
       /\ pc[s] = "claim" /\ pc'[s] = "result"
       /\ local'[s].status = SEND_ERR_INVALID_PREIMAGE
       => \A t \in Sessions :
            Routing(t) \/ Completing(t) => local[t].preimage # local[s].preimage]_vars

\* The binding of a connection is forgotten when the connection ends.
BindingForgotten ==
  \A d \in DOMAIN devices : ~ Ended(devices[d].sender)

------------------------------------------------------------------------------
(***************************************************************************)
(* Liveness                                                                *)
(***************************************************************************)

\* A sender always learns the outcome: each SEND comes to the point where its
\* SEND_RESULT is written.
SendAnswered ==
  \A s \in Sessions : pc[s] = "claim" ~> pc[s] = "result"

\* A delivery that was queued is written to its connection or dropped with it.
QueueDrains ==
  \A s \in Sessions : queue[s] # <<>> ~> queue[s] = <<>>

==============================================================================
