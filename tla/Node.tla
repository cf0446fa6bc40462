-------------------------------- MODULE Node --------------------------------
(***************************************************************************)
(* bhumi-node: nodes that invite each other, pair, and send each other     *)
(* commands through a relay (node.rs, state.rs, connection.rs).            *)
(*                                                                         *)
(* A node is one sequential program: `run', `pair' and `send' all borrow   *)
(* it mutably, so it either serves or makes one call.  What it keeps is    *)
(* saved in the statement that follows each change, except the renewal of  *)
(* a preimage, which follows the execution of the command.  The relay is   *)
(* reduced to what its clients can tell (Relay models it in full): the     *)
(* commits of each connected node, the response cache, and the two         *)
(* directions of each serving connection.                                  *)
(*                                                                         *)
(* Aliases, relay addresses, timestamps and the JSON of requests are       *)
(* abstracted; a command is a member of Commands or one of the built-in    *)
(* commands that change the node.                                          *)
(***************************************************************************)
EXTENDS Integers, Sequences, FiniteSets, Maps

CONSTANTS
  Nodes,     \* identities
  Servers,   \* nodes whose program calls run
  Clients,   \* nodes whose program calls pair and send
  Commands,  \* commands a handler is registered for
  BuiltIns,  \* the built-in commands in use: "invite/create", "invite/delete"
  None,      \* the absent value of an Option
  \* bounds of the model: the preimages drawn
  MaxPairing,  \* before the last invite or pairing begins
  MaxFresh     \* before the last command is sent

ASSUME NodeAssumption ==
  /\ Servers \cup Clients \subseteq Nodes
  /\ BuiltIns \subseteq {"invite/create", "invite/delete"}
  /\ Commands \cap BuiltIns = {}
  /\ MaxPairing \in Nat /\ MaxFresh \in Nat
  /\ None \notin Nodes \cup Nat

VARIABLES
  \* DeviceState of each node, in memory and on disk
  invites,         \* preimage -> role
  pending_peers,   \* id52 -> [their_preimage, my_preimage]
  peers,           \* id52 -> [role, issued_preimages, their_preimage]
  task,            \* what each node is doing
  \* the serving connections
  linked,          \* nodes whose serving connection is up
  uplink,          \* frames from a node the relay has not handled
  downlink,        \* deliveries to a node it has not received
  \* the relay
  commits,         \* id52 -> commits, for the nodes it has a binding of
  response_cache,  \* preimage -> response
  \* the world
  fresh,           \* the next value random_bytes returns
  given,           \* the tokens: preimage -> [id52, holder]
  executed         \* the preimages honoured so far, but those of commands whose
                   \* program was killed before it had saved that (history)

stateVars == <<invites, pending_peers, peers>>
linkVars  == <<linked, uplink, downlink>>
relayVars == <<commits, response_cache>>
worldVars == <<fresh, given, executed>>
vars == <<stateVars, task, linkVars, relayVars, worldVars>>

------------------------------------------------------------------------------
(***************************************************************************)
(* Data                                                                    *)
(***************************************************************************)

Roles == {"owner", "reader"}    \* "writer" is treated like "reader" by node.rs

Sha256(p) == [sha256 |-> p]

\* Payloads of SEND and of ACK.
HandshakeInit(id, p) == [msg |-> "HANDSHAKE_INIT", sender_id52 |-> id,
                         preimage_for_peer |-> p]
Request(cmd)         == [msg |-> "request", cmd |-> cmd]
HandshakeComplete(accepted, p) ==
  [msg |-> "HANDSHAKE_COMPLETE", ok |-> accepted, preimage_for_peer |-> p]
\* A response names the command it answers (in the code, only by its data);
\* next is the preimage appended to it.
Response(ok, cmd, next) ==
  [msg |-> "response", ok |-> ok, cmd |-> cmd, next |-> next]

\* Frames of a serving node.
IAm(cs)           == [type |-> "I_AM", commits |-> cs]
UpdateCommits(cs) == [type |-> "UPDATE_COMMITS", commits |-> cs]
\* from stands for the message id, by which the relay knows who waits.
Ack(from, p, response) ==
  [type |-> "ACK", from |-> from, preimage |-> p, response |-> response]

\* Tasks.
Idle    == [at |-> "idle"]
Serving == [at |-> "serving"]
Call(to, p, payload) ==
  [at |-> "sent", to |-> to, preimage |-> p, payload |-> payload,
   response |-> None]
Routed(call)      == [call EXCEPT !.at = "routed"]
Answered(call, r) == [call EXCEPT !.at = "answered", !.response = r]
Writing(frames) == [at |-> "write", frames |-> frames]

At(n, place) == task[n].at = place
Goto(n, t)   == task' = [task EXCEPT ![n] = t]

Issued(n) == UNION {peers[n][m].issued_preimages : m \in DOMAIN peers[n]}

\* get_all_commits
AllCommits(n) ==
  {Sha256(p) : p \in DOMAIN invites[n] \cup Issued(n)
                     \cup {pending_peers[n][m].my_preimage :
                             m \in DOMAIN pending_peers[n]}}

\* Fault: any preimage that was issued will do.
LookupPreimage_any(n, p) ==
  {m \in DOMAIN peers[n] : p \notin DOMAIN invites[n] /\ p \in Issued(n)}

\* The peer a preimage was issued to; invites are looked up first.
LookupPreimage(n, p) ==
  {m \in DOMAIN peers[n] : p \notin DOMAIN invites[n]
                           /\ p \in peers[n][m].issued_preimages}

Init ==
  /\ invites = [n \in Nodes |-> EmptyMap]
  /\ pending_peers = [n \in Nodes |-> EmptyMap]
  /\ peers = [n \in Nodes |-> EmptyMap]
  /\ task = [n \in Nodes |-> Idle]
  /\ linked = {}
  /\ uplink = [n \in Nodes |-> <<>>]
  /\ downlink = [n \in Nodes |-> <<>>]
  /\ commits = EmptyMap
  /\ response_cache = EmptyMap
  /\ fresh = 1
  /\ given = EmptyMap
  /\ executed = {}

------------------------------------------------------------------------------
(***************************************************************************)
(* Invites                                                                 *)
(***************************************************************************)

\* create_invite stores a fresh preimage; its token is handed to one node.
NewInvite(n, role, holder) ==
  /\ invites' = [invites EXCEPT ![n] = Put(@, fresh, role)]
  /\ given' = Put(given, fresh, [id52 |-> n, holder |-> holder])
  /\ fresh' = fresh + 1

CreateInvite(n, role, holder) ==
  /\ At(n, "idle") /\ n \in Servers
  /\ holder \in Clients \ {n}
  /\ fresh < MaxPairing
  /\ NewInvite(n, role, holder)
  /\ UNCHANGED <<pending_peers, peers, task, linkVars, relayVars, executed>>

------------------------------------------------------------------------------
(***************************************************************************)
(* The calling side: pair and send                                         *)
(***************************************************************************)

\* pair: accept_invite replaces what was pending with that node and is saved;
\* then HANDSHAKE_INIT goes out on an anonymous connection.
Pair(n, p) ==
  /\ At(n, "idle") /\ n \in Clients
  /\ p \in DOMAIN given /\ given[p].holder = n
  /\ fresh < MaxPairing
  /\ pending_peers' = [pending_peers EXCEPT ![n] =
                         Put(@, given[p].id52, [their_preimage |-> p,
                                                my_preimage |-> fresh])]
  /\ fresh' = fresh + 1
  /\ Goto(n, Call(given[p].id52, p, HandshakeInit(n, fresh)))
  /\ UNCHANGED <<invites, peers, linkVars, relayVars, given, executed>>

\* send: the peer's current preimage, whatever became of the last call.
Send(n, m, cmd) ==
  /\ At(n, "idle") /\ n \in Clients
  /\ m \in DOMAIN peers[n]
  /\ fresh <= MaxFresh
  /\ Goto(n, Call(m, peers[n][m].their_preimage, Request(cmd)))
  /\ UNCHANGED <<stateVars, linkVars, relayVars, worldVars>>

\* No SEND_RESULT comes (timeout, connection lost), or one with an error.
Fail(n) ==
  /\ task[n].at \in {"sent", "routed", "answered"}
  /\ Goto(n, Idle)
  /\ UNCHANGED <<stateVars, linkVars, relayVars, worldVars>>

\* complete_handshake_as_acceptor.  The role is a default.
HandshakeAccepted(n) ==
  LET m == task[n].to
      r == task[n].response IN
  /\ At(n, "answered") /\ task[n].payload.msg = "HANDSHAKE_INIT"
  /\ r.msg = "HANDSHAKE_COMPLETE" /\ r.ok
  /\ m \in DOMAIN pending_peers[n]
  /\ peers' = [peers EXCEPT ![n] =
                 Put(@, m, [role |-> "reader",
                            issued_preimages |-> {pending_peers[n][m].my_preimage},
                            their_preimage |-> r.preimage_for_peer])]
  /\ pending_peers' = [pending_peers EXCEPT ![n] = Drop(@, m)]
  /\ Goto(n, Idle)
  /\ UNCHANGED <<invites, linkVars, relayVars, worldVars>>

\* The handshake is rejected, or answered by something else.
HandshakeRejected(n) ==
  /\ At(n, "answered") /\ task[n].payload.msg = "HANDSHAKE_INIT"
  /\ task[n].response.msg = "HANDSHAKE_COMPLETE" => ~ task[n].response.ok
  /\ Goto(n, Idle)
  /\ UNCHANGED <<stateVars, linkVars, relayVars, worldVars>>

\* send takes the new preimage from the end of the response.
CommandAnswered(n) ==
  LET m == task[n].to
      r == task[n].response IN
  /\ At(n, "answered") /\ task[n].payload.msg = "request"
  /\ r.msg = "response"
  /\ IF r.next # None /\ m \in DOMAIN peers[n]
       THEN peers' = [peers EXCEPT ![n] =
              Put(@, m, [role |-> @[m].role,
                         issued_preimages |-> @[m].issued_preimages,
                         their_preimage |-> r.next])]
       ELSE UNCHANGED peers
  /\ Goto(n, Idle)
  /\ UNCHANGED <<invites, pending_peers, linkVars, relayVars, worldVars>>

------------------------------------------------------------------------------
(***************************************************************************)
(* The relay, as its clients see it                                        *)
(***************************************************************************)

\* route_message answers from the cache, and forgets what it answers.
CachedResponse(n) ==
  LET p == task[n].preimage IN
  /\ At(n, "sent")
  /\ p \in DOMAIN response_cache
  /\ response_cache' = Drop(response_cache, p)
  /\ Goto(n, Answered(task[n], response_cache[p]))
  /\ UNCHANGED <<stateVars, linkVars, commits, worldVars>>

Refused(n) ==
  LET m == task[n].to
      p == task[n].preimage IN
  /\ At(n, "sent")
  /\ p \notin DOMAIN response_cache
  /\ \/ m \notin DOMAIN commits                        \* not connected
     \/ m \in DOMAIN commits /\ Sha256(p) \notin commits[m]   \* invalid preimage
  /\ Goto(n, Idle)
  /\ UNCHANGED <<stateVars, linkVars, relayVars, worldVars>>

RouteMessage(n) ==
  LET m == task[n].to
      p == task[n].preimage IN
  /\ At(n, "sent")
  /\ p \notin DOMAIN response_cache
  /\ m \in DOMAIN commits /\ Sha256(p) \in commits[m]
  /\ commits' = [commits EXCEPT ![m] = @ \ {Sha256(p)}]
  /\ downlink' = [downlink EXCEPT ![m] =
                    Append(@, [from |-> n, preimage |-> p,
                               payload |-> task[n].payload])]
  /\ Goto(n, Routed(task[n]))
  /\ UNCHANGED <<stateVars, linked, uplink, response_cache, worldVars>>

\* The relay handles the next frame of a serving node.
RegisterFrame(n) ==
  /\ uplink[n] # <<>> /\ Head(uplink[n]).type = "I_AM"
  /\ commits' = Put(commits, n, Head(uplink[n]).commits)
  /\ uplink' = [uplink EXCEPT ![n] = Tail(@)]
  /\ UNCHANGED <<stateVars, task, linked, downlink, response_cache, worldVars>>

CommitsFrame(n) ==
  /\ uplink[n] # <<>> /\ Head(uplink[n]).type = "UPDATE_COMMITS"
  /\ n \in DOMAIN commits
  /\ commits' = [commits EXCEPT ![n] = @ \cup Head(uplink[n]).commits]
  /\ uplink' = [uplink EXCEPT ![n] = Tail(@)]
  /\ UNCHANGED <<stateVars, task, linked, downlink, response_cache, worldVars>>

\* The answer is cached, and handed to the caller if it still waits.
AckFrame(n) ==
  LET ack == Head(uplink[n])
      c   == ack.from IN
  /\ uplink[n] # <<>> /\ ack.type = "ACK"
  /\ response_cache' = Put(response_cache, ack.preimage, ack.response)
  /\ IF At(c, "routed") /\ task[c].preimage = ack.preimage
       THEN Goto(c, Answered(task[c], ack.response))
       ELSE UNCHANGED task
  /\ uplink' = [uplink EXCEPT ![n] = Tail(@)]
  /\ UNCHANGED <<stateVars, linked, downlink, commits, worldVars>>

------------------------------------------------------------------------------
(***************************************************************************)
(* The serving side: run                                                   *)
(***************************************************************************)

\* run connects and signs in with all commits; no answer is awaited.
Run(n) ==
  /\ At(n, "idle") /\ n \in Servers
  /\ linked' = linked \cup {n}
  /\ uplink' = [uplink EXCEPT ![n] = <<IAm(AllCommits(n))>>]
  /\ downlink' = [downlink EXCEPT ![n] = <<>>]
  /\ Goto(n, Serving)
  /\ UNCHANGED <<stateVars, relayVars, worldVars>>

\* receive returns the next delivery.
Receives(n, msg) ==
  /\ At(n, "serving") /\ n \in linked
  /\ downlink[n] # <<>>
  /\ Head(downlink[n]).payload.msg = msg
  /\ downlink' = [downlink EXCEPT ![n] = Tail(@)]

\* handle_handshake: the invite becomes a peer, saved before the answer; the
\* acknowledgement is written before the commit of the new preimage.
AcceptHandshake(n) ==
  LET d == Head(downlink[n]) IN
  /\ Receives(n, "HANDSHAKE_INIT")
  /\ d.preimage \in DOMAIN invites[n]
  /\ invites' = [invites EXCEPT ![n] = Drop(@, d.preimage)]
  /\ peers' = [peers EXCEPT ![n] =
                 Put(@, d.payload.sender_id52,
                     [role |-> invites[n][d.preimage],
                      issued_preimages |-> {fresh},
                      their_preimage |-> d.payload.preimage_for_peer])]
  /\ fresh' = fresh + 1
  /\ executed' = executed \cup {d.preimage}
  /\ Goto(n, Writing(<<Ack(d.from, d.preimage, HandshakeComplete(TRUE, fresh)),
                       UpdateCommits({Sha256(fresh)})>>))
  /\ UNCHANGED <<pending_peers, linked, uplink, relayVars, given>>

RejectHandshake(n) ==
  LET d == Head(downlink[n]) IN
  /\ Receives(n, "HANDSHAKE_INIT")
  /\ d.preimage \notin DOMAIN invites[n]
  /\ Goto(n, Writing(<<Ack(d.from, d.preimage, HandshakeComplete(FALSE, None))>>))
  /\ UNCHANGED <<stateVars, linked, uplink, relayVars, worldVars>>

\* handle_command: a preimage that was issued to nobody.
Unauthorized(n) ==
  LET d == Head(downlink[n]) IN
  /\ Receives(n, "request")
  /\ LookupPreimage(n, d.preimage) = {}
  /\ Goto(n, Writing(<<Ack(d.from, d.preimage,
                           Response(FALSE, d.payload.cmd, None))>>))
  /\ UNCHANGED <<stateVars, linked, uplink, relayVars, worldVars>>

\* dispatch_command for peer m has been run with this outcome.
Executed(n, m, ok) ==
  LET d == Head(downlink[n]) IN
  /\ executed' = executed \cup {d.preimage}
  /\ Goto(n, [at |-> "renew", from |-> d.from, preimage |-> d.preimage,
              peer |-> m, ok |-> ok, cmd |-> d.payload.cmd])

IsCommand(n, m, cmds) ==
  /\ Receives(n, "request")
  /\ m \in LookupPreimage(n, Head(downlink[n]).preimage)
  /\ Head(downlink[n]).payload.cmd \in cmds

\* A handler of the program, or a built-in command that is refused to all but
\* owners or finds no such invite.
RunHandler(n, m) ==
  /\ IsCommand(n, m, Commands)
  /\ Executed(n, m, TRUE)
  /\ UNCHANGED <<stateVars, linked, uplink, relayVars, fresh, given>>

RefuseCommand(n, m) ==
  /\ IsCommand(n, m, BuiltIns)
  /\ \/ peers[n][m].role # "owner"
     \/ Head(downlink[n]).payload.cmd = "invite/delete"
  /\ Executed(n, m, FALSE)
  /\ UNCHANGED <<stateVars, linked, uplink, relayVars, fresh, given>>

InviteCreate(n, m, role, holder) ==
  /\ IsCommand(n, m, {"invite/create"})
  /\ peers[n][m].role = "owner"
  /\ holder \in Clients \ {n}
  /\ NewInvite(n, role, holder)
  /\ Executed(n, m, TRUE)
  /\ UNCHANGED <<pending_peers, peers, linked, uplink, relayVars>>

\* The relay keeps the commit of a deleted invite.
InviteDelete(n, m, p) ==
  /\ IsCommand(n, m, {"invite/delete"})
  /\ peers[n][m].role = "owner"
  /\ p \in DOMAIN invites[n]
  /\ invites' = [invites EXCEPT ![n] = Drop(@, p)]
  /\ Executed(n, m, TRUE)
  /\ UNCHANGED <<pending_peers, peers, linked, uplink, relayVars, fresh, given>>

\* The new state of the peer whose preimage is renewed.
Renewed(n, issued) ==
  LET m == task[n].peer IN
  peers' = [peers EXCEPT ![n] =
              Put(@, m, [role |-> @[m].role, issued_preimages |-> issued,
                         their_preimage |-> @[m].their_preimage])]

RenewalAck(n) ==
  Ack(task[n].from, task[n].preimage, Response(task[n].ok, task[n].cmd, fresh))

\* Faults: the used preimage stays; the new one is not kept; its commit is not
\* sent.
RenewPreimage_keepsOld(n) ==
  /\ At(n, "renew")
  /\ Renewed(n, peers[n][task[n].peer].issued_preimages \cup {fresh})
  /\ fresh' = fresh + 1
  /\ Goto(n, Writing(<<UpdateCommits({Sha256(fresh)}), RenewalAck(n)>>))
  /\ UNCHANGED <<invites, pending_peers, linkVars, relayVars, given, executed>>

RenewPreimage_losesNew(n) ==
  /\ At(n, "renew")
  /\ Renewed(n, peers[n][task[n].peer].issued_preimages \ {task[n].preimage})
  /\ fresh' = fresh + 1
  /\ Goto(n, Writing(<<UpdateCommits({Sha256(fresh)}), RenewalAck(n)>>))
  /\ UNCHANGED <<invites, pending_peers, linkVars, relayVars, given, executed>>

RenewPreimage_noUpdate(n) ==
  /\ At(n, "renew")
  /\ Renewed(n, (peers[n][task[n].peer].issued_preimages \ {task[n].preimage})
                \cup {fresh})
  /\ fresh' = fresh + 1
  /\ Goto(n, Writing(<<RenewalAck(n)>>))
  /\ UNCHANGED <<invites, pending_peers, linkVars, relayVars, given, executed>>

\* consume_and_renew_preimage and save; the commit of the new preimage is
\* written before the acknowledgement that carries it.
RenewPreimage(n) ==
  /\ At(n, "renew")
  /\ Renewed(n, (peers[n][task[n].peer].issued_preimages \ {task[n].preimage})
                \cup {fresh})
  /\ fresh' = fresh + 1
  /\ Goto(n, Writing(<<UpdateCommits({Sha256(fresh)}), RenewalAck(n)>>))
  /\ UNCHANGED <<invites, pending_peers, linkVars, relayVars, given, executed>>

\* Fault: the handler does not come back to the loop.
WriteFrame_noReturn(n) ==
  /\ At(n, "write") /\ n \in linked
  /\ uplink' = [uplink EXCEPT ![n] = Append(@, Head(task[n].frames))]
  /\ Goto(n, Writing(Tail(task[n].frames)))
  /\ UNCHANGED <<stateVars, linked, downlink, relayVars, worldVars>>

\* The next frame of the handler is written.
WriteFrame(n) ==
  LET frames == task[n].frames IN
  /\ At(n, "write") /\ n \in linked
  /\ uplink' = [uplink EXCEPT ![n] = Append(@, Head(frames))]
  /\ Goto(n, IF Len(frames) = 1 THEN Serving ELSE Writing(Tail(frames)))
  /\ UNCHANGED <<stateVars, linked, downlink, relayVars, worldVars>>

\* A read or a write fails: run returns.
RunEnds(n) ==
  /\ task[n].at \in {"serving", "write"} /\ n \notin linked
  /\ Goto(n, Idle)
  /\ UNCHANGED <<stateVars, linkVars, relayVars, worldVars>>

------------------------------------------------------------------------------
(***************************************************************************)
(* Failure and time                                                        *)
(***************************************************************************)

\* The serving connection breaks, with the frames that are in it.
Unlink(ns) ==
  /\ linked' = linked \ ns
  /\ uplink' = [n \in Nodes |-> IF n \in ns THEN <<>> ELSE uplink[n]]
  /\ downlink' = [n \in Nodes |-> IF n \in ns THEN <<>> ELSE downlink[n]]
  /\ commits' = Restrict(commits, DOMAIN commits \ ns)

Disconnect(n) ==
  /\ n \in linked
  /\ Unlink({n})
  /\ UNCHANGED <<stateVars, task, response_cache, worldVars>>

\* The program is killed and started again from what it has saved.  A command
\* that was executed and whose preimage was not renewed may be executed again.
Crash(n) ==
  /\ ~ At(n, "idle")
  /\ Goto(n, Idle)
  /\ Unlink({n})
  /\ executed' = IF At(n, "renew") THEN executed \ {task[n].preimage} ELSE executed
  /\ UNCHANGED <<stateVars, response_cache, fresh, given>>

\* A relay that starts again knows nothing; every connection to it is gone.
RelayRestart ==
  /\ Unlink(Nodes)
  /\ response_cache' = EmptyMap
  /\ task' = [n \in Nodes |-> IF task[n].at \in {"sent", "routed"} THEN Idle
                                                                ELSE task[n]]
  /\ UNCHANGED <<stateVars, worldVars>>

Expire(p) ==
  /\ p \in DOMAIN response_cache
  /\ response_cache' = Drop(response_cache, p)
  /\ UNCHANGED <<stateVars, task, linkVars, commits, worldVars>>

------------------------------------------------------------------------------
(***************************************************************************)
(* The specification                                                       *)
(***************************************************************************)

UserStep(n) ==
  \/ \E role \in Roles, m \in Nodes : CreateInvite(n, role, m)
  \/ \E p \in DOMAIN given : Pair(n, p)
  \/ \E m \in Nodes, cmd \in Commands \cup BuiltIns : Send(n, m, cmd)
  \/ Run(n)

CallStep(n) ==
  \/ CachedResponse(n) \/ Refused(n) \/ RouteMessage(n)
  \/ HandshakeAccepted(n) \/ HandshakeRejected(n) \/ CommandAnswered(n)

RelayStep(n) == RegisterFrame(n) \/ CommitsFrame(n) \/ AckFrame(n)

ServeStep(n) ==
  \/ AcceptHandshake(n) \/ RejectHandshake(n) \/ Unauthorized(n)
  \/ \E m \in Nodes : RunHandler(n, m) \/ RefuseCommand(n, m)
  \/ \E m, holder \in Nodes, role \in Roles : InviteCreate(n, m, role, holder)
  \/ \E m \in Nodes, p \in DOMAIN invites[n] : InviteDelete(n, m, p)
  \/ RenewPreimage(n) \/ WriteFrame(n) \/ RunEnds(n)

FaultStep ==
  \/ \E n \in Nodes : Disconnect(n) \/ Crash(n)
  \/ RelayRestart
  \/ \E p \in DOMAIN response_cache : Expire(p)

Next ==
  \/ \E n \in Nodes :
       UserStep(n) \/ CallStep(n) \/ RelayStep(n) \/ ServeStep(n) \/ Fail(n)
  \/ FaultStep

Spec == Init /\ [][Next]_vars

------------------------------------------------------------------------------
(***************************************************************************)
(* Types                                                                   *)
(***************************************************************************)

Preimages == 1 .. fresh - 1
CommitsOf(ps) == {Sha256(p) : p \in ps}

\* What node n sends.
Payloads(n) ==
  [msg : {"HANDSHAKE_INIT"}, sender_id52 : {n}, preimage_for_peer : Preimages]
    \cup [msg : {"request"}, cmd : Commands \cup BuiltIns]

Delivery == UNION {[from : {c}, preimage : Preimages, payload : Payloads(c)] : c \in Clients}

Replies ==
  [msg : {"HANDSHAKE_COMPLETE"}, ok : {TRUE}, preimage_for_peer : Preimages]
    \cup {HandshakeComplete(FALSE, None)}
    \cup [msg : {"response"}, ok : BOOLEAN, cmd : Commands \cup BuiltIns,
          next : Preimages \cup {None}]

Frame ==
  [type : {"I_AM", "UPDATE_COMMITS"}, commits : SUBSET CommitsOf(Preimages)]
    \cup [type : {"ACK"}, from : Clients, preimage : Preimages, response : Replies]

TaskOK(n, t) ==
  \/ t = Idle
  \/ t = Serving /\ n \in Servers
  \/ /\ n \in Clients
     /\ t \in [at : {"sent", "routed", "answered"}, to : Nodes \ {n}, preimage : Preimages,
               payload : Payloads(n), response : Replies \cup {None}]
     /\ IF t.at = "answered" THEN t.response \in Replies ELSE t.response = None
  \/ /\ n \in Servers
     /\ t \in [at : {"renew"}, from : Clients, preimage : Preimages,
               peer : DOMAIN peers[n], ok : BOOLEAN, cmd : Commands \cup BuiltIns]
  \/ /\ n \in Servers
     /\ t \in [at : {"write"}, frames : Seq(Frame)]
     /\ Len(t.frames) \in {1, 2}

StateOK(n) ==
  /\ invites[n] \in [DOMAIN invites[n] -> Roles]
  /\ DOMAIN invites[n] \subseteq Preimages
  /\ DOMAIN pending_peers[n] \cup DOMAIN peers[n] \subseteq Nodes \ {n}
  /\ \A m \in DOMAIN pending_peers[n] :
       pending_peers[n][m] \in [their_preimage : Preimages, my_preimage : Preimages]
  /\ \A m \in DOMAIN peers[n] :
       peers[n][m] \in [role : Roles, issued_preimages : SUBSET Preimages,
                        their_preimage : Preimages]

LinkOK(n) ==
  /\ uplink[n] \in Seq(Frame) /\ downlink[n] \in Seq(Delivery)
  /\ \A i \in DOMAIN downlink[n] : downlink[n][i].from # n
  /\ n \notin linked => uplink[n] = <<>> /\ downlink[n] = <<>> /\ n \notin DOMAIN commits
  /\ n \in DOMAIN commits => commits[n] \subseteq CommitsOf(Preimages)

RelayOK ==
  /\ DOMAIN commits \subseteq linked /\ linked \subseteq Servers
  /\ response_cache \in [DOMAIN response_cache -> Replies]
  /\ DOMAIN response_cache \subseteq Preimages

WorldOK ==
  /\ fresh \in Nat \ {0}
  /\ DOMAIN given \cup executed \subseteq Preimages
  /\ \A p \in DOMAIN given :
       given[p] \in [id52 : Servers, holder : Clients] /\ given[p].id52 # given[p].holder

\* Every variable has its type, and every preimage that is anywhere was drawn
\* by random_bytes.  A node serves with a link of its own and is not its own
\* peer; a link that is down carries nothing and has no binding.
TypeOK ==
  /\ {DOMAIN invites, DOMAIN pending_peers, DOMAIN peers, DOMAIN task,
      DOMAIN uplink, DOMAIN downlink} = {Nodes}
  /\ \A n \in Nodes : StateOK(n) /\ TaskOK(n, task[n]) /\ LinkOK(n)
  /\ RelayOK /\ WorldOK

------------------------------------------------------------------------------
(***************************************************************************)
(* Safety                                                                  *)
(***************************************************************************)

Frames(n) ==
  {uplink[n][i] : i \in DOMAIN uplink[n]}
    \cup (IF At(n, "write") THEN {task[n].frames[i] : i \in DOMAIN task[n].frames}
                            ELSE {})

\* Node n honours preimage p: it executes a command for it, or pairs.
Honours(n, p) ==
  /\ At(n, "serving")
  /\ \/ task'[n].at = "renew" /\ task'[n].preimage = p
     \/ task'[n].at = "write" /\ p \in DOMAIN invites[n] \ DOMAIN invites'[n]

\* The program of a node is killed between the execution of a command and the
\* save of its renewed preimage.
KilledUnsaved(n, p) == At(n, "renew") /\ task[n].preimage = p /\ task'[n] = Idle

\* A preimage is honoured once: a command is not executed twice for it, and a
\* token makes one pairing, whatever is retried, times out, breaks or starts
\* again in between.  Only a kill before the renewed preimage is saved makes a
\* command count as not executed: that one may be executed again.
HonouredOnce ==
  [][\A p \in Preimages :
       /\ \A n \in Nodes : Honours(n, p) => p \notin executed
       /\ p \in executed \ executed' => \E n \in Nodes : KilledUnsaved(n, p)]_vars

\* The ways a preimage that n has issued can still reach it.
Underway(n, p) ==
  \/ n \in DOMAIN commits /\ Sha256(p) \in commits[n]
  \/ \E f \in Frames(n) : f.type # "ACK" /\ Sha256(p) \in f.commits
  \/ \E i \in DOMAIN downlink[n] : downlink[n][i].preimage = p
  \/ At(n, "renew") /\ task[n].preimage = p

\* As long as a serving node is connected, a preimage its peer may use is not
\* dead: its commit is with the relay or on the way there, or the message that
\* uses it is on its way or being handled.
IssuedReachable ==
  \A n \in linked : ~ At(n, "idle") =>
    \A p \in Issued(n) : Underway(n, p)

\* The responses that may still reach a sender, with the preimage it sent with.
Responses ==
  {[to |-> p, body |-> response_cache[p]] : p \in DOMAIN response_cache}
    \cup {[to |-> f.preimage, body |-> f.response] :
            f \in {g \in UNION {Frames(n) : n \in Nodes} : g.type = "ACK"}}
    \cup {[to |-> task[n].preimage, body |-> task[n].response] :
            n \in {k \in Nodes : At(k, "answered")}}

\* <<p, q>>: who sends with p once more is told to go on with q.
Told ==
  {<<r.to, r.body.next>> : r \in {x \in Responses : x.body.msg = "response" /\ x.body.next # None}}

\* Sets of preimages that hold p, and with each what its sender is told.
Closed(p) ==
  LET told == Told
  IN {qs \in SUBSET ({p} \cup {t[2] : t \in told}) :
        p \in qs /\ \A t \in told : t[1] \in qs => t[2] \in qs}

\* p and what a sender that holds p may come to hold, told one after the other.
Onward(p) == {q \in {p} \cup {t[2] : t \in Told} : \A qs \in Closed(p) : q \in qs}

\* m would accept p from n.
Accepts(m, n, p) ==
  \/ n \in DOMAIN peers[m] /\ p \in peers[m][n].issued_preimages
  \/ n \in DOMAIN pending_peers[m] /\ p = pending_peers[m][n].my_preimage

\* n can go on talking to its peer m: with what it holds, or with what it is told
\* when it sends with that once more.
InTouch(n, m) ==
  \/ Accepts(m, n, peers[n][m].their_preimage)
  \/ \A qs \in Closed(peers[n][m].their_preimage) : \E q \in qs : Accepts(m, n, q)

\* A command is executed in the name of the peer that sent it, though the
\* sender is not named anywhere and is known by the preimage only.
CommandsAttributed ==
  \A n \in Nodes : At(n, "renew") => task[n].peer = task[n].from

\* Node k pairs with j once more: it begins while a pairing with j is pending, or
\* either side of a new pairing replaces the peer it had.
PairsAnew(k, j) ==
  \/ j \in DOMAIN pending_peers[k] /\ \E p \in DOMAIN given : given[p].id52 = j /\ Pair(k, p)
  \/ j \in DOMAIN peers[k] /\ HandshakeAccepted(k) /\ task[k].to = j
  \/ j \in DOMAIN peers[k] /\ AcceptHandshake(k) /\ Head(downlink[k]).payload.sender_id52 = j

\* A program or a connection breaks off.
BreaksOff == FaultStep \/ \E n \in Nodes : Fail(n) \/ RunEnds(n)

\* Two paired nodes lose touch only when what breaks off takes along a response
\* that was still needed, or when they pair once more.
StaysInTouch ==
  [][\A n, m \in Nodes :
       m \in DOMAIN peers[n] /\ InTouch(n, m) =>
         \/ InTouch(n, m)'
         \/ BreaksOff /\ \E t \in Told : t \notin Told' /\ t[1] \in Onward(peers[n][m].their_preimage)
         \/ PairsAnew(n, m) \/ PairsAnew(m, n)]_vars

------------------------------------------------------------------------------
(***************************************************************************)
(* What the documents say and the code does not do                         *)
(***************************************************************************)

\* The commit of an invite is registered with the relay: while its node
\* serves, an invite that was not used can be.
InviteReachable ==
  \A n \in linked : At(n, "serving") =>
    \A p \in DOMAIN invites[n] : Underway(n, p)

\* The relay drops the commit of an invite that is cancelled: once it has all
\* its node has written, it holds none of a token that was neither used nor is
\* still open.
CancelRevokes ==
  \A n \in DOMAIN commits : At(n, "serving") /\ uplink[n] = <<>> =>
    \A p \in DOMAIN given \ (DOMAIN invites[n] \cup executed) :
      given[p].id52 = n => Sha256(p) \notin commits[n]

\* A rejected acceptor forgets the pending peer.
RejectedForgotten ==
  [][\A n \in Nodes :
       /\ At(n, "answered") /\ task'[n].at = "idle"
       /\ task[n].response = HandshakeComplete(FALSE, None)
       => task[n].to \notin DOMAIN pending_peers'[n]]_vars

\* Both sides of a pairing have a preimage for the next message to the other.
InviterCanReply ==
  \A n, m \in Nodes :
    m \in DOMAIN peers[n] /\ n \in DOMAIN peers[m] =>
      Accepts(m, n, peers[n][m].their_preimage)

\* A response that send takes is the response to its own command.
AnswersOwnCommand ==
  \A n \in Nodes :
    At(n, "answered") /\ task[n].payload.msg = "request" =>
      task[n].response.cmd = task[n].payload.cmd

\* A preimage a peer was given is accepted by the relay: no message is refused
\* because the commit of its preimage is still on its way from a recipient that
\* is connected.
FreshPreimageAccepted ==
  [][\A n \in Nodes :
       Refused(n) /\ task[n].to \in DOMAIN commits =>
         \A f \in Frames(task[n].to) :
           f.type # "ACK" => Sha256(task[n].preimage) \notin f.commits]_vars

\* An owner stays one until it is invited anew: to accept an invite of a node
\* that is a peer already does not change what that node may do here.
RoleKept ==
  [][\A n, m \in Nodes :
       m \in DOMAIN peers[n] /\ peers'[n] # peers[n] =>
         \/ peers'[n][m].role = peers[n][m].role
         \/ invites'[n] # invites[n]]_vars

------------------------------------------------------------------------------
(***************************************************************************)
(* Liveness                                                                *)
(***************************************************************************)

\* Programs run their handlers, the relay handles what it is sent, servers are
\* started again, and users repeat a command whose outcome they did not learn.
Fairness ==
  /\ \A n \in Nodes : WF_vars(CallStep(n)) /\ WF_vars(RelayStep(n))
                      /\ WF_vars(ServeStep(n)) /\ WF_vars(Run(n))
                      /\ WF_vars(At(n, "routed") /\ Fail(n))
  /\ \A n, m \in Nodes : WF_vars(\E cmd \in Commands : Send(n, m, cmd))

FairSpec == Init /\ [][Next]_vars /\ Fairness

\* n sends its next command to m with p.
Uses(n, m, p) == m \in DOMAIN peers[n] /\ peers[n][m].their_preimage = p

\* A call ends without the outcome its caller hoped for, and nothing broke.
EndsInVain(n) ==
  Refused(n) \/ HandshakeRejected(n) \/ (At(n, "routed") /\ Fail(n))

\* From some time on nothing breaks.  To a caller that serves nobody its own
\* crash is like any end of the call, so that those are named.
Calm ==
  <>[][FaultStep \/ (\E n \in Nodes : Fail(n)) => \E n \in Nodes : EndsInVain(n)]_vars

\* Repeating a command gets on: whatever happened before, the caller comes to
\* its next preimage, unless the response that carries it was lost for good.
RetryConverges ==
  Calm => \A n \in Clients, m \in Servers, p \in 1 .. MaxFresh :
            Uses(n, m, p) ~> ~ Uses(n, m, p) \/ ~ InTouch(n, m) \/ fresh > MaxFresh

==============================================================================
