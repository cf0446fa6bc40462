------------------------------ MODULE NodeProofs ------------------------------
(***************************************************************************)
(* Theorems about Node, for any number of nodes, of pairings and of        *)
(* commands, each node serving, calling, or doing both by turns.           *)
(***************************************************************************)
EXTENDS Node, FiniteSetTheorems, SequenceTheorems, TLAPS

(***************************************************************************)
(* Inductive invariants                                                    *)
(***************************************************************************)

\* CommandsAttributed: every preimage is drawn by one node, by[p], for one other,
\* user[p], and whatever becomes of it nobody else issues it or sends with it.
TokensOwned(by, user) ==
  \A p \in DOMAIN given : by[p] = given[p].id52 /\ user[p] = given[p].holder

PeersOwned(by, user, n) ==
  /\ \A p \in DOMAIN invites[n] : p \in DOMAIN given /\ by[p] = n
  /\ \A m \in DOMAIN peers[n] :
       /\ user[peers[n][m].their_preimage] = n /\ by[peers[n][m].their_preimage] = m
       /\ \A p \in peers[n][m].issued_preimages :
            p \notin DOMAIN given /\ by[p] = n /\ user[p] = m
  /\ \A m \in DOMAIN pending_peers[n] : \A p \in {pending_peers[n][m].my_preimage} :
       p \notin DOMAIN given \cup Issued(n) /\ by[p] = n /\ user[p] = m

\* A handshake is made with a token, and tells its recipient a preimage.
MessageOwned(by, user, from, to, p, payload) ==
  /\ user[p] = from /\ by[p] = to
  /\ payload.msg = "HANDSHAKE_INIT" =>
       /\ p \in DOMAIN given
       /\ user[payload.preimage_for_peer] = to /\ by[payload.preimage_for_peer] = from

\* What the response to p tells is for the same use.
ReplyOwned(by, user, p, r) ==
  /\ r.msg = "HANDSHAKE_COMPLETE" /\ r.ok =>
       user[r.preimage_for_peer] = user[p] /\ by[r.preimage_for_peer] = by[p]
  /\ r.msg = "response" /\ r.next # None => user[r.next] = user[p] /\ by[r.next] = by[p]

TaskOwned(by, user, n) ==
  /\ task[n].at \in {"sent", "routed", "answered"} =>
       MessageOwned(by, user, n, task[n].to, task[n].preimage, task[n].payload)
  /\ At(n, "answered") => ReplyOwned(by, user, task[n].preimage, task[n].response)
  /\ At(n, "renew") => /\ user[task[n].preimage] = task[n].from /\ task[n].peer = task[n].from
                      /\ by[task[n].preimage] = n

LinkOwned(by, user, n) ==
  /\ \A i \in DOMAIN downlink[n] : \A d \in {downlink[n][i]} :
       MessageOwned(by, user, d.from, n, d.preimage, d.payload)
  /\ \A f \in Frames(n) : f.type = "ACK" =>
       user[f.preimage] = f.from /\ ReplyOwned(by, user, f.preimage, f.response)

CacheOwned(by, user) ==
  \A p \in DOMAIN response_cache : ReplyOwned(by, user, p, response_cache[p])

Owned(by, user) ==
  /\ TokensOwned(by, user) /\ CacheOwned(by, user)
  /\ \A n \in Nodes : PeersOwned(by, user, n) /\ TaskOwned(by, user, n) /\ LinkOwned(by, user, n)

OwnedInv == \E by, user \in [Preimages -> Nodes] : Owned(by, user)

\* IssuedReachable: the I_AM that replaces the commits comes before all of them.
ReachableInv ==
  /\ IssuedReachable
  /\ \A n \in Nodes :
       /\ n \in linked => task[n].at \in {"serving", "renew", "write"}
       /\ \A i \in DOMAIN uplink[n] :
            uplink[n][i].type = "I_AM" => i = 1 /\ n \notin DOMAIN commits
       /\ At(n, "write") =>
            \A i \in DOMAIN task[n].frames : task[n].frames[i].type # "I_AM"

\* HonouredOnce: a preimage that was honoured is retired, or being renewed.
RetiredInv ==
  \A p \in executed, n \in Nodes :
    /\ p \notin DOMAIN invites[n]
    /\ \A m \in DOMAIN pending_peers[n] : p # pending_peers[n][m].my_preimage
    /\ p \in Issued(n) => At(n, "renew") /\ task[n].preimage = p

(***************************************************************************)
(* Types                                                                   *)
(***************************************************************************)

\* What was drawn stays drawn, and what is made of it keeps its type.
LEMMA PreimagesGrow ==
  ASSUME fresh \in Nat \ {0}, fresh' \in {fresh, fresh + 1}
  PROVE  /\ fresh' \in Nat \ {0}
         /\ Preimages \subseteq Preimages' /\ Preimages' \subseteq Nat
         /\ fresh \notin Preimages /\ None \notin Preimages'
         /\ fresh' = fresh + 1 => fresh \in Preimages' /\ Preimages' = Preimages \cup {fresh}
<1>1. fresh' \in Nat \ {0} /\ fresh <= fresh'
  OBVIOUS
<1>2. /\ Preimages = {p \in Nat : 1 <= p /\ p < fresh}
      /\ Preimages' = {p \in Nat : 1 <= p /\ p < fresh'}
  BY <1>1 DEF Preimages
<1>3. ASSUME fresh' = fresh + 1
      PROVE  fresh \in Preimages' /\ Preimages' = Preimages \cup {fresh}
  BY <1>2, <1>3
<1> QED
  BY <1>1, <1>2, <1>3, NodeAssumption

LEMMA TypesGrow ==
  ASSUME Preimages \subseteq Preimages'
  PROVE  /\ CommitsOf(Preimages) \subseteq CommitsOf(Preimages)'
         /\ \A n : Payloads(n) \subseteq Payloads(n)'
         /\ Delivery \subseteq Delivery' /\ Seq(Delivery) \subseteq Seq(Delivery)'
         /\ Replies \subseteq Replies'
         /\ Frame \subseteq Frame' /\ Seq(Frame) \subseteq Seq(Frame)'
<1>1. CommitsOf(Preimages) \subseteq CommitsOf(Preimages)'
  BY DEF CommitsOf
<1>2. \A n : Payloads(n) \subseteq Payloads(n)'
  BY DEF Payloads
<1>3. Delivery \subseteq Delivery'
  BY <1>2 DEF Delivery
<1>4. Replies \subseteq Replies'
  BY DEF Replies, HandshakeComplete
<1>5. Frame \subseteq Frame'
  BY <1>1, <1>4 DEF Frame
<1>6. \A S, T : S \subseteq T => Seq(S) \subseteq Seq(T)
  OBVIOUS
<1> QED
  BY <1>1, <1>2, <1>3, <1>4, <1>5, <1>6

\* At most one preimage is drawn in a step.
LEMMA DrawsOne ==
  ASSUME [Next]_vars
  PROVE  fresh' \in {fresh, fresh + 1}
<1> USE DEF worldVars
<1>1. CASE UNCHANGED vars
  BY <1>1 DEF vars
<1>2. CASE \E n \in Nodes : UserStep(n)
  BY <1>2 DEF UserStep, CreateInvite, NewInvite, Pair, Send, Run
<1>3. CASE \E n \in Nodes : CallStep(n) \/ Fail(n)
  BY <1>3 DEF CallStep, CachedResponse, Refused, RouteMessage, HandshakeAccepted,
       HandshakeRejected, CommandAnswered, Fail
<1>4. CASE \E n \in Nodes : RelayStep(n)
  BY <1>4 DEF RelayStep, RegisterFrame, CommitsFrame, AckFrame
<1>5. CASE \E n \in Nodes : ServeStep(n)
  BY <1>5 DEF ServeStep, AcceptHandshake, RejectHandshake, Unauthorized, RunHandler, RefuseCommand,
       InviteCreate, NewInvite, InviteDelete, RenewPreimage, WriteFrame, RunEnds
<1>6. CASE FaultStep
  BY <1>6 DEF FaultStep, Disconnect, Crash, RelayRestart, Expire
<1> QED
  BY <1>1, <1>2, <1>3, <1>4, <1>5, <1>6 DEF Next

\* What a node keeps its type when it does not change.
LEMMA StateStays ==
  ASSUME NEW n \in Nodes, StateOK(n), Preimages \subseteq Preimages',
         invites'[n] = invites[n], pending_peers'[n] = pending_peers[n], peers'[n] = peers[n]
  PROVE  StateOK(n)'
BY DEF StateOK

LEMMA TaskStays ==
  ASSUME NEW n \in Nodes, TaskOK(n, task[n]), Preimages \subseteq Preimages',
         DOMAIN peers[n] \subseteq DOMAIN peers'[n], task'[n] = task[n]
  PROVE  TaskOK(n, task[n])'
<1> DEFINE t == task[n]
<1>1. TaskOK(n, t) /\ t' = t
  OBVIOUS
<1> HIDE DEF t
<1> SUFFICES TaskOK(n, t)'
  BY DEF t
<1>2. CASE t = Idle \/ (t = Serving /\ n \in Servers)
  BY <1>1, <1>2 DEF TaskOK
<1>3. CASE n \in Clients /\ t \in [at : {"sent", "routed", "answered"}, to : Nodes \ {n},
               preimage : Preimages, payload : Payloads(n), response : Replies \cup {None}]
             /\ IF t.at = "answered" THEN t.response \in Replies ELSE t.response = None
  BY <1>1, <1>3, TypesGrow DEF TaskOK
<1>4. CASE n \in Servers /\ t \in [at : {"renew"}, from : Clients, preimage : Preimages,
               peer : DOMAIN peers[n], ok : BOOLEAN, cmd : Commands \cup BuiltIns]
  BY <1>1, <1>4, TypesGrow DEF TaskOK
<1>5. CASE n \in Servers /\ t \in [at : {"write"}, frames : Seq(Frame)] /\ Len(t.frames) \in {1, 2}
  BY <1>1, <1>5, TypesGrow DEF TaskOK
<1> QED
  BY <1>1, <1>2, <1>3, <1>4, <1>5 DEF TaskOK

LEMMA LinkStays ==
  ASSUME NEW n \in Nodes, LinkOK(n), Preimages \subseteq Preimages',
         uplink'[n] = uplink[n], downlink'[n] = downlink[n],
         n \in linked => n \in linked',
         n \in DOMAIN commits' => n \in DOMAIN commits /\ commits'[n] \subseteq commits[n]
  PROVE  LinkOK(n)'
BY TypesGrow DEF LinkOK


LEMMA NodeStays ==
  ASSUME NEW n \in Nodes, StateOK(n), TaskOK(n, task[n]), LinkOK(n), Preimages \subseteq Preimages',
         invites'[n] = invites[n], pending_peers'[n] = pending_peers[n], peers'[n] = peers[n],
         task'[n] = task[n], uplink'[n] = uplink[n], downlink'[n] = downlink[n],
         n \in linked => n \in linked',
         n \in DOMAIN commits' => n \in DOMAIN commits /\ commits'[n] \subseteq commits[n]
  PROVE  StateOK(n)' /\ TaskOK(n, task[n])' /\ LinkOK(n)'
BY StateStays, TaskStays, LinkStays

\* A new invite.
LEMMA NewInviteTypes ==
  ASSUME TypeOK, NEW n \in Servers, NEW role \in Roles, NEW holder \in Clients \ {n},
         NewInvite(n, role, holder), UNCHANGED <<pending_peers, peers>>
  PROVE  StateOK(n)' /\ fresh' \in Nat \ {0} /\ DOMAIN given' \subseteq Preimages'
         /\ \A p \in DOMAIN given' :
              given'[p] \in [id52 : Servers, holder : Clients] /\ given'[p].id52 # given'[p].holder
<1>1. /\ Preimages' = Preimages \cup {fresh} /\ Preimages \subseteq Preimages'
      /\ fresh' \in Nat \ {0} /\ n \in Nodes
  BY PreimagesGrow, NodeAssumption DEF TypeOK, WorldOK, NewInvite
<1>2. invites'[n] = Put(invites[n], fresh, role)
  BY <1>1 DEF NewInvite, TypeOK
<1>3. StateOK(n)'
  BY <1>1, <1>2 DEF TypeOK, StateOK, Put
<1>4. given' = Put(given, fresh, [id52 |-> n, holder |-> holder])
  BY DEF NewInvite
<1>5. DOMAIN given' = DOMAIN given \cup {fresh}
  BY <1>4 DEF Put
<1>6. ASSUME NEW p \in DOMAIN given'
      PROVE  given'[p] \in [id52 : Servers, holder : Clients] /\ given'[p].id52 # given'[p].holder
  <2>1. CASE p = fresh
    BY <1>4, <2>1 DEF Put
  <2>2. CASE p # fresh
    BY <1>4, <1>5, <2>2 DEF Put, TypeOK, WorldOK
  <2> QED
    BY <2>1, <2>2
<1> QED
  BY <1>1, <1>3, <1>5, <1>6 DEF TypeOK, WorldOK

LEMMA UserTypes ==
  ASSUME TypeOK, NEW n \in Nodes, UserStep(n)
  PROVE  TypeOK'
<1> USE NodeAssumption
<1>1. fresh \in Nat \ {0} /\ fresh' \in {fresh, fresh + 1}
  BY DEF TypeOK, WorldOK, UserStep, CreateInvite, NewInvite, Pair, Send, Run, worldVars
<1>2. Preimages \subseteq Preimages' /\ fresh' \in Nat \ {0}
  BY <1>1, PreimagesGrow
<1>3. \A k \in Nodes : StateOK(k) /\ TaskOK(k, task[k]) /\ LinkOK(k)
  BY DEF TypeOK
<1>4. CASE \E role \in Roles, m \in Nodes : CreateInvite(n, role, m)
  <2>1. PICK role \in Roles, holder \in Nodes : CreateInvite(n, role, holder)
    BY <1>4
  <2>2. /\ NewInvite(n, role, holder) /\ n \in Servers /\ holder \in Clients \ {n}
        /\ UNCHANGED <<pending_peers, peers, task, linked, uplink, downlink, commits,
                       response_cache, executed>>
    BY <2>1 DEF CreateInvite, linkVars, relayVars
  <2>3. StateOK(n)' /\ WorldOK'
    BY <1>2, <2>2, NewInviteTypes DEF TypeOK, WorldOK
  <2>4. \A k \in Nodes \ {n} : invites'[k] = invites[k]
    BY <2>2 DEF NewInvite, TypeOK
  <2>5. ASSUME NEW k \in Nodes
        PROVE  StateOK(k)' /\ TaskOK(k, task[k])' /\ LinkOK(k)'
    BY <1>2, <1>3, <2>2, <2>3, <2>4, StateStays, TaskStays, LinkStays
  <2>6. RelayOK'
    BY <1>2, <2>2, TypesGrow DEF TypeOK, RelayOK
  <2> QED
    BY <2>2, <2>3, <2>5, <2>6 DEF TypeOK, NewInvite
<1>5. CASE \E p \in DOMAIN given : Pair(n, p)
  <2>1. PICK p \in DOMAIN given : Pair(n, p)
    BY <1>5
  <2> DEFINE m == given[p].id52
  <2>2. /\ m \in Nodes \ {n} /\ n \in Clients /\ p \in Preimages
        /\ fresh' = fresh + 1
        /\ pending_peers' = [pending_peers EXCEPT ![n] =
              Put(pending_peers[n], m, [their_preimage |-> p, my_preimage |-> fresh])]
        /\ task' = [task EXCEPT ![n] = Call(m, p, HandshakeInit(n, fresh))]
        /\ UNCHANGED <<invites, peers, linked, uplink, downlink, commits, response_cache,
                       given, executed>>
    BY <2>1 DEF Pair, linkVars, relayVars, TypeOK, WorldOK, Goto
  <2> HIDE DEF m
  <2>3. fresh \in Preimages'
    BY <1>1, <2>2, PreimagesGrow
  <2>4. StateOK(n)'
    <3>1. pending_peers'[n] = Put(pending_peers[n], m, [their_preimage |-> p, my_preimage |-> fresh])
      BY <2>2 DEF TypeOK
    <3> QED
      BY <1>2, <1>3, <2>2, <2>3, <3>1 DEF StateOK, Put
  <2>5. TaskOK(n, task[n])'
    <3>1. task'[n] = Call(m, p, HandshakeInit(n, fresh))
      BY <2>2 DEF TypeOK
    <3>2. HandshakeInit(n, fresh) \in Payloads(n)'
      BY <2>3 DEF HandshakeInit, Payloads
    <3>3. Call(m, p, HandshakeInit(n, fresh)) \in
            [at : {"sent", "routed", "answered"}, to : Nodes \ {n}, preimage : Preimages',
             payload : Payloads(n)', response : Replies' \cup {None}]
      BY <1>2, <2>2, <3>2 DEF Call
    <3> QED
      BY <2>2, <3>1, <3>3 DEF TaskOK, Call
  <2>6. ASSUME NEW k \in Nodes
        PROVE  StateOK(k)' /\ TaskOK(k, task[k])' /\ LinkOK(k)'
    <3>1. k # n => pending_peers'[k] = pending_peers[k] /\ task'[k] = task[k]
      BY <2>2 DEF TypeOK
    <3> QED
      BY <1>2, <1>3, <2>2, <2>4, <2>5, <3>1, StateStays, TaskStays, LinkStays
  <2>7. RelayOK' /\ WorldOK'
    BY <1>2, <2>2, TypesGrow DEF TypeOK, RelayOK, WorldOK
  <2> QED
    BY <2>2, <2>6, <2>7 DEF TypeOK
<1>6. CASE \E m \in Nodes, cmd \in Commands \cup BuiltIns : Send(n, m, cmd)
  <2>1. PICK m \in Nodes, cmd \in Commands \cup BuiltIns : Send(n, m, cmd)
    BY <1>6
  <2> DEFINE p == peers[n][m].their_preimage
  <2>2. /\ m \in DOMAIN peers[n] /\ n \in Clients
        /\ task' = [task EXCEPT ![n] = Call(m, p, Request(cmd))]
        /\ UNCHANGED <<invites, pending_peers, peers, linked, uplink, downlink, commits,
                       response_cache, fresh, given, executed>>
    BY <2>1 DEF Send, Goto, stateVars, linkVars, relayVars, worldVars
  <2>3. m \in Nodes \ {n} /\ p \in Preimages
    BY <1>3, <2>2 DEF StateOK
  <2> HIDE DEF p
  <2>4. TaskOK(n, task[n])'
    <3>1. task'[n] = Call(m, p, Request(cmd))
      BY <2>2 DEF TypeOK
    <3>2. Request(cmd) \in Payloads(n)'
      BY DEF Request, Payloads
    <3>3. Call(m, p, Request(cmd)) \in
            [at : {"sent", "routed", "answered"}, to : Nodes \ {n}, preimage : Preimages',
             payload : Payloads(n)', response : Replies' \cup {None}]
      BY <1>2, <2>3, <3>2 DEF Call
    <3> QED
      BY <2>2, <3>1, <3>3 DEF TaskOK, Call
  <2>5. ASSUME NEW k \in Nodes
        PROVE  StateOK(k)' /\ TaskOK(k, task[k])' /\ LinkOK(k)'
    <3>1. k # n => task'[k] = task[k]
      BY <2>2 DEF TypeOK
    <3> QED
      BY <1>2, <1>3, <2>2, <2>4, <3>1, StateStays, TaskStays, LinkStays
  <2>6. RelayOK' /\ WorldOK'
    BY <1>2, <2>2, TypesGrow DEF TypeOK, RelayOK, WorldOK
  <2> QED
    BY <2>2, <2>5, <2>6 DEF TypeOK
<1>7. CASE Run(n)
  <2>1. /\ n \in Servers /\ linked' = linked \cup {n}
        /\ uplink' = [uplink EXCEPT ![n] = <<IAm(AllCommits(n))>>]
        /\ downlink' = [downlink EXCEPT ![n] = <<>>] /\ task' = [task EXCEPT ![n] = Serving]
        /\ UNCHANGED <<invites, pending_peers, peers, commits, response_cache, fresh, given, executed>>
    BY <1>7 DEF Run, Goto, stateVars, relayVars, worldVars
  <2>2. AllCommits(n) \subseteq CommitsOf(Preimages)
    BY <1>3 DEF AllCommits, CommitsOf, Issued, StateOK
  <2>3. LinkOK(n)'
    <3>1. /\ uplink'[n] = <<IAm(AllCommits(n))>> /\ downlink'[n] = <<>> /\ n \in linked'
          /\ commits' = commits
      BY <2>1 DEF TypeOK
    <3>2. IAm(AllCommits(n)) \in Frame'
      BY <1>2, <2>2, TypesGrow DEF Frame, IAm
    <3>3. CommitsOf(Preimages) \subseteq CommitsOf(Preimages)'
      BY <1>2, TypesGrow
    <3> HIDE DEF TypeOK
    <3>4. <<IAm(AllCommits(n))>> \in Seq(Frame')
      BY <3>2
    <3> QED
      BY <1>3, <3>1, <3>3, <3>4 DEF LinkOK
  <2>4. TaskOK(n, task[n])'
    BY <2>1 DEF TaskOK, TypeOK
  <2>5. ASSUME NEW k \in Nodes
        PROVE  StateOK(k)' /\ TaskOK(k, task[k])' /\ LinkOK(k)'
    <3>1. k # n => task'[k] = task[k] /\ uplink'[k] = uplink[k] /\ downlink'[k] = downlink[k]
      BY <2>1 DEF TypeOK
    <3> QED
      BY <1>2, <1>3, <2>1, <2>3, <2>4, <3>1, StateStays, TaskStays, LinkStays
  <2>6. RelayOK' /\ WorldOK'
    BY <1>2, <2>1, TypesGrow DEF TypeOK, RelayOK, WorldOK
  <2> QED
    BY <2>1, <2>5, <2>6 DEF TypeOK
<1> QED
  BY <1>4, <1>5, <1>6, <1>7 DEF UserStep

\* What a node is doing.
CallTask(n) ==
  [at : {"sent", "routed", "answered"}, to : Nodes \ {n}, preimage : Preimages,
   payload : Payloads(n), response : Replies \cup {None}]

LEMMA TaskFacts ==
  ASSUME TypeOK, NEW n \in Nodes
  PROVE  /\ task[n].at \in {"idle", "serving", "sent", "routed", "answered", "renew", "write"}
         /\ task[n].at \in {"sent", "routed", "answered"} => n \in Clients /\ task[n] \in CallTask(n)
         /\ At(n, "answered") => task[n].response \in Replies
         /\ task[n].at \in {"sent", "routed"} => task[n].response = None
         /\ task[n].at \in {"serving", "renew", "write"} => n \in Servers
         /\ At(n, "renew") =>
              task[n] \in [at : {"renew"}, from : Clients, preimage : Preimages,
                           peer : DOMAIN peers[n], ok : BOOLEAN, cmd : Commands \cup BuiltIns]
         /\ At(n, "write") => task[n].frames \in Seq(Frame) /\ Len(task[n].frames) \in {1, 2}
<1> DEFINE t == task[n]
<1>1. TaskOK(n, t)
  BY DEF TypeOK
<1> HIDE DEF t
<1> SUFFICES /\ t.at \in {"idle", "serving", "sent", "routed", "answered", "renew", "write"}
             /\ t.at \in {"sent", "routed", "answered"} => n \in Clients /\ t \in CallTask(n)
             /\ t.at = "answered" => t.response \in Replies
             /\ t.at \in {"sent", "routed"} => t.response = None
             /\ t.at \in {"serving", "renew", "write"} => n \in Servers
             /\ t.at = "renew" =>
                  t \in [at : {"renew"}, from : Clients, preimage : Preimages,
                         peer : DOMAIN peers[n], ok : BOOLEAN, cmd : Commands \cup BuiltIns]
             /\ t.at = "write" => t.frames \in Seq(Frame) /\ Len(t.frames) \in {1, 2}
  BY DEF t, At
<1> QED
  BY <1>1 DEF TaskOK, Idle, Serving, CallTask

\* What a reply brings.
LEMMA ReplyFacts ==
  ASSUME NEW r \in Replies
  PROVE  /\ r.msg = "HANDSHAKE_COMPLETE" /\ r.ok => r.preimage_for_peer \in Preimages
         /\ r.msg = "response" /\ r.next # None => r.next \in Preimages
<1>1. CASE r \in [msg : {"HANDSHAKE_COMPLETE"}, ok : {TRUE}, preimage_for_peer : Preimages]
  BY <1>1
<1>2. CASE r = HandshakeComplete(FALSE, None)
  BY <1>2 DEF HandshakeComplete
<1>3. CASE r \in [msg : {"response"}, ok : BOOLEAN, cmd : Commands \cup BuiltIns,
                 next : Preimages \cup {None}]
  BY <1>3
<1> QED
  BY <1>1, <1>2, <1>3 DEF Replies

\* The step of one call that changes no preimage.
LEMMA GotoTypes ==
  ASSUME TypeOK, NEW n \in Nodes, TaskOK(n, task[n])',
         DOMAIN task' = Nodes, \A k \in Nodes \ {n} : task'[k] = task[k],
         UNCHANGED <<stateVars, linkVars, commits, worldVars>>, RelayOK'
  PROVE  TypeOK'
<1> USE DEF stateVars, linkVars, worldVars
<1>1. Preimages' = Preimages /\ fresh \in Nat \ {0}
  BY DEF Preimages, TypeOK, WorldOK
<1>2. ASSUME NEW k \in Nodes
      PROVE  StateOK(k)' /\ TaskOK(k, task[k])' /\ LinkOK(k)'
  BY <1>1, StateStays, TaskStays, LinkStays DEF TypeOK
<1>3. WorldOK'
  BY <1>1 DEF TypeOK, WorldOK
<1> QED
  BY <1>2, <1>3 DEF TypeOK

LEMMA CallTypes ==
  ASSUME TypeOK, NEW n \in Nodes, CallStep(n) \/ Fail(n)
  PROVE  TypeOK'
<1> USE NodeAssumption
<1>1. fresh' = fresh /\ fresh \in Nat \ {0}
  BY DEF TypeOK, WorldOK, CallStep, CachedResponse, Refused, RouteMessage, HandshakeAccepted,
       HandshakeRejected, CommandAnswered, Fail, worldVars
<1>2. Preimages' = Preimages
  BY <1>1 DEF Preimages
<1>3. \A k \in Nodes : StateOK(k) /\ TaskOK(k, task[k]) /\ LinkOK(k)
  BY DEF TypeOK
<1>4. Replies' = Replies /\ Payloads(n)' = Payloads(n) /\ CallTask(n)' = CallTask(n)
  BY <1>2 DEF Replies, Payloads, CallTask
<1>5. CASE Refused(n) \/ HandshakeRejected(n) \/ Fail(n)
  <2>1. task' = [task EXCEPT ![n] = Idle] /\ UNCHANGED <<stateVars, linkVars, relayVars, worldVars>>
    BY <1>5 DEF Refused, HandshakeRejected, Fail, Goto
  <2>2. TaskOK(n, task[n])'
    BY <2>1 DEF TaskOK, TypeOK
  <2>3. RelayOK'
    BY <2>1, <1>4 DEF TypeOK, RelayOK, relayVars, linkVars, Preimages, worldVars
  <2> QED
    BY <2>1, <2>2, <2>3, GotoTypes DEF relayVars, TypeOK
<1>6. CASE CachedResponse(n)
  <2> DEFINE t == task[n]
             p == t.preimage
             r == response_cache[p]
  <2>1. /\ At(n, "sent") /\ p \in DOMAIN response_cache /\ response_cache' = Drop(response_cache, p)
        /\ task' = [task EXCEPT ![n] = Answered(t, r)]
        /\ UNCHANGED <<stateVars, linkVars, commits, worldVars>>
    BY <1>6 DEF CachedResponse, Goto
  <2>2. t \in CallTask(n) /\ n \in Clients
    BY <2>1, TaskFacts DEF At
  <2>3. r \in Replies
    BY <2>1 DEF TypeOK, RelayOK
  <2>4. task'[n] = Answered(t, r)
    BY <2>1 DEF TypeOK
  <2>5. \A k \in Nodes \ {n} : task'[k] = task[k]
    BY <2>1 DEF TypeOK
  <2>6. RelayOK'
    BY <2>1, <1>2, <1>4 DEF TypeOK, RelayOK, linkVars, Drop, Restrict
  <2>7. DOMAIN task' = Nodes
    BY <2>1 DEF TypeOK
  <2> HIDE DEF t, r
  <2>8. Answered(t, r) \in CallTask(n) /\ Answered(t, r).at = "answered" /\ Answered(t, r).response = r
    BY <2>2, <2>3 DEF Answered, CallTask
  <2>9. TaskOK(n, task[n])'
    BY <2>2, <2>3, <2>4, <2>8, <1>2, <1>4 DEF TaskOK, CallTask
  <2> QED
    BY <2>1, <2>5, <2>6, <2>7, <2>9, GotoTypes
<1>7. CASE RouteMessage(n)
  <2> DEFINE t == task[n]
             p == t.preimage
  <2>0. PICK m : m = t.to
    OBVIOUS
  <2> DEFINE d == [from |-> n, preimage |-> p, payload |-> t.payload]
  <2>1. /\ At(n, "sent") /\ m \in DOMAIN commits
        /\ commits' = [commits EXCEPT ![m] = commits[m] \ {Sha256(p)}]
        /\ downlink' = [downlink EXCEPT ![m] = Append(downlink[m], d)]
        /\ task' = [task EXCEPT ![n] = Routed(t)]
        /\ UNCHANGED <<stateVars, linked, uplink, response_cache, worldVars>>
    BY <1>7, <2>0 DEF RouteMessage, Goto
  <2>2. t \in CallTask(n) /\ n \in Clients /\ t.response = None
    BY <2>1, TaskFacts DEF At
  <2>3. task'[n] = Routed(t) /\ \A k \in Nodes \ {n} : task'[k] = task[k]
    BY <2>1 DEF TypeOK
  <2>4. m \in Nodes /\ m # n /\ d \in Delivery
    BY <2>0, <2>2 DEF CallTask, Delivery
  <2>5. /\ downlink'[m] = Append(downlink[m], d) /\ \A k \in Nodes \ {m} : downlink'[k] = downlink[k]
        /\ DOMAIN commits' = DOMAIN commits /\ \A k \in DOMAIN commits : commits'[k] \subseteq commits[k]
    BY <2>1, <2>4 DEF TypeOK
  <2>6. LinkOK(m)'
    <3>1. downlink[m] \in Seq(Delivery) /\ \A i \in DOMAIN downlink[m] : downlink[m][i].from # m
      BY <1>3, <2>4 DEF LinkOK
    <3>2. d.from # m
      BY <2>4
    <3> HIDE DEF d, t
    <3>3. downlink'[m] \in Seq(Delivery) /\ \A i \in DOMAIN downlink'[m] : downlink'[m][i].from # m
      BY <2>4, <2>5, <3>1, <3>2
    <3>4. m \in linked
      BY <2>1 DEF TypeOK, RelayOK
    <3>5. Seq(Delivery)' = Seq(Delivery) /\ Seq(Frame)' = Seq(Frame)
          /\ CommitsOf(Preimages)' = CommitsOf(Preimages)
      BY <1>2, <1>4 DEF Delivery, Payloads, Frame, CommitsOf
    <3>6. uplink'[m] \in Seq(Frame) /\ linked' = linked
      BY <1>3, <2>1, <2>4 DEF LinkOK
    <3>7. m \in DOMAIN commits' => commits'[m] \subseteq CommitsOf(Preimages)
      BY <1>3, <2>4, <2>5 DEF LinkOK
    <3> QED
      BY <3>3, <3>4, <3>5, <3>6, <3>7 DEF LinkOK
  <2> HIDE DEF t
  <2>7. Routed(t) \in CallTask(n) /\ Routed(t).at = "routed" /\ Routed(t).response = None
    BY <2>2 DEF Routed, CallTask
  <2>8. TaskOK(n, task[n])'
    BY <2>2, <2>3, <2>7, <1>2, <1>4 DEF TaskOK, CallTask
  <2>9. ASSUME NEW k \in Nodes
        PROVE  StateOK(k)' /\ TaskOK(k, task[k])' /\ LinkOK(k)'
    <3>1. StateOK(k)' /\ TaskOK(k, task[k])'
      BY <1>2, <1>3, <2>1, <2>3, <2>8, StateStays, TaskStays DEF stateVars
    <3>2. LinkOK(k)'
      BY <1>2, <1>3, <2>1, <2>5, <2>6, LinkStays
    <3> QED
      BY <3>1, <3>2
  <2>10. RelayOK' /\ WorldOK'
    BY <1>2, <1>4, <2>1, <2>5 DEF TypeOK, RelayOK, WorldOK, worldVars
  <2> QED
    BY <2>1, <2>9, <2>10 DEF TypeOK, stateVars
<1>8. CASE HandshakeAccepted(n)
  <2> DEFINE m == task[n].to
             r == task[n].response
             x == [role |-> "reader", issued_preimages |-> {pending_peers[n][m].my_preimage},
                   their_preimage |-> r.preimage_for_peer]
  <2>1. /\ At(n, "answered") /\ r.msg = "HANDSHAKE_COMPLETE" /\ r.ok /\ m \in DOMAIN pending_peers[n]
        /\ peers' = [peers EXCEPT ![n] = Put(peers[n], m, x)]
        /\ pending_peers' = [pending_peers EXCEPT ![n] = Drop(pending_peers[n], m)]
        /\ task' = [task EXCEPT ![n] = Idle]
        /\ UNCHANGED <<invites, linkVars, relayVars, worldVars>>
    BY <1>8 DEF HandshakeAccepted, Goto
  <2>2. r \in Replies /\ task[n] \in CallTask(n)
    BY <2>1, TaskFacts DEF At
  <2>3. r.preimage_for_peer \in Preimages /\ pending_peers[n][m].my_preimage \in Preimages
        /\ m \in Nodes \ {n}
    BY <1>3, <2>1, <2>2, ReplyFacts DEF StateOK
  <2>4. x \in [role : Roles, issued_preimages : SUBSET Preimages, their_preimage : Preimages]
    BY <2>3 DEF Roles
  <2> HIDE DEF m, x
  <2>5. peers'[n] = Put(peers[n], m, x) /\ pending_peers'[n] = Drop(pending_peers[n], m)
    BY <2>1 DEF TypeOK
  <2>6. StateOK(n)'
    BY <1>2, <1>3, <2>1, <2>3, <2>4, <2>5 DEF StateOK, Put, Drop, Restrict
  <2>7. TaskOK(n, task[n])'
    BY <2>1 DEF TaskOK, TypeOK
  <2>8. ASSUME NEW k \in Nodes
        PROVE  StateOK(k)' /\ TaskOK(k, task[k])' /\ LinkOK(k)'
    <3>1. k # n => peers'[k] = peers[k] /\ pending_peers'[k] = pending_peers[k] /\ task'[k] = task[k]
      BY <2>1 DEF TypeOK
    <3> QED
      BY <1>2, <1>3, <2>1, <2>6, <2>7, <3>1, StateStays, TaskStays, LinkStays DEF linkVars, relayVars
  <2>9. RelayOK' /\ WorldOK'
    BY <1>2, <1>4, <2>1 DEF TypeOK, RelayOK, WorldOK, linkVars, relayVars, worldVars
  <2> QED
    BY <2>1, <2>8, <2>9 DEF TypeOK, linkVars
<1>9. CASE CommandAnswered(n)
  <2> DEFINE m == task[n].to
             r == task[n].response
             x == [role |-> peers[n][m].role, issued_preimages |-> peers[n][m].issued_preimages,
                   their_preimage |-> r.next]
  <2>1. /\ At(n, "answered") /\ r.msg = "response"
        /\ \/ /\ r.next # None /\ m \in DOMAIN peers[n]
              /\ peers' = [peers EXCEPT ![n] = Put(peers[n], m, x)]
           \/ peers' = peers
        /\ task' = [task EXCEPT ![n] = Idle]
        /\ UNCHANGED <<invites, pending_peers, linkVars, relayVars, worldVars>>
    BY <1>9 DEF CommandAnswered, Goto
  <2>2. r \in Replies
    BY <2>1, TaskFacts DEF At
  <2>3. StateOK(n)' /\ (\A k \in Nodes \ {n} : peers'[k] = peers[k]) /\ DOMAIN peers' = Nodes
    <3>1. CASE peers' = peers
      BY <1>2, <1>3, <2>1, <3>1, StateStays DEF TypeOK
    <3>2. CASE r.next # None /\ m \in DOMAIN peers[n]
               /\ peers' = [peers EXCEPT ![n] = Put(peers[n], m, x)]
      <4>1. x \in [role : Roles, issued_preimages : SUBSET Preimages, their_preimage : Preimages]
        BY <1>3, <2>1, <2>2, <3>2, ReplyFacts DEF StateOK
      <4> HIDE DEF x, m
      <4>2. peers'[n] = Put(peers[n], m, x) /\ m \in DOMAIN peers[n]
        BY <3>2 DEF TypeOK
      <4>3. StateOK(n)'
        BY <1>2, <1>3, <2>1, <4>1, <4>2 DEF StateOK, Put
      <4> QED
        BY <3>2, <4>3 DEF TypeOK
    <3> QED
      BY <2>1, <3>1, <3>2
  <2>4. TaskOK(n, task[n])'
    BY <2>1 DEF TaskOK, TypeOK
  <2>5. ASSUME NEW k \in Nodes
        PROVE  StateOK(k)' /\ TaskOK(k, task[k])' /\ LinkOK(k)'
    <3>1. k # n => peers'[k] = peers[k] /\ task'[k] = task[k]
      BY <2>1, <2>3 DEF TypeOK
    <3> QED
      BY <1>2, <1>3, <2>1, <2>3, <2>4, <3>1, StateStays, TaskStays, LinkStays DEF linkVars, relayVars
  <2>6. RelayOK' /\ WorldOK'
    BY <1>2, <1>4, <2>1 DEF TypeOK, RelayOK, WorldOK, linkVars, relayVars, worldVars
  <2> QED
    BY <2>1, <2>3, <2>5, <2>6 DEF TypeOK, linkVars
<1> QED
  BY <1>5, <1>6, <1>7, <1>8, <1>9 DEF CallStep

\* What is left of a sequence.
LEMMA TailTypes ==
  ASSUME NEW S, NEW s \in Seq(S), s # <<>>
  PROVE  /\ Head(s) \in S /\ Head(s) = s[1] /\ 1 \in DOMAIN s
         /\ Tail(s) \in Seq(S) /\ Len(Tail(s)) = Len(s) - 1 /\ (Len(s) # 1 => Tail(s) # <<>>)
         /\ \A i \in DOMAIN Tail(s) : i + 1 \in DOMAIN s /\ Tail(s)[i] = s[i + 1]
<1>1. Head(s) \in S /\ Head(s) = s[1] /\ 1 \in DOMAIN s
  OBVIOUS
<1>2. Tail(s) \in Seq(S) /\ Len(Tail(s)) = Len(s) - 1 /\ Len(s) \in Nat \ {0}
  OBVIOUS
<1>3. Len(s) # 1 => Tail(s) # <<>>
  <2>1. Len(s) # 1 => Len(Tail(s)) # 0
    BY <1>2
  <2>2. Len(<< >>) = 0
    BY EmptySeq
  <2> QED
    BY <2>1, <2>2
<1>4. \A i \in DOMAIN Tail(s) : i + 1 \in DOMAIN s /\ Tail(s)[i] = s[i + 1]
  OBVIOUS
<1> QED
  BY <1>1, <1>2, <1>3, <1>4

\* The relay handles a frame.
LEMMA FrameHandled ==
  ASSUME TypeOK, NEW n \in Nodes, uplink[n] # <<>>,
         uplink' = [uplink EXCEPT ![n] = Tail(uplink[n])],
         UNCHANGED <<stateVars, linked, downlink, worldVars>>,
         DOMAIN commits' \subseteq DOMAIN commits \cup {n},
         \A k \in DOMAIN commits' \ {n} : commits'[k] = commits[k],
         n \in DOMAIN commits' => commits'[n] \subseteq CommitsOf(Preimages),
         DOMAIN task' = Nodes, \A k \in Nodes : TaskOK(k, task[k])',
         RelayOK'
  PROVE  TypeOK'
<1> USE DEF stateVars, worldVars
<1>1. Preimages' = Preimages
  BY DEF Preimages
<1>2. CommitsOf(Preimages)' = CommitsOf(Preimages) /\ Seq(Frame)' = Seq(Frame)
      /\ Seq(Delivery)' = Seq(Delivery)
  BY <1>1 DEF CommitsOf, Frame, Replies, Delivery, Payloads
<1>3. \A k \in Nodes : StateOK(k) /\ LinkOK(k)
  BY DEF TypeOK
<1>4. /\ uplink'[n] = Tail(uplink[n]) /\ \A k \in Nodes \ {n} : uplink'[k] = uplink[k]
      /\ n \in linked /\ uplink[n] \in Seq(Frame)
  BY <1>3 DEF TypeOK, LinkOK
<1>5. LinkOK(n)'
  <2>1. uplink'[n] \in Seq(Frame)
    BY <1>4, TailTypes
  <2> QED
    BY <1>2, <1>3, <1>4, <2>1 DEF LinkOK
<1>6. ASSUME NEW k \in Nodes
      PROVE  StateOK(k)' /\ LinkOK(k)'
  BY <1>1, <1>3, <1>4, <1>5, StateStays, LinkStays
<1>7. WorldOK'
  BY <1>1 DEF TypeOK, WorldOK
<1> QED
  BY <1>6, <1>7 DEF TypeOK

LEMMA FrameFacts ==
  ASSUME NEW f \in Frame
  PROVE  /\ f.type \in {"I_AM", "UPDATE_COMMITS", "ACK"}
         /\ f.type # "ACK" => f.commits \subseteq CommitsOf(Preimages)
         /\ f.type = "ACK" => f.from \in Clients /\ f.preimage \in Preimages /\ f.response \in Replies
<1>1. CASE f \in [type : {"I_AM", "UPDATE_COMMITS"}, commits : SUBSET CommitsOf(Preimages)]
  BY <1>1
<1>2. CASE f \in [type : {"ACK"}, from : Clients, preimage : Preimages, response : Replies]
  BY <1>2
<1> QED
  BY <1>1, <1>2 DEF Frame

LEMMA RelayStepTypes ==
  ASSUME TypeOK, NEW n \in Nodes, RelayStep(n)
  PROVE  TypeOK'
<1> USE NodeAssumption
<1>1. UNCHANGED <<stateVars, linked, downlink, worldVars>> /\ uplink[n] # <<>>
      /\ uplink' = [uplink EXCEPT ![n] = Tail(uplink[n])]
  BY DEF RelayStep, RegisterFrame, CommitsFrame, AckFrame
<1>2. Preimages' = Preimages /\ Replies' = Replies
  BY <1>1 DEF Preimages, worldVars, Replies
<1> DEFINE f == Head(uplink[n])
<1>3. f \in Frame /\ n \in linked
  BY <1>1, TailTypes DEF TypeOK, LinkOK
<1>4. CASE RegisterFrame(n) \/ CommitsFrame(n)
  <2>1. /\ f.type # "ACK" /\ UNCHANGED <<task, response_cache>>
        /\ \/ commits' = Put(commits, n, f.commits)
           \/ n \in DOMAIN commits /\ commits' = [commits EXCEPT ![n] = commits[n] \cup f.commits]
    BY <1>4 DEF RegisterFrame, CommitsFrame
  <2>2. f.commits \subseteq CommitsOf(Preimages)
    BY <1>3, <2>1, FrameFacts
  <2> HIDE DEF f
  <2>3. n \in DOMAIN commits => commits[n] \subseteq CommitsOf(Preimages)
    BY DEF TypeOK, LinkOK
  <2>4. /\ DOMAIN commits' = DOMAIN commits \cup {n}
        /\ \A k \in DOMAIN commits' \ {n} : commits'[k] = commits[k]
        /\ commits'[n] \subseteq CommitsOf(Preimages)
    BY <2>1, <2>2, <2>3 DEF Put
  <2>5. \A k \in Nodes : TaskOK(k, task[k])'
    BY <1>1, <1>2, <2>1, TaskStays DEF TypeOK, stateVars
  <2>6. RelayOK'
    BY <1>1, <1>2, <1>3, <2>1, <2>4 DEF TypeOK, RelayOK
  <2>7. DOMAIN task' = Nodes
    BY <2>1 DEF TypeOK
  <2> QED
    BY <1>1, <2>4, <2>5, <2>6, <2>7, FrameHandled
<1>5. CASE AckFrame(n)
  <2> DEFINE r == f.response
  <2>0. PICK c : c = f.from
    OBVIOUS
  <2>1. /\ f.type = "ACK" /\ response_cache' = Put(response_cache, f.preimage, r)
        /\ \/ At(c, "routed") /\ task' = [task EXCEPT ![c] = Answered(task[c], r)]
           \/ task' = task
        /\ commits' = commits
    BY <1>5, <2>0 DEF AckFrame, Goto
  <2>2. c \in Nodes /\ f.preimage \in Preimages /\ r \in Replies
    BY <1>3, <2>0, <2>1, FrameFacts
  <2> HIDE DEF f, r
  <2>3. RelayOK'
    BY <1>1, <1>2, <2>1, <2>2 DEF TypeOK, RelayOK, Put
  <2>4. DOMAIN task' = Nodes /\ \A k \in Nodes : TaskOK(k, task[k])'
    <3>1. CASE task' = task
      BY <1>1, <1>2, <3>1, TaskStays DEF TypeOK, stateVars
    <3>2. CASE At(c, "routed") /\ task' = [task EXCEPT ![c] = Answered(task[c], r)]
      <4> DEFINE t == task[c]
      <4>1. t \in CallTask(c) /\ c \in Clients
        BY <2>2, <3>2, TaskFacts DEF At
      <4>2. task'[c] = Answered(t, r) /\ DOMAIN task' = Nodes
            /\ \A k \in Nodes \ {c} : task'[k] = task[k]
        BY <2>2, <3>2 DEF TypeOK
      <4> HIDE DEF t
      <4>3. Answered(t, r) \in CallTask(c) /\ Answered(t, r).at = "answered" /\ Answered(t, r).response = r
        BY <2>2, <4>1 DEF Answered, CallTask
      <4>4. TaskOK(c, task[c])'
        <5>1. Payloads(c)' = Payloads(c)
          BY <1>2 DEF Payloads
        <5> QED
          BY <1>2, <2>2, <4>1, <4>2, <4>3, <5>1 DEF TaskOK, CallTask
      <4>5. ASSUME NEW k \in Nodes \ {c}
            PROVE  TaskOK(k, task[k])'
        BY <1>1, <1>2, <4>2, TaskStays DEF TypeOK, stateVars
      <4> QED
        BY <4>2, <4>4, <4>5
    <3> QED
      BY <2>1, <3>1, <3>2
  <2>5. n \in DOMAIN commits => commits[n] \subseteq CommitsOf(Preimages)
    BY DEF TypeOK, LinkOK
  <2> QED
    BY <1>1, <2>1, <2>3, <2>4, <2>5, FrameHandled
<1> QED
  BY <1>4, <1>5 DEF RelayStep

\* A delivery is received.
LEMMA ReceivesFacts ==
  ASSUME TypeOK, NEW n \in Nodes, NEW msg, Receives(n, msg), NEW d, d = Head(downlink[n])
  PROVE  /\ At(n, "serving") /\ n \in Servers /\ n \in linked
         /\ d = downlink[n][1] /\ 1 \in DOMAIN downlink[n]
         /\ d.from \in Clients \ {n} /\ d.preimage \in Preimages /\ d.payload.msg = msg
         /\ msg = "request" => d.payload.cmd \in Commands \cup BuiltIns
         /\ msg = "HANDSHAKE_INIT" =>
              d.payload.sender_id52 = d.from /\ d.payload.preimage_for_peer \in Preimages
         /\ downlink'[n] = Tail(downlink[n]) /\ downlink'[n] \in Seq(Delivery)
         /\ \A i \in DOMAIN downlink'[n] :
              i + 1 \in DOMAIN downlink[n] /\ downlink'[n][i] = downlink[n][i + 1]
         /\ DOMAIN downlink' = Nodes /\ \A k \in Nodes \ {n} : downlink'[k] = downlink[k]
<1>1. /\ At(n, "serving") /\ n \in linked /\ downlink[n] # <<>> /\ d.payload.msg = msg
      /\ downlink' = [downlink EXCEPT ![n] = Tail(downlink[n])]
  BY DEF Receives
<1>2. n \in Servers
  BY <1>1, TaskFacts DEF At
<1>3. downlink[n] \in Seq(Delivery) /\ \A i \in DOMAIN downlink[n] : downlink[n][i].from # n
  BY DEF TypeOK, LinkOK
<1>4. /\ d \in Delivery /\ d = downlink[n][1] /\ 1 \in DOMAIN downlink[n]
      /\ Tail(downlink[n]) \in Seq(Delivery)
      /\ \A i \in DOMAIN Tail(downlink[n]) :
           i + 1 \in DOMAIN downlink[n] /\ Tail(downlink[n])[i] = downlink[n][i + 1]
  BY <1>1, <1>3, TailTypes
<1>5. d.from # n
  BY <1>3, <1>4
<1>6. PICK c \in Clients : d \in [from : {c}, preimage : Preimages, payload : Payloads(c)]
  BY <1>4 DEF Delivery
<1>7. d.from = c /\ d.preimage \in Preimages /\ d.payload \in Payloads(c)
  BY <1>6
<1>8. /\ msg = "request" => d.payload.cmd \in Commands \cup BuiltIns
      /\ msg = "HANDSHAKE_INIT" => d.payload.sender_id52 = c /\ d.payload.preimage_for_peer \in Preimages
  BY <1>1, <1>7 DEF Payloads
<1>9. /\ downlink'[n] = Tail(downlink[n]) /\ DOMAIN downlink' = Nodes
      /\ \A k \in Nodes \ {n} : downlink'[k] = downlink[k]
  BY <1>1 DEF TypeOK
<1> QED
  BY <1>1, <1>2, <1>4, <1>5, <1>7, <1>8, <1>9

\* A node that received a delivery has done with it what it does.
LEMMA ReceivesTypes ==
  ASSUME TypeOK, NEW n \in Nodes, NEW msg, Receives(n, msg), fresh' \in {fresh, fresh + 1},
         UNCHANGED <<pending_peers, linked, uplink, relayVars>>,
         StateOK(n)', TaskOK(n, task[n])', WorldOK',
         {DOMAIN invites', DOMAIN peers', DOMAIN task'} = {Nodes},
         \A k \in Nodes \ {n} :
           invites'[k] = invites[k] /\ peers'[k] = peers[k] /\ task'[k] = task[k]
  PROVE  TypeOK'
<1> USE DEF relayVars
<1>1. Preimages \subseteq Preimages'
  BY PreimagesGrow DEF TypeOK, WorldOK
<1>2. \A k \in Nodes : StateOK(k) /\ TaskOK(k, task[k]) /\ LinkOK(k)
  BY DEF TypeOK
<1>3. PICK d : d = Head(downlink[n])
  OBVIOUS
<1>4. /\ downlink'[n] \in Seq(Delivery) /\ n \in linked /\ DOMAIN downlink' = Nodes
      /\ \A i \in DOMAIN downlink'[n] :
           i + 1 \in DOMAIN downlink[n] /\ downlink'[n][i] = downlink[n][i + 1]
      /\ \A k \in Nodes \ {n} : downlink'[k] = downlink[k]
  BY <1>3, ReceivesFacts
<1>5. LinkOK(n)'
  BY <1>1, <1>2, <1>4, TypesGrow DEF LinkOK
<1>6. ASSUME NEW k \in Nodes
      PROVE  StateOK(k)' /\ TaskOK(k, task[k])' /\ LinkOK(k)'
  BY <1>1, <1>2, <1>4, <1>5, StateStays, TaskStays, LinkStays
<1>7. RelayOK'
  BY <1>1, TypesGrow DEF TypeOK, RelayOK
<1> QED
  BY <1>4, <1>6, <1>7 DEF TypeOK

\* The frames a handler writes.
LEMMA FramesTyped ==
  ASSUME NEW n \in Servers, NEW frames, frames \in Seq(Frame)', Len(frames) \in {1, 2},
         task'[n] = Writing(frames)
  PROVE  TaskOK(n, task[n])'
BY DEF TaskOK, Writing

LEMMA AckTyped ==
  ASSUME NEW c \in Clients, NEW p \in Preimages', NEW r, r \in Replies'
  PROVE  Ack(c, p, r) \in Frame'
BY DEF Ack, Frame

LEMMA PairTyped ==
  ASSUME NEW S, NEW f \in S, NEW g \in S
  PROVE  <<f, g>> \in Seq(S) /\ Len(<<f, g>>) = 2
OBVIOUS

LEMMA UpdateTyped ==
  ASSUME NEW p \in Preimages'
  PROVE  UpdateCommits({Sha256(p)}) \in Frame'
<1>1. {Sha256(p)} \subseteq CommitsOf(Preimages)'
  BY DEF CommitsOf
<1> QED
  BY <1>1 DEF UpdateCommits, Frame

LEMMA ServeTypes ==
  ASSUME TypeOK, NEW n \in Nodes, ServeStep(n)
  PROVE  TypeOK'
<1> USE NodeAssumption
<1>1. fresh \in Nat \ {0} /\ fresh' \in {fresh, fresh + 1}
  BY DEF TypeOK, WorldOK, ServeStep, AcceptHandshake, RejectHandshake, Unauthorized, RunHandler,
       RefuseCommand, InviteCreate, NewInvite, InviteDelete, RenewPreimage, WriteFrame, RunEnds,
       worldVars
<1>2. Preimages \subseteq Preimages' /\ fresh' \in Nat \ {0} /\ (fresh' = fresh + 1 => fresh \in Preimages')
  BY <1>1, PreimagesGrow
<1>3. \A k \in Nodes : StateOK(k) /\ TaskOK(k, task[k]) /\ LinkOK(k)
  BY DEF TypeOK
<1>4. PICK d : d = Head(downlink[n])
  OBVIOUS
\* Handshakes, and commands without a peer
<1>5. CASE AcceptHandshake(n)
  <2> DEFINE x == [role |-> invites[n][d.preimage], issued_preimages |-> {fresh},
                   their_preimage |-> d.payload.preimage_for_peer]
             frames == <<Ack(d.from, d.preimage, HandshakeComplete(TRUE, fresh)),
                         UpdateCommits({Sha256(fresh)})>>
  <2>1. /\ Receives(n, "HANDSHAKE_INIT") /\ d.preimage \in DOMAIN invites[n]
        /\ invites' = [invites EXCEPT ![n] = Drop(invites[n], d.preimage)]
        /\ peers' = [peers EXCEPT ![n] = Put(peers[n], d.payload.sender_id52, x)]
        /\ fresh' = fresh + 1 /\ executed' = executed \cup {d.preimage}
        /\ task' = [task EXCEPT ![n] = Writing(frames)]
        /\ UNCHANGED <<pending_peers, linked, uplink, relayVars, given>>
    BY <1>4, <1>5 DEF AcceptHandshake, Goto
  <2>2. /\ n \in Servers /\ d.from \in Clients \ {n} /\ d.preimage \in Preimages
        /\ d.payload.sender_id52 = d.from /\ d.payload.preimage_for_peer \in Preimages
    BY <1>4, <2>1, ReceivesFacts
  <2>3. HandshakeComplete(TRUE, fresh) \in Replies'
    BY <1>2, <2>1 DEF HandshakeComplete, Replies
  <2>4. frames \in Seq(Frame)' /\ Len(frames) = 2
    <3>1. Ack(d.from, d.preimage, HandshakeComplete(TRUE, fresh)) \in Frame'
      BY <1>2, <2>2, <2>3, AckTyped
    <3>2. UpdateCommits({Sha256(fresh)}) \in Frame'
      BY <1>2, <2>1, UpdateTyped
    <3> QED
      BY <3>1, <3>2, PairTyped
  <2>5. x \in [role : Roles, issued_preimages : SUBSET Preimages', their_preimage : Preimages']
    BY <1>2, <1>3, <2>1, <2>2 DEF StateOK
  <2> HIDE DEF x, frames
  <2>6. /\ invites'[n] = Drop(invites[n], d.preimage) /\ peers'[n] = Put(peers[n], d.from, x)
        /\ task'[n] = Writing(frames)
        /\ \A k \in Nodes \ {n} :
             invites'[k] = invites[k] /\ peers'[k] = peers[k] /\ task'[k] = task[k]
        /\ {DOMAIN invites', DOMAIN peers', DOMAIN task'} = {Nodes}
    BY <2>1, <2>2 DEF TypeOK
  <2>7. StateOK(n)'
    BY <1>2, <1>3, <2>1, <2>2, <2>5, <2>6 DEF StateOK, Put, Drop, Restrict
  <2>8. TaskOK(n, task[n])'
    BY <2>2, <2>4, <2>6, FramesTyped
  <2>9. WorldOK'
    BY <1>2, <2>1, <2>2 DEF TypeOK, WorldOK
  <2> QED
    BY <1>1, <2>1, <2>6, <2>7, <2>8, <2>9, ReceivesTypes
<1>6. CASE RejectHandshake(n) \/ Unauthorized(n)
  <2>1. PICK msg, r :
          /\ Receives(n, msg)
          /\ task' = [task EXCEPT ![n] = Writing(<<Ack(d.from, d.preimage, r)>>)]
          /\ \/ r = HandshakeComplete(FALSE, None)
             \/ msg = "request" /\ r = Response(FALSE, d.payload.cmd, None)
          /\ UNCHANGED <<stateVars, linked, uplink, relayVars, worldVars>>
    BY <1>4, <1>6 DEF RejectHandshake, Unauthorized, Goto
  <2>2. n \in Servers /\ d.from \in Clients /\ d.preimage \in Preimages
        /\ (msg = "request" => d.payload.cmd \in Commands \cup BuiltIns)
    BY <1>4, <2>1, ReceivesFacts
  <2>3. r \in Replies'
    <3>1. CASE r = HandshakeComplete(FALSE, None)
      BY <3>1 DEF Replies, HandshakeComplete
    <3>2. CASE r = Response(FALSE, d.payload.cmd, None) /\ d.payload.cmd \in Commands \cup BuiltIns
      BY <3>2 DEF Replies, Response
    <3> QED
      BY <2>1, <2>2, <3>1, <3>2
  <2> DEFINE frames == <<Ack(d.from, d.preimage, r)>>
  <2>4. frames \in Seq(Frame)' /\ Len(frames) = 1
    <3>1. Ack(d.from, d.preimage, r) \in Frame'
      BY <1>2, <2>2, <2>3, AckTyped
    <3> QED
      BY <3>1
  <2> HIDE DEF frames
  <2>5. task'[n] = Writing(frames) /\ DOMAIN task' = Nodes /\ \A k \in Nodes \ {n} : task'[k] = task[k]
    BY <2>1 DEF frames, TypeOK
  <2>6. TaskOK(n, task[n])'
    BY <2>2, <2>4, <2>5, FramesTyped
  <2>7. StateOK(n)' /\ WorldOK'
    BY <1>2, <1>3, <2>1, StateStays DEF stateVars, TypeOK, WorldOK, worldVars
  <2> QED
    BY <1>1, <2>1, <2>5, <2>6, <2>7, ReceivesTypes DEF stateVars, TypeOK
\* Commands
<1>7. ASSUME NEW m, NEW cmds, NEW ok \in BOOLEAN, IsCommand(n, m, cmds), Executed(n, m, ok),
             UNCHANGED <<pending_peers, peers, linked, uplink, relayVars>>,
             StateOK(n)', DOMAIN invites' = Nodes, \A k \in Nodes \ {n} : invites'[k] = invites[k],
             DOMAIN given' \subseteq Preimages',
             \A p \in DOMAIN given' :
              given'[p] \in [id52 : Servers, holder : Clients] /\ given'[p].id52 # given'[p].holder
      PROVE  TypeOK'
  <2> DEFINE t == [at |-> "renew", from |-> d.from, preimage |-> d.preimage,
                   peer |-> m, ok |-> ok, cmd |-> d.payload.cmd]
  <2>1. /\ Receives(n, "request") /\ m \in DOMAIN peers[n]
        /\ executed' = executed \cup {d.preimage} /\ task' = [task EXCEPT ![n] = t]
    BY <1>4, <1>7 DEF IsCommand, Executed, Goto, LookupPreimage
  <2>2. /\ n \in Servers /\ d.from \in Clients /\ d.preimage \in Preimages
        /\ d.payload.cmd \in Commands \cup BuiltIns
    BY <1>4, <2>1, ReceivesFacts
  <2>3. t \in [at : {"renew"}, from : Clients, preimage : Preimages',
               peer : DOMAIN peers'[n], ok : BOOLEAN, cmd : Commands \cup BuiltIns]
    BY <1>2, <1>7, <2>1, <2>2
  <2> HIDE DEF t
  <2>4. task'[n] = t /\ DOMAIN task' = Nodes /\ \A k \in Nodes \ {n} : task'[k] = task[k]
    BY <2>1 DEF TypeOK
  <2>5. TaskOK(n, task[n])'
    BY <2>2, <2>3, <2>4 DEF TaskOK
  <2>6. WorldOK'
    BY <1>2, <1>7, <2>1, <2>2 DEF TypeOK, WorldOK
  <2> QED
    BY <1>1, <1>7, <2>1, <2>4, <2>5, <2>6, ReceivesTypes DEF TypeOK
<1>8. DOMAIN given \subseteq Preimages'
      /\ \A p \in DOMAIN given :
           given[p] \in [id52 : Servers, holder : Clients] /\ given[p].id52 # given[p].holder
  BY <1>2 DEF TypeOK, WorldOK
<1>9. CASE \E m \in Nodes : RunHandler(n, m) \/ RefuseCommand(n, m)
  <2>1. PICK m \in Nodes, cmds \in {Commands, BuiltIns}, ok \in BOOLEAN :
          IsCommand(n, m, cmds) /\ Executed(n, m, ok)
          /\ UNCHANGED <<stateVars, linked, uplink, relayVars, fresh, given>>
    BY <1>9 DEF RunHandler, RefuseCommand
  <2>2. StateOK(n)'
    BY <1>2, <1>3, <2>1, StateStays DEF stateVars
  <2> QED
    BY <1>7, <1>8, <2>1, <2>2 DEF stateVars, TypeOK
<1>10. CASE \E m, holder \in Nodes, role \in Roles : InviteCreate(n, m, role, holder)
  <2>1. PICK m \in Nodes, holder \in Nodes, role \in Roles : InviteCreate(n, m, role, holder)
    BY <1>10
  <2>2. /\ IsCommand(n, m, {"invite/create"}) /\ Executed(n, m, TRUE)
        /\ NewInvite(n, role, holder) /\ holder \in Clients \ {n}
        /\ UNCHANGED <<pending_peers, peers, linked, uplink, relayVars>>
    BY <2>1 DEF InviteCreate
  <2>3. n \in Servers
    BY <1>4, <2>2, ReceivesFacts DEF IsCommand
  <2>4. DOMAIN invites' = Nodes /\ \A k \in Nodes \ {n} : invites'[k] = invites[k]
    BY <2>2 DEF NewInvite, TypeOK
  <2> QED
    BY <1>7, <2>2, <2>3, <2>4, NewInviteTypes
<1>11. CASE \E m \in Nodes, p \in DOMAIN invites[n] : InviteDelete(n, m, p)
  <2>1. PICK m \in Nodes, p \in DOMAIN invites[n] : InviteDelete(n, m, p)
    BY <1>11
  <2>2. /\ IsCommand(n, m, {"invite/delete"}) /\ Executed(n, m, TRUE)
        /\ invites' = [invites EXCEPT ![n] = Drop(invites[n], p)]
        /\ UNCHANGED <<pending_peers, peers, linked, uplink, relayVars, fresh, given>>
    BY <2>1 DEF InviteDelete
  <2>3. /\ DOMAIN invites' = Nodes /\ \A k \in Nodes \ {n} : invites'[k] = invites[k]
        /\ invites'[n] = Drop(invites[n], p)
    BY <2>2 DEF TypeOK
  <2>4. StateOK(n)'
    BY <1>2, <1>3, <2>2, <2>3 DEF StateOK, Drop, Restrict
  <2> QED
    BY <1>7, <1>8, <2>2, <2>3, <2>4
\* The renewal, and the frames
<1>12. CASE RenewPreimage(n)
  <2> DEFINE t == task[n]
             m == t.peer
             x == [role |-> peers[n][m].role,
                   issued_preimages |-> (peers[n][m].issued_preimages \ {t.preimage}) \cup {fresh},
                   their_preimage |-> peers[n][m].their_preimage]
             frames == <<UpdateCommits({Sha256(fresh)}), RenewalAck(n)>>
  <2>1. /\ At(n, "renew") /\ peers' = [peers EXCEPT ![n] = Put(peers[n], m, x)]
        /\ fresh' = fresh + 1 /\ task' = [task EXCEPT ![n] = Writing(frames)]
        /\ UNCHANGED <<invites, pending_peers, linkVars, relayVars, given, executed>>
    BY <1>12 DEF RenewPreimage, Renewed, Goto
  <2>2. /\ n \in Servers
        /\ t \in [at : {"renew"}, from : Clients, preimage : Preimages,
                  peer : DOMAIN peers[n], ok : BOOLEAN, cmd : Commands \cup BuiltIns]
    BY <2>1, TaskFacts DEF At
  <2>3. x \in [role : Roles, issued_preimages : SUBSET Preimages', their_preimage : Preimages']
    BY <1>2, <1>3, <2>1, <2>2 DEF StateOK
  <2>4. frames \in Seq(Frame)' /\ Len(frames) = 2
    <3>1. UpdateCommits({Sha256(fresh)}) \in Frame'
      BY <1>2, <2>1, UpdateTyped
    <3>2. Response(t.ok, t.cmd, fresh) \in Replies'
      BY <1>2, <2>1, <2>2 DEF Response, Replies
    <3>3. Ack(t.from, t.preimage, Response(t.ok, t.cmd, fresh)) \in Frame'
      BY <1>2, <2>2, <3>2, AckTyped
    <3>4. RenewalAck(n) \in Frame'
      BY <3>3 DEF RenewalAck
    <3> QED
      BY <3>1, <3>4
  <2>5. m \in DOMAIN peers[n]
    BY <2>2
  <2> HIDE DEF t, m, x, frames
  <2>6. /\ peers'[n] = Put(peers[n], m, x) /\ task'[n] = Writing(frames)
        /\ \A k \in Nodes \ {n} : peers'[k] = peers[k] /\ task'[k] = task[k]
        /\ {DOMAIN peers', DOMAIN task'} = {Nodes}
    BY <2>1 DEF TypeOK
  <2>7. StateOK(n)'
    BY <1>2, <1>3, <2>1, <2>3, <2>5, <2>6 DEF StateOK, Put
  <2>8. TaskOK(n, task[n])'
    BY <2>2, <2>4, <2>6, FramesTyped
  <2>9. ASSUME NEW k \in Nodes
        PROVE  StateOK(k)' /\ TaskOK(k, task[k])' /\ LinkOK(k)'
    BY <1>2, <1>3, <2>1, <2>6, <2>7, <2>8, StateStays, TaskStays, LinkStays DEF linkVars, relayVars
  <2>10. RelayOK' /\ WorldOK'
    BY <1>2, <2>1, TypesGrow DEF TypeOK, RelayOK, WorldOK, linkVars, relayVars
  <2> QED
    BY <2>1, <2>6, <2>9, <2>10 DEF TypeOK, linkVars
<1>13. CASE WriteFrame(n)
  <2> DEFINE frames == task[n].frames
             f == Head(frames)
             t == IF Len(frames) = 1 THEN Serving ELSE Writing(Tail(frames))
  <2>1. /\ At(n, "write") /\ n \in linked /\ uplink' = [uplink EXCEPT ![n] = Append(uplink[n], f)]
        /\ task' = [task EXCEPT ![n] = t]
        /\ UNCHANGED <<stateVars, linked, downlink, relayVars, worldVars>>
    BY <1>13 DEF WriteFrame, Goto
  <2>2. n \in Servers /\ frames \in Seq(Frame) /\ Len(frames) \in {1, 2}
    BY <2>1, TaskFacts DEF At
  <2> HIDE DEF frames
  <2>3. frames # <<>>
    <3>1. Len(<< >>) = 0 /\ 0 \notin {1, 2}
      BY EmptySeq
    <3> QED
      BY <2>2, <3>1, Zenon
  <2>4. f \in Frame /\ Tail(frames) \in Seq(Frame) /\ Len(Tail(frames)) = Len(frames) - 1
    BY <2>2, <2>3, TailTypes
  <2>5. uplink[n] \in Seq(Frame)
    BY <1>3 DEF LinkOK
  <2> HIDE DEF f
  <2>6. Append(uplink[n], f) \in Seq(Frame)
    BY <2>4, <2>5
  <2>7. Seq(Frame) \subseteq Seq(Frame)'
    BY <1>2, TypesGrow
  <2>8. /\ uplink'[n] = Append(uplink[n], f) /\ task'[n] = t
        /\ \A k \in Nodes \ {n} : uplink'[k] = uplink[k] /\ task'[k] = task[k]
        /\ {DOMAIN uplink', DOMAIN task'} = {Nodes}
    BY <2>1 DEF TypeOK
  <2>9. LinkOK(n)'
    <3>1. uplink'[n] \in Seq(Frame)' /\ downlink' = downlink /\ linked' = linked /\ commits' = commits
      BY <2>1, <2>6, <2>7, <2>8 DEF relayVars
    <3> QED
      BY <1>2, <1>3, <2>1, <3>1, TypesGrow DEF LinkOK
  <2>10. TaskOK(n, task[n])'
    <3>1. CASE Len(frames) = 1
      <4>1. task'[n] = Serving
        BY <2>8, <3>1
      <4> HIDE DEF t
      <4> QED
        BY <2>2, <4>1 DEF TaskOK, Serving
    <3>2. CASE Len(frames) # 1
      <4>1. PICK s : s = Tail(frames)
        OBVIOUS
      <4>2. task'[n] = Writing(s) /\ s \in Seq(Frame)' /\ Len(s) \in {1, 2}
        BY <2>2, <2>4, <2>7, <2>8, <3>2, <4>1
      <4> HIDE DEF t
      <4> QED
        BY <2>2, <4>2, FramesTyped
    <3> QED
      BY <3>1, <3>2
  <2>11. ASSUME NEW k \in Nodes
         PROVE  StateOK(k)' /\ TaskOK(k, task[k])' /\ LinkOK(k)'
    BY <1>2, <1>3, <2>1, <2>8, <2>9, <2>10, StateStays, TaskStays, LinkStays DEF stateVars, relayVars
  <2>12. RelayOK' /\ WorldOK'
    BY <1>2, <2>1, TypesGrow DEF TypeOK, RelayOK, WorldOK, relayVars, worldVars
  <2> QED
    BY <2>1, <2>8, <2>11, <2>12 DEF TypeOK, stateVars
<1>14. CASE RunEnds(n)
  <2>1. task' = [task EXCEPT ![n] = Idle] /\ UNCHANGED <<stateVars, linkVars, relayVars, worldVars>>
    BY <1>14 DEF RunEnds, Goto
  <2>2. TaskOK(n, task[n])' /\ DOMAIN task' = Nodes /\ \A k \in Nodes \ {n} : task'[k] = task[k]
    BY <2>1 DEF TaskOK, TypeOK
  <2>3. RelayOK'
    BY <1>2, <2>1, TypesGrow DEF TypeOK, RelayOK, relayVars, linkVars
  <2> QED
    BY <2>1, <2>2, <2>3, GotoTypes DEF relayVars
<1> QED
  BY <1>5, <1>6, <1>9, <1>10, <1>11, <1>12, <1>13, <1>14 DEF ServeStep

LEMMA FaultTypes ==
  ASSUME TypeOK, FaultStep
  PROVE  TypeOK'
<1> USE NodeAssumption
<1>1. fresh' = fresh /\ given' = given /\ UNCHANGED stateVars /\ executed' \subseteq executed
  BY DEF FaultStep, Disconnect, Crash, RelayRestart, Expire, worldVars
<1>2. Preimages' = Preimages /\ Preimages \subseteq Preimages'
  BY <1>1 DEF Preimages
<1>3. \A k \in Nodes : StateOK(k) /\ TaskOK(k, task[k]) /\ LinkOK(k)
  BY DEF TypeOK
<1>4. WorldOK'
  BY <1>1, <1>2 DEF TypeOK, WorldOK
<1>5. ASSUME NEW ns \in SUBSET Nodes, Unlink(ns), NEW k \in Nodes
      PROVE  LinkOK(k)'
  <2>1. /\ uplink'[k] = (IF k \in ns THEN <<>> ELSE uplink[k])
        /\ downlink'[k] = (IF k \in ns THEN <<>> ELSE downlink[k])
        /\ linked' = linked \ ns /\ commits' = Restrict(commits, DOMAIN commits \ ns)
    BY <1>5 DEF Unlink
  <2>2. /\ <<>> \in Seq(Frame)' /\ <<>> \in Seq(Delivery)' /\ Len(<< >>) = 0
        /\ DOMAIN << >> = {}
    BY EmptySeq
  <2>3. CASE k \in ns
    BY <2>1, <2>2, <2>3 DEF LinkOK, Restrict
  <2>4. CASE k \notin ns
    BY <1>2, <1>3, <2>1, <2>4, TypesGrow DEF LinkOK, Restrict
  <2> QED
    BY <2>3, <2>4
<1>6. ASSUME NEW ns \in SUBSET Nodes, Unlink(ns)
      PROVE  {DOMAIN uplink', DOMAIN downlink'} = {Nodes} /\ linked' \subseteq Servers
             /\ DOMAIN commits' \subseteq linked'
  BY <1>6 DEF Unlink, TypeOK, RelayOK, Restrict
<1>7. Replies' = Replies
  BY <1>2 DEF Replies
<1>8. \A k \in Nodes : StateOK(k)'
  BY <1>1, <1>2, <1>3, StateStays DEF stateVars
<1>9. CASE \E n \in Nodes : Disconnect(n)
  <2>1. PICK n \in Nodes : Unlink({n}) /\ UNCHANGED <<task, response_cache>>
    BY <1>9 DEF Disconnect
  <2>2. ASSUME NEW k \in Nodes
        PROVE  TaskOK(k, task[k])' /\ LinkOK(k)'
    BY <1>1, <1>2, <1>3, <1>5, <2>1, TaskStays DEF stateVars
  <2>3. RelayOK'
    BY <1>2, <1>6, <1>7, <2>1 DEF TypeOK, RelayOK
  <2> QED
    BY <1>1, <1>4, <1>6, <1>8, <2>1, <2>2, <2>3 DEF TypeOK, stateVars
<1>10. CASE \E n \in Nodes : Crash(n)
  <2>1. PICK n \in Nodes : /\ Unlink({n}) /\ task' = [task EXCEPT ![n] = Idle]
                           /\ response_cache' = response_cache
    BY <1>10 DEF Crash, Goto
  <2>2. ASSUME NEW k \in Nodes
        PROVE  TaskOK(k, task[k])' /\ LinkOK(k)'
    <3>1. CASE k = n
      BY <1>5, <2>1, <3>1 DEF TaskOK, TypeOK
    <3>2. CASE k # n
      BY <1>1, <1>2, <1>3, <1>5, <2>1, <3>2, TaskStays DEF TypeOK, stateVars
    <3> QED
      BY <3>1, <3>2
  <2>3. RelayOK'
    BY <1>2, <1>6, <1>7, <2>1 DEF TypeOK, RelayOK
  <2> QED
    BY <1>1, <1>4, <1>6, <1>8, <2>1, <2>2, <2>3 DEF TypeOK, stateVars
<1>11. CASE RelayRestart
  <2>1. /\ Unlink(Nodes) /\ response_cache' = EmptyMap
        /\ task' = [n \in Nodes |-> IF task[n].at \in {"sent", "routed"} THEN Idle ELSE task[n]]
    BY <1>11 DEF RelayRestart
  <2>2. ASSUME NEW k \in Nodes
        PROVE  TaskOK(k, task[k])' /\ LinkOK(k)'
    <3>1. LinkOK(k)'
      BY <1>5, <2>1
    <3>2. task'[k] = Idle \/ task'[k] = task[k]
      BY <2>1
    <3>3. CASE task'[k] = Idle
      BY <3>1, <3>3 DEF TaskOK
    <3>4. CASE task'[k] = task[k]
      BY <1>1, <1>2, <1>3, <3>1, <3>4, TaskStays DEF stateVars
    <3> QED
      BY <3>2, <3>3, <3>4
  <2>3. response_cache' \in [DOMAIN response_cache' -> Replies'] /\ DOMAIN response_cache' = {}
    BY <2>1 DEF EmptyMap
  <2>4. RelayOK'
    BY <1>6, <2>1, <2>3 DEF RelayOK
  <2> QED
    BY <1>1, <1>4, <1>6, <1>8, <2>1, <2>2, <2>4 DEF TypeOK, stateVars
<1>12. CASE \E p \in DOMAIN response_cache : Expire(p)
  <2>1. PICK p : response_cache' = Drop(response_cache, p) /\ UNCHANGED <<task, linkVars, commits>>
    BY <1>12 DEF Expire
  <2>2. ASSUME NEW k \in Nodes
        PROVE  TaskOK(k, task[k])' /\ LinkOK(k)'
    BY <1>1, <1>2, <1>3, <2>1, TaskStays, LinkStays DEF stateVars, linkVars
  <2>3. RelayOK'
    BY <1>2, <1>7, <2>1 DEF TypeOK, RelayOK, Drop, Restrict, linkVars
  <2> QED
    BY <1>1, <1>4, <1>8, <2>1, <2>2, <2>3 DEF TypeOK, stateVars, linkVars
<1> QED
  BY <1>9, <1>10, <1>11, <1>12 DEF FaultStep

LEMMA TypeInit == Init => TypeOK
<1> SUFFICES ASSUME Init
             PROVE  TypeOK
  OBVIOUS
<1>1. /\ <<>> \in Seq(Frame) /\ <<>> \in Seq(Delivery) /\ DOMAIN << >> = {}
  BY EmptySeq
<1>2. ASSUME NEW n \in Nodes
      PROVE  StateOK(n) /\ TaskOK(n, task[n]) /\ LinkOK(n)
  <2>1. StateOK(n)
    BY DEF Init, StateOK, EmptyMap
  <2>2. TaskOK(n, task[n])
    BY DEF Init, TaskOK
  <2>3. LinkOK(n)
    BY <1>1 DEF Init, LinkOK, EmptyMap
  <2> QED
    BY <2>1, <2>2, <2>3
<1>3. RelayOK /\ WorldOK
  BY DEF Init, RelayOK, WorldOK, EmptyMap
<1> QED
  BY <1>2, <1>3 DEF Init, TypeOK

LEMMA TypeStep ==
  ASSUME TypeOK, [Next]_vars
  PROVE  TypeOK'
<1>1. CASE UNCHANGED vars
  <2>1. Preimages' = Preimages
    BY <1>1 DEF vars, worldVars, Preimages
  <2>2. \A k \in Nodes : StateOK(k)' /\ TaskOK(k, task[k])' /\ LinkOK(k)'
    BY <1>1, <2>1, NodeStays DEF TypeOK, vars, stateVars, linkVars, relayVars
  <2>3. RelayOK' /\ WorldOK'
    BY <1>1, <2>1, TypesGrow DEF TypeOK, RelayOK, WorldOK, vars, linkVars, relayVars, worldVars
  <2> QED
    BY <1>1, <2>2, <2>3 DEF TypeOK, vars, stateVars, linkVars
<1>2. CASE \E n \in Nodes : UserStep(n) \/ CallStep(n) \/ RelayStep(n) \/ ServeStep(n) \/ Fail(n)
  BY <1>2, UserTypes, CallTypes, RelayStepTypes, ServeTypes
<1>3. CASE FaultStep
  BY <1>3, FaultTypes
<1> QED
  BY <1>1, <1>2, <1>3 DEF Next

\* Every variable keeps its type, and every preimage that is anywhere, in a
\* state, a message, a response or the hands of a node, was drawn.
THEOREM NodeTypes == Spec => []TypeOK
<1> QED
  BY TypeInit, TypeStep, PTL DEF Spec

(***************************************************************************)
(* Whose preimages they are                                                *)
(***************************************************************************)

\* by2 and user2 say the same as by and user of what was drawn.
Extends(by, user, by2, user2) ==
  \A p \in Preimages : by2[p] = by[p] /\ user2[p] = user[p]

\* A preimage that is drawn is drawn by someone for someone.
DrawnFor(by, user, b, u) == fresh' = fresh + 1 => by[fresh] = b /\ user[fresh] = u

LEMMA ExtensionExists ==
  ASSUME TypeOK, fresh' \in {fresh, fresh + 1}, NEW b \in Nodes, NEW u \in Nodes,
         NEW by \in [Preimages -> Nodes], NEW user \in [Preimages -> Nodes]
  PROVE  \E by2, user2 \in [Preimages' -> Nodes] :
           Extends(by, user, by2, user2) /\ DrawnFor(by2, user2, b, u)
<1>1. /\ Preimages \subseteq Preimages' /\ fresh \notin Preimages
      /\ fresh' = fresh + 1 => Preimages' = Preimages \cup {fresh}
      /\ fresh' = fresh => Preimages' = Preimages
  BY PreimagesGrow DEF TypeOK, WorldOK, Preimages
<1>2. PICK by2 : by2 = [p \in Preimages' |-> IF p = fresh THEN b ELSE by[p]]
  OBVIOUS
<1>3. PICK user2 : user2 = [p \in Preimages' |-> IF p = fresh THEN u ELSE user[p]]
  OBVIOUS
<1>4. by2 \in [Preimages' -> Nodes] /\ user2 \in [Preimages' -> Nodes]
  BY <1>1, <1>2, <1>3
<1>5. Extends(by, user, by2, user2)
  BY <1>1, <1>2, <1>3 DEF Extends
<1>6. DrawnFor(by2, user2, b, u)
  BY <1>1, <1>2, <1>3 DEF DrawnFor
<1> QED
  BY <1>4, <1>5, <1>6

LEMMA MessageExtends ==
  ASSUME NEW by, NEW user, NEW by2, NEW user2, Extends(by, user, by2, user2),
         DOMAIN given \subseteq DOMAIN given',
         NEW from, NEW to, NEW p \in Preimages, NEW payload \in Payloads(from),
         MessageOwned(by, user, from, to, p, payload)
  PROVE  /\ user2[p] = from /\ by2[p] = to
         /\ payload.msg = "HANDSHAKE_INIT" =>
              /\ p \in DOMAIN given'
              /\ user2[payload.preimage_for_peer] = to /\ by2[payload.preimage_for_peer] = from
<1>1. payload.msg = "HANDSHAKE_INIT" => payload.preimage_for_peer \in Preimages
  BY DEF Payloads
<1> QED
  BY <1>1 DEF MessageOwned, Extends

LEMMA ReplyExtends ==
  ASSUME NEW by, NEW user, NEW by2, NEW user2, Extends(by, user, by2, user2),
         NEW p \in Preimages, NEW r \in Replies, ReplyOwned(by, user, p, r)
  PROVE  ReplyOwned(by2, user2, p, r)
BY ReplyFacts DEF ReplyOwned, Extends

LEMMA TokensStay ==
  ASSUME NEW by, NEW user, NEW by2, NEW user2, Extends(by, user, by2, user2),
         WorldOK, TokensOwned(by, user), given' = given
  PROVE  TokensOwned(by2, user2)'
BY DEF TokensOwned, Extends, WorldOK

LEMMA PeersStay ==
  ASSUME NEW by, NEW user, NEW by2, NEW user2, Extends(by, user, by2, user2),
         NEW n \in Nodes, StateOK(n), PeersOwned(by, user, n), fresh \notin Preimages,
         DOMAIN given \subseteq DOMAIN given', DOMAIN given' \subseteq DOMAIN given \cup {fresh},
         DOMAIN invites'[n] \subseteq DOMAIN invites[n], pending_peers'[n] = pending_peers[n],
         peers'[n] = peers[n]
  PROVE  PeersOwned(by2, user2, n)'
<1>1. Issued(n)' = Issued(n)
  BY DEF Issued
<1>2. \A p \in DOMAIN invites'[n] : p \in DOMAIN given' /\ by2[p] = n
  BY DEF StateOK, PeersOwned, Extends
<1>3. ASSUME NEW m \in DOMAIN peers'[n]
      PROVE  /\ user2[peers'[n][m].their_preimage] = n /\ by2[peers'[n][m].their_preimage] = m
             /\ \A p \in peers'[n][m].issued_preimages :
                  p \notin DOMAIN given' /\ by2[p] = n /\ user2[p] = m
  BY DEF StateOK, PeersOwned, Extends
<1>4. ASSUME NEW m \in DOMAIN pending_peers'[n], NEW p, p = pending_peers'[n][m].my_preimage
      PROVE  p \notin DOMAIN given' \cup Issued(n)' /\ by2[p] = n /\ user2[p] = m
  BY <1>1, <1>4 DEF StateOK, PeersOwned, Extends
<1> QED
  BY <1>2, <1>3, <1>4 DEF PeersOwned

LEMMA TaskOwnedStays ==
  ASSUME NEW by, NEW user, NEW by2, NEW user2, Extends(by, user, by2, user2),
         TypeOK, NEW n \in Nodes, TaskOwned(by, user, n),
         DOMAIN given \subseteq DOMAIN given', task'[n] = task[n]
  PROVE  TaskOwned(by2, user2, n)'
<1>1. CASE task[n].at \in {"sent", "routed", "answered"}
  <2>1. task[n].preimage \in Preimages /\ task[n].payload \in Payloads(n)
    BY <1>1, TaskFacts DEF CallTask
  <2>2. MessageOwned(by2, user2, n, task[n].to, task[n].preimage, task[n].payload)'
    BY <1>1, <2>1, MessageExtends DEF TaskOwned, MessageOwned
  <2>3. At(n, "answered") => ReplyOwned(by2, user2, task[n].preimage, task[n].response)
    BY <1>1, <2>1, TaskFacts, ReplyExtends DEF TaskOwned
  <2>4. At(n, "answered")' => ReplyOwned(by2, user2, task'[n].preimage, task'[n].response)
    BY <2>3 DEF At
  <2> QED
    BY <1>1, <2>2, <2>4 DEF TaskOwned, At
<1>2. CASE At(n, "renew")
  BY <1>2, TaskFacts DEF TaskOwned, At, Extends
<1> QED
  BY <1>1, <1>2 DEF TaskOwned, At

LEMMA FramesTypes ==
  ASSUME TypeOK, NEW n \in Nodes, NEW f \in Frames(n)
  PROVE  f \in Frame
<1>1. uplink[n] \in Seq(Frame)
  BY DEF TypeOK, LinkOK
<1>2. At(n, "write") => task[n].frames \in Seq(Frame)
  BY TaskFacts
<1>3. CASE \E i \in DOMAIN uplink[n] : f = uplink[n][i]
  BY <1>1, <1>3
<1>4. CASE At(n, "write") /\ \E i \in DOMAIN task[n].frames : f = task[n].frames[i]
  BY <1>2, <1>4
<1> QED
  BY <1>3, <1>4 DEF Frames

LEMMA LinkOwnedStays ==
  ASSUME NEW by, NEW user, NEW by2, NEW user2, Extends(by, user, by2, user2),
         TypeOK, NEW n \in Nodes, LinkOwned(by, user, n), DOMAIN given \subseteq DOMAIN given',
         \A i \in DOMAIN downlink'[n] : \E j \in DOMAIN downlink[n] : downlink'[n][i] = downlink[n][j],
         \A f \in Frames(n)' : f.type = "ACK" =>
           \/ f \in Frames(n)
           \/ user2[f.preimage] = f.from /\ ReplyOwned(by2, user2, f.preimage, f.response)
  PROVE  LinkOwned(by2, user2, n)'
<1>1. ASSUME NEW i \in DOMAIN downlink'[n], NEW d, d = downlink'[n][i]
      PROVE  MessageOwned(by2, user2, d.from, n, d.preimage, d.payload)'
  <2>1. PICK j \in DOMAIN downlink[n] : d = downlink[n][j]
    BY <1>1
  <2>2. d \in Delivery
    BY <2>1 DEF TypeOK, LinkOK
  <2>3. d.preimage \in Preimages /\ d.payload \in Payloads(d.from)
    BY <2>2 DEF Delivery
  <2>4. MessageOwned(by, user, d.from, n, d.preimage, d.payload)
    BY <2>1 DEF LinkOwned
  <2>5. /\ user2[d.preimage] = d.from /\ by2[d.preimage] = n
        /\ d.payload.msg = "HANDSHAKE_INIT" =>
             /\ d.preimage \in DOMAIN given'
             /\ user2[d.payload.preimage_for_peer] = n /\ by2[d.payload.preimage_for_peer] = d.from
    BY <2>3, <2>4, MessageExtends
  <2> QED
    BY <2>5 DEF MessageOwned
<1>2. ASSUME NEW f \in Frames(n)', f.type = "ACK"
      PROVE  user2[f.preimage] = f.from /\ ReplyOwned(by2, user2, f.preimage, f.response)
  <2> SUFFICES ASSUME f \in Frames(n)
               PROVE  user2[f.preimage] = f.from /\ ReplyOwned(by2, user2, f.preimage, f.response)
    BY <1>2
  <2>1. f \in Frames(n) /\ user[f.preimage] = f.from /\ ReplyOwned(by, user, f.preimage, f.response)
    BY <1>2 DEF LinkOwned
  <2>2. f \in Frame
    BY <2>1, FramesTypes
  <2>3. f.preimage \in Preimages /\ f.response \in Replies
    BY <1>2, <2>2, FrameFacts
  <2> QED
    BY <2>1, <2>3, ReplyExtends DEF Extends
<1> QED
  BY <1>1, <1>2 DEF LinkOwned

LEMMA CacheStays ==
  ASSUME NEW by, NEW user, NEW by2, NEW user2, Extends(by, user, by2, user2),
         RelayOK, CacheOwned(by, user), DOMAIN response_cache' \subseteq DOMAIN response_cache,
         \A p \in DOMAIN response_cache' : response_cache'[p] = response_cache[p]
  PROVE  CacheOwned(by2, user2)'
<1>1. ASSUME NEW p \in DOMAIN response_cache'
      PROVE  ReplyOwned(by2, user2, p, response_cache'[p])
  <2>1. /\ p \in Preimages /\ response_cache'[p] = response_cache[p] /\ response_cache[p] \in Replies
        /\ ReplyOwned(by, user, p, response_cache[p])
    BY DEF RelayOK, CacheOwned
  <2>2. user2[p] = user[p]
    BY <2>1 DEF Extends
  <2> QED
    BY <2>1, <2>2, ReplyExtends
<1> QED
  BY <1>1 DEF CacheOwned

\* Without new messages there is nothing new to own.
LEMMA SameMessages ==
  ASSUME NEW n \in Nodes, uplink'[n] = uplink[n] \/ uplink'[n] = <<>>,
         downlink'[n] = downlink[n] \/ downlink'[n] = <<>>,
         task'[n] = task[n] \/ task'[n].at # "write"
  PROVE  /\ \A i \in DOMAIN downlink'[n] : \E j \in DOMAIN downlink[n] : downlink'[n][i] = downlink[n][j]
         /\ \A f \in Frames(n)' : f.type = "ACK" => f \in Frames(n)
<1>1. DOMAIN << >> = {}
  OBVIOUS
<1>2. \A i \in DOMAIN downlink'[n] : \E j \in DOMAIN downlink[n] : downlink'[n][i] = downlink[n][j]
  BY <1>1
<1>3. ASSUME NEW f \in Frames(n)'
      PROVE  f \in Frames(n)
  BY <1>1 DEF Frames, At
<1> QED
  BY <1>2, <1>3

LEMMA NewInviteOwned ==
  ASSUME TypeOK, NEW by, NEW user, NEW by2, NEW user2, Extends(by, user, by2, user2),
         Owned(by, user), NEW n \in Nodes, NEW role, NEW holder, NewInvite(n, role, holder),
         by2[fresh] = n, user2[fresh] = holder, UNCHANGED <<pending_peers, peers>>
  PROVE  /\ TokensOwned(by2, user2)' /\ DOMAIN given' = DOMAIN given \cup {fresh}
         /\ \A k \in Nodes : PeersOwned(by2, user2, k)'
<1>1. fresh \notin Preimages
  BY PreimagesGrow DEF TypeOK, WorldOK, NewInvite
<1>2. /\ given' = Put(given, fresh, [id52 |-> n, holder |-> holder])
      /\ DOMAIN given' = DOMAIN given \cup {fresh} /\ DOMAIN given \subseteq Preimages
      /\ invites'[n] = Put(invites[n], fresh, role)
      /\ \A k \in Nodes \ {n} : invites'[k] = invites[k]
  BY DEF NewInvite, Put, TypeOK, WorldOK
<1>3. ASSUME NEW p \in DOMAIN given'
      PROVE  by2[p] = given'[p].id52 /\ user2[p] = given'[p].holder
  <2>1. CASE p = fresh
    <3>1. given'[p] = [id52 |-> n, holder |-> holder]
      BY <1>2, <2>1 DEF Put
    <3> QED
      BY <2>1, <3>1
  <2>2. CASE p # fresh
    <3>1. given'[p] = given[p] /\ p \in DOMAIN given
      BY <1>2, <2>2 DEF Put
    <3> QED
      BY <1>2, <3>1 DEF Owned, TokensOwned, Extends
  <2> QED
    BY <2>1, <2>2
<1>4. ASSUME NEW k \in Nodes
      PROVE  PeersOwned(by2, user2, k)'
  <2>1. StateOK(k) /\ PeersOwned(by, user, k)
    BY DEF TypeOK, Owned
  <2>2. CASE k = n
    <3>1. Issued(n)' = Issued(n)
      BY DEF Issued
    <3>2. \A p \in DOMAIN invites'[n] : p \in DOMAIN given' /\ by2[p] = n
      BY <1>2, <2>1, <2>2 DEF Put, StateOK, PeersOwned, Extends
    <3>3. ASSUME NEW m \in DOMAIN peers'[n]
          PROVE  /\ user2[peers'[n][m].their_preimage] = n /\ by2[peers'[n][m].their_preimage] = m
                 /\ \A p \in peers'[n][m].issued_preimages :
                      p \notin DOMAIN given' /\ by2[p] = n /\ user2[p] = m
      BY <1>1, <1>2, <2>1, <2>2 DEF StateOK, PeersOwned, Extends
    <3>4. ASSUME NEW m \in DOMAIN pending_peers'[n], NEW p, p = pending_peers'[n][m].my_preimage
          PROVE  p \notin DOMAIN given' \cup Issued(n)' /\ by2[p] = n /\ user2[p] = m
      BY <1>1, <1>2, <2>1, <2>2, <3>1, <3>4 DEF StateOK, PeersOwned, Extends
    <3> QED
      BY <2>2, <3>2, <3>3, <3>4 DEF PeersOwned
  <2>3. CASE k # n
    BY <1>1, <1>2, <2>1, <2>3, PeersStay
  <2> QED
    BY <2>2, <2>3
<1> QED
  BY <1>2, <1>3, <1>4 DEF TokensOwned

LEMMA UserOwned ==
  ASSUME TypeOK, TypeOK', fresh' \in {fresh, fresh + 1}, NEW n \in Nodes, UserStep(n),
         NEW by \in [Preimages -> Nodes], NEW user \in [Preimages -> Nodes], Owned(by, user)
  PROVE  OwnedInv'
<1>1. fresh \notin Preimages
  BY PreimagesGrow DEF TypeOK, WorldOK
<1>2. /\ TokensOwned(by, user) /\ CacheOwned(by, user) /\ RelayOK /\ WorldOK
      /\ \A k \in Nodes : /\ PeersOwned(by, user, k) /\ TaskOwned(by, user, k) /\ LinkOwned(by, user, k)
                          /\ StateOK(k)
  BY DEF Owned, TypeOK
<1>3. CASE \E role \in Roles, m \in Nodes : CreateInvite(n, role, m)
  <2>1. PICK role \in Roles, holder \in Nodes : CreateInvite(n, role, holder)
    BY <1>3
  <2>2. PICK by2 \in [Preimages' -> Nodes], user2 \in [Preimages' -> Nodes] :
          Extends(by, user, by2, user2) /\ DrawnFor(by2, user2, n, holder)
    BY ExtensionExists
  <2>3. /\ NewInvite(n, role, holder) /\ fresh' = fresh + 1
        /\ UNCHANGED <<pending_peers, peers, task, uplink, downlink, response_cache>>
    BY <2>1 DEF CreateInvite, linkVars, relayVars, NewInvite
  <2>4. /\ TokensOwned(by2, user2)' /\ DOMAIN given \subseteq DOMAIN given'
        /\ \A k \in Nodes : PeersOwned(by2, user2, k)'
    BY <2>2, <2>3, NewInviteOwned DEF DrawnFor
  <2>5. CacheOwned(by2, user2)'
    BY <1>2, <2>2, <2>3, CacheStays
  <2>6. ASSUME NEW k \in Nodes
        PROVE  TaskOwned(by2, user2, k)' /\ LinkOwned(by2, user2, k)'
    BY <1>2, <2>2, <2>3, <2>4, TaskOwnedStays, LinkOwnedStays, SameMessages
  <2> QED
    BY <2>4, <2>5, <2>6 DEF OwnedInv, Owned
<1>4. CASE \E p \in DOMAIN given : Pair(n, p)
  <2>1. PICK p \in DOMAIN given : Pair(n, p)
    BY <1>4
  <2>2. PICK m : m = given[p].id52
    OBVIOUS
  <2>3. /\ m \in Nodes \ {n} /\ p \in Preimages /\ given[p].holder = n
        /\ fresh' = fresh + 1
        /\ pending_peers' = [pending_peers EXCEPT ![n] =
              Put(pending_peers[n], m, [their_preimage |-> p, my_preimage |-> fresh])]
        /\ task' = [task EXCEPT ![n] = Call(m, p, HandshakeInit(n, fresh))]
        /\ UNCHANGED <<invites, peers, uplink, downlink, response_cache, given>>
    BY <2>1, <2>2, NodeAssumption DEF Pair, linkVars, relayVars, TypeOK, WorldOK, Goto
  <2>4. PICK by2 \in [Preimages' -> Nodes], user2 \in [Preimages' -> Nodes] :
          Extends(by, user, by2, user2) /\ DrawnFor(by2, user2, n, m)
    BY <2>3, ExtensionExists
  <2>5. /\ pending_peers'[n] = Put(pending_peers[n], m, [their_preimage |-> p, my_preimage |-> fresh])
        /\ task'[n] = Call(m, p, HandshakeInit(n, fresh))
        /\ \A k \in Nodes \ {n} : pending_peers'[k] = pending_peers[k] /\ task'[k] = task[k]
    BY <2>3 DEF TypeOK
  <2>6. PeersOwned(by2, user2, n)'
    <3>1. Issued(n)' = Issued(n) /\ Issued(n) \subseteq Preimages
      BY <1>2, <2>3 DEF Issued, StateOK
    <3>2. ASSUME NEW k \in DOMAIN pending_peers'[n], NEW q, q = pending_peers'[n][k].my_preimage
          PROVE  q \notin DOMAIN given' \cup Issued(n)' /\ by2[q] = n /\ user2[q] = k
      <4>1. CASE k = m
        <5>1. q = fresh
          BY <2>5, <3>2, <4>1 DEF Put
        <5> QED
          BY <1>1, <1>2, <2>3, <2>4, <3>1, <4>1, <5>1 DEF WorldOK, DrawnFor
      <4>2. CASE k # m
        BY <1>2, <2>3, <2>4, <2>5, <3>1, <3>2, <4>2 DEF Put, StateOK, PeersOwned, Extends
      <4> QED
        BY <4>1, <4>2
    <3>3. \A q \in DOMAIN invites'[n] : q \in DOMAIN given' /\ by2[q] = n
      BY <1>2, <2>3, <2>4 DEF StateOK, PeersOwned, Extends
    <3>4. ASSUME NEW k \in DOMAIN peers'[n]
          PROVE  /\ user2[peers'[n][k].their_preimage] = n /\ by2[peers'[n][k].their_preimage] = k
                 /\ \A q \in peers'[n][k].issued_preimages :
                      q \notin DOMAIN given' /\ by2[q] = n /\ user2[q] = k
      BY <1>2, <2>3, <2>4 DEF StateOK, PeersOwned, Extends
    <3> QED
      BY <3>2, <3>3, <3>4 DEF PeersOwned
  <2>7. TaskOwned(by2, user2, n)'
    <3>1. user2[p] = n /\ by2[p] = m
      BY <1>2, <2>2, <2>3, <2>4 DEF TokensOwned, Extends
    <3> QED
      BY <2>3, <2>4, <2>5, <3>1 DEF TaskOwned, MessageOwned, Call, HandshakeInit, At, DrawnFor
  <2>8. ASSUME NEW k \in Nodes
        PROVE  PeersOwned(by2, user2, k)' /\ TaskOwned(by2, user2, k)' /\ LinkOwned(by2, user2, k)'
    <3>1. LinkOwned(by2, user2, k)'
      <4>1. task'[k] = task[k] \/ task'[k].at # "write"
        BY <2>5 DEF Call
      <4> QED
        BY <1>2, <2>3, <2>4, <4>1, LinkOwnedStays, SameMessages
    <3>2. PeersOwned(by2, user2, k)' /\ TaskOwned(by2, user2, k)'
      BY <1>1, <1>2, <2>3, <2>4, <2>5, <2>6, <2>7, PeersStay, TaskOwnedStays
    <3> QED
      BY <3>1, <3>2
  <2>9. TokensOwned(by2, user2)' /\ CacheOwned(by2, user2)'
    BY <1>2, <2>3, <2>4, TokensStay, CacheStays
  <2> QED
    BY <2>8, <2>9 DEF OwnedInv, Owned
<1>5. CASE Run(n) \/ \E m \in Nodes, cmd \in Commands \cup BuiltIns : Send(n, m, cmd)
  <2>1. /\ UNCHANGED <<invites, pending_peers, peers, response_cache, given>>
        /\ \A k \in Nodes : /\ uplink'[k] = uplink[k] \/ (k = n /\ uplink'[k] = <<IAm(AllCommits(n))>>)
                            /\ downlink'[k] = downlink[k] \/ downlink'[k] = <<>>
        /\ \A k \in Nodes \ {n} : task'[k] = task[k]
        /\ \/ task'[n] = Serving
           \/ \E m \in DOMAIN peers[n], cmd \in Commands \cup BuiltIns :
                task'[n] = Call(m, peers[n][m].their_preimage, Request(cmd))
    <3>1. CASE Run(n)
      BY <3>1 DEF Run, Goto, stateVars, relayVars, worldVars, TypeOK
    <3>2. CASE \E m \in Nodes, cmd \in Commands \cup BuiltIns : Send(n, m, cmd)
      BY <3>2 DEF Send, Goto, stateVars, linkVars, relayVars, worldVars, TypeOK
    <3> QED
      BY <1>5, <3>1, <3>2
  <2>2. PICK by2 \in [Preimages' -> Nodes], user2 \in [Preimages' -> Nodes] :
          Extends(by, user, by2, user2)
    BY ExtensionExists
  <2>7. task'[n].at \in {"serving", "sent"}
    <3>1. Serving.at = "serving" /\ \A m, p, x : Call(m, p, x).at = "sent"
      BY DEF Serving, Call
    <3> QED
      BY <2>1, <3>1
  <2>3. TaskOwned(by2, user2, n)'
    <3>1. CASE task'[n] = Serving
      BY <3>1 DEF TaskOwned, Serving, At
    <3>2. ASSUME NEW m \in DOMAIN peers[n], NEW cmd \in Commands \cup BuiltIns,
                 task'[n] = Call(m, peers[n][m].their_preimage, Request(cmd))
          PROVE  TaskOwned(by2, user2, n)'
      <4>1. user2[peers[n][m].their_preimage] = n /\ by2[peers[n][m].their_preimage] = m
        BY <1>2, <2>2 DEF StateOK, PeersOwned, Extends
      <4> QED
        BY <3>2, <4>1 DEF TaskOwned, MessageOwned, Call, Request, At
    <3> QED
      BY <2>1, <3>1, <3>2
  <2>4. ASSUME NEW k \in Nodes
        PROVE  LinkOwned(by2, user2, k)'
    <3>1. task'[k] = task[k] \/ task'[k].at # "write"
      BY <2>1, <2>7
    <3>2. CASE uplink'[k] = uplink[k]
      BY <1>2, <2>1, <2>2, <3>1, <3>2, LinkOwnedStays, SameMessages
    <3>3. CASE k = n /\ uplink'[k] = <<IAm(AllCommits(n))>>
      <4>1. \A f \in Frames(k)' : f.type # "ACK"
        BY <2>7, <3>3 DEF Frames, At, IAm
      <4>2. \A i \in DOMAIN downlink'[k] : \E j \in DOMAIN downlink[k] : downlink'[k][i] = downlink[k][j]
        BY <2>1
      <4> QED
        BY <1>2, <2>1, <2>2, <4>1, <4>2, LinkOwnedStays
    <3> QED
      BY <2>1, <3>2, <3>3
  <2>5. ASSUME NEW k \in Nodes
        PROVE  PeersOwned(by2, user2, k)' /\ TaskOwned(by2, user2, k)'
    BY <1>1, <1>2, <2>1, <2>2, <2>3, PeersStay, TaskOwnedStays
  <2>6. TokensOwned(by2, user2)' /\ CacheOwned(by2, user2)'
    BY <1>2, <2>1, <2>2, TokensStay, CacheStays
  <2> QED
    BY <2>4, <2>5, <2>6 DEF OwnedInv, Owned
<1> QED
  BY <1>3, <1>4, <1>5 DEF UserStep

\* Nothing is drawn: the preimages are whose they were.
LEMMA QuietOwned ==
  ASSUME fresh' = fresh, given' = given,
         NEW by \in [Preimages -> Nodes], NEW user \in [Preimages -> Nodes],
         TokensOwned(by, user), CacheOwned(by, user)',
         \A k \in Nodes : PeersOwned(by, user, k)' /\ TaskOwned(by, user, k)' /\ LinkOwned(by, user, k)'
  PROVE  OwnedInv'
<1>1. Preimages' = Preimages
  BY DEF Preimages
<1>2. TokensOwned(by, user)'
  BY DEF TokensOwned
<1> QED
  BY <1>1, <1>2 DEF OwnedInv, Owned

LEMMA CallOwned ==
  ASSUME TypeOK, NEW n \in Nodes, CallStep(n) \/ Fail(n),
         NEW by \in [Preimages -> Nodes], NEW user \in [Preimages -> Nodes], Owned(by, user)
  PROVE  OwnedInv'
<1>1. /\ TokensOwned(by, user) /\ CacheOwned(by, user) /\ RelayOK /\ WorldOK /\ fresh \notin Preimages
      /\ \A k \in Nodes : /\ PeersOwned(by, user, k) /\ TaskOwned(by, user, k) /\ LinkOwned(by, user, k)
                          /\ StateOK(k)
  BY DEF Owned, TypeOK, WorldOK, Preimages
<1>2. Extends(by, user, by, user)
  BY DEF Extends
<1>3. /\ fresh' = fresh /\ given' = given /\ UNCHANGED <<invites, uplink>>
      /\ \E t : task' = [task EXCEPT ![n] = t] /\ t.at \in {"idle", "routed", "answered"}
  <2>1. fresh' = fresh /\ given' = given /\ UNCHANGED <<invites, uplink>>
    BY DEF CallStep, CachedResponse, Refused, RouteMessage, HandshakeAccepted, HandshakeRejected,
         CommandAnswered, Fail, linkVars, stateVars, worldVars
  <2>2. CASE Refused(n) \/ HandshakeAccepted(n) \/ HandshakeRejected(n) \/ CommandAnswered(n) \/ Fail(n)
    <3>1. task' = [task EXCEPT ![n] = Idle] /\ Idle.at = "idle"
      BY <2>2 DEF Refused, HandshakeAccepted, HandshakeRejected, CommandAnswered, Fail, Goto, Idle
    <3> QED
      BY <2>1, <3>1
  <2>3. CASE CachedResponse(n) \/ RouteMessage(n)
    <3>1. task[n] \in CallTask(n)
      BY <2>3, TaskFacts DEF CachedResponse, RouteMessage, At
    <3>2. PICK t : t = task[n]
      OBVIOUS
    <3>3. Routed(t).at = "routed" /\ \A r : Answered(t, r).at = "answered"
      BY <3>1, <3>2 DEF Routed, Answered, CallTask
    <3> QED
      BY <2>1, <2>3, <3>2, <3>3 DEF CachedResponse, RouteMessage, Goto
  <2> QED
    BY <2>2, <2>3 DEF CallStep
<1>4. /\ \A k \in Nodes \ {n} : task'[k] = task[k] /\ TaskOwned(by, user, k)'
      /\ task'[n].at \in {"idle", "routed", "answered"}
      /\ task' = [task EXCEPT ![n] = task'[n]]
  <2>1. PICK t : task' = [task EXCEPT ![n] = t] /\ t.at \in {"idle", "routed", "answered"}
    BY <1>3
  <2>2. task'[n] = t /\ \A k \in Nodes \ {n} : task'[k] = task[k]
    BY <2>1 DEF TypeOK
  <2> QED
    BY <1>1, <1>2, <1>3, <2>1, <2>2, TaskOwnedStays
<1>5. ASSUME UNCHANGED downlink
      PROVE  \A k \in Nodes : LinkOwned(by, user, k)'
  <2>1. ASSUME NEW k \in Nodes
        PROVE  LinkOwned(by, user, k)'
    <3>1. task'[k] = task[k] \/ task'[k].at # "write"
      BY <1>4
    <3> QED
      BY <1>1, <1>2, <1>3, <1>5, <3>1, LinkOwnedStays, SameMessages
  <2> QED
    BY <2>1
<1>6. ASSUME UNCHANGED <<pending_peers, peers>>
      PROVE  \A k \in Nodes : PeersOwned(by, user, k)'
  BY <1>1, <1>2, <1>3, <1>6, PeersStay
<1>7. ASSUME UNCHANGED response_cache
      PROVE  CacheOwned(by, user)'
  BY <1>1, <1>2, <1>7, CacheStays
<1>8. ASSUME task'[n] = Idle
      PROVE  TaskOwned(by, user, n)'
  BY <1>8 DEF TaskOwned, At, Idle
<1>9. CASE Refused(n) \/ HandshakeRejected(n) \/ Fail(n)
  <2>1. task'[n] = Idle /\ UNCHANGED <<pending_peers, peers, downlink, response_cache>>
    BY <1>9 DEF Refused, HandshakeRejected, Fail, Goto, TypeOK, stateVars, linkVars, relayVars
  <2> QED
    BY <1>1, <1>3, <1>4, <1>5, <1>6, <1>7, <1>8, <2>1, QuietOwned
<1>10. CASE CachedResponse(n)
  <2> DEFINE t == task[n]  p == task[n].preimage
  <2>1. /\ t.at = "sent" /\ p \in DOMAIN response_cache /\ task'[n] = Answered(t, response_cache[p])
        /\ response_cache' = Drop(response_cache, p) /\ UNCHANGED <<pending_peers, peers, downlink>>
    BY <1>10 DEF CachedResponse, Goto, At, TypeOK, stateVars, linkVars
  <2>2. MessageOwned(by, user, n, t.to, p, t.payload) /\ t \in CallTask(n)
    BY <1>1, <2>1, TaskFacts DEF TaskOwned
  <2>3. ReplyOwned(by, user, p, response_cache[p])
    BY <1>1, <2>1, <2>2 DEF CacheOwned, MessageOwned
  <2>4. TaskOwned(by, user, n)'
    <3> HIDE DEF t, p
    <3>1. PICK a : a = Answered(t, response_cache[p])
      OBVIOUS
    <3>2. /\ a.at = "answered" /\ a.to = t.to /\ a.preimage = t.preimage /\ a.payload = t.payload
          /\ a.response = response_cache[p]
      BY <2>2, <3>1 DEF Answered, CallTask
    <3>3. MessageOwned(by, user, n, a.to, a.preimage, a.payload)' /\ ReplyOwned(by, user, a.preimage, a.response)
      BY <1>3, <2>2, <2>3, <3>2 DEF MessageOwned, t, p
    <3> QED
      BY <2>1, <3>1, <3>2, <3>3 DEF TaskOwned, At
  <2>5. CacheOwned(by, user)'
    <3>1. /\ DOMAIN response_cache' \subseteq DOMAIN response_cache
          /\ \A q \in DOMAIN response_cache' : response_cache'[q] = response_cache[q]
      BY <2>1 DEF Drop, Restrict
    <3> QED
      BY <1>1, <1>2, <3>1, CacheStays
  <2> QED
    BY <1>1, <1>3, <1>4, <1>5, <1>6, <2>1, <2>4, <2>5, QuietOwned
<1>11. CASE RouteMessage(n)
  <2> DEFINE t == task[n]  p == task[n].preimage
  <2>0. PICK m : m = t.to
    OBVIOUS
  <2>1. PICK d : d = [from |-> n, preimage |-> p, payload |-> t.payload]
    OBVIOUS
  <2>2. /\ t.at = "sent" /\ task'[n] = Routed(t)
        /\ downlink' = [downlink EXCEPT ![m] = Append(downlink[m], d)]
        /\ UNCHANGED <<pending_peers, peers, response_cache>>
    BY <1>11, <2>0, <2>1 DEF RouteMessage, Goto, At, TypeOK, stateVars
  <2>3. MessageOwned(by, user, n, m, p, t.payload) /\ t \in CallTask(n) /\ m \in Nodes
    BY <1>1, <2>0, <2>2, TaskFacts DEF TaskOwned, CallTask
  <2>4. TaskOwned(by, user, n)'
    <3> HIDE DEF t, p
    <3>1. PICK a : a = Routed(t)
      OBVIOUS
    <3>2. a.at = "routed" /\ a.to = t.to /\ a.preimage = t.preimage /\ a.payload = t.payload
      BY <2>3, <3>1 DEF Routed, CallTask
    <3>3. MessageOwned(by, user, n, a.to, a.preimage, a.payload)'
      BY <1>3, <2>0, <2>3, <3>2 DEF MessageOwned, t, p
    <3> QED
      BY <2>2, <3>1, <3>2, <3>3 DEF TaskOwned, At
  <2>5. ASSUME NEW k \in Nodes
        PROVE  LinkOwned(by, user, k)'
    <3>1. downlink[m] \in Seq(Delivery)
      BY <2>3 DEF TypeOK, LinkOK
    <3>2. /\ downlink'[m] = Append(downlink[m], d) /\ \A j \in Nodes \ {m} : downlink'[j] = downlink[j]
      BY <2>2, <2>3 DEF TypeOK
    <3>3. \A i \in DOMAIN downlink'[m] :
            downlink'[m][i] = d \/ (i \in DOMAIN downlink[m] /\ downlink'[m][i] = downlink[m][i])
      BY <3>1, <3>2
    <3>4. MessageOwned(by, user, d.from, m, d.preimage, d.payload)
      BY <2>1, <2>3
    <3>5. ASSUME NEW i \in DOMAIN downlink'[k], NEW e, e = downlink'[k][i]
          PROVE  MessageOwned(by, user, e.from, k, e.preimage, e.payload)
      BY <1>1, <3>2, <3>3, <3>4, <3>5 DEF LinkOwned
    <3>6. Frames(k)' \subseteq Frames(k)
      BY <1>3, <1>4 DEF Frames, At
    <3>7. \A f \in Frames(k)' : f.type = "ACK" =>
            user[f.preimage] = f.from /\ ReplyOwned(by, user, f.preimage, f.response)
      BY <1>1, <3>6 DEF LinkOwned
    <3>8. ASSUME NEW i \in DOMAIN downlink'[k], NEW e, e = downlink'[k][i]
          PROVE  MessageOwned(by, user, e.from, k, e.preimage, e.payload)'
      BY <1>3, <3>5, <3>8 DEF MessageOwned
    <3> QED
      BY <3>7, <3>8 DEF LinkOwned
  <2> QED
    BY <1>1, <1>3, <1>4, <1>6, <1>7, <2>2, <2>4, <2>5, QuietOwned
<1>12. CASE HandshakeAccepted(n)
  <2> DEFINE t == task[n]  r == task[n].response
  <2>0. PICK m : m = t.to
    OBVIOUS
  <2>1. PICK q : q = pending_peers[n][m].my_preimage
    OBVIOUS
  <2>2. /\ t.at = "answered" /\ r.msg = "HANDSHAKE_COMPLETE" /\ r.ok /\ m \in DOMAIN pending_peers[n]
        /\ task'[n] = Idle /\ UNCHANGED <<downlink, response_cache>>
        /\ peers'[n] = Put(peers[n], m, [role |-> "reader", issued_preimages |-> {q},
                                         their_preimage |-> r.preimage_for_peer])
        /\ pending_peers'[n] = Drop(pending_peers[n], m)
        /\ \A k \in Nodes \ {n} : peers'[k] = peers[k] /\ pending_peers'[k] = pending_peers[k]
    BY <1>12, <2>0, <2>1 DEF HandshakeAccepted, At, Goto, TypeOK, linkVars, relayVars
  <2>3. /\ ReplyOwned(by, user, t.preimage, r) /\ StateOK(n) /\ PeersOwned(by, user, n)
        /\ q \notin DOMAIN given /\ by[q] = n /\ user[q] = m
    BY <1>1, <2>1, <2>2 DEF TaskOwned, At, PeersOwned
  <2>4. user[r.preimage_for_peer] = n /\ by[r.preimage_for_peer] = m
    <3>1. user[t.preimage] = n /\ by[t.preimage] = m
      BY <1>1, <2>0, <2>2 DEF TaskOwned, MessageOwned
    <3> QED
      BY <2>2, <2>3, <3>1 DEF ReplyOwned
  <2>5. PeersOwned(by, user, n)'
    <3> HIDE DEF t, r
    <3>1. /\ DOMAIN peers'[n] = DOMAIN peers[n] \cup {m}
          /\ peers'[n][m].issued_preimages = {q} /\ peers'[n][m].their_preimage = r.preimage_for_peer
          /\ \A k \in DOMAIN peers[n] \ {m} : peers'[n][k] = peers[n][k]
      BY <2>2 DEF Put
    <3>2. Issued(n)' \subseteq Issued(n) \cup {q}
      BY <3>1 DEF Issued
    <3>3. /\ DOMAIN pending_peers'[n] = DOMAIN pending_peers[n] \ {m}
          /\ \A k \in DOMAIN pending_peers'[n] : pending_peers'[n][k] = pending_peers[n][k]
      BY <2>2 DEF Drop, Restrict
    <3>4. \A p \in DOMAIN invites'[n] : p \in DOMAIN given' /\ by[p] = n
      BY <1>3, <2>3 DEF PeersOwned
    <3>5. ASSUME NEW k \in DOMAIN peers'[n]
          PROVE  /\ user[peers'[n][k].their_preimage] = n /\ by[peers'[n][k].their_preimage] = k
                 /\ \A p \in peers'[n][k].issued_preimages :
                      p \notin DOMAIN given' /\ by[p] = n /\ user[p] = k
      BY <1>3, <2>3, <2>4, <3>1 DEF PeersOwned
    <3>6. ASSUME NEW k \in DOMAIN pending_peers'[n], NEW p, p = pending_peers'[n][k].my_preimage
          PROVE  p \notin DOMAIN given' \cup Issued(n)' /\ by[p] = n /\ user[p] = k
      <4>1. k \in DOMAIN pending_peers[n] /\ k # m /\ p = pending_peers[n][k].my_preimage
        BY <3>3, <3>6
      <4>2. p \notin DOMAIN given \cup Issued(n) /\ by[p] = n /\ user[p] = k
        BY <2>3, <4>1 DEF PeersOwned
      <4> QED
        BY <1>3, <2>3, <3>2, <4>1, <4>2
    <3> QED
      BY <3>4, <3>5, <3>6 DEF PeersOwned
  <2>6. \A k \in Nodes : PeersOwned(by, user, k)'
    BY <1>1, <1>2, <1>3, <2>2, <2>5, PeersStay
  <2> QED
    BY <1>1, <1>3, <1>4, <1>5, <1>7, <1>8, <2>2, <2>6, QuietOwned
<1>13. CASE CommandAnswered(n)
  <2> DEFINE t == task[n]  r == task[n].response
  <2>0. PICK m : m = t.to
    OBVIOUS
  <2>1. /\ t.at = "answered" /\ r.msg = "response" /\ task'[n] = Idle
        /\ UNCHANGED <<pending_peers, downlink, response_cache>>
        /\ \/ UNCHANGED peers
           \/ /\ r.next # None /\ m \in DOMAIN peers[n]
              /\ peers'[n] = Put(peers[n], m, [role |-> peers[n][m].role,
                       issued_preimages |-> peers[n][m].issued_preimages, their_preimage |-> r.next])
              /\ \A k \in Nodes \ {n} : peers'[k] = peers[k]
    BY <1>13, <2>0 DEF CommandAnswered, At, Goto, TypeOK, linkVars, relayVars
  <2>2. ReplyOwned(by, user, t.preimage, r) /\ StateOK(n) /\ PeersOwned(by, user, n)
    BY <1>1, <2>1 DEF TaskOwned, At
  <2>3. \A k \in Nodes : PeersOwned(by, user, k)'
    <3>1. CASE UNCHANGED peers
      BY <1>6, <2>1, <3>1
    <3>2. CASE /\ r.next # None /\ m \in DOMAIN peers[n]
               /\ peers'[n] = Put(peers[n], m, [role |-> peers[n][m].role,
                       issued_preimages |-> peers[n][m].issued_preimages, their_preimage |-> r.next])
               /\ \A k \in Nodes \ {n} : peers'[k] = peers[k]
      <4>1. user[r.next] = n /\ by[r.next] = m
        <5>1. user[t.preimage] = n /\ by[t.preimage] = m
          BY <1>1, <2>0, <2>1 DEF TaskOwned, MessageOwned
        <5> QED
          BY <2>1, <2>2, <3>2, <5>1 DEF ReplyOwned
      <4> HIDE DEF t, r
      <4>2. /\ DOMAIN peers'[n] = DOMAIN peers[n] /\ peers'[n][m].their_preimage = r.next
            /\ \A k \in DOMAIN peers[n] :
                 /\ peers'[n][k].issued_preimages = peers[n][k].issued_preimages
                 /\ k # m => peers'[n][k] = peers[n][k]
        BY <3>2 DEF Put
      <4>3. Issued(n)' = Issued(n)
        BY <4>2 DEF Issued
      <4>4. PeersOwned(by, user, n)'
        <5>1. \A p \in DOMAIN invites'[n] : p \in DOMAIN given' /\ by[p] = n
          BY <1>3, <2>2 DEF PeersOwned
        <5>2. ASSUME NEW k \in DOMAIN peers'[n]
              PROVE  /\ user[peers'[n][k].their_preimage] = n /\ by[peers'[n][k].their_preimage] = k
                     /\ \A p \in peers'[n][k].issued_preimages :
                          p \notin DOMAIN given' /\ by[p] = n /\ user[p] = k
          BY <1>3, <2>2, <4>1, <4>2 DEF PeersOwned
        <5>3. ASSUME NEW k \in DOMAIN pending_peers'[n], NEW p, p = pending_peers'[n][k].my_preimage
              PROVE  p \notin DOMAIN given' \cup Issued(n)' /\ by[p] = n /\ user[p] = k
          BY <1>3, <2>1, <2>2, <4>3, <5>3 DEF PeersOwned
        <5> QED
          BY <5>1, <5>2, <5>3 DEF PeersOwned
      <4> QED
        BY <1>1, <1>2, <1>3, <2>1, <3>2, <4>4, PeersStay
    <3> QED
      BY <2>1, <3>1, <3>2
  <2> QED
    BY <1>1, <1>3, <1>4, <1>5, <1>7, <1>8, <2>1, <2>3, QuietOwned
<1> QED
  BY <1>9, <1>10, <1>11, <1>12, <1>13 DEF CallStep

\* A node that changes nothing of its own, while another one moves.
LEMMA OthersOwned ==
  ASSUME TypeOK, NEW by, NEW user, NEW by2, NEW user2, Extends(by, user, by2, user2),
         Owned(by, user), NEW k \in Nodes,
         DOMAIN given \subseteq DOMAIN given', DOMAIN given' \subseteq DOMAIN given \cup {fresh},
         invites'[k] = invites[k], pending_peers'[k] = pending_peers[k], peers'[k] = peers[k],
         task'[k] = task[k], uplink'[k] = uplink[k], downlink'[k] = downlink[k]
  PROVE  PeersOwned(by2, user2, k)' /\ TaskOwned(by2, user2, k)' /\ LinkOwned(by2, user2, k)'
<1>1. PeersOwned(by, user, k) /\ TaskOwned(by, user, k) /\ LinkOwned(by, user, k) /\ StateOK(k)
  BY DEF Owned, TypeOK
<1>2. fresh \notin Preimages
  BY DEF TypeOK, WorldOK, Preimages
<1>3. PeersOwned(by2, user2, k)' /\ TaskOwned(by2, user2, k)'
  BY <1>1, <1>2, PeersStay, TaskOwnedStays
<1>4. LinkOwned(by2, user2, k)'
  BY <1>1, LinkOwnedStays, SameMessages
<1> QED
  BY <1>3, <1>4

\* One node moves, and what it changes is owned.
LEMMA ServedOwned ==
  ASSUME TypeOK, NEW by, NEW user, NEW by2 \in [Preimages' -> Nodes], NEW user2 \in [Preimages' -> Nodes],
         Extends(by, user, by2, user2), Owned(by, user), NEW n \in Nodes,
         DOMAIN given \subseteq DOMAIN given', DOMAIN given' \subseteq DOMAIN given \cup {fresh},
         UNCHANGED <<pending_peers, response_cache>>,
         \A k \in Nodes \ {n} :
           /\ invites'[k] = invites[k] /\ peers'[k] = peers[k] /\ task'[k] = task[k]
           /\ uplink'[k] = uplink[k] /\ downlink'[k] = downlink[k],
         TokensOwned(by2, user2)', PeersOwned(by2, user2, n)', TaskOwned(by2, user2, n)',
         LinkOwned(by2, user2, n)'
  PROVE  OwnedInv'
<1>1. \A k \in Nodes \ {n} :
        PeersOwned(by2, user2, k)' /\ TaskOwned(by2, user2, k)' /\ LinkOwned(by2, user2, k)'
  BY OthersOwned
<1>2. CacheOwned(by2, user2)'
  BY CacheStays DEF Owned, TypeOK
<1> QED
  BY <1>1, <1>2 DEF OwnedInv, Owned

LEMMA RelayStepOwned ==
  ASSUME TypeOK, NEW n \in Nodes, RelayStep(n),
         NEW by \in [Preimages -> Nodes], NEW user \in [Preimages -> Nodes], Owned(by, user)
  PROVE  OwnedInv'
<1>1. /\ TokensOwned(by, user) /\ CacheOwned(by, user) /\ RelayOK
      /\ \A k \in Nodes : PeersOwned(by, user, k) /\ TaskOwned(by, user, k) /\ LinkOwned(by, user, k)
  BY DEF Owned, TypeOK
<1>2. Extends(by, user, by, user)
  BY DEF Extends
<1>3. /\ UNCHANGED <<invites, pending_peers, peers, downlink, given, fresh>>
      /\ uplink[n] # <<>> /\ uplink' = [uplink EXCEPT ![n] = Tail(uplink[n])]
  BY DEF RelayStep, RegisterFrame, CommitsFrame, AckFrame, stateVars, worldVars
<1>4. uplink[n] \in Seq(Frame) /\ DOMAIN uplink = Nodes /\ DOMAIN task = Nodes
  BY DEF TypeOK, LinkOK
<1>5. ASSUME NEW k \in Nodes, task'[k] = task[k] \/ task'[k].at # "write"
      PROVE  PeersOwned(by, user, k)' /\ LinkOwned(by, user, k)'
  <2>1. \A i \in DOMAIN uplink'[k] : \E j \in DOMAIN uplink[k] : uplink'[k][i] = uplink[k][j]
    <3>1. \A i \in DOMAIN Tail(uplink[n]) : i + 1 \in DOMAIN uplink[n] /\ Tail(uplink[n])[i] = uplink[n][i + 1]
      BY <1>3, <1>4, TailTypes
    <3> QED
      BY <1>3, <1>4, <3>1
  <2>2. Frames(k)' \subseteq Frames(k)
    BY <1>5, <2>1 DEF Frames, At
  <2>3. LinkOwned(by, user, k)'
    BY <1>1, <1>2, <1>3, <2>2, LinkOwnedStays
  <2>4. fresh \notin Preimages /\ StateOK(k)
    BY DEF TypeOK, WorldOK, Preimages
  <2> QED
    BY <1>1, <1>2, <1>3, <2>3, <2>4, PeersStay
<1>6. CASE RegisterFrame(n) \/ CommitsFrame(n)
  <2>1. UNCHANGED <<task, response_cache>>
    BY <1>6 DEF RegisterFrame, CommitsFrame
  <2>2. CacheOwned(by, user)' /\ \A k \in Nodes : TaskOwned(by, user, k)'
    BY <1>1, <1>2, <1>3, <2>1, CacheStays, TaskOwnedStays
  <2> QED
    BY <1>1, <1>3, <1>5, <2>1, <2>2, QuietOwned
<1>7. CASE AckFrame(n)
  <2>0. PICK f, c, p, r : f = Head(uplink[n]) /\ c = f.from /\ p = f.preimage /\ r = f.response
    OBVIOUS
  <2>1. /\ f.type = "ACK" /\ response_cache' = Put(response_cache, p, r)
        /\ \/ At(c, "routed") /\ task[c].preimage = p /\ task' = [task EXCEPT ![c] = Answered(task[c], r)]
           \/ task' = task
    BY <1>7, <2>0 DEF AckFrame, Goto
  <2>2. f \in Frame /\ f \in Frames(n)
    BY <1>3, <1>4, <2>0, TailTypes DEF Frames
  <2>3. c \in Nodes /\ p \in Preimages /\ r \in Replies /\ user[p] = c /\ ReplyOwned(by, user, p, r)
    BY <1>1, <2>0, <2>1, <2>2, FrameFacts, NodeAssumption DEF LinkOwned
  <2>4. CacheOwned(by, user)'
    BY <1>1, <2>1, <2>3 DEF CacheOwned, Put
  <2>5. ASSUME NEW k \in Nodes
        PROVE  TaskOwned(by, user, k)' /\ (task'[k] = task[k] \/ task'[k].at # "write")
    <3>1. CASE task'[k] = task[k]
      BY <1>1, <1>2, <1>3, <3>1, TaskOwnedStays
    <3>2. CASE k = c /\ At(c, "routed") /\ task[c].preimage = p /\ task'[k] = Answered(task[c], r)
      <4>1. PICK t, a : t = task[c] /\ a = Answered(t, r)
        OBVIOUS
      <4>2. t \in CallTask(c) /\ MessageOwned(by, user, c, t.to, t.preimage, t.payload)
        BY <1>1, <2>3, <3>2, <4>1, TaskFacts DEF At, TaskOwned
      <4>3. /\ a.at = "answered" /\ a.to = t.to /\ a.preimage = t.preimage
            /\ a.payload = t.payload /\ a.response = r
        BY <4>1, <4>2 DEF Answered, CallTask
      <4>4. MessageOwned(by, user, c, a.to, a.preimage, a.payload)' /\ ReplyOwned(by, user, a.preimage, a.response)
        BY <1>3, <2>3, <3>2, <4>1, <4>2, <4>3 DEF MessageOwned
      <4> QED
        BY <3>2, <4>1, <4>3, <4>4 DEF TaskOwned, At
    <3> QED
      BY <1>4, <2>1, <2>3, <3>1, <3>2
  <2> QED
    BY <1>1, <1>3, <1>5, <2>4, <2>5, QuietOwned
<1> QED
  BY <1>6, <1>7 DEF RelayStep

\* The message that is received, and what is left of the link.
LEMMA ReceivesOwned ==
  ASSUME TypeOK, NEW n \in Nodes, NEW msg, Receives(n, msg), NEW d, d = Head(downlink[n]),
         NEW by, NEW user, LinkOwned(by, user, n)
  PROVE  /\ MessageOwned(by, user, d.from, n, d.preimage, d.payload)
         /\ \A i \in DOMAIN downlink'[n] : \E j \in DOMAIN downlink[n] : downlink'[n][i] = downlink[n][j]
BY ReceivesFacts DEF LinkOwned

\* The answers that are written are for the one who asked.
LEMMA WritesOwned ==
  ASSUME TypeOK, NEW by, NEW user, NEW by2, NEW user2, Extends(by, user, by2, user2),
         NEW n \in Nodes, LinkOwned(by, user, n), DOMAIN given \subseteq DOMAIN given',
         \A i \in DOMAIN downlink'[n] : \E j \in DOMAIN downlink[n] : downlink'[n][i] = downlink[n][j],
         uplink'[n] = uplink[n], NEW frames, task'[n] = Writing(frames),
         \A i \in DOMAIN frames : frames[i].type = "ACK" =>
           user2[frames[i].preimage] = frames[i].from
             /\ ReplyOwned(by2, user2, frames[i].preimage, frames[i].response)
  PROVE  TaskOwned(by2, user2, n)' /\ LinkOwned(by2, user2, n)'
<1>1. task'[n].at = "write" /\ task'[n].frames = frames
  BY DEF Writing
<1>2. TaskOwned(by2, user2, n)'
  BY <1>1 DEF TaskOwned, At
<1>3. ASSUME NEW f \in Frames(n)', f.type = "ACK"
      PROVE  f \in Frames(n) \/ (user2[f.preimage] = f.from /\ ReplyOwned(by2, user2, f.preimage, f.response))
  BY <1>1, <1>3 DEF Frames, At
<1> QED
  BY <1>2, <1>3, LinkOwnedStays

LEMMA HandshakeOwned ==
  ASSUME TypeOK, fresh' \in {fresh, fresh + 1}, NEW n \in Nodes, AcceptHandshake(n),
         NEW by \in [Preimages -> Nodes], NEW user \in [Preimages -> Nodes], Owned(by, user)
  PROVE  OwnedInv'
<1>1. /\ TokensOwned(by, user) /\ LinkOwned(by, user, n) /\ PeersOwned(by, user, n) /\ StateOK(n) /\ WorldOK
      /\ fresh \notin Preimages /\ DOMAIN given \subseteq Preimages
  BY DEF Owned, TypeOK, WorldOK, Preimages
<1>2. PICK d, c, p : d = Head(downlink[n]) /\ c = d.from /\ p = d.preimage
  OBVIOUS
<1>3. PICK q : q = d.payload.preimage_for_peer
  OBVIOUS
<1>4. /\ At(n, "serving") /\ c \in Nodes \ {n} /\ p \in Preimages /\ q \in Preimages
      /\ d.payload.sender_id52 = c /\ d.payload.msg = "HANDSHAKE_INIT"
      /\ \A k \in Nodes \ {n} : downlink'[k] = downlink[k]
  BY <1>2, <1>3, ReceivesFacts, NodeAssumption DEF AcceptHandshake
<1>5. /\ \A i \in DOMAIN downlink'[n] : \E j \in DOMAIN downlink[n] : downlink'[n][i] = downlink[n][j]
      /\ user[p] = c /\ by[p] = n /\ user[q] = n /\ by[q] = c
  BY <1>1, <1>2, <1>3, <1>4, ReceivesOwned DEF AcceptHandshake, MessageOwned
<1>6. PICK frames :
        frames = <<Ack(c, p, HandshakeComplete(TRUE, fresh)), UpdateCommits({Sha256(fresh)})>>
  OBVIOUS
<1>7. /\ p \in DOMAIN invites[n] /\ invites'[n] = Drop(invites[n], p)
      /\ peers'[n] = Put(peers[n], c, [role |-> invites[n][p], issued_preimages |-> {fresh},
                                       their_preimage |-> q])
      /\ fresh' = fresh + 1 /\ task'[n] = Writing(frames)
      /\ UNCHANGED <<pending_peers, uplink, response_cache, given>>
      /\ \A k \in Nodes \ {n} : invites'[k] = invites[k] /\ peers'[k] = peers[k] /\ task'[k] = task[k]
  BY <1>2, <1>3, <1>4, <1>6 DEF AcceptHandshake, Goto, TypeOK, relayVars
<1>8. PICK by2 \in [Preimages' -> Nodes], user2 \in [Preimages' -> Nodes] :
        Extends(by, user, by2, user2) /\ DrawnFor(by2, user2, n, c)
  BY <1>4, ExtensionExists
<1>9. /\ by2[fresh] = n /\ user2[fresh] = c /\ by2[p] = n /\ user2[p] = c
      /\ by2[q] = c /\ user2[q] = n
  BY <1>4, <1>5, <1>7, <1>8 DEF DrawnFor, Extends
<1>10. PeersOwned(by2, user2, n)'
  <2>1. /\ DOMAIN peers'[n] = DOMAIN peers[n] \cup {c}
        /\ peers'[n][c].issued_preimages = {fresh} /\ peers'[n][c].their_preimage = q
        /\ \A k \in DOMAIN peers[n] \ {c} : peers'[n][k] = peers[n][k]
    BY <1>7 DEF Put
  <2>2. Issued(n)' \subseteq Issued(n) \cup {fresh}
    BY <2>1 DEF Issued
  <2>3. \A x \in DOMAIN invites'[n] : x \in DOMAIN given' /\ by2[x] = n
    BY <1>1, <1>7, <1>8 DEF Drop, Restrict, PeersOwned, StateOK, Extends
  <2>4. ASSUME NEW k \in DOMAIN peers'[n]
        PROVE  /\ user2[peers'[n][k].their_preimage] = n /\ by2[peers'[n][k].their_preimage] = k
               /\ \A x \in peers'[n][k].issued_preimages :
                    x \notin DOMAIN given' /\ by2[x] = n /\ user2[x] = k
    <3>1. CASE k = c
      <4>1. fresh \notin DOMAIN given'
        BY <1>1, <1>7
      <4>2. peers'[n][k].issued_preimages = {fresh} /\ peers'[n][k].their_preimage = q
        BY <2>1, <3>1
      <4> QED
        BY <1>9, <3>1, <4>1, <4>2
    <3>2. CASE k # c
      <4>1. k \in DOMAIN peers[n] /\ peers'[n][k] = peers[n][k]
        BY <2>1, <3>2
      <4>2. /\ peers[n][k].their_preimage \in Preimages /\ user[peers[n][k].their_preimage] = n /\ by[peers[n][k].their_preimage] = k
            /\ \A x \in peers[n][k].issued_preimages :
                 x \in Preimages /\ x \notin DOMAIN given /\ by[x] = n /\ user[x] = k
        BY <1>1, <4>1 DEF PeersOwned, StateOK
      <4> QED
        BY <1>7, <1>8, <4>1, <4>2 DEF Extends
    <3> QED
      BY <3>1, <3>2
  <2>5. ASSUME NEW k \in DOMAIN pending_peers'[n], NEW x, x = pending_peers'[n][k].my_preimage
        PROVE  x \notin DOMAIN given' \cup Issued(n)' /\ by2[x] = n /\ user2[x] = k
    <3>1. x \in Preimages /\ x \notin DOMAIN given \cup Issued(n) /\ by[x] = n /\ user[x] = k
      BY <1>1, <1>7, <2>5 DEF PeersOwned, StateOK
    <3> QED
      BY <1>1, <1>7, <1>8, <2>2, <3>1 DEF Extends
  <2> QED
    BY <2>3, <2>4, <2>5 DEF PeersOwned
<1>11. TaskOwned(by2, user2, n)' /\ LinkOwned(by2, user2, n)'
  <2>1. ASSUME NEW i \in DOMAIN frames, frames[i].type = "ACK"
        PROVE  user2[frames[i].preimage] = frames[i].from
                 /\ ReplyOwned(by2, user2, frames[i].preimage, frames[i].response)
    <3>1. frames[i] = Ack(c, p, HandshakeComplete(TRUE, fresh))
      <4>1. frames[2].type # "ACK"
        BY <1>6 DEF UpdateCommits
      <4>2. DOMAIN frames = {1, 2} /\ frames[1] = Ack(c, p, HandshakeComplete(TRUE, fresh))
        BY <1>6
      <4> QED
        BY <2>1, <4>1, <4>2
    <3>2. ReplyOwned(by2, user2, p, HandshakeComplete(TRUE, fresh))
      BY <1>9 DEF ReplyOwned, HandshakeComplete
    <3>3. frames[i].from = c /\ frames[i].preimage = p /\ frames[i].response = HandshakeComplete(TRUE, fresh)
      BY <3>1 DEF Ack
    <3> QED
      BY <1>9, <3>2, <3>3
  <2> QED
    BY <1>1, <1>5, <1>7, <1>8, <2>1, WritesOwned
<1>12. TokensOwned(by2, user2)'
  BY <1>1, <1>7, <1>8, TokensStay
<1> QED
  BY <1>4, <1>7, <1>8, <1>10, <1>11, <1>12, ServedOwned

\* A command is executed for the peer who sent it.
LEMMA ExecutedOwned ==
  ASSUME TypeOK, NEW by, NEW user, NEW by2, NEW user2, Extends(by, user, by2, user2), Owned(by, user),
         DOMAIN given \subseteq DOMAIN given', NEW n \in Nodes, NEW m, NEW ok, NEW cmds,
         IsCommand(n, m, cmds), Executed(n, m, ok), uplink'[n] = uplink[n]
  PROVE  TaskOwned(by2, user2, n)' /\ LinkOwned(by2, user2, n)'
<1>1. PICK d, c, p : d = Head(downlink[n]) /\ c = d.from /\ p = d.preimage
  OBVIOUS
<1>2. /\ Receives(n, "request") /\ m \in DOMAIN peers[n] /\ p \in peers[n][m].issued_preimages
      /\ task'[n] = [at |-> "renew", from |-> c, preimage |-> p, peer |-> m, ok |-> ok,
                     cmd |-> d.payload.cmd]
  BY <1>1 DEF IsCommand, LookupPreimage, Executed, Goto, TypeOK
<1>3. LinkOwned(by, user, n) /\ PeersOwned(by, user, n)
  BY DEF Owned
<1>4. /\ by[p] = n /\ user[p] = c /\ user[p] = m /\ p \in Preimages
      /\ \A i \in DOMAIN downlink'[n] : \E j \in DOMAIN downlink[n] : downlink'[n][i] = downlink[n][j]
  BY <1>1, <1>2, <1>3, ReceivesOwned, ReceivesFacts DEF MessageOwned, PeersOwned
<1>5. TaskOwned(by2, user2, n)'
  BY <1>2, <1>4 DEF TaskOwned, At, Extends
<1>6. Frames(n)' \subseteq Frames(n)
  BY <1>2 DEF Frames, At
<1> QED
  BY <1>3, <1>4, <1>5, <1>6, LinkOwnedStays

LEMMA RenewalOwned ==
  ASSUME TypeOK, fresh' \in {fresh, fresh + 1}, NEW n \in Nodes, RenewPreimage(n),
         NEW by \in [Preimages -> Nodes], NEW user \in [Preimages -> Nodes], Owned(by, user)
  PROVE  OwnedInv'
<1>1. /\ TokensOwned(by, user) /\ LinkOwned(by, user, n) /\ PeersOwned(by, user, n) /\ TaskOwned(by, user, n)
      /\ StateOK(n) /\ WorldOK /\ fresh \notin Preimages /\ DOMAIN given \subseteq Preimages
  BY DEF Owned, TypeOK, WorldOK, Preimages
<1>2. PICK t, c, p : t = task[n] /\ c = t.from /\ p = t.preimage
  OBVIOUS
<1>3. /\ At(n, "renew") /\ c \in Nodes /\ p \in Preimages /\ user[p] = c /\ by[p] = n
      /\ t.peer = c /\ c \in DOMAIN peers[n]
  BY <1>1, <1>2, TaskFacts, NodeAssumption DEF RenewPreimage, TaskOwned
<1>4. PICK issued : issued = (peers[n][c].issued_preimages \ {p}) \cup {fresh}
  OBVIOUS
<1>5. PICK frames :
        frames = <<UpdateCommits({Sha256(fresh)}), Ack(c, p, Response(t.ok, t.cmd, fresh))>>
  OBVIOUS
<1>6. /\ peers'[n] = Put(peers[n], c, [role |-> peers[n][c].role, issued_preimages |-> issued,
                                       their_preimage |-> peers[n][c].their_preimage])
      /\ fresh' = fresh + 1 /\ task'[n] = Writing(frames)
      /\ UNCHANGED <<invites, pending_peers, uplink, downlink, response_cache, given>>
      /\ \A k \in Nodes \ {n} : peers'[k] = peers[k] /\ task'[k] = task[k]
  BY <1>2, <1>3, <1>4, <1>5 DEF RenewPreimage, Renewed, RenewalAck, Goto, TypeOK, linkVars, relayVars
<1>7. PICK by2 \in [Preimages' -> Nodes], user2 \in [Preimages' -> Nodes] :
        Extends(by, user, by2, user2) /\ DrawnFor(by2, user2, n, c)
  BY <1>3, ExtensionExists
<1>8. by2[fresh] = n /\ user2[fresh] = c /\ by2[p] = n /\ user2[p] = c
  BY <1>3, <1>6, <1>7 DEF DrawnFor, Extends
<1>9. PeersOwned(by2, user2, n)'
  <2>1. /\ DOMAIN peers'[n] = DOMAIN peers[n]
        /\ \A k \in DOMAIN peers[n] :
             /\ peers'[n][k].their_preimage = peers[n][k].their_preimage
             /\ peers'[n][k].issued_preimages \subseteq peers[n][k].issued_preimages \cup
                                                        (IF k = c THEN {fresh} ELSE {})
    BY <1>3, <1>4, <1>6 DEF Put
  <2>2. Issued(n)' \subseteq Issued(n) \cup {fresh}
    BY <2>1 DEF Issued
  <2>3. \A x \in DOMAIN invites'[n] : x \in DOMAIN given' /\ by2[x] = n
    BY <1>1, <1>6, <1>7 DEF PeersOwned, StateOK, Extends
  <2>4. ASSUME NEW k \in DOMAIN peers'[n]
        PROVE  /\ user2[peers'[n][k].their_preimage] = n /\ by2[peers'[n][k].their_preimage] = k
               /\ \A x \in peers'[n][k].issued_preimages :
                    x \notin DOMAIN given' /\ by2[x] = n /\ user2[x] = k
    <3>1. /\ peers[n][k].their_preimage \in Preimages /\ user[peers[n][k].their_preimage] = n /\ by[peers[n][k].their_preimage] = k
          /\ \A x \in peers[n][k].issued_preimages :
               x \in Preimages /\ x \notin DOMAIN given /\ by[x] = n /\ user[x] = k
      BY <1>1, <2>1 DEF PeersOwned, StateOK
    <3>2. fresh \notin DOMAIN given'
      BY <1>1, <1>6
    <3> QED
      BY <1>6, <1>7, <1>8, <2>1, <3>1, <3>2 DEF Extends
  <2>5. ASSUME NEW k \in DOMAIN pending_peers'[n], NEW x, x = pending_peers'[n][k].my_preimage
        PROVE  x \notin DOMAIN given' \cup Issued(n)' /\ by2[x] = n /\ user2[x] = k
    <3>1. x \in Preimages /\ x \notin DOMAIN given \cup Issued(n) /\ by[x] = n /\ user[x] = k
      BY <1>1, <1>6, <2>5 DEF PeersOwned, StateOK
    <3> QED
      BY <1>1, <1>6, <1>7, <2>2, <3>1 DEF Extends
  <2> QED
    BY <2>3, <2>4, <2>5 DEF PeersOwned
<1>10. TaskOwned(by2, user2, n)' /\ LinkOwned(by2, user2, n)'
  <2>1. ASSUME NEW i \in DOMAIN frames, frames[i].type = "ACK"
        PROVE  user2[frames[i].preimage] = frames[i].from
                 /\ ReplyOwned(by2, user2, frames[i].preimage, frames[i].response)
    <3>1. frames[i] = Ack(c, p, Response(t.ok, t.cmd, fresh))
      <4>1. frames[1].type # "ACK"
        BY <1>5 DEF UpdateCommits
      <4>2. DOMAIN frames = {1, 2} /\ frames[2] = Ack(c, p, Response(t.ok, t.cmd, fresh))
        BY <1>5
      <4> QED
        BY <2>1, <4>1, <4>2
    <3>2. ReplyOwned(by2, user2, p, Response(t.ok, t.cmd, fresh))
      BY <1>8 DEF ReplyOwned, Response
    <3>3. frames[i].from = c /\ frames[i].preimage = p /\ frames[i].response = Response(t.ok, t.cmd, fresh)
      BY <3>1 DEF Ack
    <3> QED
      BY <1>8, <3>2, <3>3
  <2>2. \A i \in DOMAIN downlink'[n] : \E j \in DOMAIN downlink[n] : downlink'[n][i] = downlink[n][j]
    BY <1>6
  <2> QED
    BY <1>1, <1>6, <1>7, <2>1, <2>2, WritesOwned
<1>11. TokensOwned(by2, user2)'
  BY <1>1, <1>6, <1>7, TokensStay
<1> QED
  BY <1>6, <1>7, <1>9, <1>10, <1>11, ServedOwned

LEMMA CommandOwned ==
  ASSUME TypeOK, fresh' \in {fresh, fresh + 1}, NEW n \in Nodes, NEW m, NEW ok, NEW cmds,
         IsCommand(n, m, cmds), Executed(n, m, ok),
         UNCHANGED <<pending_peers, peers, uplink, response_cache>>,
         NEW role, NEW holder \in Nodes,
         \/ NewInvite(n, role, holder)
         \/ /\ fresh' = fresh /\ given' = given /\ DOMAIN invites'[n] \subseteq DOMAIN invites[n]
            /\ \A k \in Nodes \ {n} : invites'[k] = invites[k],
         NEW by \in [Preimages -> Nodes], NEW user \in [Preimages -> Nodes], Owned(by, user)
  PROVE  OwnedInv'
<1>1. PICK by2 \in [Preimages' -> Nodes], user2 \in [Preimages' -> Nodes] :
        Extends(by, user, by2, user2) /\ DrawnFor(by2, user2, n, holder)
  BY ExtensionExists
<1>2. /\ TokensOwned(by, user) /\ PeersOwned(by, user, n) /\ StateOK(n) /\ WorldOK /\ fresh \notin Preimages
  BY DEF Owned, TypeOK, WorldOK, Preimages
<1>3. /\ TokensOwned(by2, user2)' /\ PeersOwned(by2, user2, n)'
      /\ DOMAIN given \subseteq DOMAIN given' /\ DOMAIN given' \subseteq DOMAIN given \cup {fresh}
      /\ \A k \in Nodes \ {n} : invites'[k] = invites[k]
  <2>1. CASE NewInvite(n, role, holder)
    <3>1. by2[fresh] = n /\ user2[fresh] = holder
      BY <1>1, <2>1 DEF DrawnFor, NewInvite
    <3>2. \A k \in Nodes \ {n} : invites'[k] = invites[k]
      BY <2>1 DEF NewInvite, TypeOK
    <3> QED
      BY <1>1, <2>1, <3>1, <3>2, NewInviteOwned
  <2>2. CASE /\ fresh' = fresh /\ given' = given /\ DOMAIN invites'[n] \subseteq DOMAIN invites[n]
             /\ \A k \in Nodes \ {n} : invites'[k] = invites[k]
    BY <1>1, <1>2, <2>2, TokensStay, PeersStay
  <2> QED
    BY <2>1, <2>2
<1>4. \A k \in Nodes \ {n} : task'[k] = task[k] /\ downlink'[k] = downlink[k]
  BY DEF IsCommand, Receives, Executed, Goto, TypeOK
<1>5. TaskOwned(by2, user2, n)' /\ LinkOwned(by2, user2, n)'
  BY <1>1, <1>3, ExecutedOwned
<1> QED
  BY <1>1, <1>3, <1>4, <1>5, ServedOwned

LEMMA ServeOwned ==
  ASSUME TypeOK, fresh' \in {fresh, fresh + 1}, NEW n \in Nodes, ServeStep(n),
         NEW by \in [Preimages -> Nodes], NEW user \in [Preimages -> Nodes], Owned(by, user)
  PROVE  OwnedInv'
<1>1. /\ TokensOwned(by, user) /\ CacheOwned(by, user) /\ RelayOK /\ LinkOwned(by, user, n)
      /\ PeersOwned(by, user, n) /\ StateOK(n) /\ fresh \notin Preimages
  BY DEF Owned, TypeOK, WorldOK, Preimages
<1>2. Extends(by, user, by, user)
  BY DEF Extends
<1>3. CASE RejectHandshake(n) \/ Unauthorized(n)
  <2>1. PICK d, c, p : d = Head(downlink[n]) /\ c = d.from /\ p = d.preimage
    OBVIOUS
  <2>2. PICK msg \in {"HANDSHAKE_INIT", "request"} : Receives(n, msg)
    BY <1>3 DEF RejectHandshake, Unauthorized
  <2>3. PICK r, frames :
          /\ frames = <<Ack(c, p, r)>> /\ task' = [task EXCEPT ![n] = Writing(frames)]
          /\ r \in {HandshakeComplete(FALSE, None), Response(FALSE, d.payload.cmd, None)}
    BY <1>3, <2>1 DEF RejectHandshake, Unauthorized, Goto
  <2>4. /\ UNCHANGED <<invites, pending_peers, peers, uplink, response_cache, given, fresh>>
        /\ task'[n] = Writing(frames)
        /\ \A k \in Nodes \ {n} : task'[k] = task[k] /\ downlink'[k] = downlink[k]
    BY <1>3, <2>2, <2>3 DEF RejectHandshake, Unauthorized, Receives, TypeOK, stateVars, relayVars, worldVars
  <2>5. /\ user[p] = c
        /\ \A i \in DOMAIN downlink'[n] : \E j \in DOMAIN downlink[n] : downlink'[n][i] = downlink[n][j]
    BY <1>1, <2>1, <2>2, ReceivesOwned DEF MessageOwned
  <2>6. ReplyOwned(by, user, p, r)
    BY <2>3 DEF ReplyOwned, HandshakeComplete, Response
  <2>7. DOMAIN frames = {1} /\ frames[1] = Ack(c, p, r)
    BY <2>3
  <2>8. \A i \in DOMAIN frames :
          user[frames[i].preimage] = frames[i].from /\ ReplyOwned(by, user, frames[i].preimage, frames[i].response)
    BY <2>5, <2>6, <2>7 DEF Ack
  <2>9. TaskOwned(by, user, n)' /\ LinkOwned(by, user, n)'
    BY <1>1, <1>2, <2>4, <2>5, <2>8, WritesOwned
  <2>10. /\ PeersOwned(by, user, n)' /\ TokensOwned(by, user)'
         /\ by \in [Preimages' -> Nodes] /\ user \in [Preimages' -> Nodes]
    BY <1>1, <1>2, <2>4, PeersStay DEF TokensOwned, Preimages
  <2> QED
    BY <1>2, <2>4, <2>9, <2>10, ServedOwned
<1>4. CASE \E m \in Nodes : RunHandler(n, m) \/ RefuseCommand(n, m)
  <2>1. PICK m, ok, cmds :
          /\ IsCommand(n, m, cmds) /\ Executed(n, m, ok)
          /\ UNCHANGED <<stateVars, uplink, relayVars, fresh, given>>
    BY <1>4 DEF RunHandler, RefuseCommand
  <2> QED
    BY <2>1, CommandOwned DEF stateVars, relayVars
<1>5. CASE \E m, holder \in Nodes, role \in Roles : InviteCreate(n, m, role, holder)
  <2>1. PICK m \in Nodes, holder \in Nodes, role \in Roles : InviteCreate(n, m, role, holder)
    BY <1>5
  <2>2. /\ IsCommand(n, m, {"invite/create"}) /\ Executed(n, m, TRUE) /\ NewInvite(n, role, holder)
        /\ UNCHANGED <<pending_peers, peers, uplink, response_cache>>
    BY <2>1 DEF InviteCreate, relayVars
  <2> QED
    BY <2>2, CommandOwned
<1>6. CASE \E m \in Nodes, p \in DOMAIN invites[n] : InviteDelete(n, m, p)
  <2>1. PICK m \in Nodes, p \in DOMAIN invites[n] : InviteDelete(n, m, p)
    BY <1>6
  <2>2. /\ IsCommand(n, m, {"invite/delete"}) /\ Executed(n, m, TRUE)
        /\ UNCHANGED <<pending_peers, peers, uplink, response_cache, fresh, given>>
        /\ DOMAIN invites'[n] \subseteq DOMAIN invites[n]
        /\ \A k \in Nodes \ {n} : invites'[k] = invites[k]
    BY <2>1 DEF InviteDelete, relayVars, Drop, Restrict, TypeOK
  <2> QED
    BY <2>2, CommandOwned
<1>7. CASE WriteFrame(n) \/ RunEnds(n)
  <2>1. /\ UNCHANGED <<invites, pending_peers, peers, downlink, response_cache, given, fresh>>
        /\ \A k \in Nodes \ {n} : task'[k] = task[k] /\ uplink'[k] = uplink[k]
    <3>1. DOMAIN task = Nodes /\ DOMAIN uplink = Nodes
      BY DEF TypeOK
    <3>2. CASE WriteFrame(n)
      BY <3>1, <3>2 DEF WriteFrame, Goto, stateVars, relayVars, worldVars
    <3>3. CASE RunEnds(n)
      BY <3>1, <3>3 DEF RunEnds, Goto, stateVars, linkVars, relayVars, worldVars
    <3> QED
      BY <1>7, <3>2, <3>3
  <2>2. TaskOwned(by, user, n)' /\ Frames(n)' \subseteq Frames(n)
    <3>1. CASE RunEnds(n)
      BY <3>1 DEF RunEnds, Goto, TypeOK, TaskOwned, At, Idle, Frames, linkVars
    <3>2. CASE WriteFrame(n)
      <4>1. PICK frames : frames = task[n].frames
        OBVIOUS
      <4>2. /\ frames \in Seq(Frame) /\ Len(frames) \in {1, 2} /\ uplink[n] \in Seq(Frame)
            /\ uplink'[n] = Append(uplink[n], Head(frames)) /\ At(n, "write")
            /\ task'[n] = IF Len(frames) = 1 THEN Serving ELSE Writing(Tail(frames))
        BY <3>2, <4>1, TaskFacts DEF WriteFrame, Goto, TypeOK, LinkOK
      <4>3. frames # <<>>
        <5>1. Len(<< >>) = 0 /\ 0 \notin {1, 2}
          BY EmptySeq
        <5> QED
          BY <4>2, <5>1, Zenon
      <4>4. /\ Head(frames) = frames[1] /\ 1 \in DOMAIN frames
            /\ \A i \in DOMAIN Tail(frames) : i + 1 \in DOMAIN frames /\ Tail(frames)[i] = frames[i + 1]
        BY <4>2, <4>3, TailTypes
      <4>5. \A i \in DOMAIN uplink'[n] : uplink'[n][i] \in Frames(n)
        <5>1. \A i \in DOMAIN uplink'[n] :
                uplink'[n][i] = frames[1] \/ (i \in DOMAIN uplink[n] /\ uplink'[n][i] = uplink[n][i])
          BY <4>2, <4>4
        <5> QED
          BY <4>1, <4>2, <4>4, <5>1 DEF Frames
      <4>6. task'[n] = Serving \/ (task'[n].at = "write" /\ task'[n].frames = Tail(frames))
        BY <4>2 DEF Writing
      <4>7. TaskOwned(by, user, n)'
        BY <4>6 DEF TaskOwned, At, Serving
      <4>8. ASSUME NEW f \in Frames(n)'
            PROVE  f \in Frames(n)
        <5>1. CASE \E i \in DOMAIN uplink'[n] : f = uplink'[n][i]
          BY <4>5, <5>1
        <5>2. CASE task'[n].at = "write" /\ \E i \in DOMAIN Tail(frames) : f = Tail(frames)[i]
          <6>1. PICK i \in DOMAIN Tail(frames) : f = Tail(frames)[i]
            BY <5>2
          <6>2. i + 1 \in DOMAIN task[n].frames /\ f = task[n].frames[i + 1]
            BY <4>1, <4>4, <6>1
          <6> QED
            BY <4>2, <6>2 DEF Frames
        <5>3. \/ \E i \in DOMAIN uplink'[n] : f = uplink'[n][i]
              \/ task'[n].at = "write" /\ \E i \in DOMAIN task'[n].frames : f = task'[n].frames[i]
          BY <4>8 DEF Frames, At
        <5>4. Serving.at # "write"
          BY DEF Serving
        <5>5. CASE task'[n] = Serving
          BY <5>1, <5>3, <5>4, <5>5
        <5>6. CASE task'[n].at = "write" /\ task'[n].frames = Tail(frames)
          <6>1. (\E i \in DOMAIN task'[n].frames : f = task'[n].frames[i]) =>
                  \E i \in DOMAIN Tail(frames) : f = Tail(frames)[i]
            BY <5>6, Zenon
          <6> QED
            BY <5>1, <5>2, <5>3, <5>6, <6>1
        <5> QED
          BY <4>6, <5>5, <5>6
      <4> QED
        BY <4>7, <4>8
    <3> QED
      BY <1>7, <3>1, <3>2
  <2>3. LinkOwned(by, user, n)'
    BY <1>1, <1>2, <2>1, <2>2, LinkOwnedStays
  <2>4. /\ PeersOwned(by, user, n)' /\ TokensOwned(by, user)'
        /\ by \in [Preimages' -> Nodes] /\ user \in [Preimages' -> Nodes]
    BY <1>1, <1>2, <2>1, PeersStay DEF TokensOwned, Preimages
  <2> QED
    BY <1>2, <2>1, <2>2, <2>3, <2>4, ServedOwned
<1> QED
  BY <1>3, <1>4, <1>5, <1>6, <1>7, HandshakeOwned, RenewalOwned DEF ServeStep

LEMMA FaultOwned ==
  ASSUME TypeOK, FaultStep,
         NEW by \in [Preimages -> Nodes], NEW user \in [Preimages -> Nodes], Owned(by, user)
  PROVE  OwnedInv'
<1>1. /\ TokensOwned(by, user) /\ CacheOwned(by, user) /\ RelayOK /\ fresh \notin Preimages
      /\ \A k \in Nodes : /\ PeersOwned(by, user, k) /\ TaskOwned(by, user, k) /\ LinkOwned(by, user, k)
                          /\ StateOK(k)
  BY DEF Owned, TypeOK, WorldOK, Preimages
<1>2. Extends(by, user, by, user)
  BY DEF Extends
<1>3. UNCHANGED <<invites, pending_peers, peers, given, fresh>>
  BY DEF FaultStep, Disconnect, Crash, RelayRestart, Expire, stateVars, worldVars
<1>4. /\ DOMAIN response_cache' \subseteq DOMAIN response_cache
      /\ \A p \in DOMAIN response_cache' : response_cache'[p] = response_cache[p]
  <2>1. \/ response_cache' = response_cache \/ response_cache' = EmptyMap
        \/ \E p \in DOMAIN response_cache : response_cache' = Drop(response_cache, p)
    BY DEF FaultStep, Disconnect, Crash, RelayRestart, Expire
  <2>2. DOMAIN EmptyMap = {}
    BY DEF EmptyMap
  <2> QED
    BY <2>1, <2>2 DEF Drop, Restrict
<1>5. ASSUME NEW k \in Nodes
      PROVE  /\ uplink'[k] = uplink[k] \/ uplink'[k] = <<>>
             /\ downlink'[k] = downlink[k] \/ downlink'[k] = <<>>
  BY DEF FaultStep, Disconnect, Crash, RelayRestart, Expire, Unlink, linkVars
<1>6. ASSUME NEW k \in Nodes
      PROVE  task'[k] = task[k] \/ task'[k] = Idle
  BY DEF FaultStep, Disconnect, Crash, RelayRestart, Expire, Goto, TypeOK
<1>7. ASSUME NEW k \in Nodes
      PROVE  PeersOwned(by, user, k)' /\ TaskOwned(by, user, k)' /\ LinkOwned(by, user, k)'
  <2>1. PeersOwned(by, user, k)'
    BY <1>1, <1>2, <1>3, PeersStay
  <2>2. TaskOwned(by, user, k)'
    <3>1. CASE task'[k] = Idle
      BY <3>1 DEF TaskOwned, At, Idle
    <3> QED
      BY <1>1, <1>2, <1>3, <1>6, <3>1, TaskOwnedStays
  <2>3. LinkOwned(by, user, k)'
    <3>1. task'[k] = task[k] \/ task'[k].at # "write"
      BY <1>6 DEF Idle
    <3> QED
      BY <1>1, <1>2, <1>3, <1>5, <3>1, LinkOwnedStays, SameMessages
  <2> QED
    BY <2>1, <2>2, <2>3
<1>8. CacheOwned(by, user)'
  BY <1>1, <1>2, <1>4, CacheStays
<1> QED
  BY <1>1, <1>3, <1>7, <1>8, QuietOwned

LEMMA OwnedInit == Init => OwnedInv
<1> SUFFICES ASSUME Init
             PROVE  OwnedInv
  OBVIOUS
<1>1. PICK by : by = [p \in Preimages |-> CHOOSE n \in Nodes : TRUE]
  OBVIOUS
<1>2. Preimages = {}
  BY DEF Init, Preimages
<1>3. by \in [Preimages -> Nodes]
  BY <1>1, <1>2
<1>4. \A n \in Nodes : PeersOwned(by, by, n) /\ TaskOwned(by, by, n) /\ LinkOwned(by, by, n)
  BY DEF Init, EmptyMap, PeersOwned, TaskOwned, LinkOwned, Idle, At, Frames
<1>5. TokensOwned(by, by) /\ CacheOwned(by, by)
  BY DEF Init, EmptyMap, TokensOwned, CacheOwned
<1> QED
  BY <1>3, <1>4, <1>5 DEF OwnedInv, Owned

LEMMA OwnedStep == TypeOK /\ OwnedInv /\ [Next]_vars => OwnedInv'
<1> SUFFICES ASSUME TypeOK, OwnedInv, [Next]_vars
             PROVE  OwnedInv'
  OBVIOUS
<1>1. fresh' \in {fresh, fresh + 1}
  BY DrawsOne
<1>2. PICK by \in [Preimages -> Nodes], user \in [Preimages -> Nodes] : Owned(by, user)
  BY DEF OwnedInv
<1>3. CASE \E n \in Nodes : UserStep(n)
  BY <1>1, <1>2, <1>3, TypeStep, UserOwned
<1>4. CASE \E n \in Nodes : CallStep(n) \/ Fail(n)
  BY <1>2, <1>4, CallOwned
<1>5. CASE \E n \in Nodes : RelayStep(n)
  BY <1>2, <1>5, RelayStepOwned
<1>6. CASE \E n \in Nodes : ServeStep(n)
  BY <1>1, <1>2, <1>6, ServeOwned
<1>7. CASE FaultStep
  BY <1>2, <1>7, FaultOwned
<1>8. CASE UNCHANGED vars
  <2>1. Owned(by, user)' /\ Preimages' = Preimages
    BY <1>2, <1>8 DEF vars, stateVars, linkVars, relayVars, worldVars, Owned, TokensOwned, CacheOwned,
         PeersOwned, TaskOwned, LinkOwned, MessageOwned, Issued, Frames, At, Preimages
  <2> QED
    BY <1>2, <2>1 DEF OwnedInv
<1> QED
  BY <1>3, <1>4, <1>5, <1>6, <1>7, <1>8 DEF Next

\* Every preimage has one node that issued it and one that may use it.
LEMMA NodeOwnership == Spec => []OwnedInv
<1> QED
  BY NodeTypes, OwnedInit, OwnedStep, PTL DEF Spec

\* A command is executed in the name of the peer that sent it.
THEOREM NodeAttributes == Spec => []CommandsAttributed
<1>1. OwnedInv => CommandsAttributed
  BY DEF OwnedInv, Owned, TaskOwned, CommandsAttributed
<1> QED
  BY <1>1, NodeOwnership, PTL

(***************************************************************************)
(* What was issued can still arrive                                        *)
(***************************************************************************)

\* ReachableInv, of one node.
ReachableAt(n) ==
  /\ n \in linked => /\ task[n].at \in {"serving", "renew", "write"}
                     /\ \A p \in Issued(n) : Underway(n, p)
  /\ \A i \in DOMAIN uplink[n] :
       uplink[n][i].type = "I_AM" => i = 1 /\ n \notin DOMAIN commits
  /\ At(n, "write") => \A i \in DOMAIN task[n].frames : task[n].frames[i].type # "I_AM"

LEMMA ReachableParts ==
  ASSUME linked \subseteq Nodes
  PROVE  ReachableInv <=> \A n \in Nodes : ReachableAt(n)
BY DEF ReachableInv, ReachableAt, IssuedReachable, At

\* A node without a connection promises nothing.
LEMMA ReachableUnlinked ==
  ASSUME TypeOK', NEW n \in Nodes, n \notin linked', ReachableAt(n),
         task'[n] = task[n] \/ task'[n].at # "write"
  PROVE  ReachableAt(n)'
<1>1. uplink'[n] = <<>> /\ DOMAIN << >> = {}
  BY DEF TypeOK, LinkOK
<1> QED
  BY <1>1 DEF ReachableAt, At

LEMMA ReachableStays ==
  ASSUME NEW n \in Nodes, ReachableAt(n), n \in linked' => n \in linked,
         peers'[n] = peers[n], task'[n] = task[n], uplink'[n] = uplink[n], downlink'[n] = downlink[n],
         n \in DOMAIN commits' <=> n \in DOMAIN commits, n \in DOMAIN commits => commits'[n] = commits[n]
  PROVE  ReachableAt(n)'
<1>1. Issued(n)' = Issued(n) /\ Frames(n)' = Frames(n)
  BY DEF Issued, Frames, At
<1>2. \A p : Underway(n, p) => Underway(n, p)'
  BY <1>1 DEF Underway, At
<1> QED
  BY <1>1, <1>2 DEF ReachableAt, At

\* The elements that a tail keeps.
LEMMA TailKeeps ==
  ASSUME NEW S, NEW s \in Seq(S), s # <<>>, NEW i \in DOMAIN s
  PROVE  i = 1 \/ (i - 1 \in DOMAIN Tail(s) /\ Tail(s)[i - 1] = s[i])
<1>1. Tail(s) \in Seq(S) /\ Len(Tail(s)) = Len(s) - 1 /\ Len(s) \in Nat \ {0} /\ i \in 1 .. Len(s)
  OBVIOUS
<1> QED
  BY <1>1

LEMMA UserReachable ==
  ASSUME TypeOK, TypeOK', NEW n \in Nodes, UserStep(n), \A k \in Nodes : ReachableAt(k)
  PROVE  \A k \in Nodes : ReachableAt(k)'
<1>1. /\ At(n, "idle") /\ UNCHANGED commits
      /\ \A k \in Nodes \ {n} :
           /\ peers'[k] = peers[k] /\ task'[k] = task[k]
           /\ uplink'[k] = uplink[k] /\ downlink'[k] = downlink[k]
           /\ k \in linked' => k \in linked
  <2>1. CASE \E role \in Roles, m \in Nodes : CreateInvite(n, role, m)
    BY <2>1 DEF CreateInvite, linkVars, relayVars
  <2>2. CASE \E p \in DOMAIN given : Pair(n, p)
    BY <2>2 DEF Pair, Goto, TypeOK, linkVars, relayVars
  <2>3. CASE \E m \in Nodes, cmd \in Commands \cup BuiltIns : Send(n, m, cmd)
    BY <2>3 DEF Send, Goto, TypeOK, linkVars, relayVars, stateVars
  <2>4. CASE Run(n)
    BY <2>4 DEF Run, Goto, TypeOK, relayVars, stateVars
  <2> QED
    BY <2>1, <2>2, <2>3, <2>4 DEF UserStep
<1>2. n \notin linked
  BY <1>1 DEF ReachableAt, At
<1>3. ReachableAt(n)'
  <2>1. CASE Run(n)
    <3>1. /\ uplink'[n] = <<IAm(AllCommits(n))>> /\ task'[n] = Serving /\ peers' = peers
      BY <2>1 DEF Run, Goto, TypeOK, stateVars
    <3>2. n \notin DOMAIN commits'
      BY <1>1, <1>2 DEF TypeOK, RelayOK
    <3>3. \A p \in Issued(n)' : Sha256(p) \in AllCommits(n)
      BY <3>1 DEF Issued, AllCommits
    <3>4. DOMAIN uplink'[n] = {1} /\ uplink'[n][1] = IAm(AllCommits(n))
      BY <3>1
    <3>5. IAm(AllCommits(n)) \in Frames(n)'
      BY <3>4 DEF Frames
    <3>6. IAm(AllCommits(n)).type # "ACK" /\ IAm(AllCommits(n)).commits = AllCommits(n)
      BY DEF IAm
    <3>7. \A p \in Issued(n)' : Underway(n, p)'
      BY <3>3, <3>5, <3>6 DEF Underway
    <3> QED
      BY <3>1, <3>2, <3>4, <3>7 DEF ReachableAt, Serving, At
  <2>2. CASE ~ Run(n)
    <3>1. UNCHANGED linked /\ task'[n].at \in {"idle", "sent"}
      <4>1. CASE \E role \in Roles, m \in Nodes : CreateInvite(n, role, m)
        BY <1>1, <4>1 DEF CreateInvite, linkVars, At
      <4>2. CASE \E p \in DOMAIN given : Pair(n, p)
        BY <4>2 DEF Pair, Goto, Call, TypeOK, linkVars
      <4>3. CASE \E m \in Nodes, cmd \in Commands \cup BuiltIns : Send(n, m, cmd)
        BY <4>3 DEF Send, Goto, Call, TypeOK, linkVars
      <4> QED
        BY <2>2, <4>1, <4>2, <4>3 DEF UserStep
    <3> QED
      BY <1>2, <3>1, ReachableUnlinked
  <2> QED
    BY <2>1, <2>2
<1> QED
  BY <1>1, <1>3, ReachableStays

LEMMA CallReachable ==
  ASSUME TypeOK, TypeOK', NEW n \in Nodes, CallStep(n) \/ Fail(n), \A k \in Nodes : ReachableAt(k)
  PROVE  \A k \in Nodes : ReachableAt(k)'
<1>1. task[n].at \in {"sent", "routed", "answered"} /\ UNCHANGED <<linked, uplink>>
      /\ \A k \in Nodes \ {n} : peers'[k] = peers[k] /\ task'[k] = task[k]
  <2>1. task[n].at \in {"sent", "routed", "answered"} /\ UNCHANGED <<linked, uplink>>
    BY DEF CallStep, CachedResponse, Refused, RouteMessage, HandshakeAccepted, HandshakeRejected,
         CommandAnswered, Fail, At, linkVars
  <2>2. \A k \in Nodes \ {n} : peers'[k] = peers[k]
    BY DEF CallStep, CachedResponse, Refused, RouteMessage, HandshakeAccepted, HandshakeRejected,
         CommandAnswered, Fail, TypeOK, stateVars
  <2>3. \A k \in Nodes \ {n} : task'[k] = task[k]
    <3>1. \E t : task' = [task EXCEPT ![n] = t]
      BY DEF CallStep, CachedResponse, Refused, RouteMessage, HandshakeAccepted, HandshakeRejected,
           CommandAnswered, Fail, Goto
    <3> QED
      BY <3>1 DEF TypeOK
  <2> QED
    BY <2>1, <2>2, <2>3
<1>2. n \notin linked' /\ n \notin linked
  BY <1>1 DEF ReachableAt
<1>3. task'[n].at # "write"
  <2>1. task[n] \in CallTask(n)
    BY <1>1, TaskFacts
  <2>2. PICK t : t = task[n]
    OBVIOUS
  <2>3. Idle.at # "write" /\ Routed(t).at # "write" /\ \A r : Answered(t, r).at # "write"
    BY <2>1, <2>2 DEF Idle, Routed, Answered, CallTask
  <2>4. task'[n] = Idle \/ task'[n] = Routed(t) \/ \E r : task'[n] = Answered(t, r)
    BY <2>2 DEF CallStep, CachedResponse, Refused, RouteMessage, HandshakeAccepted, HandshakeRejected,
         CommandAnswered, Fail, Goto, TypeOK
  <2> QED
    BY <2>3, <2>4
<1>4. ReachableAt(n)'
  BY <1>2, <1>3, ReachableUnlinked
<1>5. CASE RouteMessage(n)
  <2>1. PICK m, p, d :
          m = task[n].to /\ p = task[n].preimage
            /\ d = [from |-> n, preimage |-> p, payload |-> task[n].payload]
    OBVIOUS
  <2>2. /\ commits' = [commits EXCEPT ![m] = commits[m] \ {Sha256(p)}]
        /\ downlink' = [downlink EXCEPT ![m] = Append(downlink[m], d)]
        /\ m \in DOMAIN commits /\ m \in Nodes \ {n}
    BY <1>1, <1>5, <2>1, TaskFacts DEF RouteMessage, CallTask
  <2>3. /\ DOMAIN commits' = DOMAIN commits /\ commits'[m] = commits[m] \ {Sha256(p)}
        /\ downlink'[m] = Append(downlink[m], d) /\ downlink[m] \in Seq(Delivery)
        /\ \A k \in Nodes \ {m} : downlink'[k] = downlink[k]
                                  /\ (k \in DOMAIN commits => commits'[k] = commits[k])
    <3>1. DOMAIN downlink = Nodes /\ downlink[m] \in Seq(Delivery)
      <4>1. DOMAIN downlink = Nodes /\ LinkOK(m)
        BY <2>2 DEF TypeOK
      <4> QED
        BY <4>1 DEF LinkOK
    <3>2. DOMAIN commits' = DOMAIN commits /\ commits'[m] = commits[m] \ {Sha256(p)}
          /\ \A k \in DOMAIN commits \ {m} : commits'[k] = commits[k]
      BY <2>2
    <3> QED
      BY <2>2, <3>1, <3>2
  <2>4. ASSUME NEW q, Underway(m, q)
        PROVE  Underway(m, q)'
    <3>1. Frames(m)' = Frames(m) /\ (At(m, "renew") <=> At(m, "renew")') /\ task'[m] = task[m]
      BY <1>1, <2>2 DEF Frames, At
    <3>2. CASE Sha256(q) = Sha256(p)
      <4>1. q = p
        BY <3>2 DEF Sha256
      <4>2. Len(downlink[m]) + 1 \in DOMAIN downlink'[m] /\ downlink'[m][Len(downlink[m]) + 1] = d
        BY <2>3
      <4> QED
        BY <2>1, <4>1, <4>2 DEF Underway
    <3>3. CASE Sha256(q) # Sha256(p)
      <4>1. \A i \in DOMAIN downlink[m] : i \in DOMAIN downlink'[m] /\ downlink'[m][i] = downlink[m][i]
        BY <2>3
      <4>2. m \in DOMAIN commits /\ Sha256(q) \in commits[m] =>
              m \in DOMAIN commits' /\ Sha256(q) \in commits'[m]
        BY <2>3, <3>3
      <4> QED
        BY <2>4, <3>1, <4>1, <4>2 DEF Underway
    <3> QED
      BY <3>2, <3>3
  <2>5. ReachableAt(m)'
    <3>1. Issued(m)' = Issued(m) /\ task'[m] = task[m]
      BY <1>1, <2>2 DEF Issued
    <3> QED
      BY <1>1, <2>2, <2>3, <2>4, <3>1 DEF ReachableAt, At
  <2>6. ASSUME NEW k \in Nodes \ {n, m}
        PROVE  ReachableAt(k)'
    BY <1>1, <2>3, ReachableStays
  <2> QED
    BY <1>4, <2>5, <2>6
<1>6. CASE ~ RouteMessage(n)
  <2>1. UNCHANGED <<commits, downlink>>
    BY <1>6 DEF CallStep, CachedResponse, Refused, HandshakeAccepted, HandshakeRejected,
         CommandAnswered, Fail, linkVars, relayVars
  <2> QED
    BY <1>1, <1>4, <2>1, ReachableStays
<1> QED
  BY <1>5, <1>6

LEMMA RelayReachable ==
  ASSUME TypeOK, NEW n \in Nodes, RelayStep(n), \A k \in Nodes : ReachableAt(k)
  PROVE  \A k \in Nodes : ReachableAt(k)'
<1>1. PICK f : f = Head(uplink[n])
  OBVIOUS
<1>2. /\ UNCHANGED <<peers, downlink, linked>> /\ uplink[n] # <<>>
      /\ uplink' = [uplink EXCEPT ![n] = Tail(uplink[n])]
  BY DEF RelayStep, RegisterFrame, CommitsFrame, AckFrame, stateVars
<1>3. /\ uplink[n] \in Seq(Frame) /\ uplink'[n] = Tail(uplink[n]) /\ n \in linked
      /\ \A k \in Nodes \ {n} : uplink'[k] = uplink[k]
  <2>1. DOMAIN uplink = Nodes /\ LinkOK(n)
    BY DEF TypeOK
  <2> QED
    BY <1>2, <2>1 DEF LinkOK
<1>4. f \in Frame /\ f = uplink[n][1] /\ 1 \in DOMAIN uplink[n]
  BY <1>1, <1>2, <1>3, TailTypes
<1>5. /\ \A i \in DOMAIN uplink'[n] : i + 1 \in DOMAIN uplink[n] /\ uplink'[n][i] = uplink[n][i + 1]
      /\ \A i \in DOMAIN uplink'[n] : i \in Nat \ {0}
  <2>1. uplink'[n] \in Seq(Frame)
        /\ \A i \in DOMAIN uplink'[n] : i + 1 \in DOMAIN uplink[n] /\ uplink'[n][i] = uplink[n][i + 1]
    <3>1. PICK s \in Seq(Frame) : s = uplink[n]
      BY <1>3
    <3>2. Tail(s) \in Seq(Frame) /\ \A i \in DOMAIN Tail(s) : i + 1 \in DOMAIN s /\ Tail(s)[i] = s[i + 1]
      BY <1>2, <3>1, TailTypes
    <3> QED
      BY <1>3, <3>1, <3>2
  <2>2. DOMAIN uplink'[n] = 1 .. Len(uplink'[n])
    BY <2>1
  <2> QED
    BY <2>1, <2>2
<1>6. \A i \in DOMAIN uplink[n] : i = 1 \/ \E j \in DOMAIN uplink'[n] : uplink'[n][j] = uplink[n][i]
  <2>1. ASSUME NEW i \in DOMAIN uplink[n], i # 1
        PROVE  i - 1 \in DOMAIN uplink'[n] /\ uplink'[n][i - 1] = uplink[n][i]
    BY <1>2, <1>3, <2>1, TailKeeps
  <2> QED
    BY <2>1
<1>7. /\ DOMAIN commits' \subseteq DOMAIN commits \cup {n}
      /\ \A k \in DOMAIN commits \ {n} : k \in DOMAIN commits' /\ commits'[k] = commits[k]
      /\ n \in DOMAIN commits => n \in DOMAIN commits' /\ (f.type = "I_AM" \/ commits[n] \subseteq commits'[n])
      /\ f.type # "ACK" => n \in DOMAIN commits' /\ f.commits \subseteq commits'[n]
      /\ f.type = "I_AM" \/ DOMAIN commits' = DOMAIN commits
  <2>1. CASE RegisterFrame(n)
    <3>1. f.type = "I_AM" /\ commits' = Put(commits, n, f.commits)
      BY <1>1, <2>1 DEF RegisterFrame
    <3> QED
      BY <3>1 DEF Put
  <2>2. CASE CommitsFrame(n)
    <3>1. n \in DOMAIN commits /\ commits' = [commits EXCEPT ![n] = commits[n] \cup f.commits]
      BY <1>1, <2>2 DEF CommitsFrame
    <3> QED
      BY <3>1
  <2>3. CASE AckFrame(n)
    <3>1. commits' = commits /\ f.type = "ACK"
      BY <1>1, <2>3 DEF AckFrame
    <3> QED
      BY <3>1
  <2> QED
    BY <2>1, <2>2, <2>3 DEF RelayStep
<1>8. ASSUME NEW k \in Nodes, k \in linked \/ At(k, "write")
      PROVE  task'[k] = task[k]
  <2>1. CASE task' = task
    BY <2>1
  <2>2. CASE AckFrame(n) /\ task' # task
    <3>1. PICK c : c = f.from
      OBVIOUS
    <3>2. At(c, "routed") /\ task' = [task EXCEPT ![c] = Answered(task[c], f.response)]
      BY <1>1, <2>2, <3>1 DEF AckFrame, Goto
    <3>3. k # c
      BY <1>8, <3>2 DEF ReachableAt, At
    <3> QED
      BY <3>2, <3>3 DEF TypeOK
  <2> QED
    BY <2>1, <2>2 DEF RelayStep, RegisterFrame, CommitsFrame
<1>9. ASSUME NEW k \in Nodes
      PROVE  task'[k] = task[k] \/ task'[k].at # "write"
  <2>1. CASE task' = task
    BY <2>1
  <2>2. CASE AckFrame(n) /\ task' # task
    <3>1. PICK c, t : c = f.from /\ t = task[c]
      OBVIOUS
    <3>2. t.at = "routed" /\ task' = [task EXCEPT ![c] = Answered(t, f.response)]
      BY <1>1, <2>2, <3>1 DEF AckFrame, Goto, At
    <3>3. f.type = "ACK"
      BY <1>1, <2>2 DEF AckFrame
    <3>4. c \in Nodes
      BY <1>4, <3>1, <3>3, FrameFacts, NodeAssumption
    <3>5. t \in CallTask(c)
      BY <3>1, <3>2, <3>4, TaskFacts
    <3>6. Answered(t, f.response).at = "answered"
      BY <3>5 DEF Answered, CallTask
    <3> QED
      BY <3>2, <3>4, <3>6 DEF TypeOK
  <2> QED
    BY <2>1, <2>2 DEF RelayStep, RegisterFrame, CommitsFrame
<1>10. ReachableAt(n)'
  <2>1. task'[n] = task[n] /\ task[n].at \in {"serving", "renew", "write"} /\ Issued(n)' = Issued(n)
    BY <1>2, <1>3, <1>8 DEF ReachableAt, Issued
  <2>2. ASSUME NEW i \in DOMAIN uplink'[n]
        PROVE  uplink'[n][i].type # "I_AM"
    BY <1>5 DEF ReachableAt
  <2>3. ASSUME NEW p \in Issued(n)
        PROVE  Underway(n, p)'
    <3>1. Underway(n, p)
      BY <1>3 DEF ReachableAt
    <3>2. CASE n \in DOMAIN commits /\ Sha256(p) \in commits[n]
      <4>1. f.type # "I_AM"
        BY <1>4, <3>2 DEF ReachableAt
      <4> QED
        BY <1>7, <3>2, <4>1 DEF Underway
    <3>3. ASSUME NEW g \in Frames(n), g.type # "ACK", Sha256(p) \in g.commits
          PROVE  Underway(n, p)'
      <4>1. CASE g = f
        BY <1>7, <3>3, <4>1 DEF Underway
      <4>2. CASE g # f
        <5>1. g \in Frames(n)'
          <6>1. CASE \E i \in DOMAIN uplink[n] : g = uplink[n][i]
            BY <1>4, <1>6, <4>2, <6>1 DEF Frames
          <6>2. CASE At(n, "write") /\ \E i \in DOMAIN task[n].frames : g = task[n].frames[i]
            BY <2>1, <6>2 DEF Frames, At
          <6> QED
            BY <3>3, <6>1, <6>2 DEF Frames
        <5> QED
          BY <3>3, <5>1 DEF Underway
      <4> QED
        BY <4>1, <4>2
    <3>4. CASE \E i \in DOMAIN downlink[n] : downlink[n][i].preimage = p
      BY <1>2, <3>4 DEF Underway
    <3>5. CASE At(n, "renew") /\ task[n].preimage = p
      BY <2>1, <3>5 DEF Underway, At
    <3> QED
      BY <3>1, <3>2, <3>3, <3>4, <3>5 DEF Underway
  <2> QED
    BY <1>2, <2>1, <2>2, <2>3 DEF ReachableAt, At
<1>11. ASSUME NEW k \in Nodes \ {n}
       PROVE  ReachableAt(k)'
  <2>1. k \in DOMAIN commits' <=> k \in DOMAIN commits
    BY <1>7
  <2>2. CASE task'[k] = task[k]
    BY <1>2, <1>3, <1>7, <2>1, <2>2, ReachableStays
  <2>3. CASE task'[k] # task[k]
    <3>1. k \notin linked' /\ ~ At(k, "write")' /\ uplink'[k] = <<>> /\ DOMAIN << >> = {}
      <4>1. LinkOK(k)
        BY DEF TypeOK
      <4> QED
        BY <1>2, <1>3, <1>8, <1>9, <2>3, <4>1 DEF At, LinkOK
    <3> QED
      BY <3>1 DEF ReachableAt
  <2> QED
    BY <2>2, <2>3
<1> QED
  BY <1>10, <1>11

LEMMA FaultReachable ==
  ASSUME TypeOK, TypeOK', FaultStep, \A k \in Nodes : ReachableAt(k)
  PROVE  \A k \in Nodes : ReachableAt(k)'
<1> SUFFICES ASSUME NEW k \in Nodes
             PROVE  ReachableAt(k)'
  OBVIOUS
<1>1. UNCHANGED peers /\ (task'[k] = task[k] \/ task'[k] = Idle)
  BY DEF FaultStep, Disconnect, Crash, RelayRestart, Expire, Goto, TypeOK, stateVars
<1> DEFINE Same ==
         /\ task'[k] = task[k] /\ uplink'[k] = uplink[k] /\ downlink'[k] = downlink[k]
         /\ k \in linked' => k \in linked
         /\ k \in DOMAIN commits' <=> k \in DOMAIN commits
         /\ k \in DOMAIN commits => commits'[k] = commits[k]
<1>2. k \notin linked' \/ Same
  <2>1. ASSUME NEW n \in Nodes, Disconnect(n) \/ Crash(n), k # n
        PROVE  Same
    BY <2>1 DEF Disconnect, Crash, Unlink, Goto, TypeOK, Restrict
  <2>2. ASSUME NEW n \in Nodes, Disconnect(n) \/ Crash(n), k = n
        PROVE  k \notin linked'
    BY <2>2 DEF Disconnect, Crash, Unlink
  <2>3. CASE RelayRestart
    BY <2>3 DEF RelayRestart, Unlink
  <2>4. CASE \E p \in DOMAIN response_cache : Expire(p)
    BY <2>4 DEF Expire, linkVars
  <2> QED
    BY <2>1, <2>2, <2>3, <2>4 DEF FaultStep
<1>3. CASE k \notin linked'
  BY <1>1, <1>3, ReachableUnlinked DEF Idle
<1> QED
  BY <1>1, <1>2, <1>3, ReachableStays

\* A message that is received was, at most, the way of its own preimage.
LEMMA UnderwayStays ==
  ASSUME TypeOK, NEW n \in Nodes, NEW msg, Receives(n, msg), NEW d, d = Head(downlink[n]),
         commits' = commits, uplink'[n] = uplink[n], NEW p, p # d.preimage, Underway(n, p)
  PROVE  Underway(n, p)'
<1>1. At(n, "serving") /\ d = downlink[n][1] /\ downlink'[n] = Tail(downlink[n])
  BY ReceivesFacts
<1>2. downlink[n] \in Seq(Delivery) /\ downlink[n] # <<>>
  <2>1. LinkOK(n)
    BY DEF TypeOK
  <2> QED
    BY <2>1 DEF LinkOK, Receives
<1>3. \A f \in Frames(n) : f \in Frames(n)'
  BY <1>1 DEF Frames, At
<1>4. CASE \E i \in DOMAIN downlink[n] : downlink[n][i].preimage = p
  <2>1. PICK i \in DOMAIN downlink[n] : downlink[n][i].preimage = p
    BY <1>4
  <2>2. i - 1 \in DOMAIN downlink'[n] /\ downlink'[n][i - 1] = downlink[n][i]
    BY <1>1, <1>2, <2>1, TailKeeps
  <2> QED
    BY <2>1, <2>2 DEF Underway
<1> QED
  BY <1>1, <1>3, <1>4 DEF Underway, At

LEMMA WritesReachable ==
  ASSUME NEW n \in Nodes, ReachableAt(n), uplink'[n] = uplink[n], commits' = commits,
         NEW frames, task'[n] = Writing(frames), \A i \in DOMAIN frames : frames[i].type # "I_AM",
         \A p \in Issued(n)' : Underway(n, p)'
  PROVE  ReachableAt(n)'
BY DEF ReachableAt, Writing, At

\* A preimage that was issued is neither a token nor issued to two peers.
LEMMA IssuedFacts ==
  ASSUME OwnedInv, NEW n \in Nodes, NEW m \in DOMAIN peers[n], NEW p \in peers[n][m].issued_preimages
  PROVE  /\ p \notin DOMAIN given /\ p \notin DOMAIN invites[n]
         /\ \A k \in DOMAIN peers[n] : p \in peers[n][k].issued_preimages => k = m
         /\ \A k \in Nodes \ {n} : \A j \in DOMAIN peers[k] : p \notin peers[k][j].issued_preimages
BY DEF OwnedInv, Owned, PeersOwned

\* The preimage that is renewed was issued to the peer it is renewed for, if
\* it still is to any.
LEMMA RenewalFacts ==
  ASSUME OwnedInv, NEW n \in Nodes, At(n, "renew"), NEW k \in DOMAIN peers[n],
         task[n].preimage \in peers[n][k].issued_preimages
  PROVE  k = task[n].peer
BY DEF OwnedInv, Owned, PeersOwned, TaskOwned

LEMMA HandshakesUseTokens ==
  ASSUME TypeOK, OwnedInv, NEW n \in Nodes, Receives(n, "HANDSHAKE_INIT")
  PROVE  Head(downlink[n]).preimage \in DOMAIN given
<1>1. PICK by, user : Owned(by, user)
  BY DEF OwnedInv
<1>2. PICK d : d = Head(downlink[n])
  OBVIOUS
<1>3. MessageOwned(by, user, d.from, n, d.preimage, d.payload) /\ d.payload.msg = "HANDSHAKE_INIT"
  BY <1>1, <1>2, ReceivesOwned, ReceivesFacts DEF Owned
<1> QED
  BY <1>2, <1>3 DEF MessageOwned

\* The commit of a new preimage is on its way when the handler writes it.
LEMMA NewUnderway ==
  ASSUME NEW n \in Nodes, NEW frames, task'[n] = Writing(frames), NEW x,
         NEW i \in DOMAIN frames, frames[i] = UpdateCommits({Sha256(x)})
  PROVE  Underway(n, x)'
<1>1. frames[i].type # "ACK" /\ Sha256(x) \in frames[i].commits
  BY DEF UpdateCommits
<1>2. frames[i] \in Frames(n)'
  BY DEF Frames, At, Writing
<1> QED
  BY <1>1, <1>2 DEF Underway

LEMMA ServeReachable ==
  ASSUME TypeOK, TypeOK', OwnedInv, NEW n \in Nodes, ServeStep(n), \A k \in Nodes : ReachableAt(k)
  PROVE  \A k \in Nodes : ReachableAt(k)'
<1>1. UNCHANGED <<linked, commits>>
  BY DEF ServeStep, AcceptHandshake, RejectHandshake, Unauthorized, RunHandler, RefuseCommand,
       InviteCreate, InviteDelete, RenewPreimage, WriteFrame, RunEnds, linkVars, relayVars
<1>2. ASSUME NEW k \in Nodes \ {n}
      PROVE  ReachableAt(k)'
  <2>1. peers'[k] = peers[k] /\ uplink'[k] = uplink[k]
    BY DEF ServeStep, AcceptHandshake, RejectHandshake, Unauthorized, RunHandler, RefuseCommand,
         InviteCreate, InviteDelete, RenewPreimage, Renewed, WriteFrame, RunEnds, linkVars, stateVars, TypeOK
  <2>2. task'[k] = task[k]
    <3>1. \E t : task' = [task EXCEPT ![n] = t]
      BY DEF ServeStep, AcceptHandshake, RejectHandshake, Unauthorized, RunHandler, RefuseCommand,
           InviteCreate, InviteDelete, Executed, RenewPreimage, WriteFrame, RunEnds, Goto
    <3> QED
      BY <3>1 DEF TypeOK
  <2>3. downlink'[k] = downlink[k]
    <3>1. downlink' = downlink \/ \E msg : Receives(n, msg)
      BY DEF ServeStep, AcceptHandshake, RejectHandshake, Unauthorized, RunHandler, RefuseCommand, IsCommand,
           InviteCreate, InviteDelete, RenewPreimage, WriteFrame, RunEnds, linkVars
    <3> QED
      BY <3>1 DEF Receives, TypeOK
  <2> QED
    BY <1>1, <2>1, <2>2, <2>3, ReachableStays
<1> SUFFICES ReachableAt(n)'
  BY <1>2
<1>3. CASE n \notin linked
  <2>1. RunEnds(n) \/ RenewPreimage(n)
    BY <1>3 DEF ServeStep, AcceptHandshake, RejectHandshake, Unauthorized, RunHandler, RefuseCommand,
         IsCommand, InviteCreate, InviteDelete, WriteFrame, Receives
  <2>2. CASE RunEnds(n)
    <3>1. task'[n] = Idle
      BY <2>2 DEF RunEnds, Goto, TypeOK
    <3> QED
      BY <1>1, <1>3, <3>1, ReachableUnlinked DEF Idle
  <2>3. CASE RenewPreimage(n)
    <3>1. PICK c, p, r : task'[n] = Writing(<<UpdateCommits({Sha256(fresh)}), Ack(c, p, r)>>)
      BY <2>3 DEF RenewPreimage, RenewalAck, Goto, TypeOK
    <3>2. uplink'[n] = <<>> /\ DOMAIN << >> = {}
      BY <1>1, <1>3 DEF TypeOK, LinkOK
    <3> QED
      BY <1>1, <1>3, <3>1, <3>2 DEF ReachableAt, Writing, UpdateCommits, Ack
  <2> QED
    BY <2>1, <2>2, <2>3
<1>4. CASE n \in linked /\ (AcceptHandshake(n) \/ RejectHandshake(n) \/ Unauthorized(n))
  <2>1. PICK msg, d : Receives(n, msg) /\ d = Head(downlink[n])
    BY <1>4 DEF AcceptHandshake, RejectHandshake, Unauthorized
  <2>2. \A p \in Issued(n) : Underway(n, p)
    BY <1>4 DEF ReachableAt
  <2>3. d.preimage \notin Issued(n)
    <3>1. CASE AcceptHandshake(n) \/ RejectHandshake(n)
      BY <2>1, <3>1, HandshakesUseTokens, IssuedFacts DEF AcceptHandshake, RejectHandshake, Issued
    <3>2. CASE Unauthorized(n)
      BY <2>1, <3>2, IssuedFacts DEF Unauthorized, LookupPreimage, Issued
    <3> QED
      BY <1>4, <3>1, <3>2
  <2>4. uplink'[n] = uplink[n]
    BY <1>4 DEF AcceptHandshake, RejectHandshake, Unauthorized
  <2>5. \A p \in Issued(n) : Underway(n, p)'
    BY <1>1, <2>1, <2>2, <2>3, <2>4, UnderwayStays
  <2>6. CASE AcceptHandshake(n)
    <3>1. PICK c, p, r, x, frames :
            /\ x = fresh /\ frames = <<Ack(c, p, r), UpdateCommits({Sha256(x)})>>
            /\ task'[n] = Writing(frames)
      BY <2>6 DEF AcceptHandshake, Goto, TypeOK
    <3>2. Issued(n)' \subseteq Issued(n) \cup {x}
      <4>1. PICK k, role, q :
              peers'[n] = Put(peers[n], k, [role |-> role, issued_preimages |-> {fresh}, their_preimage |-> q])
        BY <2>6 DEF AcceptHandshake, TypeOK
      <4> QED
        BY <3>1, <4>1 DEF Issued, Put
    <3>3. DOMAIN frames = {1, 2} /\ frames[1] = Ack(c, p, r) /\ frames[2] = UpdateCommits({Sha256(x)})
      BY <3>1
    <3>4. Underway(n, x)'
      BY <3>1, <3>3, NewUnderway
    <3>5. \A i \in DOMAIN frames : frames[i].type # "I_AM"
      BY <3>3 DEF UpdateCommits, Ack
    <3> QED
      BY <1>1, <2>4, <2>5, <3>1, <3>2, <3>4, <3>5, WritesReachable
  <2>7. CASE RejectHandshake(n) \/ Unauthorized(n)
    <3>1. PICK c, p, r, frames : frames = <<Ack(c, p, r)>> /\ task'[n] = Writing(frames)
      <4>1. DOMAIN task = Nodes
        BY DEF TypeOK
      <4>2. CASE RejectHandshake(n)
        BY <4>1, <4>2 DEF RejectHandshake, Goto
      <4>3. CASE Unauthorized(n)
        BY <4>1, <4>3 DEF Unauthorized, Goto
      <4> QED
        BY <2>7, <4>2, <4>3
    <3>2. Issued(n)' = Issued(n)
      BY <2>7 DEF RejectHandshake, Unauthorized, stateVars, Issued
    <3>3. \A i \in DOMAIN frames : frames[i].type # "I_AM"
      BY <3>1 DEF Ack
    <3> QED
      BY <1>1, <2>4, <2>5, <3>1, <3>2, <3>3, WritesReachable
  <2> QED
    BY <1>4, <2>6, <2>7
<1>5. CASE n \in linked /\ \E m, ok, cmds :
                IsCommand(n, m, cmds) /\ Executed(n, m, ok) /\ UNCHANGED <<peers, uplink>>
  <2>1. PICK m, ok, cmds : IsCommand(n, m, cmds) /\ Executed(n, m, ok) /\ UNCHANGED <<peers, uplink>>
    BY <1>5
  <2>2. PICK d : d = Head(downlink[n])
    OBVIOUS
  <2>3. /\ Receives(n, "request") /\ task'[n].at = "renew" /\ task'[n].preimage = d.preimage
    BY <2>1, <2>2 DEF IsCommand, Executed, Goto, TypeOK
  <2>4. Issued(n)' = Issued(n) /\ \A p \in Issued(n) : Underway(n, p)
    BY <1>5, <2>1 DEF ReachableAt, Issued
  <2>5. ASSUME NEW p \in Issued(n)
        PROVE  Underway(n, p)'
    <3>1. CASE p = d.preimage
      BY <2>3, <3>1 DEF Underway, At
    <3>2. CASE p # d.preimage
      BY <1>1, <2>1, <2>2, <2>3, <2>4, <3>2, UnderwayStays
    <3> QED
      BY <3>1, <3>2
  <2> QED
    BY <1>1, <2>1, <2>3, <2>4, <2>5 DEF ReachableAt, At
<1>6. CASE n \in linked /\ RenewPreimage(n)
  <2>1. PICK t, m, p, r, x, frames :
          /\ t = task[n] /\ m = t.peer /\ p = t.preimage /\ x = fresh
          /\ frames = <<UpdateCommits({Sha256(x)}), Ack(t.from, p, r)>> /\ task'[n] = Writing(frames)
    BY <1>6 DEF RenewPreimage, RenewalAck, Goto, TypeOK
  <2>2. m \in DOMAIN peers[n] /\ At(n, "renew")
    BY <1>6, <2>1, TaskFacts DEF RenewPreimage
  <2>3. /\ UNCHANGED <<uplink, downlink>>
        /\ peers'[n] = Put(peers[n], m,
             [role |-> peers[n][m].role,
              issued_preimages |-> (peers[n][m].issued_preimages \ {p}) \cup {x},
              their_preimage |-> peers[n][m].their_preimage])
    BY <1>6, <2>1 DEF RenewPreimage, Renewed, TypeOK, linkVars
  <2>4. ASSUME NEW q \in Issued(n)', q # x
        PROVE  q \in Issued(n) /\ q # p
    <3>1. PICK k \in DOMAIN peers'[n] : q \in peers'[n][k].issued_preimages
      BY <2>4 DEF Issued
    <3>2. k \in DOMAIN peers[n] /\ q \in peers[n][k].issued_preimages /\ (k = m => q # p)
      BY <2>2, <2>3, <2>4, <3>1 DEF Put
    <3>3. q = p => k = m
      BY <2>1, <2>2, <3>2, RenewalFacts
    <3> QED
      BY <3>2, <3>3 DEF Issued
  <2>5. DOMAIN frames = {1, 2} /\ frames[1] = UpdateCommits({Sha256(x)}) /\ frames[2] = Ack(t.from, p, r)
    BY <2>1
  <2>6. \A i \in DOMAIN frames : frames[i].type # "I_AM"
    BY <2>5 DEF UpdateCommits, Ack
  <2>7. Underway(n, x)'
    BY <2>1, <2>5, NewUnderway
  <2>8. ASSUME NEW q \in Issued(n), q # p
        PROVE  Underway(n, q)'
    <3>1. Underway(n, q)
      BY <1>6 DEF ReachableAt
    <3>2. \A f \in Frames(n) : f \in Frames(n)'
      BY <2>2, <2>3 DEF Frames, At
    <3>3. ~ (At(n, "renew") /\ task[n].preimage = q)
      BY <2>1, <2>8
    <3> QED
      BY <1>1, <2>3, <3>1, <3>2, <3>3 DEF Underway
  <2>9. \A q \in Issued(n)' : Underway(n, q)'
    BY <2>4, <2>7, <2>8
  <2> QED
    BY <1>1, <2>1, <2>3, <2>6, <2>9, WritesReachable
<1>7. CASE n \in linked /\ (WriteFrame(n) \/ RunEnds(n))
  <2>1. PICK frames : frames = task[n].frames
    OBVIOUS
  <2>2. /\ At(n, "write") /\ UNCHANGED <<peers, downlink>>
        /\ uplink'[n] = Append(uplink[n], Head(frames))
        /\ task'[n] = IF Len(frames) = 1 THEN Serving ELSE Writing(Tail(frames))
    BY <1>7, <2>1 DEF WriteFrame, RunEnds, Goto, TypeOK, stateVars
  <2>3. frames \in Seq(Frame) /\ frames # <<>> /\ uplink[n] \in Seq(Frame)
    <3>1. LinkOK(n)
      BY DEF TypeOK
    <3>2. frames \in Seq(Frame) /\ Len(frames) \in {1, 2}
      BY <2>1, <2>2, TaskFacts
    <3>3. frames # <<>>
      <4>1. Len(<< >>) = 0 /\ 0 \notin {1, 2}
        BY EmptySeq
      <4> QED
        BY <3>2, <4>1, Zenon
    <3> QED
      BY <3>1, <3>2, <3>3 DEF LinkOK
  <2>4. /\ Head(frames) = frames[1] /\ 1 \in DOMAIN frames /\ Len(frames) \in Nat \ {0}
        /\ \A i \in DOMAIN Tail(frames) : i + 1 \in DOMAIN frames /\ Tail(frames)[i] = frames[i + 1]
        /\ \A i \in DOMAIN frames : i = 1 \/ (i - 1 \in DOMAIN Tail(frames) /\ Tail(frames)[i - 1] = frames[i])
    BY <2>3, TailTypes, TailKeeps
  <2>5. /\ \A i \in DOMAIN uplink[n] : i \in DOMAIN uplink'[n] /\ uplink'[n][i] = uplink[n][i]
        /\ \E i \in DOMAIN uplink'[n] : uplink'[n][i] = frames[1]
        /\ \A i \in DOMAIN uplink'[n] : i \in DOMAIN uplink[n] \/ uplink'[n][i] = frames[1]
    BY <2>2, <2>3, <2>4
  <2>6. \A i \in DOMAIN frames : frames[i].type # "I_AM"
    BY <1>7, <2>1, <2>2 DEF ReachableAt
  <2>7. task'[n] = Serving \/ (task'[n].at = "write" /\ task'[n].frames = Tail(frames))
    BY <2>2 DEF Writing
  <2>8. ASSUME NEW f \in Frames(n)
        PROVE  f \in Frames(n)'
    <3>1. CASE \E i \in DOMAIN uplink[n] : f = uplink[n][i]
      BY <2>5, <3>1 DEF Frames
    <3>2. CASE \E i \in DOMAIN frames : f = frames[i]
      <4>1. PICK i \in DOMAIN frames : f = frames[i]
        BY <3>2
      <4>2. CASE i = 1
        BY <2>5, <4>1, <4>2 DEF Frames
      <4>3. CASE i # 1
        <5>1. i - 1 \in DOMAIN Tail(frames) /\ Tail(frames)[i - 1] = f
          BY <2>4, <4>1, <4>3
        <5>2. Len(frames) # 1
          BY <2>3, <4>1, <4>3
        <5>3. task'[n].at = "write" /\ task'[n].frames = Tail(frames)
          BY <2>2, <5>2 DEF Writing
        <5>4. i - 1 \in DOMAIN task'[n].frames /\ f = task'[n].frames[i - 1]
          BY <5>1, <5>3
        <5> QED
          BY <5>3, <5>4 DEF Frames, At
      <4> QED
        BY <4>2, <4>3
    <3> QED
      BY <2>1, <2>8, <3>1, <3>2 DEF Frames
  <2>9. ASSUME NEW p \in Issued(n)'
        PROVE  Underway(n, p)'
    <3>1. Underway(n, p)
      BY <1>7, <2>2 DEF ReachableAt, Issued
    <3> QED
      BY <1>1, <2>2, <2>8, <3>1 DEF Underway, At
  <2>10. /\ task'[n].at \in {"serving", "write"}
         /\ task'[n].at = "write" => \A i \in DOMAIN task'[n].frames : task'[n].frames[i].type # "I_AM"
    BY <2>4, <2>6, <2>7 DEF Serving
  <2>11. \A i \in DOMAIN uplink'[n] : uplink'[n][i].type = "I_AM" => i = 1 /\ n \notin DOMAIN commits'
    BY <1>1, <2>4, <2>5, <2>6 DEF ReachableAt
  <2> QED
    BY <2>9, <2>10, <2>11 DEF ReachableAt, At
<1>8. CASE n \in linked /\ ~ (WriteFrame(n) \/ RunEnds(n) \/ RenewPreimage(n)) /\ ~ \E m, ok, cmds :
                IsCommand(n, m, cmds) /\ Executed(n, m, ok) /\ UNCHANGED <<peers, uplink>>
  <2>1. ASSUME NEW m \in Nodes, RunHandler(n, m) \/ RefuseCommand(n, m)
        PROVE  FALSE
    BY <1>8, <2>1 DEF RunHandler, RefuseCommand, stateVars
  <2>2. ASSUME NEW m \in Nodes, NEW holder \in Nodes, NEW role \in Roles, InviteCreate(n, m, role, holder)
        PROVE  FALSE
    BY <1>8, <2>2 DEF InviteCreate
  <2>3. ASSUME NEW m \in Nodes, NEW p \in DOMAIN invites[n], InviteDelete(n, m, p)
        PROVE  FALSE
    BY <1>8, <2>3 DEF InviteDelete
  <2> QED
    BY <1>4, <1>8, <2>1, <2>2, <2>3 DEF ServeStep
<1> QED
  BY <1>3, <1>5, <1>6, <1>7, <1>8

LEMMA ReachableStep == TypeOK /\ TypeOK' /\ OwnedInv /\ ReachableInv /\ [Next]_vars => ReachableInv'
<1> SUFFICES ASSUME TypeOK, TypeOK', OwnedInv, ReachableInv, [Next]_vars
             PROVE  ReachableInv'
  OBVIOUS
<1>1. linked \subseteq Nodes /\ linked' \subseteq Nodes
  BY NodeAssumption DEF TypeOK, RelayOK
<1>2. \A n \in Nodes : ReachableAt(n)
  BY <1>1, ReachableParts
<1> SUFFICES \A n \in Nodes : ReachableAt(n)'
  BY <1>1, ReachableParts DEF ReachableInv, ReachableAt, IssuedReachable, At
<1>3. CASE \E n \in Nodes : UserStep(n) \/ CallStep(n) \/ Fail(n) \/ RelayStep(n) \/ ServeStep(n)
  BY <1>2, <1>3, UserReachable, CallReachable, RelayReachable, ServeReachable
<1>4. CASE FaultStep
  BY <1>2, <1>4, FaultReachable
<1>5. CASE UNCHANGED vars
  BY <1>2, <1>5, ReachableStays DEF vars, stateVars, linkVars, relayVars
<1> QED
  BY <1>3, <1>4, <1>5 DEF Next

\* While a node serves, no preimage that a peer may use is dead.
THEOREM NodeReachable == Spec => []IssuedReachable
<1>1. Init => ReachableInv
  BY DEF Init, ReachableInv, IssuedReachable, Idle, At
<1>2. ReachableInv => IssuedReachable
  BY DEF ReachableInv
<1> QED
  BY <1>1, <1>2, ReachableStep, NodeTypes, NodeOwnership, PTL DEF Spec

(***************************************************************************)
(* What was honoured is retired                                            *)
(***************************************************************************)

\* RetiredInv, of one preimage and one node.
RetiredAt(p, n) ==
  /\ p \notin DOMAIN invites[n]
  /\ \A m \in DOMAIN pending_peers[n] : p # pending_peers[n][m].my_preimage
  /\ p \in Issued(n) => At(n, "renew") /\ task[n].preimage = p

\* Where the preimages that a node has in its state after a step come from.
StateFrom(n, x) ==
  /\ DOMAIN invites'[n] \subseteq DOMAIN invites[n] \cup {x}
  /\ \A m \in DOMAIN pending_peers'[n] :
       \/ pending_peers'[n][m].my_preimage = x
       \/ \E k \in DOMAIN pending_peers[n] :
            pending_peers'[n][m].my_preimage = pending_peers[n][k].my_preimage
  /\ \A p \in Issued(n)' :
       \/ p \in Issued(n) \cup {x}
       \/ \E k \in DOMAIN pending_peers[n] :
            HandshakeAccepted(n) /\ k = task[n].to /\ p = pending_peers[n][k].my_preimage

LEMMA StateGrows ==
  ASSUME TypeOK, Next, NEW n \in Nodes, NEW x, x = fresh
  PROVE  StateFrom(n, x)
<1> USE DEF Put, Drop, Restrict
<1> DEFINE Same == invites'[n] = invites[n] /\ pending_peers'[n] = pending_peers[n] /\ peers'[n] = peers[n]
<1>1. ASSUME Same
      PROVE  StateFrom(n, x)
  BY <1>1 DEF StateFrom, Issued
<1>2. ASSUME UNCHANGED <<pending_peers, peers>>, DOMAIN invites'[n] \subseteq DOMAIN invites[n] \cup {x}
      PROVE  StateFrom(n, x)
  BY <1>2 DEF StateFrom, Issued
<1>3. ASSUME NEW k \in Nodes, UserStep(k)
      PROVE  StateFrom(n, x)
  <2>1. CASE \E role \in Roles, m \in Nodes : CreateInvite(k, role, m)
    BY <1>2, <2>1 DEF CreateInvite, NewInvite, TypeOK
  <2>2. CASE \E p \in DOMAIN given : Pair(k, p)
    <3>1. PICK p \in DOMAIN given : Pair(k, p)
      BY <2>2
    <3>2. UNCHANGED <<invites, peers>> /\ Issued(n)' = Issued(n)
      BY <3>1 DEF Pair, Issued
    <3>3. ASSUME NEW m \in DOMAIN pending_peers'[n]
          PROVE  \/ pending_peers'[n][m].my_preimage = x
                 \/ m \in DOMAIN pending_peers[n] /\ pending_peers'[n][m] = pending_peers[n][m]
      BY <3>1 DEF Pair, TypeOK
    <3> QED
      BY <3>2, <3>3 DEF StateFrom
  <2>3. CASE Run(k) \/ \E m \in Nodes, cmd \in Commands \cup BuiltIns : Send(k, m, cmd)
    BY <1>1, <2>3 DEF Run, Send, stateVars
  <2> QED
    BY <1>3, <2>1, <2>2, <2>3 DEF UserStep
<1>4. ASSUME NEW k \in Nodes, CallStep(k) \/ Fail(k)
      PROVE  StateFrom(n, x)
  <2>1. CASE HandshakeAccepted(k) /\ k = n
    <3>1. PICK m, q, r : m = task[n].to /\ q = pending_peers[n][m].my_preimage /\ r = task[n].response
      OBVIOUS
    <3>2. /\ UNCHANGED invites /\ m \in DOMAIN pending_peers[n]
          /\ pending_peers'[n] = Drop(pending_peers[n], m)
          /\ peers'[n] = Put(peers[n], m, [role |-> "reader", issued_preimages |-> {q},
                                           their_preimage |-> r.preimage_for_peer])
      BY <2>1, <3>1 DEF HandshakeAccepted, TypeOK
    <3>3. Issued(n)' \subseteq Issued(n) \cup {q}
      BY <3>2 DEF Issued
    <3> QED
      BY <2>1, <3>1, <3>2, <3>3 DEF StateFrom
  <2>2. CASE CommandAnswered(k) /\ k = n
    <3>1. UNCHANGED <<invites, pending_peers>>
      BY <2>2 DEF CommandAnswered
    <3>2. PICK m, q : m = task[n].to /\ q = task[n].response.next
      OBVIOUS
    <3>3. \/ peers' = peers
          \/ m \in DOMAIN peers[n]
             /\ peers'[n] = Put(peers[n], m, [role |-> peers[n][m].role,
                                              issued_preimages |-> peers[n][m].issued_preimages,
                                              their_preimage |-> q])
      BY <2>2, <3>2 DEF CommandAnswered, TypeOK
    <3>4. Issued(n)' \subseteq Issued(n)
      BY <3>3 DEF Issued
    <3> QED
      BY <3>1, <3>4 DEF StateFrom
  <2>3. CASE k # n /\ (HandshakeAccepted(k) \/ CommandAnswered(k))
    BY <1>1, <2>3 DEF HandshakeAccepted, CommandAnswered, TypeOK
  <2>4. CASE CachedResponse(k) \/ Refused(k) \/ RouteMessage(k) \/ HandshakeRejected(k) \/ Fail(k)
    BY <1>1, <2>4 DEF CachedResponse, Refused, RouteMessage, HandshakeRejected, Fail, stateVars
  <2> QED
    BY <1>4, <2>1, <2>2, <2>3, <2>4 DEF CallStep
<1>5. ASSUME NEW k \in Nodes, ServeStep(k)
      PROVE  StateFrom(n, x)
  <2>1. CASE AcceptHandshake(k) /\ k = n
    <3>1. PICK c, p, role, q :
            /\ p = Head(downlink[n]).preimage /\ c = Head(downlink[n]).payload.sender_id52
            /\ role = invites[n][p] /\ q = Head(downlink[n]).payload.preimage_for_peer
      OBVIOUS
    <3>2. /\ UNCHANGED pending_peers /\ invites'[n] = Drop(invites[n], p)
          /\ peers'[n] = Put(peers[n], c, [role |-> role, issued_preimages |-> {x}, their_preimage |-> q])
      BY <2>1, <3>1 DEF AcceptHandshake, TypeOK
    <3>3. Issued(n)' \subseteq Issued(n) \cup {x}
      BY <3>2 DEF Issued
    <3> QED
      BY <3>2, <3>3 DEF StateFrom
  <2>2. CASE RenewPreimage(k) /\ k = n
    <3>1. PICK m, p : m = task[n].peer /\ p = task[n].preimage
      OBVIOUS
    <3>2. /\ UNCHANGED <<invites, pending_peers>> /\ m \in DOMAIN peers[n]
          /\ peers'[n] = Put(peers[n], m,
               [role |-> peers[n][m].role,
                issued_preimages |-> (peers[n][m].issued_preimages \ {p}) \cup {x},
                their_preimage |-> peers[n][m].their_preimage])
      BY <2>2, <3>1, TaskFacts DEF RenewPreimage, Renewed, TypeOK
    <3>3. Issued(n)' \subseteq Issued(n) \cup {x}
      BY <3>2 DEF Issued
    <3> QED
      BY <3>2, <3>3 DEF StateFrom
  <2>3. CASE k # n /\ (AcceptHandshake(k) \/ RenewPreimage(k))
    BY <1>1, <2>3 DEF AcceptHandshake, RenewPreimage, Renewed, TypeOK
  <2>4. CASE \E m, holder \in Nodes, role \in Roles : InviteCreate(k, m, role, holder)
    BY <1>2, <2>4 DEF InviteCreate, NewInvite, TypeOK
  <2>5. CASE \E m \in Nodes, p \in DOMAIN invites[k] : InviteDelete(k, m, p)
    BY <1>2, <2>5 DEF InviteDelete, TypeOK
  <2>6. CASE \/ RejectHandshake(k) \/ Unauthorized(k) \/ WriteFrame(k) \/ RunEnds(k)
             \/ \E m \in Nodes : RunHandler(k, m) \/ RefuseCommand(k, m)
    BY <1>1, <2>6 DEF RejectHandshake, Unauthorized, WriteFrame, RunEnds, RunHandler, RefuseCommand, stateVars
  <2> QED
    BY <1>5, <2>1, <2>2, <2>3, <2>4, <2>5, <2>6 DEF ServeStep
<1>6. CASE FaultStep \/ \E k \in Nodes : RelayStep(k)
  BY <1>1, <1>6 DEF FaultStep, Disconnect, Crash, RelayRestart, Expire, RelayStep, RegisterFrame,
       CommitsFrame, AckFrame, stateVars
<1> QED
  BY <1>3, <1>4, <1>5, <1>6 DEF Next

\* The renewal follows the command, unless the program is killed.
LEMMA RenewalFollows ==
  ASSUME TypeOK, Next, NEW n \in Nodes, At(n, "renew")
  PROVE  task'[n] = task[n] \/ RenewPreimage(n) \/ Crash(n)
<1>1. ASSUME NEW k \in Nodes, UserStep(k) \/ CallStep(k) \/ Fail(k)
      PROVE  task'[n] = task[n]
  <2>1. k # n
    BY <1>1 DEF UserStep, CreateInvite, Pair, Send, Run, CallStep, CachedResponse, Refused, RouteMessage,
         HandshakeAccepted, HandshakeRejected, CommandAnswered, Fail, At
  <2>2. task' = task \/ \E t : task' = [task EXCEPT ![k] = t]
    BY <1>1 DEF UserStep, CreateInvite, Pair, Send, Run, CallStep, CachedResponse, Refused, RouteMessage,
         HandshakeAccepted, HandshakeRejected, CommandAnswered, Fail, Goto
  <2> QED
    BY <2>1, <2>2 DEF TypeOK
<1>2. ASSUME NEW k \in Nodes, RelayStep(k)
      PROVE  task'[n] = task[n]
  <2>1. task' = task \/ \E c, t : At(c, "routed") /\ task' = [task EXCEPT ![c] = t]
    BY <1>2 DEF RelayStep, RegisterFrame, CommitsFrame, AckFrame, Goto
  <2> QED
    BY <2>1 DEF TypeOK, At
<1>3. ASSUME NEW k \in Nodes, ServeStep(k), ~ RenewPreimage(n)
      PROVE  task'[n] = task[n]
  <2>1. k # n
    BY <1>3 DEF ServeStep, AcceptHandshake, RejectHandshake, Unauthorized, RunHandler, RefuseCommand,
         InviteCreate, InviteDelete, IsCommand, Receives, WriteFrame, RunEnds, At
  <2>2. \E t : task' = [task EXCEPT ![k] = t]
    BY <1>3 DEF ServeStep, AcceptHandshake, RejectHandshake, Unauthorized, RunHandler, RefuseCommand,
         InviteCreate, InviteDelete, Executed, RenewPreimage, WriteFrame, RunEnds, Goto
  <2> QED
    BY <2>1, <2>2 DEF TypeOK
<1>4. CASE FaultStep /\ ~ Crash(n)
  BY <1>4 DEF FaultStep, Disconnect, Crash, RelayRestart, Expire, Goto, TypeOK, At
<1> QED
  BY <1>1, <1>2, <1>3, <1>4 DEF Next

\* What makes a preimage count as honoured.
LEMMA ExecutedGrows ==
  ASSUME Next, NEW p \in executed', p \notin executed
  PROVE  \E n \in Nodes : /\ p = Head(downlink[n]).preimage
                          /\ \/ AcceptHandshake(n)
                             \/ \E m, ok, cmds : IsCommand(n, m, cmds) /\ Executed(n, m, ok) /\ peers' = peers
<1>1. ASSUME NEW n \in Nodes, ServeStep(n)
      PROVE  /\ p = Head(downlink[n]).preimage
             /\ \/ AcceptHandshake(n)
                \/ \E m, ok, cmds : IsCommand(n, m, cmds) /\ Executed(n, m, ok) /\ peers' = peers
  <2>1. CASE AcceptHandshake(n)
    BY <2>1 DEF AcceptHandshake
  <2>2. CASE \E m, ok, cmds : IsCommand(n, m, cmds) /\ Executed(n, m, ok) /\ peers' = peers
    BY <2>2 DEF Executed
  <2>3. CASE RejectHandshake(n) \/ Unauthorized(n) \/ RenewPreimage(n) \/ WriteFrame(n) \/ RunEnds(n)
    BY <2>3 DEF RejectHandshake, Unauthorized, RenewPreimage, WriteFrame, RunEnds, worldVars
  <2> QED
    BY <1>1, <2>1, <2>2, <2>3 DEF ServeStep, RunHandler, RefuseCommand, InviteCreate, InviteDelete, stateVars
<1>2. ASSUME NEW n \in Nodes, UserStep(n) \/ CallStep(n) \/ Fail(n) \/ RelayStep(n)
      PROVE  FALSE
  BY <1>2 DEF UserStep, CreateInvite, Pair, Send, Run, CallStep, CachedResponse, Refused, RouteMessage,
       HandshakeAccepted, HandshakeRejected, CommandAnswered, Fail, RelayStep, RegisterFrame, CommitsFrame,
       AckFrame, worldVars
<1>3. CASE FaultStep
  BY <1>3 DEF FaultStep, Disconnect, Crash, RelayRestart, Expire, worldVars
<1> QED
  BY <1>1, <1>2, <1>3 DEF Next

\* The preimage that is renewed is no longer issued.
LEMMA RenewalRetires ==
  ASSUME TypeOK, OwnedInv, NEW n \in Nodes, RenewPreimage(n), NEW p, p = task[n].preimage, p # fresh
  PROVE  p \notin Issued(n)'
<1> SUFFICES ASSUME p \in Issued(n)'
             PROVE  FALSE
  OBVIOUS
<1>1. PICK x, c : x = fresh /\ c = task[n].peer /\ p # x
  OBVIOUS
<1>2. /\ c \in DOMAIN peers[n] /\ At(n, "renew")
      /\ peers'[n] = Put(peers[n], c,
           [role |-> peers[n][c].role,
            issued_preimages |-> (peers[n][c].issued_preimages \ {p}) \cup {x},
            their_preimage |-> peers[n][c].their_preimage])
  BY <1>1, TaskFacts DEF RenewPreimage, Renewed, TypeOK
<1>3. PICK k \in DOMAIN peers'[n] : p \in peers'[n][k].issued_preimages
  BY DEF Issued
<1>4. k # c
  <2>1. p \notin (peers[n][c].issued_preimages \ {p}) \cup {x}
    BY <1>1
  <2> QED
    BY <1>2, <1>3, <2>1 DEF Put
<1>5. k \in DOMAIN peers[n] /\ peers'[n][k] = peers[n][k]
  BY <1>2, <1>3, <1>4 DEF Put
<1> QED
  BY <1>1, <1>2, <1>3, <1>4, <1>5, RenewalFacts

LEMMA RetiredParts == RetiredInv <=> \A p \in executed, n \in Nodes : RetiredAt(p, n)
BY DEF RetiredInv, RetiredAt

\* What a node has honoured stays retired at every node.
LEMMA RetiredStays ==
  ASSUME TypeOK, OwnedInv, Next, NEW p \in executed, p \in executed', NEW n \in Nodes, RetiredAt(p, n)
  PROVE  RetiredAt(p, n)'
<1>1. PICK x : x = fresh
  OBVIOUS
<1>2. p # x
  BY <1>1 DEF TypeOK, WorldOK, Preimages
<1>3. StateFrom(n, x)
  BY <1>1, StateGrows
<1>4. p \notin DOMAIN invites'[n] /\ \A m \in DOMAIN pending_peers'[n] : p # pending_peers'[n][m].my_preimage
  BY <1>2, <1>3 DEF StateFrom, RetiredAt
<1>5. p \in Issued(n)' => p \in Issued(n)
  BY <1>2, <1>3 DEF StateFrom, RetiredAt
<1>6. ASSUME p \in Issued(n)'
      PROVE  At(n, "renew")' /\ task'[n].preimage = p
  <2>1. At(n, "renew") /\ task[n].preimage = p
    BY <1>5, <1>6 DEF RetiredAt
  <2>2. ~ Crash(n)
    BY <2>1 DEF Crash
  <2>3. ~ RenewPreimage(n)
    BY <1>1, <1>2, <1>6, <2>1, RenewalRetires
  <2> QED
    BY <2>1, <2>2, <2>3, RenewalFollows DEF At
<1> QED
  BY <1>4, <1>6 DEF RetiredAt

\* What a node honours was its own to honour, and is retired by that.
LEMMA HonouredRetired ==
  ASSUME TypeOK, OwnedInv, Next, NEW p \in executed', p \notin executed, NEW k \in Nodes
  PROVE  RetiredAt(p, k)'
<1>1. PICK n \in Nodes :
        /\ p = Head(downlink[n]).preimage
        /\ \/ AcceptHandshake(n)
           \/ \E m, ok, cmds : IsCommand(n, m, cmds) /\ Executed(n, m, ok) /\ peers' = peers
  BY ExecutedGrows
<1>2. PICK x : x = fresh
  OBVIOUS
<1>3. PICK by, user : Owned(by, user)
  BY DEF OwnedInv
<1>4. PeersOwned(by, user, k) /\ PeersOwned(by, user, n) /\ StateOK(n) /\ x \notin Preimages
  BY <1>2, <1>3 DEF Owned, TypeOK, WorldOK, Preimages
<1>5. StateFrom(k, x)
  BY <1>2, StateGrows
<1>6. CASE AcceptHandshake(n)
  <2>1. p \in DOMAIN invites[n] /\ invites'[n] = Drop(invites[n], p)
    BY <1>1, <1>6 DEF AcceptHandshake, TypeOK
  <2>2. p \in DOMAIN given /\ by[p] = n /\ p # x
    BY <1>4, <2>1 DEF PeersOwned, StateOK
  <2>3. p \notin DOMAIN invites'[k]
    <3>1. CASE k = n
      BY <2>1, <3>1 DEF Drop, Restrict
    <3>2. CASE k # n
      BY <1>4, <1>5, <2>2, <3>2 DEF StateFrom, PeersOwned
    <3> QED
      BY <3>1, <3>2
  <2>4. p \notin Issued(k) /\ \A m \in DOMAIN pending_peers[k] : p # pending_peers[k][m].my_preimage
    BY <1>4, <2>2 DEF PeersOwned, Issued
  <2> QED
    BY <1>5, <2>2, <2>3, <2>4 DEF StateFrom, RetiredAt
<1>7. CASE \E m, ok, cmds : IsCommand(n, m, cmds) /\ Executed(n, m, ok) /\ peers' = peers
  <2>1. PICK m, ok, cmds : IsCommand(n, m, cmds) /\ Executed(n, m, ok) /\ peers' = peers
    BY <1>7
  <2>2. /\ m \in DOMAIN peers[n] /\ p \in peers[n][m].issued_preimages
        /\ task'[n].at = "renew" /\ task'[n].preimage = p
    BY <1>1, <2>1 DEF IsCommand, LookupPreimage, Executed, Goto, TypeOK
  <2>3. p \notin DOMAIN given /\ by[p] = n /\ p # x /\ p \in Issued(n)
    BY <1>4, <2>2 DEF PeersOwned, StateOK, Issued
  <2>4. p \notin DOMAIN invites'[k]
    BY <1>4, <1>5, <2>3 DEF StateFrom, PeersOwned
  <2>5. \A j \in DOMAIN pending_peers[k] : p # pending_peers[k][j].my_preimage
    BY <1>4, <2>3 DEF PeersOwned
  <2>6. p \in Issued(k)' => k = n
    <3>1. k # n => p \notin Issued(k)
      BY <1>4, <2>3 DEF PeersOwned, Issued
    <3> QED
      BY <2>1, <3>1 DEF Issued
  <2> QED
    BY <1>5, <2>2, <2>3, <2>4, <2>5, <2>6 DEF StateFrom, RetiredAt, At
<1> QED
  BY <1>1, <1>6, <1>7

LEMMA RetiredStep == TypeOK /\ OwnedInv /\ RetiredInv /\ [Next]_vars => RetiredInv'
<1> SUFFICES ASSUME TypeOK, OwnedInv, RetiredInv, [Next]_vars
             PROVE  RetiredInv'
  OBVIOUS
<1>1. CASE Next
  <2>1. ASSUME NEW p \in executed', NEW n \in Nodes
        PROVE  RetiredAt(p, n)'
    BY <1>1, RetiredParts, RetiredStays, HonouredRetired
  <2> QED
    BY <2>1 DEF RetiredInv, RetiredAt
<1>2. CASE UNCHANGED vars
  BY <1>2 DEF vars, stateVars, worldVars, RetiredInv, Issued, At
<1> QED
  BY <1>1, <1>2

LEMMA NodeRetires == Spec => []RetiredInv
<1>1. Init => RetiredInv
  BY DEF Init, RetiredInv
<1> QED
  BY <1>1, RetiredStep, NodeTypes, NodeOwnership, PTL DEF Spec

\* To honour a preimage is to take a command that was issued one, or an invite.
LEMMA HonoursFacts ==
  ASSUME TypeOK, Next, NEW n \in Nodes, NEW p, Honours(n, p)
  PROVE  p \in DOMAIN invites[n] \/ p \in Issued(n)
<1>1. CASE task'[n].at = "write" /\ p \in DOMAIN invites[n] \ DOMAIN invites'[n]
  BY <1>1
<1>2. CASE task'[n].at = "renew" /\ task'[n].preimage = p
  <2>1. At(n, "serving") /\ task'[n] # task[n]
    BY <1>2 DEF Honours, At
  <2>2. ASSUME NEW k \in Nodes, UserStep(k) \/ CallStep(k) \/ Fail(k)
        PROVE  FALSE
    <3>1. k # n
      BY <2>1, <2>2 DEF UserStep, CreateInvite, Pair, Send, Run, CallStep, CachedResponse, Refused,
           RouteMessage, HandshakeAccepted, HandshakeRejected, CommandAnswered, Fail, At
    <3>2. task' = task \/ \E t : task' = [task EXCEPT ![k] = t]
      BY <2>2 DEF UserStep, CreateInvite, Pair, Send, Run, CallStep, CachedResponse, Refused, RouteMessage,
           HandshakeAccepted, HandshakeRejected, CommandAnswered, Fail, Goto
    <3> QED
      BY <2>1, <3>1, <3>2 DEF TypeOK
  <2>3. ASSUME NEW k \in Nodes, RelayStep(k)
        PROVE  FALSE
    <3>1. task' = task \/ \E c, t : At(c, "routed") /\ task' = [task EXCEPT ![c] = t]
      BY <2>3 DEF RelayStep, RegisterFrame, CommitsFrame, AckFrame, Goto
    <3> QED
      BY <2>1, <3>1 DEF TypeOK, At
  <2>4. CASE FaultStep
    <3>1. task'[n] = task[n] \/ task'[n] = Idle
      BY <2>4 DEF FaultStep, Disconnect, Crash, RelayRestart, Expire, Goto, TypeOK
    <3> QED
      BY <1>2, <2>1, <3>1 DEF Idle
  <2>5. ASSUME NEW k \in Nodes, ServeStep(k)
        PROVE  p \in Issued(n)
    <3>1. \E t : task' = [task EXCEPT ![k] = t]
      BY <2>5 DEF ServeStep, AcceptHandshake, RejectHandshake, Unauthorized, RunHandler, RefuseCommand,
           InviteCreate, InviteDelete, Executed, RenewPreimage, WriteFrame, RunEnds, Goto
    <3>2. k = n
      BY <2>1, <3>1 DEF TypeOK
    <3>3. CASE AcceptHandshake(k) \/ RejectHandshake(k) \/ Unauthorized(k)
      <4>1. \E frames : task'[n] = Writing(frames)
        BY <3>2, <3>3 DEF AcceptHandshake, RejectHandshake, Unauthorized, Goto, TypeOK
      <4> QED
        BY <1>2, <4>1 DEF Writing
    <3>4. CASE RenewPreimage(k) \/ WriteFrame(k)
      BY <2>1, <3>2, <3>4 DEF RenewPreimage, WriteFrame, At
    <3>5. CASE RunEnds(k)
      BY <1>2, <3>2, <3>5 DEF RunEnds, Goto, TypeOK, Idle
    <3>6. CASE \E m, ok, cmds : IsCommand(k, m, cmds) /\ Executed(k, m, ok)
      <4>1. PICK m, ok, cmds : IsCommand(n, m, cmds) /\ Executed(n, m, ok)
        BY <3>2, <3>6
      <4>2. task'[n].preimage = Head(downlink[n]).preimage
        BY <4>1 DEF Executed, Goto, TypeOK
      <4> QED
        BY <1>2, <4>1, <4>2 DEF IsCommand, LookupPreimage, Issued
    <3> QED
      BY <2>5, <3>3, <3>4, <3>5, <3>6 DEF ServeStep, RunHandler, RefuseCommand, InviteCreate, InviteDelete
  <2> QED
    BY <2>2, <2>3, <2>4, <2>5 DEF Next
<1> QED
  BY <1>1, <1>2 DEF Honours

\* What was honoured stays so, but for a kill before it was saved.
LEMMA ForgottenKilled ==
  ASSUME TypeOK, Next, NEW p \in executed, p \notin executed'
  PROVE  \E n \in Nodes : KilledUnsaved(n, p)
<1>1. ASSUME NEW n \in Nodes, UserStep(n) \/ CallStep(n) \/ Fail(n) \/ RelayStep(n)
      PROVE  executed' = executed
  BY <1>1 DEF UserStep, CreateInvite, Pair, Send, Run, CallStep, CachedResponse, Refused, RouteMessage,
       HandshakeAccepted, HandshakeRejected, CommandAnswered, Fail, RelayStep, RegisterFrame,
       CommitsFrame, AckFrame, worldVars
<1>2. ASSUME NEW n \in Nodes, ServeStep(n)
      PROVE  executed \subseteq executed'
  BY <1>2 DEF ServeStep, AcceptHandshake, RejectHandshake, Unauthorized, RunHandler, RefuseCommand,
       InviteCreate, InviteDelete, Executed, RenewPreimage, WriteFrame, RunEnds, worldVars
<1>3. CASE FaultStep
  <2>1. PICK n \in Nodes : Crash(n)
    BY <1>3 DEF FaultStep, Disconnect, RelayRestart, Expire, worldVars
  <2>2. At(n, "renew") /\ task[n].preimage = p
    BY <2>1 DEF Crash
  <2>3. task'[n] = Idle
    BY <2>1 DEF Crash, Goto, TypeOK
  <2> QED
    BY <2>2, <2>3 DEF KilledUnsaved
<1> QED
  BY <1>1, <1>2, <1>3 DEF Next

\* No preimage is honoured twice, whatever is retried, lost or started again, as
\* long as no program is killed between the execution of a command and the save
\* of its renewed preimage (node.rs, handle_command): nothing else makes a
\* command that was executed count as one that was not.
THEOREM NodeHonoursOnce == Spec => HonouredOnce
<1>1. TypeOK /\ RetiredInv /\ [Next]_vars =>
        [\A p \in Preimages :
           /\ \A n \in Nodes : Honours(n, p) => p \notin executed
           /\ p \in executed \ executed' => \E n \in Nodes : KilledUnsaved(n, p)]_vars
  <2> SUFFICES ASSUME TypeOK, RetiredInv, Next, NEW p \in Preimages
               PROVE  /\ \A n \in Nodes : Honours(n, p) => p \notin executed
                      /\ p \in executed \ executed' => \E n \in Nodes : KilledUnsaved(n, p)
    OBVIOUS
  <2>1. ASSUME NEW n \in Nodes, Honours(n, p)
        PROVE  p \notin executed
    <3>1. p \in DOMAIN invites[n] \/ (p \in Issued(n) /\ At(n, "serving"))
      BY <2>1, HonoursFacts DEF Honours
    <3> QED
      BY <3>1 DEF RetiredInv, At
  <2>2. p \in executed \ executed' => \E n \in Nodes : KilledUnsaved(n, p)
    BY ForgottenKilled
  <2> QED
    BY <2>1, <2>2
<1> QED
  BY <1>1, NodeTypes, NodeRetires, PTL DEF Spec, HonouredOnce

==============================================================================
