---------------------------- MODULE NodeTouchProofs ----------------------------
(***************************************************************************)
(* Paired nodes of Node stay in touch: the invariants that this takes, and *)
(* the theorem.                                                            *)
(***************************************************************************)
EXTENDS NodeProofs

(***************************************************************************)
(* Where a preimage is                                                     *)
(***************************************************************************)

Carries(f, p) == f.type # "ACK" /\ Sha256(p) \in f.commits

\* Where the commit of p, or a message that uses p, is on its way to or from
\* node n.
Drafts(n, p) == {i \in DOMAIN task[n].frames : At(n, "write") /\ Carries(task[n].frames[i], p)}
Ups(n, p)    == {i \in DOMAIN uplink[n] : Carries(uplink[n][i], p)}
Downs(n, p)  == {i \in DOMAIN downlink[n] : downlink[n][i].preimage = p}

Registered(n, p) == n \in DOMAIN commits /\ Sha256(p) \in commits[n]
Renewing(n, p)   == At(n, "renew") /\ task[n].preimage = p

\* Nowhere.
Quiet(n, p) ==
  /\ Drafts(n, p) = {} /\ Ups(n, p) = {} /\ Downs(n, p) = {}
  /\ ~ Registered(n, p) /\ ~ Renewing(n, p)

AtMostOne(S) == \A i, j \in S : i = j

\* In one place at most.
Single(n, p) ==
  /\ AtMostOne(Drafts(n, p)) /\ AtMostOne(Ups(n, p)) /\ AtMostOne(Downs(n, p))
  /\ Drafts(n, p) = {} \/ Ups(n, p) = {}
  /\ (Drafts(n, p) = {} /\ Ups(n, p) = {}) \/ ~ Registered(n, p)
  /\ (Drafts(n, p) = {} /\ Ups(n, p) = {} /\ ~ Registered(n, p)) \/ Downs(n, p) = {}
  /\ (Drafts(n, p) = {} /\ Ups(n, p) = {} /\ ~ Registered(n, p) /\ Downs(n, p) = {}) \/ ~ Renewing(n, p)

Unanswered(p) == \A r \in Responses : r.to # p

\* A step that brings nothing new to the places of n.
LEMMA PlacesShrink ==
  ASSUME NEW n, NEW p,
         uplink'[n] \in {uplink[n], <<>>}, downlink'[n] \in {downlink[n], <<>>},
         task'[n] = task[n] \/ task'[n].at \notin {"write", "renew"},
         n \in DOMAIN commits' => n \in DOMAIN commits /\ commits'[n] \subseteq commits[n]
  PROVE  /\ Quiet(n, p) => Quiet(n, p)'
         /\ Single(n, p) => Single(n, p)'
<1>1. DOMAIN << >> = {}
  OBVIOUS
<1>2. Drafts(n, p)' \subseteq Drafts(n, p)
  BY DEF Drafts, At
<1>3. Ups(n, p)' \subseteq Ups(n, p) /\ Downs(n, p)' \subseteq Downs(n, p)
  BY <1>1 DEF Ups, Downs
<1>4. (Registered(n, p)' => Registered(n, p)) /\ (Renewing(n, p)' => Renewing(n, p))
  BY DEF Registered, Renewing, At
<1> QED
  BY <1>2, <1>3, <1>4 DEF Quiet, Single, AtMostOne

\* The relay takes the first frame, or the node its first delivery.
LEMMA TailPlaces ==
  ASSUME TypeOK, NEW n \in Nodes, NEW p
  PROVE  /\ uplink[n] # <<>> /\ uplink'[n] = Tail(uplink[n]) =>
              /\ Ups(n, p)' = {i \in Nat \ {0} : i + 1 \in Ups(n, p)}
              /\ Carries(Head(uplink[n]), p) <=> 1 \in Ups(n, p)
         /\ downlink[n] # <<>> /\ downlink'[n] = Tail(downlink[n]) =>
              /\ Downs(n, p)' = {i \in Nat \ {0} : i + 1 \in Downs(n, p)}
              /\ Head(downlink[n]).preimage = p <=> 1 \in Downs(n, p)
<1>1. uplink[n] \in Seq(Frame) /\ downlink[n] \in Seq(Delivery)
  BY DEF TypeOK, LinkOK
<1>2. ASSUME NEW S, NEW s \in Seq(S), s # <<>>
      PROVE  /\ DOMAIN Tail(s) = {i \in Nat \ {0} : i + 1 \in DOMAIN s}
             /\ \A i \in DOMAIN Tail(s) : Tail(s)[i] = s[i + 1]
             /\ 1 \in DOMAIN s /\ Head(s) = s[1]
  <2>1. Tail(s) \in Seq(S) /\ Len(Tail(s)) = Len(s) - 1 /\ Len(s) \in Nat \ {0}
    BY <1>2
  <2> QED
    BY <1>2, <2>1
<1>3. ASSUME uplink[n] # <<>>, uplink'[n] = Tail(uplink[n])
      PROVE  /\ Ups(n, p)' = {i \in Nat \ {0} : i + 1 \in Ups(n, p)}
             /\ Carries(Head(uplink[n]), p) <=> 1 \in Ups(n, p)
  BY <1>1, <1>2, <1>3 DEF Ups
<1>4. ASSUME downlink[n] # <<>>, downlink'[n] = Tail(downlink[n])
      PROVE  /\ Downs(n, p)' = {i \in Nat \ {0} : i + 1 \in Downs(n, p)}
             /\ Head(downlink[n]).preimage = p <=> 1 \in Downs(n, p)
  BY <1>1, <1>2, <1>4 DEF Downs
<1> QED
  BY <1>3, <1>4

\* A delivery, or a frame, is added.
LEMMA AppendFacts ==
  ASSUME NEW S, NEW s \in Seq(S), NEW e
  PROVE  /\ DOMAIN Append(s, e) = DOMAIN s \cup {Len(s) + 1} /\ Len(s) + 1 \notin DOMAIN s
         /\ \A i \in DOMAIN s : Append(s, e)[i] = s[i]
         /\ Append(s, e)[Len(s) + 1] = e
<1> DEFINE T == S \cup {e}
<1>1. s \in Seq(T) /\ e \in T
  OBVIOUS
<1>2. /\ Append(s, e) \in Seq(T) /\ Len(Append(s, e)) = Len(s) + 1
      /\ \A i \in 1 .. Len(s) : Append(s, e)[i] = s[i]
      /\ Append(s, e)[Len(s) + 1] = e
  BY <1>1, AppendProperties
<1>3. Len(s) \in Nat /\ DOMAIN s = 1 .. Len(s) /\ DOMAIN Append(s, e) = 1 .. Len(s) + 1
  BY <1>1, <1>2
<1> QED
  BY <1>2, <1>3

LEMMA UpAppended ==
  ASSUME TypeOK, NEW n \in Nodes, NEW p, NEW f, uplink'[n] = Append(uplink[n], f)
  PROVE  \E i : /\ i \notin Ups(n, p)
                /\ Ups(n, p)' = IF Carries(f, p) THEN Ups(n, p) \cup {i} ELSE Ups(n, p)
<1>1. uplink[n] \in Seq(Frame)
  BY DEF TypeOK, LinkOK
<1>2. PICK i : i = Len(uplink[n]) + 1
  OBVIOUS
<1>3. /\ DOMAIN uplink'[n] = DOMAIN uplink[n] \cup {i} /\ i \notin DOMAIN uplink[n]
      /\ \A j \in DOMAIN uplink[n] : uplink'[n][j] = uplink[n][j]
      /\ uplink'[n][i] = f
  BY <1>1, <1>2, AppendFacts
<1> QED
  BY <1>3 DEF Ups

LEMMA DownAppended ==
  ASSUME TypeOK, NEW n \in Nodes, NEW p, NEW d, downlink'[n] = Append(downlink[n], d)
  PROVE  \E i : /\ i \notin Downs(n, p)
                /\ Downs(n, p)' = IF d.preimage = p THEN Downs(n, p) \cup {i} ELSE Downs(n, p)
<1>1. downlink[n] \in Seq(Delivery)
  BY DEF TypeOK, LinkOK
<1>2. PICK i : i = Len(downlink[n]) + 1
  OBVIOUS
<1>3. /\ DOMAIN downlink'[n] = DOMAIN downlink[n] \cup {i} /\ i \notin DOMAIN downlink[n]
      /\ \A j \in DOMAIN downlink[n] : downlink'[n][j] = downlink[n][j]
      /\ downlink'[n][i] = d
  BY <1>1, <1>2, AppendFacts
<1> QED
  BY <1>3 DEF Downs

\* The relay moves a preimage on.
LEMMA RouteMoves ==
  ASSUME TypeOK, NEW k \in Nodes, RouteMessage(k), NEW n \in Nodes, NEW p
  PROVE  /\ Quiet(n, p) => Quiet(n, p)'
         /\ Single(n, p) => Single(n, p)'
<1>1. PICK m, q, d : m = task[k].to /\ q = task[k].preimage
                     /\ d = [from |-> k, preimage |-> q, payload |-> task[k].payload]
  OBVIOUS
<1>2. /\ m \in DOMAIN commits /\ Sha256(q) \in commits[m] /\ m \in Nodes \ {k} /\ uplink' = uplink
      /\ commits' = [commits EXCEPT ![m] = @ \ {Sha256(q)}]
      /\ downlink' = [downlink EXCEPT ![m] = Append(@, d)]
      /\ task' = [task EXCEPT ![k] = Routed(task[k])] /\ At(k, "sent")
  <2>1. m \in Nodes \ {k}
    BY <1>1, TaskFacts DEF RouteMessage, At, CallTask
  <2> QED
    BY <1>1, <2>1 DEF RouteMessage, Goto
<1>3. k \in DOMAIN task /\ n \in DOMAIN task /\ m \in DOMAIN downlink /\ n \in DOMAIN downlink
  BY <1>2 DEF TypeOK
<1>4. CASE n # m
  <2>1. task'[n] = task[n] \/ task'[n].at = "routed"
    <3>1. task[k] \in CallTask(k)
      BY <1>2, TaskFacts DEF At
    <3>2. Routed(task[k]).at = "routed"
      BY <3>1 DEF Routed, CallTask
    <3> QED
      BY <1>2, <1>3, <3>2
  <2>2. /\ uplink'[n] = uplink[n] /\ downlink'[n] = downlink[n]
        /\ n \in DOMAIN commits' => n \in DOMAIN commits /\ commits'[n] \subseteq commits[n]
    BY <1>2, <1>3, <1>4
  <2> QED
    BY <2>1, <2>2, PlacesShrink
<1>5. CASE n = m
  <2>1. /\ task'[n] = task[n] /\ uplink'[n] = uplink[n] /\ n \in DOMAIN commits /\ n \in DOMAIN commits'
        /\ commits'[n] = commits[n] \ {Sha256(q)} /\ downlink'[n] = Append(downlink[n], d)
    BY <1>2, <1>3, <1>5
  <2>2. Drafts(n, p)' = Drafts(n, p) /\ Ups(n, p)' = Ups(n, p) /\ (Renewing(n, p)' <=> Renewing(n, p))
    BY <2>1 DEF Drafts, Ups, Renewing, At
  <2>3. Registered(n, p)' <=> Registered(n, p) /\ p # q
    BY <2>1 DEF Registered, Sha256
  <2>4. PICK i : /\ i \notin Downs(n, p)
                 /\ Downs(n, p)' = IF d.preimage = p THEN Downs(n, p) \cup {i} ELSE Downs(n, p)
    BY <2>1, DownAppended
  <2>5. d.preimage = q /\ Registered(n, q)
    BY <1>1, <1>2, <1>5 DEF Registered
  <2>6. ASSUME Quiet(n, p)
        PROVE  Quiet(n, p)'
    BY <2>2, <2>3, <2>4, <2>5, <2>6 DEF Quiet
  <2>7. ASSUME Single(n, p)
        PROVE  Single(n, p)'
    BY <2>2, <2>3, <2>4, <2>5, <2>7 DEF Single, AtMostOne
  <2> QED
    BY <2>6, <2>7
<1> QED
  BY <1>4, <1>5

LEMMA RelayMoves ==
  ASSUME TypeOK, NEW k \in Nodes, RelayStep(k), NEW n \in Nodes, NEW p
  PROVE  /\ Quiet(n, p) => Quiet(n, p)'
         /\ Single(n, p) => Single(n, p)'
<1>1. /\ uplink[k] # <<>> /\ uplink' = [uplink EXCEPT ![k] = Tail(@)] /\ downlink' = downlink
      /\ k \in DOMAIN uplink /\ n \in DOMAIN uplink
  BY DEF RelayStep, RegisterFrame, CommitsFrame, AckFrame, linkVars, TypeOK
<1>2. PICK f : f = Head(uplink[k])
  OBVIOUS
<1>3. task'[n] = task[n] \/ (task[n].at = "routed" /\ task'[n].at = "answered")
  <2>1. CASE task' = task
    BY <2>1
  <2>2. CASE AckFrame(k) /\ task' # task
    <3>1. At(f.from, "routed") /\ task' = [task EXCEPT ![f.from] = Answered(@, f.response)]
      BY <1>2, <2>2 DEF AckFrame, Goto
    <3>2. CASE n = f.from
      <4>1. task[n] \in CallTask(n) /\ task'[n] = Answered(task[n], f.response)
        BY <3>1, <3>2, TaskFacts DEF At, TypeOK
      <4> QED
        BY <3>1, <3>2, <4>1 DEF Answered, CallTask, At
    <3>3. CASE n # f.from
      BY <3>1, <3>3 DEF TypeOK
    <3> QED
      BY <3>2, <3>3
  <2> QED
    BY <2>1, <2>2 DEF RelayStep, RegisterFrame, CommitsFrame
<1>4. CASE n # k
  <2>1. /\ uplink'[n] = uplink[n] /\ downlink'[n] = downlink[n]
    BY <1>1, <1>4
  <2>2. n \in DOMAIN commits' => n \in DOMAIN commits /\ commits'[n] \subseteq commits[n]
    BY <1>4 DEF RelayStep, RegisterFrame, CommitsFrame, AckFrame, Put
  <2> QED
    BY <1>3, <2>1, <2>2, PlacesShrink
<1>5. CASE n = k
  <2>1. /\ Ups(n, p)' = {i \in Nat \ {0} : i + 1 \in Ups(n, p)} /\ (Carries(f, p) <=> 1 \in Ups(n, p))
        /\ Downs(n, p)' = Downs(n, p)
    BY <1>1, <1>2, <1>5, TailPlaces DEF Downs
  <2>2. Drafts(n, p)' = Drafts(n, p) /\ (Renewing(n, p)' <=> Renewing(n, p))
    BY <1>3 DEF Drafts, Renewing, At
  <2>3. Registered(n, p)' => Registered(n, p) \/ Carries(f, p)
    <3>1. CASE RegisterFrame(k)
      BY <1>2, <1>5, <3>1 DEF RegisterFrame, Put, Registered, Carries
    <3>2. CASE CommitsFrame(k)
      BY <1>2, <1>5, <3>2 DEF CommitsFrame, Registered, Carries
    <3>3. CASE AckFrame(k)
      BY <3>3 DEF AckFrame, Registered
    <3> QED
      BY <3>1, <3>2, <3>3 DEF RelayStep
  <2>4. Ups(n, p) \subseteq Nat \ {0}
    <3>1. uplink[n] \in Seq(Frame)
      BY DEF TypeOK, LinkOK
    <3> QED
      BY <3>1 DEF Ups
  <2>5. ASSUME Quiet(n, p)
        PROVE  Quiet(n, p)'
    BY <2>1, <2>2, <2>3, <2>5 DEF Quiet
  <2>6. ASSUME Single(n, p)
        PROVE  Single(n, p)'
    <3>1. AtMostOne(Ups(n, p))'
      BY <2>1, <2>4, <2>6 DEF Single, AtMostOne
    <3>2. CASE Ups(n, p) = {}
      BY <2>1, <2>2, <2>3, <2>6, <3>1, <3>2 DEF Single, AtMostOne
    <3>3. CASE Ups(n, p) # {}
      <4>1. Drafts(n, p)' = {} /\ Downs(n, p)' = {} /\ ~ Renewing(n, p)' /\ ~ Registered(n, p)
        BY <2>1, <2>2, <2>6, <3>3 DEF Single
      <4>2. Registered(n, p)' => Ups(n, p)' = {}
        BY <2>1, <2>3, <2>4, <2>6, <4>1 DEF Single, AtMostOne
      <4> QED
        BY <3>1, <4>1, <4>2 DEF Single, AtMostOne
    <3> QED
      BY <3>2, <3>3
  <2> QED
    BY <2>5, <2>6
<1> QED
  BY <1>4, <1>5

\* What was not drawn is nowhere.
LEMMA CommitsTyped ==
  ASSUME TypeOK, NEW n \in Nodes
  PROVE  AllCommits(n) \subseteq CommitsOf(Preimages)
<1>1. StateOK(n)
  BY DEF TypeOK
<1> QED
  BY <1>1 DEF AllCommits, CommitsOf, Issued, StateOK

LEMMA UndrawnQuiet ==
  ASSUME TypeOK, NEW n \in Nodes, NEW p, p \notin Preimages
  PROVE  /\ Quiet(n, p) /\ Single(n, p) /\ Unanswered(p)
         /\ Sha256(p) \notin AllCommits(n) /\ p \notin DOMAIN given
<1>1. Sha256(p) \notin CommitsOf(Preimages)
  BY DEF CommitsOf, Sha256
<1>2. \A k \in Nodes : \A f \in Frames(k) : ~ Carries(f, p) /\ (f.type = "ACK" => f.preimage # p)
  BY <1>1, FramesTypes, FrameFacts DEF Carries
<1>3. Drafts(n, p) = {} /\ Ups(n, p) = {}
  BY <1>2 DEF Drafts, Ups, Frames
<1>4. Downs(n, p) = {}
  <2>1. ASSUME NEW i \in DOMAIN downlink[n]
        PROVE  downlink[n][i].preimage \in Preimages
    <3>1. downlink[n][i] \in Delivery
      BY DEF TypeOK, LinkOK
    <3> QED
      BY <3>1 DEF Delivery
  <2> QED
    BY <2>1 DEF Downs
<1>5. ~ Registered(n, p)
  BY <1>1 DEF Registered, TypeOK, LinkOK
<1>6. ~ Renewing(n, p)
  BY TaskFacts DEF Renewing
<1>7. Unanswered(p)
  <2>1. p \notin DOMAIN response_cache
    BY DEF TypeOK, RelayOK
  <2>2. \A k \in Nodes : At(k, "answered") => task[k].preimage # p
    BY TaskFacts DEF At, CallTask
  <2> QED
    BY <1>2, <2>1, <2>2 DEF Unanswered, Responses
<1>8. p \notin DOMAIN given
  BY DEF TypeOK, WorldOK
<1> QED
  BY <1>1, <1>3, <1>4, <1>5, <1>6, <1>7, <1>8, CommitsTyped DEF Quiet, Single, AtMostOne

\* A node that runs has no other link; what it announces it announces once.
LEMMA RunMoves ==
  ASSUME TypeOK, NEW k \in Nodes, Run(k), ReachableAt(k), NEW n \in Nodes, NEW p
  PROVE  /\ Quiet(n, p) => Quiet(n, p)' \/ (n = k /\ Sha256(p) \in AllCommits(k))
         /\ Single(n, p) => Single(n, p)'
<1>1. /\ uplink' = [uplink EXCEPT ![k] = <<IAm(AllCommits(k))>>] /\ downlink' = [downlink EXCEPT ![k] = <<>>]
      /\ task' = [task EXCEPT ![k] = Serving] /\ commits' = commits /\ At(k, "idle")
      /\ {DOMAIN uplink, DOMAIN downlink, DOMAIN task} = {Nodes}
  BY DEF Run, Goto, relayVars, TypeOK
<1>2. CASE n # k
  <2>1. uplink'[n] = uplink[n] /\ downlink'[n] = downlink[n] /\ task'[n] = task[n]
    BY <1>1, <1>2
  <2> QED
    BY <1>1, <2>1, PlacesShrink
<1>3. CASE n = k
  <2>1. k \notin DOMAIN commits
    BY <1>1 DEF ReachableAt, At, TypeOK, LinkOK
  <2>2. /\ uplink'[n] = <<IAm(AllCommits(k))>> /\ downlink'[n] = <<>> /\ task'[n] = Serving
    BY <1>1, <1>3
  <2>3. DOMAIN <<IAm(AllCommits(k))>> = {1} /\ DOMAIN << >> = {}
    OBVIOUS
  <2>4. Drafts(n, p)' = {} /\ Downs(n, p)' = {} /\ ~ Registered(n, p)' /\ ~ Renewing(n, p)'
    BY <1>1, <1>3, <2>1, <2>2, <2>3 DEF Drafts, Downs, Registered, Renewing, Serving, At
  <2>5. Ups(n, p)' = IF Sha256(p) \in AllCommits(k) THEN {1} ELSE {}
    BY <2>2, <2>3 DEF Ups, Carries, IAm
  <2> QED
    BY <1>3, <2>4, <2>5 DEF Quiet, Single, AtMostOne
<1> QED
  BY <1>2, <1>3

LEMMA CallMoves ==
  ASSUME TypeOK, NEW k \in Nodes, CallStep(k) \/ Fail(k), NEW n \in Nodes, NEW p
  PROVE  /\ Quiet(n, p) => Quiet(n, p)'
         /\ Single(n, p) => Single(n, p)'
<1>1. CASE RouteMessage(k)
  BY <1>1, RouteMoves
<1>2. CASE ~ RouteMessage(k)
  <2>1. /\ UNCHANGED <<linkVars, commits>>
        /\ \/ Goto(k, Idle)
           \/ CachedResponse(k)
    BY <1>2 DEF CallStep, CachedResponse, Refused, HandshakeAccepted, HandshakeRejected, CommandAnswered,
         Fail, relayVars
  <2>2. task'[n] = task[n] \/ task'[n].at \in {"idle", "answered"}
    <3>1. CASE Goto(k, Idle)
      BY <3>1 DEF Goto, Idle, TypeOK
    <3>2. CASE CachedResponse(k)
      <4>1. task[k] \in CallTask(k)
        BY <3>2, TaskFacts DEF CachedResponse, At
      <4>2. \A r : Answered(task[k], r).at = "answered"
        BY <4>1 DEF Answered, CallTask
      <4> QED
        BY <3>2, <4>2 DEF CachedResponse, Goto, TypeOK
    <3> QED
      BY <2>1, <3>1, <3>2
  <2> QED
    BY <2>1, <2>2, PlacesShrink DEF linkVars
<1> QED
  BY <1>1, <1>2

LEMMA FaultMoves ==
  ASSUME TypeOK, FaultStep, NEW n \in Nodes, NEW p
  PROVE  /\ Quiet(n, p) => Quiet(n, p)'
         /\ Single(n, p) => Single(n, p)'
<1>1. ASSUME NEW ns, Unlink(ns)
      PROVE  /\ uplink'[n] \in {uplink[n], <<>>} /\ downlink'[n] \in {downlink[n], <<>>}
             /\ n \in DOMAIN commits' => n \in DOMAIN commits /\ commits'[n] \subseteq commits[n]
  BY <1>1 DEF Unlink, Restrict
<1>2. task'[n] = task[n] \/ task'[n] = Idle
  BY DEF FaultStep, Disconnect, Crash, RelayRestart, Expire, Goto, TypeOK
<1>3. (\E ns : Unlink(ns)) \/ UNCHANGED <<uplink, downlink, commits>>
  BY DEF FaultStep, Disconnect, Crash, RelayRestart, Expire, linkVars
<1> QED
  BY <1>1, <1>2, <1>3, PlacesShrink DEF Idle

\* A handler has taken its first delivery, or none, and goes on to write
\* frames with at most the commit of the preimage it has drawn.
LEMMA HandlerMoves ==
  ASSUME TypeOK, NEW n \in Nodes, NEW p, At(n, "serving") \/ At(n, "renew"), UNCHANGED <<uplink, commits>>,
         downlink'[n] = downlink[n] \/ (downlink[n] # <<>> /\ downlink'[n] = Tail(downlink[n])),
         NEW frames, task'[n] = Writing(frames), NEW x, x \notin Preimages,
         AtMostOne({i \in DOMAIN frames : Carries(frames[i], x)}),
         \A i \in DOMAIN frames : p # x => ~ Carries(frames[i], p)
  PROVE  /\ Quiet(n, p) /\ p # x => Quiet(n, p)'
         /\ Single(n, p) => Single(n, p)'
<1>1. Drafts(n, p)' = {i \in DOMAIN frames : Carries(frames[i], p)}
  BY DEF Drafts, Writing, At
<1>2. /\ Ups(n, p)' = Ups(n, p) /\ (Registered(n, p)' <=> Registered(n, p)) /\ ~ Renewing(n, p)'
  BY DEF Ups, Registered, Renewing, Writing, At
<1>3. Downs(n, p)' = Downs(n, p) \/ Downs(n, p)' = {i \in Nat \ {0} : i + 1 \in Downs(n, p)}
  <2>1. CASE downlink'[n] = downlink[n]
    BY <2>1 DEF Downs
  <2>2. CASE downlink[n] # <<>> /\ downlink'[n] = Tail(downlink[n])
    BY <2>2, TailPlaces
  <2> QED
    BY <2>1, <2>2
<1>4. Drafts(n, p) = {}
  BY DEF Drafts, At
<1>5. Downs(n, p) \subseteq Nat
  <2>1. downlink[n] \in Seq(Delivery)
    BY DEF TypeOK, LinkOK
  <2> QED
    BY <2>1 DEF Downs
<1>6. (Downs(n, p) = {} => Downs(n, p)' = {}) /\ (AtMostOne(Downs(n, p)) => AtMostOne(Downs(n, p))')
  BY <1>3, <1>5 DEF AtMostOne
<1>7. CASE p # x
  BY <1>1, <1>2, <1>4, <1>6, <1>7 DEF Quiet, Single, AtMostOne
<1>8. CASE p = x
  <2>1. Quiet(n, p)
    BY <1>8, UndrawnQuiet
  <2>2. Drafts(n, p)' = {i \in DOMAIN frames : Carries(frames[i], x)}
    BY <1>1, <1>8
  <2>3. AtMostOne(Drafts(n, p))'
    BY <2>2 DEF AtMostOne
  <2> QED
    BY <1>2, <1>6, <1>8, <2>1, <2>3 DEF Quiet, Single, AtMostOne
<1> QED
  BY <1>7, <1>8

\* A command is executed: its preimage is being renewed.
LEMMA ExecutedMoves ==
  ASSUME TypeOK, NEW n \in Nodes, NEW p, NEW m, NEW ok, NEW cmds, IsCommand(n, m, cmds), Executed(n, m, ok),
         UNCHANGED <<uplink, commits>>
  PROVE  /\ Quiet(n, p) => Quiet(n, p)'
         /\ Single(n, p) => Single(n, p)'
<1>1. PICK d : d = Head(downlink[n])
  OBVIOUS
<1>2. At(n, "serving") /\ downlink[n] # <<>> /\ downlink'[n] = Tail(downlink[n])
  BY DEF IsCommand, Receives, TypeOK
<1>3. task'[n].at = "renew" /\ task'[n].preimage = d.preimage
  BY <1>1 DEF Executed, Goto, TypeOK
<1>4. /\ Downs(n, p)' = {i \in Nat \ {0} : i + 1 \in Downs(n, p)}
      /\ Renewing(n, p)' <=> 1 \in Downs(n, p)
  BY <1>1, <1>2, <1>3, TailPlaces DEF Renewing, At
<1>5. /\ Drafts(n, p) = {} /\ Drafts(n, p)' = {} /\ Ups(n, p)' = Ups(n, p) /\ ~ Renewing(n, p)
      /\ Registered(n, p)' <=> Registered(n, p)
  BY <1>2, <1>3 DEF Drafts, Ups, Registered, Renewing, At
<1>6. Downs(n, p) \subseteq Nat \ {0}
  <2>1. downlink[n] \in Seq(Delivery)
    BY DEF TypeOK, LinkOK
  <2> QED
    BY <2>1 DEF Downs
<1>7. ASSUME Quiet(n, p)
      PROVE  Quiet(n, p)'
  BY <1>4, <1>5, <1>7 DEF Quiet
<1>8. ASSUME Single(n, p)
      PROVE  Single(n, p)'
  <2>1. AtMostOne(Downs(n, p))'
    BY <1>4, <1>6, <1>8 DEF Single, AtMostOne
  <2>2. Renewing(n, p)' => Downs(n, p)' = {} /\ Ups(n, p)' = {} /\ ~ Registered(n, p)'
    BY <1>4, <1>5, <1>6, <1>8 DEF Single, AtMostOne
  <2>3. Downs(n, p)' # {} => Ups(n, p)' = {} /\ ~ Registered(n, p)'
    BY <1>4, <1>5, <1>8 DEF Single
  <2> QED
    BY <1>4, <1>5, <1>8, <2>1, <2>2, <2>3 DEF Single, AtMostOne
<1> QED
  BY <1>7, <1>8

LEMMA WriteMoves ==
  ASSUME TypeOK, NEW n \in Nodes, NEW p, WriteFrame(n)
  PROVE  /\ Quiet(n, p) => Quiet(n, p)'
         /\ Single(n, p) => Single(n, p)'
<1>1. PICK frames : frames = task[n].frames
  OBVIOUS
<1>2. At(n, "write") /\ frames \in Seq(Frame) /\ Len(frames) \in {1, 2}
  BY <1>1, TaskFacts DEF WriteFrame
<1>3. /\ uplink'[n] = Append(uplink[n], Head(frames)) /\ UNCHANGED <<downlink, commits>>
      /\ task'[n] = IF Len(frames) = 1 THEN Serving ELSE Writing(Tail(frames))
  BY <1>1 DEF WriteFrame, Goto, TypeOK, relayVars
<1>4. /\ Head(frames) = frames[1] /\ DOMAIN frames = 1 .. Len(frames)
      /\ Len(frames) = 2 => DOMAIN Tail(frames) = {1} /\ Tail(frames)[1] = frames[2]
  <2>1. Len(frames) = 2 => Tail(frames) \in Seq(Frame) /\ Len(Tail(frames)) = 1 /\ Tail(frames)[1] = frames[2]
    BY <1>2
  <2>2. \A s \in Seq(Frame) : Len(s) = 1 => DOMAIN s = {1}
    OBVIOUS
  <2>3. Head(frames) = frames[1] /\ DOMAIN frames = 1 .. Len(frames)
    BY <1>2
  <2> QED
    BY <2>1, <2>2, <2>3
<1>5. Drafts(n, p) = {i \in 1 .. Len(frames) : Carries(frames[i], p)}
  BY <1>1, <1>2, <1>4 DEF Drafts
<1>6. Drafts(n, p)' = {i \in {1} : Len(frames) = 2 /\ Carries(frames[2], p)}
  <2>1. CASE Len(frames) = 1
    BY <1>3, <2>1 DEF Drafts, Serving, At
  <2>2. CASE Len(frames) = 2
    <3>1. task'[n].at = "write" /\ task'[n].frames = Tail(frames)
      BY <1>3, <2>2 DEF Writing
    <3> QED
      BY <1>4, <2>2, <3>1 DEF Drafts, At
  <2> QED
    BY <1>2, <2>1, <2>2
<1>7. PICK i : /\ i \notin Ups(n, p)
               /\ Ups(n, p)' = IF Carries(frames[1], p) THEN Ups(n, p) \cup {i} ELSE Ups(n, p)
  BY <1>3, <1>4, UpAppended
<1>8. /\ Downs(n, p)' = Downs(n, p) /\ ~ Renewing(n, p) /\ ~ Renewing(n, p)'
      /\ Registered(n, p)' <=> Registered(n, p)
  BY <1>2, <1>3 DEF Downs, Renewing, Registered, Serving, Writing, At
<1>9. ASSUME Drafts(n, p) = {}
      PROVE  Drafts(n, p)' = {} /\ Ups(n, p)' = Ups(n, p)
  BY <1>2, <1>5, <1>6, <1>7, <1>9
<1>10. ASSUME Drafts(n, p) # {}, AtMostOne(Drafts(n, p)), Ups(n, p) = {}
       PROVE  AtMostOne(Drafts(n, p))' /\ AtMostOne(Ups(n, p))' /\ (Drafts(n, p)' = {} \/ Ups(n, p)' = {})
  BY <1>2, <1>5, <1>6, <1>7, <1>10 DEF AtMostOne
<1>11. ASSUME Quiet(n, p)
       PROVE  Quiet(n, p)'
  BY <1>8, <1>9, <1>11 DEF Quiet
<1>12. ASSUME Single(n, p)
       PROVE  Single(n, p)'
  <2>1. CASE Drafts(n, p) = {}
    BY <1>8, <1>9, <1>12, <2>1 DEF Single, AtMostOne
  <2>2. CASE Drafts(n, p) # {}
    BY <1>8, <1>10, <1>12, <2>2 DEF Single
  <2> QED
    BY <2>1, <2>2
<1> QED
  BY <1>11, <1>12

\* A preimage that node k draws in a step, and writes the commit of.
Draws(k) == AcceptHandshake(k) \/ RenewPreimage(k)

LEMMA ServeMoves ==
  ASSUME TypeOK, NEW k \in Nodes, ServeStep(k), NEW n \in Nodes, NEW p
  PROVE  /\ Quiet(n, p) => Quiet(n, p)' \/ (n = k /\ p = fresh /\ Draws(k))
         /\ Single(n, p) => Single(n, p)'
<1>1. PICK x : x = fresh /\ x \notin Preimages
  BY DEF TypeOK, WorldOK, Preimages
<1>2. UNCHANGED commits
  BY DEF ServeStep, AcceptHandshake, RejectHandshake, Unauthorized, RunHandler, RefuseCommand, InviteCreate,
       InviteDelete, RenewPreimage, WriteFrame, RunEnds, relayVars
<1>3. CASE n # k
  <2>1. /\ uplink' = uplink \/ \E s : uplink' = [uplink EXCEPT ![k] = s]
        /\ downlink' = downlink \/ \E s : downlink' = [downlink EXCEPT ![k] = s]
        /\ \E t : task' = [task EXCEPT ![k] = t]
    BY DEF ServeStep, AcceptHandshake, RejectHandshake, Unauthorized, RunHandler, RefuseCommand, InviteCreate,
         InviteDelete, IsCommand, Executed, Receives, RenewPreimage, WriteFrame, RunEnds, Goto, linkVars
  <2>2. uplink'[n] = uplink[n] /\ downlink'[n] = downlink[n] /\ task'[n] = task[n]
    BY <1>3, <2>1 DEF TypeOK
  <2> QED
    BY <1>2, <2>2, PlacesShrink
<1>4. CASE n = k
  <2>1. PICK d : d = Head(downlink[n])
    OBVIOUS
  <2>2. CASE AcceptHandshake(n)
    <3>1. PICK f, g : /\ f = Ack(d.from, d.preimage, HandshakeComplete(TRUE, x))
                      /\ g = UpdateCommits({Sha256(x)})
      OBVIOUS
    <3>2. /\ At(n, "serving") /\ downlink[n] # <<>> /\ downlink'[n] = Tail(downlink[n])
          /\ task'[n] = Writing(<<f, g>>) /\ UNCHANGED uplink
      BY <1>1, <2>1, <2>2, <3>1 DEF AcceptHandshake, Receives, Goto, TypeOK
    <3>3. /\ DOMAIN <<f, g>> = {1, 2} /\ <<f, g>>[1] = f /\ <<f, g>>[2] = g
          /\ \A q : ~ Carries(f, q) /\ (Carries(g, q) <=> q = x)
      BY <3>1 DEF Carries, Ack, UpdateCommits, Sha256
    <3>4. AtMostOne({i \in DOMAIN <<f, g>> : Carries(<<f, g>>[i], x)})
      BY <3>3 DEF AtMostOne
    <3> QED
      BY <1>1, <1>2, <1>4, <2>2, <3>2, <3>3, <3>4, HandlerMoves DEF Draws
  <2>3. CASE RenewPreimage(n)
    <3>1. PICK f, g : f = UpdateCommits({Sha256(x)}) /\ g = RenewalAck(n)
      OBVIOUS
    <3>2. /\ At(n, "renew") /\ downlink'[n] = downlink[n]
          /\ task'[n] = Writing(<<f, g>>) /\ UNCHANGED uplink
      BY <1>1, <2>3, <3>1 DEF RenewPreimage, Goto, TypeOK, linkVars
    <3>3. /\ DOMAIN <<f, g>> = {1, 2} /\ <<f, g>>[1] = f /\ <<f, g>>[2] = g
          /\ \A q : (Carries(f, q) <=> q = x) /\ ~ Carries(g, q)
      BY <3>1 DEF Carries, RenewalAck, Ack, UpdateCommits, Sha256
    <3>4. AtMostOne({i \in DOMAIN <<f, g>> : Carries(<<f, g>>[i], x)})
      BY <3>3 DEF AtMostOne
    <3> QED
      BY <1>1, <1>2, <1>4, <2>3, <3>2, <3>3, <3>4, HandlerMoves DEF Draws
  <2>4. CASE RejectHandshake(n) \/ Unauthorized(n)
    <3>1. PICK f : /\ \A q : ~ Carries(f, q)
                   /\ task'[n] = Writing(<<f>>)
      BY <2>4 DEF RejectHandshake, Unauthorized, Goto, TypeOK, Carries, Ack
    <3>2. /\ At(n, "serving") /\ downlink[n] # <<>> /\ downlink'[n] = Tail(downlink[n]) /\ UNCHANGED uplink
      BY <2>4 DEF RejectHandshake, Unauthorized, Receives, TypeOK
    <3>3. DOMAIN <<f>> = {1} /\ <<f>>[1] = f
      OBVIOUS
    <3>4. AtMostOne({i \in DOMAIN <<f>> : Carries(<<f>>[i], 0)}) /\ 0 \notin Preimages
      BY <3>1, <3>3 DEF AtMostOne, Preimages
    <3>5. CASE p # 0
      BY <1>2, <3>1, <3>2, <3>3, <3>4, <3>5, HandlerMoves
    <3>6. CASE p = 0
      <4>1. Quiet(n, p)
        BY <3>4, <3>6, UndrawnQuiet
      <4>2. PICK y : y = fresh + 1 /\ y \notin Preimages /\ y # p
        BY <3>6 DEF TypeOK, WorldOK, Preimages
      <4>3. AtMostOne({i \in DOMAIN <<f>> : Carries(<<f>>[i], y)})
        BY <3>1, <3>3 DEF AtMostOne
      <4> QED
        BY <1>2, <3>1, <3>2, <3>3, <4>2, <4>3, HandlerMoves
    <3> QED
      BY <3>5, <3>6
  <2>5. CASE WriteFrame(n)
    BY <2>5, WriteMoves
  <2>6. CASE RunEnds(n)
    <3>1. task'[n] = Idle /\ UNCHANGED <<uplink, downlink>>
      BY <2>6 DEF RunEnds, Goto, TypeOK, linkVars
    <3> QED
      BY <1>2, <3>1, PlacesShrink DEF Idle
  <2>7. CASE \E m, ok, cmds : IsCommand(n, m, cmds) /\ Executed(n, m, ok) /\ UNCHANGED uplink
    BY <1>2, <2>7, ExecutedMoves
  <2> QED
    BY <1>4, <2>2, <2>3, <2>4, <2>5, <2>6, <2>7
       DEF ServeStep, RunHandler, RefuseCommand, InviteCreate, InviteDelete
<1> QED
  BY <1>3, <1>4

\* A preimage that is nowhere comes to node n when n draws it, or signs in with
\* its commit; one that is in one place is not copied.
LEMMA Moves ==
  ASSUME TypeOK, [Next]_vars, NEW n \in Nodes, ReachableAt(n), NEW p
  PROVE  /\ Quiet(n, p) => \/ Quiet(n, p)'
                           \/ Run(n) /\ Sha256(p) \in AllCommits(n)
                           \/ Draws(n) /\ p = fresh
         /\ Single(n, p) => Single(n, p)'
<1>1. ASSUME NEW k \in Nodes, UserStep(k), ~ Run(k)
      PROVE  /\ Quiet(n, p) => Quiet(n, p)'
             /\ Single(n, p) => Single(n, p)'
  <2>1. UNCHANGED <<uplink, downlink, commits>>
    BY <1>1 DEF UserStep, CreateInvite, Pair, Send, linkVars, relayVars
  <2>2. task'[n] = task[n] \/ task'[n].at = "sent"
    <3>1. task' = task \/ \E to, q, payload : task' = [task EXCEPT ![k] = Call(to, q, payload)]
      BY <1>1 DEF UserStep, CreateInvite, Pair, Send, Goto
    <3> QED
      BY <3>1 DEF Call, TypeOK
  <2> QED
    BY <2>1, <2>2, PlacesShrink
<1>2. ASSUME NEW k \in Nodes, Run(k)
      PROVE  /\ Quiet(n, p) => Quiet(n, p)' \/ (Run(n) /\ Sha256(p) \in AllCommits(n))
             /\ Single(n, p) => Single(n, p)'
  <2>1. CASE k = n
    BY <1>2, <2>1, RunMoves
  <2>2. CASE k # n
    <3>1. uplink'[n] = uplink[n] /\ downlink'[n] = downlink[n] /\ task'[n] = task[n] /\ commits' = commits
      BY <1>2, <2>2 DEF Run, Goto, relayVars, TypeOK
    <3> QED
      BY <3>1, PlacesShrink
  <2> QED
    BY <2>1, <2>2
<1>3. CASE UNCHANGED vars
  BY <1>3, PlacesShrink DEF vars, linkVars, relayVars
<1> QED
  BY <1>1, <1>2, <1>3, CallMoves, RelayMoves, ServeMoves, FaultMoves DEF Next

(***************************************************************************)
(* Where responses come from, and where they go                            *)
(***************************************************************************)

Answer(p, r) == [to |-> p, body |-> r]

LEMMA ResponsesAre ==
  ASSUME NEW r
  PROVE  /\ r \in Responses <=>
              \/ \E p \in DOMAIN response_cache : r = Answer(p, response_cache[p])
              \/ \E n \in Nodes : \E f \in Frames(n) : f.type = "ACK" /\ r = Answer(f.preimage, f.response)
              \/ \E n \in Nodes : At(n, "answered") /\ r = Answer(task[n].preimage, task[n].response)
         /\ r \in Responses' <=>
              \/ \E p \in DOMAIN response_cache' : r = Answer(p, response_cache'[p])
              \/ \E n \in Nodes : \E f \in Frames(n)' : f.type = "ACK" /\ r = Answer(f.preimage, f.response)
              \/ \E n \in Nodes : At(n, "answered")' /\ r = Answer(task'[n].preimage, task'[n].response)
BY DEF Responses, Answer

\* What a handler answers that renews nothing.
Declines(n) == AcceptHandshake(n) \/ RejectHandshake(n) \/ Unauthorized(n)

Declined(n, p, r) ==
  Declines(n) /\ p = Head(downlink[n]).preimage /\ (r.msg = "response" => r.next = None)

RenewedWith(n, p, r) ==
  RenewPreimage(n) /\ p = task[n].preimage /\ r = Response(task[n].ok, task[n].cmd, fresh)

LEMMA FramesFrom ==
  ASSUME TypeOK, [Next]_vars, NEW n \in Nodes, NEW f \in Frames(n)', f.type = "ACK"
  PROVE  \/ f \in Frames(n)
         \/ Declined(n, f.preimage, f.response)
         \/ RenewedWith(n, f.preimage, f.response)
<1> DEFINE Goal == \/ f \in Frames(n)
                   \/ Declined(n, f.preimage, f.response)
                   \/ RenewedWith(n, f.preimage, f.response)
<1>0. \A s \in {<<>>} : DOMAIN s = {}
  OBVIOUS
<1>1. ASSUME uplink'[n] = uplink[n] \/ uplink'[n] = <<>>,
             task'[n] = task[n] \/ task'[n].at # "write"
      PROVE  Goal
  BY <1>0, <1>1 DEF Frames, At
<1>2. ASSUME NEW k \in Nodes, UserStep(k) \/ CallStep(k) \/ Fail(k)
      PROVE  Goal
  <2>1. task'[n] = task[n] \/ task'[n].at # "write"
    <3>1. \/ task' = task
          \/ \E to, p, payload : task' = [task EXCEPT ![k] = Call(to, p, payload)]
          \/ \E t \in {Idle, Serving} : task' = [task EXCEPT ![k] = t]
          \/ At(k, "sent") /\ \E t : task' = [task EXCEPT ![k] = t] /\ t = Routed(task[k])
          \/ At(k, "sent") /\ \E t, r : task' = [task EXCEPT ![k] = t] /\ t = Answered(task[k], r)
      BY <1>2 DEF UserStep, CreateInvite, Pair, Send, Run, CallStep, CachedResponse, Refused, RouteMessage,
           HandshakeAccepted, HandshakeRejected, CommandAnswered, Fail, Goto
    <3>2. At(k, "sent") => /\ Routed(task[k]).at = "routed"
                           /\ \A r : Answered(task[k], r).at = "answered"
      BY TaskFacts DEF At, CallTask, Routed, Answered
    <3> QED
      BY <3>1, <3>2 DEF TypeOK, Call, Idle, Serving
  <2>2. CASE ~ Run(k)
    <3>1. uplink' = uplink
      BY <1>2, <2>2 DEF UserStep, CreateInvite, Pair, Send, CallStep, CachedResponse, Refused, RouteMessage,
           HandshakeAccepted, HandshakeRejected, CommandAnswered, Fail, linkVars
    <3> QED
      BY <1>1, <2>1, <3>1
  <2>3. CASE Run(k)
    <3>1. uplink' = [uplink EXCEPT ![k] = <<IAm(AllCommits(k))>>] /\ IAm(AllCommits(k)).type = "I_AM"
      BY <2>3 DEF Run, IAm
    <3>2. n # k => uplink'[n] = uplink[n]
      BY <3>1 DEF TypeOK
    <3>3. CASE n = k
      <4>1. uplink'[n] = <<IAm(AllCommits(k))>> /\ task'[n] = Serving
        BY <2>3, <3>1, <3>3 DEF Run, Goto, TypeOK
      <4>2. \A i \in DOMAIN uplink'[n] : uplink'[n][i].type = "I_AM"
        BY <3>1, <4>1
      <4> QED
        BY <4>1, <4>2 DEF Frames, Serving, At
    <3> QED
      BY <1>1, <2>1, <3>2, <3>3
  <2> QED
    BY <2>2, <2>3
<1>3. ASSUME NEW k \in Nodes, RelayStep(k)
      PROVE  Goal
  <2>1. uplink[k] # <<>> /\ uplink' = [uplink EXCEPT ![k] = Tail(@)]
    BY <1>3 DEF RelayStep, RegisterFrame, CommitsFrame, AckFrame
  <2>2. task' = task \/ \E c, t, r : At(c, "routed") /\ task' = [task EXCEPT ![c] = t] /\ t = Answered(task[c], r)
    BY <1>3 DEF RelayStep, RegisterFrame, CommitsFrame, AckFrame, Goto
  <2>3. \A r : At(n, "routed") => Answered(task[n], r).at = "answered"
    BY TaskFacts DEF At, CallTask, Answered
  <2>4. task'[n] = task[n] \/ task'[n].at = "answered"
    BY <2>2, <2>3 DEF TypeOK
  <2>5. \A i \in DOMAIN uplink'[n] : \E j \in DOMAIN uplink[n] : uplink'[n][i] = uplink[n][j]
    <3>1. uplink[n] \in Seq(Frame)
      BY DEF TypeOK, LinkOK
    <3>2. CASE n = k
      <4>1. uplink'[n] = Tail(uplink[n]) /\ uplink[n] # <<>>
        BY <2>1, <3>2 DEF TypeOK
      <4> QED
        BY <3>1, <4>1, TailTypes
    <3>3. CASE n # k
      BY <2>1, <3>3 DEF TypeOK
    <3> QED
      BY <3>2, <3>3
  <2> QED
    BY <2>4, <2>5 DEF Frames, At
<1>4. ASSUME NEW k \in Nodes, ServeStep(k)
      PROVE  Goal
  <2>1. CASE k # n
    <3>1. /\ uplink' = uplink \/ \E s : uplink' = [uplink EXCEPT ![k] = s]
          /\ \E t : task' = [task EXCEPT ![k] = t]
      BY <1>4 DEF ServeStep, AcceptHandshake, RejectHandshake, Unauthorized, RunHandler, RefuseCommand,
           InviteCreate, InviteDelete, Executed, RenewPreimage, WriteFrame, RunEnds, Goto, linkVars
    <3> QED
      BY <1>1, <2>1, <3>1 DEF TypeOK
  <2>2. CASE k = n /\ WriteFrame(n)
    <3>1. PICK frames : frames = task[n].frames
      OBVIOUS
    <3>2. At(n, "write") /\ frames \in Seq(Frame) /\ Len(frames) \in {1, 2} /\ uplink[n] \in Seq(Frame)
      BY <2>2, <3>1, TaskFacts DEF WriteFrame, TypeOK, LinkOK
    <3>3. /\ uplink'[n] = Append(uplink[n], Head(frames))
          /\ task'[n] = IF Len(frames) = 1 THEN Serving ELSE Writing(Tail(frames))
      BY <2>2, <3>1 DEF WriteFrame, Goto, TypeOK
    <3>4. frames # <<>> /\ 1 \in DOMAIN frames /\ Head(frames) = frames[1]
      BY <3>2
    <3>5. \A i \in DOMAIN Tail(frames) : i + 1 \in DOMAIN frames /\ Tail(frames)[i] = frames[i + 1]
      BY <3>2, <3>4, TailTypes
    <3>6. CASE \E i \in DOMAIN uplink'[n] : f = uplink'[n][i]
      <4>1. \A i \in DOMAIN uplink'[n] : i \in DOMAIN uplink[n] \/ uplink'[n][i] = frames[1]
        BY <3>2, <3>3, <3>4, AppendFacts
      <4>2. \A i \in DOMAIN uplink[n] : uplink'[n][i] = uplink[n][i]
        BY <3>2, <3>3, AppendFacts
      <4> QED
        BY <3>1, <3>2, <3>4, <3>6, <4>1, <4>2 DEF Frames
    <3>7. CASE At(n, "write")' /\ \E i \in DOMAIN task'[n].frames : f = task'[n].frames[i]
      <4>1. task'[n].frames = Tail(frames)
        BY <3>3, <3>7 DEF Serving, Writing, At
      <4> QED
        BY <3>1, <3>2, <3>5, <3>7, <4>1 DEF Frames
    <3> QED
      BY <3>6, <3>7 DEF Frames
  <2>3. CASE k = n /\ (RunEnds(n) \/ \E m, ok, cmds : IsCommand(n, m, cmds) /\ Executed(n, m, ok) /\ UNCHANGED uplink)
    <3>1. uplink' = uplink /\ task'[n].at # "write"
      BY <2>3 DEF RunEnds, Executed, Goto, Idle, linkVars, TypeOK
    <3> QED
      BY <1>1, <3>1
  <2>4. CASE k = n /\ (Declines(n) \/ RenewPreimage(n))
    <3>1. uplink' = uplink /\ task[n].at # "write"
      BY <2>4 DEF Declines, AcceptHandshake, RejectHandshake, Unauthorized, RenewPreimage, Receives, At, linkVars
    <3>2. CASE \E i \in DOMAIN uplink'[n] : f = uplink'[n][i]
      BY <3>1, <3>2 DEF Frames
    <3>3. CASE At(n, "write")' /\ \E i \in DOMAIN task'[n].frames : f = task'[n].frames[i]
      <4>1. PICK d : d = Head(downlink[n])
        OBVIOUS
      <4>2. CASE AcceptHandshake(n)
        <5>1. PICK a, u : /\ a = Ack(d.from, d.preimage, HandshakeComplete(TRUE, fresh))
                          /\ u = UpdateCommits({Sha256(fresh)})
          OBVIOUS
        <5>2. task'[n] = Writing(<<a, u>>)
          BY <4>1, <4>2, <5>1 DEF AcceptHandshake, Goto, TypeOK
        <5>3. f \in {a, u}
          BY <3>3, <5>2 DEF Writing
        <5>4. u.type = "UPDATE_COMMITS"
          BY <5>1 DEF UpdateCommits
        <5>5. f = a
          BY <5>3, <5>4
        <5> QED
          BY <4>1, <4>2, <5>1, <5>5 DEF Ack, HandshakeComplete, Declined, Declines
      <4>3. CASE RejectHandshake(n)
        <5>1. PICK a : a = Ack(d.from, d.preimage, HandshakeComplete(FALSE, None))
          OBVIOUS
        <5>2. task'[n] = Writing(<<a>>)
          BY <4>1, <4>3, <5>1 DEF RejectHandshake, Goto, TypeOK
        <5>3. f = a
          BY <3>3, <5>2 DEF Writing
        <5> QED
          BY <4>1, <4>3, <5>1, <5>3 DEF Ack, HandshakeComplete, Declined, Declines
      <4>4. CASE Unauthorized(n)
        <5>1. PICK a : a = Ack(d.from, d.preimage, Response(FALSE, d.payload.cmd, None))
          OBVIOUS
        <5>2. task'[n] = Writing(<<a>>)
          BY <4>1, <4>4, <5>1 DEF Unauthorized, Goto, TypeOK
        <5>3. f = a
          BY <3>3, <5>2 DEF Writing
        <5> QED
          BY <4>1, <4>4, <5>1, <5>3 DEF Ack, Response, Declined, Declines
      <4>5. CASE RenewPreimage(n)
        <5>1. PICK u, a : /\ u = UpdateCommits({Sha256(fresh)}) /\ a = RenewalAck(n)
                          /\ task'[n] = Writing(<<u, a>>)
          BY <4>5 DEF RenewPreimage, Goto, TypeOK
        <5>2. f \in {u, a} /\ u.type = "UPDATE_COMMITS"
          BY <3>3, <5>1 DEF Writing, UpdateCommits, Ack
        <5>3. f = a
          BY <5>2
        <5> QED
          BY <4>5, <5>1, <5>3 DEF RenewalAck, Ack, RenewedWith
      <4> QED
        BY <2>4, <4>2, <4>3, <4>4, <4>5 DEF Declines
    <3> QED
      BY <3>2, <3>3 DEF Frames
  <2>5. \/ WriteFrame(k) \/ RunEnds(k) \/ Declines(k) \/ RenewPreimage(k)
        \/ \E m, ok, cmds : IsCommand(k, m, cmds) /\ Executed(k, m, ok) /\ UNCHANGED uplink
    BY <1>4 DEF ServeStep, Declines, RunHandler, RefuseCommand, InviteCreate, InviteDelete
  <2> QED
    BY <2>1, <2>2, <2>3, <2>4, <2>5
<1>5. CASE FaultStep
  <2>1. uplink'[n] = uplink[n] \/ uplink'[n] = <<>>
    BY <1>5 DEF FaultStep, Disconnect, Crash, RelayRestart, Expire, Unlink, linkVars
  <2>2. task'[n] = task[n] \/ task'[n] = Idle
    BY <1>5 DEF FaultStep, Disconnect, Crash, RelayRestart, Expire, Goto, TypeOK
  <2> QED
    BY <1>1, <2>1, <2>2 DEF Idle
<1>6. CASE UNCHANGED vars
  BY <1>1, <1>6 DEF vars, linkVars
<1> QED
  BY <1>2, <1>3, <1>4, <1>5, <1>6 DEF Next

LEMMA AnsweredFrom ==
  ASSUME TypeOK, [Next]_vars, NEW n \in Nodes, At(n, "answered")'
  PROVE  Answer(task'[n].preimage, task'[n].response) \in Responses
<1>0. task'[n].at = "answered"
  BY DEF At
<1> DEFINE Goal == Answer(task'[n].preimage, task'[n].response) \in Responses
<1>1. ASSUME task'[n] = task[n]
      PROVE  Goal
  BY <1>0, <1>1, ResponsesAre DEF At
<1>2. ASSUME NEW k \in Nodes, CachedResponse(k)
      PROVE  Goal
  <2>1. CASE k # n
    BY <1>1, <1>2, <2>1 DEF CachedResponse, Goto, TypeOK
  <2>2. CASE k = n
    <3>1. PICK p, r : p = task[n].preimage /\ r = response_cache[p]
      OBVIOUS
    <3>2. task[n] \in CallTask(n) /\ p \in DOMAIN response_cache /\ task'[n] = Answered(task[n], r)
      BY <1>2, <2>2, <3>1, TaskFacts DEF CachedResponse, At, Goto, TypeOK
    <3>3. task'[n].preimage = p /\ task'[n].response = r
      BY <3>1, <3>2 DEF Answered, CallTask
    <3> QED
      BY <3>1, <3>2, <3>3, ResponsesAre
  <2> QED
    BY <2>1, <2>2
<1>3. ASSUME NEW k \in Nodes, AckFrame(k)
      PROVE  Goal
  <2>1. PICK ack, c : ack = Head(uplink[k]) /\ c = ack.from
    OBVIOUS
  <2>2. CASE task'[n] = task[n]
    BY <1>1, <2>2
  <2>3. CASE task'[n] # task[n]
    <3>1. /\ c = n /\ At(n, "routed") /\ task[n].preimage = ack.preimage
          /\ task'[n] = Answered(task[n], ack.response)
      BY <1>3, <2>1, <2>3 DEF AckFrame, Goto, TypeOK
    <3>2. task[n] \in CallTask(n)
      BY <3>1, TaskFacts DEF At
    <3>3. task'[n].preimage = ack.preimage /\ task'[n].response = ack.response
      BY <3>1, <3>2 DEF Answered, CallTask
    <3>4. ack \in Frames(k) /\ ack.type = "ACK"
      <4>1. uplink[k] \in Seq(Frame) /\ uplink[k] # <<>>
        BY <1>3 DEF AckFrame, TypeOK, LinkOK
      <4>2. 1 \in DOMAIN uplink[k] /\ ack = uplink[k][1]
        BY <2>1, <4>1
      <4> QED
        BY <1>3, <2>1, <4>2 DEF AckFrame, Frames
    <3> QED
      BY <3>3, <3>4, ResponsesAre
  <2> QED
    BY <2>2, <2>3
<1>4. ASSUME NEW k \in Nodes, UserStep(k) \/ CallStep(k) \/ Fail(k), ~ CachedResponse(k)
      PROVE  Goal
  <2>1. \/ task' = task
        \/ \E to, p, payload : task' = [task EXCEPT ![k] = Call(to, p, payload)]
        \/ \E t \in {Idle, Serving} : task' = [task EXCEPT ![k] = t]
        \/ At(k, "sent") /\ \E t : task' = [task EXCEPT ![k] = t] /\ t = Routed(task[k])
    <3>1. CASE UserStep(k)
      <4>1. CASE \E p \in DOMAIN given : Pair(k, p)
        <5>1. PICK p \in DOMAIN given : Pair(k, p)
          BY <4>1
        <5>2. task' = [task EXCEPT ![k] = Call(given[p].id52, p, HandshakeInit(k, fresh))]
          BY <5>1 DEF Pair, Goto
        <5> QED
          BY <5>2
      <4>2. CASE \E m \in Nodes, cmd \in Commands \cup BuiltIns : Send(k, m, cmd)
        BY <4>2 DEF Send, Goto
      <4>3. CASE (\E role \in Roles, m \in Nodes : CreateInvite(k, role, m)) \/ Run(k)
        BY <4>3 DEF CreateInvite, Run, Goto
      <4> QED
        BY <3>1, <4>1, <4>2, <4>3 DEF UserStep
    <3>2. CASE RouteMessage(k)
      BY <3>2 DEF RouteMessage, Goto
    <3>3. CASE (CallStep(k) /\ ~ RouteMessage(k)) \/ Fail(k)
      BY <1>4, <3>3 DEF CallStep, Refused, HandshakeAccepted, HandshakeRejected, CommandAnswered, Fail, Goto
    <3> QED
      BY <1>4, <3>1, <3>2, <3>3
  <2>2. At(k, "sent") => Routed(task[k]).at = "routed"
    BY TaskFacts DEF At, CallTask, Routed
  <2> QED
    BY <1>0, <1>1, <2>1, <2>2 DEF TypeOK, Call, Idle, Serving
<1>5. ASSUME NEW k \in Nodes, RelayStep(k), ~ AckFrame(k)
      PROVE  Goal
  BY <1>1, <1>5 DEF RelayStep, RegisterFrame, CommitsFrame
<1>6. ASSUME NEW k \in Nodes, ServeStep(k)
      PROVE  Goal
  <2>1. CASE \E m, ok : Executed(k, m, ok)
    <3>1. task'[n] = task[n] \/ task'[n].at = "renew"
      BY <2>1 DEF Executed, Goto, TypeOK
    <3> QED
      BY <1>0, <1>1, <3>1
  <2>2. CASE ~ \E m, ok : Executed(k, m, ok)
    <3>1. \/ \E t \in {Idle, Serving} : task' = [task EXCEPT ![k] = t]
          \/ \E frames : task' = [task EXCEPT ![k] = Writing(frames)]
      BY <1>6, <2>2 DEF ServeStep, AcceptHandshake, RejectHandshake, Unauthorized, RunHandler, RefuseCommand,
           InviteCreate, InviteDelete, RenewPreimage, WriteFrame, RunEnds, Goto
    <3> QED
      BY <1>0, <1>1, <3>1 DEF TypeOK, Idle, Serving, Writing
  <2> QED
    BY <2>1, <2>2
<1>7. CASE FaultStep
  <2>1. task'[n] = task[n] \/ task'[n] = Idle
    BY <1>7 DEF FaultStep, Disconnect, Crash, RelayRestart, Expire, Goto, TypeOK
  <2> QED
    BY <1>0, <1>1, <2>1 DEF Idle
<1>8. CASE UNCHANGED vars
  BY <1>1, <1>8 DEF vars
<1> QED
  BY <1>2, <1>3, <1>4, <1>5, <1>6, <1>7, <1>8 DEF Next, CallStep, RelayStep

LEMMA CacheFrom ==
  ASSUME TypeOK, [Next]_vars, NEW p \in DOMAIN response_cache'
  PROVE  Answer(p, response_cache'[p]) \in Responses
<1>1. \/ p \in DOMAIN response_cache /\ response_cache'[p] = response_cache[p]
      \/ \E n \in Nodes : /\ AckFrame(n) /\ p = Head(uplink[n]).preimage
                          /\ response_cache'[p] = Head(uplink[n]).response
  <2>1. CASE UNCHANGED response_cache
    BY <2>1
  <2>2. CASE \E q \in DOMAIN response_cache : response_cache' = Drop(response_cache, q)
    BY <2>2 DEF Drop, Restrict
  <2>3. CASE \E n \in Nodes : AckFrame(n)
    <3>1. PICK n \in Nodes : AckFrame(n)
      BY <2>3
    <3>2. response_cache' = Put(response_cache, Head(uplink[n]).preimage, Head(uplink[n]).response)
      BY <3>1 DEF AckFrame
    <3> QED
      BY <3>1, <3>2 DEF Put
  <2>4. CASE response_cache' = EmptyMap
    <3>1. DOMAIN << >> = {}
      OBVIOUS
    <3> QED
      BY <2>4, <3>1 DEF EmptyMap
  <2>5. ASSUME NEW n \in Nodes, UserStep(n) \/ Fail(n)
        PROVE  UNCHANGED response_cache
    BY <2>5 DEF UserStep, CreateInvite, Pair, Send, Run, Fail, relayVars
  <2>6. ASSUME NEW n \in Nodes, CallStep(n)
        PROVE  UNCHANGED response_cache \/ \E q \in DOMAIN response_cache : response_cache' = Drop(response_cache, q)
    BY <2>6 DEF CallStep, CachedResponse, Refused, RouteMessage, HandshakeAccepted, HandshakeRejected,
         CommandAnswered, relayVars
  <2>7. ASSUME NEW n \in Nodes, RelayStep(n), ~ AckFrame(n)
        PROVE  UNCHANGED response_cache
    BY <2>7 DEF RelayStep, RegisterFrame, CommitsFrame
  <2>8. ASSUME NEW n \in Nodes, ServeStep(n)
        PROVE  UNCHANGED response_cache
    BY <2>8 DEF ServeStep, AcceptHandshake, RejectHandshake, Unauthorized, RunHandler, RefuseCommand,
         InviteCreate, InviteDelete, RenewPreimage, WriteFrame, RunEnds, relayVars
  <2>9. ASSUME FaultStep
        PROVE  \/ UNCHANGED response_cache
               \/ \E q \in DOMAIN response_cache : response_cache' = Drop(response_cache, q)
               \/ response_cache' = EmptyMap
    BY <2>9 DEF FaultStep, Disconnect, Crash, RelayRestart, Expire
  <2>10. ASSUME UNCHANGED vars
         PROVE  UNCHANGED response_cache
    BY <2>10 DEF vars, relayVars
  <2>11. \/ UNCHANGED response_cache
         \/ \E q \in DOMAIN response_cache : response_cache' = Drop(response_cache, q)
         \/ \E n \in Nodes : AckFrame(n)
         \/ response_cache' = EmptyMap
    BY <2>5, <2>6, <2>7, <2>8, <2>9, <2>10 DEF Next
  <2> QED
    BY <2>1, <2>2, <2>3, <2>4, <2>11
<1>2. ASSUME NEW n \in Nodes, AckFrame(n)
      PROVE  Answer(Head(uplink[n]).preimage, Head(uplink[n]).response) \in Responses
  <2>1. PICK ack : ack = Head(uplink[n]) /\ ack.type = "ACK"
    BY <1>2 DEF AckFrame
  <2>2. uplink[n] \in Seq(Frame) /\ uplink[n] # <<>>
    BY <1>2 DEF AckFrame, TypeOK, LinkOK
  <2>3. 1 \in DOMAIN uplink[n] /\ ack = uplink[n][1]
    BY <2>1, <2>2
  <2>4. ack \in Frames(n)
    BY <2>3 DEF Frames
  <2> QED
    BY <2>1, <2>4, ResponsesAre
<1> QED
  BY <1>1, <1>2, ResponsesAre

\* A response is new only when a handler has just given it.
LEMMA AnswersFrom ==
  ASSUME TypeOK, [Next]_vars, NEW r \in Responses'
  PROVE  \/ r \in Responses
         \/ \E n \in Nodes : Declined(n, r.to, r.body) \/ RenewedWith(n, r.to, r.body)
<1> USE DEF Answer
<1>1. ASSUME NEW p \in DOMAIN response_cache', r = Answer(p, response_cache'[p])
      PROVE  r \in Responses
  BY <1>1, CacheFrom
<1>2. ASSUME NEW n \in Nodes, At(n, "answered")', r = Answer(task'[n].preimage, task'[n].response)
      PROVE  r \in Responses
  BY <1>2, AnsweredFrom
<1>3. ASSUME NEW n \in Nodes, NEW f \in Frames(n)', f.type = "ACK", r = Answer(f.preimage, f.response)
      PROVE  r \in Responses \/ Declined(n, r.to, r.body) \/ RenewedWith(n, r.to, r.body)
  <2>1. r.to = f.preimage /\ r.body = f.response
    BY <1>3
  <2> QED
    BY <1>3, <2>1, FramesFrom, ResponsesAre
<1> QED
  BY <1>1, <1>2, <1>3, ResponsesAre

\* A frame is there until the relay takes it, or something breaks off.
LEMMA FramesKept ==
  ASSUME TypeOK, [Next]_vars, NEW n \in Nodes, ReachableAt(n), NEW f \in Frames(n), ~ BreaksOff
  PROVE  f \in Frames(n)' \/ (RelayStep(n) /\ f = Head(uplink[n]))
<1> DEFINE Goal == f \in Frames(n)' \/ (RelayStep(n) /\ f = Head(uplink[n]))
<1>1. ASSUME uplink'[n] = uplink[n], task[n].at # "write" \/ task'[n] = task[n]
      PROVE  Goal
  BY <1>1 DEF Frames, At
<1>2. ASSUME NEW k \in Nodes, UserStep(k) \/ CallStep(k)
      PROVE  Goal
  <2>1. At(k, "idle") \/ At(k, "sent") \/ At(k, "answered")
    BY <1>2 DEF UserStep, CreateInvite, Pair, Send, Run, CallStep, CachedResponse, Refused, RouteMessage,
         HandshakeAccepted, HandshakeRejected, CommandAnswered
  <2>2. task' = task \/ \E t : task' = [task EXCEPT ![k] = t]
    BY <1>2 DEF UserStep, CreateInvite, Pair, Send, Run, CallStep, CachedResponse, Refused, RouteMessage,
         HandshakeAccepted, HandshakeRejected, CommandAnswered, Goto
  <2>3. task[n].at # "write" \/ task'[n] = task[n]
    BY <2>1, <2>2 DEF At, TypeOK
  <2>4. CASE ~ Run(k) \/ k # n
    <3>1. uplink'[n] = uplink[n]
      BY <1>2, <2>4 DEF UserStep, CreateInvite, Pair, Send, Run, CallStep, CachedResponse, Refused, RouteMessage,
           HandshakeAccepted, HandshakeRejected, CommandAnswered, linkVars, TypeOK
    <3> QED
      BY <1>1, <2>3, <3>1
  <2>5. CASE Run(k) /\ k = n
    <3>1. At(n, "idle") /\ n \notin linked
      BY <2>5 DEF Run, ReachableAt, At
    <3>2. uplink[n] = <<>>
      BY <3>1 DEF TypeOK, LinkOK
    <3>3. DOMAIN << >> = {}
      OBVIOUS
    <3> QED
      BY <3>1, <3>2, <3>3 DEF Frames, At
  <2> QED
    BY <2>4, <2>5
<1>3. ASSUME NEW k \in Nodes, RelayStep(k)
      PROVE  Goal
  <2>1. uplink[k] # <<>> /\ uplink' = [uplink EXCEPT ![k] = Tail(@)]
    BY <1>3 DEF RelayStep, RegisterFrame, CommitsFrame, AckFrame
  <2>2. task' = task \/ \E c, t : At(c, "routed") /\ task' = [task EXCEPT ![c] = t]
    BY <1>3 DEF RelayStep, RegisterFrame, CommitsFrame, AckFrame, Goto
  <2>3. task[n].at # "write" \/ task'[n] = task[n]
    BY <2>2 DEF TypeOK, At
  <2>4. CASE k # n
    BY <1>1, <2>1, <2>3, <2>4 DEF TypeOK
  <2>5. CASE k = n
    <3>1. uplink[n] \in Seq(Frame) /\ uplink[n] # <<>> /\ uplink'[n] = Tail(uplink[n])
      BY <2>1, <2>5 DEF TypeOK, LinkOK
    <3>2. CASE \E i \in DOMAIN uplink[n] : f = uplink[n][i]
      <4>1. PICK i \in DOMAIN uplink[n] : f = uplink[n][i]
        BY <3>2
      <4>2. CASE i = 1
        <5>1. f = Head(uplink[n])
          BY <3>1, <4>1, <4>2
        <5> QED
          BY <1>3, <2>5, <5>1
      <4>3. CASE i - 1 \in DOMAIN Tail(uplink[n]) /\ Tail(uplink[n])[i - 1] = uplink[n][i]
        BY <3>1, <4>1, <4>3 DEF Frames
      <4> QED
        BY <3>1, <4>1, <4>2, <4>3, TailKeeps
    <3>3. CASE At(n, "write") /\ \E i \in DOMAIN task[n].frames : f = task[n].frames[i]
      BY <2>3, <3>3 DEF Frames, At
    <3> QED
      BY <3>2, <3>3 DEF Frames
  <2> QED
    BY <2>4, <2>5
<1>4. ASSUME NEW k \in Nodes, ServeStep(k)
      PROVE  Goal
  <2>1. CASE k # n
    <3>1. /\ uplink' = uplink \/ \E s : uplink' = [uplink EXCEPT ![k] = s]
          /\ \E t : task' = [task EXCEPT ![k] = t]
      BY <1>4 DEF ServeStep, AcceptHandshake, RejectHandshake, Unauthorized, RunHandler, RefuseCommand,
           InviteCreate, InviteDelete, Executed, RenewPreimage, WriteFrame, RunEnds, Goto, linkVars
    <3> QED
      BY <1>1, <2>1, <3>1 DEF TypeOK
  <2>2. CASE k = n /\ WriteFrame(n)
    <3>1. PICK frames : frames = task[n].frames
      OBVIOUS
    <3>2. At(n, "write") /\ frames \in Seq(Frame) /\ Len(frames) \in {1, 2} /\ uplink[n] \in Seq(Frame)
      BY <2>2, <3>1, TaskFacts DEF WriteFrame, TypeOK, LinkOK
    <3>3. /\ uplink'[n] = Append(uplink[n], Head(frames))
          /\ task'[n] = IF Len(frames) = 1 THEN Serving ELSE Writing(Tail(frames))
      BY <2>2, <3>1 DEF WriteFrame, Goto, TypeOK
    <3>4. Head(frames) = frames[1]
      BY <3>2
    <3>5. /\ \A i \in DOMAIN uplink[n] : i \in DOMAIN uplink'[n] /\ uplink'[n][i] = uplink[n][i]
          /\ \E i \in DOMAIN uplink'[n] : uplink'[n][i] = frames[1]
      BY <3>2, <3>3, <3>4, AppendFacts
    <3>6. CASE \E i \in DOMAIN uplink[n] : f = uplink[n][i]
      BY <3>5, <3>6 DEF Frames
    <3>7. CASE \E i \in DOMAIN frames : f = frames[i]
      <4>1. PICK i \in DOMAIN frames : f = frames[i]
        BY <3>7
      <4>2. CASE i = 1
        BY <3>5, <4>1, <4>2 DEF Frames
      <4>3. CASE i # 1
        <5>1. i - 1 \in DOMAIN Tail(frames) /\ Tail(frames)[i - 1] = frames[i] /\ Len(frames) # 1
          <6>1. frames # <<>> /\ Len(frames) # 1
            BY <3>2, <4>1, <4>3
          <6> QED
            BY <3>2, <4>1, <4>3, <6>1, TailKeeps
        <5>2. task'[n].at = "write" /\ task'[n].frames = Tail(frames)
          BY <3>3, <5>1 DEF Writing
        <5> QED
          BY <4>1, <5>1, <5>2 DEF Frames, At
      <4> QED
        BY <4>2, <4>3
    <3> QED
      BY <3>1, <3>6, <3>7 DEF Frames
  <2>3. CASE k = n /\ ~ WriteFrame(n)
    <3>1. ~ RunEnds(n)
      BY DEF BreaksOff
    <3>2. uplink' = uplink /\ task[n].at # "write"
      BY <1>4, <2>3, <3>1 DEF ServeStep, AcceptHandshake, RejectHandshake, Unauthorized, RunHandler,
         RefuseCommand, InviteCreate, InviteDelete, IsCommand, Receives, RenewPreimage, At, linkVars
    <3> QED
      BY <1>1, <3>2
  <2> QED
    BY <2>1, <2>2, <2>3
<1>5. CASE UNCHANGED vars
  BY <1>1, <1>5 DEF vars, linkVars
<1> QED
  BY <1>2, <1>3, <1>4, <1>5 DEF Next, BreaksOff

\* How a call that was answered ends.
Ends(n) == HandshakeAccepted(n) \/ HandshakeRejected(n) \/ CommandAnswered(n)

LEMMA AnsweredKept ==
  ASSUME TypeOK, [Next]_vars, NEW n \in Nodes, At(n, "answered"), ~ BreaksOff
  PROVE  task'[n] = task[n] \/ Ends(n)
<1>1. ASSUME NEW k \in Nodes, UserStep(k) \/ CallStep(k), ~ Ends(n)
      PROVE  task'[n] = task[n]
  <2>1. task' = task \/ \E t : task' = [task EXCEPT ![k] = t]
    BY <1>1 DEF UserStep, CreateInvite, Pair, Send, Run, CallStep, CachedResponse, Refused, RouteMessage,
         HandshakeAccepted, HandshakeRejected, CommandAnswered, Goto
  <2>2. k = n => FALSE
    BY <1>1 DEF UserStep, CreateInvite, Pair, Send, Run, CallStep, CachedResponse, Refused, RouteMessage,
         Ends, At
  <2> QED
    BY <2>1, <2>2 DEF TypeOK
<1>2. ASSUME NEW k \in Nodes, RelayStep(k)
      PROVE  task'[n] = task[n]
  <2>1. task' = task \/ \E c, t : At(c, "routed") /\ task' = [task EXCEPT ![c] = t]
    BY <1>2 DEF RelayStep, RegisterFrame, CommitsFrame, AckFrame, Goto
  <2> QED
    BY <2>1 DEF TypeOK, At
<1>3. ASSUME NEW k \in Nodes, ServeStep(k)
      PROVE  task'[n] = task[n]
  <2>1. \E t : task' = [task EXCEPT ![k] = t]
    BY <1>3 DEF ServeStep, AcceptHandshake, RejectHandshake, Unauthorized, RunHandler, RefuseCommand,
         InviteCreate, InviteDelete, Executed, RenewPreimage, WriteFrame, RunEnds, Goto
  <2>2. k # n
    BY <1>3 DEF ServeStep, AcceptHandshake, RejectHandshake, Unauthorized, RunHandler, RefuseCommand,
         InviteCreate, InviteDelete, IsCommand, Receives, RenewPreimage, WriteFrame, RunEnds, At
  <2> QED
    BY <2>1, <2>2 DEF TypeOK
<1>4. CASE UNCHANGED vars
  BY <1>4 DEF vars
<1> QED
  BY <1>1, <1>2, <1>3, <1>4 DEF Next, BreaksOff

LEMMA CacheKept ==
  ASSUME TypeOK, [Next]_vars, NEW p \in DOMAIN response_cache, ~ BreaksOff
  PROVE  \/ p \in DOMAIN response_cache' /\ response_cache'[p] = response_cache[p]
         \/ \E n \in Nodes : CachedResponse(n) /\ task[n].preimage = p
         \/ \E n \in Nodes : AckFrame(n) /\ Head(uplink[n]).preimage = p
<1>1. CASE UNCHANGED response_cache
  BY <1>1
<1>2. ASSUME NEW n \in Nodes, CachedResponse(n), task[n].preimage # p
      PROVE  p \in DOMAIN response_cache' /\ response_cache'[p] = response_cache[p]
  BY <1>2 DEF CachedResponse, Drop, Restrict
<1>3. ASSUME NEW n \in Nodes, AckFrame(n), Head(uplink[n]).preimage # p
      PROVE  p \in DOMAIN response_cache' /\ response_cache'[p] = response_cache[p]
  <2>1. response_cache' = Put(response_cache, Head(uplink[n]).preimage, Head(uplink[n]).response)
    BY <1>3 DEF AckFrame
  <2> QED
    BY <1>3, <2>1 DEF Put
<1>4. ASSUME NEW n \in Nodes, UserStep(n) \/ (CallStep(n) /\ ~ CachedResponse(n))
      PROVE  UNCHANGED response_cache
  BY <1>4 DEF UserStep, CreateInvite, Pair, Send, Run, CallStep, Refused, RouteMessage, HandshakeAccepted,
       HandshakeRejected, CommandAnswered, relayVars
<1>5. ASSUME NEW n \in Nodes, ServeStep(n) \/ (RelayStep(n) /\ ~ AckFrame(n))
      PROVE  UNCHANGED response_cache
  BY <1>5 DEF ServeStep, AcceptHandshake, RejectHandshake, Unauthorized, RunHandler, RefuseCommand,
       InviteCreate, InviteDelete, RenewPreimage, WriteFrame, RunEnds, RelayStep, RegisterFrame,
       CommitsFrame, relayVars
<1>6. CASE UNCHANGED vars
  BY <1>1, <1>6 DEF vars, relayVars
<1> QED
  BY <1>1, <1>2, <1>3, <1>4, <1>5, <1>6 DEF Next, BreaksOff

\* A response remains until its call ends, another one to the same preimage
\* replaces it, or something breaks off.
LEMMA AnswersKept ==
  ASSUME TypeOK, [Next]_vars, \A n \in Nodes : ReachableAt(n), NEW r \in Responses, ~ BreaksOff
  PROVE  \/ r \in Responses'
         \/ \E q \in Responses : q.to = r.to /\ q \in Responses'
         \/ \E n \in Nodes : Ends(n) /\ r = Answer(task[n].preimage, task[n].response)
<1> DEFINE Goal == \/ r \in Responses'
                   \/ \E q \in Responses : q.to = r.to /\ q \in Responses'
                   \/ \E n \in Nodes : Ends(n) /\ r = Answer(task[n].preimage, task[n].response)
<1>1. ASSUME NEW n \in Nodes, AckFrame(n)
      PROVE  \E q \in Responses : /\ q = Answer(Head(uplink[n]).preimage, Head(uplink[n]).response)
                                  /\ q \in Responses'
  <2>1. PICK ack : ack = Head(uplink[n]) /\ ack.type = "ACK"
    BY <1>1 DEF AckFrame
  <2>2. uplink[n] \in Seq(Frame) /\ uplink[n] # <<>>
    BY <1>1 DEF AckFrame, TypeOK, LinkOK
  <2>3. 1 \in DOMAIN uplink[n] /\ ack = uplink[n][1]
    BY <2>1, <2>2
  <2>4. ack \in Frames(n)
    BY <2>3 DEF Frames
  <2>5. response_cache' = Put(response_cache, ack.preimage, ack.response)
    BY <1>1, <2>1 DEF AckFrame
  <2>6. ack.preimage \in DOMAIN response_cache' /\ response_cache'[ack.preimage] = ack.response
    BY <2>5 DEF Put
  <2> QED
    BY <2>1, <2>4, <2>6, ResponsesAre
<1>2. ASSUME NEW p \in DOMAIN response_cache, r = Answer(p, response_cache[p])
      PROVE  Goal
  <2>1. CASE p \in DOMAIN response_cache' /\ response_cache'[p] = response_cache[p]
    BY <1>2, <2>1, ResponsesAre
  <2>2. ASSUME NEW n \in Nodes, CachedResponse(n), task[n].preimage = p
        PROVE  Goal
    <3>1. PICK b : b = response_cache[p]
      OBVIOUS
    <3>2. task[n] \in CallTask(n) /\ task'[n] = Answered(task[n], b)
      BY <2>2, <3>1, TaskFacts DEF CachedResponse, At, Goto, TypeOK
    <3>3. At(n, "answered")' /\ task'[n].preimage = p /\ task'[n].response = b
      BY <2>2, <3>2 DEF Answered, CallTask, At
    <3> QED
      BY <1>2, <3>1, <3>3, ResponsesAre
  <2>3. ASSUME NEW n \in Nodes, AckFrame(n), Head(uplink[n]).preimage = p
        PROVE  Goal
    BY <1>1, <1>2, <2>3 DEF Answer
  <2> QED
    BY <2>1, <2>2, <2>3, CacheKept
<1>3. ASSUME NEW n \in Nodes, NEW f \in Frames(n), f.type = "ACK", r = Answer(f.preimage, f.response)
      PROVE  Goal
  <2>1. CASE f \in Frames(n)'
    BY <1>3, <2>1, ResponsesAre
  <2>2. CASE RelayStep(n) /\ f = Head(uplink[n])
    <3>1. AckFrame(n)
      BY <1>3, <2>2 DEF RelayStep, RegisterFrame, CommitsFrame
    <3> QED
      BY <1>1, <1>3, <2>2, <3>1
  <2> QED
    BY <2>1, <2>2, FramesKept
<1>4. ASSUME NEW n \in Nodes, At(n, "answered"), r = Answer(task[n].preimage, task[n].response)
      PROVE  Goal
  <2>1. CASE task'[n] = task[n]
    <3>1. At(n, "answered")' /\ r = Answer(task'[n].preimage, task'[n].response)
      BY <1>4, <2>1 DEF At
    <3> QED
      BY <3>1, ResponsesAre
  <2> QED
    BY <1>4, <2>1, AnsweredKept
<1> QED
  BY <1>2, <1>3, <1>4, ResponsesAre

(***************************************************************************)
(* What a preimage that is issued, or was answered, promises               *)
(***************************************************************************)

Tells(r) == r.body.msg = "response" /\ r.body.next # None

InCall(n) == task[n].at \in {"sent", "routed", "answered"}

\* Node n makes a handshake, and keeps a preimage for it.
Pairing(n) == InCall(n) /\ task[n].payload.msg = "HANDSHAKE_INIT" /\ task[n].to \in DOMAIN pending_peers[n]
Offered(n) == pending_peers[n][task[n].to].my_preimage

\* A commit, or a message, is in one place only.
OnePlace == \A n \in Nodes, p \in Preimages : Single(n, p)

\* What is issued was not answered yet, and only its node has to do with it.
IssuedAt(n, p) == Unanswered(p) /\ \A k \in Nodes \ {n} : Quiet(k, p)
IssuedOnce == \A n \in Nodes : \A p \in Issued(n) : IssuedAt(n, p)

\* What is offered in a handshake is not in use before the handshake is over.
Unused(p) == Unanswered(p) /\ \A k \in Nodes : Quiet(k, p)
OfferUnused == \A n \in Nodes : Pairing(n) => Unused(Offered(n))

\* What was answered with a next preimage is not used again, and has one answer.
Spent(p) == p \notin DOMAIN given /\ \A k \in Nodes : Quiet(k, p) /\ Sha256(p) \notin AllCommits(k)
Alike(q, r) == q.to = r.to => q.body.msg = "response" /\ q.body.next = r.body.next
AnsweredOnce ==
  \A r \in Responses : Tells(r) => Spent(r.to) /\ \A q \in Responses : Alike(q, r)

\* What is renewed is issued; a command is sent with what its peer issued last.
RenewsIssued == \A n \in Nodes : At(n, "renew") => task[n].preimage \in Issued(n)
CallsCurrent ==
  \A n \in Nodes : InCall(n) /\ task[n].payload.msg = "request" =>
    task[n].to \in DOMAIN peers[n] /\ task[n].preimage = peers[n][task[n].to].their_preimage

OnceInv ==
  OnePlace /\ IssuedOnce /\ OfferUnused /\ AnsweredOnce /\ RenewsIssued /\ CallsCurrent

LEMMA CommitsAre ==
  ASSUME NEW n, NEW p
  PROVE  Sha256(p) \in AllCommits(n) <=>
           \/ p \in DOMAIN invites[n] \/ p \in Issued(n)
           \/ \E m \in DOMAIN pending_peers[n] : p = pending_peers[n][m].my_preimage
BY DEF AllCommits, Sha256

LEMMA CommitsFrom ==
  ASSUME TypeOK, Next, NEW n \in Nodes, NEW p, p # fresh, Sha256(p) \notin AllCommits(n)
  PROVE  Sha256(p) \notin AllCommits(n)'
<1>1. PICK x : x = fresh
  OBVIOUS
<1>2. StateFrom(n, x)
  BY <1>1, StateGrows
<1>3. /\ p \notin DOMAIN invites[n] /\ p \notin Issued(n) /\ p # x
      /\ \A m \in DOMAIN pending_peers[n] : p # pending_peers[n][m].my_preimage
  BY <1>1, CommitsAre
<1>4. /\ p \notin DOMAIN invites'[n] /\ p \notin Issued(n)'
      /\ \A m \in DOMAIN pending_peers'[n] : p # pending_peers'[n][m].my_preimage
  BY <1>2, <1>3 DEF StateFrom
<1> QED
  BY <1>4 DEF AllCommits, Sha256

LEMMA CommitsOwned ==
  ASSUME NEW by, NEW user, Owned(by, user), NEW n \in Nodes, NEW p, Sha256(p) \in AllCommits(n)
  PROVE  by[p] = n
BY CommitsAre DEF Owned, PeersOwned, Issued

\* Only its own node signs in with a preimage.
LEMMA QuietKept ==
  ASSUME TypeOK, [Next]_vars, NEW n \in Nodes, ReachableAt(n), NEW p \in Preimages, Quiet(n, p),
         ~ Run(n) \/ Sha256(p) \notin AllCommits(n)
  PROVE  Quiet(n, p)'
<1>1. p # fresh
  BY DEF Preimages, TypeOK, WorldOK
<1> QED
  BY <1>1, Moves

LEMMA AnswersWhere ==
  ASSUME TypeOK, NEW n \in Nodes, NEW p, NEW r
  PROVE  /\ Declined(n, p, r) => ~ Quiet(n, p) /\ At(n, "serving") /\ p \in Preimages
         /\ RenewedWith(n, p, r) => Renewing(n, p) /\ ~ Quiet(n, p) /\ p \in Preimages
<1>1. ASSUME Declined(n, p, r)
      PROVE  ~ Quiet(n, p) /\ At(n, "serving") /\ p \in Preimages
  <2>1. PICK d : d = Head(downlink[n])
    OBVIOUS
  <2>2. \E msg : Receives(n, msg)
    BY <1>1 DEF Declined, Declines, AcceptHandshake, RejectHandshake, Unauthorized
  <2>3. At(n, "serving") /\ d = downlink[n][1] /\ 1 \in DOMAIN downlink[n] /\ d.preimage \in Preimages
    BY <2>1, <2>2, ReceivesFacts
  <2>4. p = d.preimage
    BY <1>1, <2>1 DEF Declined
  <2> QED
    BY <2>3, <2>4 DEF Quiet, Downs
<1>2. ASSUME RenewedWith(n, p, r)
      PROVE  Renewing(n, p) /\ ~ Quiet(n, p) /\ p \in Preimages
  BY <1>2, TaskFacts DEF RenewedWith, RenewPreimage, Renewing, Quiet
<1> QED
  BY <1>1, <1>2

LEMMA UnansweredKept ==
  ASSUME TypeOK, [Next]_vars, NEW p, Unanswered(p),
         \A n \in Nodes : \A r : ~ Declined(n, p, r) /\ ~ RenewedWith(n, p, r)
  PROVE  Unanswered(p)'
BY AnswersFrom DEF Unanswered

LEMMA UnusedKept ==
  ASSUME TypeOK, [Next]_vars, \A k \in Nodes : ReachableAt(k), NEW p \in Preimages, Unused(p),
         \A k \in Nodes : ~ Run(k) \/ Sha256(p) \notin AllCommits(k)
  PROVE  Unused(p)'
<1>1. Unanswered(p)'
  BY UnansweredKept, AnswersWhere DEF Unused
<1> QED
  BY <1>1, QuietKept DEF Unused

LEMMA OnePlaceStep ==
  ASSUME TypeOK, [Next]_vars, \A k \in Nodes : ReachableAt(k), OnePlace
  PROVE  OnePlace'
<1>1. ASSUME NEW n \in Nodes, NEW p
      PROVE  Single(n, p)'
  <2>1. Single(n, p)
    BY UndrawnQuiet DEF OnePlace
  <2> QED
    BY <2>1, Moves
<1> QED
  BY <1>1 DEF OnePlace

LEMMA IssuedTypes ==
  ASSUME TypeOK, NEW n \in Nodes
  PROVE  /\ Issued(n) \subseteq Preimages /\ Sha256(fresh) \notin AllCommits(n)
         /\ \A m \in DOMAIN pending_peers[n] : pending_peers[n][m].my_preimage \in Preimages
<1>1. StateOK(n)
  BY DEF TypeOK
<1>2. fresh \notin Preimages
  BY DEF TypeOK, WorldOK, Preimages
<1> QED
  BY <1>1, <1>2, UndrawnQuiet DEF StateOK, Issued

\* The preimage that was just drawn is with the node that drew it.
LEMMA DrawnQuiet ==
  ASSUME TypeOK, Next, \A k \in Nodes : ReachableAt(k), NEW x, x = fresh
  PROVE  /\ \A k \in Nodes : ~ Draws(k) => Quiet(k, x)'
         /\ Unanswered(x)'
<1>1. x \notin Preimages
  BY DEF TypeOK, WorldOK, Preimages
<1>2. ASSUME NEW k \in Nodes, ~ Draws(k)
      PROVE  Quiet(k, x)'
  BY <1>1, <1>2, UndrawnQuiet, Moves
<1>3. Unanswered(x)'
  <2>1. \A k \in Nodes : \A r : ~ Declined(k, x, r) /\ ~ RenewedWith(k, x, r)
    BY <1>1, AnswersWhere
  <2>2. Unanswered(x)
    <3>1. CASE Nodes = {}
      BY <1>1, <3>1 DEF Unanswered, Responses, TypeOK, RelayOK
    <3>2. CASE Nodes # {}
      BY <1>1, <3>2, UndrawnQuiet
    <3> QED
      BY <3>1, <3>2
  <2> QED
    BY <2>1, <2>2, UnansweredKept
<1> QED
  BY <1>2, <1>3

LEMMA DrawsAlone ==
  ASSUME TypeOK, NEW k \in Nodes, Draws(k), NEW n \in Nodes \ {k}
  PROVE  Issued(n)' = Issued(n)
<1>1. peers'[n] = peers[n]
  BY DEF Draws, AcceptHandshake, RenewPreimage, Renewed, TypeOK
<1> QED
  BY <1>1 DEF Issued

LEMMA IssuedStep ==
  ASSUME TypeOK, OwnedInv, Next, \A k \in Nodes : ReachableAt(k), IssuedOnce, OfferUnused,
         NEW n \in Nodes, NEW p \in Issued(n)'
  PROVE  IssuedAt(n, p)'
<1>1. PICK x : x = fresh /\ x \notin Preimages
  BY DEF TypeOK, WorldOK, Preimages
<1>2. StateFrom(n, x)
  BY <1>1, StateGrows
<1>3. PICK by, user : Owned(by, user)
  BY DEF OwnedInv
<1>4. CASE p = x
  <2>1. \A k \in Nodes \ {n} : ~ Draws(k)
    <3> SUFFICES ASSUME NEW k \in Nodes \ {n}, Draws(k)
                 PROVE  FALSE
      OBVIOUS
    <3>1. p \in Issued(n)
      BY DrawsAlone
    <3> QED
      BY <1>1, <1>4, <3>1, IssuedTypes
  <2> QED
    BY <1>1, <1>4, <2>1, DrawnQuiet DEF IssuedAt
<1>5. CASE p \in Issued(n)
  <2>1. p \in Preimages /\ p # x /\ by[p] = n /\ IssuedAt(n, p)
    BY <1>1, <1>3, <1>5, IssuedTypes, CommitsOwned, CommitsAre DEF IssuedOnce
  <2>2. \A k \in Nodes \ {n} : Quiet(k, p)'
    BY <1>3, <2>1, QuietKept, CommitsOwned DEF IssuedAt
  <2>3. ASSUME NEW k \in Nodes, NEW r, Declined(k, p, r)
        PROVE  FALSE
    <3>1. k = n
      BY <2>1, <2>3, AnswersWhere DEF IssuedAt
    <3>2. PICK m \in DOMAIN peers[n] : p \in peers[n][m].issued_preimages
      BY <1>5 DEF Issued
    <3>3. p \notin DOMAIN given /\ p \notin DOMAIN invites[n]
      BY <3>2, IssuedFacts
    <3>4. CASE AcceptHandshake(n) \/ RejectHandshake(n)
      <4>1. Receives(n, "HANDSHAKE_INIT")
        BY <3>4 DEF AcceptHandshake, RejectHandshake
      <4>2. p \in DOMAIN given
        BY <2>3, <3>1, <4>1, HandshakesUseTokens DEF Declined
      <4> QED
        BY <3>3, <4>2
    <3>5. CASE Unauthorized(n)
      <4>1. LookupPreimage(n, p) = {}
        BY <2>3, <3>1, <3>5 DEF Unauthorized, Declined
      <4> QED
        BY <3>2, <3>3, <4>1 DEF LookupPreimage
    <3> QED
      BY <2>3, <3>1, <3>4, <3>5 DEF Declined, Declines
  <2>4. ASSUME NEW k \in Nodes, NEW r, RenewedWith(k, p, r)
        PROVE  FALSE
    <3>1. k = n
      BY <2>1, <2>4, AnswersWhere DEF IssuedAt
    <3> QED
      BY <1>1, <2>1, <2>4, <3>1, RenewalRetires DEF RenewedWith
  <2> QED
    BY <2>1, <2>2, <2>3, <2>4, UnansweredKept DEF IssuedAt
<1>6. CASE p # x /\ p \notin Issued(n)
  <2>1. PICK m \in DOMAIN pending_peers[n] :
          HandshakeAccepted(n) /\ m = task[n].to /\ p = pending_peers[n][m].my_preimage
    BY <1>2, <1>6 DEF StateFrom
  <2>2. At(n, "answered") /\ Pairing(n) /\ Offered(n) = p
    BY <2>1 DEF HandshakeAccepted, Pairing, Offered, InCall, At
  <2>3. p \in Preimages /\ Unused(p) /\ by[p] = n
    BY <1>3, <2>1, <2>2, IssuedTypes, CommitsOwned, CommitsAre DEF OfferUnused
  <2>4. \A k \in Nodes : ~ Run(k) \/ Sha256(p) \notin AllCommits(k)
    BY <1>3, <2>2, <2>3, CommitsOwned DEF Run, At
  <2> QED
    BY <2>3, <2>4, UnusedKept DEF IssuedAt, Unused
<1> QED
  BY <1>4, <1>5, <1>6

\* Where the calls and renewals that are under way come from.
LEMMA CallFrom ==
  ASSUME TypeOK, [Next]_vars, NEW n \in Nodes, InCall(n)'
  PROVE  \/ /\ InCall(n) /\ task'[n].to = task[n].to /\ task'[n].preimage = task[n].preimage
            /\ task'[n].payload = task[n].payload
            /\ peers'[n] = peers[n] /\ pending_peers'[n] = pending_peers[n]
         \/ \E p \in DOMAIN given : Pair(n, p)
         \/ \E m \in Nodes, cmd \in Commands \cup BuiltIns : Send(n, m, cmd)
<1> DEFINE Kept == /\ InCall(n) /\ task'[n].to = task[n].to /\ task'[n].preimage = task[n].preimage
                   /\ task'[n].payload = task[n].payload
                   /\ peers'[n] = peers[n] /\ pending_peers'[n] = pending_peers[n]
<1>0. task'[n].at \in {"sent", "routed", "answered"}
  BY DEF InCall
<1>1. ASSUME task'[n] = task[n], peers'[n] = peers[n], pending_peers'[n] = pending_peers[n]
      PROVE  Kept
  BY <1>1 DEF InCall
<1>2. ASSUME NEW r, task'[n] \in {Routed(task[n]), Answered(task[n], r)}, InCall(n),
             peers'[n] = peers[n], pending_peers'[n] = pending_peers[n]
      PROVE  Kept
  <2>1. task[n] \in CallTask(n)
    BY <1>2, TaskFacts DEF InCall
  <2> QED
    BY <1>2, <2>1 DEF Routed, Answered, CallTask
<1>3. ASSUME NEW k \in Nodes, UserStep(k), ~ \E p \in DOMAIN given : Pair(n, p),
             ~ \E m \in Nodes, cmd \in Commands \cup BuiltIns : Send(n, m, cmd)
      PROVE  Kept
  <2>1. CASE k = n
    <3>1. task'[n] = task[n] \/ task'[n] = Serving
      BY <1>3, <2>1 DEF UserStep, CreateInvite, Run, Goto, TypeOK
    <3>2. At(n, "idle")
      BY <1>3, <2>1 DEF UserStep, CreateInvite, Run
    <3> QED
      BY <1>0, <3>1, <3>2 DEF Serving, At
  <2>2. CASE k # n
    <3>1. /\ task' = task \/ \E t : task' = [task EXCEPT ![k] = t]
          /\ pending_peers' = pending_peers \/ \E t : pending_peers' = [pending_peers EXCEPT ![k] = t]
          /\ peers' = peers
      BY <1>3 DEF UserStep, CreateInvite, Pair, Send, Run, Goto, stateVars
    <3> QED
      BY <1>1, <2>2, <3>1 DEF TypeOK
  <2> QED
    BY <2>1, <2>2
<1>4. ASSUME NEW k \in Nodes, CallStep(k) \/ Fail(k)
      PROVE  Kept
  <2>1. CASE k # n
    <3>1. /\ \E t : task' = [task EXCEPT ![k] = t]
          /\ pending_peers' = pending_peers \/ \E t : pending_peers' = [pending_peers EXCEPT ![k] = t]
          /\ peers' = peers \/ \E t : peers' = [peers EXCEPT ![k] = t]
      BY <1>4 DEF CallStep, CachedResponse, Refused, RouteMessage, HandshakeAccepted, HandshakeRejected,
           CommandAnswered, Fail, Goto, stateVars
    <3> QED
      BY <1>1, <2>1, <3>1 DEF TypeOK
  <2>2. CASE k = n /\ (CachedResponse(n) \/ RouteMessage(n))
    <3>1. InCall(n) /\ peers' = peers /\ pending_peers' = pending_peers
      BY <2>2 DEF CachedResponse, RouteMessage, InCall, At, stateVars
    <3>2. \E r : task'[n] \in {Routed(task[n]), Answered(task[n], r)}
      BY <2>2 DEF CachedResponse, RouteMessage, Goto, TypeOK
    <3> QED
      BY <1>2, <3>1, <3>2
  <2>3. CASE k = n /\ ~ CachedResponse(n) /\ ~ RouteMessage(n)
    <3>1. task'[n] = Idle
      BY <1>4, <2>3 DEF CallStep, Refused, HandshakeAccepted, HandshakeRejected, CommandAnswered, Fail, Goto,
         TypeOK
    <3> QED
      BY <1>0, <3>1 DEF Idle
  <2> QED
    BY <2>1, <2>2, <2>3
<1>5. ASSUME NEW k \in Nodes, RelayStep(k)
      PROVE  Kept
  <2>1. peers' = peers /\ pending_peers' = pending_peers
    BY <1>5 DEF RelayStep, RegisterFrame, CommitsFrame, AckFrame, stateVars
  <2>2. task'[n] = task[n] \/ (At(n, "routed") /\ \E r : task'[n] = Answered(task[n], r))
    <3>1. \/ task' = task
          \/ \E c, r : At(c, "routed") /\ task' = [task EXCEPT ![c] = Answered(task[c], r)]
      BY <1>5 DEF RelayStep, RegisterFrame, CommitsFrame, AckFrame, Goto
    <3> QED
      BY <3>1 DEF TypeOK
  <2> QED
    BY <1>1, <1>2, <2>1, <2>2 DEF InCall, At
<1>6. ASSUME NEW k \in Nodes, ServeStep(k)
      PROVE  Kept
  <2>1. CASE k # n
    <3>1. /\ \E t : task' = [task EXCEPT ![k] = t]
          /\ pending_peers' = pending_peers
          /\ peers' = peers \/ \E t : peers' = [peers EXCEPT ![k] = t]
      BY <1>6 DEF ServeStep, AcceptHandshake, RejectHandshake, Unauthorized, RunHandler, RefuseCommand,
         InviteCreate, InviteDelete, Executed, RenewPreimage, Renewed, WriteFrame, RunEnds, Goto, stateVars
    <3> QED
      BY <1>1, <2>1, <3>1 DEF TypeOK
  <2>2. CASE k = n /\ \E m, ok : Executed(n, m, ok)
    <3>1. task'[n].at = "renew"
      BY <2>2 DEF Executed, Goto, TypeOK
    <3> QED
      BY <1>0, <3>1
  <2>3. CASE k = n /\ ~ \E m, ok : Executed(n, m, ok)
    <3>1. \/ \E t \in {Idle, Serving} : task' = [task EXCEPT ![n] = t]
          \/ \E frames : task' = [task EXCEPT ![n] = Writing(frames)]
      BY <1>6, <2>3 DEF ServeStep, AcceptHandshake, RejectHandshake, Unauthorized, RunHandler, RefuseCommand,
           InviteCreate, InviteDelete, RenewPreimage, WriteFrame, RunEnds, Goto
    <3> QED
      BY <1>0, <3>1 DEF TypeOK, Idle, Serving, Writing
  <2> QED
    BY <2>1, <2>2, <2>3
<1>7. CASE FaultStep
  <2>1. peers' = peers /\ pending_peers' = pending_peers
    BY <1>7 DEF FaultStep, Disconnect, Crash, RelayRestart, Expire, stateVars
  <2>2. task'[n] = task[n] \/ task'[n] = Idle
    BY <1>7 DEF FaultStep, Disconnect, Crash, RelayRestart, Expire, Goto, TypeOK
  <2> QED
    BY <1>0, <1>1, <2>1, <2>2 DEF Idle
<1>8. CASE UNCHANGED vars
  BY <1>1, <1>8 DEF vars, stateVars
<1> QED
  BY <1>3, <1>4, <1>5, <1>6, <1>7, <1>8 DEF Next

LEMMA RenewsStep ==
  ASSUME TypeOK, [Next]_vars, RenewsIssued, NEW n \in Nodes, At(n, "renew")'
  PROVE  task'[n].preimage \in Issued(n)'
<1>0. task'[n].at = "renew"
  BY DEF At
<1> DEFINE Goal == task'[n].preimage \in Issued(n)'
<1>1. ASSUME task'[n] = task[n], peers'[n] = peers[n]
      PROVE  Goal
  BY <1>0, <1>1 DEF RenewsIssued, At, Issued
<1>2. ASSUME task'[n].at \in {"idle", "serving", "sent", "routed", "answered", "write"}
      PROVE  Goal
  BY <1>0, <1>2
<1>3. ASSUME NEW k \in Nodes, UserStep(k) \/ CallStep(k) \/ Fail(k)
      PROVE  Goal
  <2>1. CASE k # n
    <3>1. /\ task' = task \/ \E t : task' = [task EXCEPT ![k] = t]
          /\ peers' = peers \/ \E t : peers' = [peers EXCEPT ![k] = t]
      BY <1>3 DEF UserStep, CreateInvite, Pair, Send, Run, CallStep, CachedResponse, Refused, RouteMessage,
         HandshakeAccepted, HandshakeRejected, CommandAnswered, Fail, Goto, stateVars
    <3> QED
      BY <1>1, <2>1, <3>1 DEF TypeOK
  <2>2. CASE k = n
    <3>1. ~ At(n, "renew")
      BY <1>3, <2>2 DEF UserStep, CreateInvite, Pair, Send, Run, CallStep, CachedResponse, Refused, RouteMessage,
         HandshakeAccepted, HandshakeRejected, CommandAnswered, Fail, At
    <3>2. InCall(n) => \A r : /\ Routed(task[n]).at = "routed" /\ Answered(task[n], r).at = "answered"
      BY TaskFacts DEF InCall, CallTask, Routed, Answered
    <3>3. CASE UserStep(n)
      <4>1. \/ task'[n] = task[n] \/ task'[n] = Serving
            \/ \E to, p, payload : task'[n] = Call(to, p, payload)
        <5>1. CASE \E p \in DOMAIN given : Pair(n, p)
          BY <5>1 DEF Pair, Goto, TypeOK
        <5>2. CASE \E m \in Nodes, cmd \in Commands \cup BuiltIns : Send(n, m, cmd)
          BY <5>2 DEF Send, Goto, TypeOK
        <5>3. CASE Run(n) \/ \E role \in Roles, m \in Nodes : CreateInvite(n, role, m)
          BY <5>3 DEF CreateInvite, Run, Goto, TypeOK
        <5> QED
          BY <3>3, <5>1, <5>2, <5>3 DEF UserStep
      <4>2. Serving.at = "serving" /\ \A to, p, payload : Call(to, p, payload).at = "sent"
        BY DEF Call, Serving
      <4> QED
        BY <1>0, <3>1, <4>1, <4>2 DEF At
    <3>4. CASE CallStep(n) \/ Fail(n)
      <4>1. InCall(n)
        BY <3>4 DEF CallStep, CachedResponse, Refused, RouteMessage, HandshakeAccepted, HandshakeRejected,
           CommandAnswered, Fail, InCall, At
      <4>2. task'[n] = Idle \/ task'[n] = Routed(task[n]) \/ \E r : task'[n] = Answered(task[n], r)
        BY <3>4 DEF CallStep, CachedResponse, Refused, RouteMessage, HandshakeAccepted, HandshakeRejected,
           CommandAnswered, Fail, Goto, TypeOK
      <4> QED
        BY <1>0, <3>2, <4>1, <4>2 DEF Idle
    <3> QED
      BY <1>3, <2>2, <3>3, <3>4
  <2> QED
    BY <2>1, <2>2
<1>4. ASSUME NEW k \in Nodes, RelayStep(k)
      PROVE  Goal
  <2>1. peers' = peers
    BY <1>4 DEF RelayStep, RegisterFrame, CommitsFrame, AckFrame, stateVars
  <2>2. \/ task' = task
        \/ \E c, r : At(c, "routed") /\ task' = [task EXCEPT ![c] = Answered(task[c], r)]
    BY <1>4 DEF RelayStep, RegisterFrame, CommitsFrame, AckFrame, Goto
  <2>3. At(n, "routed") => \A r : Answered(task[n], r).at = "answered"
    BY TaskFacts DEF At, CallTask, Answered
  <2> QED
    BY <1>0, <1>1, <2>1, <2>2, <2>3 DEF TypeOK
<1>5. ASSUME NEW k \in Nodes, ServeStep(k)
      PROVE  Goal
  <2>1. CASE k # n
    <3>1. /\ \E t : task' = [task EXCEPT ![k] = t]
          /\ peers' = peers \/ \E t : peers' = [peers EXCEPT ![k] = t]
      BY <1>5 DEF ServeStep, AcceptHandshake, RejectHandshake, Unauthorized, RunHandler, RefuseCommand,
         InviteCreate, InviteDelete, Executed, RenewPreimage, Renewed, WriteFrame, RunEnds, Goto, stateVars
    <3> QED
      BY <1>1, <2>1, <3>1 DEF TypeOK
  <2>2. CASE k = n /\ \E m, ok, cmds : IsCommand(n, m, cmds) /\ Executed(n, m, ok) /\ peers' = peers
    <3>1. PICK m, ok, cmds : IsCommand(n, m, cmds) /\ Executed(n, m, ok) /\ peers' = peers
      BY <2>2
    <3>2. task'[n].preimage = Head(downlink[n]).preimage
      BY <3>1 DEF Executed, Goto, TypeOK
    <3> QED
      BY <3>1, <3>2 DEF IsCommand, LookupPreimage, Issued
  <2>3. CASE k = n /\ ~ \E m, ok, cmds : IsCommand(n, m, cmds) /\ Executed(n, m, ok) /\ peers' = peers
    <3>1. \/ \E t \in {Idle, Serving} : task' = [task EXCEPT ![n] = t]
          \/ \E frames : task' = [task EXCEPT ![n] = Writing(frames)]
      <4>1. AcceptHandshake(n) \/ RejectHandshake(n) \/ Unauthorized(n) \/ RenewPreimage(n) \/ WriteFrame(n)
              \/ RunEnds(n)
        BY <1>5, <2>3 DEF ServeStep, RunHandler, RefuseCommand, InviteCreate, InviteDelete, stateVars
      <4> QED
        BY <4>1 DEF AcceptHandshake, RejectHandshake, Unauthorized, RenewPreimage, WriteFrame, RunEnds, Goto
    <3> QED
      BY <1>0, <3>1 DEF TypeOK, Idle, Serving, Writing
  <2> QED
    BY <2>1, <2>2, <2>3
<1>6. CASE FaultStep
  <2>1. peers' = peers
    BY <1>6 DEF FaultStep, Disconnect, Crash, RelayRestart, Expire, stateVars
  <2>2. task'[n] = task[n] \/ task'[n] = Idle
    BY <1>6 DEF FaultStep, Disconnect, Crash, RelayRestart, Expire, Goto, TypeOK
  <2> QED
    BY <1>0, <1>1, <2>1, <2>2 DEF Idle
<1>7. CASE UNCHANGED vars
  BY <1>1, <1>7 DEF vars, stateVars
<1> QED
  BY <1>3, <1>4, <1>5, <1>6, <1>7 DEF Next

LEMMA CallsStep ==
  ASSUME TypeOK, [Next]_vars, CallsCurrent
  PROVE  CallsCurrent'
<1> SUFFICES ASSUME NEW n \in Nodes, InCall(n)', task'[n].payload.msg = "request"
             PROVE  /\ task'[n].to \in DOMAIN peers'[n]
                    /\ task'[n].preimage = peers'[n][task'[n].to].their_preimage
  BY DEF CallsCurrent
<1>1. ASSUME InCall(n), task'[n].to = task[n].to, task'[n].preimage = task[n].preimage,
             task'[n].payload = task[n].payload, peers'[n] = peers[n]
      PROVE  /\ task'[n].to \in DOMAIN peers'[n]
             /\ task'[n].preimage = peers'[n][task'[n].to].their_preimage
  BY <1>1 DEF CallsCurrent
<1>2. ASSUME NEW p \in DOMAIN given, Pair(n, p)
      PROVE  FALSE
  BY <1>2 DEF Pair, Goto, TypeOK, Call, HandshakeInit
<1>3. ASSUME NEW m \in Nodes, NEW cmd \in Commands \cup BuiltIns, Send(n, m, cmd)
      PROVE  /\ task'[n].to \in DOMAIN peers'[n]
             /\ task'[n].preimage = peers'[n][task'[n].to].their_preimage
  BY <1>3 DEF Send, Goto, TypeOK, Call, stateVars
<1> QED
  BY <1>1, <1>2, <1>3, CallFrom

LEMMA OfferStep ==
  ASSUME TypeOK, OwnedInv, [Next]_vars, \A k \in Nodes : ReachableAt(k), OfferUnused,
         NEW n \in Nodes, Pairing(n)', NEW p, p = Offered(n)'
  PROVE  Unused(p)'
<1>1. PICK by, user : Owned(by, user)
  BY DEF OwnedInv
<1>2. CASE /\ InCall(n) /\ task'[n].to = task[n].to /\ task'[n].preimage = task[n].preimage
           /\ task'[n].payload = task[n].payload
           /\ peers'[n] = peers[n] /\ pending_peers'[n] = pending_peers[n]
  <2>2. Offered(n) = p /\ Pairing(n)
    BY <1>2 DEF Offered, Pairing
  <2>3. p \in Preimages /\ Unused(p) /\ by[p] = n
    BY <1>1, <2>2, IssuedTypes, CommitsOwned, CommitsAre DEF OfferUnused, Pairing, Offered
  <2>4. \A k \in Nodes : ~ Run(k) \/ Sha256(p) \notin AllCommits(k)
    BY <1>1, <1>2, <2>3, CommitsOwned DEF Run, At, InCall
  <2> QED
    BY <2>3, <2>4, UnusedKept
<1>3. CASE \E q \in DOMAIN given : Pair(n, q)
  <2>1. PICK q \in DOMAIN given : Pair(n, q)
    BY <1>3
  <2>2. PICK x, m : x = fresh /\ m = given[q].id52
    OBVIOUS
  <2>3. /\ task'[n] = Call(m, q, HandshakeInit(n, x)) /\ Next
        /\ pending_peers'[n] = Put(pending_peers[n], m, [their_preimage |-> q, my_preimage |-> x])
    BY <2>1, <2>2 DEF Pair, Goto, TypeOK, Next, UserStep
  <2>4. p = x
    BY <2>3 DEF Offered, Call, Put
  <2>5. pending_peers' # pending_peers
    <3>1. x \notin Preimages /\ pending_peers'[n][m].my_preimage = x /\ m \in DOMAIN pending_peers'[n]
      BY <2>2, <2>3 DEF TypeOK, WorldOK, Preimages, Put
    <3> QED
      BY <3>1, IssuedTypes
  <2>6. \A k \in Nodes : ~ Draws(k)
    BY <2>5 DEF Draws, AcceptHandshake, RenewPreimage
  <2> QED
    BY <2>2, <2>3, <2>4, <2>6, DrawnQuiet DEF Unused
<1>4. CASE \E m \in Nodes, cmd \in Commands \cup BuiltIns : Send(n, m, cmd)
  BY <1>4 DEF Send, Goto, TypeOK, Call, Request, Pairing
<1>5. InCall(n)'
  BY DEF Pairing
<1> QED
  BY <1>2, <1>3, <1>4, <1>5, CallFrom

LEMMA GivenGrows ==
  ASSUME [Next]_vars
  PROVE  DOMAIN given' \subseteq DOMAIN given \cup {fresh}
<1>1. given' = given \/ \E v : given' = Put(given, fresh, v)
  <2> USE DEF worldVars
  <2>1. CASE UNCHANGED vars
    BY <2>1 DEF vars
  <2>2. CASE \E n \in Nodes : UserStep(n)
    BY <2>2 DEF UserStep, CreateInvite, NewInvite, Pair, Send, Run
  <2>3. CASE \E n \in Nodes : CallStep(n) \/ Fail(n)
    BY <2>3 DEF CallStep, CachedResponse, Refused, RouteMessage, HandshakeAccepted,
         HandshakeRejected, CommandAnswered, Fail
  <2>4. CASE \E n \in Nodes : RelayStep(n)
    BY <2>4 DEF RelayStep, RegisterFrame, CommitsFrame, AckFrame
  <2>5. CASE \E n \in Nodes : ServeStep(n)
    BY <2>5 DEF ServeStep, AcceptHandshake, RejectHandshake, Unauthorized, RunHandler, RefuseCommand,
         InviteCreate, NewInvite, InviteDelete, RenewPreimage, WriteFrame, RunEnds
  <2>6. CASE FaultStep
    BY <2>6 DEF FaultStep, Disconnect, Crash, RelayRestart, Expire
  <2> QED
    BY <2>1, <2>2, <2>3, <2>4, <2>5, <2>6 DEF Next
<1> QED
  BY <1>1 DEF Put

\* What was answered stays so.
LEMMA SpentStays ==
  ASSUME TypeOK, Next, \A k \in Nodes : ReachableAt(k), AnsweredOnce,
         NEW r \in Responses, Tells(r), NEW p, p = r.to
  PROVE  /\ Spent(p)'
         /\ \A q \in Responses' : Alike(q, r)
<1>1. Spent(p) /\ \A q \in Responses : Alike(q, r)
  BY DEF AnsweredOnce
<1>2. p \in Preimages /\ p # fresh
  <2>1. ~ Unanswered(p)
    BY DEF Unanswered
  <2>2. CASE Nodes = {}
    BY <2>2 DEF Next, FaultStep, Responses, TypeOK, RelayOK, WorldOK, Preimages
  <2>3. CASE Nodes # {}
    BY <2>1, <2>3, UndrawnQuiet DEF TypeOK, WorldOK, Preimages
  <2> QED
    BY <2>2, <2>3
<1>3. p \notin DOMAIN given'
  BY <1>1, <1>2, GivenGrows DEF Spent
<1>4. ASSUME NEW k \in Nodes
      PROVE  Quiet(k, p)' /\ Sha256(p) \notin AllCommits(k)'
  BY <1>1, <1>2, QuietKept, CommitsFrom DEF Spent
<1>5. ASSUME NEW q \in Responses', q.to = p
      PROVE  q \in Responses
  BY <1>1, <1>5, AnswersFrom, AnswersWhere DEF Spent
<1>6. ASSUME NEW q \in Responses'
      PROVE  Alike(q, r)
  BY <1>1, <1>5, <1>6 DEF Alike
<1> QED
  BY <1>3, <1>4, <1>6 DEF Spent

\* What is renewed is answered with the preimage that replaces it, and with
\* nothing else.
LEMMA RenewalSpends ==
  ASSUME TypeOK, OwnedInv, Next, \A k \in Nodes : ReachableAt(k), OnePlace, IssuedOnce, RenewsIssued,
         NEW n \in Nodes, NEW r \in Responses', NEW p, p = r.to, RenewedWith(n, p, r.body)
  PROVE  /\ Spent(p)'
         /\ \A q \in Responses' : Alike(q, r)
<1>1. PICK x : x = fresh /\ x \notin Preimages
  BY DEF TypeOK, WorldOK, Preimages
<1>2. PICK by, user : Owned(by, user)
  BY DEF OwnedInv
<1>3. At(n, "renew") /\ RenewPreimage(n) /\ p = task[n].preimage /\ Renewing(n, p)
  BY DEF RenewedWith, RenewPreimage, Renewing
<1>4. p \in Issued(n) /\ p \in Preimages /\ p # x /\ IssuedAt(n, p) /\ by[p] = n /\ Single(n, p)
  BY <1>1, <1>2, <1>3, IssuedTypes, CommitsOwned, CommitsAre DEF RenewsIssued, IssuedOnce, OnePlace
<1>5. PICK m \in DOMAIN peers[n] : p \in peers[n][m].issued_preimages
  BY <1>4 DEF Issued
<1>6. p \notin DOMAIN given'
  BY <1>3, <1>5, IssuedFacts DEF RenewPreimage
<1>7. ASSUME NEW k \in Nodes \ {n}
      PROVE  Quiet(k, p)' /\ Sha256(p) \notin AllCommits(k)'
  <2>1. Sha256(p) \notin AllCommits(k)
    BY <1>2, <1>4, CommitsOwned
  <2> QED
    BY <1>1, <1>4, <2>1, QuietKept, CommitsFrom DEF IssuedAt
<1>8. Quiet(n, p)'
  <2>1. Drafts(n, p)' = {}
    <3>1. PICK u, a : u = UpdateCommits({Sha256(x)}) /\ a = RenewalAck(n)
      OBVIOUS
    <3>2. task'[n] = Writing(<<u, a>>)
      BY <1>1, <1>3, <3>1 DEF RenewPreimage, Goto, TypeOK
    <3>3. ~ Carries(u, p) /\ ~ Carries(a, p)
      BY <1>4, <3>1 DEF Carries, UpdateCommits, RenewalAck, Ack, Sha256
    <3>4. DOMAIN <<u, a>> = {1, 2} /\ <<u, a>>[1] = u /\ <<u, a>>[2] = a
      OBVIOUS
    <3> QED
      BY <3>2, <3>3, <3>4 DEF Drafts, Writing
  <2>2. Ups(n, p) = {} /\ Downs(n, p) = {} /\ ~ Registered(n, p)
    BY <1>3, <1>4 DEF Single
  <2>3. uplink' = uplink /\ downlink' = downlink /\ commits' = commits /\ task'[n].at = "write"
    BY <1>3 DEF RenewPreimage, linkVars, relayVars, Goto, TypeOK, Writing
  <2> QED
    BY <2>1, <2>2, <2>3 DEF Quiet, Ups, Downs, Registered, Renewing, At
<1>9. Sha256(p) \notin AllCommits(n)'
  <2>1. p \notin Issued(n)'
    BY <1>1, <1>3, <1>4, RenewalRetires
  <2>2. invites' = invites /\ pending_peers' = pending_peers
    BY <1>3 DEF RenewPreimage
  <2>3. p \notin DOMAIN invites[n] /\ \A k \in DOMAIN pending_peers[n] : p # pending_peers[n][k].my_preimage
    BY <1>2, <1>4, <1>5, IssuedFacts DEF Owned, PeersOwned
  <2> QED
    BY <2>1, <2>2, <2>3 DEF AllCommits, Sha256
<1>10. ASSUME NEW q \in Responses', q.to = p
       PROVE  q.body = r.body
  <2>1. q \notin Responses
    BY <1>4, <1>10 DEF IssuedAt, Unanswered
  <2>2. PICK k \in Nodes : Declined(k, p, q.body) \/ RenewedWith(k, p, q.body)
    BY <1>10, <2>1, AnswersFrom
  <2>3. k = n
    BY <1>4, <2>2, AnswersWhere DEF IssuedAt
  <2>4. ~ Declined(n, p, q.body)
    BY <1>3, AnswersWhere DEF At
  <2> QED
    BY <2>2, <2>3, <2>4 DEF RenewedWith
<1>11. ASSUME NEW q \in Responses'
       PROVE  Alike(q, r)
  <2>1. r.body.msg = "response"
    BY DEF RenewedWith, Response
  <2> QED
    BY <1>10, <1>11, <2>1 DEF Alike
<1> QED
  BY <1>6, <1>7, <1>8, <1>9, <1>11 DEF Spent

LEMMA OnceStep ==
  ASSUME TypeOK, OwnedInv, ReachableInv, OnceInv, [Next]_vars
  PROVE  OnceInv'
<1>1. \A k \in Nodes : ReachableAt(k)
  BY ReachableParts, NodeAssumption DEF TypeOK, RelayOK
<1>2. CASE UNCHANGED vars
  <2>1. /\ \A n, p : Quiet(n, p)' <=> Quiet(n, p)
        /\ \A n, p : Single(n, p)' <=> Single(n, p)
    BY <1>2 DEF vars, linkVars, relayVars, Quiet, Single, AtMostOne, Drafts, Ups, Downs, Registered, Renewing, At
  <2>2. Responses' = Responses /\ \A n : Issued(n)' = Issued(n) /\ AllCommits(n)' = AllCommits(n)
    BY <1>2 DEF vars, stateVars, linkVars, relayVars, Responses, Frames, Issued, AllCommits, At
  <2>3. OnePlace' /\ IssuedOnce'
    BY <1>2, <2>1, <2>2 DEF OnceInv, OnePlace, IssuedOnce, IssuedAt, Unanswered, vars, worldVars, Preimages
  <2>4. AnsweredOnce'
    BY <1>2, <2>1, <2>2 DEF OnceInv, AnsweredOnce, Spent, Alike, Tells, vars, worldVars
  <2>5. OfferUnused'
    BY <1>2, <2>1, <2>2 DEF OnceInv, OfferUnused, Unused, Unanswered, Pairing, Offered, InCall, vars, stateVars
  <2>6. RenewsIssued' /\ CallsCurrent'
    BY <1>1, <2>2, RenewsStep, CallsStep DEF OnceInv, RenewsIssued
  <2> QED
    BY <2>3, <2>4, <2>5, <2>6 DEF OnceInv
<1>3. CASE Next
  <2>1. OnePlace' /\ CallsCurrent'
    BY <1>1, OnePlaceStep, CallsStep DEF OnceInv
  <2>2. IssuedOnce'
    BY <1>1, <1>3, IssuedStep DEF OnceInv, IssuedOnce
  <2>3. OfferUnused'
    BY <1>1, OfferStep DEF OnceInv, OfferUnused
  <2>4. RenewsIssued'
    BY RenewsStep DEF OnceInv, RenewsIssued
  <2>5. ASSUME NEW r \in Responses', Tells(r)
        PROVE  \A p \in {r.to} : Spent(p)' /\ \A q \in Responses' : Alike(q, r)
    <3>1. CASE r \in Responses
      BY <1>1, <1>3, <2>5, <3>1, SpentStays DEF OnceInv
    <3>2. ASSUME NEW n \in Nodes, RenewedWith(n, r.to, r.body)
          PROVE  \A p \in {r.to} : Spent(p)' /\ \A q \in Responses' : Alike(q, r)
      BY <1>1, <1>3, <3>2, RenewalSpends DEF OnceInv
    <3>3. \A n \in Nodes : ~ Declined(n, r.to, r.body)
      BY <2>5 DEF Declined, Tells
    <3> QED
      BY <3>1, <3>2, <3>3, AnswersFrom
  <2>6. AnsweredOnce'
    BY <2>5 DEF AnsweredOnce, Tells, Alike, Spent
  <2> QED
    BY <2>1, <2>2, <2>3, <2>4, <2>6 DEF OnceInv
<1> QED
  BY <1>2, <1>3

LEMMA OnceInit == Init => OnceInv
<1> SUFFICES ASSUME Init
             PROVE  OnceInv
  OBVIOUS
<1>1. DOMAIN << >> = {}
  OBVIOUS
<1>2. /\ \A n \in Nodes : task[n].at = "idle" /\ Issued(n) = {} /\ Frames(n) = {}
      /\ Responses = {} /\ Preimages = {}
  BY <1>1 DEF Init, Idle, Issued, Frames, Responses, At, EmptyMap, Preimages
<1> QED
  BY <1>2 DEF OnceInv, OnePlace, IssuedOnce, OfferUnused, AnsweredOnce, RenewsIssued, CallsCurrent, Pairing,
     InCall, At

LEMMA NodeAnswersOnce == Spec => []OnceInv
<1>1. TypeOK /\ OwnedInv /\ ReachableInv /\ OnceInv /\ [Next]_vars => OnceInv'
  BY OnceStep
<1>2. Init => ReachableInv
  BY DEF Init, ReachableInv, IssuedReachable, Idle, At
<1> QED
  BY <1>1, <1>2, OnceInit, ReachableStep, NodeTypes, NodeOwnership, PTL DEF Spec

(***************************************************************************)
(* Being in touch                                                          *)
(***************************************************************************)

LEMMA ToldAre ==
  ASSUME NEW t
  PROVE  /\ t \in Told <=> \E r \in Responses : Tells(r) /\ t = <<r.to, r.body.next>>
         /\ t \in Told' <=> \E r \in Responses' : Tells(r) /\ t = <<r.to, r.body.next>>
BY DEF Told, Tells

\* A set that holds what n holds, and with each preimage what n is told next,
\* holds one that m accepts.
LEMMA TouchUse ==
  ASSUME NEW n, NEW m, InTouch(n, m), NEW p, p = peers[n][m].their_preimage,
         NEW C, p \in C, \A t \in Told : t[1] \in C \cap Onward(p) => t[2] \in C
  PROVE  \E q \in C \cap Onward(p) : Accepts(m, n, q)
<1> DEFINE D == C \cap Onward(p)
<1>1. D \in SUBSET ({p} \cup {t[2] : t \in Told})
  BY DEF Onward
<1>2. p \in D
  BY DEF Onward, Closed
<1>3. ASSUME NEW t \in Told, t[1] \in D
      PROVE  t[2] \in D
  <2>1. ASSUME NEW qs \in Closed(p)
        PROVE  t[2] \in qs
    BY <1>3, <2>1 DEF Onward, Closed
  <2> QED
    BY <1>3, <2>1 DEF Onward
<1>4. D \in Closed(p)
  BY <1>1, <1>2, <1>3 DEF Closed
<1> QED
  BY <1>2, <1>4 DEF InTouch

LEMMA TouchNext ==
  ASSUME NEW n, NEW m, NEW p, p = peers'[n][m].their_preimage,
         \A C : p \in C /\ (\A t \in Told' : t[1] \in C => t[2] \in C) => \E q \in C : Accepts(m, n, q)'
  PROVE  InTouch(n, m)'
<1> SUFFICES ASSUME NEW C \in Closed(peers[n][m].their_preimage)'
             PROVE  \E q \in C : Accepts(m, n, q)'
  BY DEF InTouch
<1>1. p \in C /\ \A t \in Told' : t[1] \in C => t[2] \in C
  BY DEF Closed
<1> QED
  BY <1>1

\* As long as nothing is lost that was needed.
LEMMA TouchKept ==
  ASSUME NEW n, NEW m, InTouch(n, m), NEW p, p = peers[n][m].their_preimage,
         peers'[n][m].their_preimage = p,
         \A t \in Told : t[1] \in Onward(p) => t \in Told',
         \A q \in Onward(p) : Accepts(m, n, q) => Accepts(m, n, q)'
  PROVE  InTouch(n, m)'
<1>1. ASSUME NEW C, p \in C, \A t \in Told' : t[1] \in C => t[2] \in C
      PROVE  \E q \in C : Accepts(m, n, q)'
  <2>1. \A t \in Told : t[1] \in C \cap Onward(p) => t[2] \in C
    BY <1>1
  <2> QED
    BY <1>1, <2>1, TouchUse
<1> QED
  BY <1>1, TouchNext

\* What n may come to hold for m is n's to use, and m's to accept.
LEMMA OnwardOwned ==
  ASSUME NEW by, NEW user, Owned(by, user), NEW n \in Nodes, NEW m \in DOMAIN peers[n],
         NEW z \in Onward(peers[n][m].their_preimage)
  PROVE  user[z] = n /\ by[z] = m
<1>1. PICK p : p = peers[n][m].their_preimage
  OBVIOUS
<1> DEFINE C == {q \in {p} \cup {t[2] : t \in Told} : user[q] = n /\ by[q] = m}
<1>2. p \in C
  BY <1>1 DEF Owned, PeersOwned
<1>3. ASSUME NEW t \in Told, t[1] \in C
      PROVE  t[2] \in C
  <2>1. PICK r \in Responses : Tells(r) /\ t = <<r.to, r.body.next>>
    BY <1>3, ToldAre
  <2>2. ReplyOwned(by, user, r.to, r.body)
    <3>1. ASSUME NEW q \in DOMAIN response_cache, r = Answer(q, response_cache[q])
          PROVE  ReplyOwned(by, user, r.to, r.body)
      BY <3>1 DEF Owned, CacheOwned, Answer
    <3>2. ASSUME NEW k \in Nodes, NEW f \in Frames(k), f.type = "ACK", r = Answer(f.preimage, f.response)
          PROVE  ReplyOwned(by, user, r.to, r.body)
      BY <3>2 DEF Owned, LinkOwned, Answer
    <3>3. ASSUME NEW k \in Nodes, At(k, "answered"), r = Answer(task[k].preimage, task[k].response)
          PROVE  ReplyOwned(by, user, r.to, r.body)
      BY <3>3 DEF Owned, TaskOwned, Answer
    <3> QED
      BY <3>1, <3>2, <3>3, ResponsesAre
  <2>3. user[r.body.next] = user[r.to] /\ by[r.body.next] = by[r.to]
    BY <2>1, <2>2 DEF ReplyOwned, Tells
  <2> QED
    BY <1>3, <2>1, <2>3
<1>4. C \in Closed(p)
  BY <1>2, <1>3 DEF Closed
<1> QED
  BY <1>1, <1>4 DEF Onward

\* What a sender would be told it still would be, unless it takes it.
LEMMA ToldKept ==
  ASSUME TypeOK, OwnedInv, OnceInv, \A k \in Nodes : ReachableAt(k), [Next]_vars, ~ BreaksOff,
         NEW t \in Told, t \notin Told'
  PROVE  \E k \in Nodes : /\ CommandAnswered(k) /\ t = <<task[k].preimage, task[k].response.next>>
                          /\ task[k].response.next # None
<1>1. PICK r \in Responses : Tells(r) /\ t = <<r.to, r.body.next>>
  BY ToldAre
<1>2. r \notin Responses'
  BY <1>1, ToldAre
<1>3. Spent(r.to) /\ \A q \in Responses : Alike(q, r)
  BY <1>1 DEF OnceInv, AnsweredOnce
<1>4. ASSUME NEW q \in Responses, q.to = r.to, q \in Responses'
      PROVE  FALSE
  <2>1. Tells(q) /\ t = <<q.to, q.body.next>>
    BY <1>1, <1>3, <1>4 DEF Alike, Tells
  <2> QED
    BY <1>4, <2>1, ToldAre
<1>5. PICK k \in Nodes : Ends(k) /\ r = Answer(task[k].preimage, task[k].response)
  BY <1>2, <1>4, AnswersKept
<1>6. r.to = task[k].preimage /\ r.body = task[k].response
  BY <1>5 DEF Answer
<1>7. ~ HandshakeAccepted(k)
  BY <1>1, <1>6 DEF HandshakeAccepted, Tells
<1>8. ~ HandshakeRejected(k)
  <2> SUFFICES ASSUME HandshakeRejected(k)
               PROVE  FALSE
    OBVIOUS
  <2>1. At(k, "answered") /\ task[k].payload.msg = "HANDSHAKE_INIT"
    BY DEF HandshakeRejected
  <2>2. task[k].preimage \in DOMAIN given
    BY <2>1 DEF OwnedInv, Owned, TaskOwned, MessageOwned, At
  <2> QED
    BY <1>3, <1>6, <2>2 DEF Spent
<1> QED
  BY <1>1, <1>5, <1>6, <1>7, <1>8 DEF Ends, Tells

(***************************************************************************)
(* What a step does to two peers                                           *)
(***************************************************************************)

LEMMA PeersChange ==
  ASSUME [Next]_vars
  PROVE  /\ \/ peers' = peers
            \/ \E k \in Nodes : HandshakeAccepted(k) \/ CommandAnswered(k) \/ AcceptHandshake(k) \/ RenewPreimage(k)
         /\ \/ pending_peers' = pending_peers
            \/ \E k \in Nodes : HandshakeAccepted(k) \/ \E p \in DOMAIN given : Pair(k, p)
<1> USE DEF stateVars
<1>1. CASE UNCHANGED vars
  BY <1>1 DEF vars
<1>2. CASE \E k \in Nodes : UserStep(k) \/ Fail(k)
  BY <1>2 DEF UserStep, CreateInvite, Pair, Send, Run, Fail
<1>3. CASE \E k \in Nodes : CallStep(k)
  BY <1>3 DEF CallStep, CachedResponse, Refused, RouteMessage, HandshakeRejected, CommandAnswered
<1>4. CASE \E k \in Nodes : RelayStep(k)
  BY <1>4 DEF RelayStep, RegisterFrame, CommitsFrame, AckFrame
<1>5. CASE \E k \in Nodes : ServeStep(k)
  BY <1>5 DEF ServeStep, AcceptHandshake, RejectHandshake, Unauthorized, RunHandler, RefuseCommand,
       InviteCreate, InviteDelete, RenewPreimage, WriteFrame, RunEnds
<1>6. CASE FaultStep
  BY <1>6 DEF FaultStep, Disconnect, Crash, RelayRestart, Expire
<1> QED
  BY <1>1, <1>2, <1>3, <1>4, <1>5, <1>6 DEF Next

\* What a step that changes the peers of node k does to them.
PeerPut(k, c, v) == peers' = [peers EXCEPT ![k] = Put(peers[k], c, v)]

AcceptedPut(k, c, v) ==
  /\ PeerPut(k, c, v) /\ c = task[k].to /\ c \in DOMAIN pending_peers[k]
  /\ v.issued_preimages = {pending_peers[k][c].my_preimage}
  /\ pending_peers' = [pending_peers EXCEPT ![k] = Drop(pending_peers[k], c)]

AnsweredPut(k, c, v) ==
  /\ PeerPut(k, c, v) /\ c = task[k].to /\ c \in DOMAIN peers[k] /\ task[k].response.next # None
  /\ v.issued_preimages = peers[k][c].issued_preimages
  /\ v.their_preimage = task[k].response.next

RenewedPut(k, c, v) ==
  /\ PeerPut(k, c, v) /\ c = task[k].peer /\ c \in DOMAIN peers[k]
  /\ v.issued_preimages = (peers[k][c].issued_preimages \ {task[k].preimage}) \cup {fresh}
  /\ v.their_preimage = peers[k][c].their_preimage

LEMMA PeersPut ==
  ASSUME TypeOK, NEW k \in Nodes
  PROVE  /\ HandshakeAccepted(k) => \E c, v : AcceptedPut(k, c, v)
         /\ CommandAnswered(k) => peers' = peers \/ \E c, v : AnsweredPut(k, c, v)
         /\ AcceptHandshake(k) => \E v : PeerPut(k, Head(downlink[k]).payload.sender_id52, v)
         /\ RenewPreimage(k) => \E c, v : RenewedPut(k, c, v)
<1>1. ASSUME HandshakeAccepted(k)
      PROVE  \E c, v : AcceptedPut(k, c, v)
  <2>1. PICK c, v : /\ c = task[k].to
                    /\ v = [role |-> "reader",
                            issued_preimages |-> {pending_peers[k][c].my_preimage},
                            their_preimage |-> task[k].response.preimage_for_peer]
    OBVIOUS
  <2>2. PeerPut(k, c, v)
    BY <1>1, <2>1 DEF HandshakeAccepted, PeerPut
  <2>3. c \in DOMAIN pending_peers[k] /\ pending_peers' = [pending_peers EXCEPT ![k] = Drop(pending_peers[k], c)]
    BY <1>1, <2>1 DEF HandshakeAccepted
  <2>4. v.issued_preimages = {pending_peers[k][c].my_preimage}
    BY <2>1
  <2> QED
    BY <2>1, <2>2, <2>3, <2>4 DEF AcceptedPut
<1>2. ASSUME CommandAnswered(k), peers' # peers
      PROVE  \E c, v : AnsweredPut(k, c, v)
  <2>1. PICK c, v : /\ c = task[k].to
                    /\ v = [role |-> peers[k][c].role,
                            issued_preimages |-> peers[k][c].issued_preimages,
                            their_preimage |-> task[k].response.next]
    OBVIOUS
  <2>2. PeerPut(k, c, v) /\ c \in DOMAIN peers[k] /\ task[k].response.next # None
    BY <1>2, <2>1 DEF CommandAnswered, PeerPut
  <2>3. v.issued_preimages = peers[k][c].issued_preimages /\ v.their_preimage = task[k].response.next
    BY <2>1
  <2> QED
    BY <2>1, <2>2, <2>3 DEF AnsweredPut
<1>3. ASSUME AcceptHandshake(k)
      PROVE  \E v : PeerPut(k, Head(downlink[k]).payload.sender_id52, v)
  BY <1>3 DEF AcceptHandshake, PeerPut
<1>4. ASSUME RenewPreimage(k)
      PROVE  \E c, v : RenewedPut(k, c, v)
  <2>1. PICK c, v : /\ c = task[k].peer
                    /\ v = [role |-> peers[k][c].role,
                            issued_preimages |-> (peers[k][c].issued_preimages \ {task[k].preimage}) \cup {fresh},
                            their_preimage |-> peers[k][c].their_preimage]
    OBVIOUS
  <2>2. PeerPut(k, c, v)
    BY <1>4, <2>1 DEF RenewPreimage, Renewed, PeerPut
  <2>3. c \in DOMAIN peers[k]
    BY <1>4, <2>1, TaskFacts DEF RenewPreimage
  <2>4. /\ v.issued_preimages = (peers[k][c].issued_preimages \ {task[k].preimage}) \cup {fresh}
        /\ v.their_preimage = peers[k][c].their_preimage
    BY <2>1
  <2> QED
    BY <2>1, <2>2, <2>3, <2>4 DEF RenewedPut
<1> QED
  BY <1>1, <1>2, <1>3, <1>4

\* What it leaves alone.
LEMMA PutFacts ==
  ASSUME TypeOK, NEW k \in Nodes, NEW c, NEW v, PeerPut(k, c, v), NEW n \in Nodes, NEW m
  PROVE  /\ m \in DOMAIN peers[n] => m \in DOMAIN peers'[n]
         /\ m \in DOMAIN peers[n] => (k # n \/ c # m => peers'[n][m] = peers[n][m])
         /\ k = n /\ c = m => m \in DOMAIN peers'[n] /\ peers'[n][m] = v
BY DEF PeerPut, TypeOK, Put

\* A peer stays one; what it is sent with changes with a command's answer, or
\* with a new pairing.
LEMMA TheirKept ==
  ASSUME TypeOK, [Next]_vars, NEW n \in Nodes, NEW m \in DOMAIN peers[n]
  PROVE  /\ m \in DOMAIN peers'[n]
         /\ \/ peers'[n][m].their_preimage = peers[n][m].their_preimage
            \/ PairsAnew(n, m)
            \/ /\ CommandAnswered(n) /\ task[n].to = m /\ task[n].response.next # None
               /\ peers'[n][m].their_preimage = task[n].response.next
<1> DEFINE Goal == /\ m \in DOMAIN peers'[n]
                   /\ \/ peers'[n][m].their_preimage = peers[n][m].their_preimage
                      \/ PairsAnew(n, m)
                      \/ /\ CommandAnswered(n) /\ task[n].to = m /\ task[n].response.next # None
                         /\ peers'[n][m].their_preimage = task[n].response.next
<1>1. ASSUME NEW k \in Nodes, HandshakeAccepted(k)
      PROVE  Goal
  <2>1. PICK c, v : AcceptedPut(k, c, v)
    BY <1>1, PeersPut
  <2> QED
    BY <1>1, <2>1, PutFacts DEF PairsAnew, AcceptedPut
<1>2. ASSUME NEW k \in Nodes, CommandAnswered(k)
      PROVE  Goal
  <2>1. CASE peers' = peers
    BY <2>1
  <2>2. ASSUME NEW c, NEW v, AnsweredPut(k, c, v)
        PROVE  Goal
    BY <1>2, <2>2, PutFacts DEF AnsweredPut
  <2> QED
    BY <1>2, <2>1, <2>2, PeersPut
<1>3. ASSUME NEW k \in Nodes, AcceptHandshake(k)
      PROVE  Goal
  <2>1. PICK v : PeerPut(k, Head(downlink[k]).payload.sender_id52, v)
    BY <1>3, PeersPut
  <2> QED
    BY <1>3, <2>1, PutFacts DEF PairsAnew
<1>4. ASSUME NEW k \in Nodes, RenewPreimage(k)
      PROVE  Goal
  <2>1. PICK c, v : RenewedPut(k, c, v)
    BY <1>4, PeersPut
  <2> QED
    BY <2>1, PutFacts DEF RenewedPut
<1> QED
  BY <1>1, <1>2, <1>3, <1>4, PeersChange

\* What m accepts it still accepts, unless it renews it or pairs anew.
LEMMA AcceptsKept ==
  ASSUME TypeOK, [Next]_vars, NEW m \in Nodes, NEW n \in Nodes, NEW q, Accepts(m, n, q),
         ~ PairsAnew(m, n), ~ (RenewPreimage(m) /\ task[m].peer = n /\ q = task[m].preimage)
  PROVE  Accepts(m, n, q)'
<1>1. CASE n \in DOMAIN peers[m] /\ q \in peers[m][n].issued_preimages
  <2> DEFINE Goal == n \in DOMAIN peers'[m] /\ q \in peers'[m][n].issued_preimages
  <2>1. ASSUME NEW k \in Nodes, HandshakeAccepted(k)
        PROVE  Goal
    <3>1. PICK c, v : AcceptedPut(k, c, v)
      BY <2>1, PeersPut
    <3> QED
      BY <1>1, <2>1, <3>1, PutFacts DEF PairsAnew, AcceptedPut
  <2>2. ASSUME NEW k \in Nodes, CommandAnswered(k)
        PROVE  Goal
    <3>1. CASE peers' = peers
      BY <1>1, <3>1
    <3>2. ASSUME NEW c, NEW v, AnsweredPut(k, c, v)
          PROVE  Goal
      BY <1>1, <3>2, PutFacts DEF AnsweredPut
    <3> QED
      BY <2>2, <3>1, <3>2, PeersPut
  <2>3. ASSUME NEW k \in Nodes, AcceptHandshake(k)
        PROVE  Goal
    <3>1. PICK v : PeerPut(k, Head(downlink[k]).payload.sender_id52, v)
      BY <2>3, PeersPut
    <3> QED
      BY <1>1, <2>3, <3>1, PutFacts DEF PairsAnew
  <2>4. ASSUME NEW k \in Nodes, RenewPreimage(k)
        PROVE  Goal
    <3>1. PICK c, v : RenewedPut(k, c, v)
      BY <2>4, PeersPut
    <3> QED
      BY <1>1, <2>4, <3>1, PutFacts DEF RenewedPut
  <2>5. Goal
    BY <1>1, <2>1, <2>2, <2>3, <2>4, PeersChange
  <2> QED
    BY <2>5 DEF Accepts
<1>2. CASE n \in DOMAIN pending_peers[m] /\ q = pending_peers[m][n].my_preimage
  <2>1. CASE pending_peers' = pending_peers
    BY <1>2, <2>1 DEF Accepts
  <2>2. ASSUME NEW k \in Nodes, HandshakeAccepted(k)
        PROVE  Accepts(m, n, q)'
    <3>1. PICK c, v : AcceptedPut(k, c, v)
      BY <2>2, PeersPut
    <3>2. CASE k = m /\ c = n
      <4>1. n \in DOMAIN peers'[m] /\ peers'[m][n] = v
        BY <3>1, <3>2, PutFacts DEF AcceptedPut
      <4> QED
        BY <1>2, <3>1, <3>2, <4>1 DEF Accepts, AcceptedPut
    <3>3. CASE k # m \/ c # n
      <4>1. n \in DOMAIN pending_peers'[m] /\ pending_peers'[m][n] = pending_peers[m][n]
        BY <1>2, <3>1, <3>3 DEF AcceptedPut, Drop, Restrict, TypeOK
      <4> QED
        BY <1>2, <4>1 DEF Accepts
    <3> QED
      BY <3>2, <3>3
  <2>3. ASSUME NEW k \in Nodes, NEW p \in DOMAIN given, Pair(k, p)
        PROVE  Accepts(m, n, q)'
    <3>1. PICK c, v : /\ c = given[p].id52
                      /\ v = [their_preimage |-> p, my_preimage |-> fresh]
      OBVIOUS
    <3>2. pending_peers' = [pending_peers EXCEPT ![k] = Put(pending_peers[k], c, v)]
      BY <2>3, <3>1 DEF Pair
    <3>3. k # m \/ c # n
      BY <1>2, <2>3, <3>1 DEF PairsAnew
    <3>4. n \in DOMAIN pending_peers'[m] /\ pending_peers'[m][n] = pending_peers[m][n]
      BY <1>2, <3>2, <3>3 DEF Put, TypeOK
    <3> QED
      BY <1>2, <3>4 DEF Accepts
  <2> QED
    BY <2>1, <2>2, <2>3, PeersChange
<1> QED
  BY <1>1, <1>2 DEF Accepts

\* A response that is lost although nothing breaks off was taken by the node it
\* is for, by the command it answers.
LEMMA TakenByOwner ==
  ASSUME TypeOK, OwnedInv, OnceInv, \A k \in Nodes : ReachableAt(k), [Next]_vars, ~ BreaksOff,
         NEW n \in Nodes, NEW m \in DOMAIN peers[n],
         NEW t \in Told, t \notin Told', t[1] \in Onward(peers[n][m].their_preimage)
  PROVE  /\ CommandAnswered(n) /\ task[n].to = m /\ task[n].response.next # None
         /\ t[1] = task[n].preimage
<1>1. PICK k \in Nodes : /\ CommandAnswered(k) /\ t = <<task[k].preimage, task[k].response.next>>
                         /\ task[k].response.next # None
  BY ToldKept
<1>2. PICK by, user : Owned(by, user)
  BY DEF OwnedInv
<1>3. user[t[1]] = n /\ by[t[1]] = m
  BY <1>2, OnwardOwned
<1>4. user[task[k].preimage] = k /\ by[task[k].preimage] = task[k].to
  BY <1>1, <1>2 DEF Owned, TaskOwned, MessageOwned, CommandAnswered, At
<1> QED
  BY <1>1, <1>3, <1>4

LEMMA BreaksKeeps ==
  ASSUME BreaksOff
  PROVE  peers' = peers /\ pending_peers' = pending_peers
BY DEF BreaksOff, FaultStep, Disconnect, Crash, RelayRestart, Expire, Fail, RunEnds, stateVars

\* The renewal of a preimage that m accepts from n tells n the next one.
LEMMA RenewalTells ==
  ASSUME TypeOK, NEW m \in Nodes, RenewPreimage(m), NEW n, n = task[m].peer, NEW x, x = fresh
  PROVE  Accepts(m, n, x)' /\ <<task[m].preimage, x>> \in Told'
<1>1. PICK c, v : RenewedPut(m, c, v)
  BY PeersPut
<1>2. x \in v.issued_preimages /\ c = n /\ PeerPut(m, c, v)
  BY <1>1 DEF RenewedPut
<1>3. n \in DOMAIN peers'[m] /\ x \in peers'[m][n].issued_preimages
  BY <1>2, PutFacts
<1>4. x # None
  BY NodeAssumption DEF TypeOK, WorldOK
<1>5. PICK p, ok, cmd, a, u : /\ p = task[m].preimage /\ ok = task[m].ok /\ cmd = task[m].cmd
                              /\ a = RenewalAck(m) /\ u = UpdateCommits({Sha256(x)})
  OBVIOUS
<1>6. a.type = "ACK" /\ a.preimage = p /\ a.response = Response(ok, cmd, x)
  BY <1>5 DEF RenewalAck, Ack
<1>7. task'[m] = Writing(<<u, a>>)
  BY <1>5 DEF RenewPreimage, Goto, TypeOK
<1>8. a \in Frames(m)'
  <2>1. task'[m].at = "write" /\ task'[m].frames = <<u, a>>
    BY <1>7 DEF Writing
  <2>2. 2 \in DOMAIN <<u, a>> /\ <<u, a>>[2] = a
    OBVIOUS
  <2> QED
    BY <2>1, <2>2 DEF Frames, At
<1>9. PICK r : r = Answer(p, Response(ok, cmd, x))
  OBVIOUS
<1>10. r \in Responses'
  BY <1>6, <1>8, <1>9, ResponsesAre
<1>11. Tells(r) /\ r.to = p /\ r.body.next = x
  BY <1>4, <1>9 DEF Tells, Answer, Response
<1> QED
  BY <1>3, <1>5, <1>10, <1>11, ToldAre DEF Accepts

\* n takes the response to its command: it holds next what it was told.
LEMMA TouchTaken ==
  ASSUME TypeOK, OwnedInv, OnceInv, \A k \in Nodes : ReachableAt(k), [Next]_vars, ~ BreaksOff,
         NEW n \in Nodes, NEW m \in DOMAIN peers[n], InTouch(n, m), ~ PairsAnew(m, n),
         ~ RenewPreimage(m),
         CommandAnswered(n), task[n].to = m, task[n].response.next # None
  PROVE  InTouch(n, m)'
<1>1. PICK p, y : p = peers[n][m].their_preimage /\ y = task[n].response.next
  OBVIOUS
<1>2. At(n, "answered") /\ task[n].payload.msg = "request" /\ task[n].response.msg = "response"
  BY DEF CommandAnswered
<1>3. task[n].preimage = p
  BY <1>1, <1>2 DEF OnceInv, CallsCurrent, InCall, At
<1>4. PICK r : r = Answer(p, task[n].response)
  OBVIOUS
<1>5. r \in Responses /\ Tells(r) /\ r.to = p /\ r.body.next = y
  BY <1>1, <1>2, <1>3, <1>4, ResponsesAre DEF Tells, Answer
<1>6. Spent(p) /\ \A q \in Responses : Alike(q, r)
  BY <1>5 DEF OnceInv, AnsweredOnce
<1>7. m \in Nodes
  BY DEF TypeOK, StateOK
<1>8. peers'[n][m].their_preimage = y
  <2>1. peers' = [peers EXCEPT ![n] = Put(peers[n], m,
                     [role |-> peers[n][m].role, issued_preimages |-> peers[n][m].issued_preimages,
                      their_preimage |-> y])]
    BY <1>1 DEF CommandAnswered
  <2> QED
    BY <2>1 DEF TypeOK, Put
<1>9. ASSUME NEW C, y \in C, \A t \in Told' : t[1] \in C => t[2] \in C
      PROVE  \E q \in C : Accepts(m, n, q)'
  <2> DEFINE D == C \cup {p}
  <2>1. ASSUME NEW t \in Told, t[1] \in D \cap Onward(p)
        PROVE  t[2] \in D
    <3>1. CASE t[1] = p
      <4>1. PICK q \in Responses : Tells(q) /\ t = <<q.to, q.body.next>>
        BY ToldAre
      <4>2. t[2] = y
        BY <1>5, <1>6, <3>1, <4>1 DEF Alike
      <4> QED
        BY <1>9, <4>2
    <3>2. CASE t[1] # p
      <4>1. t \in Told'
        BY <1>1, <1>3, <2>1, <3>2, TakenByOwner
      <4> QED
        BY <1>9, <2>1, <3>2, <4>1
    <3> QED
      BY <3>1, <3>2
  <2>2. PICK q \in D \cap Onward(p) : Accepts(m, n, q)
    BY <1>1, <2>1, TouchUse
  <2>3. q # p
    BY <1>6, <1>7, <2>2, CommitsAre DEF Spent, Accepts, Issued
  <2> QED
    BY <1>7, <2>2, <2>3, AcceptsKept
<1> QED
  BY <1>8, <1>9, TouchNext

\* m renews the preimage that n used: what n holds, or is told, leads to it.
LEMMA TouchRenewed ==
  ASSUME TypeOK, OwnedInv, OnceInv, \A k \in Nodes : ReachableAt(k), [Next]_vars, ~ BreaksOff,
         NEW n \in Nodes, NEW m \in DOMAIN peers[n], InTouch(n, m), ~ PairsAnew(n, m), ~ PairsAnew(m, n),
         RenewPreimage(m), task[m].peer = n
  PROVE  InTouch(n, m)'
<1>1. PICK p, x, z : p = peers[n][m].their_preimage /\ x = fresh /\ z = task[m].preimage
  OBVIOUS
<1>2. m \in Nodes
  BY DEF TypeOK, StateOK
<1>3. \A k \in Nodes : ~ CommandAnswered(k)
  BY DEF RenewPreimage, CommandAnswered, worldVars, TypeOK, WorldOK
<1>4. peers'[n][m].their_preimage = p
  BY <1>1, <1>3, TheirKept
<1>5. Accepts(m, n, x)' /\ <<z, x>> \in Told'
  BY <1>1, <1>2, RenewalTells
<1>6. ASSUME NEW C, p \in C, \A t \in Told' : t[1] \in C => t[2] \in C
      PROVE  \E q \in C : Accepts(m, n, q)'
  <2>1. \A t \in Told : t[1] \in C => t[2] \in C
    BY <1>3, <1>6, ToldKept
  <2>2. PICK q \in C : Accepts(m, n, q)
    BY <1>1, <1>6, <2>1, TouchUse
  <2>3. CASE q = z
    BY <1>5, <1>6, <2>3
  <2>4. CASE q # z
    BY <1>1, <1>2, <2>2, <2>4, AcceptsKept
  <2> QED
    BY <2>3, <2>4
<1> QED
  BY <1>4, <1>6, TouchNext

LEMMA TouchStep ==
  ASSUME TypeOK, OwnedInv, OnceInv, \A k \in Nodes : ReachableAt(k), [Next]_vars,
         NEW n \in Nodes, NEW m \in DOMAIN peers[n], InTouch(n, m)
  PROVE  \/ InTouch(n, m)'
         \/ BreaksOff /\ \E t \in Told : t \notin Told' /\ t[1] \in Onward(peers[n][m].their_preimage)
         \/ PairsAnew(n, m) \/ PairsAnew(m, n)
<1> SUFFICES ASSUME ~ PairsAnew(n, m), ~ PairsAnew(m, n),
                    ~ (BreaksOff /\ \E t \in Told : t \notin Told' /\ t[1] \in Onward(peers[n][m].their_preimage))
             PROVE  InTouch(n, m)'
  OBVIOUS
<1>1. PICK p : p = peers[n][m].their_preimage
  OBVIOUS
<1>2. m \in Nodes
  BY DEF TypeOK, StateOK
<1>3. CASE BreaksOff
  <2>1. peers'[n][m].their_preimage = p /\ \A q : Accepts(m, n, q)' <=> Accepts(m, n, q)
    BY <1>1, <1>3, BreaksKeeps DEF Accepts
  <2> QED
    BY <1>1, <1>3, <2>1, TouchKept
<1>4. CASE ~ BreaksOff /\ RenewPreimage(m) /\ task[m].peer = n
  BY <1>4, TouchRenewed
<1>5. CASE ~ BreaksOff /\ CommandAnswered(n) /\ task[n].to = m /\ task[n].response.next # None
  <2>1. ~ RenewPreimage(m)
    BY <1>5 DEF RenewPreimage, CommandAnswered, worldVars, TypeOK, WorldOK
  <2> QED
    BY <1>5, <2>1, TouchTaken
<1>6. CASE /\ ~ BreaksOff /\ ~ (RenewPreimage(m) /\ task[m].peer = n)
           /\ ~ (CommandAnswered(n) /\ task[n].to = m /\ task[n].response.next # None)
  <2>1. peers'[n][m].their_preimage = p
    BY <1>1, <1>6, TheirKept
  <2>2. \A t \in Told : t[1] \in Onward(p) => t \in Told'
    BY <1>1, <1>6, TakenByOwner
  <2>3. \A q : Accepts(m, n, q) => Accepts(m, n, q)'
    BY <1>2, <1>6, AcceptsKept
  <2> QED
    BY <1>1, <2>1, <2>2, <2>3, TouchKept
<1> QED
  BY <1>3, <1>4, <1>5, <1>6

\* Whatever is sent, retried, cached, answered late or twice, two paired nodes
\* lose touch only when what breaks off takes along a response that was still
\* needed, or when they pair once more: the renewal of a preimage by the code
\* that consumes it, the commit that follows, the cache of the relay and the
\* sender that takes the last preimage it is told never leave them without one
\* that both know.
THEOREM NodeStaysInTouch == Spec => StaysInTouch
<1>1. TypeOK /\ OwnedInv /\ ReachableInv /\ OnceInv /\ [Next]_vars =>
        [\A n, m \in Nodes :
           m \in DOMAIN peers[n] /\ InTouch(n, m) =>
             \/ InTouch(n, m)'
             \/ BreaksOff /\ \E t \in Told : t \notin Told' /\ t[1] \in Onward(peers[n][m].their_preimage)
             \/ PairsAnew(n, m) \/ PairsAnew(m, n)]_vars
  <2> SUFFICES ASSUME TypeOK, OwnedInv, ReachableInv, OnceInv, [Next]_vars, NEW n \in Nodes, NEW m \in Nodes,
                      m \in DOMAIN peers[n], InTouch(n, m)
               PROVE  \/ InTouch(n, m)'
                      \/ BreaksOff /\ \E t \in Told : t \notin Told' /\ t[1] \in Onward(peers[n][m].their_preimage)
                      \/ PairsAnew(n, m) \/ PairsAnew(m, n)
    OBVIOUS
  <2>1. \A k \in Nodes : ReachableAt(k)
    BY ReachableParts, NodeAssumption DEF TypeOK, RelayOK
  <2> QED
    BY <2>1, TouchStep
<1>2. Init => ReachableInv
  BY DEF Init, ReachableInv, IssuedReachable, Idle, At
<1> QED
  BY <1>1, <1>2, ReachableStep, NodeTypes, NodeOwnership, NodeAnswersOnce, PTL DEF Spec, StaysInTouch

==============================================================================
