----------------------------- MODULE RelayProofs -----------------------------
(***************************************************************************)
(* Theorems about Relay, for any number of sessions, devices, preimages    *)
(* and answers, any channel capacity and any number of messages: its       *)
(* types, its safety, and that it implements RelayService.  Answers go to  *)
(* the SEND they were given to and stay in the cache, a waiting sender can *)
(* be found by the ACK, rights are used once, messages go to connections   *)
(* that proved the identity.                                               *)
(***************************************************************************)
EXTENDS RelayRefinement, TLAPS

(***************************************************************************)
(* Types                                                                   *)
(***************************************************************************)

\* A task that moves to a place with locals that fit it keeps TasksOK.
LEMMA GotoType ==
  ASSUME TasksOK, NEW s \in Sessions, NEW place \in Locations, NEW l,
         Goto(s, place, l), Fits(s, place, l)
  PROVE  TasksOK'
<1>1. /\ pc' \in [Sessions -> Locations]
      /\ DOMAIN local' = Sessions
  BY DEF Goto, TasksOK
<1>2. ASSUME NEW t \in Sessions
      PROVE  pc'[t] = IF t = s THEN place ELSE pc[t]
  BY DEF Goto, TasksOK
<1>3. ASSUME NEW t \in Sessions
      PROVE  local'[t] = IF t = s THEN l ELSE local[t]
  BY DEF Goto, TasksOK
<1>4. ASSUME NEW t \in Sessions
      PROVE  Fits(t, pc'[t], local'[t])
  BY <1>2, <1>3 DEF TasksOK
<1> QED
  BY <1>1, <1>4 DEF TasksOK, Fits

\* A session that ends keeps its own part of the types.
LEMMA EndType ==
  ASSUME TasksOK, ConnectionsOK, ChanCap \in Nat, NEW s \in Sessions, End(s)
  PROVE  TasksOK' /\ ConnectionsOK'
<1>1. TasksOK'
  BY GotoType DEF End, Locations, Fits
<1>2. ConnectionsOK'
  BY DEF End, ConnectionsOK
<1> QED
  BY <1>1, <1>2

\* Every step of the relay keeps the types.
LEMMA TypeStep ==
  ASSUME TypeOK, [Next]_vars
  PROVE  TypeOK'
<1> USE RelayAssumption
<1> USE DEF TypeOK
<1>1. CASE UNCHANGED vars
  BY <1>1 DEF vars, routerVars, historyVars, TasksOK, Fits, ConnectionsOK,
              DevicesOK, AnswersOK, HistoryOK
<1>2. ASSUME NEW s \in Sessions, Accept(s)
      PROVE  TypeOK'
  <2>1. TasksOK'
    BY <1>2, GotoType DEF Accept, Locations, Fits
  <2> QED
    BY <1>2, <2>1 DEF Accept, routerVars, historyVars, ConnectionsOK,
                      DevicesOK, AnswersOK, HistoryOK
<1>3. ASSUME NEW s \in Sessions, Disconnect(s)
      PROVE  TypeOK'
  BY <1>3, EndType DEF Disconnect, routerVars, historyVars,
                       DevicesOK, AnswersOK, HistoryOK
<1>4. ASSUME NEW s \in Sessions, SendDelivery(s)
      PROVE  TypeOK'
  <2>1. DevicesOK' /\ AnswersOK'
    BY <1>4 DEF SendDelivery, routerVars, DevicesOK, AnswersOK
  <2>2. CASE End(s) /\ UNCHANGED delivered
    BY <1>4, <2>1, <2>2, EndType DEF SendDelivery, HistoryOK
  <2>3. CASE /\ queue' = [queue EXCEPT ![s] = Tail(@)]
             /\ delivered' = delivered \cup {<<s, Head(queue[s]).msg_id>>}
             /\ UNCHANGED <<pc, local, id52>>
    <3>1. queue[s] \in Seq(PendingDelivery) /\ queue[s] # <<>>
      BY <1>4 DEF SendDelivery, ConnectionsOK
    <3>2. /\ Tail(queue[s]) \in Seq(PendingDelivery)
          /\ Head(queue[s]) \in PendingDelivery
          /\ Len(Tail(queue[s])) <= Len(queue[s])
      BY <3>1
    <3>3. ConnectionsOK'
      BY <2>3, <3>1, <3>2 DEF ConnectionsOK
    <3>4. TasksOK'
      BY <2>3 DEF TasksOK, Fits
    <3>5. HistoryOK'
      BY <1>4, <2>3, <3>2 DEF SendDelivery, PendingDelivery, HistoryOK
    <3> QED
      BY <2>1, <3>3, <3>4, <3>5
  <2> QED
    BY <1>4, <2>2, <2>3 DEF SendDelivery
<1>5. ASSUME NEW s \in Sessions, NEW d \in Owns[s], NEW cs \in SUBSET Commits,
             NEW rs, DOMAIN rs \subseteq Preimages,
             \A p \in DOMAIN rs : rs[p] \in Responses,
             Register(s, d, cs, rs),
             UNCHANGED <<queue, pending, next_msg_id, issued, delivered>>
      PROVE  TypeOK'
  <2>0. d \in Devices
    OBVIOUS
  <2>1. TasksOK'
    BY <1>5, GotoType DEF Register, Finish, Locations, Fits
  <2>2. ConnectionsOK'
    BY <1>5, <2>0 DEF Register, ConnectionsOK
  <2>3. DevicesOK'
    BY <1>5, <2>0 DEF Register, Put, DevicesOK, Binding
  <2>4. AnswersOK'
    BY <1>5 DEF Register, AnswersOK
  <2>5. HistoryOK'
    BY <1>5 DEF Register, Granted, Uploaded, HistoryOK
  <2> QED
    BY <2>1, <2>2, <2>3, <2>4, <2>5
<1>6. ASSUME NEW rs \in Uploads
      PROVE  DOMAIN rs \subseteq Preimages /\ \A p \in DOMAIN rs : rs[p] \in Responses
  BY <1>6
<1>7. ASSUME NEW s \in Sessions, NEW d \in Devices, NEW cs \in SUBSET Commits,
             NEW rs \in Uploads, HandleIAm(s, d, cs, rs)
      PROVE  TypeOK'
  <2>1. d \in Owns[s]
    BY <1>7 DEF HandleIAm, Verified
  <2> QED
    BY <1>5, <1>6, <1>7, <2>1 DEF HandleIAm
<1>8. ASSUME NEW s \in Sessions, NEW d \in Devices, NEW cs \in SUBSET Commits,
             NEW rs \in Uploads, Unregister(s, d, cs, rs)
      PROVE  TypeOK'
  <2>1. TasksOK'
    BY <1>6, <1>8, GotoType DEF Unregister, Verified, Locations, Fits
  <2>2. ConnectionsOK'
    BY <1>8 DEF Unregister, ConnectionsOK
  <2>3. DevicesOK'
    <3>1. devices' = Drop(devices, id52[s])
      BY <1>8 DEF Unregister
    <3>2. /\ DOMAIN devices' = DOMAIN devices \ {id52[s]}
          /\ \A x \in DOMAIN devices' : devices'[x] = devices[x]
      BY <3>1 DEF Drop, Restrict
    <3> QED
      BY <3>2 DEF DevicesOK, Binding
  <2> QED
    BY <1>8, <2>1, <2>2, <2>3 DEF Unregister, historyVars, AnswersOK, HistoryOK
<1>9. ASSUME NEW s \in Sessions, Reregister(s)
      PROVE  TypeOK'
  <2>1. /\ local[s].id52 \in Owns[s]
        /\ local[s].commits \in SUBSET Commits
        /\ DOMAIN local[s].responses \subseteq Preimages
        /\ \A p \in DOMAIN local[s].responses : local[s].responses[p] \in Responses
    BY <1>9 DEF Reregister, TasksOK, Fits
  <2> QED
    BY <1>5, <1>9, <2>1 DEF Reregister
<1>10. ASSUME NEW s \in Sessions, NEW cs \in SUBSET Commits, AddCommits(s, cs)
       PROVE  TypeOK'
  <2>1. id52[s] \in DOMAIN devices /\ devices[id52[s]] \in Binding
    BY <1>10 DEF AddCommits, DevicesOK
  <2>2. DevicesOK'
    BY <1>10, <2>1 DEF AddCommits, SetCommits, DevicesOK, Binding
  <2>3. HistoryOK'
    BY <1>10 DEF AddCommits, Granted, HistoryOK
  <2> QED
    BY <1>10, <2>2, <2>3 DEF AddCommits, TasksOK, Fits, ConnectionsOK, AnswersOK
<1>11. ASSUME NEW s \in Sessions, NEW d \in Devices, NEW p \in Preimages,
              CheckCache(s, d, p)
       PROVE  TypeOK'
  <2>1. AnswersOK'
    BY <1>11 DEF CheckCache, Drop, Restrict, AnswersOK
  <2>2. TasksOK'
    <3>1. CASE p \in DOMAIN response_cache /\ response_cache[p] # Expired
      <4>1. response_cache[p] \in Responses
        BY <3>1 DEF AnswersOK
      <4> QED
        BY <1>11, <3>1, <4>1, GotoType
        DEF CheckCache, Outcome, Locations, Fits, SEND_OK
    <3>2. CASE ~ (p \in DOMAIN response_cache /\ response_cache[p] # Expired)
      BY <1>11, <3>2, GotoType DEF CheckCache, Locations, Fits
    <3> QED
      BY <3>1, <3>2
  <2> QED
    BY <1>11, <2>1, <2>2 DEF CheckCache, historyVars, ConnectionsOK, DevicesOK,
                             HistoryOK
<1>12. ASSUME NEW s \in Sessions,
              NotConnected(s) \/ StaleEntry(s) \/ InvalidPreimage(s)
       PROVE  TypeOK'
  <2>1. local[s] \in [to_id52 : Devices, preimage : Preimages]
    BY <1>12 DEF NotConnected, StaleEntry, InvalidPreimage, TasksOK, Fits
  <2>2. \E status \in 0..4 : Outcome(s, local[s].preimage, status, None)
    BY <1>12 DEF NotConnected, StaleEntry, InvalidPreimage,
                 SEND_ERR_NOT_CONNECTED, SEND_ERR_INVALID_PREIMAGE
  <2>3. TasksOK'
    BY <2>1, <2>2, GotoType DEF Outcome, Locations, Fits
  <2>4. DevicesOK'
    BY <1>12 DEF NotConnected, StaleEntry, InvalidPreimage, routerVars, Drop,
                 Restrict, DevicesOK
  <2> QED
    BY <1>12, <2>3, <2>4
    DEF NotConnected, StaleEntry, InvalidPreimage, routerVars, historyVars,
        ConnectionsOK, AnswersOK, HistoryOK
<1>13. ASSUME NEW s \in Sessions, ClaimCommit(s)
       PROVE  TypeOK'
  <2> DEFINE d == local[s].to_id52
             p == local[s].preimage
  <2>1. d \in DOMAIN devices /\ d \in Devices /\ p \in Preimages
    BY <1>13 DEF ClaimCommit, TasksOK, Fits
  <2>2. devices[d] \in Binding /\ next_msg_id \in MsgIds
    BY <2>1 DEF DevicesOK, AnswersOK
  <2>3. devices[d].sender \in Sessions /\ devices[d].commits \in SUBSET Commits
    BY <2>2 DEF Binding
  <2>4. TasksOK'
    BY <1>13, <2>1, <2>2, <2>3, GotoType DEF ClaimCommit, Locations, Fits
  <2>5. DevicesOK'
    BY <1>13, <2>1, <2>3 DEF ClaimCommit, SetCommits, DevicesOK, Binding
  <2>6. AnswersOK'
    BY <1>13, <2>2 DEF ClaimCommit, AnswersOK, MsgIds
  <2>7. HistoryOK'
    BY <1>13, <2>1, <2>2 DEF ClaimCommit, Put, HistoryOK
  <2> QED
    BY <1>13, <2>4, <2>5, <2>6, <2>7 DEF ClaimCommit, ConnectionsOK
<1>14. ASSUME NEW s \in Sessions, RegisterPending(s)
       PROVE  TypeOK'
  <2>1. local[s] \in [to_id52 : Devices, preimage : Preimages,
                      msg_id : MsgIds, sender : Sessions]
    BY <1>14 DEF RegisterPending, TasksOK, Fits
  <2>2. TasksOK'
    BY <1>14, <2>1, GotoType DEF RegisterPending, Locations, Fits
  <2>3. AnswersOK'
    BY <1>14, <2>1 DEF RegisterPending, Put, AnswersOK
  <2> QED
    BY <1>14, <2>2, <2>3 DEF RegisterPending, historyVars, ConnectionsOK,
                             DevicesOK, HistoryOK
<1>15. ASSUME NEW s \in Sessions, QueueDelivery(s) \/ QueueClosed(s)
       PROVE  TypeOK'
  <2>1. local[s] \in [preimage : Preimages, msg_id : MsgIds,
                      sender : Sessions, response : Responses \cup {None}]
    BY <1>15 DEF QueueDelivery, QueueClosed, TasksOK, Fits
  <2>2. \E place \in {"await", "withdraw"} : Goto(s, place, local[s])
    BY <1>15 DEF QueueDelivery, QueueClosed
  <2>3. TasksOK'
    BY <2>1, <2>2, GotoType DEF Locations, Fits
  <2>4. ConnectionsOK'
    <3>1. CASE QueueDelivery(s)
      <4> DEFINE r == local[s].sender
                 x == [msg_id |-> local[s].msg_id, preimage |-> local[s].preimage]
      <4>1. r \in Sessions /\ x \in PendingDelivery
        BY <2>1 DEF PendingDelivery
      <4>2. /\ Append(queue[r], x) \in Seq(PendingDelivery)
            /\ Len(Append(queue[r], x)) = Len(queue[r]) + 1
            /\ Len(queue[r]) \in Nat
        BY <4>1 DEF ConnectionsOK
      <4> QED
        BY <3>1, <4>1, <4>2 DEF QueueDelivery, ConnectionsOK
    <3>2. CASE QueueClosed(s)
      BY <3>2 DEF QueueClosed, ConnectionsOK
    <3> QED
      BY <1>15, <3>1, <3>2
  <2> QED
    BY <1>15, <2>3, <2>4 DEF QueueDelivery, QueueClosed, routerVars, historyVars,
                             DevicesOK, AnswersOK, HistoryOK
<1>16. ASSUME NEW s \in Sessions,
              WithdrawPending(s) \/ ReceiveResponse(s) \/ TimeOut(s)
       PROVE  TypeOK'
  <2>1. local[s] \in [preimage : Preimages, msg_id : MsgIds,
                      sender : Sessions, response : Responses \cup {None}]
    BY <1>16 DEF WithdrawPending, ReceiveResponse, TimeOut, TasksOK, Fits
  <2>2. \E status \in 0..4, payload \in Responses \cup {None} :
           Outcome(s, local[s].preimage, status, payload)
    BY <1>16, <2>1 DEF WithdrawPending, ReceiveResponse, TimeOut, SEND_OK,
                       SEND_ERR_TIMEOUT, SEND_ERR_DISCONNECTED
  <2>3. TasksOK'
    BY <2>1, <2>2, GotoType DEF Outcome, Locations, Fits
  <2>4. AnswersOK'
    BY <1>16 DEF WithdrawPending, ReceiveResponse, TimeOut, routerVars, Drop,
                 Restrict, AnswersOK
  <2> QED
    BY <1>16, <2>3, <2>4
    DEF WithdrawPending, ReceiveResponse, TimeOut, routerVars, historyVars,
        ConnectionsOK, DevicesOK, HistoryOK
<1>17. ASSUME NEW s \in Sessions, WriteResult(s)
       PROVE  TypeOK'
  <2>1. TasksOK' /\ ConnectionsOK'
    <3>1. CASE Finish(s) /\ UNCHANGED <<id52, queue>>
      BY <3>1, GotoType DEF Finish, Locations, Fits, ConnectionsOK
    <3> QED
      BY <1>17, <3>1, EndType DEF WriteResult
  <2> QED
    BY <1>17, <2>1 DEF WriteResult, routerVars, historyVars, DevicesOK,
                       AnswersOK, HistoryOK
<1>18. ASSUME NEW s \in Sessions, NEW m \in 1 .. MaxSends, NEW r \in Responses,
              TakePending(s, m, r)
       PROVE  TypeOK'
  <2>1. TasksOK'
    <3>1. CASE m \in DOMAIN pending
      <4>1. pending[m] \in Preimages /\ m \in MsgIds
        BY <3>1 DEF AnswersOK
      <4> QED
        BY <1>18, <3>1, <4>1, GotoType DEF TakePending, Locations, Fits
    <3>2. CASE m \notin DOMAIN pending
      BY <1>18, <3>2 DEF TakePending, TasksOK, Fits
    <3> QED
      BY <3>1, <3>2
  <2>2. ConnectionsOK'
    BY <1>18 DEF TakePending, ConnectionsOK
  <2>3. AnswersOK'
    BY <1>18 DEF TakePending, Drop, Restrict, AnswersOK
  <2>4. HistoryOK'
    BY <1>18 DEF TakePending, HistoryOK
  <2> QED
    BY <1>18, <2>1, <2>2, <2>3, <2>4 DEF TakePending, DevicesOK
<1>19. ASSUME NEW s \in Sessions, CacheResponse(s)
       PROVE  TypeOK'
  <2>1. local[s] \in [msg_id : MsgIds, preimage : Preimages, response : Responses]
    BY <1>19 DEF CacheResponse, TasksOK, Fits
  <2>2. Goto(s, "reply", local[s])
    BY <1>19 DEF CacheResponse
  <2>3. TasksOK'
    BY <2>1, <2>2, GotoType DEF Locations, Fits
  <2>4. AnswersOK'
    BY <1>19, <2>1 DEF CacheResponse, Put, AnswersOK
  <2> QED
    BY <1>19, <2>3, <2>4 DEF CacheResponse, historyVars, ConnectionsOK,
                             DevicesOK, HistoryOK
<1>20. ASSUME NEW s \in Sessions, SendResponse(s)
       PROVE  TypeOK'
  <2>1. local[s].response \in Responses
    BY <1>20 DEF SendResponse, TasksOK, Fits
  <2>2. pc' \in [Sessions -> Locations] /\ DOMAIN local' = Sessions
    BY <1>20 DEF SendResponse, TasksOK, Locations
  <2>3. ASSUME NEW t \in Sessions
        PROVE  Fits(t, pc'[t], local'[t])
    <3>1. CASE t = s
      BY <1>20, <3>1 DEF SendResponse, TasksOK, Fits
    <3>2. CASE t # s /\ Waiting(t) /\ local[t].msg_id = local[s].msg_id
      <4>1. local[t] \in [preimage : Preimages, msg_id : MsgIds,
                          sender : Sessions, response : Responses \cup {None}]
        BY <3>2 DEF Waiting, TasksOK, Fits
      <4>2. /\ pc'[t] = pc[t]
            /\ local'[t] = [local[t] EXCEPT !.response = local[s].response]
        BY <1>20, <3>2 DEF SendResponse, TasksOK
      <4>3. local'[t] \in [preimage : Preimages, msg_id : MsgIds,
                           sender : Sessions, response : Responses \cup {None}]
        BY <2>1, <4>1, <4>2
      <4> QED
        BY <3>2, <4>2, <4>3 DEF Waiting, Fits
    <3>3. CASE t # s /\ ~ (Waiting(t) /\ local[t].msg_id = local[s].msg_id)
      <4>1. pc'[t] = pc[t] /\ local'[t] = local[t]
        BY <1>20, <3>3 DEF SendResponse, TasksOK
      <4> QED
        BY <4>1 DEF TasksOK
    <3> QED
      BY <3>1, <3>2, <3>3
  <2>4. TasksOK'
    BY <2>2, <2>3 DEF TasksOK, Fits
  <2> QED
    BY <1>20, <2>4 DEF SendResponse, routerVars, historyVars, ConnectionsOK,
                       DevicesOK, AnswersOK, HistoryOK
<1>21. ASSUME NEW p \in Preimages, Expire(p)
       PROVE  TypeOK'
  BY <1>21 DEF Expire, historyVars, TasksOK, Fits, ConnectionsOK, DevicesOK,
               AnswersOK, HistoryOK
<1>22. CASE Restart
  <2>1. TasksOK'
    BY <1>22 DEF Restart, EmptyMap, TasksOK, Fits, Locations
  <2>2. ConnectionsOK'
    BY <1>22 DEF Restart, EmptyMap, ConnectionsOK
  <2>3. DevicesOK' /\ AnswersOK'
    BY <1>22 DEF Restart, EmptyMap, DevicesOK, AnswersOK, MsgIds
  <2> QED
    BY <1>22, <2>1, <2>2, <2>3 DEF Restart, EmptyMap, historyVars, HistoryOK
<1>23. ASSUME NEW s \in Sessions, ClientStep(s)
       PROVE  TypeOK'
  <2>1. Batches \subseteq SUBSET Commits
    OBVIOUS
  <2> QED
    BY <1>2, <1>3, <1>7, <1>8, <1>10, <1>11, <1>18, <1>23, <2>1 DEF ClientStep
<1>24. ASSUME NEW s \in Sessions, HandlerStep(s)
       PROVE  TypeOK'
  BY <1>9, <1>12, <1>13, <1>14, <1>15, <1>16, <1>17, <1>19, <1>20, <1>24
  DEF HandlerStep
<1> QED
  BY <1>1, <1>4, <1>21, <1>22, <1>23, <1>24 DEF Next, Running, Quiet

\* Type correctness of the relay.
THEOREM RelayTypes == Spec => []TypeOK
<1>1. Init => TypeOK
  BY RelayAssumption
  DEF Init, EmptyMap, TypeOK, TasksOK, Fits, Locations, ConnectionsOK, DevicesOK, AnswersOK,
      HistoryOK, MsgIds
<1>2. TypeOK /\ [Next]_vars => TypeOK'
  BY TypeStep
<1> QED
  BY <1>1, <1>2, PTL DEF Spec

(***************************************************************************)
(* Rights                                                                  *)
(***************************************************************************)

\* SingleUse and OnlyToOwner depend on nothing but the types.
LEMMA RightsStep ==
  ASSUME TypeOK, SingleUse, OnlyToOwner, [Next]_vars
  PROVE  SingleUse' /\ OnlyToOwner'
<1> USE RelayAssumption
<1> USE DEF TypeOK, SingleUse, OnlyToOwner
\* The steps that leave the devices alone and claim nothing.
<1>1. ASSUME UNCHANGED <<devices, spent>>,
             \A t \in Sessions : pc'[t] = "pend" => pc[t] = "pend" /\ local'[t] = local[t]
      PROVE  SingleUse' /\ OnlyToOwner'
  BY <1>1
<1>2. ASSUME NEW s \in Sessions, NEW place \in Locations \ {"pend"}, NEW l,
             Goto(s, place, l)
      PROVE  \A t \in Sessions : pc'[t] = "pend" => pc[t] = "pend" /\ local'[t] = local[t]
  BY <1>2 DEF Goto, TasksOK
<1>3. ASSUME UNCHANGED <<pc, local>>
      PROVE  \A t \in Sessions : pc'[t] = "pend" => pc[t] = "pend" /\ local'[t] = local[t]
  BY <1>3
<1>4. CASE UNCHANGED vars
  BY <1>1, <1>3, <1>4 DEF vars, routerVars, historyVars
<1>5. ASSUME NEW s \in Sessions,
             Accept(s) \/ Disconnect(s) \/ SendDelivery(s)
      PROVE  SingleUse' /\ OnlyToOwner'
  BY <1>1, <1>2, <1>3, <1>5
  DEF Accept, Disconnect, SendDelivery, End, routerVars, historyVars, Locations
<1>6. ASSUME NEW s \in Sessions, NEW d \in Devices, NEW p \in Preimages,
             CheckCache(s, d, p)
      PROVE  SingleUse' /\ OnlyToOwner'
  BY <1>1, <1>2, <1>6 DEF CheckCache, Outcome, historyVars, Locations
<1>7. ASSUME NEW s \in Sessions,
             \/ NotConnected(s) \/ InvalidPreimage(s) \/ RegisterPending(s)
             \/ QueueDelivery(s) \/ QueueClosed(s) \/ WithdrawPending(s)
             \/ ReceiveResponse(s) \/ TimeOut(s) \/ WriteResult(s) \/ CacheResponse(s)
      PROVE  SingleUse' /\ OnlyToOwner'
  BY <1>1, <1>2, <1>7
  DEF NotConnected, InvalidPreimage, RegisterPending, QueueDelivery, QueueClosed,
      WithdrawPending, ReceiveResponse, TimeOut, WriteResult, CacheResponse,
      Outcome, Finish, End, routerVars, historyVars, Locations
<1>8. ASSUME NEW s \in Sessions, SendResponse(s)
      PROVE  SingleUse' /\ OnlyToOwner'
  <2>1. \A t \in Sessions : pc'[t] = "pend" => pc[t] = "pend" /\ local'[t] = local[t]
    BY <1>8 DEF SendResponse, Waiting, TasksOK
  <2> QED
    BY <1>1, <1>8, <2>1 DEF SendResponse, routerVars, historyVars
<1>9. ASSUME NEW s \in Sessions, NEW m \in 1 .. MaxSends, NEW r \in Responses,
             TakePending(s, m, r)
      PROVE  SingleUse' /\ OnlyToOwner'
  BY <1>1, <1>2, <1>3, <1>9 DEF TakePending, Locations
<1>10. ASSUME NEW p \in Preimages, Expire(p)
       PROVE  SingleUse' /\ OnlyToOwner'
  BY <1>1, <1>3, <1>10 DEF Expire, historyVars
\* The steps that change an entry.
<1>11. ASSUME NEW s \in Sessions, NEW d \in Owns[s], NEW cs \in SUBSET Commits,
              NEW rs, Register(s, d, cs, rs)
       PROVE  SingleUse' /\ OnlyToOwner'
  <2>1. /\ DOMAIN devices' = DOMAIN devices \cup {d}
        /\ \A e \in DOMAIN devices' :
             devices'[e] = IF e = d THEN [commits |-> cs, sender |-> s] ELSE devices[e]
    BY <1>11 DEF Register, Put
  <2>2. SingleUse'
    BY <1>11, <2>1 DEF Register, Granted, HistoryOK
  <2>3. \A t \in Sessions : pc'[t] = "pend" => pc[t] = "pend" /\ local'[t] = local[t]
    BY <1>2, <1>11 DEF Register, Finish, Locations
  <2> QED
    BY <2>1, <2>2, <2>3
<1>12. ASSUME NEW s \in Sessions, NEW d \in Devices, NEW cs \in SUBSET Commits,
              NEW rs \in Uploads, HandleIAm(s, d, cs, rs)
       PROVE  SingleUse' /\ OnlyToOwner'
  BY <1>11, <1>12 DEF HandleIAm, Verified
<1>13. ASSUME NEW s \in Sessions, Reregister(s)
       PROVE  SingleUse' /\ OnlyToOwner'
  <2>1. local[s].id52 \in Owns[s] /\ local[s].commits \in SUBSET Commits
    BY <1>13 DEF Reregister, TasksOK, Fits
  <2> QED
    BY <1>11, <1>13, <2>1 DEF Reregister
<1>14. ASSUME \E d : devices' = Drop(devices, d), spent' = spent,
              \A t \in Sessions : pc'[t] = "pend" => pc[t] = "pend" /\ local'[t] = local[t]
       PROVE  SingleUse' /\ OnlyToOwner'
  BY <1>14 DEF Drop, Restrict
<1>15. ASSUME NEW s \in Sessions, NEW d \in Devices, NEW cs \in SUBSET Commits,
              NEW rs \in Uploads, Unregister(s, d, cs, rs)
       PROVE  SingleUse' /\ OnlyToOwner'
  BY <1>2, <1>14, <1>15 DEF Unregister, historyVars, Locations
<1>16. ASSUME NEW s \in Sessions, StaleEntry(s)
       PROVE  SingleUse' /\ OnlyToOwner'
  BY <1>2, <1>14, <1>16 DEF StaleEntry, Outcome, historyVars, Locations
<1>17. ASSUME NEW s \in Sessions, NEW cs \in SUBSET Commits, AddCommits(s, cs)
       PROVE  SingleUse' /\ OnlyToOwner'
  BY <1>17 DEF AddCommits, SetCommits, Granted
<1>18. ASSUME NEW s \in Sessions, ClaimCommit(s)
       PROVE  SingleUse' /\ OnlyToOwner'
  <2> DEFINE d == local[s].to_id52
             p == local[s].preimage
  <2>1. d \in DOMAIN devices
    BY <1>18 DEF ClaimCommit
  <2>2. /\ DOMAIN devices' = DOMAIN devices
        /\ \A e \in DOMAIN devices : devices'[e] =
             IF e = d THEN [commits |-> devices[d].commits \ {Sha256(p)},
                            sender |-> devices[d].sender]
                      ELSE devices[e]
    BY <1>18 DEF ClaimCommit, SetCommits
  <2>3. SingleUse'
    BY <1>18, <2>1, <2>2 DEF ClaimCommit
  <2>4. /\ pc' = [pc EXCEPT ![s] = "pend"]
        /\ local'[s].to_id52 = d /\ local'[s].sender = devices[d].sender
        /\ \A t \in Sessions : t # s => local'[t] = local[t]
    BY <1>18 DEF ClaimCommit, Goto, TasksOK
  <2>5. OnlyToOwner'
    BY <2>1, <2>2, <2>4 DEF TasksOK
  <2> QED
    BY <2>3, <2>5
<1>19. CASE Restart
  BY <1>19 DEF Restart, EmptyMap, historyVars
<1>20. ASSUME NEW s \in Sessions, ClientStep(s)
       PROVE  SingleUse' /\ OnlyToOwner'
  <2>1. Batches \subseteq SUBSET Commits
    OBVIOUS
  <2> QED
    BY <1>5, <1>6, <1>9, <1>12, <1>15, <1>17, <1>20, <2>1 DEF ClientStep
<1>21. ASSUME NEW s \in Sessions, HandlerStep(s)
       PROVE  SingleUse' /\ OnlyToOwner'
  BY <1>7, <1>8, <1>13, <1>16, <1>18, <1>21 DEF HandlerStep
<1> QED
  BY <1>4, <1>5, <1>10, <1>19, <1>20, <1>21 DEF Next, Running, Quiet

\* A preimage is good for one message per grant, and a message is routed only
\* to a connection whose client proved the identity it is for.
LEMMA RelayRights == Spec => [](SingleUse /\ OnlyToOwner)
<1>1. Init => SingleUse /\ OnlyToOwner
  BY DEF Init, EmptyMap, SingleUse, OnlyToOwner
<1>2. TypeOK /\ SingleUse /\ OnlyToOwner /\ [Next]_vars => (SingleUse /\ OnlyToOwner)'
  BY RightsStep
<1> QED
  BY <1>1, <1>2, RelayTypes, PTL DEF Spec

\* A used preimage is not valid again until its recipient grants it anew.
THEOREM RelaySingleUse == Spec => []SingleUse
  BY RelayRights, PTL

\* A message is routed only to a connection whose client proved the identity.
THEOREM RelayOwners == Spec => []OnlyToOwner
  BY RelayRights, PTL

(***************************************************************************)
(* Message ids                                                             *)
(***************************************************************************)

\* Taking, dropping or moving a delivery makes none.
LEMMA TailDeliveries ==
  ASSUME NEW q \in Seq(PendingDelivery), q # <<>>
  PROVE  /\ Head(q) \in {q[i] : i \in DOMAIN q}
         /\ {Tail(q)[i] : i \in DOMAIN Tail(q)} \subseteq {q[i] : i \in DOMAIN q}
<1>1. Len(q) \in Nat /\ Len(q) > 0 /\ DOMAIN q = 1..Len(q)
  OBVIOUS
<1>2. /\ DOMAIN Tail(q) = 1..(Len(q) - 1)
      /\ \A i \in 1..(Len(q) - 1) : Tail(q)[i] = q[i+1]
  BY <1>1
<1>3. Head(q) = q[1]
  BY <1>1
<1> QED
  BY <1>1, <1>2, <1>3

LEMMA AppendDeliveries ==
  ASSUME NEW q \in Seq(PendingDelivery), NEW x \in PendingDelivery
  PROVE  {Append(q, x)[i] : i \in DOMAIN Append(q, x)} = {q[i] : i \in DOMAIN q} \cup {x}
<1>1. Len(q) \in Nat /\ DOMAIN q = 1..Len(q)
  OBVIOUS
<1>2. /\ DOMAIN Append(q, x) = 1..(Len(q) + 1)
      /\ \A i \in 1..Len(q) : Append(q, x)[i] = q[i]
      /\ Append(q, x)[Len(q) + 1] = x
  BY <1>1
<1> QED
  BY <1>1, <1>2

\* What a step leaves of the messages when it makes none.
Fewer ==
  /\ next_msg_id' = next_msg_id /\ issued' = issued
  /\ DOMAIN pending' \subseteq DOMAIN pending
  /\ \A m \in DOMAIN pending' : pending'[m] = pending[m]
  /\ \A t \in Sessions : Queued(t)' \subseteq Queued(t)
  /\ \A x \in delivered' :
       x \in delivered \/ \E t \in Sessions : \E y \in Queued(t) : x = <<t, y.msg_id>>
  /\ \A t \in Sessions :
       Routing(t)' => /\ Routing(t)
                      /\ local'[t].msg_id = local[t].msg_id
                      /\ local'[t].preimage = local[t].preimage
  /\ \A t \in Sessions :
       /\ pc'[t] = "pend" => pc[t] = "pend"
       /\ pc'[t] \in {"pend", "enqueue"} => pc[t] \in {"pend", "enqueue"}
       /\ pc'[t] \in {"pend", "enqueue", "withdraw"} =>
            pc[t] \in {"pend", "enqueue", "withdraw"}
  /\ \A t \in Sessions :
       Completing(t)' => /\ Completing(t)
                         /\ local'[t].msg_id = local[t].msg_id
                         /\ local'[t].preimage = local[t].preimage

LEMMA FewerKeeps ==
  ASSUME RoutingInv, Fewer
  PROVE  RoutingInv'
<1> USE DEF RoutingInv, Fewer
<1>1. IdsAgree'
  <2>1. \A x \in delivered' : x[2] \in DOMAIN issued'
    BY DEF IdsAgree, Issued
  <2>2. ASSUME NEW t \in Sessions, Routing(t)' \/ Completing(t)'
        PROVE  Issued(local[t])'
    BY <2>2 DEF IdsAgree, Issued
  <2>3. ASSUME NEW t \in Sessions, NEW x \in Queued(t)'
        PROVE  Issued(x)'
    BY <2>3 DEF IdsAgree, Issued
  <2>4. \A m \in DOMAIN pending' : m \in DOMAIN issued' /\ pending'[m] = issued'[m]
    BY DEF IdsAgree
  <2>5. \A m \in DOMAIN issued' : m < next_msg_id'
    BY DEF IdsAgree
  <2> HIDE DEF RoutingInv, Fewer
  <2> QED
    BY <2>1, <2>2, <2>3, <2>4, <2>5 DEF IdsAgree
<1>2. OwnIds'
  BY DEF OwnIds
<1>3. NotQueuedYet'
  <2> SUFFICES ASSUME NEW s \in Sessions
               PROVE  /\ pc'[s] = "pend" => local'[s].msg_id \notin DOMAIN pending'
                      /\ pc'[s] \in {"pend", "enqueue", "withdraw"} =>
                           \A t \in Sessions :
                             /\ \A x \in Queued(t)' : x.msg_id # local'[s].msg_id
                             /\ <<t, local'[s].msg_id>> \notin delivered'
    BY DEF NotQueuedYet
  <2>1. pc'[s] \in {"pend", "enqueue", "withdraw"} => local'[s].msg_id = local[s].msg_id
    BY DEF Routing
  <2>2. pc'[s] = "pend" => local'[s].msg_id \notin DOMAIN pending'
    BY <2>1 DEF NotQueuedYet
  <2>3. ASSUME pc'[s] \in {"pend", "enqueue", "withdraw"}, NEW t \in Sessions
        PROVE  /\ \A x \in Queued(t)' : x.msg_id # local'[s].msg_id
               /\ <<t, local'[s].msg_id>> \notin delivered'
    <3>1. pc[s] \in {"pend", "enqueue", "withdraw"}
      BY <2>3
    <3>2. \A u \in Sessions : /\ \A x \in Queued(u) : x.msg_id # local[s].msg_id
                              /\ <<u, local[s].msg_id>> \notin delivered
      BY <3>1 DEF NotQueuedYet
    <3>3. \A x \in Queued(t)' : x.msg_id # local[s].msg_id
      BY <3>2
    <3>4. ASSUME <<t, local[s].msg_id>> \in delivered'
          PROVE  FALSE
      <4>1. PICK u \in Sessions :
              \E y \in Queued(u) : <<t, local[s].msg_id>> = <<u, y.msg_id>>
        BY <3>2, <3>4
      <4> QED
        BY <3>2, <4>1
    <3> QED
      BY <2>1, <2>3, <3>3, <3>4
  <2> QED
    BY <2>2, <2>3
<1> QED
  BY <1>1, <1>2, <1>3

\* The steps of one session that only move its task.
LEMMA MoveFewer ==
  ASSUME TypeOK, NEW s \in Sessions, NEW place, NEW l, Goto(s, place, l),
         \/ place \in {"select", "ended", "register", "claim", "result"}
         \/ /\ place = "withdraw" /\ pc[s] = "enqueue"
            /\ l.msg_id = local[s].msg_id /\ l.preimage = local[s].preimage
         \/ place = "reply" /\ pc[s] = "cache" /\ l = local[s]
  PROVE  /\ \A t \in Sessions :
              Routing(t)' => /\ Routing(t)
                             /\ local'[t].msg_id = local[t].msg_id
                             /\ local'[t].preimage = local[t].preimage
         /\ \A t \in Sessions :
              /\ pc'[t] = "pend" => pc[t] = "pend"
              /\ pc'[t] \in {"pend", "enqueue"} => pc[t] \in {"pend", "enqueue"}
              /\ pc'[t] \in {"pend", "enqueue", "withdraw"} =>
                   pc[t] \in {"pend", "enqueue", "withdraw"}
         /\ \A t \in Sessions :
              Completing(t)' => /\ Completing(t)
                                /\ local'[t].msg_id = local[t].msg_id
                                /\ local'[t].preimage = local[t].preimage
<1>1. /\ pc'[s] = place /\ local'[s] = l
      /\ \A t \in Sessions : t # s => pc'[t] = pc[t] /\ local'[t] = local[t]
  BY DEF TypeOK, TasksOK, Goto
<1> QED
  BY <1>1 DEF Routing, Completing

LEMMA EndFewer ==
  ASSUME TypeOK, NEW s \in Sessions, End(s),
         UNCHANGED <<pending, next_msg_id, issued, delivered>>
  PROVE  Fewer
<1>1. \A t \in Sessions : Queued(t)' \subseteq Queued(t)
  BY DEF TypeOK, ConnectionsOK, End, Queued
<1> QED
  BY <1>1, MoveFewer DEF End, Fewer

\* The steps that make no message.
LEMMA QuietSteps ==
  ASSUME TypeOK, NEW s \in Sessions,
         \/ Accept(s) \/ Disconnect(s) \/ SendDelivery(s) \/ Reregister(s)
         \/ NotConnected(s) \/ StaleEntry(s) \/ InvalidPreimage(s)
         \/ QueueClosed(s) \/ WithdrawPending(s) \/ ReceiveResponse(s)
         \/ TimeOut(s) \/ WriteResult(s) \/ CacheResponse(s) \/ SendResponse(s)
         \/ \E cs \in Batches : AddCommits(s, cs)
         \/ \E d \in Devices, cs \in Batches, rs \in Uploads :
              HandleIAm(s, d, cs, rs) \/ Unregister(s, d, cs, rs)
         \/ \E d \in Devices, p \in Preimages : CheckCache(s, d, p)
  PROVE  Fewer
<1> USE DEF routerVars, historyVars
<1>1. CASE \/ NotConnected(s) \/ StaleEntry(s) \/ InvalidPreimage(s)
           \/ ReceiveResponse(s) \/ TimeOut(s)
           \/ \E d \in Devices, p \in Preimages : CheckCache(s, d, p)
  <2>1. /\ UNCHANGED <<queue, pending, next_msg_id, issued, delivered>>
        /\ \E place \in {"result", "claim"} : \E l : Goto(s, place, l)
    BY <1>1 DEF NotConnected, StaleEntry, InvalidPreimage, ReceiveResponse,
                TimeOut, CheckCache, Outcome
  <2> QED
    BY <2>1, MoveFewer DEF Fewer, Queued
<1>2. CASE \/ Accept(s) \/ Reregister(s)
           \/ \E d \in Devices, cs \in Batches, rs \in Uploads :
                HandleIAm(s, d, cs, rs) \/ Unregister(s, d, cs, rs)
  <2>1. /\ UNCHANGED <<queue, pending, next_msg_id, issued, delivered>>
        /\ \E place \in {"select", "register"} : \E l : Goto(s, place, l)
    BY <1>2 DEF Accept, Reregister, HandleIAm, Unregister, Register, Finish
  <2> QED
    BY <2>1, MoveFewer DEF Fewer, Queued
<1>3. CASE \E cs \in Batches : AddCommits(s, cs)
  BY <1>3 DEF AddCommits, Fewer, Queued, Routing, Completing
<1>4. CASE Disconnect(s) \/ SendDelivery(s) \/ WriteResult(s)
  <2>1. CASE End(s) /\ UNCHANGED delivered
    BY <1>4, <2>1, EndFewer DEF Disconnect, SendDelivery, WriteResult
  <2>2. CASE Finish(s) /\ WriteResult(s) /\ queue' = queue
    <3>1. Finish(s) /\ UNCHANGED <<queue, pending, next_msg_id, issued, delivered>>
      BY <2>2 DEF WriteResult
    <3> QED
      BY <3>1, MoveFewer DEF Finish, Fewer, Queued
  <2>3. CASE /\ SendDelivery(s)
             /\ queue' = [queue EXCEPT ![s] = Tail(@)]
             /\ delivered' = delivered \cup {<<s, Head(queue[s]).msg_id>>}
             /\ UNCHANGED <<pc, local, id52>>
    <3>1. /\ queue[s] \in Seq(PendingDelivery) /\ queue[s] # <<>>
          /\ queue \in [Sessions -> Seq(PendingDelivery)]
          /\ UNCHANGED <<pending, next_msg_id, issued>>
      BY <2>3 DEF SendDelivery, TypeOK, ConnectionsOK
    <3>2. Head(queue[s]) \in Queued(s)
      BY <3>1, TailDeliveries DEF Queued
    <3>3. \A t \in Sessions : Queued(t)' \subseteq Queued(t)
      <4>1. /\ queue'[s] = Tail(queue[s])
            /\ \A t \in Sessions : t # s => queue'[t] = queue[t]
        BY <2>3, <3>1
      <4>2. Queued(s)' \subseteq Queued(s)
        BY <3>1, <4>1, TailDeliveries DEF Queued
      <4> QED
        BY <4>1, <4>2 DEF Queued
    <3> HIDE DEF Queued
    <3>4. \A x \in delivered' :
            x \in delivered \/ \E t \in Sessions : \E y \in Queued(t) : x = <<t, y.msg_id>>
      BY <2>3, <3>2
    <3> QED
      BY <2>3, <3>1, <3>3, <3>4 DEF Fewer, Routing, Completing
  <2> QED
    BY <1>4, <2>1, <2>2, <2>3 DEF Disconnect, SendDelivery, WriteResult
<1>5. CASE QueueClosed(s) \/ WithdrawPending(s) \/ CacheResponse(s)
  <2>1. /\ UNCHANGED <<queue, next_msg_id, issued, delivered>>
        /\ \E k : pending' \in {pending, Drop(pending, k)}
    BY <1>5 DEF QueueClosed, WithdrawPending, CacheResponse
  <2>2. /\ DOMAIN pending' \subseteq DOMAIN pending
        /\ \A m \in DOMAIN pending' : pending'[m] = pending[m]
    BY <2>1 DEF Drop, Restrict
  <2>3. CASE QueueClosed(s)
    BY <2>1, <2>2, <2>3, MoveFewer DEF QueueClosed, Fewer, Queued
  <2>4. CASE WithdrawPending(s)
    BY <2>1, <2>2, <2>4, MoveFewer DEF WithdrawPending, Outcome, Fewer, Queued
  <2>5. CASE CacheResponse(s)
    BY <2>1, <2>2, <2>5, MoveFewer DEF CacheResponse, Fewer, Queued
  <2> QED
    BY <1>5, <2>3, <2>4, <2>5
<1>6. CASE SendResponse(s)
  <2>1. /\ pc'[s] = "select"
        /\ \A t \in Sessions : t # s => pc'[t] = pc[t]
        /\ UNCHANGED <<queue, pending, next_msg_id, issued, delivered>>
    BY <1>6 DEF SendResponse, TypeOK, TasksOK
  <2>2. ASSUME NEW t \in Sessions, t # s, Routing(t) \/ Completing(t)
        PROVE  /\ local'[t].msg_id = local[t].msg_id
               /\ local'[t].preimage = local[t].preimage
    <3>1. CASE Waiting(t) /\ local[t].msg_id = local[s].msg_id
      <4>1. local[t] \in [preimage : Preimages, msg_id : MsgIds,
                          sender : Sessions, response : Responses \cup {None}]
        BY <3>1 DEF Waiting, TypeOK, TasksOK, Fits
      <4>2. local'[t] = [local[t] EXCEPT !.response = local[s].response]
        BY <1>6, <2>2, <3>1 DEF SendResponse
      <4> QED
        BY <4>1, <4>2
    <3>2. CASE ~ (Waiting(t) /\ local[t].msg_id = local[s].msg_id)
      BY <1>6, <2>2, <3>2 DEF SendResponse
    <3> QED
      BY <3>1, <3>2
  <2> QED
    BY <2>1, <2>2 DEF Fewer, Queued, Routing, Completing
<1> QED
  BY <1>1, <1>2, <1>3, <1>4, <1>5, <1>6

\* Every step of the relay keeps the routing invariant.
LEMMA RoutingStep ==
  ASSUME TypeOK, RoutingInv, [Next]_vars
  PROVE  RoutingInv'
<1>1. CASE UNCHANGED vars
  BY <1>1, FewerKeeps
  DEF vars, routerVars, historyVars, Fewer, Queued, Routing, Completing
<1>2. ASSUME NEW s \in Sessions, ClaimCommit(s)
      PROVE  RoutingInv'
  <2> DEFINE p == local[s].preimage
  <2>1. /\ pc'[s] = "pend" /\ pc[s] = "claim"
        /\ local'[s].msg_id = next_msg_id /\ local'[s].preimage = p
        /\ \A t \in Sessions : t # s => pc'[t] = pc[t] /\ local'[t] = local[t]
        /\ next_msg_id' = next_msg_id + 1 /\ next_msg_id \in Nat
        /\ UNCHANGED <<pending, delivered>>
        /\ \A t \in Sessions : Queued(t)' = Queued(t)
    BY <1>2 DEF ClaimCommit, Goto, Queued, TypeOK, TasksOK, AnswersOK, MsgIds
  <2>2. /\ \A m \in DOMAIN issued : m \in Nat /\ m < next_msg_id
        /\ next_msg_id \notin DOMAIN issued
    BY <2>1 DEF TypeOK, HistoryOK, MsgIds, RoutingInv, IdsAgree
  <2>3. /\ DOMAIN issued' = DOMAIN issued \cup {next_msg_id}
        /\ issued'[next_msg_id] = p
        /\ \A m \in DOMAIN issued : issued'[m] = issued[m]
    BY <1>2, <2>2 DEF ClaimCommit, Put
  <2>4. /\ \A t \in Sessions : Routing(t)' <=> t = s \/ Routing(t)
        /\ \A t \in Sessions : Completing(t)' <=> Completing(t)
        /\ \A t \in Sessions : Routing(t) \/ Completing(t) => t # s
    BY <2>1 DEF Routing, Completing
  <2>5. /\ next_msg_id \notin DOMAIN pending
        /\ \A t \in Sessions : Routing(t) \/ Completing(t) => local[t].msg_id # next_msg_id
        /\ \A t \in Sessions : \A x \in Queued(t) : x.msg_id # next_msg_id
        /\ \A t \in Sessions : <<t, next_msg_id>> \notin delivered
    BY <2>2 DEF RoutingInv, IdsAgree, Issued
  <2>6. \A x : Issued(x) => Issued(x)'
    BY <2>3 DEF Issued
  <2>7. IdsAgree'
    <3>1. \A m \in DOMAIN issued' : m < next_msg_id'
      BY <2>1, <2>2, <2>3
    <3>2. \A m \in DOMAIN pending' : m \in DOMAIN issued' /\ pending'[m] = issued'[m]
      BY <2>1, <2>3 DEF RoutingInv, IdsAgree
    <3>3. ASSUME NEW t \in Sessions, Routing(t)' \/ Completing(t)'
          PROVE  Issued(local[t])'
      <4>1. CASE t = s
        BY <2>1, <2>3, <4>1 DEF Issued
      <4>2. CASE t # s
        <5>1. Issued(local[t])
          BY <2>4, <3>3, <4>2 DEF RoutingInv, IdsAgree
        <5> QED
          BY <2>1, <2>3, <4>2, <5>1 DEF Issued
      <4> QED
        BY <4>1, <4>2
    <3>4. ASSUME NEW t \in Sessions, NEW x \in Queued(t)'
          PROVE  Issued(x)'
      <4>1. Issued(x)
        BY <2>1, <3>4 DEF RoutingInv, IdsAgree
      <4> QED
        BY <2>3, <4>1 DEF Issued
    <3>5. \A x \in delivered' : x[2] \in DOMAIN issued'
      BY <2>1, <2>3 DEF RoutingInv, IdsAgree
    <3> QED
      BY <3>1, <3>2, <3>3, <3>4, <3>5 DEF IdsAgree
  <2>8. OwnIds'
    BY <2>1, <2>4, <2>5 DEF RoutingInv, OwnIds
  <2>9. NotQueuedYet'
    BY <2>1, <2>5 DEF RoutingInv, NotQueuedYet
  <2> QED
    BY <2>7, <2>8, <2>9 DEF RoutingInv
<1>3. ASSUME NEW s \in Sessions, RegisterPending(s)
      PROVE  RoutingInv'
  <2> DEFINE m == local[s].msg_id
  <2>1. /\ pc'[s] = "enqueue" /\ pc[s] = "pend"
        /\ local'[s].msg_id = m /\ local'[s].preimage = local[s].preimage
        /\ \A t \in Sessions : t # s => pc'[t] = pc[t] /\ local'[t] = local[t]
        /\ UNCHANGED <<next_msg_id, issued, delivered>>
        /\ DOMAIN pending' = DOMAIN pending \cup {m}
        /\ pending'[m] = local[s].preimage
        /\ \A k \in DOMAIN pending : k # m => pending'[k] = pending[k]
        /\ \A t \in Sessions : Queued(t)' = Queued(t)
    BY <1>3 DEF RegisterPending, Goto, Put, Queued, historyVars, TypeOK, TasksOK
  <2>2. /\ \A t \in Sessions : /\ local'[t].msg_id = local[t].msg_id
                               /\ local'[t].preimage = local[t].preimage
        /\ \A t \in Sessions : Routing(t)' <=> Routing(t)
        /\ \A t \in Sessions : Completing(t)' <=> Completing(t)
        /\ \A t \in Sessions : pc'[t] = "pend" <=> pc[t] = "pend" /\ t # s
        /\ \A t \in Sessions :
             pc'[t] \in {"pend", "enqueue", "withdraw"} <=>
               pc[t] \in {"pend", "enqueue", "withdraw"}
        /\ Routing(s)
    BY <2>1 DEF Routing, Completing
  <2>3. IdsAgree'
    <3>1. Issued(local[s])
      BY <2>2 DEF RoutingInv, IdsAgree
    <3>2. \A k \in DOMAIN pending' : k \in DOMAIN issued' /\ pending'[k] = issued'[k]
      BY <2>1, <3>1 DEF RoutingInv, IdsAgree, Issued
    <3> QED
      BY <2>1, <2>2, <3>2 DEF RoutingInv, IdsAgree, Issued
  <2>4. OwnIds'
    BY <2>2 DEF RoutingInv, OwnIds
  <2>5. \A t \in Sessions : pc'[t] = "pend" => local'[t].msg_id \notin DOMAIN pending'
    <3> SUFFICES ASSUME NEW t \in Sessions, pc[t] = "pend", t # s
                 PROVE  local[t].msg_id \notin DOMAIN pending /\ local[t].msg_id # m
      BY <2>1, <2>2
    <3> QED
      BY <2>2 DEF RoutingInv, NotQueuedYet, OwnIds, Routing
  <2>6. NotQueuedYet'
    BY <2>1, <2>2, <2>5 DEF RoutingInv, NotQueuedYet
  <2> QED
    BY <2>3, <2>4, <2>6 DEF RoutingInv
<1>4. ASSUME NEW s \in Sessions, QueueDelivery(s)
      PROVE  RoutingInv'
  <2> DEFINE r == local[s].sender
             x == [msg_id |-> local[s].msg_id, preimage |-> local[s].preimage]
  <2>1. /\ local[s] \in [preimage : Preimages, msg_id : MsgIds,
                         sender : Sessions, response : Responses \cup {None}]
        /\ queue \in [Sessions -> Seq(PendingDelivery)]
    BY <1>4 DEF QueueDelivery, TypeOK, TasksOK, Fits, ConnectionsOK
  <2>2. r \in Sessions /\ x \in PendingDelivery /\ queue[r] \in Seq(PendingDelivery)
    BY <2>1 DEF PendingDelivery
  <2>3. /\ pc[s] = "enqueue" /\ pc'[s] = "await"
        /\ \A t \in Sessions : t # s => pc'[t] = pc[t]
        /\ \A t \in Sessions : local'[t] = local[t]
        /\ UNCHANGED <<pending, next_msg_id, issued, delivered>>
    BY <1>4 DEF QueueDelivery, Goto, routerVars, historyVars, TypeOK, TasksOK
  <2>4. \A t \in Sessions : Queued(t)' \subseteq Queued(t) \cup {x}
    <3>1. /\ queue'[r] = Append(queue[r], x)
          /\ \A t \in Sessions : t # r => queue'[t] = queue[t]
      BY <1>4, <2>1, <2>2 DEF QueueDelivery
    <3> HIDE DEF x, r
    <3>2. ASSUME NEW t \in Sessions, t = r
          PROVE  Queued(t)' \subseteq Queued(t) \cup {x}
      BY <2>2, <3>1, <3>2, AppendDeliveries DEF Queued
    <3> QED
      BY <3>1, <3>2 DEF Queued
  <2>5. /\ \A t \in Sessions : Routing(t)' <=> Routing(t)
        /\ \A t \in Sessions : Completing(t)' <=> Completing(t)
        /\ \A t \in Sessions : pc'[t] = "pend" => pc[t] = "pend"
        /\ \A t \in Sessions :
             pc'[t] \in {"pend", "enqueue", "withdraw"} =>
               pc[t] \in {"pend", "enqueue", "withdraw"} /\ t # s
        /\ Routing(s)
    BY <2>3 DEF Routing, Completing
  <2>6. IdsAgree'
    <3>1. Issued(x)
      BY <2>5 DEF RoutingInv, IdsAgree, Issued
    <3> HIDE DEF x
    <3> QED
      BY <2>3, <2>4, <2>5, <3>1 DEF RoutingInv, IdsAgree, Issued
  <2>7. OwnIds'
    BY <2>3, <2>5 DEF RoutingInv, OwnIds
  <2>8. NotQueuedYet'
    <3>1. ASSUME NEW t \in Sessions, NEW u \in Sessions,
                 pc'[t] \in {"pend", "enqueue", "withdraw"}, NEW y \in Queued(u)'
          PROVE  y.msg_id # local'[t].msg_id
      <4>1. /\ pc[t] \in {"pend", "enqueue", "withdraw"}
            /\ t # s /\ local'[t] = local[t] /\ Routing(t)
        BY <2>3, <2>5, <3>1 DEF Routing
      <4>2. CASE y \in Queued(u)
        BY <4>1, <4>2 DEF RoutingInv, NotQueuedYet
      <4>3. CASE y = x
        BY <2>5, <4>1, <4>3 DEF RoutingInv, OwnIds
      <4> QED
        BY <2>4, <3>1, <4>2, <4>3
    <3> QED
      BY <2>3, <2>5, <3>1 DEF RoutingInv, NotQueuedYet
  <2> QED
    BY <2>6, <2>7, <2>8 DEF RoutingInv
<1>5. ASSUME NEW s \in Sessions, NEW m \in 1 .. MaxSends, NEW r \in Responses,
             TakePending(s, m, r)
      PROVE  RoutingInv'
  <2>1. UNCHANGED <<queue, next_msg_id, issued, delivered>> /\ pending' = Drop(pending, m)
    BY <1>5 DEF TakePending
  <2>2. /\ DOMAIN pending' = DOMAIN pending \ {m}
        /\ \A k \in DOMAIN pending' : pending'[k] = pending[k]
        /\ \A t \in Sessions : Queued(t)' = Queued(t)
    BY <2>1 DEF Drop, Restrict, Queued
  <2>3. CASE m \notin DOMAIN pending
    BY <1>5, <2>1, <2>2, <2>3, FewerKeeps DEF TakePending, Fewer, Routing, Completing
  <2>4. CASE m \in DOMAIN pending
    <3>1. /\ pc'[s] = "cache" /\ pc[s] = "select"
          /\ local'[s].msg_id = m /\ local'[s].preimage = pending[m]
          /\ \A t \in Sessions : t # s => pc'[t] = pc[t] /\ local'[t] = local[t]
      BY <1>5, <2>4 DEF TakePending, Goto, TypeOK, TasksOK
    <3>2. /\ \A t \in Sessions : Routing(t)' <=> Routing(t) /\ t # s
          /\ \A t \in Sessions : Completing(t)' <=> Completing(t) \/ t = s
          /\ \A t \in Sessions : pc'[t] = "pend" <=> pc[t] = "pend" /\ t # s
          /\ \A t \in Sessions :
               pc'[t] \in {"pend", "enqueue", "withdraw"} <=>
                 pc[t] \in {"pend", "enqueue", "withdraw"} /\ t # s
      BY <3>1 DEF Routing, Completing
    <3>3. IdsAgree'
      <4>1. Issued(local[s])'
        BY <2>1, <2>4, <3>1 DEF RoutingInv, IdsAgree, Issued
      <4>2. ASSUME NEW t \in Sessions, t # s, Routing(t)' \/ Completing(t)'
            PROVE  Issued(local[t])'
        BY <2>1, <3>1, <3>2, <4>2 DEF RoutingInv, IdsAgree, Issued
      <4>3. ASSUME NEW t \in Sessions, NEW x \in Queued(t)'
            PROVE  Issued(x)'
        BY <2>1, <2>2, <4>3 DEF RoutingInv, IdsAgree, Issued
      <4> QED
        BY <2>1, <2>2, <4>1, <4>2, <4>3 DEF RoutingInv, IdsAgree
    <3>4. OwnIds'
      BY <3>1, <3>2 DEF RoutingInv, OwnIds
    <3>5. NotQueuedYet'
      BY <2>1, <2>2, <3>1, <3>2 DEF RoutingInv, NotQueuedYet
    <3> QED
      BY <3>3, <3>4, <3>5 DEF RoutingInv
  <2> QED
    BY <2>3, <2>4
<1>6. ASSUME NEW p \in Preimages, Expire(p)
      PROVE  RoutingInv'
  BY <1>6, FewerKeeps DEF Expire, historyVars, Fewer, Queued, Routing, Completing
<1>7. CASE Restart
  <2>1. /\ \A s \in Sessions : pc'[s] \in {"new", "ended"}
        /\ \A s \in Sessions : Queued(s)' = {}
        /\ DOMAIN pending' = {} /\ DOMAIN issued' = {} /\ delivered' = {}
    BY <1>7 DEF Restart, EmptyMap, Queued
  <2> QED
    BY <2>1 DEF RoutingInv, IdsAgree, OwnIds, NotQueuedYet, Routing, Completing
<1>8. ASSUME NEW s \in Sessions, ClientStep(s)
      PROVE  RoutingInv'
  BY <1>5, <1>8, QuietSteps, FewerKeeps DEF ClientStep
<1>9. ASSUME NEW s \in Sessions, HandlerStep(s)
      PROVE  RoutingInv'
  BY <1>2, <1>3, <1>4, <1>9, QuietSteps, FewerKeeps DEF HandlerStep
<1>10. ASSUME NEW s \in Sessions, SendDelivery(s)
       PROVE  RoutingInv'
  BY <1>10, QuietSteps, FewerKeeps
<1> QED
  BY <1>1, <1>6, <1>7, <1>8, <1>9, <1>10 DEF Next, Running, Quiet

\* Message ids are not shared, and what is known under one belongs to the
\* preimage it was handed out for.
THEOREM RelayRouting == Spec => []RoutingInv
<1>1. Init => RoutingInv
  BY DEF Init, EmptyMap, RoutingInv, IdsAgree, OwnIds, NotQueuedYet, Routing,
         Completing, Queued
<1>2. TypeOK /\ RoutingInv /\ [Next]_vars => RoutingInv'
  BY RoutingStep
<1> QED
  BY <1>1, <1>2, RelayTypes, PTL DEF Spec

(***************************************************************************)
(* No lost wakeup                                                          *)
(***************************************************************************)

\* What a step leaves of the waiting senders when it wakes none up.
SameWaits ==
  /\ \A m \in DOMAIN pending : m \in DOMAIN pending' /\ pending'[m] = pending[m]
  /\ \A t \in Sessions :
       Waiting(t)' /\ local'[t].response = None =>
         /\ Waiting(t) /\ local[t].response = None
         /\ local'[t].msg_id = local[t].msg_id
         /\ local'[t].preimage = local[t].preimage
  /\ \A t \in Sessions :
       Completing(t) => Completing(t)' /\ local'[t].msg_id = local[t].msg_id

LEMMA SameWaitsKeeps ==
  ASSUME AnswerWillFindSender, SameWaits
  PROVE  AnswerWillFindSender'
<1> SUFFICES ASSUME NEW s \in Sessions, Waiting(s)', local'[s].response = None
             PROVE  \/ /\ local'[s].msg_id \in DOMAIN pending'
                       /\ pending'[local'[s].msg_id] = local'[s].preimage
                    \/ \E t \in Sessions : /\ Completing(t)'
                                           /\ local'[t].msg_id = local'[s].msg_id
  BY DEF AnswerWillFindSender
<1>1. /\ Waiting(s) /\ local[s].response = None
      /\ local'[s].msg_id = local[s].msg_id /\ local'[s].preimage = local[s].preimage
  BY DEF SameWaits
<1>2. CASE /\ local[s].msg_id \in DOMAIN pending
           /\ pending[local[s].msg_id] = local[s].preimage
  BY <1>1, <1>2 DEF SameWaits
<1>3. CASE \E t \in Sessions : Completing(t) /\ local[t].msg_id = local[s].msg_id
  BY <1>1, <1>3 DEF SameWaits
<1> QED
  BY <1>1, <1>2, <1>3 DEF AnswerWillFindSender

\* A session that moves between places where it neither waits nor completes,
\* or goes on waiting or completing.
LEMMA MoveWaits ==
  ASSUME TypeOK, NEW s \in Sessions, NEW place, NEW l, Goto(s, place, l),
         UNCHANGED pending,
         \/ /\ place \in {"select", "ended", "register", "claim", "pend",
                          "withdraw", "result"}
            /\ ~ Completing(s)
         \/ Waiting(s) /\ l = local[s]
         \/ place = "reply" /\ pc[s] = "cache" /\ l = local[s]
  PROVE  SameWaits
<1>1. /\ pc'[s] = place /\ local'[s] = l
      /\ \A t \in Sessions : t # s => pc'[t] = pc[t] /\ local'[t] = local[t]
  BY DEF TypeOK, TasksOK, Goto
<1> QED
  BY <1>1 DEF SameWaits, Waiting, Completing

\* Every step keeps a waiting sender within reach of its ACK.
LEMMA WakeupStep ==
  ASSUME TypeOK, RoutingInv, AnswerWillFindSender, [Next]_vars
  PROVE  AnswerWillFindSender'
<1> USE RelayAssumption
<1> USE DEF routerVars, historyVars
<1>1. ASSUME UNCHANGED <<pc, local, pending>>
      PROVE  AnswerWillFindSender'
  BY <1>1, SameWaitsKeeps DEF SameWaits, Waiting, Completing
<1>2. ASSUME NEW s \in Sessions, UNCHANGED pending, ~ Completing(s),
             \E place \in {"select", "ended", "register", "claim", "pend",
                           "withdraw", "result"} : \E l : Goto(s, place, l)
      PROVE  AnswerWillFindSender'
  BY <1>2, MoveWaits, SameWaitsKeeps
<1>3. ASSUME NEW s \in Sessions,
             \/ Accept(s) \/ Disconnect(s) \/ SendDelivery(s) \/ Reregister(s)
             \/ WriteResult(s)
             \/ \E d \in Devices, cs \in Batches, rs \in Uploads :
                  HandleIAm(s, d, cs, rs) \/ Unregister(s, d, cs, rs)
      PROVE  AnswerWillFindSender'
  BY <1>1, <1>2, <1>3
  DEF Accept, Disconnect, SendDelivery, Reregister, WriteResult, HandleIAm,
      Unregister, Register, Finish, End, Completing
<1>4. ASSUME NEW s \in Sessions,
             \/ NotConnected(s) \/ StaleEntry(s) \/ InvalidPreimage(s)
             \/ ClaimCommit(s) \/ QueueClosed(s) \/ ReceiveResponse(s) \/ TimeOut(s)
             \/ \E d \in Devices, p \in Preimages : CheckCache(s, d, p)
      PROVE  AnswerWillFindSender'
  BY <1>2, <1>4
  DEF NotConnected, StaleEntry, InvalidPreimage, ClaimCommit, QueueClosed,
      ReceiveResponse, TimeOut, CheckCache, Outcome, Completing
<1>5. ASSUME NEW s \in Sessions, QueueDelivery(s)
      PROVE  AnswerWillFindSender'
  BY <1>5, MoveWaits, SameWaitsKeeps DEF QueueDelivery, Waiting
<1>6. ASSUME NEW s \in Sessions, CacheResponse(s)
      PROVE  AnswerWillFindSender'
  BY <1>6, MoveWaits, SameWaitsKeeps DEF CacheResponse
<1>7. ASSUME NEW s \in Sessions, RegisterPending(s)
      PROVE  AnswerWillFindSender'
  <2> DEFINE m == local[s].msg_id
  <2>1. /\ pc'[s] = "enqueue" /\ pc[s] = "pend"
        /\ local'[s].msg_id = m /\ local'[s].preimage = local[s].preimage
        /\ \A t \in Sessions : t # s => pc'[t] = pc[t] /\ local'[t] = local[t]
        /\ DOMAIN pending' = DOMAIN pending \cup {m}
        /\ pending'[m] = local[s].preimage
        /\ \A k \in DOMAIN pending : k # m => pending'[k] = pending[k]
    BY <1>7 DEF RegisterPending, Goto, Put, TypeOK, TasksOK
  <2>2. ASSUME NEW t \in Sessions, Waiting(t), t # s
        PROVE  local[t].msg_id # m
    BY <2>1, <2>2 DEF RoutingInv, OwnIds, Routing, Waiting
  <2>3. \A t \in Sessions : Completing(t)' <=> Completing(t)
    BY <2>1 DEF Completing
  <2>4. \A t \in Sessions : Waiting(t)' <=> Waiting(t) \/ t = s
    BY <2>1 DEF Waiting
  <2>5. \A t \in Sessions : Completing(t) => t # s
    BY <2>1 DEF Completing
  <2> QED
    BY <2>1, <2>2, <2>3, <2>4, <2>5 DEF AnswerWillFindSender
<1>8. ASSUME NEW s \in Sessions, WithdrawPending(s)
      PROVE  AnswerWillFindSender'
  <2> DEFINE m == local[s].msg_id
  <2>1. /\ pc'[s] = "result" /\ pc[s] = "withdraw"
        /\ \A t \in Sessions : t # s => pc'[t] = pc[t] /\ local'[t] = local[t]
        /\ \A k \in DOMAIN pending :
             k # m => k \in DOMAIN pending' /\ pending'[k] = pending[k]
    BY <1>8 DEF WithdrawPending, Outcome, Goto, Drop, Restrict, TypeOK, TasksOK
  <2>2. ASSUME NEW t \in Sessions, Waiting(t)
        PROVE  t # s /\ local[t].msg_id # m
    BY <2>1, <2>2 DEF RoutingInv, OwnIds, Routing, Waiting
  <2>3. /\ \A t \in Sessions : Completing(t) => t # s
        /\ \A t \in Sessions : Completing(t)' <=> Completing(t)
        /\ \A t \in Sessions : Waiting(t)' <=> Waiting(t)
    BY <2>1 DEF Completing, Waiting
  <2> QED
    BY <2>1, <2>2, <2>3 DEF AnswerWillFindSender
<1>9. ASSUME NEW s \in Sessions, NEW m \in 1 .. MaxSends, NEW r \in Responses,
             TakePending(s, m, r)
      PROVE  AnswerWillFindSender'
  <2>1. /\ DOMAIN pending' = DOMAIN pending \ {m}
        /\ \A k \in DOMAIN pending' : pending'[k] = pending[k]
    BY <1>9 DEF TakePending, Drop, Restrict
  <2>2. CASE m \notin DOMAIN pending
    BY <1>9, <2>1, <2>2, SameWaitsKeeps DEF TakePending, SameWaits, Waiting, Completing
  <2>3. CASE m \in DOMAIN pending
    <3>1. /\ pc'[s] = "cache" /\ pc[s] = "select" /\ local'[s].msg_id = m
          /\ \A t \in Sessions : t # s => pc'[t] = pc[t] /\ local'[t] = local[t]
      BY <1>9, <2>3 DEF TakePending, Goto, TypeOK, TasksOK
    <3>2. /\ \A t \in Sessions : Completing(t) => t # s
          /\ \A t \in Sessions : Completing(t)' <=> Completing(t) \/ t = s
          /\ \A t \in Sessions : Waiting(t)' <=> Waiting(t)
          /\ \A t \in Sessions : Waiting(t) => t # s
      BY <3>1 DEF Completing, Waiting
    <3> QED
      BY <2>1, <3>1, <3>2 DEF AnswerWillFindSender
  <2> QED
    BY <2>2, <2>3
<1>10. ASSUME NEW s \in Sessions, SendResponse(s)
       PROVE  AnswerWillFindSender'
  <2>1. /\ pc[s] = "reply" /\ pc'[s] = "select" /\ pending' = pending
        /\ local[s].response \in Responses
        /\ \A t \in Sessions : t # s => pc'[t] = pc[t]
    BY <1>10 DEF SendResponse, TypeOK, TasksOK, Fits
  <2>2. ASSUME NEW t \in Sessions, Waiting(t), local'[t].response = None
        PROVE  local'[t] = local[t] /\ local[t].msg_id # local[s].msg_id
    <3>1. t # s
      BY <2>1, <2>2 DEF Waiting
    <3>2. CASE local[t].msg_id = local[s].msg_id
      <4>1. local[t] \in [preimage : Preimages, msg_id : MsgIds,
                          sender : Sessions, response : Responses \cup {None}]
        BY <2>2 DEF Waiting, TypeOK, TasksOK, Fits
      <4>2. local'[t] = [local[t] EXCEPT !.response = local[s].response]
        BY <1>10, <2>2, <3>1, <3>2 DEF SendResponse
      <4>3. local'[t].response = local[s].response
        BY <4>1, <4>2
      <4> QED
        BY <2>1, <2>2, <4>3
    <3>3. CASE local[t].msg_id # local[s].msg_id
      BY <1>10, <3>1, <3>3 DEF SendResponse
    <3> QED
      BY <3>2, <3>3
  <2>3. ASSUME NEW t \in Sessions, Completing(t), t # s
        PROVE  Completing(t)' /\ local'[t] = local[t]
    BY <1>10, <2>1, <2>3 DEF SendResponse, Completing, Waiting
  <2>4. \A t \in Sessions : Waiting(t)' <=> Waiting(t)
    BY <2>1 DEF Waiting
  <2> QED
    BY <2>1, <2>2, <2>3, <2>4 DEF AnswerWillFindSender
<1>11. CASE Restart
  BY <1>11 DEF Restart, EmptyMap, AnswerWillFindSender, Waiting
<1>12. ASSUME NEW s \in Sessions, ClientStep(s)
       PROVE  AnswerWillFindSender'
  BY <1>1, <1>3, <1>4, <1>9, <1>12 DEF ClientStep, AddCommits
<1>13. ASSUME NEW s \in Sessions, HandlerStep(s)
       PROVE  AnswerWillFindSender'
  BY <1>3, <1>4, <1>5, <1>6, <1>7, <1>8, <1>10, <1>13 DEF HandlerStep
<1> QED
  BY <1>1, <1>3, <1>11, <1>12, <1>13 DEF Next, Running, Quiet, Expire, vars

\* No lost wakeup.
THEOREM RelayWakeup == Spec => []AnswerWillFindSender
<1>1. Init => AnswerWillFindSender
  BY DEF Init, EmptyMap, AnswerWillFindSender, Waiting
<1>2. TypeOK /\ RoutingInv /\ AnswerWillFindSender /\ [Next]_vars => AnswerWillFindSender'
  BY WakeupStep
<1> QED
  BY <1>1, <1>2, RelayTypes, RelayRouting, PTL DEF Spec

(***************************************************************************)
(* Answers                                                                 *)
(***************************************************************************)

CacheGenuine ==
  \A p \in DOMAIN response_cache :
    response_cache[p] # Expired => response_cache[p] \in answered[p]

\* When one session moves, its own new locals decide.
LEMMA MoveAnswers ==
  ASSUME TypeOK, AnswersInv, NEW s \in Sessions, NEW place, NEW l, Goto(s, place, l),
         \A p \in Preimages : answered[p] \subseteq answered'[p],
         CacheGenuine', HeldAnswers(s)'
  PROVE  AnswersInv'
<1>1. ASSUME NEW t \in Sessions, t # s
      PROVE  HeldAnswers(t)'
  <2>1. pc'[t] = pc[t] /\ local'[t] = local[t]
    BY <1>1 DEF TypeOK, TasksOK, Goto
  <2>2. HeldAnswers(t) /\ Fits(t, pc[t], local[t])
    BY DEF AnswersInv, TypeOK, TasksOK
  <2> QED
    BY <2>1, <2>2 DEF HeldAnswers, Completing, Waiting, Fits
<1>2. \A t \in Sessions : HeldAnswers(t)'
  BY <1>1
<1> QED
  BY <1>2 DEF AnswersInv, AnswersAreGenuine, CacheGenuine, HeldAnswers

\* Every step of the relay keeps the answers apart.
LEMMA AnswersStep ==
  ASSUME TypeOK, RoutingInv, AnswersInv, [Next]_vars
  PROVE  AnswersInv'
<1> USE RelayAssumption
<1> USE DEF routerVars, historyVars
<1>0. CacheGenuine /\ \A t \in Sessions : HeldAnswers(t)
  BY DEF AnswersInv, AnswersAreGenuine, CacheGenuine
\* The steps that leave the tasks alone, or one task without an answer.
<1>1. ASSUME UNCHANGED <<pc, local, answered>>, CacheGenuine'
      PROVE  AnswersInv'
  BY <1>0, <1>1 DEF AnswersInv, AnswersAreGenuine, CacheGenuine, HeldAnswers,
                    Completing, Waiting
<1>2. ASSUME NEW s \in Sessions, UNCHANGED answered, CacheGenuine',
             \/ \E place \in {"select", "ended", "register", "claim", "pend", "withdraw"} :
                  \E l : Goto(s, place, l)
             \/ \E status \in 1..4 : \E p : Outcome(s, p, status, None)
      PROVE  AnswersInv'
  <2>1. CASE \E place \in {"select", "ended", "register", "claim", "pend", "withdraw"} :
               \E l : Goto(s, place, l)
    <3>1. pc'[s] \in {"select", "ended", "register", "claim", "pend", "withdraw"}
      BY <2>1 DEF Goto, TypeOK, TasksOK
    <3>2. HeldAnswers(s)'
      BY <3>1 DEF HeldAnswers, Completing, Waiting
    <3> QED
      BY <1>2, <2>1, <3>2, MoveAnswers
  <2>2. CASE \E status \in 1..4 : \E p : Outcome(s, p, status, None)
    <3>1. pc'[s] = "result" /\ local'[s].status \in 1..4
      BY <2>2 DEF Outcome, Goto, TypeOK, TasksOK
    <3>2. HeldAnswers(s)'
      BY <3>1 DEF HeldAnswers, Completing, Waiting, SEND_OK
    <3> QED
      BY <1>2, <2>2, <3>2, MoveAnswers DEF Outcome
  <2> QED
    BY <1>2, <2>1, <2>2
<1>3. UNCHANGED <<response_cache, answered>> => CacheGenuine'
  BY <1>0 DEF CacheGenuine
<1>4. ASSUME NEW s \in Sessions,
             \/ Accept(s) \/ Disconnect(s) \/ SendDelivery(s) \/ WriteResult(s)
             \/ \E cs \in Batches : AddCommits(s, cs)
             \/ NotConnected(s) \/ StaleEntry(s) \/ InvalidPreimage(s)
             \/ ClaimCommit(s) \/ QueueClosed(s) \/ WithdrawPending(s) \/ TimeOut(s)
      PROVE  AnswersInv'
  <2>1. UNCHANGED <<response_cache, answered>>
    BY <1>4 DEF Accept, Disconnect, SendDelivery, WriteResult, AddCommits,
                NotConnected, StaleEntry, InvalidPreimage, ClaimCommit,
                QueueClosed, WithdrawPending, TimeOut
  <2>2. CASE \/ Accept(s) \/ Disconnect(s) \/ SendDelivery(s) \/ WriteResult(s)
             \/ ClaimCommit(s) \/ QueueClosed(s)
             \/ \E cs \in Batches : AddCommits(s, cs)
    <3>1. \/ UNCHANGED <<pc, local>>
          \/ \E place \in {"select", "ended", "register", "claim", "pend", "withdraw"} :
               \E l : Goto(s, place, l)
      BY <2>2 DEF Accept, Disconnect, SendDelivery, WriteResult, ClaimCommit,
                  QueueClosed, AddCommits, Finish, End
    <3> QED
      BY <1>1, <1>2, <1>3, <2>1, <3>1
  <2>3. CASE \/ NotConnected(s) \/ StaleEntry(s) \/ InvalidPreimage(s)
             \/ WithdrawPending(s) \/ TimeOut(s)
    <3>1. \E status \in 1..4 : \E p : Outcome(s, p, status, None)
      BY <2>3 DEF NotConnected, StaleEntry, InvalidPreimage, WithdrawPending, TimeOut,
                  SEND_ERR_NOT_CONNECTED, SEND_ERR_INVALID_PREIMAGE,
                  SEND_ERR_TIMEOUT, SEND_ERR_DISCONNECTED
    <3> QED
      BY <1>2, <1>3, <2>1, <3>1
  <2> QED
    BY <1>4, <2>2, <2>3
<1>5. ASSUME NEW p \in Preimages, Expire(p)
      PROVE  AnswersInv'
  <2>1. CacheGenuine'
    BY <1>0, <1>5 DEF Expire, CacheGenuine
  <2> QED
    BY <1>1, <1>5, <2>1 DEF Expire
\* The steps that take answers in.
<1>6. ASSUME NEW s \in Sessions, NEW d, NEW cs, NEW rs,
             DOMAIN rs \subseteq Preimages, \A p \in DOMAIN rs : rs[p] \in Responses,
             Register(s, d, cs, rs)
      PROVE  AnswersInv'
  <2>1. \A p \in Preimages : /\ answered[p] \subseteq answered'[p]
                             /\ p \in DOMAIN rs => rs[p] \in answered'[p]
    BY <1>6 DEF Register, Uploaded
  <2>2. CacheGenuine'
    <3> SUFFICES ASSUME NEW p \in DOMAIN response_cache', response_cache'[p] # Expired
                 PROVE  response_cache'[p] \in answered'[p]
      BY DEF CacheGenuine
    <3>1. CASE p \in DOMAIN rs
      BY <1>6, <2>1, <3>1 DEF Register
    <3>2. CASE p \notin DOMAIN rs
      <4>1. p \in DOMAIN response_cache /\ response_cache'[p] = response_cache[p]
        BY <1>6, <3>2 DEF Register
      <4> QED
        BY <1>0, <2>1, <4>1 DEF CacheGenuine, TypeOK, AnswersOK
    <3> QED
      BY <3>1, <3>2
  <2>3. pc'[s] = "select" /\ Goto(s, "select", None)
    BY <1>6 DEF Register, Finish, Goto, TypeOK, TasksOK
  <2>4. HeldAnswers(s)'
    BY <2>3 DEF HeldAnswers, Completing, Waiting
  <2> QED
    BY <2>1, <2>2, <2>3, <2>4, MoveAnswers
<1>7. ASSUME NEW s \in Sessions, NEW d \in Devices, NEW cs \in Batches,
             NEW rs \in Uploads, HandleIAm(s, d, cs, rs)
      PROVE  AnswersInv'
  <2>1. DOMAIN rs \subseteq Preimages /\ \A p \in DOMAIN rs : rs[p] \in Responses
    OBVIOUS
  <2> QED
    BY <1>6, <1>7, <2>1 DEF HandleIAm
<1>8. ASSUME NEW s \in Sessions, Reregister(s)
      PROVE  AnswersInv'
  BY <1>6, <1>8 DEF Reregister, TypeOK, TasksOK, Fits
<1>9. ASSUME NEW s \in Sessions, NEW d \in Devices, NEW cs \in Batches,
             NEW rs \in Uploads, Unregister(s, d, cs, rs)
      PROVE  AnswersInv'
  BY <1>2, <1>3, <1>9 DEF Unregister
<1>10. ASSUME NEW s \in Sessions, NEW m \in 1 .. MaxSends, NEW r \in Responses,
              TakePending(s, m, r)
       PROVE  AnswersInv'
  <2>1. CASE m \notin DOMAIN pending
    BY <1>1, <1>3, <1>10, <2>1 DEF TakePending
  <2>2. CASE m \in DOMAIN pending
    <3> DEFINE p == pending[m]
    <3>1. /\ issued[m] = p /\ p \in Preimages
          /\ answered \in [Preimages -> SUBSET Responses]
      BY <2>2 DEF RoutingInv, IdsAgree, TypeOK, AnswersOK, HistoryOK
    <3>2. /\ answered' = [answered EXCEPT ![p] = @ \cup {r}]
          /\ Goto(s, "cache", [msg_id |-> m, preimage |-> p, response |-> r])
          /\ response_cache' = response_cache
      BY <1>10, <2>2, <3>1 DEF TakePending
    <3> HIDE DEF p
    <3>3. /\ \A q \in Preimages : answered[q] \subseteq answered'[q]
          /\ r \in answered'[p]
      BY <3>1, <3>2
    <3>4. CacheGenuine'
      BY <1>0, <3>2, <3>3 DEF CacheGenuine, TypeOK, AnswersOK
    <3>5. pc'[s] = "cache" /\ local'[s].preimage = p /\ local'[s].response = r
      BY <3>2 DEF Goto, TypeOK, TasksOK
    <3>6. HeldAnswers(s)'
      BY <3>3, <3>5 DEF HeldAnswers, Waiting
    <3> QED
      BY <3>2, <3>3, <3>4, <3>6, MoveAnswers
  <2> QED
    BY <2>1, <2>2
\* The steps that hand answers on.
<1>11. ASSUME NEW s \in Sessions, CacheResponse(s)
       PROVE  AnswersInv'
  <2>1. Completing(s) /\ local[s].response \in answered[local[s].preimage]
    BY <1>0, <1>11 DEF CacheResponse, Completing, HeldAnswers
  <2>2. CacheGenuine'
    BY <1>0, <1>11, <2>1 DEF CacheResponse, Put, CacheGenuine
  <2>3. pc'[s] = "reply" /\ local'[s] = local[s]
    BY <1>11 DEF CacheResponse, Goto, TypeOK, TasksOK
  <2>4. HeldAnswers(s)'
    BY <1>11, <2>1, <2>3 DEF CacheResponse, HeldAnswers, Waiting
  <2> QED
    BY <1>11, <2>2, <2>4, MoveAnswers DEF CacheResponse
<1>12. ASSUME NEW s \in Sessions, SendResponse(s)
       PROVE  AnswersInv'
  <2>1. /\ Completing(s) /\ pc'[s] = "select"
        /\ \A t \in Sessions : t # s => pc'[t] = pc[t]
        /\ UNCHANGED <<response_cache, answered>>
    BY <1>12 DEF SendResponse, Completing, TypeOK, TasksOK
  <2>2. ASSUME NEW t \in Sessions
        PROVE  HeldAnswers(t)'
    <3>1. CASE t = s
      BY <2>1, <3>1 DEF HeldAnswers, Completing, Waiting
    <3>2. CASE t # s /\ Waiting(t) /\ local[t].msg_id = local[s].msg_id
      <4>1. local[t] \in [preimage : Preimages, msg_id : MsgIds,
                          sender : Sessions, response : Responses \cup {None}]
        BY <3>2 DEF Waiting, TypeOK, TasksOK, Fits
      <4>2. local'[t] = [local[t] EXCEPT !.response = local[s].response]
        BY <1>12, <3>2 DEF SendResponse
      <4>3. /\ local'[t].response = local[s].response
            /\ local'[t].preimage = local[t].preimage
        BY <4>1, <4>2
      <4>4. local[t].preimage = local[s].preimage
        BY <2>1, <3>2 DEF RoutingInv, IdsAgree, Issued, Routing, Waiting
      <4>5. local[s].response \in answered[local[s].preimage]
        BY <1>0, <2>1 DEF HeldAnswers
      <4> QED
        BY <2>1, <3>2, <4>3, <4>4, <4>5 DEF HeldAnswers, Completing, Waiting
    <3>3. CASE t # s /\ ~ (Waiting(t) /\ local[t].msg_id = local[s].msg_id)
      <4>1. local'[t] = local[t]
        BY <1>12, <3>3 DEF SendResponse
      <4> QED
        BY <1>0, <2>1, <3>3, <4>1 DEF HeldAnswers, Completing, Waiting
    <3> QED
      BY <3>1, <3>2, <3>3
  <2> QED
    BY <1>3, <2>1, <2>2 DEF AnswersInv, AnswersAreGenuine, CacheGenuine, HeldAnswers
<1>13. ASSUME NEW s \in Sessions, RegisterPending(s) \/ QueueDelivery(s)
       PROVE  AnswersInv'
  <2>1. /\ UNCHANGED <<response_cache, answered>>
        /\ pc'[s] \in {"enqueue", "await"}
        /\ \/ local'[s].response = None
           \/ Waiting(s) /\ local'[s] = local[s]
        /\ \E place \in {"enqueue", "await"} : \E l : Goto(s, place, l)
    BY <1>13 DEF RegisterPending, QueueDelivery, Goto, Waiting, TypeOK, TasksOK
  <2>2. HeldAnswers(s)'
    BY <1>0, <2>1 DEF HeldAnswers, Completing, Waiting
  <2> QED
    BY <1>3, <2>1, <2>2, MoveAnswers
<1>14. ASSUME NEW s \in Sessions, ReceiveResponse(s)
       PROVE  AnswersInv'
  <2>1. /\ pc'[s] = "result" /\ UNCHANGED <<response_cache, answered>>
        /\ local'[s].preimage = local[s].preimage
        /\ local'[s].payload = local[s].response
        /\ local[s].response \in answered[local[s].preimage]
    BY <1>0, <1>14 DEF ReceiveResponse, Outcome, Goto, HeldAnswers, Waiting, TypeOK,
                       TasksOK
  <2>2. HeldAnswers(s)'
    BY <2>1 DEF HeldAnswers, Completing, Waiting
  <2> QED
    BY <1>3, <1>14, <2>1, <2>2, MoveAnswers DEF ReceiveResponse, Outcome
<1>15. ASSUME NEW s \in Sessions, NEW d \in Devices, NEW p \in Preimages,
              CheckCache(s, d, p)
       PROVE  AnswersInv'
  <2>1. CacheGenuine' /\ answered' = answered
    BY <1>0, <1>15 DEF CheckCache, Drop, Restrict, CacheGenuine
  <2>2. CASE p \in DOMAIN response_cache /\ response_cache[p] # Expired
    <3>1. Outcome(s, p, SEND_OK, response_cache[p])
      BY <1>15, <2>2 DEF CheckCache
    <3>2. /\ pc'[s] = "result" /\ local'[s].preimage = p
          /\ local'[s].payload = response_cache[p]
      BY <3>1 DEF Outcome, Goto, TypeOK, TasksOK
    <3>3. HeldAnswers(s)'
      BY <1>0, <2>1, <2>2, <3>2 DEF CacheGenuine, HeldAnswers, Completing, Waiting
    <3> QED
      BY <2>1, <3>1, <3>3, MoveAnswers DEF Outcome
  <2>3. CASE ~ (p \in DOMAIN response_cache /\ response_cache[p] # Expired)
    BY <1>2, <1>15, <2>1, <2>3 DEF CheckCache
  <2> QED
    BY <2>2, <2>3
<1>16. CASE Restart
  <2>1. /\ \A t \in Sessions : pc'[t] \in {"new", "ended"}
        /\ DOMAIN response_cache' = {}
    BY <1>16 DEF Restart, EmptyMap
  <2> QED
    BY <2>1 DEF AnswersInv, AnswersAreGenuine, HeldAnswers, Completing, Waiting
<1>17. CASE UNCHANGED vars
  BY <1>1, <1>3, <1>17 DEF vars
<1>18. ASSUME NEW s \in Sessions, ClientStep(s)
       PROVE  AnswersInv'
  BY <1>4, <1>7, <1>9, <1>10, <1>15, <1>18 DEF ClientStep
<1>19. ASSUME NEW s \in Sessions, HandlerStep(s)
       PROVE  AnswersInv'
  BY <1>4, <1>8, <1>11, <1>12, <1>13, <1>14, <1>19 DEF HandlerStep
<1> QED
  BY <1>4, <1>5, <1>16, <1>17, <1>18, <1>19 DEF Next, Running, Quiet

\* Every answer on its way was given to the preimage it is under.
LEMMA RelayHeldAnswers == Spec => []AnswersInv
<1>1. Init => AnswersInv
  BY DEF Init, EmptyMap, AnswersInv, AnswersAreGenuine, HeldAnswers, Completing, Waiting
<1>2. TypeOK /\ RoutingInv /\ AnswersInv /\ [Next]_vars => AnswersInv'
  BY AnswersStep
<1> QED
  BY <1>1, <1>2, RelayTypes, RelayRouting, PTL DEF Spec

\* An answer never reaches a SEND made with another preimage.
THEOREM RelayAnswers == Spec => []AnswersAreGenuine
<1>1. AnswersInv => AnswersAreGenuine
  BY DEF AnswersInv
<1> QED
  BY <1>1, RelayHeldAnswers, PTL

(***************************************************************************)
(* A delivery is in one place                                              *)
(***************************************************************************)

\* Dropping what a channel holds makes no copy.
LEMMA DropKeepsOneCopy ==
  ASSUME OneCopy, delivered' \subseteq delivered,
         \A t \in Sessions : queue'[t] \in {queue[t], <<>>}
  PROVE  OneCopy'
  BY DEF OneCopy

\* Every step keeps a delivery in one place.
LEMMA OneCopyStep ==
  ASSUME TypeOK, RoutingInv, OneCopy, [Next]_vars
  PROVE  OneCopy'
<1> USE DEF TypeOK, ConnectionsOK
<1>1. CASE UNCHANGED <<queue, delivered>>
  BY <1>1 DEF OneCopy
<1>2. ASSUME NEW s \in Sessions, End(s), UNCHANGED delivered
      PROVE  OneCopy'
  BY <1>2, DropKeepsOneCopy DEF End
<1>3. ASSUME NEW s \in Sessions, SendDelivery(s), ~ (End(s) /\ UNCHANGED delivered)
      PROVE  OneCopy'
  <2> DEFINE h == queue[s][1].msg_id
  <2>1. /\ queue[s] \in Seq(PendingDelivery) /\ queue[s] # <<>>
        /\ queue'[s] = Tail(queue[s])
        /\ delivered' = delivered \cup {<<s, Head(queue[s]).msg_id>>}
        /\ \A t \in Sessions : t # s => queue'[t] = queue[t]
    BY <1>3 DEF SendDelivery
  <2>2. /\ Len(queue[s]) \in Nat /\ Len(queue[s]) > 0
        /\ DOMAIN queue[s] = 1 .. Len(queue[s]) /\ Head(queue[s]) = queue[s][1]
        /\ DOMAIN queue'[s] = 1 .. (Len(queue[s]) - 1)
        /\ \A i \in DOMAIN queue'[s] : queue'[s][i] = queue[s][i + 1]
    BY <2>1
  <2>3. \A i \in DOMAIN queue'[s] : i + 1 \in DOMAIN queue[s] /\ i + 1 # 1
    BY <2>2
  <2>4. ASSUME NEW t \in Sessions, NEW i \in DOMAIN queue'[t]
        PROVE  /\ \E k \in DOMAIN queue[t] : /\ queue'[t][i] = queue[t][k]
                                             /\ k = IF t = s THEN i + 1 ELSE i
                                             /\ t = s => k # 1
              /\ i \in Nat
    <3>1. CASE t = s
      BY <2>1, <2>2, <2>3, <3>1
    <3>2. CASE t # s
      <4>1. queue'[t] = queue[t] /\ queue[t] \in Seq(PendingDelivery)
        BY <2>1, <3>2
      <4>2. DOMAIN queue[t] = 1 .. Len(queue[t]) /\ Len(queue[t]) \in Nat
        BY <4>1
      <4> QED
        BY <3>2, <4>1, <4>2
    <3> QED
      BY <3>1, <3>2
  <2>5. 1 \in DOMAIN queue[s] /\ delivered' = delivered \cup {<<s, h>>}
    BY <2>1, <2>2
  <2> HIDE DEF h
  <2> SUFFICES ASSUME NEW t \in Sessions, NEW u \in Sessions, NEW j \in DOMAIN queue'[u]
               PROVE  /\ \A i \in DOMAIN queue'[t] :
                           queue'[t][i].msg_id = queue'[u][j].msg_id => t = u /\ i = j
                      /\ <<t, queue'[u][j].msg_id>> \notin delivered'
    BY DEF OneCopy
  <2>6. PICK l \in DOMAIN queue[u] : /\ queue'[u][j] = queue[u][l]
                                     /\ l = IF u = s THEN j + 1 ELSE j
                                     /\ u = s => l # 1
    BY <2>4
  <2>7. ASSUME NEW i \in DOMAIN queue'[t], queue'[t][i].msg_id = queue'[u][j].msg_id
        PROVE  t = u /\ i = j
    <3>1. PICK k \in DOMAIN queue[t] : /\ queue'[t][i] = queue[t][k]
                                       /\ k = IF t = s THEN i + 1 ELSE i
      BY <2>4
    <3>2. queue[t][k].msg_id = queue[u][l].msg_id
      BY <2>6, <2>7, <3>1
    <3>3. t = u /\ k = l
      BY <3>2 DEF OneCopy
    <3>4. i \in Nat /\ j \in Nat
      BY <2>4
    <3> QED
      BY <2>6, <3>1, <3>3, <3>4
  <2>8. <<t, queue[u][l].msg_id>> \notin delivered
    BY DEF OneCopy
  <2>9. queue[u][l].msg_id # h
    <3>1. ASSUME queue[u][l].msg_id = queue[s][1].msg_id
          PROVE  FALSE
      <4>1. \A i \in DOMAIN queue[s] :
              queue[s][i].msg_id = queue[u][l].msg_id => s = u /\ i = l
        BY DEF OneCopy
      <4>2. s = u /\ 1 = l
        BY <2>5, <3>1, <4>1
      <4> QED
        BY <2>6, <4>2
    <3> QED
      BY <3>1 DEF h
  <2> QED
    BY <2>5, <2>6, <2>7, <2>8, <2>9
<1>4. ASSUME NEW s \in Sessions, QueueDelivery(s)
      PROVE  OneCopy'
  <2> DEFINE r == local[s].sender
             x == [msg_id |-> local[s].msg_id, preimage |-> local[s].preimage]
  <2>1. r \in Sessions /\ x \in PendingDelivery
    BY <1>4 DEF QueueDelivery, TasksOK, Fits, PendingDelivery
  <2>2. /\ queue'[r] = Append(queue[r], x) /\ delivered' = delivered
        /\ \A t \in Sessions : t # r => queue'[t] = queue[t]
    BY <1>4, <2>1 DEF QueueDelivery, historyVars
  <2>3. /\ Len(queue[r]) \in Nat /\ DOMAIN queue[r] = 1 .. Len(queue[r])
        /\ DOMAIN queue'[r] = 1 .. (Len(queue[r]) + 1)
        /\ \A i \in DOMAIN queue[r] : queue'[r][i] = queue[r][i]
        /\ queue'[r][Len(queue[r]) + 1] = x
    BY <2>1, <2>2
  <2>4. ASSUME NEW t \in Sessions, NEW i \in DOMAIN queue'[t]
        PROVE  \/ i \in DOMAIN queue[t] /\ queue'[t][i] = queue[t][i]
               \/ t = r /\ i = Len(queue[r]) + 1 /\ queue'[t][i].msg_id = local[s].msg_id
    <3>1. CASE t = r
      <4>1. x.msg_id = local[s].msg_id
        OBVIOUS
      <4> HIDE DEF x, r
      <4>2. i \in 1 .. (Len(queue[r]) + 1)
        BY <2>3, <3>1
      <4>3. i \in DOMAIN queue[r] \/ i = Len(queue[r]) + 1
        BY <2>3, <4>2
      <4> QED
        BY <2>3, <3>1, <4>1, <4>3
    <3>2. CASE t # r
      BY <2>2, <3>2
    <3> QED
      BY <3>1, <3>2
  <2>5. ASSUME NEW t \in Sessions
        PROVE  /\ \A i \in DOMAIN queue[t] : queue[t][i].msg_id # local[s].msg_id
               /\ <<t, local[s].msg_id>> \notin delivered
    BY <1>4 DEF QueueDelivery, RoutingInv, NotQueuedYet, Queued
  <2> HIDE DEF r, x
  <2> SUFFICES ASSUME NEW t \in Sessions, NEW u \in Sessions, NEW j \in DOMAIN queue'[u]
               PROVE  /\ \A i \in DOMAIN queue'[t] :
                           queue'[t][i].msg_id = queue'[u][j].msg_id => t = u /\ i = j
                      /\ <<t, queue'[u][j].msg_id>> \notin delivered'
    BY DEF OneCopy
  <2>6. CASE j \in DOMAIN queue[u] /\ queue'[u][j] = queue[u][j]
    <3>1. /\ \A i \in DOMAIN queue[t] :
                queue[t][i].msg_id = queue[u][j].msg_id => t = u /\ i = j
          /\ <<t, queue[u][j].msg_id>> \notin delivered
          /\ queue[u][j].msg_id # local[s].msg_id
      BY <2>5, <2>6 DEF OneCopy
    <3>2. ASSUME NEW i \in DOMAIN queue'[t], queue'[t][i].msg_id = queue'[u][j].msg_id
          PROVE  t = u /\ i = j
      BY <2>4, <2>6, <3>1, <3>2
    <3> QED
      BY <2>2, <2>6, <3>1, <3>2
  <2>7. CASE u = r /\ j = Len(queue[r]) + 1 /\ queue'[u][j].msg_id = local[s].msg_id
    BY <2>2, <2>4, <2>5, <2>7
  <2> QED
    BY <2>4, <2>6, <2>7
<1>5. CASE Restart
  BY <1>5, DropKeepsOneCopy DEF Restart
<1>6. ASSUME NEW s \in Sessions, ClientStep(s)
      PROVE  OneCopy'
  BY <1>1, <1>2, <1>6
  DEF ClientStep, Accept, Disconnect, HandleIAm, Unregister, AddCommits, CheckCache,
      TakePending, historyVars
<1>7. ASSUME NEW s \in Sessions, HandlerStep(s)
      PROVE  OneCopy'
  BY <1>1, <1>2, <1>4, <1>7
  DEF HandlerStep, Reregister, NotConnected, StaleEntry, InvalidPreimage, ClaimCommit,
      RegisterPending, QueueClosed, WithdrawPending, ReceiveResponse, TimeOut, WriteResult,
      CacheResponse, SendResponse, historyVars
<1>8. ASSUME NEW s \in Sessions, SendDelivery(s)
      PROVE  OneCopy'
  BY <1>2, <1>3, <1>8
<1> QED
  BY <1>1, <1>5, <1>6, <1>7, <1>8
  DEF Next, Running, Quiet, Expire, vars, historyVars

LEMMA RelayOneCopy == Spec => []OneCopy
<1>1. Init => OneCopy
  BY DEF Init, OneCopy
<1>2. TypeOK /\ RoutingInv /\ OneCopy /\ [Next]_vars => OneCopy'
  BY OneCopyStep
<1> QED
  BY <1>1, <1>2, RelayTypes, RelayRouting, PTL DEF Spec

(***************************************************************************)
(* What a step leaves of the service's state                               *)
(***************************************************************************)

\* The call of a session, by the place of its task.
LEMMA CallPlaces ==
  ASSUME NEW s \in Sessions
  PROVE  /\ pc[s] = "claim" =>
              CallOf(s) = [stage |-> "open", to |-> local[s].to_id52,
                           preimage |-> local[s].preimage]
         /\ Routing(s) => CallOf(s) = [stage |-> "sent", message |-> OwnMessage(s)]
         /\ pc[s] = "result" =>
              CallOf(s) = [stage |-> "done", preimage |-> local[s].preimage,
                           status |-> local[s].status, payload |-> local[s].payload]
         /\ pc[s] \notin {"claim", "pend", "enqueue", "withdraw", "await", "result"} =>
              CallOf(s) = None
         /\ pc'[s] = "claim" =>
              CallOf(s)' = [stage |-> "open", to |-> local'[s].to_id52,
                            preimage |-> local'[s].preimage]
         /\ Routing(s)' => CallOf(s)' = [stage |-> "sent", message |-> OwnMessage(s)']
         /\ pc'[s] = "result" =>
              CallOf(s)' = [stage |-> "done", preimage |-> local'[s].preimage,
                            status |-> local'[s].status, payload |-> local'[s].payload]
         /\ pc'[s] \notin {"claim", "pend", "enqueue", "withdraw", "await", "result"} =>
              CallOf(s)' = None
  BY Zenon DEF CallOf, Routing

\* A step of one task changes its call only.
LEMMA OneCall ==
  ASSUME TypeOK, NEW s \in Sessions, NEW place, NEW l, Goto(s, place, l)
  PROVE  /\ Calls' = [Calls EXCEPT ![s] = CallOf(s)']
         /\ pc'[s] = place /\ local'[s] = l
<1>1. /\ pc'[s] = place /\ local'[s] = l
      /\ \A t \in Sessions : t # s => pc'[t] = pc[t] /\ local'[t] = local[t]
  BY DEF TypeOK, TasksOK, Goto
<1>2. \A t \in Sessions : t # s => CallOf(t)' = CallOf(t)
  BY <1>1, Zenon DEF CallOf, Routing, OwnMessage
<1> QED
  BY <1>1, <1>2 DEF Calls

\* A message is on its way while a task is about to queue it, and while it is
\* queued.
LEMMA UnderwayMembers ==
  ASSUME NEW x
  PROVE  /\ x \in Underway <=>
              \E t \in Sessions :
                \/ pc[t] \in {"pend", "enqueue"} /\ x = OwnMessage(t)
                \/ x \in Queued(t)
         /\ x \in Underway' <=>
              \E t \in Sessions :
                \/ pc'[t] \in {"pend", "enqueue"} /\ x = OwnMessage(t)'
                \/ x \in Queued(t)'
<1>1. x \in Underway <=>
        \E t \in Sessions :
          \/ pc[t] \in {"pend", "enqueue"} /\ x = OwnMessage(t)
          \/ x \in Queued(t)
  BY DEF Underway
<1>2. x \in Underway' <=>
        \E t \in Sessions :
          \/ pc'[t] \in {"pend", "enqueue"} /\ x = OwnMessage(t)'
          \/ x \in Queued(t)'
  BY DEF Underway
<1> QED
  BY <1>1, <1>2

\* A message can be answered while its task has yet to enter it as pending,
\* and while it is pending.
LEMMA AskedMembers ==
  ASSUME NEW x
  PROVE  /\ x \in Asked <=>
              \/ \E t \in Sessions : pc[t] = "pend" /\ x = OwnMessage(t)
              \/ \E m \in DOMAIN pending : x = Message(m, pending[m])
         /\ x \in Asked' <=>
              \/ \E t \in Sessions : pc'[t] = "pend" /\ x = OwnMessage(t)'
              \/ \E m \in DOMAIN pending' : x = Message(m, pending'[m])
<1>1. x \in Asked <=>
        \/ \E t \in Sessions : pc[t] = "pend" /\ x = OwnMessage(t)
        \/ \E m \in DOMAIN pending : x = Message(m, pending[m])
  BY DEF Asked
<1>2. x \in Asked' <=>
        \/ \E t \in Sessions : pc'[t] = "pend" /\ x = OwnMessage(t)'
        \/ \E m \in DOMAIN pending' : x = Message(m, pending'[m])
  BY DEF Asked
<1> QED
  BY <1>1, <1>2

\* A step that makes no message leaves some of those on their way.
LEMMA FewerUnderway ==
  ASSUME Fewer
  PROVE  Underway' \subseteq Underway
<1> SUFFICES ASSUME NEW x \in Underway'
             PROVE  x \in Underway
  OBVIOUS
<1>1. PICK t \in Sessions :
        \/ pc'[t] \in {"pend", "enqueue"} /\ x = OwnMessage(t)'
        \/ x \in Queued(t)'
  BY UnderwayMembers
<1>2. \/ pc[t] \in {"pend", "enqueue"} /\ x = OwnMessage(t)
      \/ x \in Queued(t)
  BY <1>1 DEF Fewer, Routing, OwnMessage
<1> QED
  BY <1>2, UnderwayMembers

\* A task that has no message to queue, and gets none, leaves them all.
LEMMA SameUnderway ==
  ASSUME TypeOK, NEW s \in Sessions, NEW place, NEW l, Goto(s, place, l),
         pc[s] \notin {"pend", "enqueue"}, place \notin {"pend", "enqueue"},
         queue' = queue
  PROVE  Underway' = Underway
<1>1. /\ \A t \in Sessions : pc'[t] \in {"pend", "enqueue"} <=> pc[t] \in {"pend", "enqueue"}
      /\ \A t \in Sessions : pc[t] \in {"pend", "enqueue"} => local'[t] = local[t]
  BY DEF TypeOK, TasksOK, Goto
<1>2. /\ \A t \in Sessions : Queued(t)' = Queued(t)
      /\ \A t \in Sessions : pc[t] \in {"pend", "enqueue"} => OwnMessage(t)' = OwnMessage(t)
  BY <1>1 DEF Queued, OwnMessage
<1>3. \A x : x \in Underway' <=> x \in Underway
  BY <1>1, <1>2, UnderwayMembers
<1> QED
  BY <1>3

\* So does a task that enters nothing as pending with the messages to answer.
LEMMA SameAsked ==
  ASSUME TypeOK, NEW s \in Sessions, NEW place, NEW l, Goto(s, place, l),
         pc[s] # "pend", place # "pend", pending' = pending
  PROVE  Asked' = Asked
<1>1. /\ \A t \in Sessions : pc'[t] = "pend" <=> pc[t] = "pend"
      /\ \A t \in Sessions : pc[t] = "pend" => local'[t] = local[t]
  BY DEF TypeOK, TasksOK, Goto
<1>2. \A t \in Sessions : pc[t] = "pend" => OwnMessage(t)' = OwnMessage(t)
  BY <1>1 DEF OwnMessage
<1>3. \A x : x \in Asked' <=> x \in Asked
  BY <1>1, <1>2, AskedMembers
<1> QED
  BY <1>3

LEMMA SameArrived ==
  ASSUME delivered' = delivered
  PROVE  Arrived' = Arrived
  BY DEF Arrived

\* The rights, when the entry of one device is replaced or dropped.
LEMMA RightsOfDevice ==
  ASSUME NEW d, NEW cs \in SUBSET Commits,
         DOMAIN devices' = DOMAIN devices \cup {d}, devices'[d].commits = cs,
         \A e \in DOMAIN devices : e # d => devices'[e] = devices[e],
         d \in Devices
  PROVE  Rights' = (Rights \ Abstract!RightsTo(d))
                     \cup ({d} \X {p \in Preimages : Sha256(p) \in cs})
<1>1. ASSUME NEW u \in Devices \X Preimages
      PROVE  u \in Rights' <=>
               IF u[1] = d THEN Sha256(u[2]) \in cs ELSE u \in Rights
  BY DEF Rights
<1>2. Rights' \subseteq Devices \X Preimages /\ Rights \subseteq Devices \X Preimages
  BY DEF Rights
<1> QED
  BY <1>1, <1>2 DEF Abstract!RightsTo

LEMMA RightsDropped ==
  ASSUME NEW d, devices' = Drop(devices, d)
  PROVE  Rights' = Rights \ Abstract!RightsTo(d)
<1>1. /\ DOMAIN devices' = DOMAIN devices \ {d}
      /\ \A e \in DOMAIN devices' : devices'[e] = devices[e]
  BY DEF Drop, Restrict
<1> QED
  BY <1>1 DEF Rights, Abstract!RightsTo

LEMMA SameRights ==
  ASSUME devices' = devices
  PROVE  Rights' = Rights
  BY DEF Rights

(***************************************************************************)
(* The steps of the service                                                *)
(***************************************************************************)

\* Every step of the relay is one of the service, or none of it.
LEMMA ServiceStep ==
  ASSUME TypeOK, RoutingInv, OneCopy, AnswersInv, [Next]_vars
  PROVE  [Abstract!SNext]_(Abstract!svars)
<1> USE RelayAssumption
<1> DEFINE Step == [Abstract!SNext]_(Abstract!svars)
\* What a step need not say again.
<1>1. ASSUME UNCHANGED <<Rights, Underway, Arrived, Asked, answered, Calls>>
      PROVE  Step
  BY <1>1 DEF Abstract!svars
<1>2. ASSUME Underway' \subseteq Underway,
             UNCHANGED <<Rights, Arrived, Asked, answered, Calls>>
      PROVE  Step
  BY <1>2 DEF Abstract!SNext, Abstract!Lose
<1>3. ASSUME NEW s \in Sessions, NEW place, NEW l, Goto(s, place, l),
             ~ Routing(s), pc[s] \notin {"claim", "result"},
             place \notin {"claim", "pend", "enqueue", "withdraw", "await", "result"}
      PROVE  Calls' = Calls
  <2>1. CallOf(s) = None /\ CallOf(s)' = None
    BY <1>3, OneCall, CallPlaces DEF Routing
  <2> QED
    BY <1>3, <2>1, OneCall DEF Calls
\* The connection
<1>4. ASSUME NEW s \in Sessions, Accept(s)
      PROVE  Step
  BY <1>1, <1>3, <1>4, SameRights, SameUnderway, SameArrived, SameAsked
  DEF Accept, Routing, routerVars, historyVars
<1>5. ASSUME NEW s \in Sessions,
             Disconnect(s) \/ (SendDelivery(s) /\ End(s) /\ UNCHANGED delivered)
      PROVE  Step
  <2>1. Underway' \subseteq Underway
    BY <1>5, QuietSteps, FewerUnderway
  <2>2. /\ pc[s] = "select" /\ Goto(s, "ended", None)
        /\ UNCHANGED <<devices, pending, delivered, answered>>
    BY <1>5 DEF Disconnect, SendDelivery, End, routerVars, historyVars
  <2> QED
    BY <1>2, <1>3, <2>1, <2>2, SameRights, SameArrived, SameAsked DEF Routing
\* A delivery leaves its channel.
<1>6. ASSUME NEW s \in Sessions, SendDelivery(s), ~ (End(s) /\ UNCHANGED delivered)
      PROVE  Step
  <2> DEFINE x == Head(queue[s])
  <2>1. /\ queue[s] \in Seq(PendingDelivery) /\ queue[s] # <<>>
        /\ queue'[s] = Tail(queue[s])
        /\ \A t \in Sessions : t # s => queue'[t] = queue[t]
        /\ delivered' = delivered \cup {<<s, x.msg_id>>}
        /\ UNCHANGED <<pc, local, devices, pending, answered>>
    BY <1>6 DEF SendDelivery, routerVars, TypeOK, ConnectionsOK
  <2>2. /\ Len(queue[s]) \in Nat /\ Len(queue[s]) > 0
        /\ DOMAIN queue[s] = 1 .. Len(queue[s]) /\ x = queue[s][1]
        /\ DOMAIN queue'[s] = 1 .. (Len(queue[s]) - 1)
        /\ \A i \in DOMAIN queue'[s] : queue'[s][i] = queue[s][i + 1]
    BY <2>1
  <2>3. 1 \in DOMAIN queue[s]
    BY <2>2
  <2> HIDE DEF x
  <2>4. Queued(s)' = Queued(s) \ {x}
    <3>1. \A i \in DOMAIN queue[s] : queue[s][i] = x => i = 1
      BY <2>2, <2>3 DEF OneCopy
    <3>2. ASSUME NEW y
          PROVE  y \in Queued(s)' <=> y \in Queued(s) /\ y # x
      <4>1. ASSUME NEW i \in DOMAIN queue'[s], y = queue'[s][i]
            PROVE  y \in Queued(s) /\ y # x
        <5>1. i + 1 \in DOMAIN queue[s] /\ y = queue[s][i + 1] /\ i + 1 # 1
          BY <2>2, <4>1
        <5> QED
          BY <3>1, <5>1 DEF Queued
      <4>2. ASSUME NEW i \in DOMAIN queue[s], y = queue[s][i], y # x
            PROVE  y \in Queued(s)'
        <5>1. i - 1 \in DOMAIN queue'[s] /\ queue'[s][i - 1] = queue[s][(i - 1) + 1]
          BY <2>2, <4>2
        <5>2. (i - 1) + 1 = i
          BY <2>2
        <5> QED
          BY <4>2, <5>1, <5>2 DEF Queued
      <4> QED
        BY <4>1, <4>2 DEF Queued
    <3> QED
      BY <3>2
  <2>5. ASSUME NEW t \in Sessions, t # s
        PROVE  Queued(t)' = Queued(t) /\ x \notin Queued(t)
    <3>1. \A i \in DOMAIN queue[t] : queue[t][i].msg_id # queue[s][1].msg_id
      BY <2>3, <2>5 DEF OneCopy
    <3> QED
      BY <2>1, <2>2, <2>5, <3>1 DEF Queued
  <2>6. x \in Queued(s)
    BY <2>2, <2>3 DEF Queued
  <2>7. ASSUME NEW t \in Sessions, pc[t] \in {"pend", "enqueue"}
        PROVE  OwnMessage(t) # x
    <3>1. x.msg_id # local[t].msg_id
      BY <2>6, <2>7 DEF RoutingInv, NotQueuedYet
    <3> QED
      BY <3>1 DEF OwnMessage, Message
  <2>8. \A t \in Sessions : OwnMessage(t)' = OwnMessage(t)
    BY <2>1 DEF OwnMessage
  <2>9. ASSUME NEW y
        PROVE  y \in Underway' <=> y \in Underway /\ y # x
    BY <2>1, <2>4, <2>5, <2>7, <2>8, UnderwayMembers
  <2>10. Underway' = Underway \ {x} /\ x \in Underway
    BY <2>6, <2>9, UnderwayMembers
  <2>11. Arrived' = Arrived \cup {x.msg_id}
    <3>1. ASSUME NEW y
          PROVE  y \in Arrived' <=> y \in Arrived \/ y = x.msg_id
      <4> DEFINE new == <<s, x.msg_id>>
      <4>1. /\ y \in Arrived <=> \E z \in delivered : y = z[2]
            /\ y \in Arrived' <=> \E z \in delivered' : y = z[2]
        BY DEF Arrived
      <4>2. new[2] = x.msg_id /\ delivered' = delivered \cup {new}
        BY <2>1 DEF x
      <4> HIDE DEF new
      <4> QED
        BY <4>1, <4>2
    <3> QED
      BY <3>1
  <2>12. Calls' = Calls
    BY <2>1, Zenon DEF Calls, CallOf, Routing, OwnMessage
  <2>13. Asked' = Asked
    BY <2>1 DEF Asked, OwnMessage
  <2>14. Abstract!Deliver(x)
    BY <2>1, <2>10, <2>11, <2>12, <2>13, SameRights DEF Abstract!Deliver
  <2> QED
    BY <2>10, <2>14 DEF Abstract!SNext
\* I_AM and UPDATE_COMMITS: the rights of one device change.
<1>7. ASSUME NEW s \in Sessions, NEW d \in Owns[s], NEW cs \in SUBSET Commits, NEW rs,
             Register(s, d, cs, rs), pc[s] \in {"select", "register"},
             UNCHANGED <<queue, pending, delivered>>
      PROVE  Step
  <2>1. d \in Devices
    BY <1>7
  <2>2. /\ DOMAIN devices' = DOMAIN devices \cup {d} /\ devices'[d].commits = cs
        /\ \A e \in DOMAIN devices : e # d => devices'[e] = devices[e]
    BY <1>7 DEF Register, Put
  <2>3. Rights' = (Rights \ Abstract!RightsTo(d))
                    \cup ({d} \X {p \in Preimages : Sha256(p) \in cs})
    BY <2>1, <2>2, RightsOfDevice
  <2>4. Underway' = Underway /\ Arrived' = Arrived /\ Asked' = Asked /\ Calls' = Calls
    BY <1>3, <1>7, SameUnderway, SameArrived, SameAsked DEF Register, Finish, Routing
  <2>5. \A p \in Preimages : answered[p] \subseteq answered'[p]
    BY <1>7 DEF Register, Uploaded
  <2>6. Abstract!Grant(d, {p \in Preimages : Sha256(p) \in cs})
    BY <2>3, <2>4, <2>5 DEF Abstract!Grant
  <2> QED
    BY <2>1, <2>6 DEF Abstract!SNext
<1>8. ASSUME NEW s \in Sessions, NEW d \in Devices, NEW cs \in Batches,
             NEW rs \in Uploads, HandleIAm(s, d, cs, rs)
      PROVE  Step
  <2>1. cs \in SUBSET Commits
    OBVIOUS
  <2> QED
    BY <1>7, <1>8, <2>1 DEF HandleIAm, Verified
<1>9. ASSUME NEW s \in Sessions, Reregister(s)
      PROVE  Step
  <2>1. local[s].id52 \in Owns[s] /\ local[s].commits \in SUBSET Commits
    BY <1>9 DEF Reregister, TypeOK, TasksOK, Fits
  <2> QED
    BY <1>7, <1>9, <2>1 DEF Reregister
<1>10. ASSUME NEW s \in Sessions, NEW d \in Devices, NEW cs \in Batches,
              NEW rs \in Uploads, Unregister(s, d, cs, rs)
       PROVE  Step
  <2>1. id52[s] \in Devices
    BY <1>10 DEF Unregister, TypeOK, ConnectionsOK
  <2>2. Rights' = Rights \ Abstract!RightsTo(id52[s])
    BY <1>10, RightsDropped DEF Unregister
  <2>3. Underway' = Underway /\ Arrived' = Arrived /\ Asked' = Asked /\ Calls' = Calls
    BY <1>3, <1>10, SameUnderway, SameArrived, SameAsked
    DEF Unregister, Routing, historyVars
  <2>4. Abstract!Revoke(id52[s])
    BY <1>10, <2>2, <2>3 DEF Abstract!Revoke, Unregister, historyVars
  <2> QED
    BY <2>1, <2>4 DEF Abstract!SNext
<1>11. ASSUME NEW s \in Sessions, NEW cs \in Batches, AddCommits(s, cs)
       PROVE  Step
  <2> DEFINE d == id52[s]
             old == devices[d].commits
  <2>1. d \in Devices /\ old \in SUBSET Commits /\ cs \in SUBSET Commits
    BY <1>11 DEF AddCommits, TypeOK, DevicesOK, Binding
  <2>2. /\ DOMAIN devices' = DOMAIN devices \cup {d} /\ devices'[d].commits = old \cup cs
        /\ \A e \in DOMAIN devices : e # d => devices'[e] = devices[e]
    BY <1>11 DEF AddCommits, SetCommits
  <2>3. Rights' = (Rights \ Abstract!RightsTo(d))
                    \cup ({d} \X {p \in Preimages : Sha256(p) \in old \cup cs})
    BY <2>1, <2>2, RightsOfDevice
  <2>4. Abstract!RightsTo(d) = {d} \X {p \in Preimages : Sha256(p) \in old}
    BY <1>11, <2>1 DEF AddCommits, Abstract!RightsTo, Rights
  <2>5. Underway' = Underway /\ Arrived' = Arrived /\ Asked' = Asked
    BY <1>11 DEF AddCommits, Underway, Arrived, Asked, Queued, OwnMessage
  <2>6. Calls' = Calls
    BY <1>11, Zenon DEF AddCommits, Calls, CallOf, Routing, OwnMessage
  <2>7. Abstract!Grant(d, {p \in Preimages : Sha256(p) \in old \cup cs})
    BY <1>11, <2>3, <2>5, <2>6 DEF Abstract!Grant, AddCommits
  <2> QED
    BY <2>1, <2>7 DEF Abstract!SNext
\* SEND, up to the claim
<1>12. ASSUME NEW s \in Sessions, NEW d \in Devices, NEW p \in Preimages,
              CheckCache(s, d, p)
       PROVE  Step
  <2>1. Calls[s] = None /\ UNCHANGED <<Rights, Arrived, answered>>
    BY <1>12, CallPlaces, SameRights, SameArrived
    DEF Calls, CheckCache, historyVars, Routing
  <2>2. CASE p \in DOMAIN response_cache /\ response_cache[p] # Expired
    <3>1. Outcome(s, p, SEND_OK, response_cache[p])
      BY <1>12, <2>2 DEF CheckCache
    <3>2. /\ Calls' = [Calls EXCEPT ![s] = CallOf(s)']
          /\ CallOf(s)' = Abstract!Done(p, 0, response_cache[p])
      BY <3>1, OneCall, CallPlaces DEF Outcome, Abstract!Done, SEND_OK
    <3>3. Underway' = Underway /\ Asked' = Asked
      BY <1>12, <3>1, SameUnderway, SameAsked DEF Outcome, CheckCache
    <3>4. response_cache[p] \in answered[p] /\ answered[p] \subseteq Responses
      BY <2>2 DEF AnswersInv, AnswersAreGenuine, TypeOK, HistoryOK
    <3>5. Abstract!Succeed(s, p, response_cache[p])
      BY <2>1, <3>2, <3>3, <3>4 DEF Abstract!Succeed, Abstract!Becomes
    <3> QED
      BY <3>4, <3>5 DEF Abstract!SNext
  <2>3. CASE ~ (p \in DOMAIN response_cache /\ response_cache[p] # Expired)
    <3>1. Goto(s, "claim", [to_id52 |-> d, preimage |-> p])
      BY <1>12, <2>3 DEF CheckCache
    <3>2. /\ Calls' = [Calls EXCEPT ![s] = CallOf(s)']
          /\ CallOf(s)' = Abstract!Opened(d, p)
      BY <3>1, OneCall, CallPlaces DEF Abstract!Opened
    <3>3. Underway' = Underway /\ Asked' = Asked
      BY <1>12, <3>1, SameUnderway, SameAsked DEF CheckCache
    <3>4. Abstract!Open(s, d, p)
      BY <2>1, <3>2, <3>3 DEF Abstract!Open, Abstract!Becomes
    <3> QED
      BY <3>4 DEF Abstract!SNext
  <2> QED
    BY <2>2, <2>3
\* A claim that is refused
<1>13. ASSUME NEW s \in Sessions, pc[s] = "claim"
       PROVE  /\ local[s].to_id52 \in Devices /\ local[s].preimage \in Preimages
              /\ Calls[s] = Abstract!Opened(local[s].to_id52, local[s].preimage)
  BY <1>13, CallPlaces DEF Calls, Abstract!Opened, TypeOK, TasksOK, Fits
<1>14. ASSUME NEW s \in Sessions, NEW p, NEW status, NEW payload,
              Outcome(s, p, status, payload)
       PROVE  Calls' = [Calls EXCEPT ![s] = Abstract!Done(p, status, payload)]
  <2>1. /\ Calls' = [Calls EXCEPT ![s] = CallOf(s)']
        /\ CallOf(s)' = Abstract!Done(p, status, payload)
    BY <1>14, OneCall, CallPlaces DEF Outcome, Abstract!Done
  <2> QED
    BY <2>1
<1>15. ASSUME NEW s \in Sessions, NotConnected(s) \/ StaleEntry(s)
       PROVE  Step
  <2> DEFINE d == local[s].to_id52
             p == local[s].preimage
  <2>1. /\ pc[s] = "claim" /\ Outcome(s, p, 1, None)
        /\ UNCHANGED <<queue, pending, delivered, answered>>
    BY <1>15 DEF NotConnected, StaleEntry, routerVars, historyVars,
                 SEND_ERR_NOT_CONNECTED
  <2>2. Underway' = Underway /\ Arrived' = Arrived /\ Asked' = Asked
    BY <2>1, SameUnderway, SameArrived, SameAsked DEF Outcome
  <2>3. Rights' = Rights \ Abstract!RightsTo(d)
    <3>1. CASE StaleEntry(s)
      BY <3>1, RightsDropped DEF StaleEntry
    <3>2. CASE NotConnected(s)
      BY <3>2 DEF NotConnected, Rights, Abstract!RightsTo, routerVars
    <3> QED
      BY <1>15, <3>1, <3>2
  <2>4. Abstract!NotThere(s, d, p)
    BY <1>13, <1>14, <2>1, <2>2, <2>3 DEF Abstract!NotThere, Abstract!Becomes
  <2> QED
    BY <1>13, <2>1, <2>4 DEF Abstract!SNext
<1>16. ASSUME NEW s \in Sessions, InvalidPreimage(s)
       PROVE  Step
  <2> DEFINE d == local[s].to_id52
             p == local[s].preimage
  <2>1. /\ pc[s] = "claim" /\ Outcome(s, p, 2, None)
        /\ UNCHANGED <<queue, pending, delivered, answered, devices>>
    BY <1>16 DEF InvalidPreimage, routerVars, historyVars, SEND_ERR_INVALID_PREIMAGE
  <2>2. Underway' = Underway /\ Arrived' = Arrived /\ Asked' = Asked /\ Rights' = Rights
    BY <2>1, SameUnderway, SameArrived, SameAsked, SameRights DEF Outcome
  <2>3. <<d, p>> \notin Rights
    BY <1>16 DEF InvalidPreimage, Rights
  <2>4. Abstract!NoRight(s, d, p)
    BY <1>13, <1>14, <2>1, <2>2, <2>3 DEF Abstract!NoRight, Abstract!Becomes
  <2> QED
    BY <1>13, <2>1, <2>4 DEF Abstract!SNext
\* The claim
<1>17. ASSUME NEW s \in Sessions, ClaimCommit(s)
       PROVE  Step
  <2> DEFINE d == local[s].to_id52
             p == local[s].preimage
             m == Message(next_msg_id, p)
  <2>1. /\ pc[s] = "claim" /\ d \in Devices /\ p \in Preimages
        /\ d \in DOMAIN devices /\ Sha256(p) \in devices[d].commits
        /\ devices[d].commits \in SUBSET Commits
        /\ Calls[s] = Abstract!Opened(d, p)
        /\ UNCHANGED <<queue, pending, delivered, answered>>
    BY <1>13, <1>17 DEF ClaimCommit, TypeOK, DevicesOK, Binding
  <2>2. PICK sender : Goto(s, "pend", [to_id52 |-> d, preimage |-> p,
                                       msg_id |-> next_msg_id, sender |-> sender])
    BY <1>17 DEF ClaimCommit
  <2>3. /\ pc'[s] = "pend" /\ local'[s].msg_id = next_msg_id /\ local'[s].preimage = p
        /\ \A t \in Sessions : t # s => pc'[t] = pc[t] /\ local'[t] = local[t]
    BY <2>2 DEF Goto, TypeOK, TasksOK
  <2>4. /\ OwnMessage(s)' = m
        /\ \A t \in Sessions : t # s => OwnMessage(t)' = OwnMessage(t)
        /\ \A t \in Sessions : Queued(t)' = Queued(t)
    BY <2>1, <2>3 DEF OwnMessage, Queued
  <2>5. Calls' = [Calls EXCEPT ![s] = CallOf(s)'] /\ CallOf(s)' = Abstract!Sent(m)
    <3>1. Routing(s)'
      BY <2>3 DEF Routing
    <3> QED
      BY <2>2, <2>4, <3>1, OneCall, CallPlaces DEF Abstract!Sent
  <2>6. Underway' = Underway \cup {m}
    <3>1. \A x : x \in Underway' <=> x \in Underway \/ x = m
      <4> HIDE DEF d, p, m
      <4> QED
        BY <2>1, <2>3, <2>4, UnderwayMembers
    <3> QED
      BY <3>1
  <2>7. Asked' = Asked \cup {m}
    <3>1. \A x : x \in Asked' <=> x \in Asked \/ x = m
      <4> HIDE DEF d, p, m
      <4> QED
        BY <2>1, <2>3, <2>4, AskedMembers
    <3> QED
      BY <3>1
  <2>8. next_msg_id \notin DOMAIN issued
    <3>1. next_msg_id \in Nat
      BY DEF TypeOK, AnswersOK, MsgIds
    <3> QED
      BY <3>1 DEF RoutingInv, IdsAgree
  <2>9. next_msg_id \notin Arrived
    BY <2>8 DEF Arrived, RoutingInv, IdsAgree
  <2>10. \A y \in Underway \cup Asked : y.msg_id # next_msg_id
    <3> SUFFICES ASSUME NEW y \in Underway \cup Asked
                 PROVE  y.msg_id \in DOMAIN issued
      BY <2>8
    <3>1. CASE y \in Underway
      <4>1. PICK t \in Sessions :
              \/ pc[t] \in {"pend", "enqueue"} /\ y = OwnMessage(t)
              \/ y \in Queued(t)
        BY <3>1, UnderwayMembers
      <4> QED
        BY <4>1 DEF RoutingInv, IdsAgree, Issued, Routing, OwnMessage, Message
    <3>2. CASE y \in Asked
      <4>1. \/ \E t \in Sessions : pc[t] = "pend" /\ y = OwnMessage(t)
            \/ \E k \in DOMAIN pending : y = Message(k, pending[k])
        BY <3>2, AskedMembers
      <4> QED
        BY <4>1 DEF RoutingInv, IdsAgree, Issued, Routing, OwnMessage, Message
    <3> QED
      BY <3>1, <3>2
  <2>11. Rights' = Rights \ {<<d, p>>}
    <3>1. /\ DOMAIN devices' = DOMAIN devices
          /\ devices'[d].commits = devices[d].commits \ {Sha256(p)}
          /\ \A e \in DOMAIN devices : e # d => devices'[e] = devices[e]
      BY <1>17, <2>1 DEF ClaimCommit, SetCommits
    <3>2. \A q \in Preimages : Sha256(q) = Sha256(p) <=> q = p
      BY DEF Sha256
    <3> HIDE DEF d, p
    <3>3. ASSUME NEW u \in Devices \X Preimages
          PROVE  u \in Rights' <=> u \in Rights /\ u # <<d, p>>
      BY <2>1, <3>1, <3>2 DEF Rights
    <3>4. Rights' \subseteq Devices \X Preimages /\ Rights \subseteq Devices \X Preimages
      BY DEF Rights
    <3> QED
      BY <3>3, <3>4
  <2>12. <<d, p>> \in Rights
    BY <2>1 DEF Rights
  <2>13. m \in Asked' /\ m.msg_id = next_msg_id
    BY <2>7 DEF Message
  <2>14. m = [msg_id |-> next_msg_id, preimage |-> p]
    BY DEF Message
  <2> HIDE DEF d, p, m
  <2>15. Abstract!Use(s, d, p, next_msg_id)
    BY <2>1, <2>5, <2>6, <2>7, <2>9, <2>10, <2>11, <2>12, <2>14, SameArrived
    DEF Abstract!Use, Abstract!Becomes
  <2>16. \E x \in Asked' : Abstract!Use(s, d, p, x.msg_id)
    BY <2>13, <2>15
  <2> QED
    BY <2>1, <2>16 DEF Abstract!SNext
\* A message moves, and the call stays open.
<1>18. ASSUME NEW s \in Sessions, NEW place, NEW l, Goto(s, place, l),
              Routing(s), place \in {"enqueue", "withdraw", "await"},
              l.msg_id = local[s].msg_id, l.preimage = local[s].preimage
       PROVE  Calls' = Calls /\ OwnMessage(s)' = OwnMessage(s)
  <2>1. Routing(s)' /\ OwnMessage(s)' = OwnMessage(s)
    BY <1>18, OneCall DEF Routing, OwnMessage
  <2>2. CallOf(s)' = CallOf(s)
    BY <1>18, <2>1, CallPlaces
  <2> QED
    BY <1>18, <2>1, <2>2, OneCall DEF Calls
<1>19. ASSUME NEW s \in Sessions, RegisterPending(s)
       PROVE  Step
  <2> DEFINE m == local[s].msg_id
  <2>1. /\ pc[s] = "pend" /\ pc'[s] = "enqueue"
        /\ \A t \in Sessions : t # s => pc'[t] = pc[t] /\ local'[t] = local[t]
        /\ UNCHANGED <<queue, devices, delivered, answered>>
    BY <1>19 DEF RegisterPending, historyVars, Goto, TypeOK, TasksOK
  <2>2. Calls' = Calls /\ OwnMessage(s)' = OwnMessage(s)
    BY <1>18, <1>19 DEF RegisterPending, Routing
  <2>3. \A t \in Sessions : Queued(t)' = Queued(t) /\ OwnMessage(t)' = OwnMessage(t)
    BY <2>1, <2>2 DEF Queued, OwnMessage
  <2>4. \A x : x \in Underway' <=> x \in Underway
    BY <2>1, <2>3, UnderwayMembers
  <2>5. /\ m \notin DOMAIN pending /\ DOMAIN pending' = DOMAIN pending \cup {m}
        /\ OwnMessage(s) = Message(m, pending'[m])
        /\ \A k \in DOMAIN pending : pending'[k] = pending[k]
    BY <1>19, <2>1 DEF RegisterPending, Put, OwnMessage, RoutingInv, NotQueuedYet
  <2> HIDE DEF m
  <2>6. ASSUME NEW x
        PROVE  x \in Asked' <=> x \in Asked
    <3>1. (\E k \in DOMAIN pending' : x = Message(k, pending'[k]))
            <=> \/ x = OwnMessage(s)
                \/ \E k \in DOMAIN pending : x = Message(k, pending[k])
      BY <2>5
    <3>2. (\E t \in Sessions : pc[t] = "pend" /\ x = OwnMessage(t))
            <=> \/ x = OwnMessage(s)
                \/ \E t \in Sessions : pc'[t] = "pend" /\ x = OwnMessage(t)'
      BY <2>1, <2>3
    <3> QED
      BY <3>1, <3>2, AskedMembers
  <2>7. Underway' = Underway /\ Asked' = Asked
    BY <2>4, <2>6
  <2> QED
    BY <1>1, <2>1, <2>2, <2>7, SameRights, SameArrived
<1>20. ASSUME NEW s \in Sessions, QueueDelivery(s)
       PROVE  Step
  <2> DEFINE r == local[s].sender
             x == OwnMessage(s)
  <2>1. /\ pc[s] = "enqueue" /\ r \in Sessions /\ x \in PendingDelivery
        /\ queue \in [Sessions -> Seq(PendingDelivery)]
        /\ Goto(s, "await", local[s])
        /\ UNCHANGED <<devices, pending, delivered, answered>>
    BY <1>20 DEF QueueDelivery, TypeOK, TasksOK, Fits, ConnectionsOK, PendingDelivery,
                 OwnMessage, Message, routerVars, historyVars
  <2>2. /\ pc'[s] = "await" /\ local'[s] = local[s]
        /\ \A t \in Sessions : t # s => pc'[t] = pc[t] /\ local'[t] = local[t]
    BY <2>1 DEF Goto, TypeOK, TasksOK
  <2>3. /\ queue'[r] = Append(queue[r], x)
        /\ \A t \in Sessions : t # r => queue'[t] = queue[t]
    BY <1>20, <2>1 DEF QueueDelivery, OwnMessage, Message
  <2>4. Calls' = Calls /\ Asked' = Asked
    BY <1>18, <2>1, SameAsked DEF Routing
  <2>5. \A t \in Sessions : OwnMessage(t)' = OwnMessage(t)
    BY <2>2 DEF OwnMessage
  <2>6. x = OwnMessage(s)
    OBVIOUS
  <2> HIDE DEF r, x
  <2>7. \A t \in Sessions : t # r => Queued(t)' = Queued(t)
    BY <2>3 DEF Queued
  <2>8. ASSUME NEW t \in Sessions, t = r
        PROVE  Queued(t)' = Queued(t) \cup {x}
    <3>1. queue[t] \in Seq(PendingDelivery) /\ queue'[t] = Append(queue[t], x)
      BY <2>1, <2>3, <2>8
    <3>2. {Append(queue[t], x)[i] : i \in DOMAIN Append(queue[t], x)}
            = {queue[t][i] : i \in DOMAIN queue[t]} \cup {x}
      BY <2>1, <3>1, AppendDeliveries
    <3> QED
      BY <3>1, <3>2 DEF Queued
  <2>9. ASSUME NEW y
        PROVE  (\E t \in Sessions : y \in Queued(t)')
                 <=> y = x \/ \E t \in Sessions : y \in Queued(t)
    <3>1. ASSUME NEW t \in Sessions, y \in Queued(t)'
          PROVE  y = x \/ y \in Queued(t)
      BY <2>7, <2>8, <3>1
    <3>2. ASSUME NEW t \in Sessions, y \in Queued(t)
          PROVE  y \in Queued(t)'
      BY <2>7, <2>8, <3>2
    <3>3. ASSUME NEW t \in Sessions, t = r, y = x
          PROVE  y \in Queued(t)'
      BY <2>8, <3>3
    <3> QED
      BY <2>1, <3>1, <3>2, <3>3
  <2>10. ASSUME NEW y
         PROVE  (\E t \in Sessions : pc[t] \in {"pend", "enqueue"} /\ y = OwnMessage(t))
                  <=> \/ y = x
                      \/ \E t \in Sessions :
                           pc'[t] \in {"pend", "enqueue"} /\ y = OwnMessage(t)'
    BY <2>1, <2>2, <2>5, <2>6
  <2>11. ASSUME NEW y
         PROVE  y \in Underway' <=> y \in Underway
    BY <2>9, <2>10, UnderwayMembers
  <2>12. Underway' = Underway
    BY <2>11
  <2> QED
    BY <1>1, <2>1, <2>4, <2>12, SameRights, SameArrived
<1>21. ASSUME NEW s \in Sessions, QueueClosed(s)
       PROVE  Step
  <2>1. Underway' \subseteq Underway
    BY <1>21, QuietSteps, FewerUnderway
  <2>2. /\ pc[s] = "enqueue" /\ Goto(s, "withdraw", local[s])
        /\ UNCHANGED <<devices, pending, delivered, answered>>
    BY <1>21 DEF QueueClosed, routerVars, historyVars
  <2>3. Calls' = Calls
    BY <1>18, <2>2 DEF Routing
  <2> QED
    BY <1>2, <2>1, <2>2, <2>3, SameRights, SameArrived, SameAsked
\* The call ends.
<1>22. ASSUME NEW s \in Sessions, Routing(s)
       PROVE  /\ local[s].preimage \in Preimages
              /\ OwnMessage(s).msg_id = local[s].msg_id
              /\ OwnMessage(s).preimage = local[s].preimage
              /\ Calls[s] = Abstract!Sent(OwnMessage(s))
              /\ Abstract!Waits(s) /\ Calls[s].message = OwnMessage(s)
  <2>1. Calls[s] = Abstract!Sent(OwnMessage(s))
    BY <1>22, CallPlaces DEF Calls, Abstract!Sent
  <2>2. local[s].preimage \in Preimages /\ local[s].msg_id \in Nat
    BY <1>22 DEF Routing, TypeOK, TasksOK, Fits, MsgIds
  <2>3. /\ OwnMessage(s) \in Abstract!Messages
        /\ OwnMessage(s).msg_id = local[s].msg_id
        /\ OwnMessage(s).preimage = local[s].preimage
    BY <2>2 DEF OwnMessage, Message, Abstract!Messages
  <2> QED
    BY <2>1, <2>2, <2>3 DEF Abstract!Waits, Abstract!Sent
<1>23. ASSUME NEW s \in Sessions, TimeOut(s) \/ ReceiveResponse(s)
       PROVE  /\ Routing(s)
              /\ UNCHANGED <<Rights, Underway, Arrived, Asked, answered>>
              /\ TimeOut(s) => Outcome(s, local[s].preimage, 3, None)
              /\ ReceiveResponse(s) =>
                   Outcome(s, local[s].preimage, 0, local[s].response)
  <2>1. /\ pc[s] = "await" /\ UNCHANGED <<queue, devices, pending, delivered, answered>>
        /\ TimeOut(s) => Outcome(s, local[s].preimage, 3, None)
        /\ ReceiveResponse(s) => Outcome(s, local[s].preimage, 0, local[s].response)
    BY <1>23 DEF TimeOut, ReceiveResponse, routerVars, historyVars,
                 SEND_OK, SEND_ERR_TIMEOUT
  <2>2. Underway' = Underway /\ Asked' = Asked
    BY <1>23, <2>1, SameUnderway, SameAsked DEF Outcome
  <2> QED
    BY <2>1, <2>2, SameRights, SameArrived DEF Routing
<1>24. ASSUME NEW s \in Sessions, TimeOut(s)
       PROVE  Step
  <2>1. Abstract!TimedOut(s)
    BY <1>14, <1>22, <1>23, <1>24 DEF Abstract!TimedOut, Abstract!Becomes
  <2> QED
    BY <2>1 DEF Abstract!SNext
<1>25. ASSUME NEW s \in Sessions, WithdrawPending(s)
       PROVE  Step
  <2> DEFINE x == OwnMessage(s)
  <2>1. /\ pc[s] = "withdraw" /\ Outcome(s, local[s].preimage, 4, None)
        /\ UNCHANGED <<queue, devices, delivered, answered>>
        /\ pc'[s] = "result"
        /\ \A t \in Sessions : t # s => pc'[t] = pc[t] /\ local'[t] = local[t]
    BY <1>25 DEF WithdrawPending, historyVars, SEND_ERR_DISCONNECTED, Outcome, Goto,
                 TypeOK, TasksOK
  <2>2. Routing(s)
    BY <2>1 DEF Routing
  <2>3. /\ DOMAIN pending' = DOMAIN pending \ {x.msg_id}
        /\ \A k \in DOMAIN pending' : pending'[k] = pending[k]
        /\ x.msg_id \in DOMAIN pending => x = Message(x.msg_id, pending[x.msg_id])
    BY <1>22, <1>25, <2>2
    DEF WithdrawPending, Drop, Restrict, RoutingInv, IdsAgree, Issued, OwnMessage, Message
  <2>4. ASSUME NEW t \in Sessions, pc[t] \in {"pend", "enqueue"}
        PROVE  t # s /\ OwnMessage(t) # x
    BY <1>22, <2>1, <2>2, <2>4 DEF Routing, RoutingInv, OwnIds
  <2>5. /\ \A t \in Sessions : x \notin Queued(t)
        /\ x.msg_id \notin Arrived
    <3> DEFINE id == x.msg_id
    <3> HIDE DEF x
    <3>1. id = local[s].msg_id
      BY <1>22, <2>2 DEF x
    <3> HIDE DEF id
    <3>2. \A t \in Sessions : /\ \A y \in Queued(t) : y.msg_id # id
                              /\ <<t, id>> \notin delivered
      BY <2>1, <3>1 DEF RoutingInv, NotQueuedYet
    <3>3. ASSUME NEW y \in delivered
          PROVE  y[2] # id
      <4>1. y \in Sessions \X MsgIds
        BY DEF TypeOK, HistoryOK
      <4> QED
        BY <3>2, <4>1
    <3>4. id \notin Arrived
      BY <3>3 DEF Arrived
    <3> QED
      BY <3>2, <3>4 DEF id
  <2>6. x \notin Underway
    BY <2>4, <2>5, UnderwayMembers
  <2>7. Underway' = Underway
    BY <2>1, SameUnderway DEF Outcome
  <2>8. ASSUME NEW y
        PROVE  y \in Asked' <=> y \in Asked /\ y # x
    <3>1. (\E k \in DOMAIN pending' : y = Message(k, pending'[k]))
            <=> y # x /\ \E k \in DOMAIN pending : y = Message(k, pending[k])
      BY <2>3 DEF Message
    <3>2. (\E t \in Sessions : pc'[t] = "pend" /\ y = OwnMessage(t)')
            <=> y # x /\ \E t \in Sessions : pc[t] = "pend" /\ y = OwnMessage(t)
      BY <2>1, <2>4 DEF OwnMessage
    <3> QED
      BY <3>1, <3>2, AskedMembers
  <2>9. Asked' = Asked \ {x}
    BY <2>8
  <2>10. Calls' = [Calls EXCEPT ![s] = Abstract!Done(x.preimage, 4, None)]
    BY <1>14, <1>22, <2>1, <2>2
  <2>11. Abstract!Waits(s) /\ Calls[s].message = x
    BY <1>22, <2>2
  <2> HIDE DEF x
  <2>12. Abstract!Disconnected(s)
    BY <2>1, <2>5, <2>6, <2>7, <2>9, <2>10, <2>11, SameRights, SameArrived
    DEF Abstract!Disconnected, Abstract!Becomes
  <2> QED
    BY <2>12 DEF Abstract!SNext
<1>26. ASSUME NEW s \in Sessions, ReceiveResponse(s)
       PROVE  Step
  <2> DEFINE p == local[s].preimage
             r == local[s].response
  <2>1. r \in answered[p]
    BY <1>26 DEF ReceiveResponse, AnswersInv, HeldAnswers, Waiting
  <2>2. p \in Preimages
    BY <1>22, <1>23, <1>26
  <2>3. r \in Responses
    BY <2>1, <2>2 DEF TypeOK, HistoryOK
  <2>4. Abstract!Succeed(s, p, r)
    BY <1>14, <1>22, <1>23, <1>26, <2>1 DEF Abstract!Succeed, Abstract!Becomes
  <2> QED
    BY <2>2, <2>3, <2>4 DEF Abstract!SNext
<1>27. ASSUME NEW s \in Sessions, WriteResult(s)
       PROVE  Step
  <2>1. Underway' \subseteq Underway
    BY <1>27, QuietSteps, FewerUnderway
  <2>2. PICK place \in {"select", "ended"} : Goto(s, place, None)
    BY <1>27 DEF WriteResult, Finish, End
  <2>3. /\ pc[s] = "result" /\ UNCHANGED <<devices, pending, delivered, answered>>
    BY <1>27 DEF WriteResult, routerVars, historyVars
  <2>4. Calls' = [Calls EXCEPT ![s] = CallOf(s)'] /\ CallOf(s)' = None
    BY <2>2, OneCall, CallPlaces
  <2>5. /\ local[s].preimage \in Preimages /\ local[s].status \in 0..4
        /\ local[s].payload \in Responses \cup {None}
        /\ Calls[s] = Abstract!Done(local[s].preimage, local[s].status, local[s].payload)
    BY <1>27, CallPlaces DEF Calls, WriteResult, TypeOK, TasksOK, Fits, Abstract!Done
  <2>6. Asked' = Asked
    BY <2>2, <2>3, SameAsked
  <2>7. Abstract!Close(s)
    BY <2>1, <2>3, <2>4, <2>5, <2>6, SameRights, SameArrived
    DEF Abstract!Close, Abstract!Becomes
  <2> QED
    BY <2>7 DEF Abstract!SNext
\* ACK: whoever names the message, it is answered once.
<1>28. ASSUME NEW s \in Sessions, NEW m \in 1 .. MaxSends, NEW r \in Responses,
              TakePending(s, m, r)
       PROVE  Step
  <2>1. CASE m \notin DOMAIN pending
    <3>1. UNCHANGED <<pc, local, queue, devices, delivered, answered>>
      BY <1>28, <2>1 DEF TakePending
    <3>2. DOMAIN pending' = DOMAIN pending /\ \A k \in DOMAIN pending : pending'[k] = pending[k]
      BY <1>28, <2>1 DEF TakePending, Drop, Restrict
    <3>3. Calls' = Calls
      BY <3>1, Zenon DEF Calls, CallOf, Routing, OwnMessage
    <3>4. Underway' = Underway
      BY <3>1 DEF Underway, OwnMessage, Queued
    <3>5. ASSUME NEW y
          PROVE  y \in Asked' <=> y \in Asked
      BY <3>1, <3>2, AskedMembers DEF OwnMessage
    <3>6. Asked' = Asked
      BY <3>5
    <3> QED
      BY <1>1, <3>1, <3>3, <3>4, <3>6, SameRights, SameArrived
  <2>2. CASE m \in DOMAIN pending
    <3> DEFINE x == Message(m, pending[m])
               l == [msg_id |-> m, preimage |-> pending[m], response |-> r]
    <3>1. /\ pc[s] = "select" /\ Goto(s, "cache", l)
          /\ UNCHANGED <<queue, devices, delivered>>
          /\ answered' = [answered EXCEPT ![issued[m]] = @ \cup {r}]
      BY <1>28, <2>2 DEF TakePending
    <3>2. /\ DOMAIN pending' = DOMAIN pending \ {m}
          /\ \A k \in DOMAIN pending' : pending'[k] = pending[k]
      BY <1>28 DEF TakePending, Drop, Restrict
    <3>3. issued[m] = x.preimage /\ x.msg_id = m
      BY <2>2 DEF RoutingInv, IdsAgree, Message
    <3>4. Calls' = Calls /\ Underway' = Underway
      BY <1>3, <3>1, SameUnderway DEF Routing
    <3>5. \A t \in Sessions : /\ pc'[t] = "pend" <=> pc[t] = "pend"
                              /\ pc[t] = "pend" => local'[t] = local[t]
      BY <3>1 DEF Goto, TypeOK, TasksOK
    <3>6. ASSUME NEW t \in Sessions, pc[t] = "pend"
          PROVE  OwnMessage(t) # x
      BY <2>2, <3>6 DEF RoutingInv, NotQueuedYet, OwnMessage, Message
    <3>7. ASSUME NEW y
          PROVE  y \in Asked' <=> y \in Asked /\ y # x
      <4>1. (\E k \in DOMAIN pending' : y = Message(k, pending'[k]))
              <=> y # x /\ \E k \in DOMAIN pending : y = Message(k, pending[k])
        BY <3>2 DEF Message
      <4>2. (\E t \in Sessions : pc'[t] = "pend" /\ y = OwnMessage(t)')
              <=> y # x /\ \E t \in Sessions : pc[t] = "pend" /\ y = OwnMessage(t)
        BY <3>5, <3>6 DEF OwnMessage
      <4> QED
        BY <4>1, <4>2, AskedMembers
    <3>8. Asked' = Asked \ {x} /\ x \in Asked
      BY <2>2, <3>7, AskedMembers
    <3> HIDE DEF x, l
    <3>9. Abstract!Answer(x, r)
      BY <3>1, <3>3, <3>4, <3>8, SameRights, SameArrived DEF Abstract!Answer
    <3> QED
      BY <3>8, <3>9 DEF Abstract!SNext
  <2> QED
    BY <2>1, <2>2
\* The answer goes to the cache and to the waiting task.
<1>29. ASSUME NEW s \in Sessions, CacheResponse(s)
       PROVE  Step
  <2>1. /\ pc[s] = "cache" /\ Goto(s, "reply", local[s])
        /\ UNCHANGED <<queue, devices, pending, delivered, answered>>
    BY <1>29 DEF CacheResponse, historyVars
  <2>2. Underway' = Underway /\ Asked' = Asked /\ Calls' = Calls
    BY <1>3, <2>1, SameUnderway, SameAsked DEF Routing
  <2> QED
    BY <1>1, <2>1, <2>2, SameRights, SameArrived
<1>30. ASSUME NEW s \in Sessions, SendResponse(s)
       PROVE  Step
  <2>1. /\ pc[s] = "reply" /\ pc'[s] = "select"
        /\ \A t \in Sessions : t # s => pc'[t] = pc[t]
        /\ UNCHANGED <<queue, devices, pending, delivered, answered>>
    BY <1>30 DEF SendResponse, routerVars, historyVars, TypeOK, TasksOK
  <2>2. ASSUME NEW t \in Sessions, t # s
        PROVE  \/ local'[t] = local[t]
               \/ Routing(t) /\ OwnMessage(t)' = OwnMessage(t)
    <3>1. CASE Waiting(t) /\ local[t].msg_id = local[s].msg_id
      <4>1. local[t] \in [preimage : Preimages, msg_id : MsgIds,
                          sender : Sessions, response : Responses \cup {None}]
        BY <3>1 DEF Waiting, TypeOK, TasksOK, Fits
      <4>2. local'[t] = [local[t] EXCEPT !.response = local[s].response]
        BY <1>30, <2>2, <3>1 DEF SendResponse
      <4> QED
        BY <3>1, <4>1, <4>2 DEF Waiting, Routing, OwnMessage
    <3>2. CASE ~ (Waiting(t) /\ local[t].msg_id = local[s].msg_id)
      BY <1>30, <2>2, <3>2 DEF SendResponse
    <3> QED
      BY <3>1, <3>2
  <2>3. ASSUME NEW t \in Sessions, t # s
        PROVE  OwnMessage(t)' = OwnMessage(t)
    BY <2>2, <2>3 DEF OwnMessage
  <2>4. ASSUME NEW t \in Sessions
        PROVE  CallOf(t)' = CallOf(t)
    <3>1. CASE t = s
      BY <2>1, <3>1, CallPlaces
    <3>2. CASE t # s /\ local'[t] = local[t]
      BY <2>1, <3>2, Zenon DEF CallOf, Routing, OwnMessage
    <3>3. CASE t # s /\ Routing(t)
      <4>1. Routing(t)'
        BY <2>1, <3>3 DEF Routing
      <4> QED
        BY <2>3, <3>3, <4>1, CallPlaces
    <3> QED
      BY <2>2, <3>1, <3>2, <3>3
  <2>5. \A t \in Sessions : Queued(t)' = Queued(t)
    BY <2>1 DEF Queued
  <2>6. \A x : x \in Underway' <=> x \in Underway
    BY <2>1, <2>3, <2>5, UnderwayMembers
  <2>7. \A x : x \in Asked' <=> x \in Asked
    BY <2>1, <2>3, AskedMembers
  <2>8. Calls' = Calls /\ Underway' = Underway /\ Asked' = Asked
    BY <2>4, <2>6, <2>7 DEF Calls
  <2> QED
    BY <1>1, <2>1, <2>8, SameRights, SameArrived
\* Time and failure
<1>31. CASE UNCHANGED <<pc, local, queue, devices, pending, delivered, answered>>
  <2>1. Calls' = Calls
    BY <1>31, Zenon DEF Calls, CallOf, Routing, OwnMessage
  <2>2. Underway' = Underway /\ Asked' = Asked
    BY <1>31 DEF Underway, Asked, Queued, OwnMessage
  <2> QED
    BY <1>1, <1>31, <2>1, <2>2, SameRights, SameArrived
<1>32. CASE Restart
  <2>1. Rights' = {} /\ Arrived' = {}
    BY <1>32 DEF Restart, EmptyMap, Rights, Arrived
  <2>2. \A t \in Sessions : pc'[t] \in {"new", "ended"} /\ Queued(t)' = {}
    BY <1>32 DEF Restart, Queued
  <2>3. Underway' = {}
    BY <2>2, UnderwayMembers
  <2>4. DOMAIN pending' = {}
    BY <1>32 DEF Restart, EmptyMap
  <2>5. Asked' = {}
    BY <2>2, <2>4, AskedMembers
  <2>6. Calls' = [t \in Sessions |-> None]
    BY <2>2, CallPlaces DEF Calls
  <2>7. Abstract!Crash
    BY <1>32, <2>1, <2>3, <2>5, <2>6 DEF Abstract!Crash, Restart
  <2> QED
    BY <2>7 DEF Abstract!SNext
<1>33. ASSUME NEW s \in Sessions, ClientStep(s)
       PROVE  Step
  BY <1>4, <1>5, <1>8, <1>10, <1>11, <1>12, <1>28, <1>33 DEF ClientStep
<1>34. ASSUME NEW s \in Sessions, HandlerStep(s)
       PROVE  Step
  BY <1>9, <1>15, <1>16, <1>17, <1>19, <1>20, <1>21, <1>24, <1>25, <1>26, <1>27, <1>29,
     <1>30, <1>34 DEF HandlerStep
<1>35. ASSUME NEW p \in Preimages, Expire(p)
       PROVE  Step
  BY <1>31, <1>35 DEF Expire, historyVars
<1>36. CASE UNCHANGED vars
  BY <1>31, <1>36 DEF vars, routerVars, historyVars
<1>37. ASSUME NEW s \in Sessions, SendDelivery(s)
       PROVE  Step
  BY <1>5, <1>6, <1>37
<1> QED
  BY <1>32, <1>33, <1>34, <1>35, <1>36, <1>37 DEF Next, Running, Quiet

LEMMA ServiceInit ==
  ASSUME Init
  PROVE  Abstract!SInit
<1>1. Rights = {} /\ Arrived = {}
  BY DEF Init, EmptyMap, Rights, Arrived
<1>2. Underway = {} /\ Asked = {}
  BY DEF Init, EmptyMap, Underway, Asked, Queued
<1>3. Calls = [s \in Sessions |-> None]
  BY DEF Init, Calls, CallOf, Routing
<1> QED
  BY <1>1, <1>2, <1>3 DEF Abstract!SInit, Init

\* Every behaviour of the relay is one of the service: rights are used once,
\* each message is delivered and answered at most once, whoever acknowledges
\* it, and a call ends as it should, under every interleaving of sessions,
\* disconnections, timeouts and restarts.
THEOREM RelayImplementsService == Spec => ImplementsService
<1>1. Init => Abstract!SInit
  BY ServiceInit
<1>2. TypeOK /\ RoutingInv /\ OneCopy /\ AnswersInv /\ [Next]_vars
        => [Abstract!SNext]_(Abstract!svars)
  BY ServiceStep
<1> QED
  BY <1>1, <1>2, RelayTypes, RelayRouting, RelayOneCopy, RelayHeldAnswers, PTL
  DEF Spec, ImplementsService, Abstract!Service

(***************************************************************************)
(* The cache                                                               *)
(***************************************************************************)

\* A session that is signing in anew has no identity yet.
Unnamed == \A s \in Sessions : pc[s] = "register" => id52[s] = None

LEMMA UnnamedStep ==
  ASSUME TypeOK, Unnamed, [Next]_vars
  PROVE  Unnamed'
<1> USE DEF Unnamed, routerVars, historyVars
<1>1. ASSUME NEW s \in Sessions, NEW place, NEW l, Goto(s, place, l),
             \A t \in Sessions : t # s => id52'[t] = id52[t],
             place # "register" \/ id52'[s] = None
      PROVE  Unnamed'
  BY <1>1 DEF Goto, TypeOK, TasksOK
<1>2. CASE UNCHANGED <<pc, id52>>
  BY <1>2
<1>3. ASSUME NEW s \in Sessions, End(s)
      PROVE  Unnamed'
  BY <1>1, <1>3 DEF End, TypeOK, ConnectionsOK
<1>4. ASSUME NEW s \in Sessions, NEW d, NEW cs, NEW rs, Register(s, d, cs, rs)
      PROVE  Unnamed'
  BY <1>1, <1>4 DEF Register, Finish, TypeOK, ConnectionsOK
<1>5. ASSUME NEW s \in Sessions, NEW d, NEW cs, NEW rs, Unregister(s, d, cs, rs)
      PROVE  Unnamed'
  BY <1>1, <1>5 DEF Unregister, TypeOK, ConnectionsOK
<1>6. ASSUME NEW s \in Sessions, id52' = id52,
             \E place \in Locations \ {"register"} : \E l : Goto(s, place, l)
      PROVE  Unnamed'
  BY <1>1, <1>6
<1>7. ASSUME NEW s \in Sessions, ClientStep(s) \/ SendDelivery(s)
      PROVE  Unnamed'
  BY <1>2, <1>3, <1>4, <1>5, <1>6, <1>7
  DEF ClientStep, SendDelivery, Accept, Disconnect, HandleIAm, AddCommits, CheckCache,
      Outcome, TakePending, Locations
<1>8. ASSUME NEW s \in Sessions, SendResponse(s)
      PROVE  Unnamed'
  BY <1>8 DEF SendResponse, TypeOK, TasksOK
<1>9. ASSUME NEW s \in Sessions, HandlerStep(s)
      PROVE  Unnamed'
  BY <1>3, <1>4, <1>6, <1>8, <1>9
  DEF HandlerStep, Reregister, NotConnected, StaleEntry, InvalidPreimage, ClaimCommit,
      RegisterPending, QueueDelivery, QueueClosed, WithdrawPending, ReceiveResponse, TimeOut,
      WriteResult, CacheResponse, Outcome, Finish, Locations
<1>10. CASE Restart
  BY <1>10 DEF Restart
<1> QED
  BY <1>2, <1>7, <1>9, <1>10 DEF Next, Running, Quiet, Expire, vars

\* An answer in the cache is neither lost nor replaced by another, unless it is
\* handed to a SEND with its preimage, expires, is followed by the answer of
\* another ACK or upload for the preimage, or goes with the process.
THEOREM RelayKeepsAnswers == Spec => AnswerKept
<1> DEFINE Kept ==
      \A p \in DOMAIN response_cache :
        response_cache[p] # Expired =>
          \/ p \in DOMAIN response_cache' /\ response_cache'[p] \in {response_cache[p], Expired}
          \/ \E s \in Sessions : HandedOut(s, p) \/ Acknowledged(s, p) \/ UploadedBy(s, p)
          \/ \A s \in Sessions : pc'[s] \in {"new", "ended"}
<1>1. ASSUME TypeOK, RoutingInv, Unnamed, [Next]_vars
      PROVE  [Kept]_vars
  <2> USE RelayAssumption
  <2>1. ASSUME response_cache' = response_cache
        PROVE  Kept
    BY <2>1
  <2>2. ASSUME NEW s \in Sessions, NEW d \in Devices, NEW q \in Preimages,
               CheckCache(s, d, q)
        PROVE  Kept
    <3> SUFFICES ASSUME NEW p \in DOMAIN response_cache, response_cache[p] # Expired
                 PROVE  \/ /\ p \in DOMAIN response_cache'
                           /\ response_cache'[p] = response_cache[p]
                        \/ HandedOut(s, p)
      OBVIOUS
    <3>1. /\ DOMAIN response_cache' = DOMAIN response_cache \ {q}
          /\ \A k \in DOMAIN response_cache' : response_cache'[k] = response_cache[k]
      BY <2>2 DEF CheckCache, Drop, Restrict
    <3>2. CASE p # q
      BY <3>1, <3>2
    <3>3. CASE p = q
      <4>1. pc[s] = "select" /\ Outcome(s, p, SEND_OK, response_cache[p])
        BY <2>2, <3>3 DEF CheckCache
      <4>2. /\ pc' = [pc EXCEPT ![s] = "result"]
            /\ local' = [local EXCEPT ![s] = [preimage |-> p, status |-> SEND_OK,
                                             payload |-> response_cache[p]]]
        BY <4>1 DEF Outcome, Goto
      <4> QED
        BY <1>1, <3>1, <3>3, <4>1, <4>2 DEF HandedOut, TypeOK, TasksOK
    <3> QED
      BY <3>2, <3>3
  <2>3. ASSUME NEW s \in Sessions, NEW d \in Devices, NEW cs, NEW rs, id52[s] = None,
               DOMAIN rs \subseteq Preimages, Register(s, d, cs, rs)
        PROVE  Kept
    <3> SUFFICES ASSUME NEW p \in DOMAIN response_cache
                 PROVE  \/ /\ p \in DOMAIN response_cache'
                           /\ response_cache'[p] = response_cache[p]
                        \/ UploadedBy(s, p)
      OBVIOUS
    <3>1. id52'[s] # None
      BY <1>1, <2>3 DEF Register, TypeOK, ConnectionsOK
    <3>2. CASE p \in DOMAIN rs
      <4>1. p \in DOMAIN response_cache' /\ response_cache'[p] = rs[p]
        BY <2>3, <3>2 DEF Register
      <4>2. rs[p] \in answered'[p]
        BY <2>3, <3>2 DEF Register, Uploaded
      <4> QED
        BY <2>3, <3>1, <4>1, <4>2 DEF UploadedBy
    <3>3. CASE p \notin DOMAIN rs
      BY <2>3, <3>3 DEF Register
    <3> QED
      BY <3>2, <3>3
  <2>4. ASSUME NEW s \in Sessions, NEW d \in Devices, NEW cs, NEW rs \in Uploads,
               HandleIAm(s, d, cs, rs)
        PROVE  Kept
    <3>1. DOMAIN rs \subseteq Preimages
      OBVIOUS
    <3> QED
      BY <2>3, <2>4, <3>1 DEF HandleIAm
  <2>5. ASSUME NEW s \in Sessions, Reregister(s)
        PROVE  Kept
    <3>1. /\ local[s].id52 \in Devices /\ DOMAIN local[s].responses \subseteq Preimages
          /\ id52[s] = None
      BY <1>1, <2>5 DEF Reregister, Unnamed, TypeOK, TasksOK, Fits
    <3> QED
      BY <2>3, <2>5, <3>1 DEF Reregister
  <2>6. ASSUME NEW s \in Sessions, CacheResponse(s)
        PROVE  Kept
    <3> SUFFICES ASSUME NEW p \in DOMAIN response_cache
                 PROVE  \/ /\ p \in DOMAIN response_cache'
                           /\ response_cache'[p] = response_cache[p]
                        \/ Acknowledged(s, p)
      OBVIOUS
    <3>1. CASE p = local[s].preimage
      <4>1. pc[s] = "cache" /\ pc'[s] = "reply"
        BY <1>1, <2>6 DEF CacheResponse, Goto, TypeOK, TasksOK
      <4>2. Issued(local[s])
        BY <1>1, <4>1 DEF RoutingInv, IdsAgree, Completing
      <4>3. p \in DOMAIN response_cache' /\ response_cache'[p] = local[s].response
        BY <2>6, <3>1 DEF CacheResponse, Put
      <4> QED
        BY <3>1, <4>1, <4>2, <4>3 DEF Acknowledged, Issued
    <3>2. CASE p # local[s].preimage
      BY <2>6, <3>2 DEF CacheResponse, Put
    <3> QED
      BY <3>1, <3>2
  <2>7. CASE Restart
    BY <2>7 DEF Restart
  <2>8. ASSUME NEW p \in Preimages, Expire(p)
        PROVE  Kept
    BY <2>8 DEF Expire
  <2> HIDE DEF Kept
  <2>9. ASSUME NEW s \in Sessions, ClientStep(s)
        PROVE  Kept
    BY <2>1, <2>2, <2>4, <2>9
    DEF ClientStep, Accept, Disconnect, Unregister, AddCommits, TakePending, routerVars
  <2>10. ASSUME NEW s \in Sessions, HandlerStep(s) \/ SendDelivery(s)
         PROVE  Kept
    BY <2>1, <2>5, <2>6, <2>10
    DEF HandlerStep, SendDelivery, NotConnected, StaleEntry, InvalidPreimage, ClaimCommit,
        RegisterPending, QueueDelivery, QueueClosed, WithdrawPending, ReceiveResponse,
        TimeOut, WriteResult, SendResponse, routerVars
  <2> QED
    BY <1>1, <2>7, <2>8, <2>9, <2>10 DEF Next, Running, Quiet
<1>2. Init => Unnamed
  BY DEF Init, Unnamed
<1>3. TypeOK /\ Unnamed /\ [Next]_vars => Unnamed'
  BY UnnamedStep
<1>4. Spec => [][Kept]_vars
  <2> HIDE DEF Kept
  <2> QED
    BY <1>1, <1>2, <1>3, RelayTypes, RelayRouting, PTL DEF Spec
<1> QED
  BY <1>4 DEF AnswerKept

=============================================================================
