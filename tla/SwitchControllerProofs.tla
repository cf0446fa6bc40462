------------------------ MODULE SwitchControllerProofs ------------------------
(***************************************************************************)
(* Theorems about SwitchController, for any number of commands that run at *)
(* the same time, of switches and networks, and any values drawn.          *)
(***************************************************************************)
EXTENDS SwitchController, FiniteSetTheorems, TLAPS

(***************************************************************************)
(* Inductive invariants                                                    *)
(***************************************************************************)

\* OneIdentity: without a race only one process makes a key, as long as there is none
\* in the file, and every process that is past the key file has the one in it.
IdentityInv ==
  /\ OneIdentity
  /\ ~ raced =>
       /\ \A p \in Processes : at[p] \in {"state"} \cup Loaded => key[p] = identity_key
       /\ \A p \in Processes : At(p, "newkey") => identity_key = None
       /\ \A p \in Processes : At(p, "keyfile") => identity_key = Empty
       /\ \A p, q \in Processes :
            {at[p], at[q]} \subseteq {"newkey", "keyfile"} => p = q

\* ProvisionIntact: an undisturbed provision has its ssid in place before its password.
ProvisionInv ==
  /\ ProvisionIntact
  /\ \A p \in undisturbed :
       At(p, "password") => ble[cmd[p].device].ssid = cmd[p].network

(***************************************************************************)
(* Types                                                                   *)
(***************************************************************************)

\* The values drawn stay drawn.
LEMMA DrawnGrows ==
  ASSUME fresh \in Nat \ {0}, fresh' \in {fresh, fresh + 1}
  PROVE  /\ Drawn \subseteq Drawn' /\ fresh' \in Nat \ {0}
         /\ fresh' = fresh + 1 => fresh \in Drawn'
<1>1. fresh' \in Nat \ {0} /\ fresh <= fresh'
  OBVIOUS
<1>2. /\ Drawn = {n \in Nat : 1 <= n /\ n < fresh}
      /\ Drawn' = {n \in Nat : 1 <= n /\ n < fresh'}
  BY <1>1 DEF Drawn
<1> QED
  BY <1>1, <1>2

\* A process that does not move keeps its types.
LEMMA StayType ==
  ASSUME NEW q \in Processes, CommandOK(q), ProcessOK(q), Drawn \subseteq Drawn',
         DOMAIN given \subseteq DOMAIN given',
         at'[q] = at[q], cmd'[q] = cmd[q], key'[q] = key[q],
         state'[q] = state[q], call'[q] = call[q]
  PROVE  CommandOK(q)' /\ ProcessOK(q)'
<1>1. CommandOK(q)'
  BY DEF CommandOK, At
<1>2. ProcessOK(q)'
  BY DEF ProcessOK, IsState
<1> QED
  BY <1>1, <1>2

\* The processes that end have nothing left.
LEMMA EndType ==
  ASSUME ProcessesOK, NEW ps \in SUBSET Processes, End(ps), Drawn \subseteq Drawn',
         DOMAIN given \subseteq DOMAIN given'
  PROVE  ProcessesOK'
<1>1. /\ at' \in [Processes -> Places]
      /\ DOMAIN cmd' = Processes /\ DOMAIN key' = Processes
      /\ DOMAIN state' = Processes /\ DOMAIN call' = Processes
  BY DEF End, Ended, ProcessesOK, Places
<1>2. ASSUME NEW q \in Processes
      PROVE  CommandOK(q)' /\ ProcessOK(q)'
  <2>1. CASE q \in ps
    BY <2>1 DEF End, Ended, CommandOK, ProcessOK, At, Loaded, BlePlaces
  <2>2. CASE q \notin ps
    BY <2>2, StayType DEF End, Ended, ProcessesOK
  <2> QED
    BY <2>1, <2>2
<1>3. /\ stale' \subseteq {q \in Processes : at'[q] \in Loaded}
      /\ undisturbed' \subseteq {q \in Processes : at'[q] \in {"password", "command"}}
  BY DEF End, Ended, ProcessesOK
<1> QED
  BY <1>1, <1>2, <1>3 DEF ProcessesOK

\* When one process moves, its own new values decide.
LEMMA MoveType ==
  ASSUME ProcessesOK, NEW p \in Processes, NEW place \in Places, Goto(p, place),
         Drawn \subseteq Drawn', DOMAIN given \subseteq DOMAIN given',
         DOMAIN cmd' = Processes, DOMAIN key' = Processes,
         DOMAIN state' = Processes, DOMAIN call' = Processes,
         \A q \in Processes \ {p} : /\ cmd'[q] = cmd[q] /\ key'[q] = key[q]
                                    /\ state'[q] = state[q] /\ call'[q] = call[q],
         CommandOK(p)', ProcessOK(p)',
         stale' \subseteq stale \cup {q \in Processes \ {p} : at[q] \in Loaded},
         p \in stale' => place \in Loaded,
         undisturbed' \subseteq undisturbed \cup {p},
         p \in undisturbed' => place \in {"password", "command"}
  PROVE  ProcessesOK'
<1>1. /\ at' \in [Processes -> Places] /\ at'[p] = place
      /\ \A q \in Processes \ {p} : at'[q] = at[q]
  BY DEF Goto, ProcessesOK
<1>2. ASSUME NEW q \in Processes
      PROVE  CommandOK(q)' /\ ProcessOK(q)'
  <2>1. CASE q # p
    BY <1>1, <2>1, StayType DEF ProcessesOK
  <2> QED
    BY <2>1
<1>3. /\ stale' \subseteq {q \in Processes : at'[q] \in Loaded}
      /\ undisturbed' \subseteq {q \in Processes : at'[q] \in {"password", "command"}}
  BY <1>1 DEF ProcessesOK
<1> QED
  BY <1>1, <1>2, <1>3 DEF ProcessesOK

\* Every step keeps the types.
LEMMA TypeStep ==
  ASSUME TypeOK, [Next]_vars
  PROVE  TypeOK'
<1> USE ControllerAssumption
<1> USE DEF TypeOK, homeVars, procVars, switchVars, bleVars
\* What the steps have in common.
<1>1. ASSUME fresh' \in {fresh, fresh + 1}
      PROVE  /\ Drawn \subseteq Drawn' /\ fresh' \in Nat \ {0}
             /\ fresh' = fresh + 1 => fresh \in Drawn'
  BY <1>1, DrawnGrows DEF HomeOK
<1>2. ASSUME UNCHANGED homeVars, fresh' \in {fresh, fresh + 1}
      PROVE  HomeOK'
  BY <1>1, <1>2 DEF HomeOK, IsState
<1>3. ASSUME UNCHANGED <<switchVars, ble>>, fresh' \in {fresh, fresh + 1}
      PROVE  SwitchesOK'
  BY <1>1, <1>3 DEF SwitchesOK
<1>4. ASSUME UNCHANGED <<given, response_cache>>, fresh' \in {fresh, fresh + 1}
      PROVE  TokensOK'
  BY <1>1, <1>4 DEF TokensOK
<1>5. ASSUME NEW ps \in SUBSET Processes, End(ps), fresh' \in {fresh, fresh + 1},
             UNCHANGED given
      PROVE  ProcessesOK'
  BY <1>1, <1>5, EndType
\* The start
<1>6. ASSUME NEW p \in Processes, NEW c \in CliCommands, Start(p, c)
      PROVE  TypeOK'
  <2> DEFINE place == IF c.name = "provision" THEN "ssid"
                      ELSE IF c.name = "reset" THEN "command" ELSE "key"
  <2>1. /\ Goto(p, place) /\ place \in Places /\ at'[p] = place /\ cmd'[p] = c
        /\ key'[p] = key[p] /\ state'[p] = state[p] /\ call'[p] = call[p]
    BY <1>6 DEF Start, Goto, Places, BlePlaces, ProcessesOK
  <2>2. CommandOK(p)'
    <3>1. /\ c.name = "provision" => c.device \in Switches /\ c.network \in Networks
          /\ c.name = "reset" => c.device \in Switches
          /\ c.name = "pair" => c.token \in DOMAIN given
      BY DEF CliCommands
    <3> QED
      BY <1>6, <2>1, <3>1 DEF Start, CommandOK, At, BlePlaces
  <2>3. ProcessOK(p)'
    BY <1>6, <2>1 DEF Start, ProcessesOK, ProcessOK, At, Loaded
  <2>4. ProcessesOK'
    BY <1>1, <1>6, <2>1, <2>2, <2>3, MoveType DEF Start, ProcessesOK, At, Loaded
  <2> QED
    BY <1>2, <1>3, <1>4, <1>6, <2>4 DEF Start
\* The steps of a process that change neither the switches nor the tokens.
<1>7. ASSUME NEW p \in Processes, LoadOrCreate(p)
      PROVE  TypeOK'
  <2>1. fresh' \in {fresh, fresh + 1} /\ UNCHANGED <<homeVars, switchVars, ble, response_cache, given>>
    BY <1>7 DEF LoadOrCreate
  <2>2. CommandOK(p) /\ ProcessOK(p)
    BY DEF ProcessesOK
  <2>3. CASE End({p})
    BY <1>2, <1>3, <1>4, <1>5, <2>1, <2>3
  <2>4. CASE /\ \E place \in {"newkey", "state"} : Goto(p, place)
             /\ \E k \in Drawn' : key' = [key EXCEPT ![p] = k]
             /\ UNCHANGED <<cmd, state, call, stale, undisturbed>>
    <3>1. PICK place \in {"newkey", "state"} : Goto(p, place)
      BY <2>4
    <3>2. at'[p] = place /\ key'[p] \in Drawn' /\ place \in Places
      BY <2>4, <3>1 DEF Goto, ProcessesOK, Places
    <3>3. CommandOK(p)'
      BY <1>7, <2>1, <2>2, <2>4, <3>2 DEF LoadOrCreate, CommandOK, At, BlePlaces
    <3>4. ProcessOK(p)'
      BY <1>7, <2>2, <2>4, <3>2 DEF LoadOrCreate, ProcessOK, At, Loaded
    <3>5. ProcessesOK'
      BY <1>1, <1>7, <2>1, <2>4, <3>1, <3>2, <3>3, <3>4, MoveType
      DEF LoadOrCreate, ProcessesOK, At, Loaded
    <3> QED
      BY <1>2, <1>3, <1>4, <2>1, <3>5
  <2>5. End({p}) \/ /\ \E place \in {"newkey", "state"} : Goto(p, place)
                    /\ \E k \in Drawn' : key' = [key EXCEPT ![p] = k]
                    /\ UNCHANGED <<cmd, state, call, stale, undisturbed>>
    BY <1>1, <1>7 DEF LoadOrCreate, HomeOK
  <2> QED
    BY <2>3, <2>4, <2>5
<1>8. ASSUME NEW p \in Processes, OpenKeyFile(p) \/ WriteKeyFile(p)
      PROVE  TypeOK'
  <2>1. PICK place \in {"keyfile", "state"} : Goto(p, place)
    BY <1>8 DEF OpenKeyFile, WriteKeyFile
  <2>2. /\ at[p] \in {"newkey", "keyfile"} /\ CommandOK(p) /\ ProcessOK(p) /\ fresh' = fresh
        /\ UNCHANGED <<state_json, procVars, switchVars, bleVars, response_cache, given, stale>>
    BY <1>8 DEF OpenKeyFile, WriteKeyFile, ProcessesOK, At
  <2>3. at'[p] = place /\ place \in Places
    BY <2>1 DEF Goto, ProcessesOK, Places
  <2>4. CommandOK(p)'
    BY <2>2, <2>3 DEF CommandOK, At, BlePlaces
  <2>5. ProcessOK(p)' /\ key[p] \in Drawn
    BY <1>1, <2>2, <2>3 DEF ProcessOK, Loaded
  <2>6. ProcessesOK'
    BY <1>1, <2>1, <2>2, <2>3, <2>4, <2>5, MoveType DEF ProcessesOK, Loaded
  <2>7. HomeOK'
    BY <1>1, <1>8, <2>2, <2>5 DEF OpenKeyFile, WriteKeyFile, HomeOK, IsState
  <2> QED
    BY <1>3, <1>4, <2>2, <2>6, <2>7
<1>9. ASSUME NEW p \in Processes, LoadFails(p) \/ ListPeers(p) \/ Stops(p)
      PROVE  TypeOK'
  <2>1. End({p}) /\ UNCHANGED <<homeVars, switchVars, ble, response_cache, fresh, given>>
    BY <1>9 DEF LoadFails, ListPeers, Loads, Stops
  <2> QED
    BY <1>2, <1>3, <1>4, <1>5, <2>1
<1>10. ASSUME state_json \notin {None, Empty, Garbled}
       PROVE  IsState(state_json)
  BY <1>10 DEF HomeOK
<1>11. IsState(NoState)
  BY DEF NoState, DeviceState, EmptyMap, IsState
<1>12. ASSUME state_json \notin {Empty, Garbled}
       PROVE  IsState(LoadedState)
  BY <1>10, <1>11, <1>12 DEF LoadedState
<1>13. ASSUME NEW p \in Processes, PairBegins(p) \/ SendBegins(p)
       PROVE  TypeOK'
  <2>1. PICK place \in {"open1", "call"} : Goto(p, place)
    BY <1>13 DEF PairBegins, SendBegins
  <2>2. /\ At(p, "state") /\ CommandOK(p) /\ ProcessOK(p) /\ IsState(LoadedState)
        /\ UNCHANGED <<homeVars, switchVars, ble, response_cache, fresh, given,
                       cmd, key, stale, undisturbed>>
    BY <1>12, <1>13 DEF PairBegins, SendBegins, Loads, ProcessesOK
  <2>3. /\ IsState(state'[p]) /\ call'[p] \in [to : Drawn, preimage : Drawn]
        /\ DOMAIN state' = Processes /\ DOMAIN call' = Processes
        /\ \A q \in Processes \ {p} : state'[q] = state[q] /\ call'[q] = call[q]
    <3>1. CASE PairBegins(p)
      <4>1. cmd[p].token \in DOMAIN given
        BY <2>2, <3>1 DEF PairBegins, Loads, CommandOK, At
      <4>2. /\ state' = [state EXCEPT ![p] =
                 DeviceState(LoadedState.pending_peers \cup {given[cmd[p].token]},
                             LoadedState.peers)]
            /\ call' = [call EXCEPT ![p] = [to |-> given[cmd[p].token],
                                            preimage |-> cmd[p].token]]
        BY <3>1 DEF PairBegins
      <4>3. given[cmd[p].token] \in Drawn /\ cmd[p].token \in Drawn
        BY <4>1 DEF TokensOK
      <4> QED
        BY <2>2, <4>2, <4>3 DEF IsState, DeviceState, ProcessesOK
    <3>2. CASE SendBegins(p)
      <4>1. /\ state' = [state EXCEPT ![p] = LoadedState]
            /\ \E d \in DOMAIN LoadedState.peers :
                 call' = [call EXCEPT ![p] = [to |-> d, preimage |-> LoadedState.peers[d]]]
        BY <3>2 DEF SendBegins
      <4> QED
        BY <2>2, <4>1 DEF IsState, ProcessesOK
    <3> QED
      BY <1>13, <3>1, <3>2
  <2>4. at'[p] = place /\ place \in Places
    BY <2>1 DEF Goto, ProcessesOK, Places, Loaded
  <2>5. CommandOK(p)'
    BY <2>2, <2>4 DEF CommandOK, At, BlePlaces
  <2>6. ProcessOK(p)'
    BY <2>2, <2>3, <2>4 DEF ProcessOK, At, Loaded, IsState, Drawn
  <2>7. ProcessesOK'
    BY <1>1, <2>1, <2>2, <2>3, <2>4, <2>5, <2>6, MoveType DEF ProcessesOK, At, Loaded
  <2> QED
    BY <1>2, <1>3, <1>4, <2>2, <2>7
\* Saving
<1>14. ASSUME NEW p \in Processes, OpenStateFile(p)
       PROVE  TypeOK'
  <2>1. PICK place \in {"write1", "write2"} : Goto(p, place)
    BY <1>14 DEF OpenStateFile
  <2>2. /\ at[p] \in {"open1", "open2"} /\ CommandOK(p) /\ ProcessOK(p)
        /\ stale' = stale \cup Overtaken(p) /\ state_json' = Empty
        /\ UNCHANGED <<identity_key, procVars, switchVars, bleVars, response_cache, fresh, given>>
    BY <1>14 DEF OpenStateFile, ProcessesOK
  <2>3. at'[p] = place /\ place \in Places
    BY <2>1 DEF Goto, ProcessesOK, Places, Loaded
  <2>4. CommandOK(p)'
    BY <2>2, <2>3 DEF CommandOK, At, BlePlaces
  <2>5. ProcessOK(p)'
    BY <2>2, <2>3 DEF ProcessOK, Loaded, IsState, Drawn
  <2>6. ProcessesOK'
    BY <1>1, <2>1, <2>2, <2>3, <2>4, <2>5, MoveType DEF ProcessesOK, Overtaken, Loaded
  <2>7. HomeOK'
    BY <1>1, <2>2 DEF HomeOK
  <2> QED
    BY <1>3, <1>4, <2>2, <2>6, <2>7
<1>15. ASSUME NEW p \in Processes, WriteStateFile(p)
       PROVE  TypeOK'
  <2>1. /\ at[p] \in {"write1", "write2"} /\ CommandOK(p) /\ ProcessOK(p)
        /\ state_json' \in Overwrites(state_json, state[p])
        /\ UNCHANGED <<identity_key, switchVars, ble, response_cache, fresh, given>>
    BY <1>15 DEF WriteStateFile, ProcessesOK
  <2>2. HomeOK'
    <3>1. IsState(state[p])
      BY <2>1 DEF ProcessOK, Loaded
    <3>2. state_json' \in {state[p], Garbled}
      BY <2>1 DEF Overwrites
    <3> QED
      BY <1>1, <2>1, <3>1, <3>2 DEF HomeOK, IsState
  <2>3. CASE At(p, "write1")
    <3>1. Goto(p, "call") /\ UNCHANGED <<procVars, undisturbed>> /\ stale' = stale \cup Overtaken(p)
      BY <1>15, <2>3 DEF WriteStateFile
    <3>2. at'[p] = "call" /\ "call" \in Places
      BY <3>1 DEF Goto, ProcessesOK, Places, Loaded
    <3>3. CommandOK(p)'
      BY <2>1, <3>1, <3>2 DEF CommandOK, At, BlePlaces
    <3>4. ProcessOK(p)'
      BY <2>1, <3>1, <3>2 DEF ProcessOK, Loaded, IsState, Drawn
    <3>5. ProcessesOK'
      BY <1>1, <2>1, <3>1, <3>2, <3>3, <3>4, MoveType DEF ProcessesOK, Overtaken, Loaded
    <3> QED
      BY <1>3, <1>4, <2>1, <2>2, <3>5
  <2>4. CASE ~ At(p, "write1")
    <3>1. Ended({p}) /\ stale' = (stale \cup Overtaken(p)) \ {p}
      BY <1>15, <2>4 DEF WriteStateFile
    <3>2. Goto(p, "idle") /\ at'[p] = "idle" /\ "idle" \in Places
      BY <3>1 DEF Ended, Goto, ProcessesOK, Places
    <3>3. CommandOK(p)' /\ ProcessOK(p)'
      BY <3>1, <3>2 DEF Ended, CommandOK, ProcessOK, At, Loaded, BlePlaces
    <3>4. ProcessesOK'
      BY <1>1, <2>1, <3>1, <3>2, <3>3, MoveType DEF Ended, ProcessesOK, Overtaken
    <3> QED
      BY <1>3, <1>4, <2>1, <2>2, <3>4
  <2> QED
    BY <2>3, <2>4
\* The call
<1>16. ASSUME NEW p \in Processes, NEW next \in Drawn', At(p, "call"), Answered(p, next),
              fresh' \in {fresh, fresh + 1}, UNCHANGED given
       PROVE  ProcessesOK'
  <2> DEFINE d == call[p].to
             pending == IF cmd[p].name = "pair" THEN state[p].pending_peers \ {d}
                                                ELSE state[p].pending_peers
             peers == Put(state[p].peers, d, next)
  <2>1. /\ CommandOK(p) /\ ProcessOK(p) /\ Goto(p, "open2")
        /\ state' = [state EXCEPT ![p] = DeviceState(pending, peers)]
        /\ UNCHANGED <<cmd, key, call, stale, undisturbed>>
    BY <1>16 DEF Answered, ProcessesOK
  <2>2. at'[p] = "open2" /\ "open2" \in Places
    BY <2>1 DEF Goto, ProcessesOK, Places, Loaded
  <2>3. IsState(state[p]) /\ d \in Drawn
    BY <1>16, <2>1 DEF ProcessOK, At, Loaded
  <2>4. /\ pending \subseteq Drawn' /\ DOMAIN peers \subseteq Drawn'
        /\ \A e \in DOMAIN peers : peers[e] \in Drawn'
    BY <1>1, <1>16, <2>3 DEF IsState, Put
  <2>5. state'[p].pending_peers = pending /\ state'[p].peers = peers
    <3> HIDE DEF pending, peers
    <3> QED
      BY <2>1 DEF DeviceState, ProcessesOK
  <2> HIDE DEF pending, peers
  <2>6. ProcessOK(p)'
    BY <1>1, <1>16, <2>1, <2>2, <2>4, <2>5 DEF ProcessOK, At, Loaded, IsState
  <2>7. CommandOK(p)'
    BY <2>2 DEF CommandOK, At, BlePlaces
  <2>8. ProcessesOK'
    BY <1>1, <1>16, <2>1, <2>2, <2>6, <2>7, MoveType DEF ProcessesOK, At, Loaded
  <2> QED
    BY <2>8
<1>17. ASSUME NEW p \in Processes, NEW s \in Switches, Delivered(p, s)
       PROVE  TypeOK'
  <2>1. /\ At(p, "call") /\ call[p].preimage \in Drawn /\ key[p] \in Drawn
        /\ fresh' = fresh + 1 /\ fresh \in Drawn' /\ Drawn \subseteq Drawn'
        /\ UNCHANGED <<homeVars, id52, ble, given>>
    BY <1>1, <1>17 DEF Delivered, ProcessesOK, ProcessOK, At, Loaded
  <2>2. ProcessesOK'
    BY <1>5, <1>16, <1>17, <2>1 DEF Delivered
  <2>3. SwitchesOK'
    <3>1. \E k \in Drawn : issued' = [issued EXCEPT ![s] = Put(@, k, fresh)]
      BY <1>17, <2>1 DEF Delivered, Honours, SwitchesOK
    <3>2. invites' = invites \/ invites' = [invites EXCEPT ![s] = @ \ {call[p].preimage}]
      BY <1>17 DEF Delivered, Honours
    <3>3. DOMAIN issued' = Switches
      BY <3>1 DEF SwitchesOK
    <3>4. ASSUME NEW t \in Switches
          PROVE  /\ DOMAIN issued'[t] \subseteq Drawn'
                 /\ \A k \in DOMAIN issued'[t] : issued'[t][k] \in Drawn'
      <4>1. CASE t = s
        BY <2>1, <3>1, <4>1 DEF SwitchesOK, Put
      <4>2. CASE t # s
        BY <2>1, <3>1, <4>2 DEF SwitchesOK
      <4> QED
        BY <4>1, <4>2
    <3>5. invites' \in [Switches -> SUBSET Drawn']
      BY <2>1, <3>2 DEF SwitchesOK
    <3>6. id52' \in [Switches -> Drawn']
      BY <2>1 DEF SwitchesOK
    <3> QED
      BY <2>1, <3>3, <3>4, <3>5, <3>6 DEF SwitchesOK
  <2>4. TokensOK'
    BY <1>17, <2>1 DEF Delivered, TokensOK, Put
  <2> QED
    BY <1>2, <2>1, <2>2, <2>3, <2>4
<1>18. ASSUME NEW q, fresh' = fresh, given' = given, response_cache' = Drop(response_cache, q)
       PROVE  TokensOK'
  BY <1>1, <1>18 DEF TokensOK, Drop, Restrict
<1>19. ASSUME NEW p \in Processes, CachedResponse(p)
       PROVE  TypeOK'
  <2>1. /\ At(p, "call") /\ response_cache[call[p].preimage] \in Drawn'
        /\ UNCHANGED <<homeVars, switchVars, ble, fresh, given>>
    BY <1>1, <1>19 DEF CachedResponse, TokensOK
  <2>2. ProcessesOK'
    BY <1>5, <1>16, <1>19, <2>1 DEF CachedResponse
  <2> QED
    BY <1>2, <1>3, <1>18, <1>19, <2>1, <2>2 DEF CachedResponse
\* BLE
<1>20. ASSUME NEW s \in Switches, NEW b,
              b \in [ssid : Networks \cup {None}, password : Networks \cup {None},
                     command : BleCommands],
              ble' = [ble EXCEPT ![s] = b], UNCHANGED <<switchVars, fresh>>
       PROVE  SwitchesOK'
  BY <1>1, <1>20 DEF SwitchesOK
<1>21. ASSUME NEW p \in Processes, WriteSsid(p) \/ WritePassword(p)
       PROVE  TypeOK'
  <2> DEFINE s == cmd[p].device
             n == cmd[p].network
  <2>1. PICK place \in {"password", "command"} : Goto(p, place)
    BY <1>21 DEF WriteSsid, WritePassword
  <2>2. /\ at[p] \in {"ssid", "password"} /\ CommandOK(p) /\ ProcessOK(p)
        /\ undisturbed' \subseteq undisturbed \cup {p}
        /\ UNCHANGED <<homeVars, procVars, switchVars, response_cache, fresh, given, stale>>
    BY <1>21 DEF WriteSsid, WritePassword, ProcessesOK, At
  <2>3. at'[p] = place /\ place \in Places
    BY <2>1 DEF Goto, ProcessesOK, Places, BlePlaces
  <2>4. CommandOK(p)'
    BY <2>2, <2>3 DEF CommandOK, At, BlePlaces
  <2>5. ProcessOK(p)'
    BY <2>2, <2>3 DEF ProcessOK, Loaded
  <2>6. ProcessesOK'
    BY <1>1, <2>1, <2>2, <2>3, <2>4, <2>5, MoveType DEF ProcessesOK, Loaded
  <2>7. s \in Switches /\ n \in Networks
    BY <2>2 DEF CommandOK, BlePlaces
  <2>8. ble[s] \in [ssid : Networks \cup {None}, password : Networks \cup {None},
                    command : BleCommands]
    BY <2>7 DEF SwitchesOK
  <2>9. ble' = [ble EXCEPT ![s] = [ble[s] EXCEPT !.ssid = n]]
          \/ ble' = [ble EXCEPT ![s] = [ble[s] EXCEPT !.password = n]]
    BY <1>21 DEF WriteSsid, WritePassword
  <2> HIDE DEF s, n
  <2>10. SwitchesOK'
    <3>1. /\ [ble[s] EXCEPT !.ssid = n] \in
                 [ssid : Networks \cup {None}, password : Networks \cup {None},
                  command : BleCommands]
          /\ [ble[s] EXCEPT !.password = n] \in
                 [ssid : Networks \cup {None}, password : Networks \cup {None},
                  command : BleCommands]
      BY <2>7, <2>8
    <3> QED
      BY <1>20, <2>2, <2>7, <2>9, <3>1
  <2> QED
    BY <1>2, <1>4, <2>2, <2>6, <2>10
<1>22. ASSUME NEW p \in Processes, WriteCommand(p)
       PROVE  TypeOK'
  <2> DEFINE s == cmd[p].device
  <2>1. /\ s \in Switches /\ End({p})
        /\ UNCHANGED <<homeVars, switchVars, response_cache, fresh, given>>
    BY <1>22 DEF WriteCommand, ProcessesOK, CommandOK, At, BlePlaces
  <2>2. ble[s] \in [ssid : Networks \cup {None}, password : Networks \cup {None},
                    command : BleCommands]
    BY <2>1 DEF SwitchesOK
  <2>3. \/ ble' = ble
        \/ \E c \in BleCommands : ble' = [ble EXCEPT ![s] = [ble[s] EXCEPT !.command = c]]
    <3>1. Reset \in BleCommands /\ Credentials(ble[s].ssid, ble[s].password) \in BleCommands
      BY <2>2 DEF BleCommands
    <3> QED
      BY <1>22, <3>1 DEF WriteCommand
  <2>4. SwitchesOK'
    <3> HIDE DEF s
    <3>1. \A c \in BleCommands : [ble[s] EXCEPT !.command = c] \in
             [ssid : Networks \cup {None}, password : Networks \cup {None},
              command : BleCommands]
      BY <2>2
    <3> QED
      BY <1>3, <1>20, <2>1, <2>3, <3>1
  <2> QED
    BY <1>2, <1>4, <1>5, <2>1, <2>4
<1>23. NoBle \in [ssid : Networks \cup {None}, password : Networks \cup {None},
                  command : BleCommands]
  BY DEF NoBle, BleCommands
<1>24. ASSUME NEW s \in Switches, Restarts(s), fresh' \in {fresh, fresh + 1}, UNCHANGED given
       PROVE  ProcessesOK'
  BY <1>5, <1>24 DEF Restarts
<1>25. ASSUME NEW s \in Switches, TakeProvision(s) \/ PowerLost(s)
       PROVE  TypeOK'
  <2>1. Restarts(s) /\ UNCHANGED <<homeVars, switchVars, response_cache, fresh, given>>
    BY <1>25 DEF TakeProvision, PowerLost
  <2> QED
    BY <1>2, <1>4, <1>20, <1>23, <1>24, <2>1 DEF Restarts
<1>26. ASSUME NEW s \in Switches, TakeReset(s)
       PROVE  TypeOK'
  <2>1. /\ Restarts(s) /\ UNCHANGED <<homeVars, response_cache, given>>
        /\ fresh' = fresh + 1 /\ fresh \in Drawn' /\ Drawn \subseteq Drawn'
    BY <1>1, <1>26 DEF TakeReset
  <2>2. SwitchesOK'
    <3>1. id52' \in [Switches -> Drawn'] /\ invites' \in [Switches -> SUBSET Drawn']
      BY <1>26, <2>1 DEF TakeReset, SwitchesOK
    <3>2. ble' \in [Switches -> [ssid : Networks \cup {None}, password : Networks \cup {None},
                                 command : BleCommands]]
      BY <1>23, <2>1 DEF Restarts, SwitchesOK
    <3>3. /\ DOMAIN issued' = Switches
          /\ \A t \in Switches : /\ DOMAIN issued'[t] \subseteq Drawn'
                                 /\ \A k \in DOMAIN issued'[t] : issued'[t][k] \in Drawn'
      BY <1>26, <2>1 DEF TakeReset, SwitchesOK, EmptyMap
    <3> QED
      BY <3>1, <3>2, <3>3 DEF SwitchesOK
  <2> QED
    BY <1>2, <1>4, <1>24, <2>1, <2>2
\* The world
<1>27. ASSUME UNCHANGED <<at, procVars, stale, undisturbed>>, fresh' \in {fresh, fresh + 1},
              DOMAIN given \subseteq DOMAIN given'
       PROVE  ProcessesOK'
  BY <1>1, <1>27, StayType DEF ProcessesOK
<1>28. ASSUME NEW s \in Switches, Invite(s)
       PROVE  TypeOK'
  <2>1. /\ fresh' = fresh + 1 /\ fresh \in Drawn' /\ Drawn \subseteq Drawn'
        /\ given' = Put(given, fresh, id52[s])
        /\ UNCHANGED <<homeVars, at, procVars, id52, issued, bleVars, response_cache, stale>>
    BY <1>1, <1>28 DEF Invite
  <2>2. ProcessesOK'
    BY <1>27, <2>1 DEF Put
  <2>3. SwitchesOK'
    BY <1>28, <2>1 DEF Invite, SwitchesOK
  <2>4. TokensOK'
    BY <2>1 DEF TokensOK, SwitchesOK, Put
  <2> QED
    BY <1>2, <2>1, <2>2, <2>3, <2>4
<1>29. ASSUME NEW q, Expire(q)
       PROVE  TypeOK'
  BY <1>2, <1>3, <1>18, <1>27, <1>29 DEF Expire
<1>30. CASE UNCHANGED vars
  BY <1>2, <1>3, <1>4, <1>27, <1>30 DEF vars
<1>31. ASSUME NEW p \in Processes, Step(p)
       PROVE  TypeOK'
  BY <1>7, <1>8, <1>9, <1>13, <1>14, <1>15, <1>17, <1>19, <1>21, <1>22, <1>31 DEF Step
<1> QED
  BY <1>6, <1>9, <1>25, <1>26, <1>28, <1>29, <1>30, <1>31 DEF Next, Device

\* Every variable keeps its type, and every key and preimage was drawn.
THEOREM ControllerTypes == Spec => []TypeOK
<1>1. Init => TypeOK
  <2> SUFFICES ASSUME Init
               PROVE  TypeOK
    OBVIOUS
  <2>1. Cardinality(Switches) \in Nat /\ fresh = Cardinality(Switches) + 1
    BY ControllerAssumption, FS_CardinalityType DEF Init
  <2>2. Drawn = 1 .. Cardinality(Switches) /\ fresh \in Nat \ {0}
    BY <2>1 DEF Drawn
  <2>3. HomeOK
    BY <2>2 DEF Init, HomeOK
  <2>4. ProcessesOK
    BY DEF Init, ProcessesOK, CommandOK, ProcessOK, At, Places, Loaded, BlePlaces
  <2>5. SwitchesOK
    BY <2>2 DEF Init, SwitchesOK, NoBle, BleCommands, EmptyMap
  <2>6. TokensOK
    BY DEF Init, TokensOK, EmptyMap
  <2> QED
    BY <2>3, <2>4, <2>5, <2>6 DEF TypeOK
<1>2. TypeOK /\ [Next]_vars => TypeOK'
  BY TypeStep
<1> QED
  BY <1>1, <1>2, PTL DEF Spec

(***************************************************************************)
(* One identity                                                            *)
(***************************************************************************)

\* What no process has been given or told leaves the identity alone.
LEMMA SameIdentity ==
  ASSUME IdentityInv, UNCHANGED <<identity_key, raced>>,
         \A p \in Processes : at'[p] \notin {"idle", "key"} \cup BlePlaces =>
           /\ key'[p] = key[p]
           /\ \/ at'[p] = at[p]
              \/ /\ at[p] \in {"state"} \cup Loaded
                 /\ at'[p] \in {"state"} \cup Loaded,
         \A s \in Switches : DOMAIN issued'[s] \subseteq DOMAIN issued[s]
  PROVE  IdentityInv'
<1>1. OneIdentity'
  BY DEF IdentityInv, OneIdentity
<1>2. ASSUME NEW p \in Processes, at'[p] \in {"newkey", "keyfile"}
      PROVE  at[p] = at'[p]
  BY <1>2 DEF BlePlaces, Loaded
<1>3. ASSUME NEW p \in Processes, at'[p] \in {"state"} \cup Loaded
      PROVE  at[p] \in {"state"} \cup Loaded /\ key'[p] = key[p]
  BY <1>3 DEF BlePlaces, Loaded
<1> QED
  BY <1>1, <1>2, <1>3 DEF IdentityInv, At

\* Every step keeps to one identity, or is raced.
LEMMA IdentityStep ==
  ASSUME TypeOK, IdentityInv, [Next]_vars
  PROVE  IdentityInv'
<1> USE ControllerAssumption
<1> USE DEF TypeOK, homeVars, procVars, switchVars, bleVars
<1>1. Drawn \subseteq Nat /\ None \notin Drawn /\ Empty \notin Drawn
  BY DEF HomeOK, Drawn
<1>2. ASSUME NEW ps \in SUBSET Processes, Ended(ps), UNCHANGED <<identity_key, raced>>,
             \A s \in Switches : DOMAIN issued'[s] \subseteq DOMAIN issued[s]
      PROVE  IdentityInv'
  BY <1>2, SameIdentity DEF Ended
<1>3. ASSUME NEW p \in Processes, NEW place \in Places, Goto(p, place),
             UNCHANGED <<identity_key, raced, key>>,
             \/ place \in {"key"} \cup BlePlaces
             \/ place \in Loaded /\ at[p] \in {"state"} \cup Loaded,
             \A s \in Switches : DOMAIN issued'[s] \subseteq DOMAIN issued[s]
      PROVE  IdentityInv'
  <2>1. \A q \in Processes : at'[q] = IF q = p THEN place ELSE at[q]
    BY <1>3 DEF Goto, ProcessesOK
  <2> QED
    BY <1>3, <2>1, SameIdentity
<1>4. ASSUME NEW p \in Processes, LoadOrCreate(p)
      PROVE  IdentityInv'
  <2>1. CASE End({p}) /\ UNCHANGED raced
    BY <1>2, <1>4, <2>1 DEF LoadOrCreate, End
  <2>2. CASE /\ identity_key \notin {None, Empty} /\ Goto(p, "state")
             /\ key' = [key EXCEPT ![p] = identity_key] /\ UNCHANGED raced
    <3>1. /\ \A q \in Processes : at'[q] = IF q = p THEN "state" ELSE at[q]
          /\ \A q \in Processes : key'[q] = IF q = p THEN identity_key ELSE key[q]
          /\ UNCHANGED <<identity_key, issued>>
      BY <1>4, <2>2 DEF LoadOrCreate, Goto, ProcessesOK
    <3> QED
      BY <2>2, <3>1 DEF IdentityInv, OneIdentity, At
  <2>3. CASE /\ identity_key = None /\ Goto(p, "newkey")
             /\ key' = [key EXCEPT ![p] = fresh]
             /\ raced' = (raced \/ \E q \in Processes : at[q] \in {"newkey", "keyfile"})
    <3>1. /\ \A q \in Processes : at'[q] = IF q = p THEN "newkey" ELSE at[q]
          /\ \A q \in Processes : q # p => key'[q] = key[q]
          /\ UNCHANGED <<identity_key, issued>>
      BY <1>4, <2>3 DEF LoadOrCreate, Goto, ProcessesOK
    <3>2. CASE ~ raced'
      <4>1. ~ raced /\ \A q \in Processes : at[q] \notin {"newkey", "keyfile"}
        BY <2>3, <3>2
      <4>2. OneIdentity'
        BY <3>1, <4>1 DEF IdentityInv, OneIdentity
      <4>3. \A q \in Processes :
              /\ at'[q] \in {"state"} \cup Loaded => key'[q] = identity_key'
              /\ at'[q] = "newkey" => identity_key' = None
              /\ at'[q] # "keyfile"
              /\ at'[q] \in {"newkey", "keyfile"} => q = p
        BY <2>3, <3>1, <4>1 DEF IdentityInv, Loaded
      <4> QED
        BY <4>2, <4>3 DEF IdentityInv, At
    <3>3. CASE raced'
      BY <3>3 DEF IdentityInv, OneIdentity
    <3> QED
      BY <3>2, <3>3
  <2> QED
    BY <1>4, <2>1, <2>2, <2>3 DEF LoadOrCreate
\* While a key is made nobody has one.
<1>5. ASSUME ~ raced, identity_key \in {None, Empty}
      PROVE  /\ \A s \in Switches : DOMAIN issued[s] = {}
             /\ \A p \in Processes : at[p] \notin {"state"} \cup Loaded
  <2>1. ASSUME NEW s \in Switches
        PROVE  DOMAIN issued[s] = {}
    BY <1>1, <1>5 DEF IdentityInv, OneIdentity, SwitchesOK
  <2>2. ASSUME NEW p \in Processes, at[p] \in {"state"} \cup Loaded
        PROVE  FALSE
    BY <1>1, <1>5, <2>2 DEF IdentityInv, ProcessesOK, ProcessOK
  <2> QED
    BY <2>1, <2>2
<1>6. ASSUME NEW p \in Processes, OpenKeyFile(p) \/ WriteKeyFile(p)
      PROVE  IdentityInv'
  <2>1. PICK place \in {"keyfile", "state"} :
          /\ \A q \in Processes : at'[q] = IF q = p THEN place ELSE at[q]
          /\ place = "keyfile" => identity_key' = Empty
          /\ place = "state" => identity_key' = key[p]
    BY <1>6 DEF OpenKeyFile, WriteKeyFile, Goto, ProcessesOK
  <2>2. at[p] \in {"newkey", "keyfile"} /\ UNCHANGED <<key, issued, raced>>
    BY <1>6 DEF OpenKeyFile, WriteKeyFile, At
  <2>3. CASE ~ raced
    <3>1. identity_key \in {None, Empty} /\ \A q \in Processes : at[q] \in {"newkey", "keyfile"} => q = p
      BY <2>2, <2>3 DEF IdentityInv, At
    <3>2. OneIdentity'
      BY <1>5, <2>2, <2>3, <3>1 DEF OneIdentity
    <3>3. \A q \in Processes : at'[q] \in {"state", "newkey", "keyfile"} \cup Loaded =>
            q = p /\ at'[q] = place
      BY <1>5, <2>1, <2>3, <3>1
    <3> QED
      BY <2>1, <2>2, <3>2, <3>3 DEF IdentityInv, At, Loaded
  <2>4. CASE raced
    BY <2>2, <2>4 DEF IdentityInv, OneIdentity
  <2> QED
    BY <2>3, <2>4
<1>7. ASSUME NEW p \in Processes,
             \/ LoadFails(p) \/ ListPeers(p) \/ Stops(p) \/ WriteCommand(p)
      PROVE  IdentityInv'
  <2>1. Ended({p}) /\ UNCHANGED <<identity_key, raced, issued>>
    BY <1>7 DEF LoadFails, ListPeers, Loads, Stops, WriteCommand, End
  <2> QED
    BY <1>2, <2>1
<1>8. ASSUME NEW p \in Processes,
             \/ \E c \in CliCommands : Start(p, c)
             \/ PairBegins(p) \/ SendBegins(p) \/ OpenStateFile(p)
             \/ WriteSsid(p) \/ WritePassword(p)
      PROVE  IdentityInv'
  <2>1. UNCHANGED <<identity_key, raced, key, issued>>
    BY <1>8 DEF Start, PairBegins, SendBegins, Loads, OpenStateFile, WriteSsid, WritePassword
  <2>2. PICK place \in Places :
          /\ Goto(p, place)
          /\ \/ place \in {"key"} \cup BlePlaces
             \/ place \in Loaded /\ at[p] \in {"state"} \cup Loaded
    BY <1>8 DEF Start, PairBegins, SendBegins, Loads, OpenStateFile, WriteSsid, WritePassword,
                At, Places, Loaded, BlePlaces
  <2> QED
    BY <1>3, <2>1, <2>2
<1>9. ASSUME NEW p \in Processes, WriteStateFile(p)
      PROVE  IdentityInv'
  <2>1. UNCHANGED <<identity_key, raced, issued>> /\ at[p] \in Loaded
    BY <1>9 DEF WriteStateFile, Loaded
  <2>2. Ended({p}) \/ (Goto(p, "call") /\ UNCHANGED key)
    BY <1>9 DEF WriteStateFile
  <2> QED
    BY <1>2, <1>3, <2>1, <2>2 DEF Places, Loaded
<1>10. ASSUME NEW p \in Processes, CachedResponse(p)
       PROVE  IdentityInv'
  <2>1. UNCHANGED <<identity_key, raced, issued>> /\ at[p] \in Loaded
    BY <1>10 DEF CachedResponse, At, Loaded
  <2>2. Ended({p}) \/ (Goto(p, "open2") /\ UNCHANGED key)
    BY <1>10 DEF CachedResponse, Answered, End
  <2> QED
    BY <1>2, <1>3, <2>1, <2>2 DEF Places, Loaded
\* A switch learns the key of the process that calls it.
<1>11. ASSUME NEW p \in Processes, NEW s \in Switches, Delivered(p, s)
       PROVE  IdentityInv'
  <2>1. UNCHANGED <<identity_key, raced>> /\ at[p] = "call"
    BY <1>11 DEF Delivered, At
  <2>2. \A q \in Processes : at'[q] \notin {"idle", "key"} \cup BlePlaces =>
          /\ key'[q] = key[q]
          /\ \/ at'[q] = at[q]
             \/ at[q] \in {"state"} \cup Loaded /\ at'[q] \in {"state"} \cup Loaded
    <3>1. CASE Ended({p})
      BY <3>1 DEF Ended
    <3>2. CASE Goto(p, "open2") /\ UNCHANGED key
      BY <2>1, <3>2 DEF Goto, ProcessesOK, Loaded
    <3> QED
      BY <1>11, <3>1, <3>2 DEF Delivered, Answered, End
  <2>3. \E k \in DOMAIN issued[s] \cup {key[p]} : issued' = [issued EXCEPT ![s] = Put(@, k, fresh)]
    BY <1>11 DEF Delivered, Honours
  <2>4. ASSUME NEW t \in Switches
        PROVE  DOMAIN issued'[t] \subseteq DOMAIN issued[t] \cup {key[p]}
    <3>1. CASE t = s
      BY <2>3, <3>1 DEF SwitchesOK, Put
    <3>2. CASE t # s
      BY <2>3, <3>2 DEF SwitchesOK
    <3> QED
      BY <3>1, <3>2
  <2>5. ~ raced => key[p] = identity_key
    BY <2>1 DEF IdentityInv, Loaded
  <2>6. OneIdentity'
    BY <2>1, <2>4, <2>5 DEF IdentityInv, OneIdentity
  <2>7. ASSUME NEW q \in Processes, at'[q] \in {"newkey", "keyfile"}
        PROVE  at[q] = at'[q]
    BY <2>2, <2>7 DEF BlePlaces, Loaded
  <2>8. ASSUME NEW q \in Processes, at'[q] \in {"state"} \cup Loaded
        PROVE  at[q] \in {"state"} \cup Loaded /\ key'[q] = key[q]
    BY <2>2, <2>8 DEF BlePlaces, Loaded
  <2> QED
    BY <2>1, <2>6, <2>7, <2>8 DEF IdentityInv, At
<1>12. ASSUME NEW s \in Switches, Device(s)
       PROVE  IdentityInv'
  <2>1. UNCHANGED <<identity_key, raced>>
    BY <1>12 DEF Device, TakeProvision, TakeReset, Invite, PowerLost
  <2>2. \A t \in Switches : DOMAIN issued'[t] \subseteq DOMAIN issued[t]
    BY <1>12 DEF Device, TakeProvision, TakeReset, Invite, PowerLost, EmptyMap, SwitchesOK
  <2>3. UNCHANGED <<at, key>> \/ \E ps \in SUBSET Processes : Ended(ps)
    BY <1>12 DEF Device, TakeProvision, TakeReset, Invite, PowerLost, Restarts, End
  <2> QED
    BY <1>2, <2>1, <2>2, <2>3, SameIdentity
<1>13. CASE UNCHANGED <<identity_key, raced, at, key, issued>>
  BY <1>13, SameIdentity
<1>14. ASSUME NEW p \in Processes, Step(p)
       PROVE  IdentityInv'
  BY <1>4, <1>6, <1>7, <1>8, <1>9, <1>10, <1>11, <1>14 DEF Step
<1> QED
  BY <1>7, <1>8, <1>12, <1>13, <1>14 DEF Next, Expire, vars

\* The switches know the home by the identity in its file, unless two commands
\* started on a new home at the same time.
THEOREM ControllerIdentity == Spec => []OneIdentity
<1>1. Init => IdentityInv
  BY DEF Init, IdentityInv, OneIdentity, EmptyMap, At, Loaded
<1>2. TypeOK /\ IdentityInv /\ [Next]_vars => IdentityInv'
  BY IdentityStep
<1>3. IdentityInv => OneIdentity
  BY DEF IdentityInv
<1> QED
  BY <1>1, <1>2, <1>3, ControllerTypes, PTL DEF Spec

(***************************************************************************)
(* Provisions                                                              *)
(***************************************************************************)

\* Every step keeps what an undisturbed provision has written.
LEMMA ProvisionStep ==
  ASSUME TypeOK, ProvisionInv, [Next]_vars
  PROVE  ProvisionInv'
<1> USE ControllerAssumption
<1> USE DEF TypeOK, homeVars, procVars, switchVars, bleVars
<1>1. ASSUME NEW q \in Processes, q \in undisturbed
      PROVE  /\ at[q] \in {"password", "command"} /\ cmd[q].device \in Switches
             /\ at[q] = "password" => ble[cmd[q].device].ssid = cmd[q].network
             /\ at[q] = "command" => /\ ble[cmd[q].device].ssid = cmd[q].network
                                     /\ ble[cmd[q].device].password = cmd[q].network
  BY <1>1 DEF ProvisionInv, ProvisionIntact, ProcessesOK, CommandOK, At, BlePlaces
\* Who stays undisturbed has neither moved nor lost what it wrote.
<1>2. ASSUME \A q \in undisturbed' :
               /\ q \in undisturbed /\ at'[q] = at[q] /\ cmd'[q] = cmd[q]
               /\ ble'[cmd[q].device].ssid = ble[cmd[q].device].ssid
               /\ ble'[cmd[q].device].password = ble[cmd[q].device].password
      PROVE  ProvisionInv'
  BY <1>2 DEF ProvisionInv, ProvisionIntact, At
<1>3. ASSUME NEW ps \in SUBSET Processes, Ended(ps),
             \A q \in undisturbed \ ps :
               /\ ble'[cmd[q].device].ssid = ble[cmd[q].device].ssid
               /\ ble'[cmd[q].device].password = ble[cmd[q].device].password
      PROVE  ProvisionInv'
  <2>1. undisturbed \subseteq Processes
    BY DEF ProcessesOK
  <2> QED
    BY <1>2, <1>3, <2>1 DEF Ended
<1>4. ASSUME NEW p \in Processes, NEW place, Goto(p, place), UNCHANGED <<cmd, ble, undisturbed>>,
             at[p] \notin {"password", "command"}
      PROVE  ProvisionInv'
  <2>1. \A q \in undisturbed : q # p /\ q \in Processes
    BY <1>4 DEF ProcessesOK
  <2> QED
    BY <1>2, <1>4, <2>1 DEF Goto, ProcessesOK
<1>5. ASSUME NEW p \in Processes, NEW c \in CliCommands, Start(p, c)
      PROVE  ProvisionInv'
  <2>1. \A q \in undisturbed : q # p /\ q \in Processes
    BY <1>5 DEF Start, At, ProcessesOK
  <2> QED
    BY <1>2, <1>5, <2>1 DEF Start, Goto, ProcessesOK
<1>6. ASSUME NEW p \in Processes,
             \/ LoadOrCreate(p) \/ OpenKeyFile(p) \/ WriteKeyFile(p)
             \/ LoadFails(p) \/ ListPeers(p) \/ PairBegins(p) \/ SendBegins(p)
             \/ OpenStateFile(p) \/ WriteStateFile(p)
             \/ CachedResponse(p) \/ \E s \in Switches : Delivered(p, s)
      PROVE  ProvisionInv'
  <2>1. ble' = ble /\ at[p] \notin {"password", "command"}
    BY <1>6 DEF LoadOrCreate, OpenKeyFile, WriteKeyFile, LoadFails, ListPeers, Loads,
                PairBegins, SendBegins, OpenStateFile, WriteStateFile, CachedResponse,
                Delivered, At
  <2>2. \/ Ended({p})
        \/ \E place : Goto(p, place) /\ UNCHANGED <<cmd, undisturbed>>
    BY <1>6 DEF LoadOrCreate, OpenKeyFile, WriteKeyFile, LoadFails, ListPeers, Loads,
                PairBegins, SendBegins, OpenStateFile, WriteStateFile, CachedResponse,
                Delivered, Answered, End
  <2> QED
    BY <1>3, <1>4, <2>1, <2>2
<1>7. ASSUME NEW p \in Processes, Stops(p)
      PROVE  ProvisionInv'
  BY <1>3, <1>7 DEF Stops, End
\* BLE
<1>8. ASSUME NEW s \in Switches
      PROVE  ble[s] \in [ssid : Networks \cup {None}, password : Networks \cup {None},
                         command : BleCommands]
  BY DEF SwitchesOK
<1>9. ASSUME NEW p \in Processes, WriteSsid(p) \/ WritePassword(p)
      PROVE  ProvisionInv'
  <2> DEFINE s == cmd[p].device
             n == cmd[p].network
  <2>1. PICK place \in {"password", "command"} :
          /\ \A q \in Processes : at'[q] = IF q = p THEN place ELSE at[q]
          /\ place = "password" => at[p] = "ssid" /\ WriteSsid(p)
          /\ place = "command" => at[p] = "password" /\ WritePassword(p)
    BY <1>9 DEF WriteSsid, WritePassword, Goto, ProcessesOK, At
  <2>2. s \in Switches /\ cmd' = cmd
    BY <1>9, <2>1 DEF WriteSsid, WritePassword, ProcessesOK, CommandOK, At, BlePlaces
  <2>3. /\ \A t \in Switches : t # s => ble'[t] = ble[t]
        /\ place = "password" => ble'[s].ssid = n
        /\ place = "command" => ble'[s].ssid = ble[s].ssid /\ ble'[s].password = n
    <3>1. CASE place = "password"
      <4>1. ble' = [ble EXCEPT ![s] = [ble[s] EXCEPT !.ssid = n]]
        BY <2>1, <3>1 DEF WriteSsid
      <4> HIDE DEF s, n
      <4> QED
        BY <1>8, <2>2, <3>1, <4>1 DEF SwitchesOK
    <3>2. CASE place = "command"
      <4>1. ble' = [ble EXCEPT ![s] = [ble[s] EXCEPT !.password = n]]
        BY <2>1, <3>2 DEF WritePassword
      <4> HIDE DEF s, n
      <4> QED
        BY <1>8, <2>2, <3>2, <4>1 DEF SwitchesOK
    <3> QED
      BY <3>1, <3>2
  <2>4. ASSUME NEW q \in undisturbed', q # p
        PROVE  q \in Processes /\ q \in undisturbed /\ cmd[q].device # s
    <3>1. q \in undisturbed /\ q \notin Others(p, s)
      BY <1>9, <2>4 DEF WriteSsid, WritePassword
    <3> QED
      BY <2>4, <3>1 DEF Others, ProcessesOK
  <2>5. ASSUME NEW q \in undisturbed'
        PROVE  /\ at'[q] = "password" => ble'[cmd'[q].device].ssid = cmd'[q].network
               /\ at'[q] = "command" => /\ ble'[cmd'[q].device].ssid = cmd'[q].network
                                        /\ ble'[cmd'[q].device].password = cmd'[q].network
    <3>1. CASE q # p
      BY <1>1, <2>1, <2>2, <2>3, <2>4, <3>1
    <3>2. CASE q = p
      <4>1. place = "command" => p \in undisturbed /\ ble[s].ssid = n
        <5>1. place = "command" => p \in undisturbed
          BY <2>1, <3>2 DEF WritePassword
        <5> QED
          BY <1>1, <2>1, <5>1
      <4> QED
        BY <2>1, <2>2, <2>3, <3>2, <4>1
    <3> QED
      BY <3>1, <3>2
  <2> QED
    BY <2>5 DEF ProvisionInv, ProvisionIntact, At
<1>10. ASSUME NEW p \in Processes, WriteCommand(p)
       PROVE  ProvisionInv'
  <2> DEFINE s == cmd[p].device
  <2>1. s \in Switches /\ Ended({p})
    BY <1>10 DEF WriteCommand, End, ProcessesOK, CommandOK, At, BlePlaces
  <2>2. ble' = ble \/ \E c : ble' = [ble EXCEPT ![s] = [ble[s] EXCEPT !.command = c]]
    BY <1>10 DEF WriteCommand
  <2> HIDE DEF s
  <2>3. \A t \in Switches : ble'[t].ssid = ble[t].ssid /\ ble'[t].password = ble[t].password
    BY <1>8, <2>1, <2>2 DEF SwitchesOK
  <2>4. \A q \in undisturbed : cmd[q].device \in Switches
    BY <1>1 DEF ProcessesOK
  <2> QED
    BY <1>3, <2>1, <2>3, <2>4
<1>11. ASSUME NEW s \in Switches, Restarts(s)
       PROVE  ProvisionInv'
  <2> DEFINE ps == {p \in Processes : at[p] \in BlePlaces /\ cmd[p].device = s}
  <2>1. Ended(ps) /\ ps \in SUBSET Processes /\ ble' = [ble EXCEPT ![s] = NoBle]
    BY <1>11 DEF Restarts, End
  <2>2. ASSUME NEW q \in undisturbed \ ps
        PROVE  cmd[q].device # s
    BY <1>1, <2>2 DEF ProcessesOK, BlePlaces
  <2>3. \A q \in undisturbed \ ps : ble'[cmd[q].device] = ble[cmd[q].device]
    BY <2>1, <2>2 DEF SwitchesOK
  <2> HIDE DEF ps
  <2> QED
    BY <1>3, <2>1, <2>3
<1>12. ASSUME NEW s \in Switches, Device(s)
       PROVE  ProvisionInv'
  <2>1. CASE Restarts(s)
    BY <1>11, <2>1
  <2>2. CASE Invite(s)
    BY <1>2, <2>2 DEF Invite
  <2> QED
    BY <1>12, <2>1, <2>2 DEF Device, TakeProvision, TakeReset, PowerLost
<1>13. CASE UNCHANGED <<at, cmd, ble, undisturbed>>
  BY <1>2, <1>13
<1>14. ASSUME NEW p \in Processes, Step(p)
       PROVE  ProvisionInv'
  BY <1>6, <1>9, <1>10, <1>14 DEF Step
<1> QED
  BY <1>5, <1>7, <1>12, <1>13, <1>14 DEF Next, Expire, vars

\* The credentials of a provision are together when it writes its command,
\* unless another has written to the same switch in between.
THEOREM ControllerProvision == Spec => []ProvisionIntact
<1>1. Init => ProvisionInv
  BY DEF Init, ProvisionInv, ProvisionIntact
<1>2. TypeOK /\ ProvisionInv /\ [Next]_vars => ProvisionInv'
  BY ProvisionStep
<1>3. ProvisionInv => ProvisionIntact
  BY DEF ProvisionInv
<1> QED
  BY <1>1, <1>2, <1>3, ControllerTypes, PTL DEF Spec

(***************************************************************************)
(* The home keeps its switches                                             *)
(***************************************************************************)

\* What is a DeviceState, and what is none.
Readable(file) == file \notin {None, Empty, Garbled}

\* No state is taken for a file that is missing, truncated or spoilt: what the
\* three constants stand for does not parse.
StatesAreReadable == \A pending, ps : Readable(DeviceState(pending, ps))

\* What a process that is at work holds stays as it is.
Kept(q) ==
  /\ at'[q] = at[q] /\ cmd'[q] = cmd[q] /\ state'[q] = state[q] /\ call'[q] = call[q]
  /\ q \in stale' <=> q \in stale

NobodyWorks == \A q \in Processes : at'[q] \in Loaded => Kept(q)

NobodyStops == \A q \in Processes : at[q] \in Loaded => Kept(q)

OthersStay(p) ==
  \A q \in Processes \ {p} :
    at'[q] = at[q] /\ cmd'[q] = cmd[q] /\ state'[q] = state[q] /\ call'[q] = call[q]

\* The others do not touch the state file, and little besides.
Apart ==
  /\ NobodyWorks /\ UNCHANGED state_json
  /\ NobodyStops \/ \E p \in Processes : Stops(p)
  /\ \/ UNCHANGED <<switchVars, response_cache, given>>
     \/ \E s \in Switches : TakeReset(s) \/ Invite(s)
     \/ \E q \in DOMAIN response_cache : Expire(q)

\* The steps of a process that has begun its work, and all the others.
Works(p) ==
  \/ PairBegins(p) \/ SendBegins(p) \/ OpenStateFile(p) \/ WriteStateFile(p)
  \/ CachedResponse(p) \/ \E s \in Switches : Delivered(p, s)

LEMMA StepKinds ==
  ASSUME TypeOK, [Next]_vars
  PROVE  \/ \E p \in Processes : Works(p)
         \/ Apart
<1> USE DEF homeVars, procVars, switchVars, bleVars
<1> USE DEF Apart
<1>1. ASSUME NEW ps, End(ps)
      PROVE  /\ NobodyWorks
             /\ (\A p \in Processes \cap ps : at[p] \notin Loaded) => NobodyStops
  BY <1>1 DEF End, Ended, NobodyWorks, NobodyStops, Kept, Loaded
<1>2. ASSUME NEW p \in Processes, NEW place, Goto(p, place), place \notin Loaded, at[p] \notin Loaded,
             UNCHANGED <<state, call, stale>>,
             \A q \in Processes \ {p} : cmd'[q] = cmd[q]
      PROVE  NobodyWorks /\ NobodyStops
  BY <1>2 DEF Goto, NobodyWorks, NobodyStops, Kept, TypeOK, ProcessesOK
<1>3. ASSUME UNCHANGED <<at, procVars, stale>>
      PROVE  NobodyWorks /\ NobodyStops
  BY <1>3 DEF NobodyWorks, NobodyStops, Kept
<1>4. ASSUME NEW p \in Processes, NEW c \in CliCommands, Start(p, c)
      PROVE  Apart
  <2>1. PICK place \in {"ssid", "command", "key"} : Goto(p, place)
    BY <1>4 DEF Start
  <2>2. /\ UNCHANGED <<state_json, state, call, stale, switchVars, response_cache, given>>
        /\ \A q \in Processes \ {p} : cmd'[q] = cmd[q]
        /\ at[p] = "idle"
    BY <1>4 DEF Start, At, TypeOK, ProcessesOK
  <2> QED
    BY <1>2, <2>1, <2>2 DEF Loaded
<1>5. ASSUME NEW p \in Processes, LoadFails(p) \/ ListPeers(p) \/ WriteCommand(p) \/ Stops(p)
      PROVE  Apart
  <2>1. UNCHANGED <<state_json, switchVars, response_cache, given>> /\ End({p})
    BY <1>5 DEF LoadFails, ListPeers, Loads, Stops, WriteCommand
  <2>2. Stops(p) \/ at[p] \notin Loaded
    BY <1>5 DEF LoadFails, ListPeers, Loads, WriteCommand, At, Loaded
  <2> QED
    BY <1>1, <2>1, <2>2
<1>6. ASSUME NEW p \in Processes,
             \/ LoadOrCreate(p) \/ OpenKeyFile(p) \/ WriteKeyFile(p)
             \/ WriteSsid(p) \/ WritePassword(p)
      PROVE  Apart
  <2>1. UNCHANGED <<state_json, switchVars, response_cache, given>> /\ at[p] \notin Loaded
    BY <1>6 DEF LoadOrCreate, OpenKeyFile, WriteKeyFile, WriteSsid, WritePassword, At, Loaded
  <2>2. \/ End({p})
        \/ /\ \E place \in {"newkey", "keyfile", "state", "password", "command"} : Goto(p, place)
           /\ UNCHANGED <<cmd, state, call, stale>>
    BY <1>6 DEF LoadOrCreate, OpenKeyFile, WriteKeyFile, WriteSsid, WritePassword
  <2> QED
    BY <1>1, <1>2, <2>1, <2>2 DEF Loaded
<1>7. ASSUME NEW s \in Switches, Device(s)
      PROVE  Apart
  <2>1. \/ UNCHANGED <<at, procVars, stale>>
        \/ End({p \in Processes : at[p] \in BlePlaces /\ cmd[p].device = s})
    BY <1>7 DEF Device, TakeProvision, TakeReset, Invite, PowerLost, Restarts
  <2>2. NobodyWorks /\ NobodyStops
    BY <1>1, <1>3, <2>1 DEF BlePlaces, Loaded
  <2>3. state_json' = state_json
    BY <1>7 DEF Device, TakeProvision, TakeReset, Invite, PowerLost
  <2> QED
    BY <1>7, <2>2, <2>3 DEF Device, TakeProvision, PowerLost
<1>8. ASSUME NEW q \in DOMAIN response_cache, Expire(q)
      PROVE  Apart
  BY <1>3, <1>8 DEF Expire
<1>9. CASE UNCHANGED vars
  BY <1>3, <1>9 DEF vars
<1>10. ASSUME NEW p \in Processes, Step(p)
       PROVE  Works(p) \/ Apart
  <2> HIDE DEF Apart
  <2> QED
    BY <1>5, <1>6, <1>10 DEF Step, Works
<1> HIDE DEF Apart
<1>11. (\E p \in Processes : Works(p)) \/ Apart
  <2>1. CASE \E p \in Processes : Step(p)
    BY <1>10, <2>1
  <2>2. CASE \E p \in Processes : Stops(p) \/ \E c \in CliCommands : Start(p, c)
    BY <1>4, <1>5, <2>2
  <2>3. CASE (\E s \in Switches : Device(s)) \/ \E q \in DOMAIN response_cache : Expire(q)
    BY <1>7, <1>8, <2>3
  <2>4. CASE Next
    <3>1. \/ \E p \in Processes : Step(p)
          \/ \E p \in Processes : Stops(p) \/ \E c \in CliCommands : Start(p, c)
          \/ (\E s \in Switches : Device(s)) \/ \E q \in DOMAIN response_cache : Expire(q)
      BY ONLY <2>4 DEF Next
    <3> QED
      BY <2>1, <2>2, <2>3, <3>1
  <2>5. CASE UNCHANGED vars
    BY <1>9, <2>5
  <2> QED
    BY <2>4, <2>5
<1> QED
  BY <1>11

\* A call begins with what the file holds.
LEMMA BeginFacts ==
  ASSUME StatesAreReadable, TypeOK, NEW p \in Processes, PairBegins(p) \/ SendBegins(p)
  PROVE  /\ OthersStay(p) /\ stale' = stale /\ p \notin stale /\ cmd' = cmd
         /\ UNCHANGED <<state_json, switchVars, response_cache, given, fresh>>
         /\ at[p] = "state" /\ state_json \notin {Empty, Garbled}
         /\ state'[p].peers = LoadedState.peers /\ Readable(state'[p])
         /\ \/ /\ at'[p] = "open1" /\ cmd[p].name = "pair"
               /\ call'[p].preimage \in DOMAIN given /\ call'[p].to = given[call'[p].preimage]
            \/ /\ at'[p] = "call" /\ cmd[p].name = "send" /\ state_json # None
               /\ call'[p].to \in DOMAIN LoadedState.peers
               /\ call'[p].preimage = LoadedState.peers[call'[p].to]
<1> USE DEF TypeOK, ProcessesOK
<1>1. /\ At(p, "state") /\ state_json \notin {Empty, Garbled} /\ stale' = stale /\ cmd' = cmd
      /\ UNCHANGED <<state_json, switchVars, response_cache, given, fresh>>
  BY DEF PairBegins, SendBegins, Loads, homeVars
<1>2. p \notin stale
  BY <1>1 DEF At, Loaded
<1>3. CASE PairBegins(p)
  <2>1. cmd[p].name = "pair" /\ cmd[p].token \in DOMAIN given
    BY <1>1, <1>3 DEF PairBegins, Loads, CommandOK, At
  <2>2. PICK d : /\ d = given[cmd[p].token]
                 /\ state' = [state EXCEPT ![p] = DeviceState(LoadedState.pending_peers \cup {d}, LoadedState.peers)]
                 /\ call' = [call EXCEPT ![p] = [to |-> d, preimage |-> cmd[p].token]]
                 /\ at' = [at EXCEPT ![p] = "open1"]
    BY <1>3 DEF PairBegins, Goto
  <2>3. OthersStay(p)
    BY <1>1, <2>2 DEF OthersStay
  <2>4. /\ state'[p].peers = LoadedState.peers /\ at'[p] = "open1"
        /\ call'[p].preimage = cmd[p].token /\ call'[p].to = d
    BY <2>2 DEF DeviceState
  <2>5. Readable(state'[p])
    BY <2>2 DEF StatesAreReadable
  <2> QED
    BY <1>1, <1>2, <2>1, <2>2, <2>3, <2>4, <2>5 DEF At
<1>4. CASE SendBegins(p)
  <2>1. cmd[p].name = "send"
    BY <1>4 DEF SendBegins, Loads
  <2>2. PICK d \in DOMAIN LoadedState.peers :
                 call' = [call EXCEPT ![p] = [to |-> d, preimage |-> LoadedState.peers[d]]]
    BY <1>4 DEF SendBegins
  <2>3. /\ state' = [state EXCEPT ![p] = LoadedState]
        /\ at' = [at EXCEPT ![p] = "call"]
    BY <1>4 DEF SendBegins, Goto
  <2>4. OthersStay(p)
    BY <1>1, <2>2, <2>3 DEF OthersStay
  <2>5. /\ state'[p].peers = LoadedState.peers /\ at'[p] = "call"
        /\ call'[p].preimage = LoadedState.peers[d] /\ call'[p].to = d
    BY <2>2, <2>3
  <2>6. state_json # None
    BY <2>2 DEF LoadedState, NoState, DeviceState, EmptyMap
  <2>7. Readable(state'[p])
    BY <1>1, <2>3, <2>6 DEF LoadedState, Readable
  <2> QED
    BY <1>1, <1>2, <2>1, <2>2, <2>4, <2>5, <2>6, <2>7 DEF At
<1> QED
  BY <1>3, <1>4

\* The file is truncated.
LEMMA OpenFacts ==
  ASSUME TypeOK, NEW p \in Processes, OpenStateFile(p)
  PROVE  /\ OthersStay(p) /\ UNCHANGED procVars
         /\ UNCHANGED <<switchVars, response_cache, given, fresh>>
         /\ state_json' = Empty
         /\ \/ at[p] = "open1" /\ at'[p] = "write1"
            \/ at[p] = "open2" /\ at'[p] = "write2"
         /\ \A q \in Processes \ {p} : at[q] \in Loaded => q \in stale'
         /\ p \in stale' <=> p \in stale
<1>1. PICK place : Goto(p, place) /\ place = IF At(p, "open1") THEN "write1" ELSE "write2"
  BY DEF OpenStateFile
<1>2. /\ at[p] \in {"open1", "open2"} /\ state_json' = Empty /\ stale' = stale \cup Overtaken(p)
      /\ UNCHANGED <<procVars, switchVars, response_cache, given, fresh>>
  BY DEF OpenStateFile
<1>3. at'[p] = place /\ \A q \in Processes \ {p} : at'[q] = at[q]
  BY <1>1 DEF Goto, TypeOK, ProcessesOK
<1> QED
  BY <1>1, <1>2, <1>3 DEF OthersStay, procVars, Overtaken, At

\* The file is written; by whom it was opened last it holds what it should.
LEMMA WriteFacts ==
  ASSUME TypeOK, NEW p \in Processes, WriteStateFile(p)
  PROVE  /\ OthersStay(p) /\ UNCHANGED <<switchVars, response_cache, given, fresh>>
         /\ state_json' \in {state[p], Garbled}
         /\ state_json = Empty => state_json' = state[p]
         /\ \/ /\ at[p] = "write1" /\ at'[p] = "call" /\ cmd'[p] = cmd[p]
               /\ state'[p] = state[p] /\ call'[p] = call[p]
               /\ p \in stale' <=> p \in stale
            \/ at[p] = "write2" /\ at'[p] = "idle"
         /\ \A q \in Processes \ {p} : at[q] \in Loaded => q \in stale'
<1> USE DEF procVars
<1>1. /\ at[p] \in {"write1", "write2"} /\ state_json' \in Overwrites(state_json, state[p])
      /\ UNCHANGED <<switchVars, response_cache, given, fresh>>
  BY DEF WriteStateFile
<1>2. /\ state_json' \in {state[p], Garbled}
      /\ state_json = Empty => state_json' = state[p]
  BY <1>1 DEF Overwrites
<1>3. CASE at[p] = "write1"
  <2>1. at' = [at EXCEPT ![p] = "call"] /\ UNCHANGED procVars /\ stale' = stale \cup Overtaken(p)
    BY <1>3 DEF WriteStateFile, At, Goto
  <2>2. at'[p] = "call" /\ \A q \in Processes \ {p} : at'[q] = at[q]
    BY <2>1 DEF TypeOK, ProcessesOK
  <2> QED
    BY <1>1, <1>2, <1>3, <2>1, <2>2 DEF OthersStay, Overtaken
<1>4. CASE at[p] = "write2"
  <2>1. Ended({p}) /\ stale' = (stale \cup Overtaken(p)) \ {p}
    BY <1>4 DEF WriteStateFile, At
  <2>2. at'[p] = "idle" /\ OthersStay(p)
    BY <2>1 DEF Ended, OthersStay
  <2> QED
    BY <1>1, <1>2, <1>4, <2>1, <2>2 DEF Overtaken
<1> QED
  BY <1>1, <1>3, <1>4

\* What an answer does: the process has it in memory, or has ended.
GetsAnswer(p, next) ==
  \/ at'[p] = "idle"
  \/ /\ at'[p] = "open2" /\ cmd'[p] = cmd[p] /\ call'[p] = call[p]
     /\ state'[p].peers = Put(state[p].peers, call[p].to, next) /\ Readable(state'[p])
     /\ p \in stale' <=> p \in stale

LEMMA AnsweredFacts ==
  ASSUME StatesAreReadable, TypeOK, NEW p \in Processes, NEW next, Answered(p, next) \/ End({p})
  PROVE  /\ OthersStay(p) /\ GetsAnswer(p, next)
         /\ \A q \in Processes \ {p} : q \in stale' <=> q \in stale
<1>1. CASE End({p})
  BY <1>1 DEF End, Ended, OthersStay, GetsAnswer
<1>2. CASE Answered(p, next)
  <2>1. PICK new : /\ new.peers = Put(state[p].peers, call[p].to, next) /\ Readable(new)
                   /\ state' = [state EXCEPT ![p] = new]
    <3>1. PICK pending : state' = [state EXCEPT ![p] =
             DeviceState(pending, Put(state[p].peers, call[p].to, next))]
      BY <1>2 DEF Answered, TypeOK, ProcessesOK
    <3>2. PICK new : new = DeviceState(pending, Put(state[p].peers, call[p].to, next))
      OBVIOUS
    <3>3. new.peers = Put(state[p].peers, call[p].to, next)
      BY <3>2 DEF DeviceState
    <3>4. Readable(new)
      BY <3>2 DEF StatesAreReadable
    <3> QED
      BY <3>1, <3>2, <3>3, <3>4
  <2>2. at' = [at EXCEPT ![p] = "open2"] /\ UNCHANGED <<cmd, call, stale>>
    BY <1>2 DEF Answered, Goto
  <2> QED
    BY <2>1, <2>2 DEF OthersStay, GetsAnswer, TypeOK, ProcessesOK
<1> QED
  BY <1>1, <1>2

LEMMA CachedFacts ==
  ASSUME StatesAreReadable, TypeOK, NEW p \in Processes, CachedResponse(p)
  PROVE  /\ OthersStay(p) /\ GetsAnswer(p, response_cache[call[p].preimage])
         /\ \A q \in Processes \ {p} : q \in stale' <=> q \in stale
         /\ UNCHANGED <<homeVars, switchVars, given, fresh>>
         /\ at[p] = "call" /\ call[p].preimage \in DOMAIN response_cache
         /\ DOMAIN response_cache' = DOMAIN response_cache \ {call[p].preimage}
         /\ \A q \in DOMAIN response_cache' : response_cache'[q] = response_cache[q]
<1>1. /\ UNCHANGED <<homeVars, switchVars, given, fresh>>
      /\ at[p] = "call" /\ call[p].preimage \in DOMAIN response_cache
      /\ response_cache' = Drop(response_cache, call[p].preimage)
      /\ Answered(p, response_cache[call[p].preimage]) \/ End({p})
  BY DEF CachedResponse, At
<1>2. /\ DOMAIN response_cache' = DOMAIN response_cache \ {call[p].preimage}
      /\ \A q \in DOMAIN response_cache' : response_cache'[q] = response_cache[q]
  BY <1>1 DEF Drop, Restrict
<1> QED
  BY <1>1, <1>2, AnsweredFacts

\* s issues the preimage that is drawn to k, for the one of p's message.
Reissues(p, s, k) ==
  /\ DOMAIN issued'[s] = DOMAIN issued[s] \cup {k} /\ issued'[s][k] = fresh
  /\ \A j \in DOMAIN issued[s] \ {k} : issued'[s][j] = issued[s][j]
  /\ \/ /\ call[p].preimage \in invites[s]
        /\ invites'[s] = invites[s] \ {call[p].preimage}
     \/ /\ k \in DOMAIN issued[s] /\ issued[s][k] = call[p].preimage
        /\ invites'[s] = invites[s]

LEMMA DeliveredFacts ==
  ASSUME StatesAreReadable, TypeOK, NEW p \in Processes, NEW s \in Switches, Delivered(p, s)
  PROVE  /\ OthersStay(p) /\ GetsAnswer(p, fresh)
         /\ \A q \in Processes \ {p} : q \in stale' <=> q \in stale
         /\ UNCHANGED <<state_json, id52, given>> /\ fresh' = fresh + 1
         /\ at[p] = "call" /\ id52[s] = call[p].to
         /\ call[p].preimage \notin DOMAIN response_cache
         /\ DOMAIN response_cache' = DOMAIN response_cache \cup {call[p].preimage}
         /\ response_cache'[call[p].preimage] = fresh
         /\ \A q \in DOMAIN response_cache : response_cache'[q] = response_cache[q]
         /\ \A t \in Switches \ {s} : issued'[t] = issued[t] /\ invites'[t] = invites[t]
         /\ \E k : Reissues(p, s, k)
<1>1. PICK q : q = call[p].preimage
  OBVIOUS
<1>2. /\ UNCHANGED <<state_json, id52, given>> /\ fresh' = fresh + 1
      /\ at[p] = "call" /\ id52[s] = call[p].to /\ q \notin DOMAIN response_cache
      /\ response_cache' = Put(response_cache, q, fresh)
      /\ Answered(p, fresh) \/ End({p})
      /\ Honours(s, p)
  BY <1>1 DEF Delivered, At, homeVars
<1>3. /\ DOMAIN response_cache' = DOMAIN response_cache \cup {q}
      /\ response_cache'[q] = fresh
      /\ \A x \in DOMAIN response_cache : response_cache'[x] = response_cache[x]
  BY <1>2 DEF Put
<1>4. DOMAIN issued = Switches /\ DOMAIN invites = Switches
  BY DEF TypeOK, SwitchesOK
<1>5. PICK k : /\ issued' = [issued EXCEPT ![s] = Put(issued[s], k, fresh)]
               /\ \/ /\ cmd[p].name = "pair" /\ q \in invites[s]
                     /\ invites' = [invites EXCEPT ![s] = invites[s] \ {q}]
                  \/ /\ cmd[p].name = "send" /\ invites' = invites
                     /\ k \in DOMAIN issued[s] /\ issued[s][k] = q
  BY <1>1, <1>2, <1>4 DEF Honours
<1>6. /\ issued'[s] = Put(issued[s], k, fresh)
      /\ \A t \in Switches \ {s} : issued'[t] = issued[t] /\ invites'[t] = invites[t]
      /\ \/ /\ cmd[p].name = "pair" /\ q \in invites[s] /\ invites'[s] = invites[s] \ {q}
         \/ /\ cmd[p].name = "send" /\ invites'[s] = invites[s]
            /\ k \in DOMAIN issued[s] /\ issued[s][k] = q
  BY <1>4, <1>5 DEF TypeOK, SwitchesOK
<1>7. /\ DOMAIN issued'[s] = DOMAIN issued[s] \cup {k} /\ issued'[s][k] = fresh
      /\ \A j \in DOMAIN issued[s] \ {k} : issued'[s][j] = issued[s][j]
  BY <1>6 DEF Put
<1>8. /\ OthersStay(p) /\ GetsAnswer(p, fresh)
      /\ \A x \in Processes \ {p} : x \in stale' <=> x \in stale
  BY <1>2, AnsweredFacts
<1>9. Reissues(p, s, k)
  BY <1>1, <1>6, <1>7 DEF Reissues
<1> QED
  BY <1>1, <1>2, <1>3, <1>6, <1>8, <1>9

\* A process whose state nobody has saved over has all that is in the file, but
\* for the peer that has answered; what it sends with is the file's.
CopyOK(p) ==
  /\ at[p] \in Loaded => cmd[p].name \in {"pair", "send"} /\ Readable(state[p])
  /\ at[p] \in {"open1", "write1"} => cmd[p].name = "pair"
  /\ p \notin stale =>
       /\ at[p] \in {"write1", "write2"} => state_json = Empty
       /\ At(p, "open1") => state_json \notin {Empty, Garbled}
       /\ at[p] \in {"call", "open2"} => Readable(state_json)
       /\ at[p] \in {"open1", "call", "open2"} =>
            \A d \in DOMAIN LoadedState.peers :
              \/ At(p, "open2") /\ d = call[p].to
              \/ d \in DOMAIN state[p].peers /\ state[p].peers[d] = LoadedState.peers[d]
       /\ at[p] \in {"call", "open2"} /\ cmd[p].name = "send" =>
            /\ call[p].to \in DOMAIN LoadedState.peers
            /\ call[p].preimage = LoadedState.peers[call[p].to]

CopyInv == \A p \in Processes : CopyOK(p)

\* The process keeps what it has, and the file is the same.
LEMMA CopyKept ==
  ASSUME NEW q \in Processes, CopyOK(q), Kept(q), state_json' = state_json
  PROVE  CopyOK(q)'
BY DEF CopyOK, Kept, At, Readable, LoadedState

\* A process that is not at work has nothing to keep.
LEMMA CopyIdle ==
  ASSUME NEW q \in Processes, at'[q] \notin Loaded
  PROVE  CopyOK(q)'
BY DEF CopyOK, At, Loaded

\* One that another has saved over goes on.
LEMMA CopyStale ==
  ASSUME NEW q \in Processes, CopyOK(q), at'[q] = at[q], cmd'[q] = cmd[q], state'[q] = state[q],
         q \in stale'
  PROVE  CopyOK(q)'
BY DEF CopyOK, Readable

\* The answer changes one peer.
LEMMA CopyAnswered ==
  ASSUME NEW p \in Processes, CopyOK(p), At(p, "call"), NEW next, GetsAnswer(p, next),
         state_json' = state_json
  PROVE  CopyOK(p)'
<1>1. CASE at'[p] = "idle"
  BY <1>1, CopyIdle DEF Loaded
<1>2. CASE /\ at'[p] = "open2" /\ cmd'[p] = cmd[p] /\ call'[p] = call[p]
           /\ state'[p].peers = Put(state[p].peers, call[p].to, next) /\ Readable(state'[p])
           /\ p \in stale' <=> p \in stale
  <2>1. LoadedState' = LoadedState
    BY DEF LoadedState
  <2>2. \A d \in DOMAIN state[p].peers \ {call[p].to} :
          d \in DOMAIN state'[p].peers /\ state'[p].peers[d] = state[p].peers[d]
    BY <1>2 DEF Put
  <2>3. at[p] = "call" /\ at[p] \in Loaded /\ cmd[p].name \in {"pair", "send"}
    BY DEF At, CopyOK, Loaded
  <2>4. CASE p \in stale
    BY <1>2, <2>3, <2>4 DEF CopyOK, Readable
  <2>5. CASE p \notin stale
    <3>1. /\ Readable(state_json)
          /\ \A d \in DOMAIN LoadedState.peers :
               d \in DOMAIN state[p].peers /\ state[p].peers[d] = LoadedState.peers[d]
          /\ cmd[p].name = "send" => /\ call[p].to \in DOMAIN LoadedState.peers
                                     /\ call[p].preimage = LoadedState.peers[call[p].to]
      BY <2>3, <2>5 DEF CopyOK, At
    <3>2. \A d \in DOMAIN LoadedState'.peers :
            \/ d = call'[p].to
            \/ d \in DOMAIN state'[p].peers /\ state'[p].peers[d] = LoadedState'.peers[d]
      BY <1>2, <2>1, <2>2, <3>1
    <3> QED
      BY <1>2, <2>1, <2>3, <3>1, <3>2 DEF CopyOK, At, Readable
  <2> QED
    BY <2>4, <2>5
<1> QED
  BY <1>1, <1>2 DEF GetsAnswer

LEMMA CopyStep ==
  ASSUME StatesAreReadable, TypeOK, CopyInv, [Next]_vars
  PROVE  CopyInv'
<1>1. CASE Apart
  <2>1. ASSUME NEW q \in Processes
        PROVE  CopyOK(q)'
    BY <1>1, CopyKept, CopyIdle DEF CopyInv, Apart, NobodyWorks
  <2> QED
    BY <2>1 DEF CopyInv
<1>2. ASSUME NEW p \in Processes, Works(p)
      PROVE  CopyInv'
  <2> SUFFICES ASSUME NEW q \in Processes
               PROVE  CopyOK(q)'
    BY DEF CopyInv
  <2>1. CopyOK(p) /\ CopyOK(q)
    BY DEF CopyInv
  <2>2. ASSUME q # p, OthersStay(p), q \in stale' <=> q \in stale, state_json' = state_json
        PROVE  CopyOK(q)'
    BY <2>1, <2>2, CopyKept DEF OthersStay, Kept
  <2>3. ASSUME q # p, OthersStay(p), at[q] \in Loaded => q \in stale'
        PROVE  CopyOK(q)'
    <3>1. at'[q] = at[q] /\ cmd'[q] = cmd[q] /\ state'[q] = state[q]
      BY <2>3 DEF OthersStay
    <3> QED
      BY <2>1, <2>3, <3>1, CopyStale, CopyIdle
  <2>4. CASE PairBegins(p) \/ SendBegins(p)
    <3>1. CASE q # p
      BY <2>2, <2>4, <3>1, BeginFacts
    <3>2. CASE q = p
      <4>1. /\ cmd' = cmd /\ state_json' = state_json /\ state_json \notin {Empty, Garbled}
            /\ state'[p].peers = LoadedState.peers /\ Readable(state'[p])
            /\ \/ at'[p] = "open1" /\ cmd[p].name = "pair"
               \/ /\ at'[p] = "call" /\ cmd[p].name = "send" /\ state_json # None
                  /\ call'[p].to \in DOMAIN LoadedState.peers
                  /\ call'[p].preimage = LoadedState.peers[call'[p].to]
        BY <2>4, BeginFacts
      <4>2. LoadedState' = LoadedState
        BY <4>1 DEF LoadedState
      <4> QED
        BY <3>2, <4>1, <4>2 DEF CopyOK, At, Readable
    <3> QED
      BY <3>1, <3>2
  <2>5. CASE OpenStateFile(p)
    <3>1. CASE q # p
      BY <2>3, <2>5, <3>1, OpenFacts
    <3>2. CASE q = p
      <4>1. /\ state_json' = Empty /\ cmd' = cmd /\ state' = state
            /\ \/ at[p] = "open1" /\ at'[p] = "write1"
               \/ at[p] = "open2" /\ at'[p] = "write2"
        BY <2>5, OpenFacts DEF procVars
      <4> QED
        BY <2>1, <3>2, <4>1 DEF CopyOK, At, Loaded, Readable
    <3> QED
      BY <3>1, <3>2
  <2>6. CASE WriteStateFile(p)
    <3>1. CASE q # p
      BY <2>3, <2>6, <3>1, WriteFacts
    <3>2. CASE q = p /\ at'[p] = "idle"
      BY <3>2, CopyIdle DEF Loaded
    <3>3. CASE q = p /\ at'[p] # "idle"
      <4>1. /\ state_json = Empty => state_json' = state[p]
            /\ at[p] = "write1" /\ at'[p] = "call" /\ cmd'[p] = cmd[p]
            /\ state'[p] = state[p]
            /\ p \in stale' <=> p \in stale
        BY <2>6, <3>3, WriteFacts
      <4>2. cmd[p].name = "pair" /\ Readable(state[p])
        BY <2>1, <4>1 DEF CopyOK, Loaded
      <4>3. CASE p \in stale
        BY <3>3, <4>1, <4>2, <4>3 DEF CopyOK, Readable
      <4>4. CASE p \notin stale
        <5>1. state_json' = state[p]
          BY <2>1, <4>1, <4>4 DEF CopyOK
        <5>2. LoadedState' = state[p]
          BY <4>2, <5>1 DEF LoadedState, Readable
        <5>3. /\ Readable(state_json)' /\ cmd'[p].name = "pair"
              /\ \A d \in DOMAIN LoadedState'.peers :
                   d \in DOMAIN state'[p].peers /\ state'[p].peers[d] = LoadedState'.peers[d]
          BY <4>1, <4>2, <5>1, <5>2 DEF Readable
        <5>4. Readable(state[p])'
          BY <4>1, <4>2 DEF Readable
        <5> QED
          BY <3>3, <4>1, <5>3, <5>4 DEF CopyOK, At
      <4> QED
        BY <4>3, <4>4
    <3> QED
      BY <3>1, <3>2, <3>3
  <2>7. CASE CachedResponse(p) \/ \E s \in Switches : Delivered(p, s)
    <3>1. CASE q # p
      BY <2>2, <2>7, <3>1, CachedFacts, DeliveredFacts DEF homeVars
    <3>2. CASE q = p
      <4>1. state_json' = state_json /\ At(p, "call") /\ \E next : GetsAnswer(p, next)
        BY <2>7, CachedFacts, DeliveredFacts DEF homeVars, At
      <4> QED
        BY <2>1, <3>2, <4>1, CopyAnswered
    <3> QED
      BY <3>1, <3>2
  <2> QED
    BY <1>2, <2>4, <2>5, <2>6, <2>7 DEF Works
<1> QED
  BY <1>1, <1>2, StepKinds

\* A value that was drawn is not the next one.
LEMMA FreshIsNew ==
  ASSUME TypeOK
  PROVE  fresh \notin Drawn
BY DEF TypeOK, HomeOK, Drawn

\* The preimages that wait for a message: no more than before, but for the one
\* of a new invite.
Dwindle ==
  /\ \A q \in DOMAIN response_cache' :
       q \in DOMAIN response_cache /\ response_cache'[q] = response_cache[q]
  /\ \A s \in Switches :
       /\ invites'[s] \subseteq invites[s] \cup {fresh}
       /\ \A k \in DOMAIN issued'[s] : k \in DOMAIN issued[s] /\ issued'[s][k] = issued[s][k]
  /\ \A s, t \in Switches : fresh \in invites'[s] \cap invites'[t] => s = t

LEMMA SameDwindles ==
  ASSUME TypeOK, UNCHANGED <<switchVars, response_cache>>
  PROVE  Dwindle
BY FreshIsNew DEF Dwindle, switchVars, TypeOK, SwitchesOK

LEMMA ApartDwindles ==
  ASSUME TypeOK, Apart
  PROVE  Dwindle
<1> USE FreshIsNew DEF TypeOK, SwitchesOK, switchVars
<1>1. CASE \E s \in Switches : TakeReset(s)
  <2>1. PICK s \in Switches :
          /\ response_cache' = response_cache
          /\ invites' = [invites EXCEPT ![s] = {}] /\ issued' = [issued EXCEPT ![s] = EmptyMap]
    BY <1>1 DEF TakeReset
  <2>2. /\ invites'[s] = {} /\ DOMAIN issued'[s] = {}
        /\ \A t \in Switches \ {s} : invites'[t] = invites[t] /\ issued'[t] = issued[t]
    BY <2>1 DEF EmptyMap
  <2> QED
    BY <2>1, <2>2 DEF Dwindle
<1>2. CASE \E s \in Switches : Invite(s)
  <2>1. PICK s \in Switches :
          /\ response_cache' = response_cache /\ issued' = issued
          /\ invites' = [invites EXCEPT ![s] = @ \cup {fresh}]
    BY <1>2 DEF Invite
  <2>2. /\ invites'[s] = invites[s] \cup {fresh}
        /\ \A t \in Switches \ {s} : invites'[t] = invites[t]
    BY <2>1
  <2> QED
    BY <2>1, <2>2 DEF Dwindle
<1>3. CASE \E q \in DOMAIN response_cache : Expire(q)
  <2>1. PICK q \in DOMAIN response_cache :
          UNCHANGED switchVars /\ response_cache' = Drop(response_cache, q)
    BY <1>3 DEF Expire
  <2>2. \A x \in DOMAIN response_cache' :
          x \in DOMAIN response_cache /\ response_cache'[x] = response_cache[x]
    BY <2>1 DEF Drop, Restrict
  <2> QED
    BY <2>1, <2>2 DEF Dwindle
<1> QED
  BY <1>1, <1>2, <1>3, SameDwindles DEF Apart

\* A preimage is issued to one peer, or open as one invite.
IssuedOnce ==
  /\ \A s, t \in Switches : \A k \in DOMAIN issued[s], j \in DOMAIN issued[t] :
       issued[s][k] = issued[t][j] => s = t /\ k = j
  /\ \A s, t \in Switches : \A k \in DOMAIN issued[s] : issued[s][k] \notin invites[t]
  /\ \A s, t \in Switches : invites[s] \cap invites[t] # {} => s = t

LEMMA IssuedStep ==
  ASSUME StatesAreReadable, TypeOK, IssuedOnce, [Next]_vars
  PROVE  IssuedOnce'
<1> USE FreshIsNew
<1>0. \A s \in Switches : /\ invites[s] \subseteq Drawn
                          /\ \A k \in DOMAIN issued[s] : issued[s][k] \in Drawn
  BY DEF TypeOK, SwitchesOK
<1>1. ASSUME Dwindle
      PROVE  IssuedOnce'
  BY <1>0, <1>1 DEF IssuedOnce, Dwindle
<1>2. ASSUME NEW p \in Processes, NEW s \in Switches, Delivered(p, s)
      PROVE  IssuedOnce'
  <2>1. \A t \in Switches \ {s} : issued'[t] = issued[t] /\ invites'[t] = invites[t]
    BY <1>2, DeliveredFacts
  <2>2. PICK k : Reissues(p, s, k)
    BY <1>2, DeliveredFacts
  <2>3. \A t \in Switches : invites'[t] \subseteq invites[t]
    BY <2>1, <2>2 DEF Reissues
  <2>4. \A t \in Switches : \A j \in DOMAIN issued'[t] :
          \/ t = s /\ j = k /\ issued'[t][j] = fresh
          \/ j \in DOMAIN issued[t] /\ issued'[t][j] = issued[t][j]
    BY <2>1, <2>2 DEF Reissues
  <2> QED
    BY <1>0, <2>3, <2>4 DEF IssuedOnce
<1>3. ASSUME NEW p \in Processes, PairBegins(p) \/ SendBegins(p) \/ OpenStateFile(p) \/ WriteStateFile(p)
      PROVE  UNCHANGED <<switchVars, response_cache>>
  BY <1>3, BeginFacts, OpenFacts, WriteFacts
<1>4. ASSUME NEW p \in Processes, CachedResponse(p)
      PROVE  Dwindle
  BY <1>0, <1>4, CachedFacts DEF Dwindle, switchVars
<1> QED
  BY <1>1, <1>2, <1>3, <1>4, StepKinds, ApartDwindles, SameDwindles DEF Works

\* A process that holds an answer, and the preimage that is told in it.
Answers(p) == at[p] \in {"open2", "write2"}
AnswerOf(p) == state[p].peers[call[p].to]

\* There is one answer to a message, whoever holds it, and no switch waits for
\* the preimage of a message that was answered.
AnswersInv ==
  /\ \A p \in Processes : Answers(p) =>
       /\ call[p].to \in DOMAIN state[p].peers
       /\ call[p].preimage \in DOMAIN response_cache =>
            response_cache[call[p].preimage] = AnswerOf(p)
       /\ \A r \in Processes : Answers(r) /\ call[p].preimage = call[r].preimage =>
            AnswerOf(p) = AnswerOf(r)
  /\ \A s \in Switches : /\ \A k \in DOMAIN issued[s] : ~ AnswerExists(issued[s][k])
                         /\ \A q \in invites[s] : ~ AnswerExists(q)

\* Who holds an answer has held it before.
AnswersKept ==
  \A p \in Processes : Answers(p)' =>
    Answers(p) /\ call'[p] = call[p] /\ state'[p] = state[p]

LEMMA NoNewAnswer ==
  ASSUME StatesAreReadable, TypeOK,
         \/ Apart
         \/ \E p \in Processes :
              PairBegins(p) \/ SendBegins(p) \/ OpenStateFile(p) \/ WriteStateFile(p)
  PROVE  AnswersKept /\ Dwindle
<1>1. CASE Apart
  BY <1>1, ApartDwindles DEF Apart, NobodyWorks, Kept, AnswersKept, Answers, Loaded
<1>2. ASSUME NEW p \in Processes,
             PairBegins(p) \/ SendBegins(p) \/ OpenStateFile(p) \/ WriteStateFile(p)
      PROVE  AnswersKept /\ Dwindle
  <2>1. OthersStay(p) /\ UNCHANGED <<switchVars, response_cache>>
    BY <1>2, BeginFacts, OpenFacts, WriteFacts
  <2>2. Answers(p)' => Answers(p) /\ UNCHANGED <<state, call>>
    <3>1. CASE PairBegins(p) \/ SendBegins(p)
      BY <3>1, BeginFacts DEF Answers
    <3>2. CASE OpenStateFile(p)
      BY <3>2, OpenFacts DEF Answers, procVars
    <3>3. CASE WriteStateFile(p)
      BY <3>3, WriteFacts DEF Answers
    <3> QED
      BY <1>2, <3>1, <3>2, <3>3
  <2> QED
    BY <2>1, <2>2, SameDwindles DEF AnswersKept, OthersStay, Answers
<1> QED
  BY <1>1, <1>2

LEMMA NewAnswer ==
  ASSUME NEW p \in Processes, NEW next, OthersStay(p), GetsAnswer(p, next)
  PROVE  /\ \A r \in Processes \ {p} : Answers(r)' =>
              Answers(r) /\ call'[r] = call[r] /\ state'[r] = state[r]
         /\ Answers(p)' => /\ call'[p] = call[p] /\ call[p].to \in DOMAIN state'[p].peers
                           /\ AnswerOf(p)' = next
BY DEF OthersStay, GetsAnswer, Answers, AnswerOf, Put

LEMMA AnswersStep ==
  ASSUME StatesAreReadable, TypeOK, IssuedOnce, AnswersInv, [Next]_vars
  PROVE  AnswersInv'
<1> USE FreshIsNew
<1>1. /\ DOMAIN response_cache \subseteq Drawn
      /\ \A p \in Processes : at[p] \in Loaded => call[p].preimage \in Drawn
      /\ \A s \in Switches : /\ invites[s] \subseteq Drawn
                             /\ \A k \in DOMAIN issued[s] : issued[s][k] \in Drawn
  BY DEF TypeOK, TokensOK, ProcessesOK, ProcessOK, SwitchesOK
<1>2. \A p \in Processes : Answers(p) => at[p] \in Loaded
  BY DEF Answers, Loaded
<1>3. \A q : AnswerExists(q) <=>
        \/ q \in DOMAIN response_cache
        \/ \E p \in Processes : Answers(p) /\ call[p].preimage = q
  BY DEF AnswerExists, Answers
<1>4. \A q : AnswerExists(q)' <=>
        \/ q \in DOMAIN response_cache'
        \/ \E p \in Processes : Answers(p)' /\ call'[p].preimage = q
  BY DEF AnswerExists, Answers
<1>5. ASSUME AnswersKept, Dwindle
      PROVE  AnswersInv'
  <2>1. \A q : AnswerExists(q)' => AnswerExists(q) /\ q # fresh
    BY <1>1, <1>2, <1>3, <1>4, <1>5 DEF AnswersKept, Dwindle
  <2>2. ASSUME NEW s \in Switches
        PROVE  /\ \A k \in DOMAIN issued'[s] : ~ AnswerExists(issued[s][k])'
               /\ \A q \in invites'[s] : ~ AnswerExists(q)'
    BY <1>5, <2>1 DEF AnswersInv, Dwindle
  <2>3. ASSUME NEW p \in Processes, Answers(p)'
        PROVE  /\ call'[p].to \in DOMAIN state'[p].peers
               /\ call'[p].preimage \in DOMAIN response_cache' =>
                    response_cache'[call'[p].preimage] = AnswerOf(p)'
               /\ \A r \in Processes : Answers(r)' /\ call'[p].preimage = call'[r].preimage =>
                    AnswerOf(p)' = AnswerOf(r)'
    BY <1>5, <2>3 DEF AnswersInv, AnswersKept, Dwindle, AnswerOf
  <2> QED
    BY <2>2, <2>3 DEF AnswersInv
<1>6. ASSUME NEW p \in Processes, CachedResponse(p)
      PROVE  AnswersInv'
  <2>1. PICK n : n = call[p].preimage
    OBVIOUS
  <2>2. /\ UNCHANGED <<issued, invites>> /\ n \in DOMAIN response_cache
        /\ DOMAIN response_cache' = DOMAIN response_cache \ {n}
        /\ \A q \in DOMAIN response_cache' : response_cache'[q] = response_cache[q]
    BY <1>6, <2>1, CachedFacts DEF switchVars
  <2>3. /\ \A r \in Processes \ {p} : Answers(r)' =>
             Answers(r) /\ call'[r] = call[r] /\ state'[r] = state[r]
        /\ Answers(p)' => /\ call'[p] = call[p] /\ call[p].to \in DOMAIN state'[p].peers
                          /\ AnswerOf(p)' = response_cache[n]
    BY <1>6, <2>1, CachedFacts, NewAnswer
  <2>4. \A q : AnswerExists(q)' => AnswerExists(q)
    BY <1>3, <1>4, <2>1, <2>2, <2>3
  <2>5. ASSUME NEW r \in Processes, r # p, Answers(r)'
        PROVE  /\ call'[r].to \in DOMAIN state'[r].peers
               /\ call'[r].preimage \in DOMAIN response_cache' =>
                    response_cache'[call'[r].preimage] = AnswerOf(r)'
               /\ AnswerOf(r)' = AnswerOf(r) /\ Answers(r)
               /\ call'[r].preimage = n => AnswerOf(r) = response_cache[n]
    BY <2>2, <2>3, <2>5 DEF AnswersInv, AnswerOf
  <2>6. \A r, t \in Processes \ {p} :
          Answers(r)' /\ Answers(t)' /\ call'[r].preimage = call'[t].preimage =>
            AnswerOf(r)' = AnswerOf(t)'
    BY <2>3, <2>5 DEF AnswersInv
  <2> QED
    BY <2>1, <2>2, <2>3, <2>4, <2>5, <2>6 DEF AnswersInv
<1>7. ASSUME NEW p \in Processes, NEW s \in Switches, Delivered(p, s)
      PROVE  AnswersInv'
  <2>1. PICK n : n = call[p].preimage
    OBVIOUS
  <2>2. /\ \A t \in Switches \ {s} : issued'[t] = issued[t] /\ invites'[t] = invites[t]
        /\ DOMAIN response_cache' = DOMAIN response_cache \cup {n}
        /\ response_cache'[n] = fresh
        /\ \A q \in DOMAIN response_cache : response_cache'[q] = response_cache[q]
    BY <1>7, <2>1, DeliveredFacts
  <2>3. /\ \A r \in Processes \ {p} : Answers(r)' =>
             Answers(r) /\ call'[r] = call[r] /\ state'[r] = state[r]
        /\ Answers(p)' => /\ call'[p] = call[p] /\ call[p].to \in DOMAIN state'[p].peers
                          /\ AnswerOf(p)' = fresh
    BY <1>7, DeliveredFacts, NewAnswer
  <2>4. PICK k : Reissues(p, s, k)
    BY <1>7, DeliveredFacts
  <2>5. ~ AnswerExists(n)
    BY <2>1, <2>4 DEF Reissues, AnswersInv
  <2>6. \A q : AnswerExists(q)' => AnswerExists(q) \/ q = n
    BY <1>3, <1>4, <2>1, <2>2, <2>3
  <2>7. \A q : AnswerExists(q)' => q # fresh
    <3>1. at[p] \in Loaded
      BY <1>7, DeliveredFacts DEF Loaded
    <3> QED
      BY <1>1, <1>2, <1>4, <2>1, <2>2, <2>3, <3>1
  <2>8. ASSUME NEW r \in Processes, r # p, Answers(r)'
        PROVE  /\ call'[r].to \in DOMAIN state'[r].peers /\ call'[r].preimage # n
               /\ call'[r].preimage \in DOMAIN response_cache' =>
                    response_cache'[call'[r].preimage] = AnswerOf(r)'
               /\ AnswerOf(r)' = AnswerOf(r) /\ Answers(r) /\ call'[r] = call[r]
    <3>1. call'[r].preimage # n
      BY <1>3, <2>3, <2>5, <2>8
    <3> QED
      BY <2>2, <2>3, <2>8, <3>1 DEF AnswersInv, AnswerOf
  <2>9. \A r, t \in Processes : Answers(r)' /\ Answers(t)' /\ call'[r].preimage = call'[t].preimage =>
            AnswerOf(r)' = AnswerOf(t)'
    <3>1. \A r, t \in Processes \ {p} :
            Answers(r)' /\ Answers(t)' /\ call'[r].preimage = call'[t].preimage =>
              AnswerOf(r)' = AnswerOf(t)'
      BY <2>8 DEF AnswersInv
    <3> QED
      BY <2>1, <2>3, <2>8, <3>1
  <2>10. ASSUME NEW t \in Switches
         PROVE  /\ \A j \in DOMAIN issued'[t] : issued'[t][j] # n
                /\ n \notin invites'[t]
                /\ \A j \in DOMAIN issued'[t] : issued'[t][j] = fresh \/ ~ AnswerExists(issued'[t][j])
                /\ \A q \in invites'[t] : ~ AnswerExists(q)
    <3>1. n # fresh
      BY <1>1, <2>1, <2>4 DEF Reissues
    <3>2. CASE t = s
      BY <2>1, <2>4, <3>1, <3>2 DEF Reissues, IssuedOnce, AnswersInv
    <3>3. CASE t # s
      BY <2>1, <2>2, <2>4, <3>3 DEF Reissues, IssuedOnce, AnswersInv
    <3> QED
      BY <3>2, <3>3
  <2>11. \A t \in Switches : /\ \A j \in DOMAIN issued'[t] : ~ AnswerExists(issued[t][j])'
                             /\ \A q \in invites'[t] : ~ AnswerExists(q)'
    BY <2>6, <2>7, <2>10
  <2>12. ASSUME NEW r \in Processes, Answers(r)'
         PROVE  /\ call'[r].to \in DOMAIN state'[r].peers
                /\ call'[r].preimage \in DOMAIN response_cache' =>
                     response_cache'[call'[r].preimage] = AnswerOf(r)'
    BY <2>1, <2>2, <2>3, <2>8, <2>12
  <2> QED
    BY <2>9, <2>11, <2>12 DEF AnswersInv
<1> QED
  BY <1>5, <1>6, <1>7, StepKinds, NoNewAnswer DEF Works

\* The tokens that were given stay, and there is at most a new one.
LEMMA ApartGives ==
  ASSUME TypeOK, Apart
  PROVE  /\ \A t \in DOMAIN given : t \in DOMAIN given' /\ given'[t] = given[t]
         /\ \E d \in Nat : \A t \in DOMAIN given' :
              t \in DOMAIN given \/ (t = fresh /\ given'[t] = d)
<1>1. CASE given' = given
  <2>1. 0 \in Nat
    OBVIOUS
  <2> QED
    BY <1>1, <2>1
<1>2. CASE \E s \in Switches : Invite(s)
  <2>1. PICK s \in Switches : given' = Put(given, fresh, id52[s])
    BY <1>2 DEF Invite
  <2>2. id52[s] \in Nat /\ fresh \notin DOMAIN given
    BY FreshIsNew DEF TypeOK, SwitchesOK, TokensOK, Drawn
  <2> QED
    BY <2>1, <2>2 DEF Put
<1> QED
  BY <1>1, <1>2 DEF Apart, TakeReset, Expire

Has(ps, v) == \E d \in DOMAIN ps : ps[d] = v

\* v is nothing but the answer to p's message.
Unused(v, p) ==
  /\ v \notin DOMAIN response_cache \cup DOMAIN given
  /\ \A q \in DOMAIN response_cache : response_cache[q] = v => q = call[p].preimage
  /\ \A r \in Processes \ {p} : at[r] \in Loaded =>
       call[r].preimage # v /\ ~ Has(state[r].peers, v)
  /\ Readable(state_json) => ~ Has(state_json.peers, v)

\* An answer that is in the cache of the relay and in the memory of a process
\* is nowhere else.
Unshared ==
  \A p \in Processes :
    At(p, "open2") /\ call[p].preimage \in DOMAIN response_cache => Unused(AnswerOf(p), p)

LEMMA UnsharedStep ==
  ASSUME StatesAreReadable, TypeOK, AnswersInv, Unshared, [Next]_vars
  PROVE  Unshared'
<1> USE FreshIsNew
<1>0. \A p \in Processes : Answers(p) => AnswerOf(p) \in Drawn /\ at[p] \in Loaded
  BY DEF AnswersInv, Answers, AnswerOf, Loaded, TypeOK, ProcessesOK, ProcessOK, IsState
<1>1. \A v : ~ Has(NoState.peers, v)
  BY DEF Has, NoState, DeviceState, EmptyMap
<1>2. ASSUME NEW p \in Processes, At(p, "open2")', At(p, "open2"), call'[p] = call[p],
             state'[p] = state[p], call[p].preimage \in DOMAIN response_cache, Dwindle,
             \A t \in DOMAIN given' : t \in DOMAIN given \/ t = fresh,
             \A r \in Processes \ {p} : at'[r] \in Loaded =>
               \/ at[r] \in Loaded /\ call'[r] = call[r] /\ state'[r] = state[r]
               \/ call'[r].preimage # AnswerOf(p) /\ ~ Has(state'[r].peers, AnswerOf(p)),
             Readable(state_json') =>
               \/ state_json' = state_json
               \/ ~ Has(state_json'.peers, AnswerOf(p))
      PROVE  Unused(AnswerOf(p), p)'
  <2>1. Unused(AnswerOf(p), p) /\ AnswerOf(p)' = AnswerOf(p) /\ AnswerOf(p) # fresh
    BY <1>0, <1>2 DEF Unshared, AnswerOf, Answers, At
  <2> QED
    BY <1>2, <2>1 DEF Unused, Dwindle
<1>3. CASE Apart
  <2> SUFFICES ASSUME NEW p \in Processes, At(p, "open2")', call'[p].preimage \in DOMAIN response_cache'
               PROVE  Unused(AnswerOf(p), p)'
    BY DEF Unshared
  <2>1. NobodyWorks /\ UNCHANGED state_json /\ Dwindle
    BY <1>3, ApartDwindles DEF Apart
  <2> QED
    BY <1>2, <1>3, <2>1, ApartGives DEF NobodyWorks, Kept, Loaded, At, Dwindle
<1>4. ASSUME NEW p \in Processes, PairBegins(p) \/ SendBegins(p)
      PROVE  Unshared'
  <2> SUFFICES ASSUME NEW r \in Processes, At(r, "open2")', call'[r].preimage \in DOMAIN response_cache'
               PROVE  Unused(AnswerOf(r), r)'
    BY DEF Unshared
  <2>1. /\ OthersStay(p) /\ UNCHANGED <<state_json, switchVars, response_cache, given>>
        /\ at'[p] # "open2" /\ state_json \notin {Empty, Garbled}
        /\ state'[p].peers = LoadedState.peers
        /\ \/ call'[p].preimage \in DOMAIN given
           \/ state_json # None /\ Has(LoadedState.peers, call'[p].preimage)
    BY <1>4, BeginFacts DEF Has
  <2>2. r # p
    BY <2>1 DEF At
  <2>3. Unused(AnswerOf(r), r)
    BY <2>1, <2>2 DEF Unshared, OthersStay, At
  <2>4. ~ Has(LoadedState.peers, AnswerOf(r))
    BY <1>1, <2>1, <2>3 DEF Unused, LoadedState, Readable
  <2>5. call'[p].preimage # AnswerOf(r) /\ ~ Has(state'[p].peers, AnswerOf(r))
    BY <2>1, <2>3, <2>4 DEF Unused, Has
  <2> QED
    BY <1>2, <2>1, <2>2, <2>5, SameDwindles DEF OthersStay, At
<1>5. ASSUME NEW p \in Processes, OpenStateFile(p) \/ WriteStateFile(p)
      PROVE  Unshared'
  <2> SUFFICES ASSUME NEW r \in Processes, At(r, "open2")', call'[r].preimage \in DOMAIN response_cache'
               PROVE  Unused(AnswerOf(r), r)'
    BY DEF Unshared
  <2>1. /\ OthersStay(p) /\ UNCHANGED <<switchVars, response_cache, given>>
        /\ at'[p] # "open2" /\ at[p] \in Loaded
        /\ at'[p] \in Loaded => UNCHANGED <<state[p], call[p]>>
        /\ state_json' \in {Empty, Garbled, state[p]}
    <3>1. CASE OpenStateFile(p)
      BY <3>1, OpenFacts DEF procVars, Loaded
    <3>2. CASE WriteStateFile(p)
      BY <3>2, WriteFacts DEF Loaded
    <3> QED
      BY <1>5, <3>1, <3>2
  <2>2. r # p
    BY <2>1 DEF At
  <2>3. Unused(AnswerOf(r), r)
    BY <2>1, <2>2 DEF Unshared, OthersStay, At
  <2>4. ~ Has(state[p].peers, AnswerOf(r))
    BY <2>1, <2>2, <2>3 DEF Unused
  <2> QED
    BY <1>2, <2>1, <2>2, <2>4, SameDwindles DEF OthersStay, At, Readable
<1>6. ASSUME NEW p \in Processes, CachedResponse(p)
      PROVE  Unshared'
  <2> SUFFICES ASSUME NEW r \in Processes, At(r, "open2")', call'[r].preimage \in DOMAIN response_cache'
               PROVE  Unused(AnswerOf(r), r)'
    BY DEF Unshared
  <2>1. PICK n : n = call[p].preimage
    OBVIOUS
  <2>2. /\ OthersStay(p) /\ UNCHANGED <<state_json, switchVars, given>>
        /\ at[p] = "call" /\ n \in DOMAIN response_cache
        /\ DOMAIN response_cache' = DOMAIN response_cache \ {n}
        /\ \A q \in DOMAIN response_cache' : response_cache'[q] = response_cache[q]
        /\ GetsAnswer(p, response_cache[n])
    BY <1>6, <2>1, CachedFacts DEF homeVars
  <2>3. r # p
    BY <2>1, <2>2 DEF GetsAnswer, At
  <2>4. At(r, "open2") /\ call'[r] = call[r] /\ state'[r] = state[r] /\ call[r].preimage # n
        /\ call[r].preimage \in DOMAIN response_cache
    BY <2>2, <2>3 DEF OthersStay, At
  <2>5. Unused(AnswerOf(r), r)
    BY <2>4 DEF Unshared
  <2>6. response_cache[n] # AnswerOf(r)
    BY <2>2, <2>4, <2>5 DEF Unused
  <2>7. at'[p] \in Loaded => call'[p].preimage # AnswerOf(r) /\ ~ Has(state'[p].peers, AnswerOf(r))
    <3>1. call[p].preimage # AnswerOf(r) /\ ~ Has(state[p].peers, AnswerOf(r))
      BY <2>2, <2>3, <2>5 DEF Unused, Loaded
    <3> QED
      BY <2>2, <2>6, <3>1 DEF GetsAnswer, Has, Put, Loaded
  <2>8. Dwindle
    BY <2>2, SameDwindles, FreshIsNew DEF Dwindle, switchVars, TypeOK, SwitchesOK
  <2> QED
    BY <1>2, <2>2, <2>3, <2>4, <2>7, <2>8 DEF OthersStay
<1>7. ASSUME NEW p \in Processes, NEW s \in Switches, Delivered(p, s)
      PROVE  Unshared'
  <2> SUFFICES ASSUME NEW r \in Processes, At(r, "open2")', call'[r].preimage \in DOMAIN response_cache'
               PROVE  Unused(AnswerOf(r), r)'
    BY DEF Unshared
  <2>1. PICK n : n = call[p].preimage
    OBVIOUS
  <2>2. /\ OthersStay(p) /\ UNCHANGED <<state_json, given>> /\ at[p] = "call"
        /\ DOMAIN response_cache' = DOMAIN response_cache \cup {n}
        /\ response_cache'[n] = fresh
        /\ \A q \in DOMAIN response_cache : response_cache'[q] = response_cache[q]
        /\ GetsAnswer(p, fresh)
    BY <1>7, <2>1, DeliveredFacts
  <2>3. PICK k : Reissues(p, s, k)
    BY <1>7, DeliveredFacts
  <2>4. ~ AnswerExists(n) /\ n \in Drawn
    BY <2>1, <2>3 DEF Reissues, AnswersInv, TypeOK, SwitchesOK
  <2>5. /\ DOMAIN response_cache \cup DOMAIN given \subseteq Drawn
        /\ \A q \in DOMAIN response_cache : response_cache[q] \in Drawn
        /\ \A x \in Processes : at[x] \in Loaded =>
             /\ call[x].preimage \in Drawn
             /\ \A d \in DOMAIN state[x].peers : state[x].peers[d] \in Drawn
        /\ Readable(state_json) => \A d \in DOMAIN state_json.peers : state_json.peers[d] \in Drawn
    BY DEF TypeOK, TokensOK, ProcessesOK, ProcessOK, HomeOK, IsState, Readable
  <2>6. CASE r = p
    <3>1. /\ call'[p] = call[p] /\ AnswerOf(p)' = fresh
      BY <2>2, <2>6 DEF GetsAnswer, At, AnswerOf, Put
    <3>2. \A x \in Processes \ {p} : at'[x] \in Loaded =>
            call'[x].preimage # fresh /\ ~ Has(state'[x].peers, fresh)
      BY <2>2, <2>5 DEF OthersStay, Has
    <3>3. Readable(state_json') => ~ Has(state_json'.peers, fresh)
      BY <2>2, <2>5 DEF Has
    <3>4. /\ fresh \notin DOMAIN response_cache' \cup DOMAIN given'
          /\ \A q \in DOMAIN response_cache' : response_cache'[q] = fresh => q = n
      BY <2>2, <2>4, <2>5
    <3> QED
      BY <2>1, <2>6, <3>1, <3>2, <3>3, <3>4 DEF Unused
  <2>7. CASE r # p
    <3>1. At(r, "open2") /\ call'[r] = call[r] /\ state'[r] = state[r]
      BY <2>2, <2>7 DEF OthersStay, At
    <3>2. call[r].preimage # n
      BY <2>4, <3>1 DEF AnswerExists, At
    <3>3. /\ AnswerOf(r)' = AnswerOf(r) /\ AnswerOf(r) # fresh
          /\ Unused(AnswerOf(r), r) /\ call[p].preimage # AnswerOf(r) /\ ~ Has(state[p].peers, AnswerOf(r))
      BY <1>0, <2>2, <2>7, <3>1, <3>2 DEF Unshared, Unused, AnswerOf, Answers, At, Loaded
    <3>4. at'[p] \in Loaded => call'[p].preimage # AnswerOf(r) /\ ~ Has(state'[p].peers, AnswerOf(r))
      BY <2>2, <3>3 DEF GetsAnswer, Has, Put, Loaded
    <3>5. /\ AnswerOf(r) \notin DOMAIN response_cache' \cup DOMAIN given'
          /\ \A q \in DOMAIN response_cache' : response_cache'[q] = AnswerOf(r) => q = call[r].preimage
      BY <2>1, <2>2, <3>3 DEF Unused
    <3>6. \A x \in Processes \ {r} : at'[x] \in Loaded =>
            call'[x].preimage # AnswerOf(r) /\ ~ Has(state'[x].peers, AnswerOf(r))
      BY <2>2, <3>3, <3>4 DEF Unused, OthersStay
    <3> QED
      BY <2>2, <3>1, <3>3, <3>5, <3>6 DEF Unused
  <2> QED
    BY <2>6, <2>7
<1> QED
  BY <1>3, <1>4, <1>5, <1>6, <1>7, StepKinds DEF Works

\* Every preimage is of one switch: of[q] is the one that q is used with.
PeersNamed(of, ps) == \A d \in DOMAIN ps : of[ps[d]] = d

ProcessNamed(of, p) ==
  at[p] \in Loaded =>
    /\ PeersNamed(of, state[p].peers)
    /\ of[call[p].preimage] = call[p].to
    /\ cmd[p].name = "pair" => call[p].preimage \in DOMAIN given

NamedBy(of) ==
  /\ \A t \in DOMAIN given : of[t] = given[t]
  /\ Readable(state_json) => PeersNamed(of, state_json.peers)
  /\ \A p \in Processes : ProcessNamed(of, p)
  /\ \A q \in DOMAIN response_cache : of[response_cache[q]] = of[q]

NamedInv == \E of \in [Nat -> Nat] : NamedBy(of)

\* The next preimage can be of any switch.
LEMMA NamesGrow ==
  ASSUME TypeOK, NEW of \in [Nat -> Nat], NamedBy(of), NEW d \in Nat
  PROVE  \E new \in [Nat -> Nat] : NamedBy(new) /\ new[fresh] = d
<1>1. PICK new \in [Nat -> Nat] : new = [of EXCEPT ![fresh] = d]
  OBVIOUS
<1>2. fresh \in Nat /\ fresh \notin Drawn /\ Drawn \subseteq Nat
  BY FreshIsNew DEF TypeOK, HomeOK, Drawn
<1>3. new[fresh] = d /\ \A q \in Drawn : new[q] = of[q]
  BY <1>1, <1>2
<1>4. /\ DOMAIN response_cache \cup DOMAIN given \subseteq Drawn
      /\ \A q \in DOMAIN response_cache : response_cache[q] \in Drawn
      /\ \A p \in Processes : at[p] \in Loaded =>
           /\ call[p].preimage \in Drawn
           /\ \A x \in DOMAIN state[p].peers : state[p].peers[x] \in Drawn
      /\ Readable(state_json) => \A x \in DOMAIN state_json.peers : state_json.peers[x] \in Drawn
  BY DEF TypeOK, TokensOK, ProcessesOK, ProcessOK, HomeOK, IsState, Readable
<1>5. NamedBy(new)
  BY <1>3, <1>4 DEF NamedBy, ProcessNamed, PeersNamed
<1> QED
  BY <1>3, <1>5

\* What stays named: a process that does not move, or has ended.
LEMMA NamedStays ==
  ASSUME NEW of, NEW q \in Processes, ProcessNamed(of, q), DOMAIN given \subseteq DOMAIN given',
         \/ at'[q] \notin Loaded
         \/ at'[q] = at[q] /\ cmd'[q] = cmd[q] /\ state'[q] = state[q] /\ call'[q] = call[q]
  PROVE  ProcessNamed(of, q)'
BY DEF ProcessNamed, PeersNamed

LEMMA NamedStep ==
  ASSUME StatesAreReadable, TypeOK, NamedInv, [Next]_vars
  PROVE  NamedInv'
<1>1. PICK of \in [Nat -> Nat] : NamedBy(of)
  BY DEF NamedInv
<1>2. CASE Apart
  <2>1. PICK d \in Nat : \A t \in DOMAIN given' :
          t \in DOMAIN given \/ (t = fresh /\ given'[t] = d)
    BY <1>2, ApartGives
  <2>2. PICK new \in [Nat -> Nat] : NamedBy(new) /\ new[fresh] = d
    BY <1>1, NamesGrow
  <2>3. \A t \in DOMAIN given' : new[t] = given'[t]
    BY <1>2, <2>1, <2>2, ApartGives DEF NamedBy
  <2>4. /\ NobodyWorks /\ UNCHANGED state_json /\ Dwindle /\ DOMAIN given \subseteq DOMAIN given'
    BY <1>2, ApartDwindles, ApartGives DEF Apart
  <2>5. ASSUME NEW q \in Processes
        PROVE  ProcessNamed(new, q)'
    BY <2>2, <2>4, NamedStays DEF NobodyWorks, Kept, NamedBy
  <2>6. NamedBy(new)'
    BY <2>2, <2>3, <2>4, <2>5 DEF NamedBy, Dwindle
  <2> QED
    BY <2>6 DEF NamedInv
<1>3. ASSUME NEW p \in Processes, PairBegins(p) \/ SendBegins(p)
      PROVE  NamedInv'
  <2>1. /\ OthersStay(p) /\ UNCHANGED <<state_json, response_cache, given>>
        /\ cmd' = cmd /\ state_json \notin {Empty, Garbled} /\ state'[p].peers = LoadedState.peers
        /\ \/ /\ call'[p].preimage \in DOMAIN given /\ call'[p].to = given[call'[p].preimage]
           \/ /\ cmd[p].name = "send" /\ call'[p].to \in DOMAIN LoadedState.peers
              /\ call'[p].preimage = LoadedState.peers[call'[p].to]
    BY <1>3, BeginFacts
  <2>2. PeersNamed(of, LoadedState.peers)
    BY <1>1, <2>1 DEF NamedBy, PeersNamed, LoadedState, NoState, DeviceState, EmptyMap, Readable
  <2>3. ProcessNamed(of, p)'
    BY <1>1, <2>1, <2>2 DEF ProcessNamed, PeersNamed, NamedBy
  <2>4. ASSUME NEW q \in Processes \ {p}
        PROVE  ProcessNamed(of, q)'
    BY <1>1, <2>1, NamedStays DEF OthersStay, NamedBy
  <2>5. NamedBy(of)'
    BY <1>1, <2>1, <2>3, <2>4 DEF NamedBy
  <2> QED
    BY <2>5 DEF NamedInv
<1>4. ASSUME NEW p \in Processes, OpenStateFile(p) \/ WriteStateFile(p)
      PROVE  NamedInv'
  <2>1. /\ OthersStay(p) /\ UNCHANGED <<response_cache, given>> /\ at[p] \in Loaded
        /\ at'[p] \notin Loaded \/ UNCHANGED <<cmd[p], state[p], call[p]>>
        /\ state_json' \in {Empty, Garbled, state[p]}
    <3>1. CASE OpenStateFile(p)
      BY <3>1, OpenFacts DEF procVars, Loaded
    <3>2. CASE WriteStateFile(p)
      BY <3>2, WriteFacts DEF Loaded
    <3> QED
      BY <1>4, <3>1, <3>2
  <2>2. ProcessNamed(of, p) /\ PeersNamed(of, state[p].peers)
    BY <1>1, <2>1 DEF NamedBy, ProcessNamed
  <2>3. ProcessNamed(of, p)'
    BY <2>1, <2>2 DEF ProcessNamed, PeersNamed
  <2>4. ASSUME NEW q \in Processes \ {p}
        PROVE  ProcessNamed(of, q)'
    BY <1>1, <2>1, NamedStays DEF OthersStay, NamedBy
  <2>5. Readable(state_json') => PeersNamed(of, state_json'.peers)
    BY <2>1, <2>2 DEF Readable
  <2>6. NamedBy(of)'
    BY <1>1, <2>1, <2>3, <2>4, <2>5 DEF NamedBy, PeersNamed
  <2> QED
    BY <2>6 DEF NamedInv
\* The answer is of the switch that is called.
<1>5. ASSUME NEW p \in Processes, NEW n, NEW next, NEW new \in [Nat -> Nat], NamedBy(new),
             at[p] = "call", n = call[p].preimage, new[next] = new[n],
             OthersStay(p), GetsAnswer(p, next), UNCHANGED <<state_json, given>>,
             \A q \in DOMAIN response_cache' :
               \/ q \in DOMAIN response_cache /\ response_cache'[q] = response_cache[q]
               \/ q = n /\ response_cache'[q] = next
      PROVE  NamedInv'
  <2>1. ProcessNamed(new, p)'
    <3>1. PeersNamed(new, state[p].peers) /\ new[n] = call[p].to /\ ProcessNamed(new, p)
      BY <1>5 DEF NamedBy, ProcessNamed, Loaded
    <3>2. CASE at'[p] = "idle"
      BY <3>2 DEF ProcessNamed, Loaded
    <3>3. CASE at'[p] # "idle"
      <4>1. /\ cmd'[p] = cmd[p] /\ call'[p] = call[p]
            /\ state'[p].peers = Put(state[p].peers, call[p].to, next)
        BY <1>5, <3>3 DEF GetsAnswer
      <4>2. PeersNamed(new, state'[p].peers)
        BY <1>5, <3>1, <4>1 DEF PeersNamed, Put
      <4> QED
        BY <1>5, <3>1, <4>1, <4>2 DEF ProcessNamed, PeersNamed, Loaded
    <3> QED
      BY <3>2, <3>3
  <2>2. ASSUME NEW q \in Processes \ {p}
        PROVE  ProcessNamed(new, q)'
    BY <1>5, NamedStays DEF OthersStay, NamedBy
  <2>3. NamedBy(new)'
    BY <1>5, <2>1, <2>2 DEF NamedBy
  <2> QED
    BY <2>3 DEF NamedInv
<1>6. ASSUME NEW p \in Processes, CachedResponse(p)
      PROVE  NamedInv'
  <2>1. PICK n : n = call[p].preimage
    OBVIOUS
  <2>2. PICK next : next = response_cache[n]
    OBVIOUS
  <2>3. /\ OthersStay(p) /\ GetsAnswer(p, next) /\ at[p] = "call" /\ n \in DOMAIN response_cache
        /\ UNCHANGED <<state_json, given>>
    BY <1>6, <2>1, <2>2, CachedFacts DEF homeVars
  <2>4. of[next] = of[n]
    BY <1>1, <2>2, <2>3 DEF NamedBy
  <2>5. \A q \in DOMAIN response_cache' :
          q \in DOMAIN response_cache /\ response_cache'[q] = response_cache[q]
    BY <1>6, CachedFacts
  <2> QED
    BY <1>1, <1>5, <2>1, <2>3, <2>4, <2>5
<1>7. ASSUME NEW p \in Processes, NEW s \in Switches, Delivered(p, s)
      PROVE  NamedInv'
  <2>1. PICK n : n = call[p].preimage
    OBVIOUS
  <2>2. /\ OthersStay(p) /\ GetsAnswer(p, fresh) /\ at[p] = "call"
        /\ UNCHANGED <<state_json, given>>
    BY <1>7, DeliveredFacts
  <2>3. call[p].to \in Nat
    <3>1. call[p] \in [to : Drawn, preimage : Drawn]
      BY <2>2 DEF TypeOK, ProcessesOK, ProcessOK, Loaded
    <3>2. Drawn \subseteq Nat
      BY DEF Drawn, TypeOK, HomeOK
    <3> QED
      BY <3>1, <3>2
  <2>4. PICK new \in [Nat -> Nat] : NamedBy(new) /\ new[fresh] = call[p].to
    BY <1>1, <2>3, NamesGrow
  <2>5. new[fresh] = new[n]
    BY <2>1, <2>2, <2>4 DEF NamedBy, ProcessNamed, Loaded
  <2>6. \A q \in DOMAIN response_cache' :
          \/ q \in DOMAIN response_cache /\ response_cache'[q] = response_cache[q]
          \/ q = n /\ response_cache'[q] = fresh
    BY <1>7, <2>1, DeliveredFacts
  <2> QED
    BY <1>5, <2>1, <2>2, <2>4, <2>5, <2>6
<1> QED
  BY <1>2, <1>3, <1>4, <1>6, <1>7, StepKinds DEF Works

HomeInv == TypeOK /\ CopyInv /\ IssuedOnce /\ AnswersInv /\ Unshared /\ NamedInv

\* Where a preimage of switch d is held.
InFile(d, q) ==
  Readable(state_json) /\ d \in DOMAIN state_json.peers /\ state_json.peers[d] = q
Writes(p) == at[p] \in {"write1", "write2"}
WrittenBy(p, d, q) ==
  Writes(p) /\ d \in DOMAIN state[p].peers /\ state[p].peers[d] = q
AnsweredTo(p, d, q) ==
  at[p] = "open2" /\ call[p].to = d /\ state[p].peers[d] = q
InToken(d, q) == q \in DOMAIN given /\ given[q] = d

LEMMA HeldIs ==
  ASSUME NEW d, NEW q
  PROVE  /\ q \in Held(d) <=>
              \/ InFile(d, q) \/ InToken(d, q)
              \/ \E p \in Processes : WrittenBy(p, d, q) \/ AnsweredTo(p, d, q)
         /\ q \in Held(d)' <=>
              \/ InFile(d, q)' \/ InToken(d, q)'
              \/ \E p \in Processes : WrittenBy(p, d, q)' \/ AnsweredTo(p, d, q)'
<1>1. q \in Held(d) <=>
        \/ InFile(d, q) \/ InToken(d, q)
        \/ \E p \in Processes : WrittenBy(p, d, q) \/ AnsweredTo(p, d, q)
  BY DEF Held, Records, InFile, InToken, WrittenBy, Writes, AnsweredTo, Readable, At
<1>2. q \in Held(d)' <=>
        \/ InFile(d, q)' \/ InToken(d, q)'
        \/ \E p \in Processes : WrittenBy(p, d, q)' \/ AnsweredTo(p, d, q)'
  BY DEF Held, Records, InFile, InToken, WrittenBy, Writes, AnsweredTo, Readable, At
<1> QED
  BY <1>1, <1>2

LEMMA RecordsAre ==
  /\ Records # {} <=> Readable(state_json) \/ \E p \in Processes : Writes(p)
  /\ Records' # {} <=> Readable(state_json') \/ \E p \in Processes : Writes(p)'
<1>1. Records # {} <=> Readable(state_json) \/ \E p \in Processes : Writes(p)
  BY DEF Records, Readable, Writes
<1>2. Records' # {} <=> Readable(state_json') \/ \E p \in Processes : Writes(p)'
  BY DEF Records, Readable, Writes
<1> QED
  BY <1>1, <1>2

\* What is held of a switch is of that switch.
LEMMA HeldNamed ==
  ASSUME AnswersInv, NEW of, NamedBy(of), NEW d, NEW q \in Held(d)
  PROVE  of[q] = d
<1>1. CASE InFile(d, q)
  BY <1>1 DEF InFile, NamedBy, PeersNamed
<1>2. CASE InToken(d, q)
  BY <1>2 DEF InToken, NamedBy
<1>3. ASSUME NEW p \in Processes, WrittenBy(p, d, q) \/ AnsweredTo(p, d, q)
      PROVE  of[q] = d
  <2>1. at[p] \in Loaded
    BY <1>3 DEF WrittenBy, Writes, AnsweredTo, Loaded
  <2>2. d \in DOMAIN state[p].peers /\ state[p].peers[d] = q
    BY <1>3 DEF WrittenBy, AnsweredTo, AnswersInv, Answers
  <2> QED
    BY <2>1, <2>2 DEF NamedBy, ProcessNamed, PeersNamed
<1> QED
  BY <1>1, <1>2, <1>3, HeldIs

\* Who goes on holding an answer goes on holding the preimage told in it.
LEMMA AnswerHeld ==
  ASSUME AnswersInv, NEW of, NamedBy(of), NEW d, NEW r \in Processes, Answers(r),
         of[call[r].preimage] = d,
         at'[r] = at[r], call'[r] = call[r], state'[r] = state[r]
  PROVE  \E q \in Held(d)' : q = AnswerOf(r)
<1>1. at[r] \in Loaded
  BY DEF Answers, Loaded
<1>2. call[r].to = d
  BY <1>1 DEF NamedBy, ProcessNamed
<1>3. d \in DOMAIN state[r].peers
  BY <1>2 DEF AnswersInv
<1>4. PICK q : q = AnswerOf(r)
  OBVIOUS
<1>5. WrittenBy(r, d, q)' \/ AnsweredTo(r, d, q)'
  BY <1>2, <1>3, <1>4 DEF Answers, AnswerOf, WrittenBy, Writes, AnsweredTo
<1> QED
  BY <1>4, <1>5, HeldIs

\* The answer to x is no more with the relay, and not lost: it is with a process.
LEMMA SecondAnswer ==
  ASSUME AnswersInv, NEW of, NamedBy(of), NEW d, NEW x, of[x] = d,
         AnswerExists(x)', x \notin DOMAIN response_cache',
         \A r \in Processes : Answers(r)' =>
           at'[r] = at[r] /\ call'[r] = call[r] /\ state'[r] = state[r]
  PROVE  \E r \in Processes :
           Answers(r) /\ call[r].preimage = x /\ \E q \in Held(d)' : q = AnswerOf(r)
<1>1. PICK r \in Processes : Answers(r)' /\ call'[r].preimage = x
  BY DEF AnswerExists, Answers
<1>2. at'[r] = at[r] /\ call'[r] = call[r] /\ state'[r] = state[r]
  BY <1>1
<1>3. Answers(r) /\ call[r].preimage = x
  BY <1>1, <1>2 DEF Answers
<1> QED
  BY <1>2, <1>3, AnswerHeld

\* The preimage q of s is the one that it waits for, or the relay will tell it.
Reaches(s, q) ==
  \E k \in DOMAIN issued[s] :
    \/ issued[s][k] = q
    \/ q \in DOMAIN response_cache /\ issued[s][k] = response_cache[q]

LEMMA TouchIs ==
  ASSUME NEW s
  PROVE  /\ InTouch(s) <=> Records # {} /\ \E q \in Held(id52[s]) : Reaches(s, q)
         /\ InTouch(s)' <=> Records' # {} /\ \E q \in Held(id52[s])' : Reaches(s, q)'
<1>1. InTouch(s) <=> Records # {} /\ \E q \in Held(id52[s]) : Reaches(s, q)
  BY DEF InTouch, Reaches
<1>2. InTouch(s)' <=> Records' # {} /\ \E q \in Held(id52[s])' : Reaches(s, q)'
  BY DEF InTouch, Reaches
<1> QED
  BY <1>1, <1>2

\* What the property excuses.
Excused(s) ==
  \/ \E q \in Drawn : AnswerLost(q)
  \/ \E p \in Processes : at[p] \in {"write1", "write2"} /\ Stops(p)
  \/ \E p \in stale : at'[p] # at[p]
  \/ id52'[s] # id52[s]
  \/ SavesPairing(s)

\* Nothing is lost where the holders are as before, and the relay and the
\* switch know what they knew.
LEMMA TouchKept ==
  ASSUME NEW s \in Switches, InTouch(s), UNCHANGED <<id52[s], issued[s]>>, Records' # {},
         \A q : q \in Held(id52[s]) => q \in Held(id52[s])',
         \A q \in DOMAIN response_cache :
           q \in DOMAIN response_cache' /\ response_cache'[q] = response_cache[q]
  PROVE  InTouch(s)'
<1>1. PICK q \in Held(id52[s]) : Reaches(s, q)
  BY TouchIs
<1>2. Reaches(s, q)'
  BY <1>1 DEF Reaches
<1> QED
  BY <1>1, <1>2, TouchIs

\* A switch that is not reset stays what it is.
LEMMA ApartSwitch ==
  ASSUME TypeOK, Apart, NEW s \in Switches, id52'[s] = id52[s]
  PROVE  issued'[s] = issued[s]
<1>1. CASE \E t \in Switches : TakeReset(t)
  <2>1. PICK t \in Switches : /\ id52' = [id52 EXCEPT ![t] = fresh]
                              /\ issued' = [issued EXCEPT ![t] = EmptyMap]
    BY <1>1 DEF TakeReset
  <2>2. id52[s] # fresh
    BY FreshIsNew DEF TypeOK, SwitchesOK
  <2> QED
    BY <2>1, <2>2 DEF TypeOK, SwitchesOK
<1>2. CASE UNCHANGED issued
  BY <1>2
<1> QED
  BY <1>1, <1>2 DEF Apart, switchVars, Invite, Expire

\* Nobody who is at work ends.
LEMMA TouchApart ==
  ASSUME HomeInv, Apart, NobodyStops, NEW s \in Switches, InTouch(s), ~ Excused(s)
  PROVE  InTouch(s)'
<1> USE DEF HomeInv
<1>1. /\ id52'[s] = id52[s] /\ issued'[s] = issued[s] /\ state_json' = state_json
      /\ \A p \in Processes : at[p] \in Loaded =>
           at'[p] = at[p] /\ call'[p] = call[p] /\ state'[p] = state[p]
      /\ \A t \in DOMAIN given : t \in DOMAIN given' /\ given'[t] = given[t]
  BY ApartSwitch, ApartGives DEF Excused, Apart, NobodyStops, Kept
<1>2. Records' # {}
  <2>1. Readable(state_json) \/ \E p \in Processes : Writes(p)
    BY TouchIs, RecordsAre
  <2>2. Readable(state_json') \/ \E p \in Processes : Writes(p)'
    BY <1>1, <2>1 DEF Writes, Loaded
  <2> QED
    BY <2>2, RecordsAre
<1>3. ASSUME NEW q, q \in Held(id52[s])
      PROVE  q \in Held(id52[s])'
  <2>1. PICK d : d = id52[s]
    OBVIOUS
  <2>2. \/ InFile(d, q) \/ InToken(d, q)
        \/ \E p \in Processes : WrittenBy(p, d, q) \/ AnsweredTo(p, d, q)
    BY <1>3, <2>1, HeldIs
  <2>3. \/ InFile(d, q)' \/ InToken(d, q)'
        \/ \E p \in Processes : WrittenBy(p, d, q)' \/ AnsweredTo(p, d, q)'
    BY <1>1, <2>2 DEF InFile, InToken, WrittenBy, Writes, AnsweredTo, Readable, Loaded
  <2> QED
    BY <1>1, <2>1, <2>3, HeldIs
<1>4. CASE UNCHANGED response_cache
  BY <1>1, <1>2, <1>3, <1>4, TouchKept
<1>5. ASSUME NEW x \in DOMAIN response_cache, Expire(x)
      PROVE  InTouch(s)'
  <2>1. UNCHANGED homeVars /\ response_cache' = Drop(response_cache, x)
    BY <1>5 DEF Expire
  <2>2. /\ x \notin DOMAIN response_cache'
        /\ \A q \in DOMAIN response_cache \ {x} :
             q \in DOMAIN response_cache' /\ response_cache'[q] = response_cache[q]
    BY <2>1 DEF Drop, Restrict
  <2>3. PICK q \in Held(id52[s]) : Reaches(s, q)
    BY TouchIs
  <2>4. CASE Reaches(s, q)'
    BY <1>1, <1>2, <1>3, <2>3, <2>4, TouchIs
  <2>5. CASE ~ Reaches(s, q)'
    <3>1. q = x /\ \E k \in DOMAIN issued[s] : issued[s][k] = response_cache[x]
      BY <1>1, <2>2, <2>3, <2>5 DEF Reaches
    <3>2. PICK of \in [Nat -> Nat] : NamedBy(of)
      BY DEF NamedInv
    <3>3. PICK d : d = id52[s]
      OBVIOUS
    <3>4. of[x] = d
      BY <2>3, <3>1, <3>2, <3>3, HeldNamed
    <3>5. AnswerExists(x) /\ x \in Drawn
      BY DEF AnswerExists, TypeOK, TokensOK
    <3>6. AnswerExists(x)'
      BY <2>1, <3>5 DEF Excused, AnswerLost
    <3>7. PICK r \in Processes :
            Answers(r) /\ call[r].preimage = x /\ \E v \in Held(d)' : v = AnswerOf(r)
      <4>1. \A r \in Processes : Answers(r)' =>
              at'[r] = at[r] /\ call'[r] = call[r] /\ state'[r] = state[r]
        BY <1>5 DEF Expire, procVars
      <4> QED
        BY <2>2, <3>2, <3>4, <3>6, <4>1, SecondAnswer
    <3>8. AnswerOf(r) = response_cache[x]
      BY <3>7 DEF AnswersInv
    <3> QED
      BY <1>1, <1>2, <3>1, <3>3, <3>7, <3>8, TouchIs DEF Reaches
  <2> QED
    BY <2>4, <2>5
<1> QED
  BY <1>4, <1>5 DEF Apart, TakeReset, Invite

\* A process ends; if it held an answer, another holds it or the relay does.
LEMMA TouchStops ==
  ASSUME HomeInv, NEW p \in Processes, Stops(p), NEW s \in Switches, InTouch(s), ~ Excused(s)
  PROVE  InTouch(s)'
<1> USE DEF HomeInv
<1>1. /\ UNCHANGED <<homeVars, switchVars, response_cache, given>>
      /\ OthersStay(p) /\ at'[p] = "idle" /\ at[p] # "idle"
  BY DEF Stops, End, Ended, OthersStay, At
<1>2. p \notin stale /\ ~ Writes(p)
  BY <1>1 DEF Excused, Writes
<1>3. Records' # {}
  <2>1. Readable(state_json) \/ \E r \in Processes \ {p} : Writes(r)
    BY <1>2, TouchIs, RecordsAre
  <2>2. Readable(state_json') \/ \E r \in Processes : Writes(r)'
    BY <1>1, <2>1 DEF OthersStay, Writes, homeVars
  <2> QED
    BY <2>2, RecordsAre
<1>4. \A x : Reaches(s, x) => Reaches(s, x)'
  BY <1>1 DEF Reaches, switchVars
<1>5. PICK d : d = id52[s] /\ d = id52'[s]
  BY <1>1 DEF switchVars
<1>6. PICK q \in Held(d) : Reaches(s, q)
  BY <1>5, TouchIs
<1>7. ASSUME \E x \in Held(d)' : Reaches(s, x)'
      PROVE  InTouch(s)'
  BY <1>3, <1>5, <1>7, TouchIs
<1>8. CASE q \in Held(d)'
  BY <1>4, <1>6, <1>7, <1>8
<1>9. CASE q \notin Held(d)'
  <2>1. AnsweredTo(p, d, q)
    <3>1. ~ (InFile(d, q) \/ InToken(d, q))
      BY <1>1, <1>9, HeldIs DEF InFile, InToken, homeVars
    <3>2. ASSUME NEW r \in Processes, r # p, WrittenBy(r, d, q) \/ AnsweredTo(r, d, q)
          PROVE  FALSE
      <4>1. WrittenBy(r, d, q)' \/ AnsweredTo(r, d, q)'
        BY <1>1, <3>2 DEF OthersStay, WrittenBy, Writes, AnsweredTo
      <4> QED
        BY <1>9, <4>1, HeldIs
    <3>3. ~ WrittenBy(p, d, q)
      BY <1>2 DEF WrittenBy
    <3> QED
      BY <1>6, <3>1, <3>2, <3>3, HeldIs
  <2>2. PICK n : n = call[p].preimage
    OBVIOUS
  <2>3. Answers(p) /\ AnswerOf(p) = q /\ call[p].to = d /\ At(p, "open2") /\ at[p] \in Loaded
    BY <2>1 DEF AnsweredTo, Answers, AnswerOf, At, Loaded
  <2>4. PICK of \in [Nat -> Nat] : NamedBy(of)
    BY DEF NamedInv
  <2>5. of[n] = d
    BY <2>2, <2>3, <2>4 DEF NamedBy, ProcessNamed
  <2>6. AnswerExists(n)'
    <3>1. AnswerExists(n)
      BY <2>2, <2>3 DEF AnswerExists, At
    <3>2. n \in Drawn
      BY <2>2, <2>3 DEF TypeOK, ProcessesOK, ProcessOK
    <3> QED
      BY <1>1, <3>1, <3>2 DEF Excused, AnswerLost
  <2>7. CASE n \notin DOMAIN response_cache
    <3>1. PICK r \in Processes :
            Answers(r) /\ call[r].preimage = n /\ \E v \in Held(d)' : v = AnswerOf(r)
      <4>1. \A r \in Processes : Answers(r)' =>
              at'[r] = at[r] /\ call'[r] = call[r] /\ state'[r] = state[r]
        BY <1>1 DEF OthersStay, Answers
      <4> QED
        BY <1>1, <2>4, <2>5, <2>6, <2>7, <4>1, SecondAnswer
    <3>2. AnswerOf(r) = q
      BY <2>2, <2>3, <3>1 DEF AnswersInv
    <3> QED
      BY <1>9, <3>1, <3>2
  <2>8. CASE n \in DOMAIN response_cache
    <3>1. response_cache[n] = q /\ q \notin DOMAIN response_cache
      BY <2>2, <2>3, <2>8 DEF AnswersInv, Unshared, Unused
    <3>2. Reaches(s, n)'
      BY <1>1, <1>6, <2>8, <3>1 DEF Reaches, switchVars
    <3>3. InFile(d, n) \/ InToken(d, n)
      <4>1. CopyOK(p) /\ cmd[p].name \in {"pair", "send"}
        BY <2>3 DEF CopyInv, CopyOK
      <4>2. CASE cmd[p].name = "send"
        BY <1>2, <2>2, <2>3, <4>1, <4>2 DEF CopyOK, LoadedState, Readable, InFile, At
      <4>3. CASE cmd[p].name = "pair"
        BY <2>2, <2>3, <2>4, <2>5, <4>3 DEF NamedBy, ProcessNamed, InToken
      <4> QED
        BY <4>1, <4>2, <4>3
    <3>4. InFile(d, n)' \/ InToken(d, n)'
      BY <1>1, <3>3 DEF InFile, InToken, homeVars
    <3> QED
      BY <1>7, <3>2, <3>4, HeldIs
  <2> QED
    BY <2>7, <2>8
<1> QED
  BY <1>8, <1>9

\* What the others hold, and what is given, stays.
LEMMA OthersHold ==
  ASSUME NEW p \in Processes, OthersStay(p), UNCHANGED given, NEW d, NEW q,
         \/ InToken(d, q)
         \/ \E r \in Processes \ {p} : WrittenBy(r, d, q) \/ AnsweredTo(r, d, q)
  PROVE  q \in Held(d)'
<1>1. \/ InToken(d, q)'
      \/ \E r \in Processes : WrittenBy(r, d, q)' \/ AnsweredTo(r, d, q)'
  BY DEF InToken, OthersStay, WrittenBy, Writes, AnsweredTo
<1> QED
  BY <1>1, HeldIs

\* The file is as it was, and the process that goes on held nothing.
LEMMA SameHeld ==
  ASSUME NEW p \in Processes, OthersStay(p), UNCHANGED <<given, state_json>>,
         ~ Answers(p), ~ Writes(p)
  PROVE  /\ Records # {} => Records' # {}
         /\ \A d, q : q \in Held(d) => q \in Held(d)'
<1>1. Records # {} => Records' # {}
  <2>1. ASSUME Readable(state_json) \/ \E r \in Processes \ {p} : Writes(r)
        PROVE  Readable(state_json') \/ \E r \in Processes : Writes(r)'
    BY <2>1 DEF OthersStay, Writes
  <2> QED
    BY <2>1, RecordsAre
<1>2. ASSUME NEW d, NEW q, q \in Held(d)
      PROVE  q \in Held(d)'
  <2>1. CASE InFile(d, q)
    <3>1. InFile(d, q)'
      BY <2>1 DEF InFile
    <3> QED
      BY <3>1, HeldIs
  <2>2. CASE ~ InFile(d, q)
    <3>1. ~ (WrittenBy(p, d, q) \/ AnsweredTo(p, d, q))
      BY DEF WrittenBy, AnsweredTo, Answers
    <3> QED
      BY <1>2, <2>2, <3>1, HeldIs, OthersHold
  <2> QED
    BY <2>1, <2>2
<1> QED
  BY <1>1, <1>2

LEMMA TouchBegins ==
  ASSUME StatesAreReadable, HomeInv, NEW p \in Processes, PairBegins(p) \/ SendBegins(p),
         NEW s \in Switches, InTouch(s)
  PROVE  InTouch(s)'
<1>1. /\ OthersStay(p) /\ at[p] = "state"
      /\ UNCHANGED <<state_json, switchVars, response_cache, given>>
  BY BeginFacts DEF HomeInv
<1>2. ~ Answers(p) /\ ~ Writes(p)
  BY <1>1 DEF Answers, Writes
<1>3. Records # {} => Records' # {}
  BY <1>1, <1>2, SameHeld
<1>4. \A d, q : q \in Held(d) => q \in Held(d)'
  BY <1>1, <1>2, SameHeld
<1> QED
  BY <1>1, <1>3, <1>4, TouchIs, TouchKept DEF switchVars

\* What the file held is in the memory of the process that truncates it, but for
\* the preimage that its answer has replaced.
LEMMA TouchOpens ==
  ASSUME HomeInv, NEW p \in Processes, OpenStateFile(p), NEW s \in Switches,
         InTouch(s), ~ Excused(s)
  PROVE  InTouch(s)'
<1> USE DEF HomeInv
<1>1. /\ OthersStay(p) /\ UNCHANGED <<procVars, switchVars, response_cache, given>>
      /\ Writes(p)' /\ at[p] \in {"open1", "open2"} /\ at'[p] # at[p]
  BY OpenFacts DEF Writes
<1>2. p \notin stale /\ CopyOK(p) /\ at[p] \in Loaded
  BY <1>1 DEF Excused, CopyInv, Loaded
<1>3. Records' # {}
  BY <1>1, RecordsAre
<1>4. PICK d : d = id52[s] /\ d = id52'[s]
  BY <1>1 DEF switchVars
<1>5. PICK q \in Held(d) : Reaches(s, q)
  BY <1>4, TouchIs
<1>6. \A x : Reaches(s, x) => Reaches(s, x)'
  BY <1>1 DEF Reaches, switchVars
<1>7. ASSUME \E x \in Held(d)' : Reaches(s, x)'
      PROVE  InTouch(s)'
  BY <1>3, <1>4, <1>7, TouchIs
<1>8. ASSUME NEW x, d \in DOMAIN state[p].peers, state[p].peers[d] = x
      PROVE  x \in Held(d)'
  <2>1. WrittenBy(p, d, x)'
    BY <1>1, <1>8 DEF WrittenBy, procVars
  <2> QED
    BY <2>1, HeldIs
<1>9. CASE q \in Held(d)'
  BY <1>5, <1>6, <1>7, <1>9
<1>10. CASE q \notin Held(d)'
  <2>1. ~ (WrittenBy(p, d, q) \/ AnsweredTo(p, d, q))
    BY <1>8, <1>10 DEF WrittenBy, AnsweredTo, AnswersInv, Answers
  <2>2. InFile(d, q)
    BY <1>1, <1>5, <1>10, <2>1, HeldIs, OthersHold
  <2>3. d \in DOMAIN LoadedState.peers /\ LoadedState.peers[d] = q
    BY <2>2 DEF InFile, LoadedState, Readable
  <2>4. At(p, "open2") /\ d = call[p].to /\ Answers(p)
    BY <1>1, <1>2, <1>8, <1>10, <2>3 DEF CopyOK, At, Answers
  <2>5. cmd[p].name = "send"
    BY <1>2, <1>4, <2>4 DEF CopyOK, Excused, SavesPairing
  <2>6. call[p].preimage = q
    BY <1>2, <2>3, <2>4, <2>5 DEF CopyOK, At
  <2>7. AnswerExists(q)
    BY <2>4, <2>6 DEF AnswerExists, At
  <2>8. PICK k \in DOMAIN issued[s] : q \in DOMAIN response_cache /\ issued[s][k] = response_cache[q]
    BY <1>5, <2>7 DEF Reaches, AnswersInv
  <2>9. response_cache[q] = AnswerOf(p) /\ d \in DOMAIN state[p].peers
    BY <2>4, <2>6, <2>8 DEF AnswersInv
  <2>10. PICK v : v = issued[s][k]
    OBVIOUS
  <2>11. v \in Held(d)'
    BY <1>8, <2>4, <2>8, <2>9, <2>10 DEF AnswerOf
  <2>12. Reaches(s, v)'
    BY <1>1, <2>10 DEF Reaches, switchVars
  <2> QED
    BY <1>7, <2>11, <2>12
<1> QED
  BY <1>9, <1>10

\* What the process held is in the file.
LEMMA TouchWrites ==
  ASSUME HomeInv, NEW p \in Processes, WriteStateFile(p), NEW s \in Switches,
         InTouch(s), ~ Excused(s)
  PROVE  InTouch(s)'
<1> USE DEF HomeInv
<1>1. /\ OthersStay(p) /\ UNCHANGED <<switchVars, response_cache, given>>
      /\ Writes(p) /\ at'[p] # at[p] /\ (state_json = Empty => state_json' = state[p])
  BY WriteFacts DEF Writes
<1>2. p \notin stale /\ CopyOK(p) /\ at[p] \in Loaded
  BY <1>1 DEF Excused, CopyInv, Writes, Loaded
<1>3. state_json = Empty /\ state_json' = state[p] /\ Readable(state_json')
  BY <1>1, <1>2 DEF CopyOK, Writes, Readable
<1>4. Records' # {}
  BY <1>3, RecordsAre
<1>5. ASSUME NEW d, NEW q, q \in Held(d)
      PROVE  q \in Held(d)'
  <2>1. ~ InFile(d, q) /\ ~ AnsweredTo(p, d, q)
    BY <1>1, <1>3 DEF InFile, Readable, AnsweredTo, Writes
  <2>2. CASE WrittenBy(p, d, q)
    <3>1. InFile(d, q)'
      BY <1>3, <2>2 DEF InFile, WrittenBy
    <3> QED
      BY <3>1, HeldIs
  <2>3. CASE ~ WrittenBy(p, d, q)
    BY <1>1, <1>5, <2>1, <2>3, HeldIs, OthersHold
  <2> QED
    BY <2>2, <2>3
<1> QED
  BY <1>1, <1>4, <1>5, TouchKept DEF switchVars


\* The answer of the relay is in memory, or lost, or with another process.
LEMMA TouchCached ==
  ASSUME StatesAreReadable, HomeInv, NEW p \in Processes, CachedResponse(p),
         NEW s \in Switches, InTouch(s), ~ Excused(s)
  PROVE  InTouch(s)'
<1> USE DEF HomeInv
<1>1. PICK n : n = call[p].preimage
  OBVIOUS
<1>2. /\ OthersStay(p) /\ UNCHANGED <<homeVars, switchVars, given>>
      /\ at[p] = "call" /\ n \in DOMAIN response_cache
      /\ DOMAIN response_cache' = DOMAIN response_cache \ {n}
      /\ \A x \in DOMAIN response_cache' : response_cache'[x] = response_cache[x]
      /\ GetsAnswer(p, response_cache[n])
  BY <1>1, CachedFacts
<1>3. ~ Answers(p) /\ ~ Writes(p) /\ at[p] \in Loaded
  BY <1>2 DEF Answers, Writes, Loaded
<1>4. Records' # {} /\ \A d, q : q \in Held(d) => q \in Held(d)'
  BY <1>2, <1>3, SameHeld, TouchIs DEF homeVars
<1>5. PICK d : d = id52[s] /\ d = id52'[s]
  BY <1>2 DEF switchVars
<1>6. PICK q \in Held(d) : Reaches(s, q)
  BY <1>5, TouchIs
<1>7. ASSUME \E x \in Held(d)' : Reaches(s, x)'
      PROVE  InTouch(s)'
  BY <1>4, <1>5, <1>7, TouchIs
<1>8. CASE Reaches(s, q)'
  BY <1>4, <1>6, <1>7, <1>8
<1>9. CASE ~ Reaches(s, q)'
  <2>1. PICK k \in DOMAIN issued[s] : q = n /\ issued[s][k] = response_cache[n]
    BY <1>2, <1>6, <1>9 DEF Reaches, switchVars
  <2>2. PICK v : v = issued[s][k]
    OBVIOUS
  <2>3. Reaches(s, v)'
    BY <1>2, <2>2 DEF Reaches, switchVars
  <2>4. PICK of \in [Nat -> Nat] : NamedBy(of)
    BY DEF NamedInv
  <2>5. of[n] = d /\ call[p].to = d
    BY <1>1, <1>3, <1>6, <2>1, <2>4, HeldNamed DEF NamedBy, ProcessNamed
  <2>6. v \in Held(d)'
    <3>1. CASE at'[p] = "open2"
      <4>1. call'[p].to = d /\ state'[p].peers[d] = v
        BY <1>2, <2>1, <2>2, <2>5, <3>1 DEF GetsAnswer, Put
      <4>2. AnsweredTo(p, d, v)'
        BY <3>1, <4>1 DEF AnsweredTo
      <4> QED
        BY <4>2, HeldIs
    <3>2. CASE at'[p] = "idle"
      <4>1. AnswerExists(n)'
        <5>1. AnswerExists(n) /\ n \in Drawn
          BY <1>2 DEF AnswerExists, TypeOK, TokensOK
        <5> QED
          BY <1>2, <5>1 DEF Excused, AnswerLost
      <4>2. \A r \in Processes : Answers(r)' =>
              at'[r] = at[r] /\ call'[r] = call[r] /\ state'[r] = state[r]
        BY <1>2, <3>2 DEF OthersStay, Answers
      <4>3. PICK r \in Processes :
              Answers(r) /\ call[r].preimage = n /\ \E x \in Held(d)' : x = AnswerOf(r)
        BY <1>2, <2>4, <2>5, <4>1, <4>2, SecondAnswer
      <4>4. AnswerOf(r) = v
        BY <1>2, <2>1, <2>2, <4>3 DEF AnswersInv
      <4> QED
        BY <4>3, <4>4
    <3> QED
      BY <1>2, <3>1, <3>2 DEF GetsAnswer
  <2> QED
    BY <1>7, <2>3, <2>6
<1> QED
  BY <1>8, <1>9

\* The switch that has honoured a message waits for the preimage that the relay
\* will tell whoever sends it again.
LEMMA TouchDelivers ==
  ASSUME StatesAreReadable, HomeInv, NEW p \in Processes, NEW t \in Switches, Delivered(p, t),
         NEW s \in Switches, InTouch(s), ~ Excused(s)
  PROVE  InTouch(s)'
<1> USE DEF HomeInv
<1>1. PICK n : n = call[p].preimage
  OBVIOUS
<1>2. /\ OthersStay(p) /\ UNCHANGED <<state_json, id52, given>>
      /\ at[p] = "call" /\ id52[t] = call[p].to /\ at'[p] # at[p]
      /\ n \notin DOMAIN response_cache
      /\ DOMAIN response_cache' = DOMAIN response_cache \cup {n}
      /\ response_cache'[n] = fresh
      /\ \A x \in DOMAIN response_cache : response_cache'[x] = response_cache[x]
      /\ \A u \in Switches \ {t} : issued'[u] = issued[u]
  BY <1>1, DeliveredFacts DEF GetsAnswer
<1>3. ~ Answers(p) /\ ~ Writes(p) /\ at[p] \in Loaded
  BY <1>2 DEF Answers, Writes, Loaded
<1>4. Records' # {} /\ \A d, q : q \in Held(d) => q \in Held(d)'
  BY <1>2, <1>3, SameHeld, TouchIs
<1>5. CASE s # t
  BY <1>2, <1>4, <1>5, TouchKept
<1>6. CASE s = t
  <2>1. PICK d : d = id52[s] /\ d = id52'[s] /\ d = call[p].to
    BY <1>2, <1>6
  <2>2. PICK of \in [Nat -> Nat] : NamedBy(of)
    BY DEF NamedInv
  <2>3. p \notin stale /\ CopyOK(p) /\ cmd[p].name \in {"pair", "send"}
    BY <1>2, <1>3 DEF Excused, CopyInv, CopyOK
  <2>4. InFile(d, n) \/ InToken(d, n)
    <3>1. CASE cmd[p].name = "send"
      BY <1>1, <1>2, <2>1, <2>3, <3>1 DEF CopyOK, LoadedState, Readable, InFile, At
    <3>2. CASE cmd[p].name = "pair"
      BY <1>1, <1>3, <2>1, <2>2, <3>2 DEF NamedBy, ProcessNamed, InToken
    <3> QED
      BY <2>3, <3>1, <3>2
  <2>5. n \in Held(d)'
    BY <1>4, <2>4, HeldIs
  <2>6. Reaches(s, n)'
    <3>1. PICK k : Reissues(p, t, k)
      BY DeliveredFacts
    <3> QED
      BY <1>2, <1>6, <3>1 DEF Reaches, Reissues
  <2> QED
    BY <1>4, <2>1, <2>5, <2>6, TouchIs
<1> QED
  BY <1>5, <1>6

LEMMA TouchStep ==
  ASSUME StatesAreReadable, HomeInv, [Next]_vars, NEW s \in Switches, InTouch(s)
  PROVE  InTouch(s)' \/ Excused(s)
<1> SUFFICES ASSUME ~ Excused(s)
             PROVE  InTouch(s)'
  OBVIOUS
<1>1. CASE \E p \in Processes : Stops(p)
  BY <1>1, TouchStops
<1>2. CASE Apart /\ NobodyStops
  BY <1>2, TouchApart
<1>3. ASSUME NEW p \in Processes, Works(p)
      PROVE  InTouch(s)'
  BY <1>3, TouchBegins, TouchOpens, TouchWrites, TouchCached, TouchDelivers DEF Works
<1> QED
  BY <1>1, <1>2, <1>3, StepKinds DEF Apart, HomeInv

LEMMA HomeStart ==
  ASSUME TypeOK, Init
  PROVE  HomeInv
<1>1. /\ at = [p \in Processes |-> "idle"] /\ invites = [s \in Switches |-> {}]
      /\ issued = [s \in Switches |-> EmptyMap] /\ response_cache = EmptyMap /\ given = EmptyMap
      /\ state_json = None
  BY DEF Init
<1>2. /\ \A p \in Processes : at[p] = "idle"
      /\ \A s \in Switches : invites[s] = {} /\ DOMAIN issued[s] = {}
      /\ DOMAIN response_cache = {} /\ DOMAIN given = {} /\ ~ Readable(state_json)
  BY <1>1 DEF EmptyMap, Readable
<1>3. CopyInv
  BY <1>2 DEF CopyInv, CopyOK, At, Loaded
<1>4. IssuedOnce
  BY <1>2 DEF IssuedOnce
<1>5. AnswersInv
  BY <1>2 DEF AnswersInv, Answers
<1>6. Unshared
  BY <1>2 DEF Unshared, At
<1>7. NamedInv
  <2>1. PICK of \in [Nat -> Nat] : of = [q \in Nat |-> 0]
    OBVIOUS
  <2>2. NamedBy(of)
    BY <1>2 DEF NamedBy, ProcessNamed, Loaded
  <2> QED
    BY <2>2 DEF NamedInv
<1> QED
  BY <1>3, <1>4, <1>5, <1>6, <1>7 DEF HomeInv

\* A home directory loses a switch only by the loss of an answer, a kill inside
\* a write, a save that is overtaken, a reset, or a pairing that is saved once
\* more: DeviceState::save, Node::pair and Node::send, for any number of
\* commands at the same time.
THEOREM ControllerKeepsTouch ==
  ASSUME StatesAreReadable
  PROVE  Spec => KeepsTouch
<1>1. TypeOK /\ Init => HomeInv
  BY HomeStart
<1>2. TypeOK /\ TypeOK' /\ HomeInv /\ [Next]_vars => HomeInv'
  BY CopyStep, IssuedStep, AnswersStep, UnsharedStep, NamedStep DEF HomeInv
<1>3. HomeInv /\ [Next]_vars =>
        [\A s \in Switches :
           InTouch(s) =>
             \/ InTouch(s)'
             \/ \E q \in Drawn : AnswerLost(q)
             \/ \E p \in Processes : at[p] \in {"write1", "write2"} /\ Stops(p)
             \/ \E p \in stale : at'[p] # at[p]
             \/ id52'[s] # id52[s]
             \/ SavesPairing(s)]_vars
  BY TouchStep DEF Excused
<1> QED
  BY <1>1, <1>2, <1>3, ControllerTypes, PTL DEF Spec, KeepsTouch

==============================================================================
