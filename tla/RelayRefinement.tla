--------------------------- MODULE RelayRefinement ---------------------------
(***************************************************************************)
(* The relay implements RelayService.                                      *)
(***************************************************************************)
EXTENDS Relay

\* The rights are the commits the Router holds.
Rights ==
  {u \in Devices \X Preimages :
     /\ u[1] \in DOMAIN devices
     /\ Sha256(u[2]) \in devices[u[1]].commits}

\* A message is on its way while a task is about to queue it and while it is
\* in a channel, ...
Message(m, p) == [msg_id |-> m, preimage |-> p]

OwnMessage(s) == Message(local[s].msg_id, local[s].preimage)

Underway ==
  {OwnMessage(s) : s \in {t \in Sessions : pc[t] \in {"pend", "enqueue"}}}
  \cup UNION {Queued(s) : s \in Sessions}

\* ... and can be answered from when its id is drawn until its pending entry
\* is taken.
Asked ==
  {OwnMessage(s) : s \in {t \in Sessions : pc[t] = "pend"}}
  \cup {Message(m, pending[m]) : m \in DOMAIN pending}

Arrived == {x[2] : x \in delivered}

\* The call of a session is read off the handler it is running.
CallOf(s) ==
  CASE pc[s] = "claim" -> [stage |-> "open", to |-> local[s].to_id52,
                           preimage |-> local[s].preimage]
    [] Routing(s) -> [stage |-> "sent", message |-> OwnMessage(s)]
    [] pc[s] = "result" -> [stage |-> "done", preimage |-> local[s].preimage,
                            status |-> local[s].status,
                            payload |-> local[s].payload]
    [] OTHER -> None

Calls == [s \in Sessions |-> CallOf(s)]

Abstract == INSTANCE RelayService WITH
  Callers <- Sessions, right <- Rights, underway <- Underway,
  arrived <- Arrived, asked <- Asked, answers <- answered, call <- Calls

\* Every behaviour of the relay is one of the service: rights are used once,
\* each message is delivered and answered at most once, and a call ends as it should, under
\* every interleaving of sessions, disconnections, timeouts and restarts.
ImplementsService == Abstract!Service

==============================================================================
