---------------------------- MODULE RelayService ----------------------------
(***************************************************************************)
(* What the relay promises, without its tasks, locks, channels and cache.  *)
(*                                                                         *)
(* A recipient grants rights <<device, preimage>>.  A caller uses a right  *)
(* up to put one message on its way, which is delivered at most once and   *)
(* answered at most once.  A call ends with an answer that was given to    *)
(* its preimage, or with a status that says why there is none.  Who        *)
(* answers, and whether before or after the delivery, is not promised.     *)
(***************************************************************************)
EXTENDS Integers

CONSTANTS Callers, Devices, Preimages, Responses, None

VARIABLES
  right,     \* the rights granted and neither used nor revoked
  underway,  \* the messages on their way: neither delivered nor lost
  arrived,   \* the ids of the messages delivered
  asked,     \* the messages that can still be answered
  answers,   \* the answers given to each preimage
  call       \* the call each caller has open, or its outcome

svars == <<right, underway, arrived, asked, answers, call>>

Messages     == [msg_id : Nat, preimage : Preimages]
Opened(d, p) == [stage |-> "open", to |-> d, preimage |-> p]
Sent(x)      == [stage |-> "sent", message |-> x]
Done(p, status, payload) ==
  [stage |-> "done", preimage |-> p, status |-> status, payload |-> payload]

SInit ==
  /\ right = {}
  /\ underway = {}
  /\ arrived = {}
  /\ asked = {}
  /\ answers = [p \in Preimages |-> {}]
  /\ call = [c \in Callers |-> None]

Waits(c)      == call[c] \in [stage : {"sent"}, message : Messages]
RightsTo(d)   == {u \in right : u[1] = d}
Becomes(c, x) == call' = [call EXCEPT ![c] = x]

\* A recipient replaces the rights to call it, or adds to them, and may bring
\* along what it answered to some preimages.
Grant(d, ps) ==
  /\ right' \in {right \cup ({d} \X ps), (right \ RightsTo(d)) \cup ({d} \X ps)}
  /\ \A p \in Preimages : answers[p] \subseteq answers'[p]
  /\ UNCHANGED <<underway, arrived, asked, call>>

\* The relay forgets a device.
Revoke(d) ==
  /\ right' = right \ RightsTo(d)
  /\ UNCHANGED <<underway, arrived, asked, answers, call>>

Open(c, d, p) ==
  /\ call[c] = None
  /\ Becomes(c, Opened(d, p))
  /\ UNCHANGED <<right, underway, arrived, asked, answers>>

\* The one use of a right: a new message is on its way.
Use(c, d, p, id) ==
  LET x == [msg_id |-> id, preimage |-> p] IN
  /\ call[c] = Opened(d, p)
  /\ <<d, p>> \in right
  /\ id \notin arrived
  /\ \A y \in underway \cup asked : y.msg_id # id
  /\ right' = right \ {<<d, p>>}
  /\ underway' = underway \cup {x}
  /\ asked' = asked \cup {x}
  /\ Becomes(c, Sent(x))
  /\ UNCHANGED <<arrived, answers>>

Deliver(x) ==
  /\ x \in underway
  /\ underway' = underway \ {x}
  /\ arrived' = arrived \cup {x.msg_id}
  /\ UNCHANGED <<right, asked, answers, call>>

\* Messages are lost with a connection; none is made.
Lose ==
  /\ \A x \in underway' : x \in underway
  /\ UNCHANGED <<right, arrived, asked, answers, call>>

\* A message is answered, for good.
Answer(x, r) ==
  /\ x \in asked
  /\ asked' = asked \ {x}
  /\ answers' = [answers EXCEPT ![x.preimage] = @ \cup {r}]
  /\ UNCHANGED <<right, underway, arrived, call>>

\* A success carries an answer to the preimage of the call: to its own
\* message, or to an earlier one.
Succeed(c, p, r) ==
  /\ call[c] = None \/ (Waits(c) /\ call[c].message.preimage = p)
  /\ r \in answers[p]
  /\ Becomes(c, Done(p, 0, r))
  /\ UNCHANGED <<right, underway, arrived, asked, answers>>

\* The device is not there: there are no rights to it from then on.
NotThere(c, d, p) ==
  /\ call[c] = Opened(d, p)
  /\ Becomes(c, Done(p, 1, None))
  /\ right' = right \ RightsTo(d)
  /\ UNCHANGED <<underway, arrived, asked, answers>>

NoRight(c, d, p) ==
  /\ call[c] = Opened(d, p)
  /\ <<d, p>> \notin right
  /\ Becomes(c, Done(p, 2, None))
  /\ UNCHANGED <<right, underway, arrived, asked, answers>>

\* Nobody answered in time; the message may still be answered.
TimedOut(c) ==
  /\ Waits(c)
  /\ Becomes(c, Done(call[c].message.preimage, 3, None))
  /\ UNCHANGED <<right, underway, arrived, asked, answers>>

\* The message was not delivered, and is withdrawn.
Disconnected(c) ==
  LET x == call[c].message IN
  /\ Waits(c)
  /\ x \notin underway /\ x.msg_id \notin arrived
  /\ Becomes(c, Done(x.preimage, 4, None))
  /\ asked' = asked \ {x}
  /\ UNCHANGED <<right, underway, arrived, answers>>

\* The caller has its outcome, or is gone with what was on its way to it.
Close(c) ==
  /\ \E p \in Preimages, status \in 0..4, payload \in Responses \cup {None} :
       call[c] = Done(p, status, payload)
  /\ Becomes(c, None)
  /\ \A x \in underway' : x \in underway
  /\ UNCHANGED <<right, arrived, asked, answers>>

\* The service keeps nothing across a crash, and answers no open call.
Crash ==
  /\ right' = {}
  /\ underway' = {}
  /\ arrived' = {}
  /\ asked' = {}
  /\ call' = [c \in Callers |-> None]
  /\ UNCHANGED answers

SNext ==
  \/ \E d \in Devices : Revoke(d) \/ \E ps \in SUBSET Preimages : Grant(d, ps)
  \/ \E c \in Callers, d \in Devices, p \in Preimages :
       \/ Open(c, d, p) \/ NotThere(c, d, p) \/ NoRight(c, d, p)
       \/ \E x \in asked' : Use(c, d, p, x.msg_id)
  \/ \E x \in underway : Deliver(x)
  \/ \E x \in asked, r \in Responses : Answer(x, r)
  \/ \E c \in Callers, p \in Preimages, r \in Responses : Succeed(c, p, r)
  \/ \E c \in Callers : TimedOut(c) \/ Disconnected(c) \/ Close(c)
  \/ Lose
  \/ Crash

Service == SInit /\ [][SNext]_svars

=============================================================================
