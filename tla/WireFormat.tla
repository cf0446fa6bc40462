------------------------------ MODULE WireFormat ------------------------------
(***************************************************************************)
(* The messages of bhumi-proto/src/lib.rs and what becomes of them between *)
(* three programs: a callee that signs in to the relay and answers, the    *)
(* relay, which takes every frame apart and puts what it carries into      *)
(* another, and a caller.  Inside the frames travel the messages of the    *)
(* devices: handshakes, JSON texts, whose answer may have a preimage       *)
(* appended (bhumi-node/src/node.rs), and the MESSAGE of a program that    *)
(* uses a Connection itself.                                               *)
(*                                                                         *)
(* A message is a layout, the kinds of its fields in order, and a sequence *)
(* of values.  A cell is a byte of a key or a text, or a whole number; a   *)
(* count or a length of 16 bits is modulo W16, and one of 32 bits never    *)
(* wraps under the limit of a frame.  A frame arrives whole or not at all: *)
(* FrameStream is about the rest.                                          *)
(***************************************************************************)
EXTENDS Integers, SequencesExt

CONSTANTS
  KeyLen,   \* 32: cells of an identity, a preimage, a commit, half a signature
  W16,      \* 2^16
  MaxLen,   \* 1 MiB: the longest payload of a frame that is read
  Chars,    \* what a text in UTF-8 is made of
  Open, Close, Blank,  \* `{', `}' and white space
  None,
  \* inputs of the model
  Keys,     \* identities, preimages, commits
  Urls,     \* addresses of relays
  Texts,    \* JSON texts of commands and of answers
  Contents, \* contents of messages
  CommitLists  \* commits a node has when it signs in

\* 1 MiB holds a HELLO and less than 2^16 keys, and the tag of a device message
\* begins no text.
ASSUME WireAssumption ==
  /\ KeyLen \in Nat \ {0} /\ W16 \in Nat \ {0} /\ MaxLen \in Nat
  /\ 3 <= MaxLen /\ MaxLen < KeyLen * W16
  /\ Chars \subseteq Nat
  /\ Open \notin {1, 16} /\ Close \notin {Open, Blank}
  /\ Keys \subseteq [1 .. KeyLen -> Nat]
  /\ Urls \subseteq Seq(Chars) /\ Contents \subseteq Seq(Nat) /\ CommitLists \subseteq Seq(Keys)

VARIABLES
  frame,    \* the frame on its way, or None
  commits,  \* the commits the relay has of the callee; None: not signed in
  call,     \* what the caller sends
  reply,    \* what the callee answers
  heard,    \* what the callee has made of the call
  told,     \* what the caller has made of the answer
  written,  \* the values in the frame (history)
  refused   \* who refused what, or None (history)

vars == <<frame, commits, call, reply, heard, told, written, refused>>

------------------------------------------------------------------------------
(***************************************************************************)
(* Layouts                                                                 *)
(***************************************************************************)
Tag == [init |-> 1, complete |-> 2, message |-> 16, response |-> 17]

Hello        == <<"number", "number", "number">>
IAm          == <<"key", "key", "key", "keys", "responses">>
Send         == <<"key", "key", "blob">>
UpdateCommits == <<"keys">>
Deliver      == <<"number", "key", "blob">>
Ack          == <<"number", "blob">>
SendResult   == <<"number", "blob">>
HandshakeInit         == <<"init", "key", "key", "url">>
HandshakeComplete     == <<"complete", "number", "key", "url">>
DeviceMessage         == <<"message", "number", "url", "blob">>
DeviceMessageResponse == <<"response", "number", "key", "url", "blob">>

Layout ==
  [HELLO |-> Hello, I_AM |-> IAm, SEND |-> Send, UPDATE_COMMITS |-> UpdateCommits,
   DELIVER |-> Deliver, ACK |-> Ack, SEND_RESULT |-> SendResult,
   init |-> HandshakeInit, complete |-> HandshakeComplete,
   message |-> DeviceMessage, response |-> DeviceMessageResponse]

------------------------------------------------------------------------------
(***************************************************************************)
(* to_bytes                                                                *)
(***************************************************************************)
Counted(n, parts) == <<n % W16>> \o FlattenSeq(parts)

\* A response is the pair of its preimage and its contents.
FieldBytes(kind, v) ==
  CASE kind = "key"  -> v
    [] kind = "blob" -> <<Len(v)>> \o v
    [] kind = "url"  -> <<Len(v) % W16>> \o v
    [] kind = "keys" -> Counted(Len(v), v)
    [] kind = "responses" ->
         Counted(Len(v), [i \in DOMAIN v |-> v[i][1] \o <<Len(v[i][2])>> \o v[i][2]])
    [] OTHER         -> <<v>>

ToBytes(name, values) ==
  FlattenSeq([i \in DOMAIN Layout[name] |-> FieldBytes(Layout[name][i], values[i])])

------------------------------------------------------------------------------
(***************************************************************************)
(* from_bytes: [ok, value, at], the value read and how many cells are      *)
(***************************************************************************)
Truncated == [ok |-> FALSE, value |-> <<>>, at |-> 0]
Read(value, at) == [ok |-> TRUE, value |-> value, at |-> at]

\* The next n cells.
Take(n, cells, at) ==
  IF Len(cells) < at + n THEN Truncated ELSE Read(SubSeq(cells, at + 1, at + n), at + n)

Number(cells, at) == IF Len(cells) <= at THEN Truncated ELSE Read(cells[at + 1], at + 1)

\* Fault: the cells after a length are not counted.
Prefixed_unchecked(cells, at) ==
  IF Len(cells) <= at THEN Truncated
  ELSE LET end == at + 1 + cells[at + 1]
       IN  Read(SubSeq(cells, at + 2, IF Len(cells) < end THEN Len(cells) ELSE end), end)

\* As many cells as the length before them says.
Prefixed(cells, at) ==
  IF Len(cells) <= at THEN Truncated ELSE Take(cells[at + 1], cells, at + 1)

Checked(condition, read) == IF condition THEN read ELSE Truncated

\* A further value, after those that were read.
Then(read, next) ==
  IF read.ok /\ next.ok THEN Read(Append(read.value, next.value), next.at) ELSE Truncated

FromKeys(count, cells, at) ==
  LET end(i) == at + i * KeyLen
  IN  IF Len(cells) < end(count) THEN Truncated
      ELSE Read([i \in 1 .. count |-> SubSeq(cells, end(i - 1) + 1, end(i))], end(count))

FromResponse(cells, at) ==
  LET preimage == Take(KeyLen, cells, at)
      response == Prefixed(cells, preimage.at)
  IN  IF preimage.ok /\ response.ok
        THEN Read(<<preimage.value, response.value>>, response.at)
      ELSE Truncated

FromResponses(count, cells, at) ==
  LET read[i \in 0 .. count] ==
        IF i = 0 THEN Read(<<>>, at)
        ELSE LET before == read[i - 1] IN Then(before, FromResponse(cells, before.at))
  IN  read[count]

FromField(kind, cells, at) ==
  CASE kind = "key"  -> Take(KeyLen, cells, at)
    [] kind = "blob" -> Prefixed(cells, at)
    [] kind = "url"  -> Checked(ToSet(Prefixed(cells, at).value) \subseteq Chars, Prefixed(cells, at))
    [] kind = "number" -> Number(cells, at)
    [] kind = "keys" -> IF Len(cells) <= at THEN Truncated ELSE FromKeys(cells[at + 1], cells, at + 1)
    [] kind = "responses" ->
         IF Len(cells) <= at THEN Truncated ELSE FromResponses(cells[at + 1], cells, at + 1)
    [] OTHER         -> Checked(at < Len(cells) /\ cells[at + 1] = Tag[kind], Number(cells, at))

\* Field after field; what is left after the last is ignored.
FromBytes(name, cells) ==
  LET read[i \in 0 .. Len(Layout[name])] ==
        IF i = 0 THEN Read(<<>>, 0)
        ELSE LET before == read[i - 1]
             IN  Then(before, FromField(Layout[name][i], cells, before.at))
  IN  read[Len(Layout[name])]

------------------------------------------------------------------------------
(***************************************************************************)
(* What the frames carry                                                   *)
(***************************************************************************)
Body(name, values) == [name |-> name, values |-> values]

\* A JSON text; an answer may have a preimage appended.
Json(text, preimage) == Body("json", <<text, preimage>>)

BodyBytes(b) ==
  IF b.name = "json" THEN b.values[1] \o b.values[2] ELSE ToBytes(b.name, b.values)

\* serde_json takes one value and white space after it.
IsJson(cells) ==
  \E c \in DOMAIN cells :
    /\ Head(cells) = Open /\ cells[c] = Close
    /\ \A i \in 2 .. c - 1 : cells[i] \notin {Open, Close}
    /\ \A i \in c + 1 .. Len(cells) : cells[i] = Blank

\* A text that serde_json writes has nothing after it.
ASSUME TextAssumption ==
  Texts \subseteq {t \in Seq(Chars) : IsJson(t) /\ t[Len(t)] = Close}

\* Node::send: an answer that does not parse ends in the next preimage.
SplitReply(cells) ==
  IF Len(cells) > KeyLen /\ ~ IsJson(cells)
    THEN Json(SubSeq(cells, 1, Len(cells) - KeyLen), SubSeq(cells, Len(cells) - KeyLen + 1, Len(cells)))
  ELSE Json(cells, <<>>)

\* What the callee makes of a payload, by its first byte: Node knows the handshake
\* only, another program may know MESSAGE.
CallKind(cells) ==
  IF cells # <<>> /\ Head(cells) = Tag.init THEN "init"
  ELSE IF cells # <<>> /\ Head(cells) = Tag.message THEN "message"
  ELSE "json"

\* What the caller takes for the answer to a call.
AnswerKind == [init |-> "complete", message |-> "response", json |-> "json"]

\* The body that cells are read as, if they are one.
Parses(name, cells) ==
  {Body(name, r.value) : r \in {x \in {FromBytes(name, cells)} : x.ok}}

CallBodies(cells) ==
  IF CallKind(cells) = "json" THEN {Json(cells, <<>>)} ELSE Parses(CallKind(cells), cells)

AnswerBodies(name, cells) ==
  IF name = "json" THEN {b \in {SplitReply(cells)} : IsJson(b.values[1])}
  ELSE Parses(AnswerKind[name], cells)

Nothing == [i \in 1 .. KeyLen |-> 0]
Statuses == 0 .. 1

Calls ==
  {Body("init", <<Tag.init, id, k, u>>) : id \in Keys, k \in Keys, u \in Urls}
    \cup {Json(t, <<>>) : t \in Texts}
    \cup {Body("message", <<Tag.message, n, u, c>>) : n \in Statuses, u \in Urls, c \in Contents}

\* Accepted or rejected; answered with or without a preimage.
Replies(name) ==
  CASE name = "init" ->
         {Body("complete", <<Tag.complete, 0, k, u>>) : k \in Keys, u \in Urls}
           \cup {Body("complete", <<Tag.complete, 1, Nothing, <<>>>>)}
    [] name = "message" ->
         {Body("response", <<Tag.response, n, k, u, c>>) :
            n \in Statuses, k \in Keys, u \in Urls, c \in Contents}
    [] OTHER -> {Json(t, p) : t \in Texts, p \in Keys \cup {<<>>}}

ASSUME NoneAssumption ==
  \A b \in Calls : None # b /\ \A r \in Replies(b.name) : None # r

------------------------------------------------------------------------------
(***************************************************************************)
(* Frames                                                                  *)
(***************************************************************************)
Reader ==
  [HELLO |-> "callee", I_AM |-> "relay", UPDATE_COMMITS |-> "relay", SEND |-> "relay",
   DELIVER |-> "callee", ACK |-> "relay", SEND_RESULT |-> "caller"]

Write(type, values) ==
  /\ frame' = [msg_type |-> type, payload |-> ToBytes(type, values)]
  /\ written' = values

\* Fault: what a SEND carries is limited, and not the frame.
TooLarge_content(f) ==
  IF f.msg_type = "SEND" THEN Len(f.payload) > MaxLen + 2 * KeyLen + 1
  ELSE Len(f.payload) > MaxLen

TooLarge(f) == Len(f.payload) > MaxLen

Parsed == FromBytes(frame.msg_type, frame.payload)

\* read_frame and from_bytes succeed.
Readable == ~ TooLarge(frame) /\ Parsed.ok
Reads(type) == frame # None /\ frame.msg_type = type /\ Readable

Fields == Parsed.value
NoFrame == frame' = None /\ written' = None

Init ==
  /\ frame = None /\ commits = None
  /\ call = None /\ reply = None /\ heard = None /\ told = None
  /\ written = None /\ refused = None

SendHello(nonce) ==
  /\ frame = None /\ commits = None /\ refused = None
  /\ Write("HELLO", <<1, nonce, 64 * 1024>>)
  /\ UNCHANGED <<commits, call, reply, heard, told, refused>>

\* Connection::handshake
SendIAm(id, signature, list) ==
  /\ Reads("HELLO")
  /\ Write("I_AM", <<id, signature, signature, list, <<>>>>)
  /\ UNCHANGED <<commits, call, reply, heard, told, refused>>

HandleIAm ==
  /\ Reads("I_AM")
  /\ commits' = ToSet(Fields[4])
  /\ NoFrame
  /\ UNCHANGED <<call, reply, heard, told, refused>>

SendCommit(commit) ==
  /\ frame = None /\ commits # None /\ call = None
  /\ Write("UPDATE_COMMITS", <<<<commit>>>>)
  /\ UNCHANGED <<commits, call, reply, heard, told, refused>>

HandleUpdateCommits ==
  /\ Reads("UPDATE_COMMITS")
  /\ commits' = commits \cup ToSet(Fields[1])
  /\ NoFrame
  /\ UNCHANGED <<call, reply, heard, told, refused>>

\* Connection::send, for Node::pair and Node::send
SendCall(to, preimage, b) ==
  /\ frame = None /\ commits # None /\ call = None /\ refused = None
  /\ call' = b
  /\ Write("SEND", <<to, preimage, BodyBytes(b)>>)
  /\ UNCHANGED <<commits, reply, heard, told, refused>>

\* A commit is taken here for the preimage it is the hash of.
HandleSend(msg_id) ==
  /\ Reads("SEND") /\ Fields[2] \in commits
  /\ commits' = commits \ {Fields[2]}
  /\ Write("DELIVER", <<msg_id, Fields[2], Fields[3]>>)
  /\ UNCHANGED <<call, reply, heard, told, refused>>

\* SendResult::error
SendFails(status) ==
  /\ Reads("SEND")
  /\ Write("SEND_RESULT", <<status, <<>>>>)
  /\ UNCHANGED <<commits, call, reply, heard, told, refused>>

\* The callee takes what was delivered apart and answers.
HandleDeliver ==
  /\ Reads("DELIVER")
  /\ \E b \in CallBodies(Fields[3]), r \in Replies(CallKind(Fields[3])) :
       /\ heard' = b
       /\ reply' = r
       /\ Write("ACK", <<Fields[1], BodyBytes(r)>>)
  /\ UNCHANGED <<commits, call, told, refused>>

\* A handshake that does not parse ends Node::run.
DeliverRefused ==
  /\ Reads("DELIVER") /\ CallBodies(Fields[3]) = {}
  /\ refused' = <<"callee", "body">>
  /\ NoFrame
  /\ UNCHANGED <<commits, call, reply, heard, told>>

HandleAck ==
  /\ Reads("ACK")
  /\ Write("SEND_RESULT", <<0, Fields[2]>>)
  /\ UNCHANGED <<commits, call, reply, heard, told, refused>>

\* Fault: the status is not looked at.
HandleResult_anyStatus ==
  /\ Reads("SEND_RESULT")
  /\ told' = SplitReply(Fields[2])
  /\ NoFrame
  /\ UNCHANGED <<commits, call, reply, heard, refused>>

\* The caller takes the answer apart.
HandleResult ==
  /\ Reads("SEND_RESULT") /\ Fields[1] = 0
  /\ told' \in AnswerBodies(call.name, Fields[2])
  /\ NoFrame
  /\ UNCHANGED <<commits, call, reply, heard, refused>>

ResultRefused ==
  /\ Reads("SEND_RESULT") /\ Fields[1] = 0
  /\ AnswerBodies(call.name, Fields[2]) = {}
  /\ refused' = <<"caller", "body">>
  /\ NoFrame
  /\ UNCHANGED <<commits, call, reply, heard, told>>

\* The call fails, and may be made again.
HandleError ==
  /\ Reads("SEND_RESULT") /\ Fields[1] # 0
  /\ call' = None
  /\ NoFrame
  /\ UNCHANGED <<commits, reply, heard, told, refused>>

\* The reader closes the connection.
FrameRefused ==
  /\ frame # None /\ ~ Readable
  /\ refused' = <<Reader[frame.msg_type], "frame">>
  /\ NoFrame
  /\ UNCHANGED <<commits, call, reply, heard, told>>

\* After an answer, or when a connection was closed, all begins anew.
Again ==
  /\ told # None \/ refused # None
  /\ frame' = None /\ commits' = None
  /\ call' = None /\ reply' = None /\ heard' = None /\ told' = None
  /\ written' = None /\ refused' = None

Next ==
  \/ \E n \in Statuses : SendHello(n) \/ HandleSend(n)
  \/ \E id, signature \in Keys, list \in CommitLists : SendIAm(id, signature, list)
  \/ HandleIAm
  \/ \E commit \in Keys : SendCommit(commit)
  \/ HandleUpdateCommits
  \/ \E to, preimage \in Keys, b \in Calls : SendCall(to, preimage, b)
  \/ \E status \in 1 .. 4 : SendFails(status)
  \/ HandleDeliver \/ DeliverRefused
  \/ HandleAck
  \/ HandleResult \/ ResultRefused \/ HandleError
  \/ FrameRefused
  \/ Again

Spec == Init /\ [][Next]_vars

------------------------------------------------------------------------------
(***************************************************************************)
(* Properties                                                              *)
(***************************************************************************)

\* Every variable has its type: frames are cells, the relay holds commits, and
\* what the caller is told is an answer to its kind of call.
TypeOK ==
  /\ frame # None =>
       /\ frame.msg_type \in DOMAIN Reader
       /\ \A i \in DOMAIN frame.payload : frame.payload[i] \in Nat
  /\ commits # None => commits \subseteq Keys
  /\ call # None => call.name \in DOMAIN AnswerKind
  /\ heard # None => call # None /\ heard.name = call.name
  /\ told # None =>
       /\ told.name = AnswerKind[call.name]
       /\ told.name = "json" =>
            IsJson(told.values[1]) /\ Len(told.values[2]) \in {0, KeyLen}
  /\ refused # None => refused \in {"relay", "callee", "caller"} \X {"frame", "body"}

Url(b) ==
  CASE b.name = "json" -> <<>>
    [] b.name = "message" -> b.values[3]
    [] OTHER -> b.values[4]

\* What can be told apart: an address whose length is one of 16 bits, a preimage
\* that is not white space.
Sound(b) ==
  /\ Len(Url(b)) < W16
  /\ b.name = "json" => b.values[2] # [i \in 1 .. KeyLen |-> Blank]

\* No beginning of cells is taken for a message.
CutRefused(name, cells) ==
  \A n \in 0 .. Len(cells) - 1 : ~ FromBytes(name, SubSeq(cells, 1, n)).ok

\* What is written is what is read, whole, at every reader of a frame and
\* through the relay from one device to the other: no count that wraps, no
\* preimage taken for text or text for a preimage, and nothing made of a part.
Intact ==
  /\ frame # None /\ ~ TooLarge(frame) =>
       /\ Parsed.ok /\ Fields = written
       /\ CutRefused(frame.msg_type, frame.payload)
  /\ \A b \in {call, reply} \ {None} :
       b.name # "json" /\ Sound(b) => CutRefused(b.name, BodyBytes(b))
  /\ heard # None /\ Sound(call) => heard = call
  /\ told # None /\ Sound(reply) => told = reply

\* The relay writes no frame that its reader refuses: what is too large or does
\* not parse is refused where it was written, and a body that does not parse
\* had an address too long for its length.
Forwards ==
  refused # None =>
    \/ refused = <<"relay", "frame">>
    \/ refused[2] = "body" /\ \E b \in {call, reply} \ {None} : ~ Sound(b)

==============================================================================
