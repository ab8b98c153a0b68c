------------------------ MODULE RedisSession_proofs ------------------------
(***************************************************************************)
(* Proofs about RedisSession, for any number of workers and calls, any     *)
(* limit and every loss, delay and refusal the network and the server are  *)
(* capable of: no script runs twice, no late reply answers a later         *)
(* command, and nobody is told allow without a grant of Redis's.           *)
(***************************************************************************)
EXTENDS RedisSession, FiniteSetTheorems, SequenceTheorems, TLAPS

(* A call under way has a number, and one that has sent has a connection,  *)
(* opened by this call or an earlier one.                                  *)
Connected ==
    \A w \in Workers :
        /\ pc[w] # "idle" => number[w] \in Calls /\ kind[w] \in {"eval", "ping"}
        /\ pc[w] \in {"send", "receive", "done"} => socket[w] # 0
        /\ pc[w] = "connect" => socket[w] = 0
        /\ socket[w] <= number[w]

(* What has not been sent is not on its way and has not been run.          *)
Unsent(c) ==
    \/ c.number > number[c.worker]
    \/ c.number = number[c.worker] /\ pc[c.worker] \in {"connect", "send"}

SentFirst ==
    \A c \in Commands : Unsent(c) =>
        executed[c] = 0 /\ \A p \in wire : p.command # c

(* A command is on its way, or has been run, at most once and never both.  *)
SentOnce ==
    /\ \A p \in wire, q \in wire : p.command = q.command => p = q
    /\ \A p \in wire : executed[p.command] = 0
    /\ \A p \in wire : p.socket <= p.command.number

(* A command on a connection that is still in use is the one its worker    *)
(* waits for ...                                                           *)
LiveIsAwaited ==
    \A p \in wire :
        LET w == p.command.worker
        IN  p.socket = socket[w] =>
              pc[w] = "receive" /\ p.command = Command(w) /\ inbox[w] = <<>>

(* ... and so is a reply that has come ... *)
InboxIsOwn ==
    \A w \in Workers : inbox[w] # <<>> =>
        /\ pc[w] = "receive"
        /\ Len(inbox[w]) = 1
        /\ Head(inbox[w]).command = Command(w)

(* ... which tells the truth about the grant. *)
AllowIsGrant(r) == r.verdict = "allow" => r.command \in granted

RepliesTrue ==
    \A w \in Workers :
        /\ inbox[w] # <<>> => AllowIsGrant(Head(inbox[w]))
        /\ pc[w] = "done" => AllowIsGrant(reply[w])

(* Redis grants a command when it runs it, and counts it. *)
GrantsCounted ==
    /\ \A c \in granted : executed[c] = 1
    /\ IsFiniteSet(granted)
    /\ Cardinality(granted) = used

SessionInv ==
    /\ TypeOK
    /\ Connected
    /\ SentFirst
    /\ SentOnce
    /\ LiveIsAwaited
    /\ InboxIsOwn
    /\ RepliesTrue
    /\ GrantsCounted
    /\ ReplyIsOwn
    /\ AtMostOnce
    /\ allowed \subseteq granted

-----------------------------------------------------------------------------
(* What the records are made of. *)
LEMMA CommandParts ==
    /\ \A c \in Commands : c.worker \in Workers /\ c.number \in Calls
    /\ \A c \in Commands, d \in Commands :
          c.worker = d.worker /\ c.number = d.number => c = d
    /\ \A w \in Workers : number[w] \in Calls =>
          /\ Command(w) \in Commands
          /\ Command(w).worker = w
          /\ Command(w).number = number[w]
  BY DEF Commands, Command

LEMMA PacketParts ==
    \A p \in Packets :
        p.command \in Commands /\ p.kind \in {"eval", "ping"} /\ p.socket \in Calls
  BY DEF Packets

LEMMA ReplyParts ==
    /\ \A r \in Replies : r.command \in Commands /\ r.verdict \in Verdicts
    /\ \A c \in Commands, v \in Verdicts :
          /\ [command |-> c, verdict |-> v] \in Replies
          /\ [command |-> c, verdict |-> v].command = c
          /\ [command |-> c, verdict |-> v].verdict = v
  BY DEF Replies

LEMMA CallNumbers == Calls \subseteq Nat /\ 0 \notin Calls
  BY RedisSessionAssumption DEF Calls

(* A queue of one, and of none. *)
LEMMA Queues ==
    ASSUME NEW S, NEW q \in Seq(S)
    PROVE  /\ q # <<>> => Head(q) \in S /\ Tail(q) \in Seq(S)
           /\ Len(q) = 1 => Tail(q) = <<>>
           /\ \A x \in S : Append(q, x) \in Seq(S)
           /\ q = <<>> => \A x \in S :
                 /\ Append(q, x) # <<>>
                 /\ Len(Append(q, x)) = 1
                 /\ Head(Append(q, x)) = x
<1>1. q # <<>> => Head(q) \in S /\ Tail(q) \in Seq(S)
  OBVIOUS
<1>2. ASSUME Len(q) = 1
      PROVE  Tail(q) = <<>>
  <2>1. Tail(q) \in Seq(S) /\ Len(Tail(q)) = 0
    BY <1>2, HeadTailProperties
  <2> QED
    BY <2>1, EmptySeq
<1>3. \A x \in S : Append(q, x) \in Seq(S)
  OBVIOUS
<1>4. ASSUME q = <<>>, NEW x \in S
      PROVE  Append(q, x) # <<>> /\ Len(Append(q, x)) = 1 /\ Head(Append(q, x)) = x
  BY <1>4, AppendProperties
<1> QED
  BY <1>1, <1>2, <1>3, <1>4

-----------------------------------------------------------------------------
LEMMA InitInv == Init => SessionInv
<1> SUFFICES ASSUME Init
             PROVE  SessionInv
  OBVIOUS
<1>1. TypeOK
  BY RedisSessionAssumption DEF Init, TypeOK
<1>2. Connected /\ SentFirst /\ SentOnce /\ LiveIsAwaited /\ InboxIsOwn /\ RepliesTrue
        /\ ReplyIsOwn /\ AtMostOnce /\ allowed \subseteq granted
  BY RedisSessionAssumption
  DEF Init, Connected, SentFirst, SentOnce, LiveIsAwaited, InboxIsOwn, RepliesTrue,
      ReplyIsOwn, AtMostOnce, Calls
<1>3. GrantsCounted
  BY FS_EmptySet DEF Init, GrantsCounted
<1> QED
  BY <1>1, <1>2, <1>3 DEF SessionInv

-----------------------------------------------------------------------------
(* What the steps of a worker leave of their type. *)
LEMMA WorkerTypeOK ==
    ASSUME TypeOK, Connected, NEW w \in Workers, Begin(w) \/ Step(w)
    PROVE  TypeOK'
<1> USE RedisSessionAssumption DEF TypeOK, Goto, Fail, Discard, server, observer
<1>1. CASE Begin(w)
  BY <1>1 DEF Begin
<1>2. CASE Connect(w)
  BY <1>2 DEF Connect
<1>3. CASE ConnectFails(w)
  BY <1>3 DEF ConnectFails
<1>4. CASE Send(w)
  <2>1. Command(w) \in Commands /\ kind[w] \in {"eval", "ping"} /\ socket[w] \in Calls
    <3>1. pc[w] = "send"
      BY <1>4 DEF Send
    <3>2. number[w] \in Calls /\ kind[w] \in {"eval", "ping"} /\ socket[w] # 0
      BY <3>1 DEF Connected
    <3> QED
      BY <3>2, CommandParts DEF Calls
  <2>2. [command |-> Command(w), kind |-> kind[w], socket |-> socket[w]] \in Packets
    BY <2>1 DEF Packets
  <2>3. wire' \subseteq Packets
    <3> DEFINE packet == [command |-> Command(w), kind |-> kind[w], socket |-> socket[w]]
    <3>1. wire' = wire \cup {packet}
      BY <1>4 DEF Send
    <3> HIDE DEF packet
    <3> QED
      BY <2>2, <3>1 DEF packet
  <2>4. /\ pc' = [pc EXCEPT ![w] = "receive"]
        /\ UNCHANGED <<number, kind, socket, error, reply, inbox, used, answer, observer>>
    BY <1>4 DEF Send
  <2> QED
    BY <2>3, <2>4
<1>5. CASE SendFails(w)
  BY <1>5 DEF SendFails
<1>6. CASE Receive(w)
  <2>1. Head(inbox[w]) \in Replies /\ Tail(inbox[w]) \in Seq(Replies)
    BY <1>6, Queues DEF Receive
  <2>2. CASE Discard(w) /\ Fail(w, TRUE) /\ UNCHANGED reply
    BY <1>6, <2>2 DEF Receive
  <2>3. CASE /\ reply' = [reply EXCEPT ![w] = Head(inbox[w])]
             /\ inbox' = [inbox EXCEPT ![w] = Tail(@)]
             /\ Goto(w, "done")
             /\ UNCHANGED <<socket, error>>
    <3>1. UNCHANGED <<number, kind, server, answer, observer>>
      BY <1>6 DEF Receive
    <3> QED
      BY <2>1, <2>3, <3>1
  <2> QED
    BY <1>6, <2>2, <2>3 DEF Receive
<1>7. CASE ReceiveInPart(w)
  BY <1>7 DEF ReceiveInPart
<1>8. CASE TimeOut(w)
  BY <1>8 DEF TimeOut
<1>9. CASE Return(w)
  <2>1. Command(w) \in Commands
    BY <1>9, CommandParts DEF Return, Connected
  <2>2. pc[w] = "done" => reply[w].verdict \in Verdicts \cup {"none"}
    BY ReplyParts DEF NoReply
  <2>3. Answered(w) \in [ok : BOOLEAN, status : {0, 200, 503},
                         verdict : Verdicts \cup {"none"}]
    BY <2>2 DEF Answered, Verdicts
  <2> QED
    BY <1>9, <2>1, <2>3 DEF Return
<1> QED
  BY <1>1, <1>2, <1>3, <1>4, <1>5, <1>6, <1>7, <1>8, <1>9 DEF Step

(* The part of TypeOK that the other clauses need. *)
Places ==
    /\ number \in [Workers -> Nat]
    /\ kind \in [Workers -> {"none", "eval", "ping"}]
    /\ pc \in [Workers -> {"idle", "connect", "send", "receive", "done", "failed"}]
    /\ socket \in [Workers -> Nat]
    /\ reply \in [Workers -> Replies \cup {NoReply}]
    /\ inbox \in [Workers -> Seq(Replies)]
    /\ executed \in [Commands -> Nat]
    /\ \A p \in wire :
         /\ p \in Packets /\ p.command \in Commands /\ p.socket \in Calls
         /\ p.command.worker \in Workers /\ p.command.number \in Calls

LEMMA TypedPlaces == TypeOK => Places
  BY PacketParts, CommandParts DEF TypeOK, Places

(* A command on its way is an earlier one of its worker's or the one it    *)
(* waits for or has given up.                                              *)
LEMMA OnlySent ==
    ASSUME Places, SentFirst, NEW p \in wire
    PROVE  /\ p.command.number <= number[p.command.worker]
           /\ pc[p.command.worker] \in {"connect", "send"} =>
                 p.command.number < number[p.command.worker]
<1>1. ~Unsent(p.command)
  BY DEF Places, SentFirst
<1>2. p.command.number \in Nat /\ number[p.command.worker] \in Nat
  BY CallNumbers DEF Places
<1> QED
  BY <1>1, <1>2 DEF Unsent

(* A step of a worker other than Send touches neither the network nor      *)
(* Redis; it only has to keep what the worker knows about them.            *)
LEMMA WorkerInv ==
    ASSUME SessionInv, NEW w \in Workers, Begin(w) \/ Step(w), ~Send(w)
    PROVE  (Connected /\ SentFirst /\ SentOnce /\ LiveIsAwaited /\ InboxIsOwn /\ RepliesTrue
             /\ ReplyIsOwn)'
<1> DEFINE Rest == Connected /\ SentFirst /\ SentOnce /\ LiveIsAwaited /\ InboxIsOwn
                     /\ RepliesTrue /\ ReplyIsOwn
<1>1. Rest /\ Places
  BY TypedPlaces DEF SessionInv
<1> USE <1>1, CallNumbers
    DEF Places, Goto, Fail, Discard, server, observer, Connected, SentFirst, SentOnce,
        LiveIsAwaited, InboxIsOwn, RepliesTrue, ReplyIsOwn, Unsent, AllowIsGrant, Command
<1>2. CASE Begin(w)
  <2>1. /\ pc[w] = "idle" /\ number[w] + 1 \in Calls
        /\ number' = [number EXCEPT ![w] = number[w] + 1]
        /\ pc' = [pc EXCEPT ![w] = IF socket[w] = 0 THEN "connect" ELSE "send"]
        /\ kind'[w] \in {"eval", "ping"}
        /\ \A v \in Workers \ {w} : kind'[v] = kind[v] /\ reply'[v] = reply[v]
        /\ UNCHANGED <<socket, inbox, wire, executed, granted>>
    BY <1>2, RedisSessionAssumption DEF Begin, Calls
  <2> HIDE DEF SentOnce, LiveIsAwaited, InboxIsOwn, RepliesTrue, ReplyIsOwn, AllowIsGrant
  <2>2. Connected'
    BY <2>1
  <2>3. SentFirst'
    <3>1. ASSUME NEW c \in Commands, Unsent(c)'
          PROVE  Unsent(c)
      <4>1. c.worker \in Workers /\ c.number \in Nat
        BY CommandParts
      <4>2. CASE c.worker = w
        <5>1. number'[w] = number[w] + 1 /\ number[w] \in Nat
          BY <2>1
        <5>2. c.number >= number'[w]
          BY <3>1, <4>1, <4>2, <5>1
        <5> QED
          BY <4>1, <4>2, <5>1, <5>2
      <4>3. CASE c.worker # w
        BY <2>1, <3>1, <4>1, <4>3
      <4> QED
        BY <4>2, <4>3
    <3> HIDE DEF Unsent
    <3> QED
      BY <2>1, <3>1
  <2>4. SentOnce'
    BY <2>1 DEF SentOnce
  <2>5. \A v \in Workers : pc'[v] = "receive" \/ pc'[v] = "done" =>
            v # w /\ pc'[v] = pc[v] /\ Command(v)' = Command(v) /\ reply'[v] = reply[v]
    BY <2>1
  <2> HIDE DEF Connected, SentFirst
  <2>6. LiveIsAwaited'
    BY <2>1, <2>5 DEF LiveIsAwaited
  <2>7. InboxIsOwn'
    BY <2>1, <2>5 DEF InboxIsOwn
  <2>8. RepliesTrue' /\ ReplyIsOwn'
    BY <2>1, <2>5 DEF RepliesTrue, ReplyIsOwn, AllowIsGrant, InboxIsOwn
  <2> QED
    BY <2>2, <2>3, <2>4, <2>6, <2>7, <2>8
<1>3. CASE Connect(w)
  <2>1. /\ pc[w] = "connect" /\ number[w] \in Calls
        /\ socket' = [socket EXCEPT ![w] = number[w]]
        /\ pc' = [pc EXCEPT ![w] = "send"]
        /\ UNCHANGED <<number, kind, reply, inbox, wire, executed, granted>>
    BY <1>3 DEF Connect
  <2>2. ASSUME NEW p \in wire, p.command.worker = w
        PROVE  p.socket < number[w]
    <3>1. p.command.number < number[w]
      BY <2>1, <2>2, OnlySent
    <3>2. p.socket <= p.command.number
      OBVIOUS
    <3>3. p.socket \in Nat /\ p.command.number \in Nat /\ number[w] \in Nat
      OBVIOUS
    <3> QED
      BY ONLY <3>1, <3>2, <3>3
  <2>3. (Connected /\ SentFirst /\ SentOnce /\ InboxIsOwn /\ RepliesTrue /\ ReplyIsOwn)'
    BY <2>1
  <2>4. LiveIsAwaited'
    BY <2>1, <2>2
  <2> QED
    BY <2>3, <2>4
<1>4. CASE ConnectFails(w)
  BY <1>4 DEF ConnectFails
<1>5. CASE SendFails(w)
  BY <1>5 DEF SendFails
<1>6. CASE Receive(w)
  <2>1. CASE Head(inbox[w]).verdict = "error"
    <3>1. /\ pc[w] = "receive"
          /\ socket' = [socket EXCEPT ![w] = 0]
          /\ inbox' = [inbox EXCEPT ![w] = <<>>]
          /\ pc' = [pc EXCEPT ![w] = "failed"]
          /\ UNCHANGED <<number, kind, reply, wire, executed, granted>>
      BY <1>6, <2>1 DEF Receive
    <3> QED
      BY <3>1
  <2>2. CASE Head(inbox[w]).verdict # "error"
    <3>1. /\ pc[w] = "receive" /\ inbox[w] # <<>>
          /\ reply' = [reply EXCEPT ![w] = Head(inbox[w])]
          /\ inbox' = [inbox EXCEPT ![w] = Tail(@)]
          /\ pc' = [pc EXCEPT ![w] = "done"]
          /\ UNCHANGED <<number, kind, socket, wire, executed, granted>>
      BY <1>6, <2>2 DEF Receive
    <3>2. Tail(inbox[w]) = <<>>
      <4>1. inbox[w] \in Seq(Replies) /\ Len(inbox[w]) = 1
        BY <3>1
      <4> QED
        BY ONLY <4>1, Queues
    <3>3. reply'[w] = Head(inbox[w]) /\ inbox'[w] = <<>>
      BY <3>1, <3>2
    <3>4. \A v \in Workers \ {w} : inbox'[v] = inbox[v] /\ reply'[v] = reply[v]
      BY <3>1
    <3>5. (Connected /\ SentFirst /\ SentOnce)'
      BY <3>1
    <3>6. (LiveIsAwaited /\ InboxIsOwn)'
      BY <3>1, <3>3, <3>4
    <3>7. (RepliesTrue /\ ReplyIsOwn)'
      BY <3>1, <3>3, <3>4
    <3> QED
      BY <3>5, <3>6, <3>7
  <2> QED
    BY <2>1, <2>2
<1>7. CASE ReceiveInPart(w)
  BY <1>7 DEF ReceiveInPart
<1>8. CASE TimeOut(w)
  BY <1>8 DEF TimeOut
<1>9. CASE Return(w)
  BY <1>9 DEF Return
<1> QED
  BY <1>2, <1>3, <1>4, <1>5, <1>6, <1>7, <1>8, <1>9 DEF Step

LEMMA SendInv ==
    ASSUME SessionInv, NEW w \in Workers, Send(w)
    PROVE  (Connected /\ SentFirst /\ SentOnce /\ LiveIsAwaited /\ InboxIsOwn /\ RepliesTrue
             /\ ReplyIsOwn)'
<1> DEFINE packet == [command |-> Command(w), kind |-> kind[w], socket |-> socket[w]]
<1>1. /\ pc[w] = "send"
      /\ wire' = wire \cup {packet}
      /\ pc' = [pc EXCEPT ![w] = "receive"]
      /\ UNCHANGED <<number, kind, socket, error, reply, inbox, used, answer, observer>>
  BY DEF Send, Goto
<1>2. packet.command = Command(w) /\ packet.socket = socket[w]
  OBVIOUS
<1> HIDE DEF packet
<1>3. /\ Connected /\ SentFirst /\ SentOnce /\ LiveIsAwaited /\ InboxIsOwn
      /\ RepliesTrue /\ ReplyIsOwn /\ Places
  BY TypedPlaces DEF SessionInv
<1>4. /\ Command(w) \in Commands /\ Command(w).worker = w
      /\ Command(w).number = number[w] /\ number[w] \in Nat
  BY <1>1, <1>3, CommandParts DEF Connected, Places
<1>5. executed[Command(w)] = 0 /\ \A p \in wire : p.command # Command(w)
  BY <1>1, <1>3, <1>4 DEF SentFirst, Unsent
<1>6. pc[w] # "receive" /\ inbox[w] = <<>>
  BY <1>1, <1>3 DEF InboxIsOwn
<1>7. \A v \in Workers : Command(v)' = Command(v)
  BY <1>1 DEF Command
<1> USE DEF Places
<1>8. Connected'
  BY <1>1, <1>3 DEF Connected
<1>9. SentFirst'
  <2> SUFFICES ASSUME NEW c \in Commands, Unsent(c)'
               PROVE  executed[c] = 0 /\ \A p \in wire' : p.command # c
    BY <1>1 DEF SentFirst, observer
  <2>1. Unsent(c) /\ c # Command(w)
    BY <1>1, <1>3, <1>4, CommandParts, CallNumbers DEF Unsent
  <2> QED
    BY <1>1, <1>2, <1>3, <2>1 DEF SentFirst
<1>10. SentOnce'
  BY <1>1, <1>2, <1>3, <1>4, <1>5 DEF SentOnce, Connected, observer
<1>11. LiveIsAwaited'
  <2> SUFFICES ASSUME NEW p \in wire', p.socket = socket[p.command.worker]
               PROVE  LET v == p.command.worker
                      IN  pc'[v] = "receive" /\ p.command = Command(v)' /\ inbox'[v] = <<>>
    BY <1>1 DEF LiveIsAwaited
  <2>1. CASE p = packet
    BY <1>1, <1>2, <1>3, <1>4, <1>6, <1>7, <2>1
  <2>2. CASE p \in wire
    BY <1>1, <1>3, <1>7, <2>2 DEF LiveIsAwaited
  <2> QED
    BY <1>1, <2>1, <2>2
<1>12. (InboxIsOwn /\ RepliesTrue /\ ReplyIsOwn)'
  BY <1>1, <1>3, <1>6, <1>7
  DEF InboxIsOwn, RepliesTrue, ReplyIsOwn, AllowIsGrant, observer
<1> QED
  BY <1>8, <1>9, <1>10, <1>11, <1>12

-----------------------------------------------------------------------------
(* A reply that is sent reaches nobody, or the worker that waits for it.   *)
LEMMA ReplyReachesOwn ==
    ASSUME Places, LiveIsAwaited, NEW p \in wire, NEW v \in Verdicts, SendReply(p, v)
    PROVE  \/ inbox' = inbox
           \/ LET w == p.command.worker
              IN  /\ pc[w] = "receive" /\ p.command = Command(w) /\ p.socket = socket[w]
                  /\ \A u \in Workers \ {w} : inbox'[u] = inbox[u]
                  /\ inbox' \in [Workers -> Seq(Replies)]
                  /\ inbox'[w] # <<>> /\ Len(inbox'[w]) = 1
                  /\ Head(inbox'[w]).command = p.command
                  /\ Head(inbox'[w]).verdict = v
<1> DEFINE w == p.command.worker
           r == [command |-> p.command, verdict |-> v]
<1>1. CASE socket[w] # p.socket
  BY <1>1 DEF SendReply
<1>2. CASE socket[w] = p.socket
  <2>1. pc[w] = "receive" /\ p.command = Command(w) /\ inbox[w] = <<>>
    BY <1>2 DEF LiveIsAwaited
  <2>2. inbox' = [inbox EXCEPT ![w] = Append(inbox[w], r)]
    BY <1>2 DEF SendReply
  <2>3. r \in Replies /\ r.command = p.command /\ r.verdict = v
    BY ReplyParts DEF Places
  <2> HIDE DEF r
  <2>4. w \in Workers /\ inbox \in [Workers -> Seq(Replies)]
    BY DEF Places
  <2>5. /\ Append(inbox[w], r) \in Seq(Replies) /\ Append(inbox[w], r) # <<>>
        /\ Len(Append(inbox[w], r)) = 1 /\ Head(Append(inbox[w], r)) = r
    BY <2>1, <2>3, <2>4, Queues
  <2> QED
    BY <1>2, <2>1, <2>2, <2>3, <2>4, <2>5
<1> QED
  BY <1>1, <1>2

(* What a step of the server or of the network can do to one command p.    *)
Served(p) ==
    /\ wire' = wire \ {p}
    /\ UNCHANGED <<client, allowed>>
    /\ \/ UNCHANGED inbox
       \/ \E v \in Verdicts : SendReply(p, v) /\ (v = "allow" => p.command \in granted')
    /\ \/ UNCHANGED <<used, executed, granted>>
       \/ /\ executed' = [executed EXCEPT ![p.command] = @ + 1]
          /\ \/ UNCHANGED <<used, granted>>
             \/ used < Limit /\ used' = used + 1 /\ granted' = granted \cup {p.command}

LEMMA ServeIsServed == Serve => \E p \in wire : Served(p)
<1> SUFFICES ASSUME NEW p \in wire, wire' = wire \ {p}, UNCHANGED <<client, allowed>>,
                    Evaluate(p) \/ Pong(p) \/ Refuse(p) \/ Lose
             PROVE  Served(p)
  BY DEF Serve
<1> USE DEF Served, Verdicts
<1>1. CASE Evaluate(p)
  BY <1>1 DEF Evaluate
<1>2. CASE Pong(p)
  BY <1>2 DEF Pong
<1>3. CASE Refuse(p)
  BY <1>3 DEF Refuse
<1>4. CASE Lose
  BY <1>4 DEF Lose
<1> QED
  BY <1>1, <1>2, <1>3, <1>4

LEMMA ServeInv ==
    ASSUME SessionInv, NEW p \in wire, Served(p)
    PROVE  SessionInv'
<1>1. /\ Connected /\ SentFirst /\ SentOnce /\ LiveIsAwaited /\ InboxIsOwn
      /\ RepliesTrue /\ ReplyIsOwn /\ GrantsCounted /\ AtMostOnce /\ Places /\ TypeOK
  BY TypedPlaces DEF SessionInv
<1>2. /\ wire' = wire \ {p}
      /\ UNCHANGED <<number, kind, pc, socket, error, reply, answer, allowed>>
  BY DEF Served, client
<1>3. \A w \in Workers : Command(w)' = Command(w)
  BY <1>2 DEF Command
<1>4. /\ p.command \in Commands /\ executed[p.command] = 0 /\ p.command \notin granted
      /\ \A q \in wire' : q \in wire /\ q.command # p.command
  <2>1. p.command \in Commands /\ executed[p.command] = 0
    BY <1>1 DEF SentOnce, Places
  <2>2. p.command \notin granted
    BY <1>1, <2>1 DEF GrantsCounted
  <2>3. \A q \in wire' : q \in wire /\ q.command # p.command
    BY <1>1, <1>2 DEF SentOnce
  <2> QED
    BY <2>1, <2>2, <2>3
<1>5. /\ executed' \in [Commands -> Nat]
      /\ executed'[p.command] \in {0, 1}
      /\ \A c \in Commands : c # p.command => executed'[c] = executed[c]
  <2>1. executed' = executed \/ executed' = [executed EXCEPT ![p.command] = @ + 1]
    BY DEF Served
  <2>2. executed \in [Commands -> Nat]
    BY <1>1 DEF Places
  <2> QED
    BY <1>4, <2>1, <2>2
<1>6. ASSUME inbox' # inbox
      PROVE  LET w == p.command.worker
             IN  /\ pc[w] = "receive" /\ p.command = Command(w) /\ p.socket = socket[w]
                 /\ \A u \in Workers \ {w} : inbox'[u] = inbox[u]
                 /\ inbox' \in [Workers -> Seq(Replies)]
                 /\ inbox'[w] # <<>> /\ Len(inbox'[w]) = 1
                 /\ Head(inbox'[w]).command = p.command
                 /\ (Head(inbox'[w]).verdict = "allow" => p.command \in granted')
  <2>1. PICK v \in Verdicts : SendReply(p, v) /\ (v = "allow" => p.command \in granted')
    BY <1>6 DEF Served
  <2> QED
    BY <1>1, <1>6, <2>1, ReplyReachesOwn
<1>7. granted \subseteq granted' /\ granted' \subseteq granted \cup {p.command}
  BY DEF Served
<1>8. TypeOK'
  <2>1. inbox' \in [Workers -> Seq(Replies)]
    BY <1>1, <1>6 DEF Places
  <2>2. used' \in 0..Limit
    BY <1>1, RedisSessionAssumption DEF TypeOK, Served
  <2>3. wire' \subseteq Packets /\ granted' \subseteq Commands
    BY <1>1, <1>2, <1>4, <1>7 DEF TypeOK
  <2> QED
    BY <1>1, <1>2, <1>5, <2>1, <2>2, <2>3 DEF TypeOK
<1>9. Connected' /\ ReplyIsOwn'
  BY <1>1, <1>2, <1>3 DEF Connected, ReplyIsOwn
<1>10. SentFirst'
  <2> SUFFICES ASSUME NEW c \in Commands, Unsent(c)'
               PROVE  executed'[c] = 0 /\ \A q \in wire' : q.command # c
    BY DEF SentFirst
  <2>1. Unsent(c)
    BY <1>2 DEF Unsent
  <2>2. executed[c] = 0 /\ \A q \in wire : q.command # c
    BY <1>1, <2>1 DEF SentFirst
  <2> QED
    BY <1>4, <1>5, <2>2
<1>11. SentOnce'
  BY <1>1, <1>4, <1>5 DEF SentOnce, Places
<1>12. LiveIsAwaited'
  <2> SUFFICES ASSUME NEW q \in wire', q.socket = socket[q.command.worker]
               PROVE  LET w == q.command.worker
                      IN  pc[w] = "receive" /\ q.command = Command(w) /\ inbox'[w] = <<>>
    BY <1>1, <1>2, <1>3, <1>4 DEF LiveIsAwaited, Places
  <2>1. /\ pc[q.command.worker] = "receive" /\ q.command = Command(q.command.worker)
        /\ inbox[q.command.worker] = <<>> /\ q.command.worker \in Workers
    BY <1>1, <1>4 DEF LiveIsAwaited, Places
  <2>2. CASE inbox' # inbox
    <3>1. q.command.worker # p.command.worker
      BY <1>4, <1>6, <2>1, <2>2
    <3> QED
      BY <1>6, <2>1, <2>2, <3>1
  <2> QED
    BY <2>1, <2>2
<1>13. (InboxIsOwn /\ RepliesTrue)'
  <2>1. CASE inbox' = inbox
    BY <1>1, <1>2, <1>3, <1>7, <2>1 DEF InboxIsOwn, RepliesTrue, AllowIsGrant
  <2>2. CASE inbox' # inbox
    BY <1>1, <1>2, <1>3, <1>6, <1>7, <2>2 DEF InboxIsOwn, RepliesTrue, AllowIsGrant
  <2> QED
    BY <2>1, <2>2
<1>14. GrantsCounted'
  <2>1. CASE UNCHANGED <<used, granted>>
    BY <1>1, <1>4, <1>5, <2>1 DEF GrantsCounted, TypeOK
  <2>2. CASE /\ executed' = [executed EXCEPT ![p.command] = @ + 1]
             /\ used' = used + 1 /\ granted' = granted \cup {p.command}
    <3>1. IsFiniteSet(granted') /\ Cardinality(granted') = used'
      BY <1>1, <1>4, <2>2, FS_AddElement DEF GrantsCounted
    <3>2. \A c \in granted' : executed'[c] = 1
      BY <1>1, <1>4, <1>5, <2>2 DEF GrantsCounted, TypeOK
    <3> QED
      BY <3>1, <3>2 DEF GrantsCounted
  <2> QED
    BY <2>1, <2>2 DEF Served
<1>15. AtMostOnce'
  BY <1>1, <1>5 DEF AtMostOnce
<1>16. (allowed \subseteq granted)'
  BY <1>2, <1>7 DEF SessionInv
<1> QED
  BY <1>8, <1>9, <1>10, <1>11, <1>12, <1>13, <1>14, <1>15, <1>16 DEF SessionInv

-----------------------------------------------------------------------------
(* Whoever is told allow has taken a reply that says so. *)
LEMMA ReturnAllowed ==
    ASSUME SessionInv, NEW w \in Workers, Return(w)
    PROVE  allowed' \subseteq granted
<1>1. allowed' = IF Answered(w).verdict = "allow" THEN allowed \cup {Command(w)} ELSE allowed
  BY DEF Return
<1>2. Answered(w).verdict = "allow" => pc[w] = "done" /\ reply[w].verdict = "allow"
  BY DEF Answered
<1>3. pc[w] = "done" /\ reply[w].verdict = "allow" => Command(w) \in granted
  BY DEF SessionInv, RepliesTrue, AllowIsGrant, ReplyIsOwn
<1> QED
  BY <1>1, <1>2, <1>3 DEF SessionInv

LEMMA StepInv == SessionInv /\ [Next]_vars => SessionInv'
<1> SUFFICES ASSUME SessionInv, [Next]_vars
             PROVE  SessionInv'
  OBVIOUS
<1>1. ASSUME NEW w \in Workers, Begin(w) \/ Step(w)
      PROVE  SessionInv'
  <2>1. TypeOK'
    BY <1>1, WorkerTypeOK DEF SessionInv
  <2>2. (Connected /\ SentFirst /\ SentOnce /\ LiveIsAwaited /\ InboxIsOwn /\ RepliesTrue
          /\ ReplyIsOwn)'
    BY <1>1, WorkerInv, SendInv
  <2>3. UNCHANGED <<used, executed, granted>>
    BY <1>1
    DEF Begin, Step, Connect, ConnectFails, Send, SendFails, Receive, ReceiveInPart,
        TimeOut, Return, server, observer
  <2>4. GrantsCounted' /\ AtMostOnce'
    BY <2>3 DEF SessionInv, GrantsCounted, AtMostOnce
  <2>5. (allowed \subseteq granted)'
    <3>1. allowed' = allowed \/ Return(w)
      BY <1>1
      DEF Begin, Step, Connect, ConnectFails, Send, SendFails, Receive, ReceiveInPart,
          TimeOut, observer
    <3> QED
      BY <2>3, <3>1, ReturnAllowed DEF SessionInv
  <2> QED
    BY <2>1, <2>2, <2>4, <2>5 DEF SessionInv
<1>2. CASE Serve
  BY <1>2, ServeIsServed, ServeInv
<1>3. CASE UNCHANGED vars
  BY <1>3
  DEF vars, client, server, observer, SessionInv, TypeOK, Connected, SentFirst, Unsent,
      SentOnce, LiveIsAwaited, InboxIsOwn, RepliesTrue, AllowIsGrant, GrantsCounted,
      ReplyIsOwn, AtMostOnce, Command
<1> QED
  BY <1>1, <1>2, <1>3 DEF Next, Terminated

(* The strengthened invariant holds for any workers, limit and calls.      *)
THEOREM SpecSessionInv == Spec => []SessionInv
  BY InitInv, StepInv, PTL DEF Spec

(* The client, its connections and the wire keep their types. *)
THEOREM TypeCorrect == Spec => []TypeOK
<1>1. SessionInv => TypeOK
  BY DEF SessionInv
<1> QED
  BY <1>1, SpecSessionInv, PTL

(* RedisStateStore discards the connection of a failed command: a reply    *)
(* that comes too late never answers a later command of its worker.        *)
THEOREM NoLateReply == Spec => []ReplyIsOwn
<1>1. SessionInv => ReplyIsOwn
  BY DEF SessionInv
<1> QED
  BY <1>1, SpecSessionInv, PTL

(* Commands are not retried: no script runs twice, whatever is lost,       *)
(* refused or timed out.                                                   *)
THEOREM RunAtMostOnce == Spec => []AtMostOnce
<1>1. SessionInv => AtMostOnce
  BY DEF SessionInv
<1> QED
  BY <1>1, SpecSessionInv, PTL

(* Whoever is told allow was granted it by Redis, which grants no more     *)
(* than the limit to all workers together.                                 *)
THEOREM AllowIsBacked == Spec => []AllowedWasGranted
<1>1. SessionInv => AllowedWasGranted
  BY RedisSessionAssumption DEF SessionInv, TypeOK, GrantsCounted, AllowedWasGranted
<1> QED
  BY <1>1, SpecSessionInv, PTL
=============================================================================
