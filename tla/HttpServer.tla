----------------------------- MODULE HttpServer -----------------------------
(***************************************************************************)
(* The HTTP server (api/Server.cpp): one thread accepts connections and    *)
(* puts them into a bounded queue, worker threads take them out, read one  *)
(* request each, answer it and close.  The queue has a mutex, held only    *)
(* for a push or a check and pop, and a condition variable, which may wake *)
(* a thread for no reason.                                                 *)
(*                                                                         *)
(* Of what a client sends only the number of bytes is kept, and where the  *)
(* blank line after the headers is.  What the controller does with a       *)
(* request is in RestController; here it returns.  served observes how     *)
(* often each connection was disposed of.                                  *)
(***************************************************************************)
EXTENDS Integers, Sequences, FiniteSets

CONSTANTS Connections,  \* connections that clients may make
          Workers,      \* worker threads
          MaxQueued,    \* maxQueuedConnections_
          MaxHeader,    \* maxHeaderBytes
          MaxBody,      \* the largest Content-Length accepted, 1 MiB
          Buffer,       \* the most that one recv returns
          Blank,        \* the length of the blank line
          NoConnection

ASSUME HttpServerAssumption ==
    /\ MaxQueued \in Nat \ {0}
    /\ MaxHeader \in Nat /\ MaxBody \in Nat
    /\ Buffer \in Nat \ {0} /\ Blank \in Nat \ {0}
    /\ NoConnection \notin Connections
    /\ IsFiniteSet(Workers)

VARIABLES
    backlog,    \* connections the kernel holds for accept
    acceptor,   \* the accepting thread: its next step and its connection
    pending,    \* the queue
    pc,         \* the next step of each worker
    client,     \* the connection of each worker
    raw,        \* what it has received: how much, headerEnd and expectedBody
    up,         \* whether the process runs
    served      \* how often each connection was closed by the server

worker == <<pc, client, raw>>
vars   == <<backlog, acceptor, pending, worker, up, served>>

Idle == [pc |-> "accept", client |-> NoConnection]

NothingRead == [size |-> 0, headerEnd |-> -1, expected |-> -1]

(* No more is ever received than the limits and one buffer.                *)
MaxSize == MaxHeader + Blank + MaxBody + Buffer - 1

TypeOK ==
    /\ backlog \in Seq(Connections)
    /\ acceptor \in [pc : {"accept", "queue", "notify", "busy"},
                     client : Connections \cup {NoConnection}]
    /\ pending \in Seq(Connections) /\ Len(pending) <= MaxQueued
    /\ pc \in [Workers -> {"check", "waiting", "read", "handle", "reply"}]
    /\ client \in [Workers -> Connections \cup {NoConnection}]
    /\ raw \in [Workers -> [size : 0..MaxSize, headerEnd : -1..MaxHeader,
                            expected : -1..MaxBody]]
    /\ up \in BOOLEAN
    /\ served \in [Connections -> Nat]

Init ==
    /\ backlog = <<>>
    /\ acceptor = Idle
    /\ pending = <<>>
    /\ pc = [w \in Workers |-> "check"]
    /\ client = [w \in Workers |-> NoConnection]
    /\ raw = [w \in Workers |-> NothingRead]
    /\ up = TRUE
    /\ served = [c \in Connections |-> 0]

Members(s) == {s[i] : i \in 1..Len(s)}

(* The connections that the process holds, each once for every holder. *)
Held ==
    (IF acceptor.pc \in {"queue", "busy"} THEN {acceptor.client} ELSE {})
    \cup Members(pending)
    \cup {client[w] : w \in {v \in Workers : pc[v] \in {"read", "handle", "reply"}}}

-----------------------------------------------------------------------------
(* A client connects, once. *)
Connect(c) ==
    /\ c \notin Members(backlog) \cup Held
    /\ served[c] = 0
    /\ backlog' = Append(backlog, c)
    /\ UNCHANGED <<acceptor, pending, worker, up, served>>

Accept ==
    /\ acceptor.pc = "accept"
    /\ backlog # <<>>
    /\ acceptor' = [pc |-> "queue", client |-> Head(backlog)]
    /\ backlog' = Tail(backlog)
    /\ UNCHANGED <<pending, worker, up, served>>

\* Seeded fault: the bound is compared with <=.
EnqueueOneTooMany ==
    /\ acceptor.pc = "queue"
    /\ Len(pending) <= MaxQueued
    /\ pending' = Append(pending, acceptor.client)
    /\ acceptor' = [pc |-> "notify", client |-> NoConnection]
    /\ UNCHANGED <<backlog, worker, up, served>>

(* Under the mutex, if there is room. *)
Enqueue ==
    /\ acceptor.pc = "queue"
    /\ Len(pending) < MaxQueued
    /\ pending' = Append(pending, acceptor.client)
    /\ acceptor' = [pc |-> "notify", client |-> NoConnection]
    /\ UNCHANGED <<backlog, worker, up, served>>

\* Seeded fault: a connection that finds the queue full is forgotten.
OverflowForgetting ==
    /\ acceptor.pc = "queue"
    /\ Len(pending) >= MaxQueued
    /\ acceptor' = Idle
    /\ UNCHANGED <<backlog, pending, worker, up, served>>

Overflow ==
    /\ acceptor.pc = "queue"
    /\ Len(pending) >= MaxQueued
    /\ acceptor' = [acceptor EXCEPT !.pc = "busy"]
    /\ UNCHANGED <<backlog, pending, worker, up, served>>

\* Seeded fault: only the first of several connections wakes a worker.
NotifyFirstOnly ==
    /\ acceptor.pc = "notify"
    /\ acceptor' = Idle
    /\ IF Len(pending) = 1 /\ \E w \in Workers : pc[w] = "waiting"
         THEN \E w \in Workers : pc[w] = "waiting" /\ pc' = [pc EXCEPT ![w] = "check"]
         ELSE UNCHANGED pc
    /\ UNCHANGED <<backlog, pending, client, raw, up, served>>

(* notify_one, after the mutex was given back: one thread that waits, if   *)
(* there is one.                                                           *)
Notify ==
    /\ acceptor.pc = "notify"
    /\ acceptor' = Idle
    /\ \/ \E w \in Workers : pc[w] = "waiting" /\ pc' = [pc EXCEPT ![w] = "check"]
       \/ (\A w \in Workers : pc[w] # "waiting") /\ UNCHANGED pc
    /\ UNCHANGED <<backlog, pending, client, raw, up, served>>

(* The accepting thread itself answers "server is busy" and closes. *)
AnswerBusy ==
    /\ acceptor.pc = "busy"
    /\ served' = [served EXCEPT ![acceptor.client] = @ + 1]
    /\ acceptor' = Idle
    /\ UNCHANGED <<backlog, pending, worker, up>>

-----------------------------------------------------------------------------
Goto(w, step) == pc' = [pc EXCEPT ![w] = step]

\* Seeded fault: front and pop in two critical sections, the pop forgotten.
TakeWithoutPop(w) ==
    /\ pc[w] = "check"
    /\ pending # <<>>
    /\ client' = [client EXCEPT ![w] = Head(pending)]
    /\ Goto(w, "read")
    /\ UNCHANGED <<backlog, acceptor, pending, raw, up, served>>

(* The predicate of wait, under the mutex: take the first, or sleep. *)
Take(w) ==
    /\ pc[w] = "check"
    /\ pending # <<>>
    /\ client' = [client EXCEPT ![w] = Head(pending)]
    /\ pending' = Tail(pending)
    /\ Goto(w, "read")
    /\ UNCHANGED <<backlog, acceptor, raw, up, served>>

Sleep(w) ==
    /\ pc[w] = "check"
    /\ pending = <<>>
    /\ Goto(w, "waiting")
    /\ UNCHANGED <<backlog, acceptor, pending, client, raw, up, served>>

SpuriousWakeup(w) ==
    /\ pc[w] = "waiting"
    /\ Goto(w, "check")
    /\ UNCHANGED <<backlog, acceptor, pending, client, raw, up, served>>

Found(r) == r.headerEnd >= 0

(* recv appends up to a buffer.  The blank line, which may come in pieces, *)
(* is found when the last of them has come, and parseExpectedBody then     *)
(* takes a length from the headers, 0 if they have none.                   *)
Received(r) ==
    {s \in [size : (r.size + 1)..(r.size + Buffer), headerEnd : -1..MaxHeader,
            expected : -1..MaxBody] :
       \/ s.headerEnd = r.headerEnd /\ s.expected = r.expected
       \/ /\ ~Found(r) /\ Found(s) /\ s.expected >= 0
          /\ s.headerEnd + Blank \in (r.size + 1)..s.size}

\* Seeded fault: the length of the blank line is forgotten.
CompleteEarly(r) == r.size >= r.headerEnd + r.expected

Complete(r) == r.size >= r.headerEnd + Blank + r.expected

(* More than the blank line came, and no length was given. *)
Surplus(r) == r.expected = 0 /\ r.size > r.headerEnd + Blank

(* readRequest: recv returns within five seconds, and there is more to     *)
(* come.                                                                   *)
ReceivePart(w) ==
    /\ pc[w] = "read"
    /\ \E r \in Received(raw[w]) :
          /\ IF Found(r) THEN ~Surplus(r) /\ ~Complete(r) ELSE r.size <= MaxHeader
          /\ raw' = [raw EXCEPT ![w] = r]
    /\ UNCHANGED <<backlog, acceptor, pending, pc, client, up, served>>

(* The request is there, and parseHttpRequest takes it. *)
ReceiveLast(w) ==
    /\ pc[w] = "read"
    /\ \E r \in Received(raw[w]) :
          /\ Found(r) /\ Complete(r) /\ ~Surplus(r)
          /\ raw' = [raw EXCEPT ![w] = r]
    /\ Goto(w, "handle")
    /\ UNCHANGED <<backlog, acceptor, pending, client, up, served>>

(* An error response: 408 when the five seconds are over or the connection *)
(* has ended, 431 for longer headers, 413 for a longer body, 400 for a     *)
(* surplus, headers that are malformed or doubled, a transfer-encoding or  *)
(* another request line.                                                   *)
ReceiveFails(w) ==
    /\ pc[w] = "read"
    /\ raw' = [raw EXCEPT ![w] = NothingRead]
    /\ Goto(w, "reply")
    /\ UNCHANGED <<backlog, acceptor, pending, client, up, served>>

(* handleRequest returns; what was received is not read again. *)
Handle(w) ==
    /\ pc[w] = "handle"
    /\ raw' = [raw EXCEPT ![w] = NothingRead]
    /\ Goto(w, "reply")
    /\ UNCHANGED <<backlog, acceptor, pending, client, up, served>>

(* sendAll, whether it succeeds or not, and closeSocket. *)
Reply(w) ==
    /\ pc[w] = "reply"
    /\ served' = [served EXCEPT ![client[w]] = @ + 1]
    /\ client' = [client EXCEPT ![w] = NoConnection]
    /\ Goto(w, "check")
    /\ UNCHANGED <<backlog, acceptor, pending, raw, up>>

-----------------------------------------------------------------------------
(* send to a connection that its client has reset may raise SIGPIPE, which *)
(* nothing in the program handles: the process ends, and the kernel closes *)
(* what it held.                                                           *)
Sigpipe ==
    /\ acceptor.pc = "busy" \/ \E w \in Workers : pc[w] = "reply"
    /\ up' = FALSE
    /\ served' = [c \in Connections |->
                    IF c \in Held \cup Members(backlog) THEN served[c] + 1 ELSE served[c]]
    /\ backlog' = <<>>
    /\ acceptor' = Idle
    /\ pending' = <<>>
    /\ pc' = [w \in Workers |-> "waiting"]
    /\ client' = [w \in Workers |-> NoConnection]
    /\ raw' = [w \in Workers |-> NothingRead]

AcceptLoop == Accept \/ Enqueue \/ Overflow \/ Notify \/ AnswerBusy

WorkerLoop(w) ==
    \/ Take(w) \/ Sleep(w)
    \/ ReceivePart(w) \/ ReceiveLast(w) \/ ReceiveFails(w)
    \/ Handle(w) \/ Reply(w)

Next ==
    /\ up
    /\ \/ \E c \in Connections : Connect(c)
       \/ AcceptLoop
       \/ \E w \in Workers : WorkerLoop(w) \/ SpuriousWakeup(w)
       \/ Sigpipe

Spec == Init /\ [][Next]_vars

(* Every thread gets to run, recv and send return by their timeouts, and   *)
(* the controller returns.                                                 *)
FairSpec ==
    /\ Spec
    /\ WF_vars(up /\ AcceptLoop)
    /\ \A w \in Workers : WF_vars(up /\ WorkerLoop(w))

-----------------------------------------------------------------------------
(* Server.cpp:295 and 331: a connection passes from the accepting thread   *)
(* through the queue to one worker.  It is never with two of them, never   *)
(* lost on the way, and closed once: a second close would hit whatever     *)
(* connection has got the number of the descriptor since.                  *)
OneHandler ==
    /\ \A v, w \in Workers : client[v] = client[w] /\ client[v] # NoConnection => v = w
    /\ \A i, j \in 1..Len(pending) : pending[i] = pending[j] => i = j
    /\ \A i \in 1..Len(pending) :
         acceptor.client # pending[i] /\ \A w \in Workers : client[w] # pending[i]
    /\ \A w \in Workers : acceptor.client # NoConnection => client[w] # acceptor.client
    /\ \A c \in Connections : served[c] <= 1 /\ (c \in Held => served[c] = 0)

(* README.md:186: "16 KiB headers, 1 MiB bodies, strict Content-Length".   *)
(* However the bytes are split among the recvs, the controller gets no     *)
(* request before the whole of the declared body is there, none with       *)
(* longer headers or a longer declared body, and none with a body that     *)
(* came along undeclared.  A body longer than declared is another matter:  *)
(* what came with the last recv is kept.                                   *)
WholeRequest ==
    \A w \in Workers : pc[w] = "handle" =>
        LET body == raw[w].size - raw[w].headerEnd - Blank
        IN  /\ raw[w].headerEnd \in 0..MaxHeader
            /\ raw[w].expected \in 0..MaxBody
            /\ IF raw[w].expected = 0
                 THEN body = 0
                 ELSE body \in raw[w].expected..(raw[w].expected + Buffer - 1)

(* What it and the bound on what is received rest on: of a request that is *)
(* not complete, the last limit that applies has not been reached.         *)
ReadingOn ==
    \A w \in Workers : pc[w] # "handle" =>
        IF Found(raw[w])
          THEN raw[w].expected >= 0 /\ raw[w].size < raw[w].headerEnd + Blank + raw[w].expected
          ELSE raw[w].size <= MaxHeader /\ raw[w].expected = -1

Awake == {w \in Workers : pc[w] = "check"}

(* Server.cpp:294 and 336: the workers check the queue under the mutex     *)
(* that notify_one is called without.  As long as a worker sleeps, there   *)
(* are enough awake, or about to be woken, for every queued connection.    *)
NoLostWakeup ==
    (\E w \in Workers : pc[w] = "waiting") =>
        Len(pending) <= Cardinality(Awake) + (IF acceptor.pc = "notify" THEN 1 ELSE 0)

(* What OneHandler rests on: a thread has a connection exactly while it    *)
(* deals with one, and those that wait for accept are nobody's yet.        *)
ClientsHeld ==
    /\ \A w \in Workers : client[w] # NoConnection <=> pc[w] \in {"read", "handle", "reply"}
    /\ acceptor.client # NoConnection <=> acceptor.pc \in {"queue", "busy"}

BacklogApart ==
    /\ \A i, j \in 1..Len(backlog) : backlog[i] = backlog[j] => i = j
    /\ \A i \in 1..Len(backlog) :
         /\ acceptor.client # backlog[i]
         /\ \A k \in 1..Len(pending) : pending[k] # backlog[i]
         /\ \A w \in Workers : client[w] # backlog[i]
         /\ served[backlog[i]] = 0

HandlerInv == TypeOK /\ ClientsHeld /\ ReadingOn /\ BacklogApart /\ OneHandler

(* TECHNICAL_ONBOARDING.md:466: "five-second deadlines and queue rejection *)
(* prevent one slow client or unbounded accepted work from consuming the   *)
(* service indefinitely".  Whoever connects is answered or closed, however *)
(* slow the others are.                                                    *)
EveryConnectionClosed ==
    \A c \in Connections : c \in Members(backlog) ~> served[c] > 0
=============================================================================
