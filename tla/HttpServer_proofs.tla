------------------------- MODULE HttpServer_proofs -------------------------
(***************************************************************************)
(* Proofs about HttpServer, for any connections and workers and every      *)
(* bound on the queue: no wake-up is lost, a connection is dealt with by   *)
(* one thread at a time and closed at most once, and a request is whole    *)
(* when the controller gets it.                                            *)
(***************************************************************************)
EXTENDS HttpServer, FiniteSetTheorems, TLAPS

(* The type of the state depends on which threads have a connection, and   *)
(* the bound on what is received on how far each request has come.         *)
Typed == TypeOK /\ ClientsHeld /\ ReadingOn

Sizes == [size : 0..MaxSize, headerEnd : -1..MaxHeader, expected : -1..MaxBody]

LEMMA InitTyped == Init => Typed
<1>1. NothingRead \in Sizes
  BY HttpServerAssumption DEF NothingRead, Sizes, MaxSize
<1> HIDE DEF NothingRead
<1>2. Init => TypeOK /\ ClientsHeld
  BY <1>1, HttpServerAssumption DEF Init, TypeOK, ClientsHeld, Idle, Sizes
<1>3. Init => ReadingOn
  BY HttpServerAssumption DEF Init, ReadingOn, Found, NothingRead
<1> QED
  BY <1>2, <1>3 DEF Typed

(* A request that is not complete grows by one buffer at most, and stays   *)
(* within the bound.                                                       *)
LEMMA GrowthBounded ==
    ASSUME Typed, NEW w \in Workers, pc[w] = "read", NEW r \in Received(raw[w])
    PROVE  r \in Sizes
<1> DEFINE s == raw[w]
<1>1. /\ s \in Sizes
      /\ IF Found(s) THEN s.expected >= 0 /\ s.size < s.headerEnd + Blank + s.expected
                     ELSE s.size <= MaxHeader
  BY DEF Typed, TypeOK, Sizes, ReadingOn
<1>2. s.size + Buffer <= MaxSize
  BY <1>1, HttpServerAssumption DEF Sizes, MaxSize, Found
<1>3. /\ r.size \in (s.size + 1)..(s.size + Buffer)
      /\ r \in [size : (s.size + 1)..(s.size + Buffer), headerEnd : -1..MaxHeader,
                expected : -1..MaxBody]
  BY DEF Received
<1>4. (s.size + 1)..(s.size + Buffer) \subseteq 0..MaxSize
  BY <1>1, <1>2, HttpServerAssumption DEF Sizes, MaxSize
<1> QED
  BY <1>3, <1>4 DEF Sizes

LEMMA StepTyped == Typed /\ [Next]_vars => Typed'
<1> SUFFICES ASSUME Typed, [Next]_vars
             PROVE  Typed'
  OBVIOUS
<1>0. NothingRead \in Sizes /\ ~Found(NothingRead) /\ NothingRead.size <= MaxHeader
        /\ NothingRead.expected = -1
  BY HttpServerAssumption DEF NothingRead, Sizes, MaxSize, Found
<1>1. ASSUME NEW c \in Connections, Connect(c)
      PROVE  Typed'
  BY <1>1 DEF Connect, Typed, TypeOK, ClientsHeld, ReadingOn, worker
<1>2. CASE AcceptLoop
  <2> USE HttpServerAssumption DEF Typed, TypeOK, ClientsHeld, ReadingOn, worker, Idle
  <2>1. CASE Accept
    BY <2>1 DEF Accept
  <2>2. CASE Enqueue
    BY <2>2 DEF Enqueue
  <2>3. CASE Overflow
    BY <2>3 DEF Overflow
  <2>4. CASE Notify
    BY <2>4 DEF Notify
  <2>5. CASE AnswerBusy
    BY <2>5 DEF AnswerBusy
  <2> QED
    BY <1>2, <2>1, <2>2, <2>3, <2>4, <2>5 DEF AcceptLoop
<1>3. ASSUME NEW w \in Workers, Take(w) \/ Sleep(w) \/ SpuriousWakeup(w) \/ Reply(w)
      PROVE  Typed'
  <2> USE DEF Typed, TypeOK, ClientsHeld, ReadingOn, Goto
  <2>1. CASE Take(w)
    <3>1. /\ Head(pending) \in Connections
          /\ Tail(pending) \in Seq(Connections) /\ Len(Tail(pending)) <= MaxQueued
      BY <2>1, HttpServerAssumption DEF Take
    <3>2. TypeOK' /\ ClientsHeld'
      BY <2>1, <3>1, HttpServerAssumption DEF Take
    <3>3. ReadingOn'
      BY <2>1 DEF Take
    <3> QED
      BY <3>2, <3>3
  <2>2. CASE Sleep(w) \/ SpuriousWakeup(w)
    BY <2>2 DEF Sleep, SpuriousWakeup
  <2>3. CASE Reply(w)
    BY <2>3, HttpServerAssumption DEF Reply
  <2> QED
    BY <1>3, <2>1, <2>2, <2>3
<1>4. ASSUME NEW w \in Workers, ReceivePart(w)
      PROVE  Typed'
  <2>1. PICK r \in Received(raw[w]) :
          /\ IF Found(r) THEN ~Surplus(r) /\ ~Complete(r) ELSE r.size <= MaxHeader
          /\ raw' = [raw EXCEPT ![w] = r]
    BY <1>4 DEF ReceivePart
  <2>2. pc[w] = "read" /\ raw[w] \in Sizes
    BY <1>4 DEF ReceivePart, Typed, TypeOK, Sizes
  <2>3. r \in Sizes
    BY <2>2, GrowthBounded
  <2>4. TypeOK' /\ ClientsHeld'
    BY <1>4, <2>1, <2>3 DEF ReceivePart, Typed, TypeOK, ClientsHeld, Sizes
  <2>5. IF Found(r) THEN r.expected >= 0 /\ r.size < r.headerEnd + Blank + r.expected
                    ELSE r.size <= MaxHeader /\ r.expected = -1
    <3>1. Found(r) \/ r.expected = -1
      BY <2>2 DEF Received, Found, Typed, ReadingOn
    <3>2. Found(r) => r.expected >= 0
      BY <2>2 DEF Received, Found, Typed, ReadingOn
    <3> QED
      BY <2>1, <2>3, <3>1, <3>2, HttpServerAssumption DEF Sizes, MaxSize, Complete
  <2>6. ReadingOn'
    BY <1>4, <2>1, <2>5 DEF ReceivePart, Typed, TypeOK, ReadingOn
  <2> QED
    BY <2>4, <2>6 DEF Typed
<1>5. ASSUME NEW w \in Workers, ReceiveLast(w)
      PROVE  Typed'
  <2>1. PICK r \in Received(raw[w]) : raw' = [raw EXCEPT ![w] = r]
    BY <1>5 DEF ReceiveLast
  <2>2. r \in Sizes
    BY <1>5, GrowthBounded DEF ReceiveLast
  <2>3. TypeOK' /\ ClientsHeld' /\ ReadingOn'
    BY <1>5, <2>1, <2>2
    DEF ReceiveLast, Typed, TypeOK, ClientsHeld, ReadingOn, Sizes, Goto
  <2> QED
    BY <2>3 DEF Typed
<1>6. ASSUME NEW w \in Workers, ReceiveFails(w) \/ Handle(w)
      PROVE  Typed'
  <2>1. /\ raw' = [raw EXCEPT ![w] = NothingRead]
        /\ pc' = [pc EXCEPT ![w] = "reply"]
        /\ pc[w] \in {"read", "handle"}
        /\ UNCHANGED <<backlog, acceptor, pending, client, up, served>>
    BY <1>6 DEF ReceiveFails, Handle, Goto
  <2>2. TypeOK' /\ ClientsHeld'
    BY <1>0, <2>1 DEF Typed, TypeOK, ClientsHeld, Sizes
  <2>3. ReadingOn'
    BY <1>0, <2>1 DEF Typed, TypeOK, ReadingOn
  <2> QED
    BY <2>2, <2>3 DEF Typed
<1>7. CASE Sigpipe
  <2>1. served' \in [Connections -> Nat]
    <3> DEFINE Lost(c) == c \in Held \cup Members(backlog)
    <3>1. \A c \in Connections : (IF Lost(c) THEN served[c] + 1 ELSE served[c]) \in Nat
      BY DEF Typed, TypeOK
    <3>2. served' = [c \in Connections |-> IF Lost(c) THEN served[c] + 1 ELSE served[c]]
      BY <1>7 DEF Sigpipe
    <3> HIDE DEF Lost
    <3> QED
      BY <3>1, <3>2
  <2>2. /\ backlog' = <<>> /\ pending' = <<>>
        /\ acceptor' = [pc |-> "accept", client |-> NoConnection]
        /\ pc' = [w \in Workers |-> "waiting"]
        /\ client' = [w \in Workers |-> NoConnection]
        /\ raw' = [w \in Workers |-> NothingRead]
        /\ up' = FALSE
    BY <1>7 DEF Sigpipe, Idle
  <2>3. backlog' \in Seq(Connections) /\ pending' \in Seq(Connections) /\ Len(pending') <= MaxQueued
    BY <2>2, HttpServerAssumption
  <2>4. ClientsHeld' /\ ReadingOn'
    BY <1>0, <2>2 DEF ClientsHeld, ReadingOn
  <2>5. raw' \in [Workers -> Sizes]
    BY <1>0, <2>2
  <2> QED
    BY <2>1, <2>2, <2>3, <2>4, <2>5 DEF Typed, TypeOK, Sizes
<1>8. CASE UNCHANGED vars
  BY <1>8 DEF vars, worker, Typed, TypeOK, ClientsHeld, ReadingOn
<1> QED
  BY <1>1, <1>2, <1>3, <1>4, <1>5, <1>6, <1>7, <1>8 DEF Next, WorkerLoop

THEOREM SpecTyped == Spec => []Typed
  BY InitTyped, StepTyped, PTL DEF Spec

(* The state of the server is always of its type; in particular the queue  *)
(* never exceeds maxQueuedConnections_.                                    *)
THEOREM TypeCorrect == Spec => []TypeOK
<1>1. Typed => TypeOK
  BY DEF Typed
<1> QED
  BY <1>1, SpecTyped, PTL

-----------------------------------------------------------------------------
(* How the set of workers that are awake changes. *)
LEMMA AwakeFinite == IsFiniteSet(Awake) /\ Cardinality(Awake) \in Nat
  BY HttpServerAssumption, FS_Subset, FS_CardinalityType DEF Awake

LEMMA OneMoreAwake ==
    ASSUME Typed, NEW w \in Workers, pc[w] # "check", pc' = [pc EXCEPT ![w] = "check"]
    PROVE  Cardinality(Awake') = Cardinality(Awake) + 1
<1>1. Awake' = Awake \cup {w} /\ w \notin Awake
  BY DEF Awake, Typed, TypeOK
<1> QED
  BY <1>1, AwakeFinite, FS_AddElement

LEMMA OneLessAwake ==
    ASSUME Typed, NEW w \in Workers, NEW step \in {"waiting", "read"},
           pc[w] = "check", pc' = [pc EXCEPT ![w] = step]
    PROVE  Cardinality(Awake') = Cardinality(Awake) - 1
<1>1. Awake' = Awake \ {w} /\ w \in Awake
  BY DEF Awake, Typed, TypeOK
<1> QED
  BY <1>1, AwakeFinite, FS_RemoveElement

(* A step between two places that are neither check nor waiting. *)
LEMMA SameAwake ==
    ASSUME Typed, NEW w \in Workers, NEW step \in {"handle", "reply"},
           pc[w] \in {"read", "handle"}, pc' = [pc EXCEPT ![w] = step]
    PROVE  /\ Awake' = Awake
           /\ \A v \in Workers : pc'[v] = "waiting" <=> pc[v] = "waiting"
  BY DEF Awake, Typed, TypeOK

LEMMA InitNoLostWakeup == Init => NoLostWakeup
  BY DEF Init, NoLostWakeup

LEMMA StepNoLostWakeup == Typed /\ NoLostWakeup /\ [Next]_vars => NoLostWakeup'
<1> SUFFICES ASSUME Typed, NoLostWakeup, [Next]_vars
             PROVE  NoLostWakeup'
  OBVIOUS
<1> USE AwakeFinite DEF NoLostWakeup
<1>0. Len(pending) \in Nat
  BY DEF Typed, TypeOK
<1>1. ASSUME UNCHANGED <<pending, pc>>, acceptor.pc = "notify" <=> acceptor'.pc = "notify"
      PROVE  NoLostWakeup'
  BY <1>1 DEF Awake
<1>2. CASE Accept \/ Overflow \/ AnswerBusy \/ \E c \in Connections : Connect(c)
  BY <1>1, <1>2 DEF Accept, Overflow, AnswerBusy, Connect, worker, Idle, Typed, TypeOK
<1>3. CASE Enqueue
  <2>1. Len(pending') = Len(pending) + 1 /\ acceptor'.pc = "notify" /\ acceptor.pc = "queue"
    BY <1>3 DEF Enqueue, Typed, TypeOK, ClientsHeld
  <2>2. Awake' = Awake /\ pc' = pc
    BY <1>3 DEF Enqueue, Awake, worker
  <2> QED
    BY <2>1, <2>2, <1>0
<1>4. CASE Notify
  <2>1. acceptor.pc = "notify" /\ acceptor'.pc # "notify" /\ pending' = pending
    BY <1>4 DEF Notify, Idle
  <2>2. CASE \E w \in Workers : pc[w] = "waiting" /\ pc' = [pc EXCEPT ![w] = "check"]
    <3>1. Cardinality(Awake') = Cardinality(Awake) + 1
      BY <2>2, OneMoreAwake
    <3> QED
      BY <2>1, <2>2, <3>1
  <2>3. CASE (\A w \in Workers : pc[w] # "waiting") /\ UNCHANGED pc
    BY <2>3
  <2> QED
    BY <1>4, <2>2, <2>3 DEF Notify
<1>5. ASSUME NEW w \in Workers, Take(w)
      PROVE  NoLostWakeup'
  <2>1. Cardinality(Awake') = Cardinality(Awake) - 1
    BY <1>5, OneLessAwake DEF Take, Goto
  <2>2. Len(pending') = Len(pending) - 1 /\ acceptor' = acceptor
    BY <1>5 DEF Take, Typed, TypeOK
  <2>3. \A v \in Workers : pc'[v] = "waiting" => pc[v] = "waiting"
    BY <1>5 DEF Take, Goto, Typed, TypeOK
  <2> QED
    BY <2>1, <2>2, <2>3, <1>0
<1>6. ASSUME NEW w \in Workers, Sleep(w)
      PROVE  NoLostWakeup'
  <2>1. Cardinality(Awake') \in Nat
    <3>1. Awake' \subseteq Workers
      BY DEF Awake
    <3> QED
      BY <3>1, HttpServerAssumption, FS_Subset, FS_CardinalityType
  <2>2. Len(pending') = 0
    BY <1>6 DEF Sleep
  <2> QED
    BY <2>1, <2>2
<1>7. ASSUME NEW w \in Workers, SpuriousWakeup(w)
      PROVE  NoLostWakeup'
  <2>1. Cardinality(Awake') = Cardinality(Awake) + 1
    BY <1>7, OneMoreAwake DEF SpuriousWakeup, Goto
  <2>2. UNCHANGED <<pending, acceptor>> /\ pc[w] = "waiting"
    BY <1>7 DEF SpuriousWakeup
  <2> QED
    BY <2>1, <2>2, <1>0
<1>8. ASSUME NEW w \in Workers, ReceivePart(w)
      PROVE  NoLostWakeup'
  BY <1>1, <1>8 DEF ReceivePart
<1>9. ASSUME NEW w \in Workers, ReceiveLast(w) \/ ReceiveFails(w) \/ Handle(w)
      PROVE  NoLostWakeup'
  <2>1. UNCHANGED <<pending, acceptor>>
    BY <1>9 DEF ReceiveLast, ReceiveFails, Handle
  <2>2. Awake' = Awake /\ \A v \in Workers : pc'[v] = "waiting" <=> pc[v] = "waiting"
    BY <1>9, SameAwake DEF ReceiveLast, ReceiveFails, Handle, Goto
  <2> QED
    BY <2>1, <2>2
<1>10. ASSUME NEW w \in Workers, Reply(w)
       PROVE  NoLostWakeup'
  <2>1. Cardinality(Awake') = Cardinality(Awake) + 1
    BY <1>10, OneMoreAwake DEF Reply, Goto
  <2>2. UNCHANGED <<pending, acceptor>>
    BY <1>10 DEF Reply
  <2>3. \A v \in Workers : pc'[v] = "waiting" => pc[v] = "waiting"
    BY <1>10 DEF Reply, Goto, Typed, TypeOK
  <2> QED
    BY <2>1, <2>2, <2>3, <1>0
<1>11. CASE Sigpipe
  <2>1. Cardinality(Awake') \in Nat
    <3>1. Awake' \subseteq Workers
      BY DEF Awake
    <3> QED
      BY <3>1, HttpServerAssumption, FS_Subset, FS_CardinalityType
  <2>2. Len(pending') = 0
    BY <1>11 DEF Sigpipe
  <2> QED
    BY <2>1, <2>2
<1>12. CASE UNCHANGED vars
  BY <1>1, <1>12 DEF vars, worker
<1> QED
  BY <1>2, <1>3, <1>4, <1>5, <1>6, <1>7, <1>8, <1>9, <1>10, <1>11, <1>12
  DEF Next, AcceptLoop, WorkerLoop

(* However the threads interleave and whenever they wake for no reason:    *)
(* while a worker sleeps, every queued connection has a worker that is     *)
(* awake, or about to be woken, to take it.                                *)
THEOREM WakeupsKept == Spec => []NoLostWakeup
  BY InitNoLostWakeup, SpecTyped, StepNoLostWakeup, PTL DEF Spec

-----------------------------------------------------------------------------
(* Taking the first of a queue moves the others up by one. *)
LEMMA TailShifts ==
    ASSUME NEW S, NEW s \in Seq(S), s # <<>>
    PROVE  /\ 1 \in 1..Len(s) /\ Head(s) = s[1]
           /\ \A i \in 1..Len(Tail(s)) :
                i + 1 \in 1..Len(s) /\ i + 1 # 1 /\ Tail(s)[i] = s[i + 1]
  OBVIOUS

LEMMA TailKeepsDistinct ==
    ASSUME NEW S, NEW s \in Seq(S), s # <<>>,
           \A i, j \in 1..Len(s) : s[i] = s[j] => i = j
    PROVE  \A i, j \in 1..Len(Tail(s)) : Tail(s)[i] = Tail(s)[j] => i = j
<1> TAKE i, j \in 1..Len(Tail(s))
<1> HAVE Tail(s)[i] = Tail(s)[j]
<1>1. s[i + 1] = s[j + 1] /\ i + 1 \in 1..Len(s) /\ j + 1 \in 1..Len(s)
  BY TailShifts
<1>2. i + 1 = j + 1
  BY <1>1
<1> QED
  BY <1>2

LEMMA InitHandlerInv == Init => HandlerInv
<1> HIDE DEF NothingRead
<1>1. Init => BacklogApart /\ OneHandler
  BY HttpServerAssumption DEF Init, BacklogApart, OneHandler, Idle, Held, Members
<1> QED
  BY <1>1, InitTyped DEF HandlerInv, Typed

(* What the places a connection can be in need of the type of the state.   *)
Places ==
    /\ backlog \in Seq(Connections) /\ pending \in Seq(Connections)
    /\ acceptor \in [pc : {"accept", "queue", "notify", "busy"},
                     client : Connections \cup {NoConnection}]
    /\ pc \in [Workers -> {"check", "waiting", "read", "handle", "reply"}]
    /\ client \in [Workers -> Connections \cup {NoConnection}]
    /\ served \in [Connections -> Nat]

LEMMA StepHandlerInv == HandlerInv /\ [Next]_vars => HandlerInv'
<1> SUFFICES ASSUME Places, ClientsHeld, BacklogApart, OneHandler, [Next]_vars
             PROVE  BacklogApart' /\ OneHandler'
  BY StepTyped DEF HandlerInv, Typed, TypeOK, Places
<1> USE HttpServerAssumption
    DEF Places, ClientsHeld, BacklogApart, OneHandler, worker, Idle, Goto
<1>1. ASSUME NEW c \in Connections, Connect(c)
      PROVE  BacklogApart' /\ OneHandler'
  BY <1>1 DEF Connect, Held, Members
<1>2. CASE Accept
  <2>1. /\ backlog # <<>> /\ backlog' = Tail(backlog)
        /\ acceptor' = [pc |-> "queue", client |-> backlog[1]]
        /\ UNCHANGED <<pending, pc, client, served>>
    BY <1>2 DEF Accept
  <2>2. acceptor.client = NoConnection
    BY <1>2 DEF Accept
  <2>3. BacklogApart'
    <3>1. \A i \in 1..Len(backlog') :
            i + 1 \in 1..Len(backlog) /\ i + 1 # 1 /\ backlog'[i] = backlog[i + 1]
      BY <2>1, TailShifts
    <3>2. 1 \in 1..Len(backlog)
      BY <2>1, TailShifts
    <3>3. \A i, j \in 1..Len(backlog') : backlog'[i] = backlog'[j] => i = j
      BY <2>1, TailKeepsDistinct
    <3>4. \A i \in 1..Len(backlog') :
            /\ acceptor'.client # backlog'[i]
            /\ \A k \in 1..Len(pending') : pending'[k] # backlog'[i]
            /\ \A v \in Workers : client'[v] # backlog'[i]
            /\ served'[backlog'[i]] = 0
      <4> TAKE i \in 1..Len(backlog')
      <4>1. acceptor'.client # backlog'[i]
        <5>1. backlog'[i] = backlog[i + 1] /\ acceptor'.client = backlog[1]
          BY <2>1, <3>1
        <5>2. backlog[i + 1] # backlog[1]
          BY <3>1, <3>2
        <5> QED
          BY <5>1, <5>2
      <4>2. /\ \A k \in 1..Len(pending') : pending'[k] # backlog'[i]
            /\ \A v \in Workers : client'[v] # backlog'[i]
            /\ served'[backlog'[i]] = 0
        BY <2>1, <3>1
      <4> QED
        BY <4>1, <4>2
    <3> QED
      BY <3>3, <3>4
  <2>4. Held' \subseteq Held \cup {backlog[1]} /\ served[backlog[1]] = 0
    BY <2>1, TailShifts DEF Held, Members
  <2>5. \A i \in 1..Len(pending') : acceptor'.client # pending'[i]
    BY <2>1, TailShifts
  <2>6. \A w \in Workers : client'[w] # acceptor'.client
    BY <2>1, TailShifts
  <2>7. \A c \in Connections : served'[c] <= 1 /\ (c \in Held' => served'[c] = 0)
    BY <2>1, <2>4
  <2>8. OneHandler'
    BY <2>1, <2>5, <2>6, <2>7
  <2> QED
    BY <2>3, <2>8
<1>3. CASE Enqueue
  <2>1. /\ pending' = Append(pending, acceptor.client)
        /\ acceptor.client # NoConnection /\ acceptor'.client = NoConnection
        /\ UNCHANGED <<backlog, pc, client, served>>
    BY <1>3 DEF Enqueue
  <2>2. /\ Len(pending') = Len(pending) + 1 /\ pending'[Len(pending) + 1] = acceptor.client
        /\ \A i \in 1..Len(pending) : pending'[i] = pending[i]
    BY <2>1
  <2>3. BacklogApart'
    BY <2>1, <2>2
  <2>4. Held' \subseteq Held
    BY <1>3, <2>1, <2>2 DEF Enqueue, Held, Members
  <2>5. OneHandler'
    BY <2>1, <2>2, <2>4
  <2> QED
    BY <2>3, <2>5
<1>4. CASE Overflow
  BY <1>4 DEF Overflow, Held, Members
<1>5. CASE Notify
  BY <1>5 DEF Notify, Held, Members
<1>6. CASE AnswerBusy
  BY <1>6 DEF AnswerBusy, Held, Members
<1>7. ASSUME NEW w \in Workers, Take(w)
      PROVE  BacklogApart' /\ OneHandler'
  <2>1. /\ pending # <<>> /\ pending' = Tail(pending)
        /\ client' = [client EXCEPT ![w] = pending[1]]
        /\ pc' = [pc EXCEPT ![w] = "read"]
        /\ UNCHANGED <<backlog, acceptor, served>>
    BY <1>7 DEF Take
  <2>2. /\ 1 \in 1..Len(pending)
        /\ \A i \in 1..Len(pending') :
             i + 1 \in 1..Len(pending) /\ i + 1 # 1 /\ pending'[i] = pending[i + 1]
    BY <2>1, TailShifts
  <2>3. BacklogApart'
    <3>1. \A i \in 1..Len(backlog) :
            /\ \A k \in 1..Len(pending') : pending'[k] # backlog[i]
            /\ \A v \in Workers : client'[v] # backlog[i]
      BY <2>2, <2>1
    <3> QED
      BY <2>1, <3>1
  <2>4. Held' \subseteq Held
    <3>1. Members(pending') \subseteq Members(pending) /\ pending[1] \in Members(pending)
      <4> HIDE DEF Places, ClientsHeld, BacklogApart, OneHandler
      <4> QED
        BY <2>2 DEF Members
    <3>2. \A v \in Workers : pc'[v] \in {"read", "handle", "reply"} =>
            client'[v] = pending[1] \/ (pc[v] \in {"read", "handle", "reply"} /\ client'[v] = client[v])
      BY <2>1
    <3> QED
      BY <2>1, <3>1, <3>2 DEF Held
  <2>5. \A u, v \in Workers : client'[u] = client'[v] /\ client'[u] # NoConnection => u = v
    BY <2>2, <2>1
  <2>6. \A i \in 1..Len(pending') :
          acceptor'.client # pending'[i] /\ \A v \in Workers : client'[v] # pending'[i]
    BY <2>2, <2>1
  <2>7. \A v \in Workers : acceptor'.client # NoConnection => client'[v] # acceptor'.client
    BY <2>2, <2>1
  <2>8. \A i, j \in 1..Len(pending') : pending'[i] = pending'[j] => i = j
    BY <2>1, TailKeepsDistinct
  <2>9. \A c \in Connections : served'[c] <= 1 /\ (c \in Held' => served'[c] = 0)
    BY <2>1, <2>4
  <2> QED
    BY <2>3, <2>5, <2>6, <2>7, <2>8, <2>9
<1>8. ASSUME NEW w \in Workers, Sleep(w) \/ SpuriousWakeup(w)
      PROVE  BacklogApart' /\ OneHandler'
  <2>1. /\ UNCHANGED <<backlog, acceptor, pending, client, served>>
        /\ pc' = [pc EXCEPT ![w] = "waiting"] \/ pc' = [pc EXCEPT ![w] = "check"]
    BY <1>8 DEF Sleep, SpuriousWakeup
  <2>2. Held' \subseteq Held
    BY <2>1 DEF Held, Members
  <2> QED
    BY <2>1, <2>2
<1>9. ASSUME NEW w \in Workers, ReceivePart(w)
      PROVE  BacklogApart' /\ OneHandler'
  BY <1>9 DEF ReceivePart, Held, Members
<1>10. ASSUME NEW w \in Workers, ReceiveLast(w) \/ ReceiveFails(w) \/ Handle(w)
       PROVE  BacklogApart' /\ OneHandler'
  <2>1. /\ UNCHANGED <<backlog, acceptor, pending, client, served>>
        /\ pc[w] \in {"read", "handle"}
        /\ pc' = [pc EXCEPT ![w] = "handle"] \/ pc' = [pc EXCEPT ![w] = "reply"]
    BY <1>10 DEF ReceiveLast, ReceiveFails, Handle
  <2>2. Held' \subseteq Held
    <3>1. pc \in [Workers -> {"check", "waiting", "read", "handle", "reply"}]
      BY DEF TypeOK
    <3>2. \A v \in Workers : pc'[v] \in {"read", "handle", "reply"}
                              => pc[v] \in {"read", "handle", "reply"}
      BY ONLY <2>1, <3>1
    <3> QED
      BY ONLY <2>1, <3>2 DEF Held, Members
  <2>3. BacklogApart'
    BY <2>1
  <2>4. OneHandler'
    BY <2>1, <2>2
  <2> QED
    BY <2>3, <2>4
<1>11. ASSUME NEW w \in Workers, Reply(w)
       PROVE  BacklogApart' /\ OneHandler'
  <2>1. /\ UNCHANGED <<backlog, acceptor, pending>>
        /\ client[w] \in Connections /\ client[w] \in Held
        /\ served' = [served EXCEPT ![client[w]] = @ + 1]
        /\ client' = [client EXCEPT ![w] = NoConnection]
        /\ pc' = [pc EXCEPT ![w] = "check"]
    BY <1>11 DEF Reply, Held
  <2>2. Held' \subseteq Held \ {client[w]}
    BY <2>1 DEF Held, Members
  <2>3. BacklogApart'
    BY <2>1
  <2>4. \A c \in Connections : served'[c] <= 1 /\ (c \in Held' => served'[c] = 0)
    BY <2>1, <2>2
  <2>5. OneHandler'
    BY <2>1, <2>4
  <2> QED
    BY <2>3, <2>5
<1>12. CASE Sigpipe
  BY <1>12 DEF Sigpipe, Held, Members
<1>13. CASE UNCHANGED vars
  BY <1>13 DEF vars, Held, Members
<1> HIDE DEF Places, BacklogApart, OneHandler, ClientsHeld, Idle, Goto
<1> QED
  BY <1>1, <1>2, <1>3, <1>4, <1>5, <1>6, <1>7, <1>8, <1>9, <1>10, <1>11, <1>12, <1>13
  DEF Next, AcceptLoop, WorkerLoop

(* No connection is ever with two threads, or in the queue and with a      *)
(* thread, and none is closed twice.                                       *)
THEOREM HandledOnce == Spec => []OneHandler
<1>1. Spec => []HandlerInv
  BY InitHandlerInv, StepHandlerInv, PTL DEF Spec
<1>2. HandlerInv => OneHandler
  BY DEF HandlerInv
<1> QED
  BY <1>1, <1>2, PTL
-----------------------------------------------------------------------------
(* The last recv completes a request of which, before it, something was    *)
(* missing; so less than one buffer came in excess.                        *)
LEMMA LastIsWhole ==
    ASSUME Typed, NEW w \in Workers, pc[w] = "read", NEW r \in Received(raw[w]),
           Found(r), Complete(r), ~Surplus(r)
    PROVE  LET body == r.size - r.headerEnd - Blank
           IN  /\ r.headerEnd \in 0..MaxHeader
               /\ r.expected \in 0..MaxBody
               /\ IF r.expected = 0
                    THEN body = 0
                    ELSE body \in r.expected..(r.expected + Buffer - 1)
<1> DEFINE s == raw[w]
<1>1. r \in Sizes /\ s \in Sizes
  BY GrowthBounded DEF Typed, TypeOK, Sizes
<1>2. r.size <= s.size + Buffer
  BY <1>1, HttpServerAssumption DEF Received, Sizes
<1>3. IF Found(s) THEN s.expected >= 0 /\ s.size < s.headerEnd + Blank + s.expected
                  ELSE s.size <= MaxHeader /\ s.expected = -1
  BY DEF Typed, ReadingOn
<1>4. \/ Found(s) /\ r.headerEnd = s.headerEnd /\ r.expected = s.expected
      \/ r.expected >= 0 /\ s.size + 1 <= r.headerEnd + Blank /\ r.headerEnd + Blank <= r.size
  BY <1>1, HttpServerAssumption DEF Received, Found, Sizes
<1>5. r.headerEnd >= 0 /\ r.size >= r.headerEnd + Blank + r.expected
  BY DEF Found, Complete
<1>6. r.expected = 0 => r.size = r.headerEnd + Blank
  BY <1>1, <1>5, HttpServerAssumption DEF Surplus, Sizes
<1>7. r.expected >= 0 /\ r.size < r.headerEnd + Blank + r.expected + Buffer
  BY <1>1, <1>2, <1>3, <1>4, HttpServerAssumption DEF Sizes
<1> QED
  BY <1>1, <1>5, <1>6, <1>7, HttpServerAssumption DEF Sizes

LEMMA StepWholeRequest == Typed /\ WholeRequest /\ [Next]_vars => WholeRequest'
<1> SUFFICES ASSUME Typed, WholeRequest, [Next]_vars
             PROVE  WholeRequest'
  OBVIOUS
<1>1. ASSUME NEW w \in Workers, ReceiveLast(w)
      PROVE  WholeRequest'
  <2>1. PICK r \in Received(raw[w]) :
          Found(r) /\ Complete(r) /\ ~Surplus(r) /\ raw' = [raw EXCEPT ![w] = r]
    BY <1>1 DEF ReceiveLast
  <2>2. pc[w] = "read" /\ pc' = [pc EXCEPT ![w] = "handle"]
    BY <1>1 DEF ReceiveLast, Goto
  <2>3. raw'[w] = r /\ \A v \in Workers \ {w} : raw'[v] = raw[v] /\ pc'[v] = pc[v]
    BY <2>1, <2>2 DEF Typed, TypeOK
  <2> QED
    BY <2>1, <2>2, <2>3, LastIsWhole DEF WholeRequest
<1>2. ASSUME \A w \in Workers : pc'[w] = "handle" => pc[w] = "handle" /\ raw'[w] = raw[w]
      PROVE  WholeRequest'
  BY <1>2 DEF WholeRequest
<1>3. CASE AcceptLoop \/ \E c \in Connections : Connect(c)
  <2>1. \A w \in Workers : pc'[w] = "handle" => pc[w] = "handle" /\ raw'[w] = raw[w]
    BY <1>3
    DEF AcceptLoop, Accept, Enqueue, Overflow, Notify, AnswerBusy, Connect, worker,
        Typed, TypeOK
  <2> QED
    BY <1>2, <2>1
<1>4. ASSUME NEW w \in Workers,
             Take(w) \/ Sleep(w) \/ SpuriousWakeup(w) \/ ReceivePart(w)
               \/ ReceiveFails(w) \/ Handle(w) \/ Reply(w)
      PROVE  WholeRequest'
  <2>1. PICK step \in {"read", "waiting", "check", "reply"} : pc' = [pc EXCEPT ![w] = step]
    BY <1>4
    DEF Take, Sleep, SpuriousWakeup, ReceivePart, ReceiveFails, Handle, Reply, Goto,
        Typed, TypeOK
  <2>2. \A v \in Workers \ {w} : raw'[v] = raw[v]
    BY <1>4
    DEF Take, Sleep, SpuriousWakeup, ReceivePart, ReceiveFails, Handle, Reply, Typed,
        TypeOK
  <2>3. \A v \in Workers : pc'[v] = "handle" => v # w /\ pc[v] = "handle"
    BY <2>1 DEF Typed, TypeOK
  <2> QED
    BY <1>2, <2>2, <2>3
<1>5. CASE Sigpipe
  BY <1>2, <1>5 DEF Sigpipe
<1>6. CASE UNCHANGED vars
  BY <1>2, <1>6 DEF vars, worker
<1> QED
  BY <1>1, <1>3, <1>4, <1>5, <1>6 DEF Next, WorkerLoop

(* However the bytes of a request are split among the recvs: the           *)
(* controller gets it when the declared body is complete and not before,   *)
(* within the limits, and with no body that was not declared.              *)
THEOREM RequestsWhole == Spec => []WholeRequest
<1>1. Init => WholeRequest
  BY DEF Init, WholeRequest
<1> QED
  BY <1>1, SpecTyped, StepWholeRequest, PTL DEF Spec
=============================================================================
