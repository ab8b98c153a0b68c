---------------------------- MODULE RedisSession ----------------------------
(***************************************************************************)
(* The Redis client (storage/RedisStateStore.cpp) with the script calls of *)
(* storage/RedisRateLimitStrategies.cpp above it and a faulty network and  *)
(* server below.  Every worker thread has one connection of its own, made  *)
(* when it is first needed and thrown away after any failure.  A script    *)
(* runs in one step of the server, perhaps long after the client has given *)
(* up; all workers' scripts share one quota.                               *)
(*                                                                         *)
(* A connection is named by the call that opened it, a command by its      *)
(* worker and its call.  executed, granted and allowed observe.            *)
(***************************************************************************)
EXTENDS Integers, Sequences, FiniteSets

CONSTANTS Workers,      \* HTTP worker threads
          Limit,        \* what the script admits
          MaxCalls      \* the bound on the calls of one worker

ASSUME RedisSessionAssumption ==
    /\ Limit \in Nat \ {0}
    /\ MaxCalls \in Nat

VARIABLES
    number, kind,   \* the number and the kind of each worker's present call
    pc,             \* its next step
    socket,         \* its connection; 0 if it has none
    error,          \* whether the error text of the present call is set
    reply,          \* the reply it has taken
    inbox,          \* the replies sent to it on its connection
    wire,           \* the commands on their way to the server
    used,           \* the state of the limiter in Redis
    answer,         \* what the service answered to its last call
    executed,       \* how often each script was run
    granted,        \* the commands that Redis granted
    allowed         \* the commands that were answered with allow

client   == <<number, kind, pc, socket, error, reply, answer>>
server   == <<wire, used>>
observer == <<executed, granted, allowed>>
vars     == <<client, inbox, server, observer>>

Calls    == 1..MaxCalls
Commands == [worker : Workers, number : Calls]
Verdicts == {"allow", "deny", "pong", "error"}
Replies  == [command : Commands, verdict : Verdicts]
NoReply  == [verdict |-> "none"]
Packets  == [command : Commands, kind : {"eval", "ping"}, socket : Calls]

TypeOK ==
    /\ number \in [Workers -> 0..MaxCalls]
    /\ kind \in [Workers -> {"none", "eval", "ping"}]
    /\ pc \in [Workers -> {"idle", "connect", "send", "receive", "done", "failed"}]
    /\ socket \in [Workers -> 0..MaxCalls]
    /\ error \in [Workers -> BOOLEAN]
    /\ reply \in [Workers -> Replies \cup {NoReply}]
    /\ inbox \in [Workers -> Seq(Replies)]
    /\ wire \subseteq Packets
    /\ used \in 0..Limit
    /\ answer \in [Workers -> [ok : BOOLEAN, status : {0, 200, 503},
                               verdict : Verdicts \cup {"none"}]]
    /\ executed \in [Commands -> Nat]
    /\ granted \subseteq Commands
    /\ allowed \subseteq Commands

Init ==
    /\ number = [w \in Workers |-> 0]
    /\ kind = [w \in Workers |-> "none"]
    /\ pc = [w \in Workers |-> "idle"]
    /\ socket = [w \in Workers |-> 0]
    /\ error = [w \in Workers |-> FALSE]
    /\ reply = [w \in Workers |-> NoReply]
    /\ inbox = [w \in Workers |-> <<>>]
    /\ wire = {}
    /\ used = 0
    /\ answer = [w \in Workers |-> [ok |-> TRUE, status |-> 0, verdict |-> "none"]]
    /\ executed = [c \in Commands |-> 0]
    /\ granted = {}
    /\ allowed = {}

-----------------------------------------------------------------------------
Goto(w, step) == pc' = [pc EXCEPT ![w] = step]
Command(w)    == [worker |-> w, number |-> number[w]]

(* closeSocket and connections.erase: what was under way to the worker is  *)
(* lost with the connection.                                               *)
Discard(w) ==
    /\ socket' = [socket EXCEPT ![w] = 0]
    /\ inbox' = [inbox EXCEPT ![w] = <<>>]

(* The call has failed, with or without a word of explanation. *)
Fail(w, explained) ==
    /\ Goto(w, "failed")
    /\ error' = [error EXCEPT ![w] = @ \/ explained]

(* An evaluation's script, or the PING of a readiness check. *)
Begin(w) ==
    /\ pc[w] = "idle" /\ number[w] < MaxCalls
    /\ number' = [number EXCEPT ![w] = @ + 1]
    /\ \E k \in {"eval", "ping"} : kind' = [kind EXCEPT ![w] = k]
    /\ error' = [error EXCEPT ![w] = FALSE]
    /\ reply' = [reply EXCEPT ![w] = NoReply]
    /\ Goto(w, IF socket[w] = 0 THEN "connect" ELSE "send")
    /\ UNCHANGED <<socket, inbox, server, answer, observer>>

(* connectSocket, the timeouts and AUTH. *)
Connect(w) ==
    /\ pc[w] = "connect"
    /\ socket' = [socket EXCEPT ![w] = number[w]]
    /\ Goto(w, "send")
    /\ UNCHANGED <<number, kind, error, reply, inbox, server, answer, observer>>

(* The host does not resolve or accept, or AUTH is refused or unanswered:  *)
(* each leaves an error text.                                              *)
ConnectFails(w) ==
    /\ pc[w] = "connect"
    /\ Fail(w, TRUE)
    /\ UNCHANGED <<number, kind, socket, reply, inbox, server, answer, observer>>

Send(w) ==
    /\ pc[w] = "send"
    /\ wire' = wire \cup {[command |-> Command(w), kind |-> kind[w], socket |-> socket[w]]}
    /\ Goto(w, "receive")
    /\ UNCHANGED <<number, kind, socket, error, reply, inbox, used, answer, observer>>

(* sendAll fails, as on a connection that the server has reset while idle: *)
(* no text is left, and no whole command reaches the server.               *)
SendFails(w) ==
    /\ pc[w] = "send"
    /\ Discard(w)
    /\ Fail(w, FALSE)
    /\ UNCHANGED <<number, kind, reply, server, answer, observer>>

(* parseReply reads a whole reply; an error reply is a failure. *)
Receive(w) ==
    /\ pc[w] = "receive" /\ inbox[w] # <<>>
    /\ IF Head(inbox[w]).verdict = "error"
         THEN /\ Discard(w)
              /\ Fail(w, TRUE)
              /\ UNCHANGED reply
         ELSE /\ reply' = [reply EXCEPT ![w] = Head(inbox[w])]
              /\ inbox' = [inbox EXCEPT ![w] = Tail(@)]
              /\ Goto(w, "done")
              /\ UNCHANGED <<socket, error>>
    /\ UNCHANGED <<number, kind, server, answer, observer>>

(* readLine or readBytes fails in the middle of a reply: no text is left. *)
ReceiveInPart(w) ==
    /\ pc[w] = "receive" /\ inbox[w] # <<>>
    /\ Discard(w)
    /\ Fail(w, FALSE)
    /\ UNCHANGED <<number, kind, reply, server, answer, observer>>

\* Seeded fault: the connection is kept after a timeout.
TimeOutKeeping(w) ==
    /\ pc[w] = "receive"
    /\ Fail(w, TRUE)
    /\ UNCHANGED <<number, kind, socket, reply, inbox, server, answer, observer>>

\* Seeded fault: the command is sent again after a timeout.
TimeOutRetrying(w) ==
    /\ pc[w] = "receive"
    /\ Discard(w)
    /\ Goto(w, "connect")
    /\ UNCHANGED <<number, kind, error, reply, server, answer, observer>>

\* Seeded fault: a receive timeout is never set on the socket.
TimeOutNever(w) == FALSE

(* Nothing of a reply has come within the receive timeout. *)
TimeOut(w) ==
    /\ pc[w] = "receive"
    /\ Discard(w)
    /\ Fail(w, TRUE)
    /\ UNCHANGED <<number, kind, reply, server, answer, observer>>

\* Seeded fault: the limiter lets requests pass while Redis fails.
AnsweredOpen(w) ==
    LET ok == pc[w] = "done"
    IN  [ok      |-> ok,
         status  |-> IF ~ok /\ (error[w] \/ kind[w] = "ping") THEN 503 ELSE 200,
         verdict |-> IF ok THEN reply[w].verdict
                     ELSE IF kind[w] = "eval" /\ ~error[w] THEN "allow" ELSE "none"]

(* What handleEvaluate and handleHealth make of it: a call without an      *)
(* error text is a decision, and its verdict is deny if there is no reply. *)
Answered(w) ==
    LET ok == pc[w] = "done"
    IN  [ok      |-> ok,
         status  |-> IF ~ok /\ (error[w] \/ kind[w] = "ping") THEN 503 ELSE 200,
         verdict |-> IF ok THEN reply[w].verdict
                     ELSE IF kind[w] = "eval" /\ ~error[w] THEN "deny" ELSE "none"]

Return(w) ==
    /\ pc[w] \in {"done", "failed"}
    /\ answer' = [answer EXCEPT ![w] = Answered(w)]
    /\ allowed' = IF Answered(w).verdict = "allow" THEN allowed \cup {Command(w)}
                  ELSE allowed
    /\ Goto(w, "idle")
    /\ UNCHANGED <<number, kind, socket, error, reply, inbox, server, executed, granted>>

-----------------------------------------------------------------------------
(* A reply reaches its worker only on the connection of its command. *)
SendReply(p, verdict) ==
    inbox' = IF socket[p.command.worker] = p.socket
             THEN [inbox EXCEPT ![p.command.worker] =
                     Append(@, [command |-> p.command, verdict |-> verdict])]
             ELSE inbox

\* Seeded fault: the script counts before it compares.
EvaluateCountingFirst(p) ==
    /\ p.kind = "eval"
    /\ executed' = [executed EXCEPT ![p.command] = @ + 1]
    /\ used' = used + 1
    /\ IF used' <= Limit
         THEN /\ granted' = granted \cup {p.command}
              /\ SendReply(p, "allow")
         ELSE /\ SendReply(p, "deny")
              /\ UNCHANGED granted

(* The server runs the script: it reads, decides and writes in one step. *)
Evaluate(p) ==
    /\ p.kind = "eval"
    /\ executed' = [executed EXCEPT ![p.command] = @ + 1]
    /\ IF used < Limit
         THEN /\ used' = used + 1
              /\ granted' = granted \cup {p.command}
              /\ SendReply(p, "allow")
         ELSE /\ SendReply(p, "deny")
              /\ UNCHANGED <<used, granted>>

Pong(p) ==
    /\ p.kind = "ping"
    /\ SendReply(p, "pong")
    /\ UNCHANGED <<used, executed, granted>>

(* An error reply: loading, out of memory, no authentication. *)
Refuse(p) ==
    /\ SendReply(p, "error")
    /\ UNCHANGED <<used, executed, granted>>

(* The command or the server is lost before it is run. *)
Lose == UNCHANGED <<inbox, used, executed, granted>>

Serve ==
    \E p \in wire :
        /\ wire' = wire \ {p}
        /\ Evaluate(p) \/ Pong(p) \/ Refuse(p) \/ Lose
        /\ UNCHANGED <<client, allowed>>

Step(w) ==
    \/ Connect(w) \/ ConnectFails(w) \/ Send(w) \/ SendFails(w)
    \/ Receive(w) \/ ReceiveInPart(w) \/ TimeOut(w) \/ Return(w)

(* The workers have made all their calls and the network is empty. *)
Terminated ==
    /\ \A w \in Workers : pc[w] = "idle" /\ number[w] = MaxCalls
    /\ wire = {}
    /\ UNCHANGED vars

Next == (\E w \in Workers : Begin(w) \/ Step(w)) \/ Serve \/ Terminated

Spec == Init /\ [][Next]_vars

(* Threads run and timeouts elapse; the server need never answer. *)
FairSpec == Spec /\ \A w \in Workers : WF_vars(Step(w))

-----------------------------------------------------------------------------
(* README.md:192: failures discard the connection.  So a reply that comes  *)
(* too late is never taken for the answer to a later command.              *)
ReplyIsOwn ==
    \A w \in Workers : pc[w] = "done" => reply[w].command = Command(w)

(* README.md:192: "commands are not blindly retried because the script may *)
(* already have committed".  No script is run twice, whatever was lost.    *)
AtMostOnce == \A c \in Commands : executed[c] <= 1

(* A lost answer may waste an admission but never creates one: whoever is  *)
(* told allow was granted it by Redis, within the limit.                   *)
AllowedWasGranted ==
    allowed \subseteq granted /\ Cardinality(granted) <= Limit

(* Whatever Redis does, and if it does nothing, every call returns. *)
EveryCallReturns ==
    \A w \in Workers : pc[w] # "idle" ~> pc[w] = "idle"

(* README.md:11: "Redis errors return HTTP 503 instead of looking like     *)
(* normal denials".                                                        *)
FailureIs503 ==
    \A w \in Workers : ~answer[w].ok => answer[w].status = 503
=============================================================================
