----------------------------- MODULE RangeServer -----------------------------
(***************************************************************************)
(* The processes of the HTTP server of musicgo (tclientsocket.cpp,         *)
(* mqueue.cpp): the parent accepts connections and forks a child for each, *)
(* the child answers and writes one line to a message queue, and the       *)
(* parent's handler of SIGCHLD reaps the children and logs their lines.    *)
(* What a child answers is the module RangeAnswer.                         *)
(***************************************************************************)
EXTENDS Naturals, Sequences, SequencesExt

CONSTANTS
    Kids,           \* connections, each with the child forked for it
    QueueMax        \* lines the message queue of the system holds

ASSUME ServerConstants == QueueMax \in Nat

VARIABLES
    conn,           \* where each connection and its child stand
    come,           \* connections whose request has arrived
    queue,          \* the lines in the message queue, by the child they are of
    logged,         \* children whose line is in the log
    chld,           \* SIGCHLD is pending at the parent
    hand,           \* sighandler: "off", "reap" or "drain"
    server          \* the parent: "serving", "closing", "stuck", "ended"

server_vars == <<conn, come, queue, logged, chld, hand, server>>

Working == {"asleep", "answer", "log", "exit"}
Children(pcs) == {k \in Kids : conn[k] \in pcs}
Gets(k, pc) == conn' = [conn EXCEPT ![k] = pc]

ServerInit ==
    /\ conn = [k \in Kids |-> "out"]
    /\ come = {}
    /\ queue = <<>>
    /\ logged = {}
    /\ chld = FALSE
    /\ hand = "off"
    /\ server = "serving"

-----------------------------------------------------------------------------
(* The clients.                                                            *)
Connect(k) ==
    /\ conn[k] = "out"
    /\ server # "ended"
    /\ Gets(k, "waiting")
    /\ UNCHANGED <<come, queue, logged, chld, hand, server>>

Arrive(k) ==
    /\ conn[k] \in {"waiting", "asleep"}
    /\ k \notin come
    /\ come' = come \union {k}
    /\ UNCHANGED <<conn, queue, logged, chld, hand, server>>

-----------------------------------------------------------------------------
(* do_accept: without the child the connection is closed unanswered; when  *)
(* fcntl fails it stays open, and nobody answers.                          *)
Accept(k) ==
    /\ server = "serving" /\ hand = "off"
    /\ conn[k] = "waiting"
    /\ Gets(k, "asleep")
    /\ UNCHANGED <<come, queue, logged, chld, hand, server>>

ForkFails(k) ==
    /\ server = "serving" /\ hand = "off"
    /\ conn[k] = "waiting"
    /\ Gets(k, "dropped")
    /\ UNCHANGED <<come, queue, logged, chld, hand, server>>

FcntlFails(k) ==
    /\ server = "serving" /\ hand = "off"
    /\ conn[k] = "waiting"
    /\ Gets(k, "held")
    /\ UNCHANGED <<come, queue, logged, chld, hand, server>>

(* net_recv_string after the sleep: what has arrived by then is all.       *)
Wake(k) ==
    /\ conn[k] = "asleep"
    /\ Gets(k, IF k \in come THEN "answer" ELSE "exit")
    /\ UNCHANGED <<come, queue, logged, chld, hand, server>>

(* query_parameters, which may also end the child (a division by zero in   *)
(* aacbitrate.cpp, the free of a literal in ~TParameters).                 *)
Answer(k) ==
    /\ conn[k] = "answer"
    /\ Gets(k, "log")
    /\ UNCHANGED <<come, queue, logged, chld, hand, server>>

ChildDies(k) ==
    /\ conn[k] = "answer"
    /\ Gets(k, "zombie")
    /\ chld' = TRUE
    /\ UNCHANGED <<come, queue, logged, hand, server>>

(* Mutant of MsgSend: one line too many.                                   *)
MsgSendOverfull(k) ==
    /\ conn[k] = "log"
    /\ queue' = IF Len(queue) <= QueueMax THEN Append(queue, k) ELSE queue
    /\ Gets(k, "exit")
    /\ UNCHANGED <<come, logged, chld, hand, server>>

(* tmqueue::msg_send with IPC_NOWAIT.                                      *)
MsgSend(k) ==
    /\ conn[k] = "log"
    /\ queue' = IF Len(queue) < QueueMax THEN Append(queue, k) ELSE queue
    /\ Gets(k, "exit")
    /\ UNCHANGED <<come, logged, chld, hand, server>>

Exit(k) ==
    /\ conn[k] = "exit"
    /\ Gets(k, "zombie")
    /\ chld' = TRUE
    /\ UNCHANGED <<come, queue, logged, hand, server>>

-----------------------------------------------------------------------------
(* sighandler.  SIGCHLD is one pending signal however many children end,   *)
(* and blocked while its handler runs; SIGTERM is not.                     *)
Signalled ==
    /\ server \in {"serving", "closing"}
    /\ chld /\ hand = "off"
    /\ chld' = FALSE
    /\ hand' = "reap"
    /\ UNCHANGED <<conn, come, queue, logged, server>>

(* waitpid(-1, WNOHANG), until no child has ended.                         *)
Reap ==
    /\ hand = "reap" /\ server \in {"serving", "closing"}
    /\ IF Children({"zombie"}) = {} THEN hand' = "off" /\ UNCHANGED conn
       ELSE \E k \in Children({"zombie"}) : Gets(k, "gone") /\ hand' = "drain"
    /\ UNCHANGED <<come, queue, logged, chld, server>>

(* Mutant of Drain: one line is read for each child that ended.            *)
DrainOne ==
    /\ hand = "drain" /\ server \in {"serving", "closing"}
    /\ hand' = "reap"
    /\ queue' = IF queue = <<>> THEN queue ELSE Tail(queue)
    /\ UNCHANGED <<conn, come, logged, chld, server>>

(* Mutant of Drain: waitpid is called once for each signal.                *)
DrainAndReturn ==
    /\ hand = "drain" /\ server \in {"serving", "closing"}
    /\ IF queue = <<>> THEN hand' = "off" /\ UNCHANGED <<queue, logged>>
       ELSE /\ queue' = Tail(queue)
            /\ logged' \in {logged, logged \union {Head(queue)}}
            /\ UNCHANGED hand
    /\ UNCHANGED <<conn, come, chld, server>>

(* msg_recv returns the address of a local variable, which the compiler    *)
(* may make a null pointer: then the line is lost.                         *)
Drain ==
    /\ hand = "drain" /\ server \in {"serving", "closing"}
    /\ IF queue = <<>> THEN hand' = "reap" /\ UNCHANGED <<queue, logged>>
       ELSE /\ queue' = Tail(queue)
            /\ logged' \in {logged, logged \union {Head(queue)}}
            /\ UNCHANGED hand
    /\ UNCHANGED <<conn, come, chld, server>>

-----------------------------------------------------------------------------
(* SIGTERM: do_close runs in the handler; when that has interrupted        *)
(* sighandler, sighandler does not go on and SIGCHLD stays blocked.        *)
Terminate ==
    /\ server = "serving"
    /\ server' = IF hand = "off" THEN "closing" ELSE "stuck"
    /\ UNCHANGED <<conn, come, queue, logged, chld, hand>>

(* do_close: waitpid(-1) waits for every child, and reads no line.         *)
DoClose ==
    /\ server = "stuck" \/ (server = "closing" /\ hand = "off")
    /\ \/ /\ \E k \in Children({"zombie"}) : Gets(k, "gone")
          /\ UNCHANGED server
       \/ /\ Children(Working \union {"zombie"}) = {}
          /\ server' = "ended"
          /\ UNCHANGED conn
    /\ UNCHANGED <<come, queue, logged, chld, hand>>

Client(k) == Connect(k) \/ Arrive(k)
Child(k) == Wake(k) \/ Answer(k) \/ ChildDies(k) \/ MsgSend(k) \/ Exit(k)
Handler == Signalled \/ Reap \/ Drain

ServerNext ==
    \/ \E k \in Kids : Client(k) \/ Child(k) \/ Accept(k) \/ ForkFails(k) \/ FcntlFails(k)
    \/ Handler \/ Terminate \/ DoClose

ServerSpec == ServerInit /\ [][ServerNext]_server_vars

-----------------------------------------------------------------------------
ServerTypeOK ==
    /\ conn \in [Kids -> Working \union {"out", "waiting", "dropped", "held", "zombie", "gone"}]
    /\ come \subseteq Kids
    /\ queue \in Seq(Kids) /\ Len(queue) <= QueueMax
    /\ logged \subseteq Kids
    /\ chld \in BOOLEAN
    /\ hand \in {"off", "reap", "drain"}
    /\ server \in {"serving", "closing", "stuck", "ended"}

(* While the server is not being stopped, a line whose child is gone is    *)
(* about to be read: the queue, which only sighandler reads and which      *)
(* drops what does not fit, does not fill up with lines of the past,       *)
(* however the signals of several children run together.                   *)
QueueIsDrained ==
    server = "serving" => \A k \in ToSet(queue) : conn[k] = "gone" => hand = "drain"

(* A child that has ended is reaped, by sighandler or by do_close.         *)
Reaped == \A k \in Kids : conn[k] = "zombie" ~> conn[k] = "gone"
=============================================================================
