--------------------------- MODULE LoggerClients ---------------------------
(***************************************************************************)
(* How the logger takes messages from its clients (tclientsocket.cpp): the *)
(* loop of do_accept starts a thread for each connection and passes it the *)
(* address of the variable clientfd, which the next accept overwrites; the *)
(* thread reads what has arrived by then, takes it for one message,        *)
(* answers and closes the connection.                                      *)
(*                                                                         *)
(* A message is two parts, which may arrive one by one.  msgpack throws    *)
(* when it is given less than an object, and nobody catches it: the        *)
(* logger aborts, and with it the threads that have answered a message but *)
(* not yet given it to AddMessage.                                         *)
(***************************************************************************)
EXTENDS Naturals, Sequences, FiniteSets, FiniteSetsExt

CONSTANTS
    Clients,
    BadHeaders,     \* those whose messages name no domain or no file
    Fd              \* descriptors for connections

NoFd == 0           \* accept has failed (-1)
Nobody == "nobody"

ASSUME ClientsConstants ==
    /\ Fd \subseteq Nat /\ Fd # {} /\ NoFd \notin Fd
    /\ Nobody \notin Clients /\ BadHeaders \subseteq Clients

VARIABLES
    connected,      \* clients whose connection waits to be accepted, or was
    arrived,        \* parts of the message of each client that have arrived
    unread,         \* parts that wait in the socket of each client
    owner,          \* whose connection each descriptor is
    clientfd,       \* the variable of do_accept
    at,             \* where the thread of each accepted client stands
    m,              \* the descriptor each thread uses
    str,            \* what it has read
    answered,       \* clients that have got an answer
    added,          \* the messages given to AddMessage
    aborted         \* the process has ended by an exception

peers == <<connected, arrived, unread>>
hands == <<m, str>>
results == <<answered, added, aborted>>
client_vars == <<peers, owner, clientfd, at, hands, results>>

ClientsInit ==
    /\ connected = {}
    /\ arrived = [c \in Clients |-> 0]
    /\ unread = [c \in Clients |-> <<>>]
    /\ owner = [f \in Fd |-> Nobody]
    /\ clientfd = NoFd
    /\ at = [c \in Clients |-> "none"]
    /\ m = [c \in Clients |-> NoFd]
    /\ str = [c \in Clients |-> <<>>]
    /\ answered = {}
    /\ added = <<>>
    /\ aborted = FALSE

-----------------------------------------------------------------------------
Connect(c) ==
    /\ ~aborted /\ c \notin connected
    /\ connected' = connected \cup {c}
    /\ UNCHANGED <<results, hands, arrived, unread, owner, clientfd, at>>

(* The next part of the message of c arrives, if c was not sent away.      *)
Arrive(c) ==
    /\ ~aborted /\ c \in connected \ answered /\ arrived[c] < 2
    /\ arrived' = [arrived EXCEPT ![c] = @ + 1]
    /\ unread' = [unread EXCEPT ![c] = Append(@, <<c, arrived'[c]>>)]
    /\ UNCHANGED <<results, hands, connected, owner, clientfd, at>>

Free == {f \in Fd : owner[f] = Nobody}

(* accept takes the lowest free descriptor; a thread is created.  Threads  *)
(* are named by the client they are started for.                           *)
Accept(c) ==
    /\ ~aborted /\ c \in connected /\ at[c] = "none"
    /\ Free # {}
    /\ clientfd' = Min(Free)
    /\ owner' = [owner EXCEPT ![clientfd'] = c]
    /\ at' = [at EXCEPT ![c] = "begin"]
    /\ UNCHANGED <<results, hands, peers>>

(* fcntl fails, or the attributes of the thread or the thread itself cannot*)
(* be made: nobody closes the descriptor, and the loop goes on.            *)
NoThread(c) ==
    /\ ~aborted /\ c \in connected /\ at[c] = "none"
    /\ Free # {}
    /\ clientfd' = Min(Free)
    /\ owner' = [owner EXCEPT ![clientfd'] = c]
    /\ at' = [at EXCEPT ![c] = "failed"]
    /\ UNCHANGED <<results, hands, peers>>

(* No descriptor is left: the loop goes on. *)
AcceptFails ==
    /\ ~aborted /\ Free = {}
    /\ \E c \in connected : at[c] = "none"
    /\ clientfd' = NoFd
    /\ UNCHANGED <<results, hands, peers, owner, at>>

Moves(c, a, b) == ~aborted /\ at[c] = a /\ at' = [at EXCEPT ![c] = b]

(* handler_client_thread reads the variable of the other thread.           *)
ReadFd(c) ==
    /\ Moves(c, "begin", "recv")
    /\ m' = [m EXCEPT ![c] = clientfd]
    /\ UNCHANGED <<results, peers, owner, clientfd, str>>

Peer(c) == IF m[c] \in Fd THEN owner[m[c]] ELSE Nobody
Waiting(c) == IF Peer(c) = Nobody THEN <<>> ELSE unread[Peer(c)]

(* recv: all that waits in the socket. *)
Recv(c) ==
    /\ Moves(c, "recv", "recv")
    /\ Waiting(c) # <<>>
    /\ str' = [str EXCEPT ![c] = @ \o Waiting(c)]
    /\ unread' = [unread EXCEPT ![Peer(c)] = <<>>]
    /\ UNCHANGED <<results, connected, arrived, owner, clientfd, m>>

(* recv fails, also with EAGAIN: the continue leads to the condition of    *)
(* the loop.                                                               *)
RecvEnds(c) ==
    /\ Moves(c, "recv", "unpack")
    /\ Waiting(c) = <<>>
    /\ UNCHANGED <<results, hands, peers, owner, clientfd>>

Author(s) == s[1][1]
Whole(s) == Len(s) >= 2 /\ s[1] = <<Author(s), 1>> /\ s[2] = <<Author(s), 2>>

(* msgpack::unpack: there is an object at the beginning of what was read.  *)
Unpack(c) ==
    /\ Moves(c, "unpack", "answer")
    /\ Whole(str[c])
    /\ UNCHANGED <<results, hands, peers, owner, clientfd>>

(* Mutant: the exception ends only the thread. *)
UnpackQuietly(c) ==
    /\ Moves(c, "unpack", "done")
    /\ ~Whole(str[c])
    /\ UNCHANGED <<results, hands, peers, owner, clientfd>>

UnpackThrows(c) ==
    /\ Moves(c, "unpack", "done")
    /\ ~Whole(str[c])
    /\ aborted' = TRUE
    /\ UNCHANGED <<hands, peers, owner, clientfd, answered, added>>

Closed(c) == IF m[c] \in Fd THEN [owner EXCEPT ![m[c]] = Nobody] ELSE owner

(* Mutant: the connection is closed as soon as the message has been read.  *)
AnswerLate(c) ==
    \/ /\ Moves(c, "answer", "late")
       /\ owner' = Closed(c)
       /\ UNCHANGED <<results, hands, peers, clientfd>>
    \/ /\ Moves(c, "late", "add")
       /\ answered' = answered \cup ({Peer(c)} \ {Nobody})
       /\ UNCHANGED <<hands, peers, owner, clientfd, added, aborted>>

(* send, shutdown and close of the descriptor, whose ever it is by now.    *)
Answer(c) ==
    /\ Moves(c, "answer", "add")
    /\ answered' = answered \cup ({Peer(c)} \ {Nobody})
    /\ owner' = Closed(c)
    /\ UNCHANGED <<hands, peers, clientfd, added, aborted>>

(* AddMessage, unless the headers are wrong (ERROR_HEADER_FORMAT), and the *)
(* end of the thread.                                                      *)
Add(c) ==
    /\ Moves(c, "add", "done")
    /\ added' = IF Author(str[c]) \in BadHeaders THEN added
                ELSE Append(added, Author(str[c]))
    /\ UNCHANGED <<hands, peers, owner, clientfd, answered, aborted>>

ClientThread(c) ==
    \/ ReadFd(c) \/ Recv(c) \/ RecvEnds(c)
    \/ Unpack(c) \/ UnpackThrows(c) \/ Answer(c) \/ Add(c)

ClientsNext ==
    \/ \E c \in Clients : \/ Connect(c) \/ Arrive(c) \/ Accept(c) \/ NoThread(c)
                          \/ ClientThread(c)
    \/ AcceptFails

ClientsSpec == ClientsInit /\ [][ClientsNext]_client_vars

-----------------------------------------------------------------------------
ClientsTypeOK ==
    /\ clientfd \in Fd \cup {NoFd}
    /\ \A c \in Clients : /\ m[c] \in Fd \cup {NoFd}
                          /\ at[c] \in {"none", "failed", "begin", "recv",
                                        "unpack", "answer", "add", "done"}
                          /\ at[c] \in {"answer", "add"} => Whole(str[c])
    /\ \A f \in Fd : owner[f] \in Clients \cup {Nobody}

(* Threads that have answered.                                             *)
Through == {t \in Clients : at[t] \in {"add", "done"} /\ Whole(str[t])}
AuthorsOf(T) == {Author(str[t]) : t \in T}

(* Although threads may use each other's descriptors, and descriptors are  *)
(* used again, each thread that answers does so to the client whose message*)
(* it has read (tclientsocket.cpp:88-93), no two to the same, and what has *)
(* been given to AddMessage (line 95) is the messages of the threads that  *)
(* are over, each once, without those with wrong headers.  Between answer  *)
(* and AddMessage an exception of another thread may end the process; only *)
(* then is a message without such errors answered and never added.         *)
AnsweredOnce ==
    /\ \A t, u \in Through : Author(str[t]) = Author(str[u]) => t = u
    /\ answered = AuthorsOf(Through)
    /\ {added[i] : i \in DOMAIN added} =
           AuthorsOf({t \in Through : at[t] = "done"}) \ BadHeaders
    /\ \A i, j \in DOMAIN added : added[i] = added[j] => i = j

(* In the end, a logger that has not aborted owes an answer to as many     *)
(* clients at most as it could not make threads for, unless these took all *)
(* descriptors: a thread that takes the descriptor of another client, or   *)
(* finds its own taken, leaves nobody else waiting.  (A logger that aborts *)
(* answers nobody any more: RunsForever does not hold.)                    *)
Threadless == {c \in Clients : at[c] = "failed"}
NobodyWaits ==
    <>[](\/ aborted
         \/ Cardinality(Threadless) >= Cardinality(Fd)
         \/ Cardinality(connected \ answered) <= Cardinality(Threadless))

(* do_accept is to "run forever", as its comment says.                     *)
RunsForever == ~aborted
=============================================================================
