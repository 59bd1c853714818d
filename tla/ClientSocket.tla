---------------------------- MODULE ClientSocket ----------------------------
(***************************************************************************)
(* tclient_socket of accordion (tclientsocket.cpp): net_connect with its   *)
(* attempts, the transfers that close the connection when they fail, and   *)
(* the descriptors of the process.                                         *)
(***************************************************************************)
EXTENDS Integers

CONSTANTS
    Fd,             \* the descriptors the process may have open
    NoFd,           \* sock == -1
    Attempts        \* the limits that may be configured (connectionattempts)

ASSUME AttemptsAreNumbers == Attempts \subseteq Int
ASSUME NoFdIsNoFd == NoFd \notin Fd

VARIABLES
    pc,                 \* where net_connect stands; "idle" outside it
    sock,               \* tclient_socket::sock
    f_connected,        \* tclient_socket::f_connected
    max_conections,     \* tclient_socket::max_conections: attempts of one call
    connection_counter, \* tclient_socket::connection_counter
    open,               \* the descriptors that are open in the process
    returned            \* how the last net_connect ended

vars == <<pc, sock, f_connected, max_conections, connection_counter, open, returned>>

(* The constructor. *)
Init ==
    /\ pc = "idle"
    /\ sock = NoFd
    /\ f_connected = FALSE
    /\ max_conections \in Attempts
    /\ connection_counter = 0
    /\ open = {}
    /\ returned = "none"

(* net_connect ends. *)
Return(how) == pc' = "idle" /\ returned' = how

(* if (f_connected) return true; otherwise a socket is asked for. *)
NetConnect ==
    /\ pc = "idle"
    /\ IF f_connected
       THEN Return("connected")
       ELSE pc' = "socket" /\ returned' = "none"
    /\ UNCHANGED <<sock, f_connected, connection_counter, open, max_conections>>

SocketMade ==
    /\ pc = "socket"
    /\ \E fd \in Fd \ open :
        /\ sock' = fd
        /\ open' = open \cup {fd}
    /\ pc' = "resolve"
    /\ UNCHANGED <<f_connected, connection_counter, returned, max_conections>>

(* socket() < 0: ret_value, which is -1, is returned as a bool. *)
SocketFails ==
    /\ pc = "socket"
    /\ sock' = NoFd
    /\ Return("unresolved")
    /\ UNCHANGED <<f_connected, connection_counter, open, max_conections>>

Resolved ==
    /\ pc = "resolve"
    /\ pc' = "attempt"
    /\ connection_counter' = 0
    /\ UNCHANGED <<sock, f_connected, open, returned, max_conections>>

(* !srv: the same -1; the socket stays open. *)
ResolveFails ==
    /\ pc = "resolve"
    /\ Return("unresolved")
    /\ UNCHANGED <<sock, f_connected, connection_counter, open, max_conections>>

(* connect() succeeds, or says EISCONN.  An object that does not block (the*)
(* one of a fetch) clears its counter.                                     *)
AttemptConnects ==
    /\ pc = "attempt"
    /\ connection_counter < max_conections
    /\ f_connected' = TRUE
    /\ connection_counter' \in {connection_counter, 0}
    /\ Return("connected")
    /\ UNCHANGED <<sock, max_conections, open>>

(* Mutant: one attempt too many. *)
AttemptFailsOnceMore ==
    /\ pc = "attempt"
    /\ connection_counter <= max_conections
    /\ connection_counter' = connection_counter + 1
    /\ UNCHANGED <<pc, sock, f_connected, open, returned, max_conections>>

AttemptFails ==
    /\ pc = "attempt"
    /\ connection_counter < max_conections
    /\ connection_counter' = connection_counter + 1
    /\ UNCHANGED <<pc, sock, f_connected, open, returned, max_conections>>

(* Mutant: true is returned after the last attempt. *)
GiveUpTrue ==
    /\ pc = "attempt"
    /\ connection_counter >= max_conections
    /\ f_connected' = FALSE
    /\ Return("connected")
    /\ UNCHANGED <<sock, connection_counter, open, max_conections>>

(* Mutant: after the last attempt the attempts start again. *)
GiveUpNever ==
    /\ pc = "attempt"
    /\ connection_counter >= max_conections
    /\ connection_counter' = 0
    /\ UNCHANGED <<pc, sock, f_connected, open, returned, max_conections>>

(* No attempt is left: false is returned, and the socket stays open.  With *)
(* a limit of 0 there is none to begin with.                               *)
GiveUp ==
    /\ pc = "attempt"
    /\ connection_counter >= max_conections
    /\ f_connected' = FALSE
    /\ Return("refused")
    /\ UNCHANGED <<sock, connection_counter, open, max_conections>>

(* clear_connection_counter, by the player. *)
ClearConnectionCounter ==
    /\ pc = "idle"
    /\ connection_counter' = 0
    /\ UNCHANGED <<pc, sock, f_connected, open, returned, max_conections>>

(* net_close: by the caller, or by net_send and net_recv when they fail.   *)
NetClose ==
    /\ pc = "idle"
    /\ f_connected
    /\ open' = open \ {sock}
    /\ sock' = NoFd
    /\ f_connected' = FALSE
    /\ UNCHANGED <<pc, connection_counter, returned, max_conections>>

Next ==
    \/ NetConnect \/ SocketMade \/ SocketFails \/ Resolved \/ ResolveFails
    \/ AttemptConnects \/ AttemptFails \/ GiveUp
    \/ ClearConnectionCounter \/ NetClose

(* A call of net_connect goes on until it returns. *)
Fairness ==
    WF_vars(\/ SocketMade \/ SocketFails \/ Resolved \/ ResolveFails
            \/ AttemptConnects \/ AttemptFails \/ GiveUp)

Spec == Init /\ [][Next]_vars
FairSpec == Spec /\ Fairness

-----------------------------------------------------------------------------
(* The variables have the values the program gives them; the attempts of a *)
(* call never exceed the limit, and there is none when it is 0 or less.    *)
TypeOK ==
    /\ pc \in {"idle", "socket", "resolve", "attempt"}
    /\ sock \in Fd \cup {NoFd}
    /\ f_connected \in BOOLEAN
    /\ max_conections \in Attempts
    /\ connection_counter \in {0} \cup 1..max_conections
    /\ open \subseteq Fd
    /\ returned \in {"none", "connected", "unresolved", "refused"}

(* A connected object owns a descriptor that is open, so that what it      *)
(* sends never goes to a file or connection of somebody else, however many *)
(* failed calls left their sockets open before.                            *)
ConnectedOwnsSocket == f_connected => sock \in open

(* Every call of net_connect returns, whatever limit of attempts is        *)
(* configured, 0 among them: the player and the fetches, which wait for it,*)
(* do not hang.  (Template.ini:23 says that 0 is to try for ever; the loop *)
(* at tclientsocket.cpp:108 then makes no attempt at all.)                 *)
ConnectReturns == pc # "idle" ~> pc = "idle"

Promise == INSTANCE Connection WITH connected <- f_connected

(* net_connect ends in the three ways the player reckons with, and only    *)
(* net_close ends a connection.                                            *)
ImplementsConnection == Promise!Spec
=============================================================================
