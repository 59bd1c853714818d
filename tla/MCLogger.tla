------------------------------ MODULE MCLogger ------------------------------
(***************************************************************************)
(* The threads of the logger around the message store: those of the        *)
(* clients, the remote thread and the error monitor.  They share nothing   *)
(* of what is modelled, so each behaviour is one of a single part.         *)
(***************************************************************************)
EXTENDS RemoteDelivery, ErrorMonitor, LoggerClients

VARIABLE part

Init ==
    /\ part \in {"clients", "remote", "monitor"}
    /\ ClientsInit /\ RemoteInit /\ MonitorInit

Clients_ ==
    /\ part = "clients"
    /\ ClientsNext
    /\ UNCHANGED <<part, remote, monitor>>

Remote_ ==
    /\ part = "remote"
    /\ RemoteNext
    /\ UNCHANGED <<part, client_vars, monitor>>

Monitor_ ==
    /\ part = "monitor"
    /\ MonitorNext
    /\ UNCHANGED <<part, client_vars, remote>>

Next == Clients_ \/ Remote_ \/ Monitor_

Spec == Init /\ [][Next]_<<part, client_vars, remote, monitor>>

(* The threads of the clients and the loop of do_accept are scheduled.     *)
Thread(c) == ClientThread(c) /\ UNCHANGED <<part, remote, monitor>>
AcceptLoop(c) == (Accept(c) \/ NoThread(c)) /\ UNCHANGED <<part, remote, monitor>>
FairSpec ==
    Spec /\ \A c \in Clients : WF_client_vars(part = "clients" /\ Thread(c))
                            /\ WF_client_vars(part = "clients" /\ AcceptLoop(c))

(* The variables of each part have the values the program gives them.      *)
TypeOK == RemoteTypeOK /\ MonitorTypeOK /\ ClientsTypeOK
=============================================================================
