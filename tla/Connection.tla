----------------------------- MODULE Connection -----------------------------
(***************************************************************************)
(* What a tclient_socket promises to its callers (the player, query_url    *)
(* and transmit): net_connect ends in one of three ways, and a connection  *)
(* lasts until a transfer fails or it is closed.                           *)
(***************************************************************************)
VARIABLES
    connected,  \* is_connected()
    returned    \* how the last net_connect ended, "none" before and during

vars == <<connected, returned>>

Outcome == {"connected", "unresolved", "refused"}

Init == connected = FALSE /\ returned = "none"

(* net_connect is called: nothing changes until it returns. *)
Call ==
    /\ returned' = "none"
    /\ UNCHANGED connected

(* It ends: connected, which it may have been before; or not connected,    *)
(* which the caller is told ("refused") or is not ("unresolved").          *)
Return ==
    /\ returned = "none"
    /\ returned' \in Outcome
    /\ connected' = (returned' = "connected")
    /\ connected => returned' = "connected"

(* A transfer fails, or the caller closes the connection. *)
Lose ==
    /\ returned # "none"
    /\ connected' = FALSE
    /\ UNCHANGED returned

Next == Call \/ Return \/ Lose

Spec == Init /\ [][Next]_vars
=============================================================================
