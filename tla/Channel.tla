------------------------------ MODULE Channel ------------------------------
(***************************************************************************)
(* What the commands of accordion promise about a channel: it is streamed  *)
(* by one process at a time, and a command says that there is none only if *)
(* there was none at some moment while it looked.                          *)
(***************************************************************************)
CONSTANT Procs

VARIABLES
    running,    \* the processes that stream the channel
    clear,      \* of each process: nobody streamed at some time of its look
    said        \* what each command said

Init ==
    /\ running = {}
    /\ clear = [p \in Procs |-> FALSE]
    /\ said = [p \in Procs |-> "nothing"]

Begins(p) ==
    /\ running = {}
    /\ running' = {p}
    /\ UNCHANGED <<clear, said>>

Ends ==
    /\ running # {}
    /\ running' = {}
    /\ clear' = [p \in Procs |-> TRUE]
    /\ UNCHANGED said

Looks(p) ==
    /\ clear' = [clear EXCEPT ![p] = (running = {})]
    /\ UNCHANGED <<running, said>>

Says(p, word) ==
    /\ word = "absent" => clear[p]
    /\ said' = [said EXCEPT ![p] = word]
    /\ UNCHANGED <<running, clear>>

Next ==
    \/ Ends
    \/ \E p \in Procs : \/ Begins(p) \/ Looks(p)
                        \/ \E word \in {"there", "absent"} : Says(p, word)

Spec == Init /\ [][Next]_<<running, clear, said>>
=============================================================================
