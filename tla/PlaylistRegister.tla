-------------------------- MODULE PlaylistRegister --------------------------
(***************************************************************************)
(* What the shared playlist promises to the threads of accordion: a        *)
(* register that is written in one step, and copied in one step.           *)
(*                                                                         *)
(* A fetch publishes a whole list or cancels the notice of a new one, the  *)
(* player adopts the whole list that is published, and the file of the     *)
(* list is at any moment a beginning of a published list, which is all a   *)
(* restart finds.                                                          *)
(***************************************************************************)
EXTENDS ListOps

CONSTANTS
    Track,      \* the files a playlist may name
    Jingles     \* the lists that may be played when none is stored

VARIABLES
    published,  \* the list last published
    fresh,      \* it has been announced and not been adopted
    copy,       \* the list the player plays
    stored      \* what a restart would find

vars == <<published, fresh, copy, stored>>

Lists == Seq(Track)

(* The list a start of the program finds over the stored list s. *)
Found(s, list) ==
    \/ list # <<>> /\ list \in Surviving(s)
    \/ Len(s) <= 1 /\ list \in Jingles

Init ==
    /\ stored \in Lists
    /\ Found(stored, published)
    /\ fresh = FALSE
    /\ copy = <<>>

(* A fetch that found files replaces the list at once.  The stored list    *)
(* starts anew, unless the file cannot be written.                         *)
Publish ==
    /\ published' \in Lists
    /\ published' # <<>>
    /\ fresh' = TRUE
    /\ stored' = <<>> \/ stored' = stored
    /\ UNCHANGED copy

(* More of the published list reaches the disk. *)
Store ==
    /\ stored' \in Lists
    /\ Begins(stored', published)
    /\ UNCHANGED <<published, fresh, copy>>

(* A fetch that found no file takes the announcement back, not the list. *)
Cancel ==
    /\ fresh' = FALSE
    /\ UNCHANGED <<published, copy, stored>>

(* The player takes the whole list that is published. *)
Adopt ==
    /\ copy' = published
    /\ fresh' = FALSE
    /\ UNCHANGED <<published, stored>>

(* The player drops a file it cannot play, or everything. *)
Shrink ==
    /\ \/ copy' = <<>>
       \/ \E i \in 1..Len(copy) : copy' = Without(copy, i)
    /\ UNCHANGED <<published, fresh, stored>>

Restart ==
    /\ Found(stored, published')
    /\ fresh' = FALSE
    /\ copy' = <<>>
    /\ UNCHANGED stored

Next == Publish \/ Store \/ Cancel \/ Adopt \/ Shrink \/ Restart

Spec == Init /\ [][Next]_vars
=============================================================================
