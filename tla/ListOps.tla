------------------------------ MODULE ListOps ------------------------------
(***************************************************************************)
(* Lists of tracks, as the playlist modules use them.                      *)
(***************************************************************************)
EXTENDS Naturals, Sequences

(* s is a beginning of t. *)
Begins(s, t) == Len(s) <= Len(t) /\ \A i \in 1..Len(s) : s[i] = t[i]

(* s without its element number i. *)
Without(s, i) == [j \in 1..(Len(s) - 1) |-> IF j < i THEN s[j] ELSE s[j + 1]]

(* s, or s without one of its elements. *)
Surviving(s) == {s} \cup {Without(s, i) : i \in 1..Len(s)}
=============================================================================
