------------------------------ MODULE MCPlayer ------------------------------
(***************************************************************************)
(* A playlist of two tracks with different sample rates, a list that is    *)
(* shorter, one detached fetch beside the player, and tracks of at most    *)
(* one block of frames: a connection breaks before, in and after a track.  *)
(***************************************************************************)
EXTENDS Player

CONSTANTS a, b

OneList == {<<>>, <<a, b>>}
ShortList == {<<>>, <<a>>}
MCJingles == {<<>>, <<a>>}
NoJingles == {<<>>}
TwoRates == [t \in {a, b} |-> IF t = a THEN 44100 ELSE 48000]
=============================================================================
