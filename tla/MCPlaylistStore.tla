-------------------------- MODULE MCPlaylistStore --------------------------
(***************************************************************************)
(* Two tracks, lists of up to two of them, two detached fetches beside the *)
(* player: two writers and a reader of the shared list.                    *)
(***************************************************************************)
EXTENDS PlaylistStore, TLC

CONSTANTS a, b

(* An answer without a file that exists, with one, and with two. *)
MCAnswers == {<<>>, <<a>>, <<b, a>>}

(* The jingle directory is missing, or holds one file. *)
MCJingles == {<<>>, <<b>>}

Symmetric == Permutations(Fetcher)
=============================================================================
