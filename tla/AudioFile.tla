------------------------------ MODULE AudioFile ------------------------------
(***************************************************************************)
(* Files of audio, as the readers of accordion and of musicgo see them.    *)
(*                                                                         *)
(* A file is its bytes.  A byte is None, or stands for the header that     *)
(* begins there: the length of its frame, 0 when mp3 cannot tell one.      *)
(***************************************************************************)
EXTENDS Integers, Sequences, FiniteSetsExt

CONSTANTS
    Window,         \* bytes the search for a header reads (50000)
    MAX_LENGTH      \* the longest frame of aac (5000)

ASSUME AudioConstants ==
    /\ Window \in Nat \ {0}
    /\ MAX_LENGTH \in Nat

None == -1
MARGIN == 10        \* a header is looked for only so far from the end
AAC_HEADER == 7
MPX_HEADER == 4

Size(f) == Len(f.bytes)
HeaderAt(f, p) == IF p \in 0..Size(f) - 1 THEN f.bytes[p + 1] ELSE None

(* What reading Window bytes gives at p.                                   *)
Buffered(f, p) == IF p >= Size(f) THEN 0 ELSE Min({Window, Size(f) - p})

(* The valid header of an aac frame.                                       *)
AacHeader(f, p) == HeaderAt(f, p) \in 0..MAX_LENGTH

(* The frames that follow each other from the first byte of the audio.     *)
Chain(f, start) ==
    LET on[p \in 0..Size(f)] ==
            \/ p = start
            \/ \E q \in 0..p - 1 : /\ HeaderAt(f, q) > 0
                                   /\ q + HeaderAt(f, q) = p
                                   /\ on[q]
    IN  {p \in 0..Size(f) - 1 : on[p] /\ HeaderAt(f, p) > 0}
=============================================================================
