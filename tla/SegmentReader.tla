---------------------------- MODULE SegmentReader ----------------------------
(***************************************************************************)
(* How musicgo finds the part of a file that it plays to listeners without *)
(* a token (mp3bitrate.cpp, aacbitrate.cpp): from so many seconds on, for  *)
(* so many seconds.                                                        *)
(***************************************************************************)
EXTENDS AudioFile

CONSTANTS
    Samples,        \* of a frame: 1024 of aac, 1152 or 576 of mp3
    Frequency,      \* samples of a second
    Rates           \* the bytes of a second that a header of mp3 can announce

ASSUME SegmentConstants ==
    /\ Samples \in Nat \ {0} /\ Frequency \in Nat \ {0}
    /\ Rates \subseteq Nat

(* A segment: whether there is one, its first byte and its length, or the  *)
(* end of the child that looks for it.                                     *)
Segment(out, start, stop) == [out |-> out, start |-> start, stop |-> stop]

-----------------------------------------------------------------------------
(* mp3.  GetStartPos: what the ID3 tag says of its size.                   *)
MpxStartPos(f) == IF Size(f) < 10 THEN -1 ELSE f.id3

(* A header counts when another one follows its frame.                     *)
MpxConfirmed(f, p) == HeaderAt(f, p) > 0 /\ HeaderAt(f, p + HeaderAt(f, p)) > 0

(* The length of a frame (layers 2 and 3) is rounded down, and one longer  *)
(* with padding; the rate comes from the table of bitrates, and as the     *)
(* lengths of two rates differ by more than the padding, a length tells it.*)
MpxLength(rate, padding) == (Samples * rate) \div Frequency + padding
MpxRate(len) ==
    LET announced == {r \in Rates : len \in {MpxLength(r, 0), MpxLength(r, 1)}}
    IN  IF announced = {} THEN 0 ELSE Min(announced)

(* mp3_SeekForFirstFrame: the first syncword that is confirmed, or is too  *)
(* near to the end of the buffer, ends the search.  The rate is that of the*)
(* second header.                                                          *)
MpxSeek(f, from) ==
    LET n == Buffered(f, from)
        Near(p) == \/ n - p < MARGIN
                   \/ /\ HeaderAt(f, from + p) > 0
                      /\ p + HeaderAt(f, from + p) + MPX_HEADER > n
        ends == {p \in 0..n - 1 : /\ HeaderAt(f, from + p) # None
                                  /\ Near(p) \/ MpxConfirmed(f, from + p)}
        p == Min(ends)
    IN  IF from < 0 \/ ends = {} \/ Near(p)
        THEN [found |-> FALSE, pos |-> from, rate |-> 0]
        ELSE [found |-> TRUE, pos |-> from + p,
              rate |-> MpxRate(HeaderAt(f, from + p + HeaderAt(f, from + p)))]

(* Mutant of MpxSegment: the seconds are not turned into bytes.            *)
MpxSegmentOfBytes(f, m_start, m_stop) ==
    LET first == MpxSeek(f, MpxStartPos(f))
        next  == MpxSeek(f, first.pos + m_start)
    IN  IF ~first.found THEN Segment("no", m_start, m_stop)
        ELSE IF next.found THEN Segment("ok", next.pos, m_stop * next.rate)
        ELSE Segment("ok", 0, m_stop * first.rate)

(* mp3::get_file_segment.  Without a frame at m_start the answer starts at *)
(* the first byte of the file, with the bitrate of the first frame.        *)
MpxSegment(f, m_start, m_stop) ==
    LET first == MpxSeek(f, MpxStartPos(f))
        next  == MpxSeek(f, first.pos + m_start * first.rate)
    IN  IF ~first.found THEN Segment("no", m_start, m_stop)
        ELSE IF next.found THEN Segment("ok", next.pos, m_stop * next.rate)
        ELSE Segment("ok", 0, m_stop * first.rate)

-----------------------------------------------------------------------------
(* aac.  get_start_pos: the distance to the next header, 0 without one.    *)
AacNext(f, from) ==
    LET n == Buffered(f, from)
        found == {i \in 0..n - 1 : n - i >= MARGIN /\ AacHeader(f, from + i)}
    IN  IF found = {} THEN 0 ELSE Min(found)

(* aac_SeekForFirstFrame goes from frame to frame and counts them.  The    *)
(* count stands when the last frame ends the file, and at a header whose   *)
(* only fault is its length; what is no header makes the rate 0.  A length *)
(* of 0 is valid, and then the walk does not move.                         *)
Fails == [out |-> "no", frames |-> 0]
AacWalk(f, start) ==
    LET one == [out |-> "ok", frames |-> 1]
        walk[p \in 0..Size(f)] ==
            IF p + AAC_HEADER > Size(f) \/ HeaderAt(f, p) = None THEN Fails
            ELSE IF HeaderAt(f, p) = 0 THEN [out |-> "hangs", frames |-> 0]
            ELSE IF HeaderAt(f, p) > MAX_LENGTH THEN [out |-> "ok", frames |-> 0]
            ELSE LET next == p + HeaderAt(f, p)
                 IN  IF next - start >= Size(f) THEN one
                     ELSE IF next > Size(f) THEN Fails
                     ELSE [walk[next] EXCEPT !.frames = @ + 1]
    IN  walk[start]

(* aac::get_file_segment.  A file of less than a second divides by zero.   *)
PlayTime(frames) == (frames * Samples) \div Frequency
AacSegment(f, m_start, m_stop) ==
    LET first == AacNext(f, 0)
        walk  == AacWalk(f, first)
        rate  == Size(f) \div PlayTime(walk.frames)
        pos   == first + m_start * rate
    IN  IF walk.out = "hangs" THEN Segment("hangs", 0, 0)
        ELSE IF walk.out = "no" \/ walk.frames = 0 THEN Segment("no", m_start, m_stop)
        ELSE IF PlayTime(walk.frames) = 0 THEN Segment("dies", 0, 0)
        ELSE IF rate = 0 THEN Segment("no", m_start, m_stop)
        ELSE Segment("ok", pos + AacNext(f, pos), m_stop * rate)

=============================================================================
