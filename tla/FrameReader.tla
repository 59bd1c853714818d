---------------------------- MODULE FrameReader ----------------------------
(***************************************************************************)
(* The readers of accordion (aac.cpp, mpx.cpp): a track is counted through *)
(* once when it is opened, and then given away in blocks of the frames of  *)
(* a second, by another loop with conditions of its own.                   *)
(***************************************************************************)
EXTENDS AudioFile

CONSTANTS
    Fps,            \* frames of a block, which lasts a second
    Tracks,         \* pairs of the format, "aac" or "mpx", and the file
    MinRate,        \* bytes of a second: what aac takes for 32 kbps ...
    MaxRate         \* ... and 320 kbps

ASSUME BlockConstants == Fps \in Nat \ {0}

ASSUME ReaderConstants ==
    /\ MinRate \in Nat /\ MaxRate \in Nat
    /\ Tracks \subseteq {"aac", "mpx"} \X [id3 : Nat, bytes : Seq(Nat \union {None})]

VARIABLES
    step,           \* "closed", "count", "counted", "ready", "read", "ended",
                    \* "refused", "hangs", "dies"
    audio,          \* the track: its format and its file
    fs,             \* the position of the file
    total_frames,
    send_frame_number,
    frames_from_file,   \* frames of the block under way
    first,          \* where playing starts
    counted,        \* the frames that were counted, by position
    given,          \* the frames of the blocks that were returned, by position
    blocks          \* how many blocks were returned

reader_vars == <<step, audio, fs, total_frames, send_frame_number,
                 frames_from_file, first, counted, given, blocks>>
result == <<given, blocks>>

aac == audio[1] = "aac"
bytes == audio[2]
frames_to_read == Fps
header_size == IF aac THEN AAC_HEADER ELSE MPX_HEADER

ReaderInit ==
    /\ step = "closed"
    /\ audio \in Tracks
    /\ fs = 0 /\ total_frames = 0 /\ send_frame_number = 0
    /\ frames_from_file = 0 /\ first = 0
    /\ counted = <<>> /\ given = <<>> /\ blocks = 0

-----------------------------------------------------------------------------
(* aac_SeekTo1Frame: whether there is a syncword; the file is at 0 again.  *)
AacSeek(f) == \E i \in 0..Buffered(f, 0) - 1 :
                 HeaderAt(f, i) # None /\ Buffered(f, 0) - i >= MARGIN

(* mpx_SeekTo1Frame: the first header that another one follows; a syncword *)
(* too near to the end of what was read ends the search.  -1 without one.  *)
MpxSeek(f) ==
    LET n == Buffered(f, f.id3)
        Near(p) == \/ n - p < MARGIN
                   \/ /\ HeaderAt(f, f.id3 + p) > 0
                      /\ p + HeaderAt(f, f.id3 + p) + MPX_HEADER > n
        Confirmed(p) == LET len == HeaderAt(f, f.id3 + p)
                        IN  len > 0 /\ HeaderAt(f, f.id3 + p + len) # None
        ends == {p \in 0..n - 1 : HeaderAt(f, f.id3 + p) # None /\ (Near(p) \/ Confirmed(p))}
    IN  IF ends = {} \/ Near(Min(ends)) THEN -1 ELSE f.id3 + Min(ends)

(* aac_GetFileInfo, mpx_GetFileInfo: the file is opened.                   *)
OpenTrack ==
    /\ step = "closed"
    /\ LET pos == IF aac THEN IF AacSeek(bytes) THEN 0 ELSE -1 ELSE MpxSeek(bytes)
       IN  IF pos = -1 THEN step' = "refused" /\ UNCHANGED <<fs, first>>
           ELSE step' = "count" /\ fs' = pos /\ first' = pos
    /\ UNCHANGED <<audio, total_frames, send_frame_number, frames_from_file, counted, result>>

(* The loop of aac_GetFileInfo: every frame has to have a header, up to    *)
(* the end of the file.  The length 0 leaves the loop where it is.         *)
AacCount ==
    /\ step = "count" /\ aac
    /\ LET len == HeaderAt(bytes, fs)
       IN  IF fs + AAC_HEADER > Size(bytes) \/ ~AacHeader(bytes, fs)
           THEN step' = "refused" /\ UNCHANGED <<fs, total_frames, counted>>
           ELSE IF len = 0
           THEN step' = "hangs" /\ UNCHANGED <<fs, total_frames, counted>>
           ELSE /\ total_frames' = total_frames + 1
                /\ counted' = Append(counted, fs)
                /\ fs' = fs + len
                /\ step' = IF fs + len < Size(bytes) THEN "count" ELSE "counted"
    /\ UNCHANGED <<audio, send_frame_number, frames_from_file, first, result>>

(* The loop of mpx_GetFileInfo: up to what is no header, after which the   *)
(* file is at its first frame again.                                       *)
MpxCount ==
    /\ step = "count" /\ ~aac
    /\ IF fs + MPX_HEADER > Size(bytes) \/ HeaderAt(bytes, fs) <= 0
       THEN /\ step' = "counted"
            /\ fs' = first
            /\ UNCHANGED <<total_frames, counted>>
       ELSE /\ total_frames' = total_frames + 1
            /\ counted' = Append(counted, fs)
            /\ fs' = fs + HeaderAt(bytes, fs)
            /\ UNCHANGED step
    /\ UNCHANGED <<audio, send_frame_number, frames_from_file, first, result>>

(* The length in seconds: aac refuses what is out of the rates it knows,   *)
(* mpx divides by a whole number of seconds that may be 0.                 *)
Measured ==
    /\ step = "counted"
    /\ LET rate == (Size(bytes) * Fps) \div total_frames
       IN  step' = IF aac THEN IF rate \in MinRate..MaxRate THEN "ready" ELSE "refused"
                   ELSE IF total_frames < Fps THEN "dies" ELSE "ready"
    /\ UNCHANGED <<audio, fs, total_frames, send_frame_number, frames_from_file, first,
                   counted, result>>

(* aac_StartPlay, mpx_StartPlay.                                           *)
StartPlay ==
    /\ step = "ready"
    /\ step' = "read"
    /\ fs' = first
    /\ send_frame_number' = 0
    /\ UNCHANGED <<audio, total_frames, frames_from_file, first, counted, result>>

-----------------------------------------------------------------------------
(* aac_GetFrames, mpx_GetFrames.  A frame the loop accepts: aac wants more *)
(* than a header.                                                          *)
Readable ==
    /\ send_frame_number < total_frames
    /\ fs + header_size <= Size(bytes)
    /\ HeaderAt(bytes, fs) \in (IF aac THEN AAC_HEADER ELSE 0) + 1..MAX_LENGTH

(* A frame is whole: the loop goes on until it has a block.                *)
ReadFrame ==
    /\ step = "read"
    /\ frames_from_file < frames_to_read
    /\ Readable
    /\ fs + HeaderAt(bytes, fs) <= Size(bytes)
    /\ fs' = fs + HeaderAt(bytes, fs)
    /\ frames_from_file' = frames_from_file + 1
    /\ given' = Append(given, fs)
    /\ UNCHANGED <<step, audio, total_frames, send_frame_number, first, counted, blocks>>

(* The loop ends before the block is full: at the last frame, at the end   *)
(* of the file, after a header that is not accepted, in a torn frame.      *)
Stops ==
    \/ ~Readable
    \/ fs + HeaderAt(bytes, fs) > Size(bytes)

Behind ==
    IF send_frame_number >= total_frames THEN fs
    ELSE IF Readable \/ fs + header_size > Size(bytes) THEN Size(bytes)
    ELSE fs + header_size

(* Mutant of GetFrames: each frame is returned as a block.                 *)
GetFramesEager ==
    /\ step = "read"
    /\ frames_from_file > 0 \/ Stops
    /\ fs' = IF frames_from_file > 0 THEN fs ELSE Behind
    /\ send_frame_number' = send_frame_number + frames_from_file
    /\ frames_from_file' = 0
    /\ IF frames_from_file = 0 THEN step' = "ended" /\ UNCHANGED blocks
       ELSE blocks' = blocks + 1 /\ UNCHANGED step
    /\ UNCHANGED <<audio, total_frames, first, counted, given>>

(* The call returns; without a frame the track is over.                    *)
GetFrames ==
    /\ step = "read"
    /\ frames_from_file = frames_to_read \/ Stops
    /\ fs' = IF frames_from_file = frames_to_read THEN fs ELSE Behind
    /\ send_frame_number' = send_frame_number + frames_from_file
    /\ frames_from_file' = 0
    /\ IF frames_from_file = 0 THEN step' = "ended" /\ UNCHANGED blocks
       ELSE blocks' = blocks + 1 /\ UNCHANGED step
    /\ UNCHANGED <<audio, total_frames, first, counted, given>>

ReaderNext ==
    OpenTrack \/ AacCount \/ MpxCount \/ Measured \/ StartPlay \/ ReadFrame \/ GetFrames

ReaderSpec == ReaderInit /\ [][ReaderNext]_reader_vars

-----------------------------------------------------------------------------
ReaderTypeOK ==
    /\ step \in {"closed", "count", "counted", "ready", "read", "ended",
                 "refused", "hangs", "dies"}
    /\ audio \in Tracks
    /\ fs \in Nat /\ total_frames \in Nat /\ send_frame_number \in Nat
    /\ frames_from_file \in 0..frames_to_read
    /\ first \in Nat
    /\ counted \in Seq(Nat) /\ given \in Seq(Nat) /\ blocks \in Nat

(* What follows the frames of a sequence.                                  *)
After(s) == IF s = <<>> THEN first ELSE s[Len(s)] + HeaderAt(bytes, s[Len(s)])

(* A frame with data in it, which is what aac_GetFrames calls valid; every *)
(* frame of mp3 is one.                                                    *)
WithData(p) == HeaderAt(bytes, p) \in header_size + 1..MAX_LENGTH

Torn(p) == p + HeaderAt(bytes, p) > Size(bytes)

(* The two loops agree: the frames given follow each other from the first, *)
(* over the ends of the blocks, and are those that were counted; when the  *)
(* track is over none is missing but a last one that is torn, and no whole *)
(* frame follows; and only the last block is shorter than frames_to_read,  *)
(* which the player takes every block for (frames_sent).                   *)
NothingSkipped ==
    (\A i \in DOMAIN counted : WithData(counted[i])) =>
        /\ Len(given) <= Len(counted)
        /\ \A i \in DOMAIN given :
               /\ given[i] = counted[i]
               /\ given[i] = IF i = 1 THEN first ELSE given[i-1] + HeaderAt(bytes, given[i-1])
        /\ step = "ended" =>
               /\ \A i \in DOMAIN counted :
                      i > Len(given) => i = Len(counted) /\ Torn(counted[i])
               /\ WithData(After(given)) => Torn(After(given))
        /\ frames_from_file = 0 =>
               blocks * frames_to_read - Len(given) \in 0..frames_to_read - 1
=============================================================================
