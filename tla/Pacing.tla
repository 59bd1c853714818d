------------------------------- MODULE Pacing -------------------------------
(***************************************************************************)
(* How accordion keeps the pace of the music (TPlaylist::timing): after    *)
(* each block it waits so long that the streaming server is ahead of the   *)
(* listeners by about buffer_size, and after a track for its rest.  A block*)
(* that cannot be sent is read and waited for all the same; before the next*)
(* one the server is connected again, while the clock of the track runs.   *)
(*                                                                         *)
(* Time is counted in units, of which all times of the code are multiples  *)
(* (25 ms); a block lasts a second.                                        *)
(***************************************************************************)
EXTENDS Integers, FiniteSetsExt

CONSTANTS
    Unit,           \* milliseconds of a unit
    buffer_size,    \* the configured buffer, in units
    Opens,          \* how long opening a track may take
    Lags,           \* how long sending a block may take
    Outages,        \* how long it may take to be connected, with the header
    Lengths,        \* how long tracks may be
    MaxTracks,      \* bound of the model: tracks that are played
    MaxLost         \* bound of the model: blocks that cannot be sent

ASSUME PacingConstants ==
    /\ Unit \in Nat \ {0} /\ buffer_size \in Nat /\ MaxTracks \in Nat /\ MaxLost \in Nat
    /\ Opens \subseteq Nat /\ Lags \subseteq Nat /\ Lengths \subseteq Nat
    /\ Outages \subseteq Nat

VARIABLES
    phase,          \* "open", "play", "over"
    link,           \* the server is connected and has accepted the header
    length,         \* of the track
    time_read,      \* music of the track that was read, in whole blocks
    time_sent,      \* that of it which was sent (frames_sent)
    time_elapsed,   \* since the track was opened
    ahead,          \* auxiliary: all music sent, less all the time passed
    lost,           \* auxiliary: music that was read and could not be sent
    outage,         \* auxiliary: the time that connecting has taken
    stalled,        \* auxiliary: a block has taken longer than the shortest pause
    tracks

within == <<length, time_read, time_sent, time_elapsed>>
account == <<ahead, lost, outage, stalled>>
pacing_vars == <<phase, link, within, account, tracks>>

Ms(t) == t \div Unit
Second == Ms(1000)
Floor(x) == IF x > 0 THEN x ELSE 0

PacingInit ==
    /\ phase = "open"
    /\ link = FALSE
    /\ length = 0 /\ time_read = 0 /\ time_sent = 0 /\ time_elapsed = 0
    /\ ahead = 0 /\ lost = 0 /\ outage = 0
    /\ stalled = FALSE
    /\ tracks = 0

(* time_begin, and what is done with the file before the first block.      *)
PacedOpen(time, len) ==
    /\ phase = "open"
    /\ tracks < MaxTracks
    /\ phase' = "play"
    /\ length' = len
    /\ time_read' = 0 /\ time_sent' = 0
    /\ time_elapsed' = time
    /\ ahead' = ahead - time
    /\ tracks' = tracks + 1
    /\ UNCHANGED <<link, lost, outage, stalled>>

(* net_connect and the header, before the first block or one that follows  *)
(* a block that was not sent, before send_begin.                           *)
PacedConnect(time) ==
    /\ phase = "play" /\ ~link
    /\ link' = TRUE
    /\ time_elapsed' = time_elapsed + time
    /\ ahead' = ahead - time
    /\ outage' = outage + time
    /\ UNCHANGED <<phase, length, time_read, time_sent, lost, stalled, tracks>>

(* There is no connection to be had, or the header is refused: the list is *)
(* left.                                                                   *)
PacedGiveUp ==
    /\ phase = "play" /\ ~link
    /\ phase' = "over"
    /\ UNCHANGED <<link, within, account, tracks>>

(* Mutant of Pause: the pause does not grow when the buffer is full.       *)
PauseShort(buffer_sent) ==
    IF buffer_sent < buffer_size - Ms(100) THEN Ms(900) ELSE Ms(975)

Pause(buffer_sent) ==
    IF buffer_sent < buffer_size - Ms(100) THEN Ms(900)
    ELSE IF buffer_sent > buffer_size THEN Ms(1100)
    ELSE Ms(975)

(* A block is read, and sent or not; what is left of the pause after       *)
(* sending is waited for.  time_pause has no sign, but its value as an int *)
(* has, and then there is no wait.  sent is the time_sent that counts.     *)
PacedBlock(send_lag, sent, music) ==
    LET now == time_elapsed + send_lag
        spent == send_lag + Floor(Pause(Floor(sent - now)) - send_lag)
    IN  /\ phase = "play" /\ link
        /\ time_read < length
        /\ time_read' = time_read + Second
        /\ time_sent' = sent
        /\ time_elapsed' = time_elapsed + spent
        /\ ahead' = ahead + music - spent
        /\ stalled' = IF send_lag > Ms(900) THEN TRUE ELSE stalled
        /\ UNCHANGED <<phase, length, outage, tracks>>

BlockSent(send_lag) ==
    /\ PacedBlock(send_lag, time_sent + Second, Min({Second, length - time_read}))
    /\ UNCHANGED <<link, lost>>

(* net_send fails, at once if the connection was closed when the answer to *)
(* the header did not come: frames_sent stays as it is.                    *)
BlockLost(send_lag) ==
    /\ lost < MaxLost * Second
    /\ PacedBlock(send_lag, time_sent, 0)
    /\ link' = FALSE
    /\ lost' = lost + Second

(* The end of the track: its rest is waited for, or 2 seconds when that is *)
(* more than 3.                                                            *)
PacedEnd ==
    /\ phase = "play" /\ link
    /\ time_read >= length
    /\ LET rest == length - time_elapsed
       IN  ahead' = ahead - (IF rest > Ms(3000) THEN Ms(2000) ELSE Floor(rest))
    /\ phase' = IF tracks = MaxTracks THEN "over" ELSE "open"
    /\ UNCHANGED <<link, within, lost, outage, stalled, tracks>>

PacingNext ==
    \/ \E time \in Opens, len \in Lengths : PacedOpen(time, len)
    \/ \E time \in Outages : PacedConnect(time)
    \/ PacedGiveUp
    \/ \E send_lag \in Lags : BlockSent(send_lag) \/ BlockLost(send_lag)
    \/ PacedEnd

PacingSpec == PacingInit /\ [][PacingNext]_pacing_vars

-----------------------------------------------------------------------------
PacingTypeOK ==
    /\ phase \in {"open", "play", "over"}
    /\ length \in Lengths \union {0}
    /\ time_read \in Nat /\ time_sent \in Nat /\ time_elapsed \in Nat
    /\ ahead \in Int /\ lost \in Nat /\ outage \in Nat
    /\ link \in BOOLEAN /\ stalled \in BOOLEAN
    /\ tracks \in 0..MaxTracks

(* Over all tracks, and however long the blocks take to send, no more music*)
(* has been sent, when a block is due, than the time that has passed, the  *)
(* buffer that is configured and the blocks that could not be sent; and,   *)
(* while no block took longer than a pause, no less than this time without *)
(* that of opening the tracks and of connecting, and without these blocks. *)
(* (The clock of the track (playlist.cpp:276) runs on while the server is  *)
(* connected again (329), so that what is missing is made up afterwards,   *)
(* and only blocks that were sent are counted (375-376); but the rest of   *)
(* the track (456) counts all of them, so that lost ones shorten the wait.)*)
(* The three pauses, the time a block takes of them, the clock that starts *)
(* again with each track and the wait between the tracks have to agree.    *)
Paced ==
    phase = "play" =>
        /\ ahead <= buffer_size + lost
        /\ ~stalled => ahead >= -tracks * Max(Opens) - outage - lost
=============================================================================
