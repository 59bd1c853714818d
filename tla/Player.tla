------------------------------- MODULE Player -------------------------------
(***************************************************************************)
(* The player of accordion: TPlaylist::start (playlist.cpp) over the       *)
(* shared playlist of PlaylistStore and one connection to the streaming    *)
(* server (tclientsocket.cpp).                                             *)
(*                                                                         *)
(* The player walks through its copy of the list with an iterator, saves   *)
(* the index of the track it starts in the file npfile, opens the track,   *)
(* announces its sample rate in a header when the connection is new, and   *)
(* sends the frames of the track; it reconnects in the middle of a track   *)
(* when sending fails, and between two tracks it adopts a new playlist.    *)
(***************************************************************************)
EXTENDS PlaylistStore

CONSTANTS
    RateOf,     \* the sample rate of each track
    NoRate,     \* icecast_sample_rate == -1
    NoIndex,    \* npfile is missing, or truncated and not written yet
    NoTrack,    \* filename == NULL
    MaxFrames   \* the number of blocks of frames of the longest track

ASSUME RatesAreRates == DOMAIN RateOf = Track /\ \A t \in Track : RateOf[t] # NoRate
ASSUME NoIndexIsNoNumber == NoIndex \notin Nat
ASSUME MaxFramesIsNumber == MaxFrames \in Nat

VARIABLES
    at,         \* where start() stands
    it,         \* it_playlist, as an index of play_list that starts at 1
    npfile,     \* the index in the file npfile (disk), which starts at 0
    track,      \* filename: the track that is opened or played
    left,       \* the blocks of frames the track still has
    res,        \* res # 0: some block of the track has been read
    link,       \* f_connected of the socket to the streaming server
    ev_header,  \* a header has to be sent
    icecast_sample_rate,    \* the rate further tracks are compared with
    announced   \* the rate the server knows from the header

file == <<track, left, res>>
conn == <<link, ev_header, icecast_sample_rate, announced>>
playerVars == <<at, it, npfile, file, conn>>
vars == <<storeVars, playerVars>>

PlayerInit ==
    /\ at = "off"
    /\ it = 0
    /\ npfile = NoIndex
    /\ track = NoTrack
    /\ left = 0
    /\ res = FALSE
    /\ link = FALSE
    /\ ev_header = FALSE
    /\ icecast_sample_rate = NoRate
    /\ announced = NoRate

Init == StoreInit /\ PlayerInit

-----------------------------------------------------------------------------
(* The player moves from a to b inside start(). *)
Move(a, b) == pc[Main] = "play" /\ at = a /\ at' = b

(* load_idx: a missing or an empty file reads as 0. *)
LoadIdx == IF npfile = NoIndex THEN 0 ELSE npfile

(* Mutant: the saved index is not compared with the length of the list. *)
AdvanceIteratorUnchecked == IF LoadIdx # 0 THEN LoadIdx + 2 ELSE 1

(* advance_iterator: index 0 means start over, any other index means the   *)
(* track after it, if there is one.                                        *)
AdvanceIterator ==
    IF LoadIdx # 0 /\ LoadIdx + 1 < Len(play_list) THEN LoadIdx + 2 ELSE 1

(* start(): from the beginning when a list has been fetched, after the     *)
(* saved track when the list was found on the disk.                        *)
Position ==
    /\ Move("start", "first_save")
    /\ it' = IF playfile_exists THEN AdvanceIterator ELSE 1
    /\ UNCHANGED <<storeVars, npfile, file, conn>>

(* save_idx: fopen "w+" truncates the file ... *)
SaveTruncate ==
    /\ Move("first_save", "first_write") \/ Move("save", "write")
    /\ npfile' = NoIndex
    /\ UNCHANGED <<storeVars, it, file, conn>>

(* ... and fclose writes the index: of the first track before the server   *)
(* is connected, of the current track in get_current_file.                 *)
SaveWrite ==
    /\ \/ Move("first_write", "connect") /\ track' = track
       \/ Move("write", "open") /\ track' = play_list[it]
    /\ npfile' = it - 1
    /\ UNCHANGED <<storeVars, it, left, res, conn>>

(* The outcomes of net_connect: the server is connected; its name cannot   *)
(* be resolved, or there is no socket, which is returned as true; every    *)
(* attempt is refused.                                                     *)
Outcome == {"connected", "unresolved", "refused"}

(* A new connection, about which the server knows nothing. *)
NetConnect(o) ==
    /\ link' = (o = "connected")
    /\ announced' = NoRate

(* The first connection of start(). *)
FirstConnect ==
    /\ \E o \in Outcome :
        /\ NetConnect(o)
        /\ IF o = "refused"
           THEN /\ Move("connect", "end")
                /\ ClearPlayList
                /\ UNCHANGED <<ev_header, icecast_sample_rate>>
           ELSE /\ Move("connect", "loop")
                /\ ev_header' = TRUE
                /\ icecast_sample_rate' = NoRate
                /\ UNCHANGED storeVars
    /\ UNCHANGED <<it, npfile, file>>

(* while (!play_list.empty()). *)
NextTrack ==
    /\ Move("loop", IF play_list = <<>> THEN "end" ELSE "save")
    /\ UNCHANGED <<storeVars, it, npfile, file, conn>>

(* fmt_GetFileInfo reads the file, and its rate fits the stream. *)
OpenTrack ==
    /\ Move("open", "send")
    /\ icecast_sample_rate \in {NoRate, RateOf[track]}
    /\ icecast_sample_rate' = RateOf[track]
    /\ left' \in 0..MaxFrames
    /\ res' = FALSE
    /\ UNCHANGED <<storeVars, it, npfile, track, link, ev_header, announced>>

(* erase_idx: the file cannot be read, or its rate does not fit. *)
SkipTrack ==
    /\ Move("open", "loop")
    /\ EraseTrack(it)
    /\ it' = IF it = Len(play_list) THEN 1 ELSE it
    /\ UNCHANGED <<npfile, file, conn>>

(* Mutant: a new connection in the middle of a track gets no header. *)
ReconnectWithoutHeader ==
    /\ ~link
    /\ \E o \in Outcome :
        /\ NetConnect(o)
        /\ Move("send", IF o = "refused" THEN "fin" ELSE "frame")
    /\ icecast_sample_rate' = NoRate
    /\ UNCHANGED <<storeVars, it, npfile, file, ev_header>>

(* The connection is lost: the next one needs a header, of any rate. *)
Reconnect ==
    /\ ~link
    /\ \E o \in Outcome :
        /\ NetConnect(o)
        /\ Move("send", IF o = "refused" THEN "fin" ELSE "header")
    /\ ev_header' = TRUE
    /\ icecast_sample_rate' = NoRate
    /\ UNCHANGED <<storeVars, it, npfile, file>>

(* net_connect returns at once when there is a connection. *)
StillConnected ==
    /\ link
    /\ Move("send", IF ev_header THEN "header" ELSE "frame")
    /\ UNCHANGED <<storeVars, it, npfile, file, conn>>

(* The header is not sent, without a connection or because it breaks: the  *)
(* loop goes on with the next connection.                                  *)
HeaderLost ==
    /\ Move("header", "send")
    /\ link' = FALSE
    /\ UNCHANGED <<storeVars, it, npfile, file, ev_header,
                   icecast_sample_rate, announced>>

(* The server answers 200. *)
HeaderAccepted ==
    /\ link
    /\ Move("header", "frame")
    /\ ev_header' = FALSE
    /\ announced' = RateOf[track]
    /\ UNCHANGED <<storeVars, it, npfile, file, link, icecast_sample_rate>>

(* recv fails: net_recv closes the socket and returns -1, which is true.   *)
HeaderUnanswered ==
    /\ link
    /\ Move("header", "frame")
    /\ ev_header' = FALSE
    /\ link' = FALSE
    /\ UNCHANGED <<storeVars, it, npfile, file, icecast_sample_rate, announced>>

(* The server answers something else, or closes the connection. *)
HeaderRefused ==
    /\ link
    /\ Move("header", "fin")
    /\ ClearPlayList
    /\ link' \in BOOLEAN
    /\ UNCHANGED <<it, npfile, file, ev_header, icecast_sample_rate, announced>>

(* get_next_iterator: at the end of the list a detached thread asks for a  *)
(* new one (if fewer than the modelled number of them are alive) and the   *)
(* list starts again.                                                      *)
AfterIt == IF it = Len(play_list) THEN 1 ELSE it + 1

QueryAtEnd ==
    \/ \E f \in Fetcher : Spawn(f)
    \/ (\A f \in Fetcher : pc[f] # "idle") /\ UNCHANGED storeVars

(* Mutant: the iterator moves on before each block. *)
FrameMovesOn ==
    /\ Move("frame", IF left > 0 THEN "send" ELSE "fin")
    /\ it' = AfterIt
    /\ IF it = Len(play_list) THEN QueryAtEnd ELSE UNCHANGED storeVars
    /\ res' = (left > 0)
    /\ left' = IF left > 0 THEN left - 1 ELSE 0
    /\ link' \in {link, link /\ left = 0}
    /\ UNCHANGED <<npfile, track, ev_header, icecast_sample_rate, announced>>

(* Before its first block the iterator moves on; then a block of the track *)
(* is read and sent; without a block the track is over.                    *)
Frame ==
    /\ Move("frame", IF left > 0 THEN "send" ELSE "fin")
    /\ IF res
       THEN it' = it /\ UNCHANGED storeVars
       ELSE /\ it' = AfterIt
            /\ IF it = Len(play_list) THEN QueryAtEnd ELSE UNCHANGED storeVars
    /\ res' = (left > 0)
    /\ left' = IF left > 0 THEN left - 1 ELSE 0
    /\ link' \in {link, link /\ left = 0}
    /\ UNCHANGED <<npfile, track, ev_header, icecast_sample_rate, announced>>

(* Mutant: get_new_playlist is not asked between two tracks. *)
TrackOverDeaf ==
    /\ \/ ~link /\ Move("fin", "end")
       \/ link /\ Move("fin", "loop")
    /\ UNCHANGED <<storeVars, it, npfile, file, conn>>

(* After a track, or what was left of it: stop without a connection, load  *)
(* a new playlist if there is one.                                         *)
TrackOver ==
    /\ \/ ~link /\ Move("fin", "end") /\ UNCHANGED storeVars
       \/ link /\ Move("fin", "load") /\ CheckNew
       \/ /\ link /\ Move("fin", "loop")
          /\ mu_change = NoThread /\ ~NewPlaylist
          /\ UNCHANGED storeVars
    /\ UNCHANGED <<it, npfile, file, conn>>

(* start() returns. *)
Finish ==
    /\ pc[Main] = "play" /\ at = "end"
    /\ Exit
    /\ UNCHANGED playerVars

(* load_playlist sets the iterator to the beginning: in the constructor,   *)
(* and between two tracks.                                                 *)
Load ==
    \/ (BeginLoad \/ CopyTrack) /\ UNCHANGED playerVars
    \/ /\ EndLoad
       /\ it' = 1
       /\ at' = IF at = "off" THEN "start" ELSE "loop"
       /\ UNCHANGED <<npfile, file, conn>>

Boot == BootStep /\ UNCHANGED playerVars

(* The threads beside the player, and SIGUSR1. *)
Others ==
    /\ \/ \E f \in Fetcher : Spawn(f)
       \/ \E t \in Thread : FetchStep(t)
    /\ UNCHANGED playerVars

(* The program is stopped, or crashes, and is started again. *)
PlayerRestart ==
    /\ Restart
    /\ at' = "off"
    /\ it' = 0
    /\ track' = NoTrack
    /\ left' = 0
    /\ res' = FALSE
    /\ link' = FALSE
    /\ ev_header' = FALSE
    /\ icecast_sample_rate' = NoRate
    /\ announced' = NoRate
    /\ UNCHANGED npfile

PlayerStep ==
    \/ Position \/ SaveTruncate \/ SaveWrite \/ FirstConnect \/ NextTrack
    \/ OpenTrack \/ SkipTrack \/ Reconnect \/ StillConnected
    \/ HeaderLost \/ HeaderAccepted \/ HeaderUnanswered \/ HeaderRefused
    \/ Frame \/ TrackOver \/ Finish

Next == PlayerStep \/ Load \/ Boot \/ Others \/ PlayerRestart

(* Every thread is scheduled, and no thread waits for ever for a mutex     *)
(* that is given back again and again.                                     *)
Fairness ==
    /\ SF_vars(PlayerStep)
    /\ SF_vars(Load)
    /\ WF_vars(Boot)
    /\ \A t \in Thread : WF_vars(FetchStep(t) /\ UNCHANGED playerVars)

Spec == Init /\ [][Next]_vars
FairSpec == Spec /\ Fairness

-----------------------------------------------------------------------------
(***************************************************************************)
(* What the player promises.                                               *)
(***************************************************************************)
Playing == {"start", "first_save", "first_write", "connect", "loop", "save",
            "write", "open", "send", "header", "frame", "fin"}

(* Every variable has the values the program gives it.                     *)
PlayerTypeOK ==
    /\ TypeOK
    /\ at \in Playing \cup {"off", "load", "end"}
    /\ it \in Nat
    /\ npfile \in Nat \cup {NoIndex}
    /\ track \in Track \cup {NoTrack}
    /\ left \in 0..MaxFrames
    /\ res \in BOOLEAN
    /\ link \in BOOLEAN
    /\ ev_header \in BOOLEAN
    /\ icecast_sample_rate \in {NoRate} \cup {RateOf[t] : t \in Track}
    /\ announced \in {NoRate} \cup {RateOf[t] : t \in Track}

(* get_current_file, erase_idx and get_next_iterator use *it_playlist and  *)
(* ++it_playlist unchecked: whenever they may, the iterator points into    *)
(* the list, in spite of erasures, of cleared lists and of a list that is  *)
(* shorter than the one whose index was saved.                             *)
IteratorValid ==
    (pc[Main] = "play" /\ at \in Playing \ {"start"} /\ play_list # <<>>)
        => it \in 1..Len(play_list)

(* What npfile says is on the air is what is sent, and the iterator, which *)
(* must move on once and only once per track however often the connection  *)
(* breaks, points to it before the first block and to the next one after.  *)
InTurn ==
    (at \in {"send", "header", "frame", "fin"} /\ play_list # <<>>) =>
        /\ npfile \in 0..(Len(play_list) - 1)
        /\ play_list[npfile + 1] = track
        /\ LET here == npfile + 1
               next == IF here = Len(play_list) THEN 1 ELSE here + 1
           IN  /\ at # "fin" => it = (IF res THEN next ELSE here)
               /\ (at = "fin" /\ link) => it = next

(* A server that has not accepted a header is sent no audio, also after a  *)
(* connection was lost in the middle of a track, between two tracks or     *)
(* while the answer to the header was awaited.                             *)
HeaderFirst == (link /\ at = "frame") => announced # NoRate

(* The server is never sent a track of another sample rate than the header *)
(* has announced: the files of a playlist "MUST have the same samplerate   *)
(* and number of channels or your player will ge stuck or even worse"      *)
(* (Template.ini), and start() erases a file with "Sample rate error".     *)
RateMatches == (link /\ at = "frame") => announced = RateOf[track]

(* A new playlist is taken up as soon as the track on the air is over: it  *)
(* is not forgotten while the player stays connected, unless a fetch takes *)
(* the announcement back.                                                  *)
PublishedIsTaken ==
    (new_playlist /\ pc[Main] = "play")
        ~> (~new_playlist \/ ~link \/ at = "end" \/ ~Alive)

(* A lost connection is not tried for ever: "how many times accordion      *)
(* should try to reconnect to a server before giving up" (Template.ini,    *)
(* connectionattempts).                                                    *)
ReconnectGivesUp == (at = "send" /\ ~link) ~> (link \/ at = "end" \/ at = "off")

(* npfile is "used to resume play from the same track between subsequent   *)
(* accordion runs" (Template.ini).                                         *)
ResumesSameTrack ==
    [][(Position /\ playfile_exists /\ LoadIdx < Len(play_list))
        => it' = LoadIdx + 1]_vars
=============================================================================
