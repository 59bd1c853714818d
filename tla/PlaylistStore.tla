--------------------------- MODULE PlaylistStore ---------------------------
(***************************************************************************)
(* The playlist shared by the threads of accordion: class Tparameters      *)
(* (parameters.cpp), its mutexes (loggermutex.h), the threads that fetch a *)
(* new playlist (handler_proc.cpp) and the side of the player that copies  *)
(* the list (TPlaylist::load_playlist, playlist.cpp).                      *)
(*                                                                         *)
(* Main is the thread of dispatcher(), which boots the store and becomes   *)
(* the player; a Fetcher is a detached thread running                      *)
(* handler_playlist_thread.  A fetcher parses the answer of the server     *)
(* into a list of its own, takes both mutexes and rewrites the shared list *)
(* and the file it is saved in, one track after the other; the player      *)
(* copies the shared list, one track after the other, under one of the     *)
(* two mutexes.                                                            *)
(***************************************************************************)
EXTENDS ListOps

CONSTANTS
    Track,      \* the files a playlist may name
    Fetcher,    \* detached threads that may be alive at the same time
    Main,       \* the thread of dispatcher(), later the player
    NoThread,   \* the owner of a free mutex
    Answers,    \* what set_change_playlist may find in an answer: the lists
                \* of existing files, <<>> when none of them exists
    Jingles     \* the lists the jingle directory may hold

Thread == Fetcher \cup {Main}

ASSUME ThreadsDiffer == Main \notin Fetcher /\ NoThread \notin Thread
ASSUME AnswersAreLists == Answers \subseteq Seq(Track)
ASSUME JinglesAreLists == Jingles \subseteq Seq(Track)

(* while(++cnt < 3) of handler_playlist_thread. *)
MaxTries == 3

VARIABLES
    playlist,           \* Tparameters::playlist
    new_playlist,       \* Tparameters::new_playlist
    playfile_exists,    \* Tparameters::playfile_exists
    playfile_default,   \* Tparameters::playfile_default
    playfile,           \* the tracks in the file the list is saved in (disk)
    opened,             \* did std::ofstream open that file?
    mu_playlist,        \* owner of mu_playlist
    mu_change,          \* owner of mu_change_playlist
    pc,                 \* what each thread is about to do
    pl,                 \* each fetch's own list (Lplaylist pl)
    tries,              \* each fetch's request counter (int cnt)
    play_list           \* TPlaylist::play_list, the player's copy

param   == <<playlist, new_playlist, playfile_exists, playfile_default>>
disk    == <<playfile, opened>>
mutexes == <<mu_playlist, mu_change>>
fetch   == <<pl, tries>>
storeVars == <<param, disk, mutexes, pc, fetch, play_list>>

(* Where a thread stands in handler_playlist_thread / set_change_playlist. *)
FetchPC == {"query", "cancel", "lock_playlist", "lock_change", "clear",
            "push", "unlock_playlist", "unlock_change"}
FetcherPC == FetchPC \cup {"idle"}
MainPC == FetchPC \cup {"boot", "fetched", "load", "copy", "play", "exited"}

(***************************************************************************)
(* Start of the program.                                                   *)
(***************************************************************************)
(* check_playlist: of the stored list s the files that still exist are     *)
(* taken (at most one of them has vanished), or, without any, the jingles. *)
CheckPlaylist(s) ==
    {[list |-> l, default |-> FALSE] : l \in Surviving(s) \ {<<>>}}
    \cup {[list |-> l, default |-> TRUE] : l \in {j \in Jingles : Len(s) <= 1}}

StoreInit ==
    /\ playfile \in Answers
    /\ \E c \in CheckPlaylist(playfile) :
        /\ playlist = c.list
        /\ playfile_default = c.default
    /\ playfile_exists = (playlist # <<>>)
    /\ new_playlist = FALSE
    /\ opened = FALSE
    /\ mu_playlist = NoThread
    /\ mu_change = NoThread
    /\ pc = [t \in Thread |-> IF t = Main THEN "boot" ELSE "idle"]
    /\ pl = [t \in Thread |-> <<>>]
    /\ tries = [t \in Thread |-> 0]
    /\ play_list = <<>>

(* The program stops, or crashes, at any point and is started again: only  *)
(* the file of the playlist is left.                                       *)
Restart ==
    /\ \E c \in CheckPlaylist(playfile) :
        /\ playlist' = c.list
        /\ playfile_default' = c.default
    /\ playfile_exists' = (playlist' # <<>>)
    /\ new_playlist' = FALSE
    /\ opened' = FALSE
    /\ mu_playlist' = NoThread
    /\ mu_change' = NoThread
    /\ pc' = [t \in Thread |-> IF t = Main THEN "boot" ELSE "idle"]
    /\ pl' = [t \in Thread |-> <<>>]
    /\ tries' = [t \in Thread |-> 0]
    /\ play_list' = <<>>
    /\ UNCHANGED playfile

(***************************************************************************)
(* A fetch.  Nothing runs any more once Main has left main().              *)
(***************************************************************************)
Alive == pc[Main] # "exited"

(* Where a thread goes when its fetch is over: a detached thread ends, the *)
(* synchronous fetch of dispatcher() returns.                              *)
AfterFetch(t) == IF t = Main THEN "fetched" ELSE "idle"

(* Thread t moves from a to b. *)
Goto(t, a, b) == Alive /\ pc[t] = a /\ pc' = [pc EXCEPT ![t] = b]

StartFetch(t) == tries' = [tries EXCEPT ![t] = 1]

(* query_playlist_detach: by the player at the end of the list, by SIGUSR1 *)
(* at any time, by handler_playlist_sign when the server says there is a   *)
(* new list.                                                               *)
Spawn(f) ==
    /\ Goto(f, "idle", "query")
    /\ StartFetch(f)
    /\ UNCHANGED <<param, disk, mutexes, pl, play_list>>

(* Mutant: the server is asked once more than MaxTries. *)
QueryFailsOnceMore(t) ==
    /\ Goto(t, "query",
            IF tries[t] + 1 <= MaxTries THEN "query" ELSE AfterFetch(t))
    /\ tries' = [tries EXCEPT ![t] = @ + 1]
    /\ UNCHANGED <<param, disk, mutexes, pl, play_list>>

(* query_url came back empty. *)
QueryFails(t) ==
    /\ Goto(t, "query",
            IF tries[t] + 1 < MaxTries THEN "query" ELSE AfterFetch(t))
    /\ tries' = [tries EXCEPT ![t] = @ + 1]
    /\ UNCHANGED <<param, disk, mutexes, pl, play_list>>

(* An answer, parsed into pl. *)
Answered(t) ==
    /\ \E a \in Answers :
        /\ pl' = [pl EXCEPT ![t] = a]
        /\ Goto(t, "query", IF a = <<>> THEN "cancel" ELSE "lock_playlist")
    /\ UNCHANGED <<param, disk, mutexes, tries, play_list>>

(* if (!pl.size()) { new_playlist = false; ... return; }: no mutex held.   *)
Cancel(t) ==
    /\ Goto(t, "cancel", AfterFetch(t))
    /\ new_playlist' = FALSE
    /\ UNCHANGED <<playlist, playfile_exists, playfile_default, disk, mutexes,
                   fetch, play_list>>

(* Mutant: a fetch does not wait for the mutex of the list. *)
LockPlaylistUnguarded(t) ==
    /\ Goto(t, "lock_playlist", "lock_change")
    /\ mu_playlist' = t
    /\ UNCHANGED <<param, disk, mu_change, fetch, play_list>>

(* ChangePlaylist_MutexLock, first mutex. *)
LockPlaylist(t) ==
    /\ Goto(t, "lock_playlist", "lock_change")
    /\ mu_playlist = NoThread
    /\ mu_playlist' = t
    /\ UNCHANGED <<param, disk, mu_change, fetch, play_list>>

(* Mutant: Playlist_MutexLock is called for ChangePlaylist_MutexLock. *)
LockChangeForgotten(t) ==
    /\ Goto(t, "lock_change", "clear")
    /\ UNCHANGED <<param, disk, mutexes, fetch, play_list>>

(* ChangePlaylist_MutexLock, second mutex. *)
LockChange(t) ==
    /\ Goto(t, "lock_change", "clear")
    /\ mu_change = NoThread
    /\ mu_change' = t
    /\ UNCHANGED <<param, disk, mu_playlist, fetch, play_list>>

(* std::ofstream outfile(playfile) truncates the file, if it can be        *)
(* opened; playlist_clear.                                                 *)
ClearList(t) ==
    /\ Goto(t, "clear", "push")
    /\ playlist' = <<>>
    /\ opened' \in BOOLEAN
    /\ playfile' = IF opened' THEN <<>> ELSE playfile
    /\ UNCHANGED <<new_playlist, playfile_exists, playfile_default, mutexes,
                   fetch, play_list>>

(* One turn of the loop over pl.  What is written to the file is buffered: *)
(* it reaches the disk now or later.                                       *)
Push(t) ==
    /\ Goto(t, "push", "push")
    /\ Len(playlist) < Len(pl[t])
    /\ playlist' = Append(playlist, pl[t][Len(playlist) + 1])
    /\ \/ playfile' = playfile
       \/ opened /\ playfile' = playlist'
    /\ UNCHANGED <<new_playlist, playfile_exists, playfile_default, opened,
                   mutexes, fetch, play_list>>

(* outfile.close() and the two flags. *)
Publish(t) ==
    /\ Goto(t, "push", "unlock_playlist")
    /\ Len(playlist) = Len(pl[t])
    /\ playfile' = IF opened THEN playlist ELSE playfile
    /\ opened' = FALSE
    /\ new_playlist' = TRUE
    /\ playfile_exists' = FALSE
    /\ UNCHANGED <<playlist, playfile_default, mutexes, fetch, play_list>>

(* ChangePlayList_MutexUnlock frees mu_playlist first ... *)
UnlockPlaylist(t) ==
    /\ Goto(t, "unlock_playlist", "unlock_change")
    /\ mu_playlist' = NoThread
    /\ UNCHANGED <<param, disk, mu_change, fetch, play_list>>

(* ... then mu_change_playlist. *)
UnlockChange(t) ==
    /\ Goto(t, "unlock_change", AfterFetch(t))
    /\ mu_change' = NoThread
    /\ UNCHANGED <<param, disk, mu_playlist, fetch, play_list>>

FetchStep(t) ==
    \/ QueryFails(t) \/ Answered(t) \/ Cancel(t)
    \/ LockPlaylist(t) \/ LockChange(t) \/ ClearList(t) \/ Push(t)
    \/ Publish(t) \/ UnlockPlaylist(t) \/ UnlockChange(t)

(***************************************************************************)
(* Main: dispatcher(), then the player's use of the store.                 *)
(***************************************************************************)
(* There is a stored list: play it at once. *)
BootStored ==
    /\ playfile_exists /\ ~playfile_default
    /\ Goto(Main, "boot", "load")
    /\ UNCHANGED <<param, disk, mutexes, fetch, play_list>>

(* There are jingles: play them while a detached thread asks for a list.   *)
BootJingles ==
    /\ playfile_exists /\ playfile_default
    /\ Alive /\ pc[Main] = "boot"
    /\ \E f \in Fetcher :
        /\ pc[f] = "idle"
        /\ pc' = [pc EXCEPT ![Main] = "load", ![f] = "query"]
        /\ StartFetch(f)
    /\ UNCHANGED <<param, disk, mutexes, pl, play_list>>

(* There is nothing to play: dispatcher() fetches a list itself ... *)
BootQuery ==
    /\ ~playfile_exists
    /\ Goto(Main, "boot", "query")
    /\ StartFetch(Main)
    /\ UNCHANGED <<param, disk, mutexes, pl, play_list>>

(* get_new_playlist(). *)
NewPlaylist == new_playlist /\ playlist # <<>>

(* ... and leaves when get_new_playlist() says that it got none. *)
BootFetched ==
    /\ mu_change = NoThread
    /\ Goto(Main, "fetched", IF NewPlaylist THEN "load" ELSE "exited")
    /\ UNCHANGED <<param, disk, mutexes, fetch, play_list>>

(* The player asks get_new_playlist() and is told to load the list. *)
CheckNew ==
    /\ mu_change = NoThread
    /\ NewPlaylist
    /\ Goto(Main, "play", "load")
    /\ UNCHANGED <<param, disk, mutexes, fetch, play_list>>

(* Mutant: update_playlist copies the list without its mutex. *)
BeginLoadUnlocked ==
    /\ Goto(Main, "load", "copy")
    /\ play_list' = <<>>
    /\ UNCHANGED <<param, disk, mutexes, fetch>>

(* load_playlist: playlist_clear, then update_playlist takes mu_playlist.  *)
BeginLoad ==
    /\ Goto(Main, "load", "copy")
    /\ mu_playlist = NoThread
    /\ mu_playlist' = Main
    /\ play_list' = <<>>
    /\ UNCHANGED <<param, disk, mu_change, fetch>>

(* One turn of the loop of update_playlist. *)
CopyTrack ==
    /\ Goto(Main, "copy", "copy")
    /\ Len(play_list) < Len(playlist)
    /\ play_list' = Append(play_list, playlist[Len(play_list) + 1])
    /\ UNCHANGED <<param, disk, mutexes, fetch>>

(* Mutant: set_new_playlist takes both mutexes, one of which its caller    *)
(* update_playlist holds.                                                  *)
EndLoadTakesBoth ==
    /\ Len(play_list) = Len(playlist)
    /\ mu_playlist = NoThread
    /\ mu_change = NoThread
    /\ Goto(Main, "copy", IF play_list = <<>> THEN "exited" ELSE "play")
    /\ new_playlist' = FALSE
    /\ UNCHANGED <<playlist, playfile_exists, playfile_default, disk, mutexes,
                   fetch, play_list>>

(* set_new_playlist(false), which takes and frees mu_change_playlist, then *)
(* the unlock.  Nothing is played when the list is empty.                  *)
EndLoad ==
    /\ Len(play_list) = Len(playlist)
    /\ mu_change = NoThread
    /\ Goto(Main, "copy", IF play_list = <<>> THEN "exited" ELSE "play")
    /\ new_playlist' = FALSE
    /\ mu_playlist' = NoThread
    /\ UNCHANGED <<playlist, playfile_exists, playfile_default, disk,
                   mu_change, fetch, play_list>>

(* erase_idx: a file that cannot be played leaves the player's copy. *)
EraseTrack(i) ==
    /\ Alive /\ pc[Main] = "play"
    /\ i \in 1..Len(play_list)
    /\ play_list' = Without(play_list, i)
    /\ UNCHANGED <<param, disk, mutexes, pc, fetch>>

(* playlist_clear, when the streaming server cannot be reached or refuses. *)
ClearPlayList ==
    /\ Alive /\ pc[Main] = "play"
    /\ play_list' = <<>>
    /\ UNCHANGED <<param, disk, mutexes, pc, fetch>>

(* start() returns, or SIGTERM. *)
Exit ==
    /\ Goto(Main, "play", "exited")
    /\ UNCHANGED <<param, disk, mutexes, fetch, play_list>>

BootStep == BootStored \/ BootJingles \/ BootQuery \/ BootFetched
LoadStep == BeginLoad \/ CopyTrack \/ EndLoad
PlayStep ==
    CheckNew \/ (\E i \in 1..Len(play_list) : EraseTrack(i))
    \/ ClearPlayList \/ Exit

StoreNext ==
    \/ \E f \in Fetcher : Spawn(f)
    \/ \E t \in Thread : FetchStep(t)
    \/ BootStep \/ LoadStep \/ PlayStep
    \/ Restart

StoreSpec == StoreInit /\ [][StoreNext]_storeVars

-----------------------------------------------------------------------------
(***************************************************************************)
(* What the store promises.                                                *)
(***************************************************************************)
List == Seq(Track)

(* Every variable has the values the program gives it; a fetch that has    *)
(* got past the parsing of the answer holds a list that is not empty.      *)
TypeOK ==
    /\ playlist \in List
    /\ new_playlist \in BOOLEAN
    /\ playfile_exists \in BOOLEAN
    /\ playfile_default \in BOOLEAN
    /\ playfile \in List
    /\ opened \in BOOLEAN
    /\ mu_playlist \in Thread \cup {NoThread}
    /\ mu_change \in Thread \cup {NoThread}
    /\ pc \in [Thread -> FetcherPC \cup MainPC]
    /\ \A f \in Fetcher : pc[f] \in FetcherPC
    /\ pc[Main] \in MainPC
    /\ pl \in [Thread -> List]
    /\ tries \in [Thread -> 0..MaxTries]
    /\ play_list \in List

(* The steps of a thread between the lock and the unlock of each mutex. *)
UsesPlaylist(t) ==
    pc[t] \in {"lock_change", "clear", "push", "unlock_playlist", "copy"}
UsesFlag(t) ==
    pc[t] \in {"clear", "push", "unlock_playlist", "unlock_change"}

(* No two threads are in the sections of the same mutex: a list is never   *)
(* copied while set_change_playlist rewrites it, nor rewritten by two      *)
(* fetches at a time.                                                      *)
MutualExclusion ==
    \A t, u \in Thread :
        t # u => /\ ~(UsesPlaylist(t) /\ UsesPlaylist(u))
                 /\ ~(UsesFlag(t) /\ UsesFlag(u))

(* get_new_playlist reads the length of the list under the mutex of the    *)
(* flag only, and so may a second fetch set the flag while a first one     *)
(* fills the list: what it is allowed to look at is never a half list, but *)
(* one that is the whole list of some fetch, or the one of the start.      *)
AnnouncedIsWhole ==
    (mu_change = NoThread /\ NewPlaylist) =>
        /\ \A t \in Thread : pc[t] \notin {"clear", "push"}
        /\ playlist \in Answers

(* Nobody waits for ever for a mutex that another waiting thread owns: the *)
(* two mutexes of a rewriting fetch and the two of the loading player are  *)
(* taken in the same order, and each is given back.                        *)
MutexesAreFreed ==
    /\ []<>(mu_playlist = NoThread \/ ~Alive)
    /\ []<>(mu_change = NoThread \/ ~Alive)

(* A fetch gives up on a silent server after three requests, as the        *)
(* version history of accordion_V10.x.cpp says ("three requests of the     *)
(* playlist, when necessary").                                             *)
ThreeRequests ==
    [][\A t \in Thread :
        (pc[t] = "query" /\ pc'[t] = AfterFetch(t) /\ pc'[Main] # "boot")
            => tries[t] = 3]_storeVars

(***************************************************************************)
(* The store implements a register written and copied in one step.  A list *)
(* is published when its fetch, with both mutexes, clears the old one, and *)
(* adopted when the player, with the mutex of the list, starts to copy it. *)
(***************************************************************************)
Rewriting == mu_playlist \in Thread /\ pc[mu_playlist] = "push"

Published == IF Rewriting THEN pl[mu_playlist] ELSE playlist
Fresh == Rewriting \/ (new_playlist /\ pc[Main] # "copy")
Copy == IF pc[Main] = "copy" THEN playlist ELSE play_list

Register == INSTANCE PlaylistRegister WITH
    published <- Published, fresh <- Fresh, copy <- Copy, stored <- playfile

(* The player, and a restart, never see anything but whole lists and       *)
(* beginnings of whole lists, in spite of the steps set_change_playlist    *)
(* and update_playlist take.                                               *)
ImplementsRegister == Register!Spec
=============================================================================
