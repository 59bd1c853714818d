----------------------- MODULE PlaylistStore_proofs -----------------------
(***************************************************************************)
(* Proofs about the shared playlist of accordion, for any number of        *)
(* tracks, fetches, answers and jingles.                                   *)
(***************************************************************************)
EXTENDS PlaylistStore, TLAPS

-----------------------------------------------------------------------------
(* A list without one of its elements is a list. *)
LEMMA WithoutType ==
    ASSUME NEW S, NEW s \in Seq(S), NEW i \in 1..Len(s)
    PROVE  Without(s, i) \in Seq(S)
<1>1. Len(s) - 1 \in Nat
  OBVIOUS
<1>2. \A j \in 1..(Len(s) - 1) : s[j] \in S /\ s[j + 1] \in S
  OBVIOUS
<1> QED
  BY <1>1, <1>2 DEF Without

(* What is left of a list on the disk is a list. *)
LEMMA SurvivingType ==
    ASSUME NEW S, NEW s \in Seq(S), NEW r \in Surviving(s)
    PROVE  r \in Seq(S)
  BY WithoutType DEF Surviving

(* A beginning of a list that is as long as the list is the list. *)
LEMMA BeginsWhole ==
    ASSUME NEW S, NEW s \in Seq(S), NEW t \in Seq(S),
           Begins(s, t), Len(s) = Len(t)
    PROVE  s = t
  BY DEF Begins

(* The next element makes a longer beginning of a beginning. *)
LEMMA BeginsAppend ==
    ASSUME NEW S, NEW s \in Seq(S), NEW t \in Seq(S),
           Begins(s, t), Len(s) < Len(t)
    PROVE  /\ Append(s, t[Len(s) + 1]) \in Seq(S)
           /\ Begins(Append(s, t[Len(s) + 1]), t)
  BY DEF Begins

(* The list a start of the program works with is a list. *)
LEMMA CheckPlaylistType ==
    ASSUME NEW s \in List, NEW c \in CheckPlaylist(s)
    PROVE  c.list \in List /\ c.default \in BOOLEAN
<1>1. CASE c \in {[list |-> l, default |-> FALSE] : l \in Surviving(s) \ {<<>>}}
  <2>1. PICK l \in Surviving(s) : c = [list |-> l, default |-> FALSE]
    BY <1>1
  <2> QED
    BY <2>1, SurvivingType DEF List
<1>2. CASE c \in {[list |-> l, default |-> TRUE] :
                    l \in {j \in Jingles : Len(s) <= 1}}
  <2>1. PICK l \in Jingles : c = [list |-> l, default |-> TRUE]
    BY <1>2
  <2> QED
    BY <2>1, JinglesAreLists DEF List
<1> QED
  BY <1>1, <1>2 DEF CheckPlaylist

-----------------------------------------------------------------------------
(* Where the threads may stand, what they have asked, and what they found. *)
FetchInv ==
    \A t \in Thread :
        /\ pc[t] = "query" => tries[t] \in 1..(MaxTries - 1)
        /\ pc[t] \in FetchPC \ {"query", "cancel"} =>
              pl[t] \in Answers /\ pl[t] # <<>>

(* A mutex is owned by the thread that is in its section. *)
LockInv ==
    \A t \in Thread :
        /\ UsesPlaylist(t) <=> mu_playlist = t
        /\ UsesFlag(t) <=> mu_change = t

(* A rewriting fetch has written a beginning of its list, and at last all  *)
(* of it; a loading player has copied a beginning of the shared list.      *)
WriteInv ==
    /\ \A t \in Thread :
        /\ pc[t] = "push" => Begins(playlist, pl[t])
        /\ pc[t] = "unlock_playlist" => playlist = pl[t]
    /\ pc[Main] = "copy" => Begins(play_list, playlist)

(* An announced list is a whole answer, whenever nobody rewrites it. *)
WholeInv ==
    (new_playlist /\ \A t \in Thread : pc[t] # "push") => playlist \in Answers

StoreInv == TypeOK /\ FetchInv /\ LockInv /\ WriteInv /\ WholeInv

LEMMA StoreInitInv == StoreInit => StoreInv
<1> SUFFICES ASSUME StoreInit PROVE StoreInv
  OBVIOUS
<1> USE ThreadsDiffer, AnswersAreLists
<1>1. playlist \in List /\ playfile \in List /\ playfile_default \in BOOLEAN
  BY CheckPlaylistType DEF StoreInit, List
<1>2. TypeOK
  <2>1. /\ new_playlist \in BOOLEAN
        /\ playfile_exists \in BOOLEAN
        /\ opened \in BOOLEAN
        /\ mu_playlist \in Thread \cup {NoThread}
        /\ mu_change \in Thread \cup {NoThread}
    BY DEF StoreInit
  <2>2. /\ pc \in [Thread -> FetcherPC \cup MainPC]
        /\ \A f \in Fetcher : pc[f] \in FetcherPC
        /\ pc[Main] \in MainPC
    BY DEF StoreInit, FetcherPC, MainPC, Thread
  <2>3. /\ pl \in [Thread -> List]
        /\ tries \in [Thread -> 0..MaxTries]
        /\ play_list \in List
    BY DEF StoreInit, List, MaxTries
  <2> QED
    BY <1>1, <2>1, <2>2, <2>3 DEF TypeOK
<1>3. FetchInv /\ LockInv /\ WriteInv /\ WholeInv
  BY DEF StoreInit, FetchInv, LockInv, WriteInv, WholeInv, UsesPlaylist,
         UsesFlag, FetchPC, Thread
<1> QED
  BY <1>2, <1>3 DEF StoreInv

(* What a fetch does preserves the invariant. *)
LEMMA FetchStepInv ==
    ASSUME StoreInv, NEW t \in Thread, FetchStep(t)
    PROVE  StoreInv'
<1> USE ThreadsDiffer, AnswersAreLists
    DEF StoreInv, Goto, AfterFetch, StartFetch, Thread, FetchPC, FetcherPC,
        MainPC, param, disk, mutexes, fetch
<1>1. CASE QueryFails(t)
  <2> USE <1>1 DEF QueryFails
  <2>1. TypeOK'
    <3>1. tries[t] + 1 \in 0..MaxTries
      BY DEF FetchInv, MaxTries
    <3> QED
      BY <3>1 DEF TypeOK
  <2>2. FetchInv'
    BY DEF TypeOK, FetchInv, MaxTries
  <2>3. LockInv'
    BY DEF TypeOK, LockInv, UsesPlaylist, UsesFlag
  <2>4. WriteInv'
    BY DEF TypeOK, LockInv, UsesPlaylist, UsesFlag, WriteInv
  <2>5. WholeInv'
    BY DEF TypeOK, FetchInv, LockInv, UsesPlaylist, UsesFlag, WriteInv, WholeInv
  <2> QED
    BY <2>1, <2>2, <2>3, <2>4, <2>5
<1>2. CASE Answered(t)
  <2> USE <1>2 DEF Answered
  <2>1. TypeOK'
    BY DEF TypeOK, FetchInv, List, MaxTries
  <2>2. FetchInv'
    BY DEF TypeOK, FetchInv, MaxTries
  <2>3. LockInv'
    BY DEF TypeOK, LockInv, UsesPlaylist, UsesFlag
  <2>4. WriteInv'
    BY DEF TypeOK, LockInv, UsesPlaylist, UsesFlag, WriteInv
  <2>5. WholeInv'
    BY DEF TypeOK, FetchInv, LockInv, UsesPlaylist, UsesFlag, WriteInv, WholeInv
  <2> QED
    BY <2>1, <2>2, <2>3, <2>4, <2>5
<1>3. CASE Cancel(t)
  <2> USE <1>3 DEF Cancel
  <2>1. TypeOK'
    BY DEF TypeOK, FetchInv, List, MaxTries
  <2>2. FetchInv'
    BY DEF TypeOK, FetchInv, MaxTries
  <2>3. LockInv'
    BY DEF TypeOK, LockInv, UsesPlaylist, UsesFlag
  <2>4. WriteInv'
    BY DEF TypeOK, LockInv, UsesPlaylist, UsesFlag, WriteInv
  <2>5. WholeInv'
    BY DEF TypeOK, FetchInv, LockInv, UsesPlaylist, UsesFlag, WriteInv, WholeInv
  <2> QED
    BY <2>1, <2>2, <2>3, <2>4, <2>5
<1>4. CASE LockPlaylist(t)
  <2> USE <1>4 DEF LockPlaylist
  <2>1. TypeOK'
    BY DEF TypeOK, FetchInv, List, MaxTries
  <2>2. FetchInv'
    BY DEF TypeOK, FetchInv, MaxTries
  <2>3. LockInv'
    BY DEF TypeOK, LockInv, UsesPlaylist, UsesFlag
  <2>4. WriteInv'
    BY DEF TypeOK, LockInv, UsesPlaylist, UsesFlag, WriteInv
  <2>5. WholeInv'
    BY DEF TypeOK, FetchInv, LockInv, UsesPlaylist, UsesFlag, WriteInv, WholeInv
  <2> QED
    BY <2>1, <2>2, <2>3, <2>4, <2>5
<1>5. CASE LockChange(t)
  <2> USE <1>5 DEF LockChange
  <2>1. TypeOK'
    BY DEF TypeOK, FetchInv, List, MaxTries
  <2>2. FetchInv'
    BY DEF TypeOK, FetchInv, MaxTries
  <2>3. LockInv'
    BY DEF TypeOK, LockInv, UsesPlaylist, UsesFlag
  <2>4. WriteInv'
    BY DEF TypeOK, LockInv, UsesPlaylist, UsesFlag, WriteInv
  <2>5. WholeInv'
    BY DEF TypeOK, FetchInv, LockInv, UsesPlaylist, UsesFlag, WriteInv, WholeInv
  <2> QED
    BY <2>1, <2>2, <2>3, <2>4, <2>5
<1>6. CASE ClearList(t)
  <2> USE <1>6 DEF ClearList
  <2>1. TypeOK'
    BY DEF TypeOK, FetchInv, List, MaxTries
  <2>2. FetchInv'
    BY DEF TypeOK, FetchInv, MaxTries
  <2>3. LockInv'
    BY DEF TypeOK, LockInv, UsesPlaylist, UsesFlag
  <2>4. WriteInv'
    <3>1. Begins(<<>>, pl[t])
      BY DEF TypeOK, List, Begins
    <3> QED
      BY <3>1 DEF TypeOK, LockInv, UsesPlaylist, WriteInv
  <2>5. WholeInv'
    BY DEF TypeOK, FetchInv, LockInv, UsesPlaylist, UsesFlag, WriteInv, WholeInv
  <2> QED
    BY <2>1, <2>2, <2>3, <2>4, <2>5
<1>7. CASE Push(t)
  <2> USE <1>7 DEF Push
  <2>0. playlist' \in List /\ Begins(playlist', pl[t])
    BY BeginsAppend DEF TypeOK, List, WriteInv
  <2>1. TypeOK'
    BY <2>0 DEF TypeOK
  <2>2. FetchInv'
    BY DEF TypeOK, FetchInv, MaxTries
  <2>3. LockInv'
    BY DEF TypeOK, LockInv, UsesPlaylist, UsesFlag
  <2>4. WriteInv'
    BY <2>0 DEF TypeOK, LockInv, UsesPlaylist, WriteInv
  <2>5. WholeInv'
    BY DEF TypeOK, FetchInv, LockInv, UsesPlaylist, UsesFlag, WriteInv, WholeInv
  <2> QED
    BY <2>1, <2>2, <2>3, <2>4, <2>5
<1>8. CASE Publish(t)
  <2> USE <1>8 DEF Publish
  <2>0. playlist = pl[t]
    BY BeginsWhole DEF TypeOK, List, WriteInv
  <2>1. TypeOK'
    BY DEF TypeOK, FetchInv, List, MaxTries
  <2>2. FetchInv'
    BY DEF TypeOK, FetchInv, MaxTries
  <2>3. LockInv'
    BY DEF TypeOK, LockInv, UsesPlaylist, UsesFlag
  <2>4. WriteInv'
    BY <2>0 DEF TypeOK, LockInv, UsesPlaylist, WriteInv
  <2>5. WholeInv'
    BY <2>0 DEF TypeOK, FetchInv, WholeInv
  <2> QED
    BY <2>1, <2>2, <2>3, <2>4, <2>5
<1>9. CASE UnlockPlaylist(t)
  <2> USE <1>9 DEF UnlockPlaylist
  <2>1. TypeOK'
    BY DEF TypeOK, FetchInv, List, MaxTries
  <2>2. FetchInv'
    BY DEF TypeOK, FetchInv, MaxTries
  <2>3. LockInv'
    BY DEF TypeOK, LockInv, UsesPlaylist, UsesFlag
  <2>4. WriteInv'
    BY DEF TypeOK, LockInv, UsesPlaylist, UsesFlag, WriteInv
  <2>5. WholeInv'
    BY DEF TypeOK, FetchInv, LockInv, UsesPlaylist, UsesFlag, WriteInv, WholeInv
  <2> QED
    BY <2>1, <2>2, <2>3, <2>4, <2>5
<1>10. CASE UnlockChange(t)
  <2> USE <1>10 DEF UnlockChange
  <2>1. TypeOK'
    BY DEF TypeOK, FetchInv, List, MaxTries
  <2>2. FetchInv'
    BY DEF TypeOK, FetchInv, MaxTries
  <2>3. LockInv'
    BY DEF TypeOK, LockInv, UsesPlaylist, UsesFlag
  <2>4. WriteInv'
    BY DEF TypeOK, LockInv, UsesPlaylist, UsesFlag, WriteInv
  <2>5. WholeInv'
    BY DEF TypeOK, FetchInv, LockInv, UsesPlaylist, UsesFlag, WriteInv, WholeInv
  <2> QED
    BY <2>1, <2>2, <2>3, <2>4, <2>5
<1> QED
  BY <1>1, <1>2, <1>3, <1>4, <1>5, <1>6, <1>7, <1>8, <1>9, <1>10 DEF FetchStep

(* What dispatcher() does preserves the invariant. *)
LEMMA BootStepInv ==
    ASSUME StoreInv, BootStep
    PROVE  StoreInv'
<1> USE ThreadsDiffer, AnswersAreLists
    DEF StoreInv, Goto, AfterFetch, StartFetch, Thread, FetchPC, FetcherPC,
        MainPC, param, disk, mutexes, fetch
<1>1. CASE BootStored
  <2> USE <1>1 DEF BootStored
  <2>1. TypeOK'
    BY DEF TypeOK, FetchInv, List, MaxTries
  <2>2. FetchInv'
    BY DEF TypeOK, FetchInv, MaxTries
  <2>3. LockInv'
    BY DEF TypeOK, LockInv, UsesPlaylist, UsesFlag
  <2>4. WriteInv'
    BY DEF TypeOK, LockInv, UsesPlaylist, UsesFlag, WriteInv
  <2>5. WholeInv'
    BY DEF TypeOK, FetchInv, LockInv, UsesPlaylist, UsesFlag, WriteInv, WholeInv
  <2> QED
    BY <2>1, <2>2, <2>3, <2>4, <2>5
<1>2. CASE BootJingles
  <2> USE <1>2 DEF BootJingles
  <2>1. TypeOK'
    <3>1. PICK f \in Fetcher :
             /\ pc[f] = "idle"
             /\ pc' = [pc EXCEPT ![Main] = "load", ![f] = "query"]
             /\ tries' = [tries EXCEPT ![f] = 1]
      OBVIOUS
    <3> QED
      BY <3>1 DEF TypeOK, MaxTries
  <2>2. FetchInv'
    BY DEF TypeOK, FetchInv, MaxTries
  <2>3. LockInv'
    BY DEF TypeOK, LockInv, UsesPlaylist, UsesFlag
  <2>4. WriteInv'
    BY DEF TypeOK, LockInv, UsesPlaylist, UsesFlag, WriteInv
  <2>5. WholeInv'
    BY DEF TypeOK, FetchInv, LockInv, UsesPlaylist, UsesFlag, WriteInv, WholeInv
  <2> QED
    BY <2>1, <2>2, <2>3, <2>4, <2>5
<1>3. CASE BootQuery
  <2> USE <1>3 DEF BootQuery
  <2>1. TypeOK'
    BY DEF TypeOK, FetchInv, List, MaxTries
  <2>2. FetchInv'
    BY DEF TypeOK, FetchInv, MaxTries
  <2>3. LockInv'
    BY DEF TypeOK, LockInv, UsesPlaylist, UsesFlag
  <2>4. WriteInv'
    BY DEF TypeOK, LockInv, UsesPlaylist, UsesFlag, WriteInv
  <2>5. WholeInv'
    BY DEF TypeOK, FetchInv, LockInv, UsesPlaylist, UsesFlag, WriteInv, WholeInv
  <2> QED
    BY <2>1, <2>2, <2>3, <2>4, <2>5
<1>4. CASE BootFetched
  <2> USE <1>4 DEF BootFetched
  <2>1. TypeOK'
    BY DEF TypeOK, FetchInv, List, MaxTries
  <2>2. FetchInv'
    BY DEF TypeOK, FetchInv, MaxTries
  <2>3. LockInv'
    BY DEF TypeOK, LockInv, UsesPlaylist, UsesFlag
  <2>4. WriteInv'
    BY DEF TypeOK, LockInv, UsesPlaylist, UsesFlag, WriteInv
  <2>5. WholeInv'
    BY DEF TypeOK, FetchInv, LockInv, UsesPlaylist, UsesFlag, WriteInv, WholeInv
  <2> QED
    BY <2>1, <2>2, <2>3, <2>4, <2>5
<1> QED
  BY <1>1, <1>2, <1>3, <1>4 DEF BootStep

(* Loading the list preserves the invariant. *)
LEMMA LoadStepInv ==
    ASSUME StoreInv, LoadStep
    PROVE  StoreInv'
<1> USE ThreadsDiffer, AnswersAreLists
    DEF StoreInv, Goto, AfterFetch, StartFetch, Thread, FetchPC, FetcherPC,
        MainPC, param, disk, mutexes, fetch
<1>1. CASE BeginLoad
  <2> USE <1>1 DEF BeginLoad
  <2>1. TypeOK'
    BY DEF TypeOK, FetchInv, List, MaxTries
  <2>2. FetchInv'
    BY DEF TypeOK, FetchInv, MaxTries
  <2>3. LockInv'
    BY DEF TypeOK, LockInv, UsesPlaylist, UsesFlag
  <2>4. WriteInv'
    <3>1. Begins(<<>>, playlist)
      BY DEF TypeOK, List, Begins
    <3> QED
      BY <3>1 DEF TypeOK, LockInv, UsesPlaylist, WriteInv
  <2>5. WholeInv'
    BY DEF TypeOK, FetchInv, LockInv, UsesPlaylist, UsesFlag, WriteInv, WholeInv
  <2> QED
    BY <2>1, <2>2, <2>3, <2>4, <2>5
<1>2. CASE CopyTrack
  <2> USE <1>2 DEF CopyTrack
  <2>0. play_list' \in List /\ Begins(play_list', playlist)
    BY BeginsAppend DEF TypeOK, List, WriteInv
  <2>1. TypeOK'
    BY <2>0 DEF TypeOK
  <2>2. FetchInv'
    BY DEF TypeOK, FetchInv, MaxTries
  <2>3. LockInv'
    BY DEF TypeOK, LockInv, UsesPlaylist, UsesFlag
  <2>4. WriteInv'
    BY <2>0 DEF TypeOK, WriteInv
  <2>5. WholeInv'
    BY DEF TypeOK, FetchInv, LockInv, UsesPlaylist, UsesFlag, WriteInv, WholeInv
  <2> QED
    BY <2>1, <2>2, <2>3, <2>4, <2>5
<1>3. CASE EndLoad
  <2> USE <1>3 DEF EndLoad
  <2>1. TypeOK'
    BY DEF TypeOK, FetchInv, List, MaxTries
  <2>2. FetchInv'
    BY DEF TypeOK, FetchInv, MaxTries
  <2>3. LockInv'
    BY DEF TypeOK, LockInv, UsesPlaylist, UsesFlag
  <2>4. WriteInv'
    BY DEF TypeOK, LockInv, UsesPlaylist, UsesFlag, WriteInv
  <2>5. WholeInv'
    BY DEF TypeOK, FetchInv, LockInv, UsesPlaylist, UsesFlag, WriteInv, WholeInv
  <2> QED
    BY <2>1, <2>2, <2>3, <2>4, <2>5
<1> QED
  BY <1>1, <1>2, <1>3 DEF LoadStep

(* What the player does with its copy preserves the invariant. *)
LEMMA PlayStepInv ==
    ASSUME StoreInv, PlayStep
    PROVE  StoreInv'
<1> USE ThreadsDiffer, AnswersAreLists
    DEF StoreInv, Goto, AfterFetch, StartFetch, Thread, FetchPC, FetcherPC,
        MainPC, param, disk, mutexes, fetch
<1>1. CASE CheckNew
  <2> USE <1>1 DEF CheckNew
  <2>1. TypeOK'
    BY DEF TypeOK, FetchInv, List, MaxTries
  <2>2. FetchInv'
    BY DEF TypeOK, FetchInv, MaxTries
  <2>3. LockInv'
    BY DEF TypeOK, LockInv, UsesPlaylist, UsesFlag
  <2>4. WriteInv'
    BY DEF TypeOK, LockInv, UsesPlaylist, UsesFlag, WriteInv
  <2>5. WholeInv'
    BY DEF TypeOK, FetchInv, LockInv, UsesPlaylist, UsesFlag, WriteInv, WholeInv
  <2> QED
    BY <2>1, <2>2, <2>3, <2>4, <2>5
<1>2. CASE ClearPlayList
  <2> USE <1>2 DEF ClearPlayList
  <2>1. TypeOK'
    BY DEF TypeOK, FetchInv, List, MaxTries
  <2>2. FetchInv'
    BY DEF TypeOK, FetchInv, MaxTries
  <2>3. LockInv'
    BY DEF TypeOK, LockInv, UsesPlaylist, UsesFlag
  <2>4. WriteInv'
    BY DEF TypeOK, LockInv, UsesPlaylist, UsesFlag, WriteInv
  <2>5. WholeInv'
    BY DEF TypeOK, FetchInv, LockInv, UsesPlaylist, UsesFlag, WriteInv, WholeInv
  <2> QED
    BY <2>1, <2>2, <2>3, <2>4, <2>5
<1>3. CASE Exit
  <2> USE <1>3 DEF Exit
  <2>1. TypeOK'
    BY DEF TypeOK, FetchInv, List, MaxTries
  <2>2. FetchInv'
    BY DEF TypeOK, FetchInv, MaxTries
  <2>3. LockInv'
    BY DEF TypeOK, LockInv, UsesPlaylist, UsesFlag
  <2>4. WriteInv'
    BY DEF TypeOK, LockInv, UsesPlaylist, UsesFlag, WriteInv
  <2>5. WholeInv'
    BY DEF TypeOK, FetchInv, LockInv, UsesPlaylist, UsesFlag, WriteInv, WholeInv
  <2> QED
    BY <2>1, <2>2, <2>3, <2>4, <2>5
<1>4. ASSUME NEW i \in 1..Len(play_list), EraseTrack(i)
      PROVE  StoreInv'
  <2> USE <1>4 DEF EraseTrack
  <2>1. TypeOK'
    BY WithoutType DEF TypeOK, List
  <2>2. FetchInv' /\ LockInv' /\ WriteInv' /\ WholeInv'
    BY DEF TypeOK, FetchInv, LockInv, UsesPlaylist, UsesFlag, WriteInv, WholeInv
  <2> QED
    BY <2>1, <2>2
<1> QED
  BY <1>1, <1>2, <1>3, <1>4 DEF PlayStep

(* A new detached thread preserves the invariant. *)
LEMMA SpawnInv ==
    ASSUME StoreInv, NEW f \in Fetcher, Spawn(f)
    PROVE  StoreInv'
<1> USE ThreadsDiffer
    DEF StoreInv, Goto, StartFetch, Thread, FetchPC, FetcherPC, MainPC, Spawn,
        param, disk, mutexes
<1>1. TypeOK'
  BY DEF TypeOK, MaxTries
<1>2. FetchInv'
  BY DEF TypeOK, FetchInv, MaxTries
<1>3. LockInv' /\ WriteInv' /\ WholeInv'
  BY DEF TypeOK, LockInv, UsesPlaylist, UsesFlag, WriteInv, WholeInv
<1> QED
  BY <1>1, <1>2, <1>3

(* A restart establishes the invariant from what the disk holds. *)
LEMMA RestartInv ==
    ASSUME TypeOK, Restart
    PROVE  StoreInv'
<1> USE ThreadsDiffer DEF Restart
<1>1. playlist' \in List /\ playfile_default' \in BOOLEAN
  <2>1. PICK c \in CheckPlaylist(playfile) :
           playlist' = c.list /\ playfile_default' = c.default
    OBVIOUS
  <2> QED
    BY <2>1, CheckPlaylistType DEF TypeOK
<1>2. /\ pc' \in [Thread -> FetcherPC \cup MainPC]
      /\ \A f \in Fetcher : pc'[f] \in FetcherPC
      /\ pc'[Main] \in MainPC
  BY DEF FetcherPC, MainPC, Thread
<1>3. TypeOK'
  <2>1. /\ new_playlist' \in BOOLEAN /\ playfile_exists' \in BOOLEAN
        /\ opened' \in BOOLEAN /\ playfile' \in List
        /\ mu_playlist' \in Thread \cup {NoThread}
        /\ mu_change' \in Thread \cup {NoThread}
    BY DEF TypeOK
  <2>2. /\ pl' \in [Thread -> List]
        /\ tries' \in [Thread -> 0..MaxTries]
        /\ play_list' \in List
    BY DEF List, MaxTries
  <2> QED
    BY <1>1, <1>2, <2>1, <2>2 DEF TypeOK
<1>4. FetchInv' /\ LockInv' /\ WriteInv' /\ WholeInv'
  BY DEF FetchInv, LockInv, WriteInv, WholeInv, UsesPlaylist, UsesFlag,
         FetchPC, Thread
<1> QED
  BY <1>3, <1>4 DEF StoreInv

(* Every step of the store preserves the invariant. *)
LEMMA StoreNextInv == StoreInv /\ [StoreNext]_storeVars => StoreInv'
<1> SUFFICES ASSUME StoreInv, [StoreNext]_storeVars
             PROVE  StoreInv'
  OBVIOUS
<1>1. CASE \E f \in Fetcher : Spawn(f)
  BY <1>1, SpawnInv
<1>2. CASE \E t \in Thread : FetchStep(t)
  BY <1>2, FetchStepInv
<1>3. CASE BootStep \/ LoadStep \/ PlayStep
  BY <1>3, BootStepInv, LoadStepInv, PlayStepInv
<1>4. CASE Restart
  BY <1>4, RestartInv DEF StoreInv
<1>5. CASE UNCHANGED storeVars
  BY <1>5 DEF storeVars, param, disk, mutexes, fetch, StoreInv, TypeOK,
              FetchInv, LockInv, UsesPlaylist, UsesFlag, WriteInv, WholeInv
<1> QED
  BY <1>1, <1>2, <1>3, <1>4, <1>5 DEF StoreNext

(* The invariant holds in every state of the store. *)
THEOREM StoreInvariant == StoreSpec => []StoreInv
  BY StoreInitInv, StoreNextInv, PTL DEF StoreSpec

-----------------------------------------------------------------------------
(* Every variable keeps the values the program gives it, and no fetch gets *)
(* to the shared list without a list of its own.                           *)
THEOREM StoreTypeOK == StoreSpec => []TypeOK
<1>1. StoreInv => TypeOK
  BY DEF StoreInv
<1> QED
  BY <1>1, StoreInvariant, PTL

(* Two threads are never in the sections of the same mutex: no list is     *)
(* rewritten while it is copied or rewritten.                              *)
THEOREM StoreMutualExclusion == StoreSpec => []MutualExclusion
<1>1. StoreInv => MutualExclusion
  BY DEF StoreInv, LockInv, MutualExclusion
<1> QED
  BY <1>1, StoreInvariant, PTL

(* What get_new_playlist may look at is a whole answer of the server. *)
THEOREM StoreAnnouncedIsWhole == StoreSpec => []AnnouncedIsWhole
<1>1. StoreInv => AnnouncedIsWhole
  <2> SUFFICES ASSUME StoreInv, mu_change = NoThread, NewPlaylist
               PROVE  /\ \A t \in Thread : pc[t] \notin {"clear", "push"}
                      /\ playlist \in Answers
    BY DEF AnnouncedIsWhole
  <2>1. \A t \in Thread : pc[t] \notin {"clear", "push"}
    BY ThreadsDiffer DEF StoreInv, LockInv, UsesFlag
  <2> QED
    BY <2>1 DEF StoreInv, WholeInv, NewPlaylist
<1> QED
  BY <1>1, StoreInvariant, PTL

-----------------------------------------------------------------------------
(* The register's operators on lists are the store's. *)
LEMMA RegisterOps ==
    /\ \A s : Register!Surviving(s) = Surviving(s)
    /\ \A s, t : Register!Begins(s, t) = Begins(s, t)
    /\ \A s, i : Register!Without(s, i) = Without(s, i)
  BY DEF Register!Surviving, Register!Begins, Register!Without,
         Surviving, Begins, Without

(* The store starts as the register does. *)
LEMMA RegisterInit == StoreInit => Register!Init
<1> SUFFICES ASSUME StoreInit PROVE Register!Init
  OBVIOUS
<1> USE ThreadsDiffer
<1>1. ~Rewriting /\ pc[Main] = "boot"
  BY DEF StoreInit, Rewriting, Thread
<1>2. playfile \in Seq(Track)
  BY AnswersAreLists DEF StoreInit
<1>3. PICK c \in CheckPlaylist(playfile) : playlist = c.list
  BY DEF StoreInit
<1>4. Register!Found(playfile, playlist)
  <2>1. CASE c \in {[list |-> l, default |-> FALSE] :
                      l \in Surviving(playfile) \ {<<>>}}
    BY <1>3, <2>1, RegisterOps DEF Register!Found
  <2>2. CASE c \in {[list |-> l, default |-> TRUE] :
                      l \in {j \in Jingles : Len(playfile) <= 1}}
    BY <1>3, <2>2 DEF Register!Found
  <2> QED
    BY <2>1, <2>2 DEF CheckPlaylist
<1> QED
  BY <1>1, <1>2, <1>4
     DEF StoreInit, Published, Fresh, Copy, Register!Init, Register!Lists

(* The list is being rewritten exactly when some fetch is in its loop.     *)
LEMMA RewritingThread ==
    ASSUME StoreInv
    PROVE  /\ Rewriting => pc[Main] # "copy"
           /\ \A t \in Thread : pc[t] = "push" => Rewriting /\ mu_playlist = t
           /\ \A t \in Thread : pc[t] = "clear" => ~Rewriting /\ mu_playlist = t
           /\ mu_playlist = NoThread => ~Rewriting
  BY ThreadsDiffer DEF StoreInv, LockInv, UsesPlaylist, Rewriting, Thread

(* Most steps of a fetch do not show in the register: it asks, waits for a *)
(* mutex or gives one back.                                                *)
LEMMA QuietFetch ==
    ASSUME StoreInv, NEW t \in Thread,
           \/ QueryFails(t) \/ Answered(t) \/ LockPlaylist(t)
           \/ LockChange(t) \/ UnlockPlaylist(t) \/ UnlockChange(t)
    PROVE  UNCHANGED Register!vars
<1> USE ThreadsDiffer, RewritingThread
    DEF StoreInv, TypeOK, LockInv, UsesPlaylist, Goto, AfterFetch, Thread,
        Rewriting, Published, Fresh, Copy, Register!vars, param, disk, mutexes,
        fetch
<1>1. CASE QueryFails(t)
  BY <1>1 DEF QueryFails
<1>2. CASE Answered(t)
  BY <1>2 DEF Answered
<1>3. CASE LockPlaylist(t)
  BY <1>3 DEF LockPlaylist
<1>4. CASE LockChange(t)
  BY <1>4 DEF LockChange
<1>5. CASE UnlockPlaylist(t)
  BY <1>5 DEF UnlockPlaylist
<1>6. CASE UnlockChange(t)
  BY <1>6 DEF UnlockChange
<1> QED
  BY <1>1, <1>2, <1>3, <1>4, <1>5, <1>6

(* The boot, a new thread and the look at the flag do not show either. *)
LEMMA QuietMain ==
    ASSUME StoreInv,
           BootStep \/ CheckNew \/ Exit \/ \E f \in Fetcher : Spawn(f)
    PROVE  UNCHANGED Register!vars
<1> USE ThreadsDiffer, RewritingThread
    DEF StoreInv, TypeOK, LockInv, UsesPlaylist, Goto, AfterFetch, Thread,
        StartFetch, Rewriting, Published, Fresh, Copy, Register!vars, param,
        disk, mutexes, fetch
<1>1. CASE BootStored
  BY <1>1 DEF BootStored
<1>2. CASE BootJingles
  BY <1>2 DEF BootJingles
<1>3. CASE BootQuery
  BY <1>3 DEF BootQuery
<1>4. CASE BootFetched
  BY <1>4 DEF BootFetched
<1>5. CASE CheckNew
  BY <1>5 DEF CheckNew
<1>6. CASE Exit
  BY <1>6 DEF Exit
<1>7. CASE \E f \in Fetcher : Spawn(f)
  BY <1>7 DEF Spawn
<1> QED
  BY <1>1, <1>2, <1>3, <1>4, <1>5, <1>6, <1>7 DEF BootStep

(* What a fetch does to the shared list is one Publish when it clears it;  *)
(* the tracks that follow only reach the disk.                             *)
LEMMA FetchRefines ==
    ASSUME StoreInv, NEW t \in Thread, FetchStep(t)
    PROVE  [Register!Next]_Register!vars
<1> USE ThreadsDiffer, RewritingThread
    DEF Goto, AfterFetch, Thread, Register!vars
<1>1. CASE Cancel(t)
  <2> USE <1>1 DEF Cancel, StoreInv, TypeOK, LockInv, UsesPlaylist, mutexes,
                   disk, fetch
  <2>1. CASE Rewriting
    <3>1. Rewriting' /\ pl' = pl /\ mu_playlist' = mu_playlist
      BY <2>1 DEF Rewriting
    <3> QED
      BY <2>1, <3>1 DEF Published, Fresh, Copy
  <2>2. CASE ~Rewriting
    <3>1. ~Rewriting'
      BY <2>2 DEF Rewriting
    <3> QED
      BY <2>2, <3>1 DEF Published, Fresh, Copy, Register!Next, Register!Cancel
  <2> QED
    BY <2>1, <2>2
<1>2. CASE ClearList(t)
  <2> USE <1>2 DEF ClearList, StoreInv, TypeOK, LockInv, UsesPlaylist, mutexes,
                   fetch
  <2>1. mu_playlist = t /\ mu_playlist' = t /\ Rewriting'
    BY DEF Rewriting
  <2>2. Published' = pl[t] /\ Fresh'
    BY <2>1 DEF Published, Fresh
  <2>3. pl[t] \in Seq(Track) /\ pl[t] # <<>>
    BY DEF FetchInv, FetchPC, List
  <2>4. Copy' = Copy
    BY DEF Copy
  <2> QED
    BY <2>2, <2>3, <2>4 DEF Register!Next, Register!Publish, Register!Lists
<1>3. CASE Push(t) \/ Publish(t)
  <2> USE DEF StoreInv, TypeOK, LockInv, UsesPlaylist, mutexes, fetch
  <2>1. Rewriting /\ mu_playlist = t /\ Published = pl[t] /\ Fresh
    BY <1>3 DEF Published, Fresh, Push, Publish
  <2>2. Copy' = Copy
    BY <1>3, <2>1 DEF Copy, Push, Publish
  <2>3. CASE Push(t)
    <3> USE <2>3 DEF Push
    <3>1. Published' = pl[t] /\ Fresh'
      BY <2>1 DEF Published, Fresh, Rewriting
    <3>2. playlist' \in Seq(Track) /\ Begins(playlist', pl[t])
      BY BeginsAppend DEF List, WriteInv
    <3> QED
      BY <2>1, <2>2, <3>1, <3>2, RegisterOps
         DEF Register!Next, Register!Store, Register!Lists
  <2>4. CASE Publish(t)
    <3> USE <2>4 DEF Publish
    <3>1. playlist = pl[t]
      BY BeginsWhole DEF List, WriteInv
    <3>2. ~Rewriting'
      BY <2>1 DEF Rewriting
    <3>3. Published' = pl[t] /\ Fresh'
      BY <2>1, <3>1, <3>2 DEF Published, Fresh
    <3>4. playlist \in Seq(Track) /\ Begins(playlist, pl[t])
      BY <3>1 DEF List, Begins
    <3> QED
      BY <2>1, <2>2, <3>3, <3>4, RegisterOps
         DEF Register!Next, Register!Store, Register!Lists
  <2> QED
    BY <1>3, <2>3, <2>4
<1> QED
  BY <1>1, <1>2, <1>3, QuietFetch DEF FetchStep

(* Loading the list is one Adopt when the player starts to copy it. *)
LEMMA LoadRefines ==
    ASSUME StoreInv, LoadStep
    PROVE  [Register!Next]_Register!vars
<1> USE ThreadsDiffer, RewritingThread
    DEF StoreInv, TypeOK, LockInv, UsesPlaylist, Goto, Thread, Register!vars,
        param, disk, mutexes, fetch
<1>1. CASE BeginLoad
  <2> USE <1>1 DEF BeginLoad
  <2>1. ~Rewriting /\ ~Rewriting'
    BY DEF Rewriting
  <2>2. Copy' = Published /\ Published' = Published /\ Fresh' = FALSE
    BY <2>1 DEF Copy, Published, Fresh
  <2> QED
    BY <2>2 DEF Register!Next, Register!Adopt
<1>2. CASE CopyTrack
  <2> USE <1>2 DEF CopyTrack
  <2>1. Rewriting' = Rewriting
    BY DEF Rewriting
  <2> QED
    BY <2>1 DEF Copy, Published, Fresh
<1>3. CASE EndLoad
  <2> USE <1>3 DEF EndLoad
  <2>1. ~Rewriting /\ ~Rewriting'
    BY DEF Rewriting
  <2>2. play_list = playlist
    BY BeginsWhole DEF List, WriteInv
  <2> QED
    BY <2>1, <2>2 DEF Copy, Published, Fresh
<1> QED
  BY <1>1, <1>2, <1>3 DEF LoadStep

(* The player's changes of its own copy show as such. *)
LEMMA PlayRefines ==
    ASSUME StoreInv, PlayStep
    PROVE  [Register!Next]_Register!vars
<1> USE ThreadsDiffer, RewritingThread
    DEF StoreInv, TypeOK, LockInv, UsesPlaylist, Thread, Rewriting, Published,
        Fresh, Copy, Register!vars, param, disk, mutexes, fetch
<1>1. CASE ClearPlayList
  BY <1>1 DEF ClearPlayList, Register!Next, Register!Shrink
<1>2. ASSUME NEW i \in 1..Len(play_list), EraseTrack(i)
      PROVE  Register!Next
  BY <1>2, RegisterOps DEF EraseTrack, Register!Next, Register!Shrink
<1> QED
  BY <1>1, <1>2, QuietMain DEF PlayStep

(* A restart of the program is a restart of the register. *)
LEMMA RestartRefines ==
    ASSUME Restart
    PROVE  Register!Restart
<1> USE ThreadsDiffer DEF Restart
<1>1. ~Rewriting' /\ pc'[Main] = "boot"
  BY DEF Rewriting, Thread
<1>2. PICK c \in CheckPlaylist(playfile) : playlist' = c.list
  OBVIOUS
<1>3. Register!Found(playfile, playlist')
  <2>1. CASE c \in {[list |-> l, default |-> FALSE] :
                      l \in Surviving(playfile) \ {<<>>}}
    BY <1>2, <2>1, RegisterOps DEF Register!Found
  <2>2. CASE c \in {[list |-> l, default |-> TRUE] :
                      l \in {j \in Jingles : Len(playfile) <= 1}}
    BY <1>2, <2>2 DEF Register!Found
  <2> QED
    BY <2>1, <2>2 DEF CheckPlaylist
<1> QED
  BY <1>1, <1>3 DEF Published, Fresh, Copy, Register!Restart

(* The store implements the register: every step of every thread is one    *)
(* step of the register or does not show in it.                            *)
THEOREM StoreImplementsRegister == StoreSpec => ImplementsRegister
<1>1. StoreInv /\ [StoreNext]_storeVars => [Register!Next]_Register!vars
  <2> SUFFICES ASSUME StoreInv, [StoreNext]_storeVars
               PROVE  [Register!Next]_Register!vars
    OBVIOUS
  <2>1. CASE UNCHANGED storeVars
    BY <2>1 DEF storeVars, param, disk, mutexes, fetch, Rewriting, Published,
                Fresh, Copy, Register!vars
  <2>2. CASE Restart
    BY <2>2, RestartRefines DEF Register!Next
  <2> QED
    BY <2>1, <2>2, QuietMain, FetchRefines, LoadRefines, PlayRefines
       DEF StoreNext
<1> QED
  BY <1>1, RegisterInit, StoreInvariant, PTL
     DEF StoreSpec, ImplementsRegister, Register!Spec
=============================================================================
