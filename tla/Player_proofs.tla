--------------------------- MODULE Player_proofs ---------------------------
(***************************************************************************)
(* Proofs about the player of accordion, for any tracks, rates, lists and  *)
(* any number of fetches beside it.                                        *)
(***************************************************************************)
EXTENDS Player, PlaylistStore_proofs

-----------------------------------------------------------------------------
(* A step of the player is a step of the store or does not touch it. *)
LEMMA PlayerStepUses ==
    ASSUME PlayerStep
    PROVE  [StoreNext]_storeVars
<1> USE DEF StoreNext, PlayStep, Thread
<1>1. CASE FirstConnect
  BY <1>1 DEF FirstConnect
<1>2. CASE SkipTrack
  BY <1>2 DEF SkipTrack, EraseTrack
<1>3. CASE HeaderRefused
  BY <1>3 DEF HeaderRefused
<1>4. CASE Frame
  BY <1>4 DEF Frame, QueryAtEnd
<1>5. CASE TrackOver
  BY <1>5 DEF TrackOver
<1>6. CASE Finish
  BY <1>6 DEF Finish
<1> QED
  BY <1>1, <1>2, <1>3, <1>4, <1>5, <1>6
     DEF PlayerStep, Position, SaveTruncate, SaveWrite, NextTrack, OpenTrack,
         Reconnect, StillConnected, HeaderLost, HeaderAccepted,
         HeaderUnanswered

(* So is every step of the player's program. *)
LEMMA NextUses == [Next]_vars => [StoreNext]_storeVars
<1> SUFFICES ASSUME [Next]_vars PROVE [StoreNext]_storeVars
  OBVIOUS
<1>1. CASE Load
  BY <1>1 DEF Load, StoreNext, LoadStep
<1>2. CASE Boot
  BY <1>2 DEF Boot, StoreNext
<1>3. CASE Others
  BY <1>3 DEF Others, StoreNext
<1>4. CASE PlayerRestart
  BY <1>4 DEF PlayerRestart, StoreNext
<1>5. CASE UNCHANGED vars
  BY <1>5 DEF vars
<1> QED
  BY <1>1, <1>2, <1>3, <1>4, <1>5, PlayerStepUses DEF Next

(* The player uses the shared playlist in no other way than the store was  *)
(* shown to stand.                                                         *)
THEOREM PlayerUsesStore == Spec => StoreSpec
  BY NextUses, PTL DEF Spec, Init, StoreSpec

(* So all that holds of the store holds below the player: whole lists, and *)
(* the register.                                                           *)
THEOREM PlayerKeepsStore == Spec => []StoreInv /\ ImplementsRegister
  BY PlayerUsesStore, StoreInvariant, StoreImplementsRegister, PTL

-----------------------------------------------------------------------------
(* The player is at a track between opening it and leaving it. *)
AtTrack == at \in {"open", "send", "header", "frame", "fin"}

(* Where the player may not have run out of tracks. *)
NeedsTrack ==
    at \in {"start", "first_save", "first_write", "connect", "save", "write",
            "open"}

(* A track is played by Main only while it plays; what is opened is a      *)
(* track; there is one to be opened.                                       *)
StandInv ==
    /\ AtTrack => pc[Main] = "play" /\ track \in Track
    /\ (pc[Main] = "play" /\ NeedsTrack) => play_list # <<>>

(* A connection without a header to be sent has had one accepted, and no   *)
(* frame is sent over a connection before that.                            *)
HeaderInv ==
    /\ (link /\ ~ev_header) => announced # NoRate
    /\ (link /\ at = "frame") => ~ev_header

(* The track that is opened is the one of the iterator and of npfile. *)
OpenInv ==
    (at = "open" /\ play_list # <<>>) =>
        npfile = it - 1 /\ track = play_list[it]

PlayerInv ==
    PlayerTypeOK /\ StandInv /\ IteratorValid /\ HeaderInv /\ OpenInv /\ InTurn

(* The length of a list without one of its elements. *)
LEMMA WithoutLen ==
    ASSUME NEW S, NEW s \in Seq(S), NEW i \in 1..Len(s)
    PROVE  Len(Without(s, i)) = Len(s) - 1
<1>1. Len(s) - 1 \in Nat
  OBVIOUS
<1> QED
  BY <1>1 DEF Without

LEMMA PlayerInitInv == Init => PlayerInv
<1> SUFFICES ASSUME Init PROVE PlayerInv
  OBVIOUS
<1>1. TypeOK
  BY StoreInitInv DEF Init, StoreInv
<1>2. PlayerTypeOK
  <2>1. left \in 0..MaxFrames
    BY MaxFramesIsNumber DEF Init, PlayerInit
  <2>2. it \in Nat
    BY DEF Init, PlayerInit
  <2> QED
    BY <1>1, <2>1, <2>2, Zenon DEF Init, PlayerInit, PlayerTypeOK
<1>3. at = "off" /\ link = FALSE
  BY DEF Init, PlayerInit
<1>4. pc[Main] # "play"
  BY ThreadsDiffer DEF Init, StoreInit, Thread
<1> QED
  BY <1>2, <1>3, <1>4
     DEF PlayerInv, StandInv, AtTrack, IteratorValid, HeaderInv, OpenInv, InTurn

(* The threads beside the player leave the player's list alone, and do not *)
(* start or stop the player.                                               *)
LEMMA OthersQuiet ==
    ASSUME TypeOK,
           \/ \E f \in Fetcher : Spawn(f)
           \/ \E t \in Thread : FetchStep(t)
    PROVE  /\ play_list' = play_list
           /\ pc'[Main] = "play" <=> pc[Main] = "play"
<1> USE ThreadsDiffer DEF TypeOK, Thread, Goto, AfterFetch
<1>1. ASSUME NEW f \in Fetcher, Spawn(f)
      PROVE  play_list' = play_list /\ pc'[Main] = pc[Main]
  BY <1>1 DEF Spawn
<1>2. ASSUME NEW t \in Thread, FetchStep(t)
      PROVE  /\ play_list' = play_list
             /\ pc'[Main] = "play" <=> pc[Main] = "play"
  BY <1>2 DEF FetchStep, QueryFails, Answered, Cancel, LockPlaylist,
              LockChange, ClearList, Push, Publish, UnlockPlaylist,
              UnlockChange
<1> QED
  BY <1>1, <1>2

(* The steps inside start() keep the invariant. *)
LEMMA PlayerStepInv ==
    ASSUME PlayerInv, TypeOK', PlayerStep
    PROVE  PlayerInv'
<1> USE ThreadsDiffer, RatesAreRates, MaxFramesIsNumber, NoIndexIsNoNumber
<1> USE DEF PlayerInv, PlayerTypeOK, StandInv, AtTrack, NeedsTrack, Playing,
            IteratorValid, HeaderInv, OpenInv, InTurn, Move, file, conn,
            storeVars
<1>0. play_list \in Seq(Track) /\ play_list' \in Seq(Track)
  BY DEF TypeOK, List
<1>1. CASE Position
  BY <1>0, <1>1 DEF Position, AdvanceIterator, LoadIdx
<1>2. CASE SaveTruncate
  BY <1>0, <1>2 DEF SaveTruncate
<1>3. CASE SaveWrite
  BY <1>0, <1>3 DEF SaveWrite
<1>4. CASE FirstConnect
  BY <1>0, <1>4 DEF FirstConnect, NetConnect, ClearPlayList
<1>5. CASE NextTrack
  BY <1>0, <1>5 DEF NextTrack
<1>6. CASE OpenTrack
  <2>1. track \in Track /\ play_list' = play_list /\ play_list # <<>>
    BY <1>6 DEF OpenTrack
  <2>2. it \in 1..Len(play_list) /\ npfile = it - 1 /\ track = play_list[it]
    BY <1>0, <1>6, <2>1 DEF OpenTrack
  <2>3. PlayerTypeOK'
    BY <1>6, <2>1 DEF OpenTrack
  <2>4. InTurn'
    BY <1>0, <1>6, <2>1, <2>2 DEF OpenTrack
  <2> QED
    BY <1>6, <2>1, <2>2, <2>3, <2>4 DEF OpenTrack
<1>7. CASE SkipTrack
  BY <1>0, <1>7, WithoutLen DEF SkipTrack, EraseTrack
<1>8. CASE Reconnect
  BY <1>0, <1>8 DEF Reconnect, NetConnect
<1>9. CASE StillConnected
  BY <1>0, <1>9 DEF StillConnected
<1>10. CASE HeaderLost
  BY <1>0, <1>10 DEF HeaderLost
<1>11. CASE HeaderAccepted
  BY <1>0, <1>11 DEF HeaderAccepted
<1>12. CASE HeaderUnanswered
  BY <1>0, <1>12 DEF HeaderUnanswered
<1>13. CASE HeaderRefused
  BY <1>0, <1>13 DEF HeaderRefused, ClearPlayList
<1>14. CASE Frame
  <2>1. play_list' = play_list /\ (pc'[Main] = "play" <=> pc[Main] = "play")
    BY <1>14, OthersQuiet DEF Frame, QueryAtEnd
  <2>2. PlayerTypeOK'
    BY <1>0, <1>14, <2>1 DEF Frame, AfterIt
  <2>3. StandInv' /\ HeaderInv' /\ OpenInv'
    BY <1>14, <2>1 DEF Frame
  <2>4. play_list # <<>> => /\ it \in 1..Len(play_list)
                            /\ it' = (IF res THEN it ELSE AfterIt)
                            /\ AfterIt \in 1..Len(play_list)
    BY <1>0, <1>14 DEF Frame, AfterIt
  <2>5. IteratorValid'
    BY <1>14, <2>1, <2>4 DEF Frame
  <2>6. InTurn'
    BY <1>0, <1>14, <2>1, <2>4 DEF Frame, AfterIt
  <2> QED
    BY <2>2, <2>3, <2>5, <2>6
<1>15. CASE TrackOver
  BY <1>0, <1>15 DEF TrackOver, CheckNew, Goto, TypeOK
<1>16. CASE Finish
  BY <1>0, <1>16 DEF Finish, Exit, Goto, playerVars, TypeOK
<1> QED
  BY <1>1, <1>2, <1>3, <1>4, <1>5, <1>6, <1>7, <1>8, <1>9, <1>10, <1>11,
     <1>12, <1>13, <1>14, <1>15, <1>16 DEF PlayerStep

(* The steps outside start() keep it: loading a list, the boot, the other  *)
(* threads, a restart.                                                     *)
LEMMA OutsideInv ==
    ASSUME PlayerInv, TypeOK', Load \/ Boot \/ Others \/ PlayerRestart
    PROVE  PlayerInv'
<1> USE ThreadsDiffer, MaxFramesIsNumber
    DEF PlayerInv, PlayerTypeOK, StandInv, AtTrack, NeedsTrack, Playing,
        IteratorValid, HeaderInv, OpenInv, InTurn, file, conn, playerVars
<1>0. play_list \in Seq(Track) /\ play_list' \in Seq(Track)
  BY DEF TypeOK, List
<1>1. CASE BeginLoad /\ UNCHANGED playerVars
  BY <1>1 DEF BeginLoad, Goto, TypeOK
<1>2. CASE CopyTrack /\ UNCHANGED playerVars
  BY <1>2 DEF CopyTrack, Goto, TypeOK
<1>3. CASE /\ EndLoad
           /\ it' = 1
           /\ at' = IF at = "off" THEN "start" ELSE "loop"
           /\ UNCHANGED <<npfile, file, conn>>
  <2>1. Main \in DOMAIN pc
    BY DEF TypeOK, Thread
  <2>2. pc' = [pc EXCEPT ![Main] = IF play_list = <<>> THEN "exited" ELSE "play"]
        /\ play_list' = play_list
    BY <1>3 DEF EndLoad, Goto
  <2>3. pc'[Main] = "play" => play_list' # <<>>
    BY <2>1, <2>2
  <2> QED
    BY <1>0, <1>3, <2>3
<1>4. CASE Boot
  <2>1. pc[Main] # "play" /\ pc'[Main] # "play" /\ play_list' = play_list
    BY <1>4 DEF Boot, BootStep, BootStored, BootJingles, BootQuery,
                BootFetched, Goto, Thread, TypeOK
  <2> QED
    BY <1>4, <2>1 DEF Boot
<1>5. CASE Others
  <2>1. play_list' = play_list /\ (pc'[Main] = "play" <=> pc[Main] = "play")
    BY <1>5, OthersQuiet DEF Others
  <2> QED
    BY <1>5, <2>1 DEF Others
<1>6. CASE PlayerRestart
  <2>1. pc'[Main] = "boot"
    BY <1>6 DEF PlayerRestart, Restart, Thread
  <2>2. at' = "off" /\ link' = FALSE
    BY <1>6 DEF PlayerRestart
  <2>3. left' \in 0..MaxFrames /\ it' \in Nat
    BY <1>6 DEF PlayerRestart
  <2>4. PlayerTypeOK'
    BY <1>6, <2>3, Zenon DEF PlayerRestart
  <2> QED
    BY <2>1, <2>2, <2>4
<1> QED
  BY <1>1, <1>2, <1>3, <1>4, <1>5, <1>6 DEF Load

LEMMA PlayerNextInv ==
    StoreInv' /\ PlayerInv /\ [Next]_vars => PlayerInv'
<1> SUFFICES ASSUME StoreInv', PlayerInv, [Next]_vars PROVE PlayerInv'
  OBVIOUS
<1>1. TypeOK'
  BY DEF StoreInv
<1>2. CASE UNCHANGED vars
  BY <1>1, <1>2
     DEF PlayerInv, PlayerTypeOK, StandInv, AtTrack, NeedsTrack, IteratorValid,
         HeaderInv, OpenInv, InTurn, vars, storeVars, playerVars, file, conn
<1> QED
  BY <1>1, <1>2, PlayerStepInv, OutsideInv DEF Next

THEOREM PlayerInvariant == Spec => []PlayerInv
  BY PlayerKeepsStore, PlayerInitInv, PlayerNextInv, PTL DEF Spec

(* Every variable of the player and of the store keeps its values.         *)
THEOREM PlayerTypes == Spec => []PlayerTypeOK
<1>1. PlayerInv => PlayerTypeOK
  BY DEF PlayerInv
<1> QED
  BY <1>1, PlayerInvariant, PTL

(* The iterator that get_current_file, erase_idx and get_next_iterator use *)
(* unchecked points into the list.                                         *)
THEOREM PlayerIteratorValid == Spec => []IteratorValid
<1>1. PlayerInv => IteratorValid
  BY DEF PlayerInv
<1> QED
  BY <1>1, PlayerInvariant, PTL

(* The iterator moves on once per track, whatever the connection does.     *)
THEOREM PlayerInTurn == Spec => []InTurn
<1>1. PlayerInv => InTurn
  BY DEF PlayerInv
<1> QED
  BY <1>1, PlayerInvariant, PTL

(* No audio is sent over a connection before its header was accepted.      *)
THEOREM PlayerHeaderFirst == Spec => []HeaderFirst
<1>1. PlayerInv => HeaderFirst
  BY DEF PlayerInv, HeaderInv, HeaderFirst
<1> QED
  BY <1>1, PlayerInvariant, PTL
=============================================================================
