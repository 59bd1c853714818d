------------------------------- MODULE Rotator -------------------------------
(***************************************************************************)
(* The PHP class Rotator (src/rotator): TRotator_Ctrl composes a list of   *)
(* tracks by walking through folders in an order, or in the orders of a    *)
(* schedule of hours, under rules that keep the tracks of a singer and the *)
(* repetitions of a track apart.                                           *)
(*                                                                         *)
(* The object is constructed from an input array; the script then calls    *)
(* prepare and create_playlist as often as it likes.  The walk of          *)
(* create_playlist takes one step per record it looks at (Visit) and one   *)
(* per folder it leaves (Leave).  Folders are numbered in the order of     *)
(* their names; times are in units of which an hour has Hour.              *)
(***************************************************************************)
EXTENDS Integers, FiniteSets, Sequences, FiniteSetsExt

CONSTANTS
    Inputs,             \* the arrays and parameters a script may pass
    Hour,               \* seconds of an hour (HOUR_INTERVAL)
    DEFAULT_DAY,        \* hours of a day
    DefaultDuration,    \* DEFAULT_TRACK_DURATION
    Prefixes,           \* the pairs of titles of which one begins the other
    MaxCalls,           \* bound of the model: calls of the script
    MaxWeight           \* bound of the model: the weight of a folder stays
                        \* there, and its records are not added any more

MAX_INCREASE_COUNTER == 3
NoDuration == 0         \* a track without the field duration
End == -1               \* sSchedule.schedule.end()
Dangling == 0           \* an iterator of an order that has been replaced

(* A record of a folder; a script may leave any of its fields empty.       *)
Record == [singer : STRING, title : STRING, duration : Nat]

(* PHP arrays have finitely many records, with any keys.                   *)
IsArray(a) == IsFiniteSet(DOMAIN a) /\ DOMAIN a \subseteq Nat

(* A record of the history may lack its singer, its title or both.         *)
Complete(r) == {"singer", "title"} \subseteq DOMAIN r

ASSUME RotatorConstants ==
    /\ Hour \in Nat \ {0} /\ DEFAULT_DAY \in Nat \ {0}
    /\ DefaultDuration \in Nat \ {0}
    /\ MaxCalls \in Nat /\ MaxWeight \in Nat \ {0}
    /\ \A i \in Inputs :
        /\ IsArray(i.folders) /\ IsArray(i.order)
        /\ IsArray(i.schedule) /\ IsArray(i.history)
        /\ \A h \in DOMAIN i.schedule : IsArray(i.schedule[h])
        /\ \A k \in DOMAIN i.history : \A x \in {"singer", "title"} :
                x \in DOMAIN i.history[k] => i.history[k][x] \in STRING
        /\ \A f \in DOMAIN i.folders :
            /\ i.folders[f].service \in BOOLEAN
            /\ IsArray(i.folders[f].tracks)
            /\ \A k \in DOMAIN i.folders[f].tracks : i.folders[f].tracks[k] \in Record
        /\ i.max_tracks \in Int /\ i.singer_interval \in Int /\ i.track_interval \in Int

VARIABLES
    in,             \* Array, max_tracks, general_duration and the time of the call
    pc,             \* "idle", or "visit" and "leave" in analise_folders_by_order
    calls,          \* calls made so far
    m_error,        \* a set of "EXECUTOR", "TRACK"
    play_list,      \* the records of the list
    mHistory,       \* what was on the air and what was put into lists, by key
    folder,         \* index and statistics (the weight) of each folder
    progress,       \* m_increase_counter and m_previos_playlist_size
    folders_order,  \* the order in force
    ito,            \* the place in it, or Dangling
    to_next,        \* FALSE when the longest folder has been left behind
    set_start_folder,
    sch_it,         \* the hour of the schedule in force, or End
    timer,          \* m_remained_interval and m_playlist_duration
    complete,       \* m_playlist_construction_complete
    aired           \* auxiliary: all that was on the air or put into a list

walk == <<ito, to_next, set_start_folder>>
plan == <<folders_order, sch_it>>
vars == <<in, pc, calls, m_error, play_list, mHistory, folder, progress, walk,
          plan, timer, complete, aired>>

-----------------------------------------------------------------------------
(* The n-th number of a set, in the order of the map or array it indexes.  *)
Nth(S, n) == CHOOSE k \in S : Cardinality({j \in S : j < k}) = n - 1

(* The input.                                                              *)

(* A folder is a PHP array of records, with any keys; size counts them.    *)
ht(f) == in.folders[f].tracks
Size(f) == Cardinality(DOMAIN ht(f))

(* search_tracks: only folders with tracks are kept.                       *)
hfolders == {f \in DOMAIN in.folders : Size(f) > 0}

(* search_next_hash_index: only keys below the number of records are found.*)
SearchNext(f, index) ==
    LET found == {i \in DOMAIN ht(f) : index <= i /\ i < Size(f)}
    IN  IF found # {} THEN Min(found)
        ELSE IF index <= Size(f) THEN Size(f) ELSE index

(* Of an array of names those of known folders.                            *)
Known(names) ==
    LET found == {i \in DOMAIN names : names[i] \in hfolders}
    IN  [n \in 1..Cardinality(found) |-> names[Nth(found, n)]]

(* search_order: the names that are known, or all folders.                 *)
SearchOrder ==
    IF DOMAIN in.order = {}
    THEN [n \in 1..Cardinality(hfolders) |-> Nth(hfolders, n)]
    ELSE Known(in.order)

(* search_schedule: the hours that have an order left.                     *)
ScheduleOrder(h) == Known(in.schedule[h])
schedule == {h \in DOMAIN in.schedule : ScheduleOrder(h) # <<>>}
m_schedule == schedule # {}

m_order == folders_order # <<>>
m_special_conditions == in.max_tracks # 0 \/ m_schedule \/ in.general > 0
m_24hours == IF in.general > 0 THEN in.general ELSE Hour * DEFAULT_DAY

(* The folders whose lengths were taken into account: those of search_order*)
(* or, with a schedule, all of them.                                       *)
max_ht_size ==
    Max({0} \cup {Size(f) : f \in IF m_schedule THEN hfolders
                                  ELSE {SearchOrder[i] : i \in DOMAIN SearchOrder}})

(* The hours from h to the next one of the schedule.                       *)
Interval(h) ==
    LET later == {g \in schedule : g > h}
    IN  Hour * ((IF later # {} THEN Min(later) ELSE DEFAULT_DAY) - h)

-----------------------------------------------------------------------------
(* Rules and history.                                                      *)

(* is_equal, as the weight uses it: u is nothing, or t begins with it.     *)
IsEqual(t, u) == t = "" \/ u = "" \/ t = u \/ <<u, t>> \in Prefixes

(* calc_statistics_in_history: as often as it was on the air, with a singer*)
(* or without.                                                             *)
Calc(t) ==
    Cardinality({k \in DOMAIN in.history : /\ "title" \in DOMAIN in.history[k]
                                           /\ IsEqual(t, in.history[k].title)})

(* search_history: complete records are taken, under the keys they have.   *)
Taken == {k \in DOMAIN in.history : Complete(in.history[k])}
SearchHistory ==
    [k \in Taken |-> [singer |-> in.history[k].singer, title |-> in.history[k].title,
                      statistics |-> Calc(in.history[k].title)]]

(* A record of the history as it was on the air, under the rules or not.   *)
Airing(H, ruled) ==
    [singer |-> H.singer, title |-> H.title, statistics |-> H.statistics,
     ruled |-> ruled]

(* Records after the last one of the set S of keys.                        *)
Between(S) == Cardinality({k \in DOMAIN mHistory : k > Max(S)})
BySinger(s) == {k \in DOMAIN mHistory : mHistory[k].singer = s}
ByTitle(t) == {k \in DOMAIN mHistory : mHistory[k].title = t}

(* Mutant: the weight of the title is not compared.                        *)
TitleKeptAnyWeight(t, weight) ==
    ByTitle(t) # {} => Between(ByTitle(t)) >= in.track_interval

(* title_statistics_in_history                                             *)
TitleKept(t, weight) ==
    LET S == ByTitle(t)
    IN  S # {} => /\ Between(S) >= in.track_interval
                  /\ mHistory[Max(S)].statistics <= weight

(* Mutant: the last record by the singer is counted with those between.    *)
RulesKeptOffByOne(r, weight) ==
    LET S == BySinger(r.singer)
    IN  S # {} => /\ Between(S) + 1 >= in.singer_interval
                  /\ TitleKept(r.title, weight)

(* find_record_in_history: may the record r be put into the list?          *)
RulesKept(r, weight) ==
    LET S == BySinger(r.singer)
    IN  S # {} => /\ Between(S) >= in.singer_interval
                  /\ TitleKept(r.title, weight)

(* is_valid_type *)
Valid(r) == r.singer # "" /\ r.title # ""

(* What find_record_in_playlist answers for index i of folder f.           *)
Decide(f, i, weight) ==
    CASE i \notin DOMAIN ht(f) -> "nothing"
      [] i \in DOMAIN ht(f) /\ ~Valid(ht(f)[i]) -> "skip"
      [] OTHER -> IF in.folders[f].service \/ RulesKept(ht(f)[i], weight)
                  THEN "add" ELSE "skip"

-----------------------------------------------------------------------------
(* create_schedule_order: the next hour of the schedule, if there is one.  *)
NextHour(it) ==
    LET later == {g \in schedule : g > it}
    IN  IF it = End THEN Min(schedule)
        ELSE IF later # {} THEN Min(later) ELSE End

CreateScheduleOrder(it) ==
    LET h == NextHour(it)
    IN  /\ sch_it' = h
        /\ folders_order' = IF h = End THEN folders_order ELSE ScheduleOrder(h)

(* What set_interval leaves of the time that remains.                      *)
Remains(it, r) == IF NextHour(it) = End THEN r ELSE Interval(NextHour(it))

(* on_init, with search_schedule: the hour of now, if the schedule has one *)
(* that has begun, or the hour 0.                                          *)
CurrentHour(now) ==
    LET begun == {h \in schedule : h <= now \div Hour}
        h == IF begun = {} THEN 0 ELSE Max(begun)
    IN  IF h \in schedule THEN h ELSE End

Init ==
    /\ in \in Inputs
    /\ hfolders # {}
    /\ pc = "idle"
    /\ calls = 0
    /\ m_error = {}
    /\ play_list = <<>>
    /\ mHistory = SearchHistory
    /\ folder = [f \in hfolders |-> [index |-> SearchNext(f, 0), statistics |-> 1]]
    /\ progress = [counter |-> 0, size |-> 0]
    /\ ito = 1
    /\ to_next = TRUE
    /\ set_start_folder = FALSE
    /\ sch_it = IF m_schedule THEN CurrentHour(in.now) ELSE End
    /\ folders_order = IF sch_it # End THEN ScheduleOrder(sch_it)
                       ELSE IF m_schedule THEN <<>> ELSE SearchOrder
    /\ timer = IF sch_it = End THEN [remained |-> Hour, duration |-> 0]
               ELSE [remained |-> Interval(sch_it) - (in.now - Hour * sch_it),
                     duration |-> in.now]
    /\ complete = FALSE
    /\ aired = [n \in 1..Cardinality(Taken) |-> Airing(mHistory[Nth(Taken, n)], FALSE)]

(* prepare, called by the script or by the walk: the next hour of the      *)
(* schedule, or its first one if a list has been completed; then the       *)
(* folders begin anew.                                                     *)
DoPrepare ==
    LET it == IF complete THEN End ELSE sch_it
    IN  /\ IF m_schedule THEN CreateScheduleOrder(it)
           ELSE /\ folders_order' = IF complete THEN SearchOrder ELSE folders_order
                /\ UNCHANGED sch_it
        /\ timer' = [remained |-> IF m_schedule THEN Remains(it, timer.remained)
                                  ELSE timer.remained,
                     duration |-> IF complete THEN 0 ELSE timer.duration]
        /\ folder' = IF complete
                     THEN [f \in hfolders |-> [folder[f] EXCEPT !.index = SearchNext(f, 0)]]
                     ELSE folder
        /\ complete' = FALSE

Prepare ==
    /\ pc = "idle"
    /\ calls < MaxCalls
    /\ calls' = calls + 1
    /\ IF m_error = {} THEN DoPrepare ELSE UNCHANGED <<folder, plan, timer, complete>>
    /\ UNCHANGED <<in, pc, m_error, play_list, mHistory, progress, walk, aired>>

(* create_playlist: the list is cleared; after an error, or without an     *)
(* order, it stays empty.                                                  *)
CreatePlaylist ==
    /\ pc = "idle"
    /\ calls < MaxCalls
    /\ calls' = calls + 1
    /\ play_list' = <<>>
    /\ progress' = [counter |-> 0, size |-> 0]
    /\ pc' = IF m_error = {} /\ m_order THEN "visit" ELSE "idle"
    /\ complete' = (complete \/ (m_error = {} /\ ~m_order))
    /\ ito' = 1
    /\ to_next' = TRUE
    /\ set_start_folder' = FALSE
    /\ UNCHANGED <<in, m_error, mHistory, folder, plan, timer, aired>>

-----------------------------------------------------------------------------
(* Mutant: after a switch of the hour the walk goes on where it was.       *)
RestartForgotten(switch) == UNCHANGED set_start_folder

(* After a switch of the hour the walk is to begin anew.                   *)
Restart(switch) == set_start_folder' = (set_start_folder \/ switch)

(* add_to_playlist, with the history and the clock.  mHistory grows by the *)
(* key size(), whatever its keys are.  A new hour replaces the order, and  *)
(* ito is left behind in the old one.                                      *)
AddToPlaylist(f, r, weight) ==
    LET left == timer.remained -
                (IF r.duration = NoDuration THEN DefaultDuration ELSE r.duration)
        switch == m_schedule /\ left <= 0
        size == Cardinality(DOMAIN mHistory)
        H == [singer |-> r.singer, title |-> r.title, statistics |-> weight + 1]
    IN  /\ play_list' = Append(play_list, r)
        /\ mHistory' = [k \in DOMAIN mHistory \cup {size} |->
                            IF k = size THEN H ELSE mHistory[k]]
        /\ aired' = Append(aired, Airing(H, ~in.folders[f].service))
        /\ progress' = [progress EXCEPT !.counter = 0]
        /\ IF switch THEN CreateScheduleOrder(sch_it) ELSE UNCHANGED plan
        /\ ito' = IF switch /\ NextHour(sch_it) # End THEN Dangling ELSE ito
        /\ timer' = [remained |-> IF switch THEN Remains(sch_it, left)
                                  ELSE IF m_schedule THEN left ELSE timer.remained,
                     duration |-> timer.duration + r.duration]
        /\ Restart(switch)

(* global_analize at the end of the folder: its weight grows.              *)
Weight(f) ==
    IF folder[f].index < Size(f) \/ folder[f].statistics >= MaxWeight
    THEN folder[f].statistics ELSE folder[f].statistics + 1

(* global_analize: the record at the index of the folder, from the         *)
(* beginning again after the end; the walk stays in the folder as long as  *)
(* records are skipped.  The weights of a folder at the bound would not be *)
(* compared as they are in the program: nothing is added from it.          *)
Visit ==
    LET f == folders_order[ito]
        over == folder[f].index >= Size(f)
        i == IF over THEN SearchNext(f, 0) ELSE folder[f].index
        weight == Weight(f)
        decision == Decide(f, i, weight)
        next == SearchNext(f, i + 1)
    IN  /\ pc = "visit"
        /\ folder' = [folder EXCEPT ![f] = [index |-> next, statistics |-> weight]]
        /\ to_next' = IF over THEN folder[f].index < max_ht_size ELSE to_next
        /\ pc' = IF decision = "skip" /\ next < Size(f) THEN "visit" ELSE "leave"
        /\ IF decision = "add" THEN weight < MaxWeight /\ AddToPlaylist(f, ht(f)[i], weight)
           ELSE UNCHANGED <<play_list, mHistory, progress, plan, timer, ito,
                            set_start_folder, aired>>
        /\ UNCHANGED <<in, calls, m_error, complete>>

-----------------------------------------------------------------------------
playlist_construction_completed ==
    \/ in.max_tracks > 0 /\ Len(play_list) >= in.max_tracks
    \/ (m_schedule \/ in.general > 0) /\ timer.duration >= m_24hours

Stop ==
    /\ pc' = "idle"
    /\ complete' = TRUE
    /\ UNCHANGED <<in, calls, play_list, mHistory, folder, plan, timer, walk, aired>>

(* The list is long enough. *)
Completed ==
    /\ pc = "leave"
    /\ playlist_construction_completed
    /\ Stop
    /\ UNCHANGED <<m_error, progress>>

(* Mutant: the end of the order is seen one folder too late.               *)
UpperBoundPastEnd ==
    IF ito = Dangling THEN DOMAIN folders_order
    ELSE {IF ito <= Len(folders_order) THEN ito + 1 ELSE 1}

(* upper_bound of the key at ito, or the first folder behind the last      *)
(* one.  What a dangling iterator reads is undefined: any folder.          *)
UpperBound ==
    IF ito = Dangling THEN DOMAIN folders_order
    ELSE {IF ito < Len(folders_order) THEN ito + 1 ELSE 1}

(* To the next folder of the order, or to its first one.                   *)
NextFolder ==
    /\ pc = "leave"
    /\ ~playlist_construction_completed
    /\ to_next
    /\ pc' = "visit"
    /\ \E after \in UpperBound : ito' = IF set_start_folder THEN 1 ELSE after
    /\ set_start_folder' = FALSE
    /\ UNCHANGED <<in, calls, m_error, play_list, mHistory, folder, progress,
                   to_next, plan, timer, complete, aired>>

(* playlist_size_increase: has the list grown since the longest folder was *)
(* left behind before?                                                     *)
Grown == Len(play_list) > progress.size

(* Mutant: the attempts without a new track are not counted.               *)
AgainUncounted ==
    /\ pc = "leave"
    /\ ~playlist_construction_completed /\ ~to_next /\ m_special_conditions
    /\ progress' = IF Grown THEN [counter |-> 0, size |-> Len(play_list)] ELSE progress
    /\ pc' = "visit"
    /\ DoPrepare
    /\ ito' = 1 /\ to_next' = TRUE /\ set_start_folder' = FALSE
    /\ UNCHANGED <<in, calls, m_error, play_list, mHistory, aired>>

(* The longest folder is left behind: the folders once more, with the next *)
(* hour of the schedule.                                                   *)
Again ==
    /\ pc = "leave"
    /\ ~playlist_construction_completed /\ ~to_next /\ m_special_conditions
    /\ Grown \/ progress.counter < MAX_INCREASE_COUNTER
    /\ progress' = IF Grown THEN [counter |-> 0, size |-> Len(play_list)]
                   ELSE [progress EXCEPT !.counter = @ + 1]
    /\ pc' = "visit"
    /\ DoPrepare
    /\ ito' = 1 /\ to_next' = TRUE /\ set_start_folder' = FALSE
    /\ UNCHANGED <<in, calls, m_error, play_list, mHistory, aired>>

(* ... or the walk gives up, because there is no reason to go on or too    *)
(* many attempts have brought nothing.                                     *)
GiveUp ==
    /\ pc = "leave"
    /\ ~playlist_construction_completed /\ ~to_next
    /\ ~m_special_conditions \/ (~Grown /\ progress.counter >= MAX_INCREASE_COUNTER)
    /\ LET stuck == m_special_conditions
       IN  /\ progress' = IF stuck THEN [progress EXCEPT !.counter = @ + 1] ELSE progress
           /\ m_error' = IF ~stuck THEN m_error ELSE
                (IF in.singer_interval >= Len(play_list) THEN {"EXECUTOR"} ELSE m_error)
                \cup (IF in.track_interval >= Len(play_list) THEN {"TRACK"} ELSE {})
    /\ Stop

Walk == Visit \/ Completed \/ NextFolder \/ Again \/ GiveUp
Next == Prepare \/ CreatePlaylist \/ Walk

Spec == Init /\ [][Next]_vars

(* A call of create_playlist goes on until it returns.                     *)
FairSpec == Spec /\ WF_vars(Walk)

-----------------------------------------------------------------------------
(* The walk stands at a folder of the order in force, or its iterator was  *)
(* left behind in one that has been replaced and the walk is to begin anew;*)
(* every folder is at a record or behind its end, and the list stays within*)
(* the length the script asked for.                                        *)
TypeOK ==
    /\ in \in Inputs
    /\ pc \in {"idle", "visit", "leave"}
    /\ calls \in 0..MaxCalls
    /\ m_error \subseteq {"EXECUTOR", "TRACK"}
    /\ \A i \in DOMAIN play_list : play_list[i] \in Record
    /\ in.max_tracks > 0 => Len(play_list) <= in.max_tracks
    /\ \A f \in hfolders : /\ folder[f].index \in 0..Size(f) + 1
                           /\ folder[f].statistics \in 1..MaxWeight
    /\ progress.counter \in 0..MAX_INCREASE_COUNTER + 1
    /\ pc # "idle" => \/ ito \in DOMAIN folders_order
                      \/ pc = "leave" /\ ito = Dangling /\ set_start_folder
    /\ \A i \in DOMAIN folders_order : folders_order[i] \in hfolders
    /\ sch_it \in schedule \cup {End}
    /\ to_next \in BOOLEAN /\ set_start_folder \in BOOLEAN /\ complete \in BOOLEAN

(* After a switch of the hour the walk begins with the first folder of the *)
(* new order, as rotator.cpp:32 says of set_start_folder: what the iterator*)
(* of the replaced order is read as (rotator_ctrl.cpp:1516) decides nothing*)
NewHourFromStart ==
    [][ito = Dangling /\ pc = "leave" /\ pc' = "visit" => ito' = 1]_vars

(* The keys of what was taken from the history are 0, 1, ...: no record    *)
(* before or between them was incomplete.                                  *)
Gapless == Taken = 0..Cardinality(Taken) - 1

(* The rules, which the comments of rotator_ctrl.cpp state as "a singer, a *)
(* track may be on the air after X tracks": whatever the folders, passes   *)
(* and lists, a track that is subject to the rules is preceded at the      *)
(* required distance by its singer and by itself, unless an incomplete     *)
(* record left a gap in the history, into which mHistory[size()] writes.   *)
RulesHold ==
    Gapless =>
        \A j \in DOMAIN aired : aired[j].ruled =>
            \A i \in 1..j - 1 : aired[i].singer = aired[j].singer =>
                /\ j - i - 1 >= in.singer_interval
                /\ aired[i].title = aired[j].title => j - i - 1 >= in.track_interval

(* A track returns only after its folder has begun anew as often as the    *)
(* title was on the air: the statistics of its airings rise, also when it  *)
(* lies in two folders or was in the history.  They are those of a title   *)
(* and rise as long as it is not on the air by another singer or without   *)
(* rules in between.                                                       *)
WeightsRise ==
    Gapless =>
        \A j \in DOMAIN aired : aired[j].ruled =>
            \A i \in 1..j - 1 :
                /\ aired[i].singer = aired[j].singer /\ aired[i].title = aired[j].title
                /\ \A k \in i + 1..j - 1 : aired[k].title = aired[j].title =>
                        \/ k <= Cardinality(Taken)
                        \/ aired[k].ruled /\ aired[k].singer = aired[j].singer
                => aired[i].statistics < aired[j].statistics

(* create_playlist returns: when the rules leave nothing to put into the   *)
(* list, the attempts come to an end.                                      *)
Returns == (pc # "idle") ~> (pc = "idle")
=============================================================================
