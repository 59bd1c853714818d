--------------------------- MODULE Rotator_proofs ---------------------------
(***************************************************************************)
(* Proofs about the rotator, for all folders, orders, schedules, histories *)
(* and any number of calls.                                                *)
(***************************************************************************)
EXTENDS Rotator, NumberLemmas

-----------------------------------------------------------------------------
(* Lemmas about the input.                                                 *)

LEMMA NthIsMember ==
    ASSUME NEW S \in SUBSET Nat, IsFiniteSet(S), NEW n \in 1..Cardinality(S)
    PROVE  Nth(S, n) \in S /\ Cardinality({j \in S : j < Nth(S, n)}) = n - 1
<1> DEFINE P(k) == k \in S /\ Cardinality({j \in S : j < k}) = n - 1
<1>1. PICK k : P(k)
  BY BelowCounts
<1>2. Nth(S, n) = CHOOSE z : P(z)
  BY DEF Nth
<1>3. P(Nth(S, n))
  BY <1>1, <1>2, Zenon
<1> QED
  BY <1>3

(* In a list of keys without gaps the n-th key is n - 1.                   *)
LEMMA NthOfList ==
    ASSUME NEW m \in Nat, NEW n \in 1..m
    PROVE  Nth(0..m - 1, n) = n - 1
<1> DEFINE S == 0..m - 1
           k == Nth(S, n)
<1>1. IsFiniteSet(S) /\ Cardinality(S) = m
  <2>1. 0 \in Int /\ m - 1 \in Int /\ (0 > m - 1 => m = 0) /\ m - 1 - 0 + 1 = m
    OBVIOUS
  <2> QED
    BY <2>1, FS_Interval
<1>2. S \in SUBSET Nat
  OBVIOUS
<1>3. k \in S /\ Cardinality({j \in S : j < k}) = n - 1
  <2> HIDE DEF S
  <2> QED
    BY <1>1, <1>2, NthIsMember
<1>4. {j \in S : j < k} = 0..k - 1
  <2> HIDE DEF k
  <2> QED
    BY <1>3
<1>5. Cardinality(0..k - 1) = k
  <2> HIDE DEF k
  <2>1. 0 \in Int /\ k - 1 \in Int /\ (0 > k - 1 => k = 0) /\ k - 1 - 0 + 1 = k
    BY <1>3
  <2> QED
    BY <2>1, FS_Interval
<1> QED
  BY <1>3, <1>4, <1>5

(* The folders are finitely many, and so are their records.                *)
LEMMA InputFacts ==
    ASSUME in \in Inputs
    PROVE  /\ hfolders \in SUBSET Nat /\ IsFiniteSet(hfolders)
           /\ schedule \in SUBSET Nat
           /\ \A f \in hfolders : /\ DOMAIN ht(f) \in SUBSET Nat
                                  /\ Size(f) \in Nat
                                  /\ \A k \in DOMAIN ht(f) : ht(f)[k] \in Record
           /\ in.max_tracks \in Int
           /\ in.singer_interval \in Int /\ in.track_interval \in Int
<1>1. /\ IsArray(in.folders) /\ IsArray(in.schedule)
      /\ \A f \in DOMAIN in.folders :
            /\ IsArray(in.folders[f].tracks)
            /\ \A k \in DOMAIN in.folders[f].tracks : in.folders[f].tracks[k] \in Record
      /\ in.max_tracks \in Int
      /\ in.singer_interval \in Int /\ in.track_interval \in Int
  BY RotatorConstants
<1>2. hfolders \in SUBSET DOMAIN in.folders
  BY DEF hfolders
<1>3. hfolders \in SUBSET Nat /\ IsFiniteSet(hfolders)
  BY <1>1, <1>2, FS_Subset DEF IsArray
<1>4. schedule \in SUBSET Nat
  BY <1>1 DEF schedule, IsArray
<1>5. \A f \in hfolders : /\ DOMAIN ht(f) \in SUBSET Nat
                          /\ IsFiniteSet(DOMAIN ht(f))
                          /\ \A k \in DOMAIN ht(f) : ht(f)[k] \in Record
  BY <1>1, <1>2 DEF IsArray, ht
<1>6. \A f \in hfolders : Size(f) \in Nat
  BY <1>5, FS_CardinalityType DEF Size
<1> QED
  BY <1>1, <1>3, <1>4, <1>5, <1>6

(* search_next_hash_index does not go further than behind the end.         *)
LEMMA SearchNextBounds ==
    ASSUME in \in Inputs, NEW f \in hfolders,
           NEW index \in 0..Size(f) + 1
    PROVE  /\ SearchNext(f, index) \in 0..Size(f) + 1
           /\ index =< Size(f) => SearchNext(f, index) =< Size(f)
           /\ SearchNext(f, index) < Size(f) => SearchNext(f, index) \in DOMAIN ht(f)
<1> DEFINE found == {i \in DOMAIN ht(f) : index <= i /\ i < Size(f)}
<1>1. DOMAIN ht(f) \in SUBSET Nat /\ Size(f) \in Nat
  BY InputFacts
<1>2. found \in SUBSET Nat
  BY <1>1
<1>3. found # {} => Min(found) \in found
  BY <1>2, MinIsLeast
<1>4. SearchNext(f, index) = IF found # {} THEN Min(found)
                             ELSE IF index <= Size(f) THEN Size(f) ELSE index
  BY DEF SearchNext
<1> HIDE DEF found
<1>5. CASE found # {}
  <2>1. Min(found) \in DOMAIN ht(f) /\ Min(found) < Size(f)
    BY <1>3, <1>5 DEF found
  <2> QED
    BY <1>1, <1>4, <1>5, <2>1
<1>6. CASE found = {}
  BY <1>1, <1>4, <1>6
<1> QED
  BY <1>5, <1>6

(* An order is a list of folders that have tracks.                         *)
LEMMA KnownType ==
    ASSUME in \in Inputs, NEW names, IsArray(names)
    PROVE  Known(names) \in Seq(hfolders)
<1> DEFINE found == {i \in DOMAIN names : names[i] \in hfolders}
<1>1. found \in SUBSET Nat /\ IsFiniteSet(found)
  BY FS_Subset DEF IsArray
<1>2. Cardinality(found) \in Nat
  BY <1>1, FS_CardinalityType
<1>3. \A n \in 1..Cardinality(found) : Nth(found, n) \in found
  <2> HIDE DEF found
  <2> QED
    BY <1>1, NthIsMember
<1>4. \A n \in 1..Cardinality(found) : names[Nth(found, n)] \in hfolders
  BY <1>3
<1>5. Known(names) = [n \in 1..Cardinality(found) |-> names[Nth(found, n)]]
  BY DEF Known
<1> HIDE DEF found
<1> QED
  BY <1>2, <1>4, <1>5

LEMMA OrdersType ==
    ASSUME in \in Inputs
    PROVE  /\ SearchOrder \in Seq(hfolders)
           /\ \A h \in schedule : ScheduleOrder(h) \in Seq(hfolders) /\ ScheduleOrder(h) # <<>>
<1>1. ASSUME DOMAIN in.order = {} PROVE SearchOrder \in Seq(hfolders)
  <2>1. hfolders \in SUBSET Nat /\ IsFiniteSet(hfolders)
    BY InputFacts
  <2>2. Cardinality(hfolders) \in Nat
    BY <2>1, FS_CardinalityType
  <2>3. \A n \in 1..Cardinality(hfolders) : Nth(hfolders, n) \in hfolders
    BY <2>1, NthIsMember
  <2>4. SearchOrder = [n \in 1..Cardinality(hfolders) |-> Nth(hfolders, n)]
    BY <1>1 DEF SearchOrder
  <2> QED
    BY <2>2, <2>3, <2>4
<1>2. ASSUME DOMAIN in.order # {} PROVE SearchOrder \in Seq(hfolders)
  <2>1. IsArray(in.order)
    BY RotatorConstants
  <2> QED
    BY <1>2, <2>1, KnownType DEF SearchOrder
<1>3. \A h \in schedule : h \in DOMAIN in.schedule /\ ScheduleOrder(h) # <<>>
  BY DEF schedule
<1>4. \A h \in DOMAIN in.schedule : IsArray(in.schedule[h])
  BY RotatorConstants
<1>5. \A h \in schedule : ScheduleOrder(h) \in Seq(hfolders)
  BY <1>3, <1>4, KnownType DEF ScheduleOrder
<1>6. SearchOrder \in Seq(hfolders)
  BY <1>1, <1>2
<1> QED
  BY <1>3, <1>5, <1>6

(* The input is the same in all states of a behaviour.                     *)
LEMMA InputIsKept ==
    ASSUME in' = in
    PROVE  /\ hfolders' = hfolders /\ schedule' = schedule
           /\ m_schedule' = m_schedule /\ SearchOrder' = SearchOrder
           /\ \A f \in hfolders : Size(f)' = Size(f)
<1>1. hfolders' = hfolders
  BY DEF hfolders, Size, ht
<1>2. \A names : Known(names)' = Known(names)
  BY <1>1 DEF Known
<1>3. \A h : ScheduleOrder(h)' = ScheduleOrder(h)
  BY <1>2 DEF ScheduleOrder, Known, hfolders, Size, ht
<1>4. schedule' = schedule
  BY <1>3 DEF schedule
<1>5. SearchOrder' = SearchOrder
  BY <1>1, <1>2 DEF SearchOrder, Known, hfolders, Size, ht
<1> QED
  BY <1>1, <1>4, <1>5 DEF m_schedule, Size, ht

-----------------------------------------------------------------------------
(* The walk is in an order that is not empty, and the list is not full yet *)
(* when a record is visited.  Without a schedule the order is that of      *)
(* search_order all the time.                                              *)
WalkInv ==
    /\ play_list \in Seq(Record)
    /\ progress \in [counter : Nat, size : Nat]
    /\ ito \in Nat
    /\ folder \in [hfolders -> [index : Nat, statistics : 1..MaxWeight]]
    /\ folders_order \in Seq(hfolders)
    /\ ~m_schedule => folders_order = SearchOrder
    /\ pc # "idle" => /\ folders_order # <<>>
                      /\ progress.counter <= MAX_INCREASE_COUNTER
    /\ pc = "visit" /\ in.max_tracks > 0 => Len(play_list) < in.max_tracks

WalkTypes == TypeOK /\ WalkInv

LEMMA InitTypes == Init => WalkTypes
<1> SUFFICES ASSUME Init PROVE WalkTypes
  OBVIOUS
<1> USE DEF Init
<1>1. in \in Inputs
  OBVIOUS
<1>2. \A f \in hfolders : SearchNext(f, 0) \in 0..Size(f)
  <2> SUFFICES ASSUME NEW f \in hfolders PROVE SearchNext(f, 0) \in 0..Size(f)
    OBVIOUS
  <2>1. Size(f) \in Nat
    BY <1>1, InputFacts
  <2>2. 0 \in 0..Size(f) + 1
    BY <2>1
  <2> QED
    BY <1>1, <2>1, <2>2, SearchNextBounds
<1>3. \A f \in hfolders : Size(f) \in Nat
  BY <1>1, InputFacts
<1>4. MaxWeight \in Nat \ {0} /\ MaxCalls \in Nat
  BY RotatorConstants
<1>5. folder \in [hfolders -> [index : Nat, statistics : 1..MaxWeight]]
  BY <1>2, <1>3, <1>4
<1>6. \A f \in hfolders : /\ folder[f].index \in 0..Size(f) + 1
                          /\ folder[f].statistics \in 1..MaxWeight
  BY <1>2, <1>3, <1>4
<1>7. sch_it \in schedule \cup {End}
  BY DEF CurrentHour
<1>8. folders_order \in Seq(hfolders) /\ (~m_schedule => folders_order = SearchOrder)
  BY <1>1, <1>7, OrdersType DEF m_schedule
<1>9. \A i \in DOMAIN folders_order : folders_order[i] \in hfolders
  BY <1>8
<1>10. TypeOK
  <2>1. in.max_tracks \in Int
    BY <1>1, InputFacts
  <2>2. /\ DOMAIN play_list = {} /\ Len(play_list) = 0
        /\ progress.counter \in 0..MAX_INCREASE_COUNTER + 1
        /\ calls \in 0..MaxCalls
    BY <1>4 DEF MAX_INCREASE_COUNTER
  <2>3. /\ pc = "idle" /\ m_error = {} /\ to_next \in BOOLEAN
        /\ set_start_folder \in BOOLEAN /\ complete \in BOOLEAN
    OBVIOUS
  <2> QED
    BY <1>1, <1>6, <1>7, <1>9, <2>1, <2>2, <2>3 DEF TypeOK
<1>11. WalkInv
  BY <1>5, <1>8 DEF WalkInv, MAX_INCREASE_COUNTER
<1> QED
  BY <1>10, <1>11 DEF WalkTypes

(* create_schedule_order keeps an order of known folders that is not empty.*)
LEMMA NextHourType ==
    ASSUME in \in Inputs, m_schedule, NEW it
    PROVE  NextHour(it) \in schedule \cup {End}
<1>1. schedule \in SUBSET Nat /\ schedule # {}
  BY InputFacts DEF m_schedule
<1>2. Min(schedule) \in schedule
  BY <1>1, MinIsLeast
<1> DEFINE later == {g \in schedule : g > it}
<1>3. later \in SUBSET Nat
  BY <1>1
<1>4. later # {} => Min(later) \in later
  BY <1>3, MinIsLeast
<1>5. NextHour(it) = IF it = End THEN Min(schedule)
                     ELSE IF later # {} THEN Min(later) ELSE End
  BY DEF NextHour
<1> QED
  BY <1>2, <1>4, <1>5

LEMMA ScheduleKeepsOrder ==
    ASSUME in \in Inputs, m_schedule, NEW it, CreateScheduleOrder(it),
           folders_order \in Seq(hfolders)
    PROVE  /\ sch_it' \in schedule \cup {End}
           /\ folders_order' \in Seq(hfolders)
           /\ folders_order # <<>> => folders_order' # <<>>
<1> DEFINE h == NextHour(it)
<1>1. h \in schedule \cup {End}
  BY NextHourType
<1>2. sch_it' = h /\ folders_order' = IF h = End THEN folders_order ELSE ScheduleOrder(h)
  BY DEF CreateScheduleOrder
<1>3. \A g \in schedule : ScheduleOrder(g) \in Seq(hfolders) /\ ScheduleOrder(g) # <<>>
  BY OrdersType
<1> HIDE DEF h
<1> QED
  BY <1>1, <1>2, <1>3

LEMMA PrepareKeepsOrder ==
    ASSUME WalkTypes, DoPrepare
    PROVE  /\ sch_it' \in schedule \cup {End} /\ complete' \in BOOLEAN
           /\ folders_order' \in Seq(hfolders)
           /\ folders_order # <<>> => folders_order' # <<>>
           /\ ~m_schedule => folders_order' = SearchOrder
           /\ folder' \in [hfolders -> [index : Nat, statistics : 1..MaxWeight]]
           /\ \A f \in hfolders : /\ folder'[f].index \in 0..Size(f) + 1
                                  /\ folder'[f].statistics \in 1..MaxWeight
<1> USE DEF WalkTypes
<1>1. in \in Inputs /\ sch_it \in schedule \cup {End} /\ complete \in BOOLEAN
  BY DEF TypeOK
<1>2. folders_order \in Seq(hfolders) /\ (~m_schedule => folders_order = SearchOrder)
  BY DEF WalkInv
<1>3. complete' = FALSE
  BY DEF DoPrepare
<1>4. /\ sch_it' \in schedule \cup {End} /\ folders_order' \in Seq(hfolders)
      /\ folders_order # <<>> => folders_order' # <<>>
      /\ ~m_schedule => folders_order' = SearchOrder
  <2>1. CASE m_schedule
    BY <1>1, <1>2, <2>1, ScheduleKeepsOrder DEF DoPrepare
  <2>2. CASE ~m_schedule
    <3>1. sch_it' = sch_it /\ folders_order' = SearchOrder
      BY <1>2, <2>2 DEF DoPrepare
    <3> QED
      BY <1>1, <1>2, <2>2, <3>1
  <2> QED
    BY <2>1, <2>2
<1>5. \A f \in hfolders : SearchNext(f, 0) \in 0..Size(f) /\ Size(f) \in Nat
  <2> SUFFICES ASSUME NEW f \in hfolders
               PROVE  SearchNext(f, 0) \in 0..Size(f) /\ Size(f) \in Nat
    OBVIOUS
  <2>1. Size(f) \in Nat
    BY <1>1, InputFacts
  <2>2. 0 \in 0..Size(f) + 1
    BY <2>1
  <2> QED
    BY <1>1, <2>1, <2>2, SearchNextBounds
<1>6. /\ folder \in [hfolders -> [index : Nat, statistics : 1..MaxWeight]]
      /\ \A f \in hfolders : /\ folder[f].index \in 0..Size(f) + 1
                             /\ folder[f].statistics \in 1..MaxWeight
  BY DEF TypeOK, WalkInv
<1>7. folder' = IF complete
                THEN [f \in hfolders |-> [folder[f] EXCEPT !.index = SearchNext(f, 0)]]
                ELSE folder
  BY DEF DoPrepare
<1>8. CASE complete
  <2>1. folder' = [f \in hfolders |-> [folder[f] EXCEPT !.index = SearchNext(f, 0)]]
    BY <1>7, <1>8
  <2>2. \A f \in hfolders :
           /\ folder'[f] \in [index : Nat, statistics : 1..MaxWeight]
           /\ folder'[f].index = SearchNext(f, 0)
    BY <1>5, <1>6, <2>1
  <2>3. folder' \in [hfolders -> [index : Nat, statistics : 1..MaxWeight]]
    BY <2>1, <2>2
  <2>4. \A f \in hfolders : /\ folder'[f].index \in 0..Size(f) + 1
                            /\ folder'[f].statistics \in 1..MaxWeight
    BY <1>5, <2>2
  <2> QED
    BY <1>3, <1>4, <2>3, <2>4
<1>9. CASE ~complete
  BY <1>3, <1>4, <1>6, <1>7, <1>9
<1> QED
  BY <1>1, <1>8, <1>9

(* A record is added only if its folder has it and, in a folder that is no *)
(* service folder, the rules allow it.                                     *)
LEMMA DecideAdds ==
    ASSUME NEW f, NEW i, NEW weight, Decide(f, i, weight) = "add"
    PROVE  /\ i \in DOMAIN ht(f)
           /\ in.folders[f].service \/ RulesKept(ht(f)[i], weight)
  BY DEF Decide

-----------------------------------------------------------------------------
(* A visit moves the folder on, at most behind its end, and adds at most   *)
(* one record to a list that is not full.                                  *)
LEMMA VisitKeepsTypes == WalkTypes /\ Visit => WalkTypes'
<1> SUFFICES ASSUME WalkTypes, Visit PROVE WalkTypes'
  OBVIOUS
<1> DEFINE f == folders_order[ito]
           over == folder[f].index >= Size(f)
           i == IF over THEN SearchNext(f, 0) ELSE folder[f].index
           weight == Weight(f)
           next == SearchNext(f, i + 1)
           add == Decide(f, i, weight) = "add"
<1>1. /\ TypeOK /\ WalkInv /\ in \in Inputs
      /\ pc = "visit" /\ in' = in /\ calls' = calls /\ m_error' = m_error
      /\ complete' = complete
      /\ pc' \in {"visit", "leave"} /\ (pc' = "visit" => ~add)
  BY DEF WalkTypes, TypeOK, Visit
<1>2. /\ folder' = [folder EXCEPT ![f] = [index |-> next, statistics |-> weight]]
      /\ to_next' = IF over THEN folder[f].index < max_ht_size ELSE to_next
      /\ IF add THEN AddToPlaylist(f, ht(f)[i], weight)
         ELSE UNCHANGED <<play_list, mHistory, progress, plan, timer, ito,
                          set_start_folder, aired>>
  BY DEF Visit
<1>3. f \in hfolders /\ Size(f) \in Nat
  <2>1. f \in hfolders
    BY <1>1 DEF TypeOK
  <2> QED
    BY <1>1, <2>1, InputFacts
<1>4. /\ folder[f].index \in 0..Size(f) + 1 /\ folder[f].statistics \in 1..MaxWeight
      /\ MaxWeight \in Nat
  BY <1>1, <1>3, RotatorConstants DEF TypeOK
<1>5. weight \in 1..MaxWeight
  BY <1>4 DEF Weight
<1>6. i \in 0..Size(f)
  <2>1. 0 \in 0..Size(f) + 1 /\ 0 <= Size(f)
    BY <1>3
  <2>2. SearchNext(f, 0) \in 0..Size(f)
    BY <1>1, <1>3, <2>1, SearchNextBounds
  <2> HIDE DEF f
  <2> QED
    BY <1>3, <1>4, <2>2
<1>7. next \in 0..Size(f) + 1
  <2> HIDE DEF f, i
  <2>1. i + 1 \in 0..Size(f) + 1
    BY <1>3, <1>6
  <2> QED
    BY <1>1, <1>3, <2>1, SearchNextBounds
<1>8. to_next' \in BOOLEAN
  <2>1. (folder[f].index < max_ht_size) \in BOOLEAN /\ to_next \in BOOLEAN
    BY <1>1 DEF TypeOK
  <2> QED
    BY <1>2, <2>1
<1> HIDE DEF f, over, i, weight, next
<1>9. /\ folder' \in [hfolders -> [index : Nat, statistics : 1..MaxWeight]]
      /\ \A g \in hfolders : /\ folder'[g].index \in 0..Size(g) + 1
                             /\ folder'[g].statistics \in 1..MaxWeight
  <2>1. folder \in [hfolders -> [index : Nat, statistics : 1..MaxWeight]]
    BY <1>1 DEF WalkInv
  <2>2. [index |-> next, statistics |-> weight] \in [index : Nat, statistics : 1..MaxWeight]
    BY <1>3, <1>5, <1>7
  <2>3. folder' \in [hfolders -> [index : Nat, statistics : 1..MaxWeight]]
    BY <1>2, <2>1, <2>2
  <2>4. \A g \in hfolders : folder'[g] = IF g = f THEN [index |-> next, statistics |-> weight]
                                                  ELSE folder[g]
    BY <1>2, <2>1
  <2> QED
    BY <1>1, <1>5, <1>7, <2>3, <2>4 DEF TypeOK
<1>10. /\ play_list' \in Seq(Record)
       /\ in.max_tracks > 0 => Len(play_list') =< in.max_tracks
       /\ pc' = "visit" => Len(play_list') = Len(play_list)
       /\ progress' \in [counter : Nat, size : Nat]
       /\ progress'.counter \in 0..MAX_INCREASE_COUNTER
       /\ sch_it' \in schedule \cup {End} /\ set_start_folder' \in BOOLEAN
       /\ folders_order' \in Seq(hfolders) /\ folders_order' # <<>>
       /\ ~m_schedule => folders_order' = SearchOrder
       /\ \/ ito' = ito /\ folders_order' = folders_order
          \/ ito' = Dangling /\ set_start_folder' /\ pc' = "leave"
  <2>1. /\ play_list \in Seq(Record) /\ progress \in [counter : Nat, size : Nat]
        /\ progress.counter \in 0..MAX_INCREASE_COUNTER
        /\ folders_order \in Seq(hfolders) /\ folders_order # <<>>
        /\ ~m_schedule => folders_order = SearchOrder
        /\ in.max_tracks > 0 => Len(play_list) < in.max_tracks
        /\ sch_it \in schedule \cup {End} /\ set_start_folder \in BOOLEAN
        /\ in.max_tracks \in Int
    <3>1. in.max_tracks \in Int
      BY <1>1, InputFacts
    <3> QED
      BY <1>1, <3>1 DEF TypeOK, WalkInv, MAX_INCREASE_COUNTER
  <2>2. CASE ~add
    BY <1>1, <1>2, <2>1, <2>2 DEF plan
  <2>3. CASE add
    <3>1. AddToPlaylist(f, ht(f)[i], weight) /\ pc' = "leave"
      BY <1>1, <1>2, <2>3
    <3>2. ht(f)[i] \in Record
      BY <1>1, <1>3, <2>3, DecideAdds, InputFacts
    <3>3. play_list' = Append(play_list, ht(f)[i]) /\ progress' = [progress EXCEPT !.counter = 0]
      BY <3>1 DEF AddToPlaylist
    <3>4. play_list' \in Seq(Record) /\ Len(play_list') = Len(play_list) + 1
      BY <2>1, <3>2, <3>3
    <3>5. progress' \in [counter : Nat, size : Nat] /\ progress'.counter = 0
      BY <2>1, <3>3
    <3>6. /\ \/ m_schedule /\ CreateScheduleOrder(sch_it)
             \/ UNCHANGED plan
          /\ \/ ito' = ito /\ folders_order' = folders_order
             \/ ito' = Dangling /\ set_start_folder'
      <4> DEFINE left == timer.remained - (IF ht(f)[i].duration = NoDuration
                                           THEN DefaultDuration ELSE ht(f)[i].duration)
                 switch == m_schedule /\ left <= 0
      <4>1. /\ IF switch THEN CreateScheduleOrder(sch_it) ELSE UNCHANGED plan
            /\ ito' = IF switch /\ NextHour(sch_it) # End THEN Dangling ELSE ito
            /\ Restart(switch)
        BY <3>1 DEF AddToPlaylist
      <4>2. switch => m_schedule
        OBVIOUS
      <4> HIDE DEF switch
      <4>3. CASE ~switch
        BY <4>1, <4>3 DEF plan
      <4>4. CASE switch /\ NextHour(sch_it) = End
        BY <4>1, <4>2, <4>4 DEF CreateScheduleOrder
      <4>5. CASE switch /\ NextHour(sch_it) # End
        BY <4>1, <4>2, <4>5 DEF Restart
      <4> QED
        BY <4>3, <4>4, <4>5
    <3>7. set_start_folder' \in BOOLEAN
      BY <2>1, <3>1, Zenon DEF AddToPlaylist, Restart
    <3>8. /\ sch_it' \in schedule \cup {End}
          /\ folders_order' \in Seq(hfolders) /\ folders_order' # <<>>
          /\ ~m_schedule => folders_order' = SearchOrder
      <4>1. CASE m_schedule /\ CreateScheduleOrder(sch_it)
        BY <1>1, <2>1, <4>1, ScheduleKeepsOrder
      <4>2. CASE UNCHANGED plan
        BY <2>1, <4>2 DEF plan
      <4> QED
        BY <3>6, <4>1, <4>2
    <3> QED
      BY <2>1, <2>3, <3>1, <3>4, <3>5, <3>6, <3>7, <3>8 DEF MAX_INCREASE_COUNTER
  <2> QED
    BY <2>2, <2>3
<1>11. /\ hfolders' = hfolders /\ schedule' = schedule
       /\ m_schedule' = m_schedule /\ SearchOrder' = SearchOrder
       /\ \A g \in hfolders : Size(g)' = Size(g)
  BY <1>1, InputIsKept
<1>12. pc' # "idle" => \/ ito' \in DOMAIN folders_order'
                       \/ pc' = "leave" /\ ito' = Dangling /\ set_start_folder'
  BY <1>1, <1>10 DEF TypeOK
<1>13. \A n \in DOMAIN folders_order' : folders_order'[n] \in hfolders
  BY <1>10
<1>14. \A n \in DOMAIN play_list' : play_list'[n] \in Record
  BY <1>10
<1>15. TypeOK'
  <2>1. /\ calls \in 0..MaxCalls /\ m_error \subseteq {"EXECUTOR", "TRACK"}
        /\ complete \in BOOLEAN
    BY <1>1 DEF TypeOK
  <2>2. progress'.counter \in 0..MAX_INCREASE_COUNTER + 1
    BY <1>10 DEF MAX_INCREASE_COUNTER
  <2> QED
    BY <1>1, <1>8, <1>9, <1>10, <1>11, <1>12, <1>13, <1>14, <2>1, <2>2 DEF TypeOK
<1>16. WalkInv'
  <2>1. ito' \in Nat /\ (in.max_tracks > 0 => Len(play_list) < in.max_tracks)
    BY <1>1, <1>10 DEF WalkInv, Dangling
  <2>2. progress'.counter <= MAX_INCREASE_COUNTER
    BY <1>10 DEF MAX_INCREASE_COUNTER
  <2> QED
    BY <1>1, <1>9, <1>10, <1>11, <2>1, <2>2 DEF WalkInv
<1> QED
  BY <1>15, <1>16 DEF WalkTypes

LEMMA OtherStepsKeepTypes ==
    WalkTypes /\ (Prepare \/ CreatePlaylist \/ Completed \/ NextFolder \/ Again \/ GiveUp)
        => WalkTypes'
<1> SUFFICES ASSUME WalkTypes,
                    Prepare \/ CreatePlaylist \/ Completed \/ NextFolder \/ Again \/ GiveUp
             PROVE  WalkTypes'
  OBVIOUS
<1>1. TypeOK /\ WalkInv /\ in \in Inputs /\ in' = in
  BY DEF WalkTypes, TypeOK, Prepare, CreatePlaylist, Completed, NextFolder, Again, GiveUp, Stop
<1>2. /\ hfolders' = hfolders /\ schedule' = schedule
      /\ m_schedule' = m_schedule /\ SearchOrder' = SearchOrder
      /\ \A g \in hfolders : Size(g)' = Size(g)
  BY <1>1, InputIsKept
<1>3. in.max_tracks \in Int /\ MaxCalls \in Nat
  BY <1>1, InputFacts, RotatorConstants
<1> DEFINE
      Folders(fs) == /\ fs \in [hfolders -> [index : Nat, statistics : 1..MaxWeight]]
                     /\ \A f \in hfolders : /\ fs[f].index \in 0..Size(f) + 1
                                            /\ fs[f].statistics \in 1..MaxWeight
      Order(o) == o \in Seq(hfolders) /\ (~m_schedule => o = SearchOrder)
<1>4. /\ Folders(folder) /\ Order(folders_order)
      /\ sch_it \in schedule \cup {End} /\ complete \in BOOLEAN
  BY <1>1 DEF TypeOK, WalkInv
<1>5. ASSUME Folders(folder'), Order(folders_order'), sch_it' \in schedule \cup {End},
             pc' \in {"idle", "visit", "leave"}, calls' \in 0..MaxCalls,
             m_error' \subseteq {"EXECUTOR", "TRACK"}, complete' \in BOOLEAN,
             to_next' \in BOOLEAN, set_start_folder' \in BOOLEAN,
             play_list' \in Seq(Record),
             in.max_tracks > 0 => Len(play_list') =< in.max_tracks,
             progress' \in [counter : Nat, size : Nat],
             progress'.counter \in 0..MAX_INCREASE_COUNTER + 1,
             ito' \in Nat, pc' # "leave",
             pc' = "visit" => ito' \in DOMAIN folders_order',
             pc' # "idle" => folders_order' # <<>> /\ progress'.counter <= MAX_INCREASE_COUNTER,
             pc' = "visit" /\ in.max_tracks > 0 => Len(play_list') < in.max_tracks
      PROVE  WalkTypes'
  <2>1. /\ \A n \in DOMAIN folders_order' : folders_order'[n] \in hfolders
        /\ \A n \in DOMAIN play_list' : play_list'[n] \in Record
    BY <1>5
  <2>2. TypeOK'
    BY <1>1, <1>2, <1>5, <2>1 DEF TypeOK
  <2>3. WalkInv'
    BY <1>1, <1>2, <1>5 DEF WalkInv
  <2> QED
    BY <2>2, <2>3 DEF WalkTypes
<1>6. CASE Prepare
  <2>1. /\ pc = "idle" /\ pc' = pc /\ calls' = calls + 1 /\ calls < MaxCalls
        /\ m_error' = m_error /\ play_list' = play_list /\ progress' = progress
        /\ ito' = ito /\ to_next' = to_next /\ set_start_folder' = set_start_folder
    BY <1>6 DEF Prepare, walk
  <2>2. /\ Folders(folder') /\ Order(folders_order') /\ sch_it' \in schedule \cup {End}
        /\ complete' \in BOOLEAN
    <3>1. CASE m_error = {}
      BY <1>6, <3>1, PrepareKeepsOrder DEF Prepare
    <3>2. CASE m_error # {}
      <4>1. /\ folder' = folder /\ folders_order' = folders_order
            /\ sch_it' = sch_it /\ complete' = complete
        BY <1>6, <3>2 DEF Prepare, plan
      <4> QED
        BY <1>4, <4>1
    <3> QED
      BY <3>1, <3>2
  <2>3. /\ calls \in 0..MaxCalls /\ m_error \subseteq {"EXECUTOR", "TRACK"}
        /\ to_next \in BOOLEAN /\ set_start_folder \in BOOLEAN /\ ito \in Nat
        /\ play_list \in Seq(Record) /\ progress \in [counter : Nat, size : Nat]
        /\ progress.counter \in 0..MAX_INCREASE_COUNTER + 1
        /\ in.max_tracks > 0 => Len(play_list) =< in.max_tracks
    BY <1>1 DEF TypeOK, WalkInv
  <2>4. calls' \in 0..MaxCalls
    BY <1>3, <2>1, <2>3
  <2> HIDE DEF Folders, Order
  <2> QED
    BY <1>5, <2>1, <2>2, <2>3, <2>4
<1>7. CASE CreatePlaylist
  <2>1. /\ play_list' = <<>> /\ progress' = [counter |-> 0, size |-> 0] /\ ito' = 1
        /\ pc' = IF m_error = {} /\ m_order THEN "visit" ELSE "idle"
        /\ to_next' = TRUE /\ set_start_folder' = FALSE /\ m_error' = m_error
        /\ folder' = folder /\ folders_order' = folders_order /\ sch_it' = sch_it
    BY <1>7 DEF CreatePlaylist, plan
  <2>2. calls' \in 0..MaxCalls /\ complete' \in BOOLEAN
    BY <1>1, <1>3, <1>7 DEF CreatePlaylist, TypeOK
  <2>3. play_list' \in Seq(Record) /\ Len(play_list') = 0
    BY <2>1
  <2>4. pc' = "visit" => folders_order # <<>> /\ 1 \in DOMAIN folders_order
    BY <1>4, <2>1 DEF m_order
  <2>5. m_error \subseteq {"EXECUTOR", "TRACK"}
    BY <1>1 DEF TypeOK
  <2>6. Folders(folder') /\ Order(folders_order') /\ sch_it' \in schedule \cup {End}
    BY <1>4, <2>1
  <2>7. /\ progress' \in [counter : Nat, size : Nat] /\ progress'.counter = 0
        /\ in.max_tracks > 0 => Len(play_list') < in.max_tracks
    BY <1>3, <2>1, <2>3
  <2> HIDE DEF Folders, Order
  <2>8. /\ pc' \in {"idle", "visit", "leave"} /\ m_error' \subseteq {"EXECUTOR", "TRACK"}
        /\ to_next' \in BOOLEAN /\ set_start_folder' \in BOOLEAN
    BY <2>1, <2>5
  <2>9. in.max_tracks > 0 => Len(play_list') =< in.max_tracks
    BY <1>3, <2>3, <2>7
  <2>10. /\ ito' \in Nat /\ (pc' = "visit" => ito' \in DOMAIN folders_order')
         /\ pc' # "idle" => folders_order' # <<>>
         /\ pc' # "leave"
    BY <2>1, <2>4
  <2>11. /\ progress'.counter \in 0..MAX_INCREASE_COUNTER + 1
         /\ progress'.counter <= MAX_INCREASE_COUNTER
    BY <2>7 DEF MAX_INCREASE_COUNTER
  <2> QED
    BY <1>5, <2>2, <2>3, <2>6, <2>7, <2>8, <2>9, <2>10, <2>11
<1>8. CASE Completed
  BY <1>1, <1>3, <1>4, <1>5, <1>8
  DEF Completed, Stop, walk, plan, TypeOK, WalkInv, MAX_INCREASE_COUNTER
<1>9. CASE NextFolder
  <2>1. /\ folders_order # <<>> /\ folders_order \in Seq(hfolders)
        /\ ito' \in Nat /\ ito' \in DOMAIN folders_order
    <3>1. folders_order # <<>> /\ folders_order \in Seq(hfolders) /\ ito \in Nat
      BY <1>1, <1>9 DEF NextFolder, WalkInv
    <3>2. UpperBound \subseteq DOMAIN folders_order
      <4>1. ito # Dangling => IF ito < Len(folders_order)
                              THEN ito + 1 \in DOMAIN folders_order
                              ELSE 1 \in DOMAIN folders_order
        BY <3>1 DEF Dangling
      <4> QED
        BY <4>1 DEF UpperBound
    <3>3. PICK after \in UpperBound : ito' = IF set_start_folder THEN 1 ELSE after
      BY <1>9 DEF NextFolder
    <3> QED
      BY <3>1, <3>2, <3>3
  <2>2. in.max_tracks > 0 => Len(play_list) < in.max_tracks
    BY <1>1, <1>3, <1>9 DEF NextFolder, playlist_construction_completed, WalkInv
  <2>3. /\ pc = "leave" /\ pc' = "visit" /\ set_start_folder' = FALSE /\ calls' = calls
        /\ m_error' = m_error /\ play_list' = play_list /\ progress' = progress
        /\ to_next' = to_next /\ complete' = complete /\ folder' = folder
        /\ folders_order' = folders_order /\ sch_it' = sch_it
    BY <1>9 DEF NextFolder, plan
  <2>4. /\ calls \in 0..MaxCalls /\ m_error \subseteq {"EXECUTOR", "TRACK"}
        /\ to_next \in BOOLEAN
        /\ play_list \in Seq(Record) /\ progress \in [counter : Nat, size : Nat]
        /\ progress.counter <= MAX_INCREASE_COUNTER
        /\ progress.counter \in 0..MAX_INCREASE_COUNTER + 1
        /\ in.max_tracks > 0 => Len(play_list) =< in.max_tracks
    BY <1>1, <2>3 DEF TypeOK, WalkInv
  <2>5. /\ Folders(folder') /\ Order(folders_order') /\ sch_it' \in schedule \cup {End}
        /\ complete' \in BOOLEAN
    BY <1>4, <2>3
  <2> HIDE DEF Folders, Order
  <2> QED
    BY <1>5, <2>1, <2>2, <2>3, <2>4, <2>5
<1>10. CASE Again
  <2>1. DoPrepare
    BY <1>10 DEF Again
  <2>2. /\ Folders(folder') /\ Order(folders_order') /\ sch_it' \in schedule \cup {End}
        /\ complete' \in BOOLEAN /\ folders_order' # <<>>
    BY <1>1, <1>10, <2>1, PrepareKeepsOrder DEF Again, WalkInv
  <2>3. 1 \in DOMAIN folders_order'
    BY <2>2
  <2>4. in.max_tracks > 0 => Len(play_list) < in.max_tracks
    BY <1>1, <1>3, <1>10 DEF Again, playlist_construction_completed, WalkInv
  <2>5. /\ progress' \in [counter : Nat, size : Nat]
        /\ progress'.counter \in 0..MAX_INCREASE_COUNTER
    <3>1. /\ progress \in [counter : Nat, size : Nat] /\ Len(play_list) \in Nat
          /\ progress.counter \in Nat /\ progress.counter <= MAX_INCREASE_COUNTER
      BY <1>1, <1>10 DEF WalkInv, Again
    <3>2. CASE Grown
      BY <1>10, <3>1, <3>2 DEF Again, MAX_INCREASE_COUNTER
    <3>3. CASE ~Grown
      BY <1>10, <3>1, <3>3 DEF Again, MAX_INCREASE_COUNTER
    <3> QED
      BY <3>2, <3>3
  <2>6. /\ pc' = "visit" /\ ito' = 1 /\ to_next' = TRUE /\ set_start_folder' = FALSE
        /\ calls' = calls /\ m_error' = m_error /\ play_list' = play_list
    BY <1>10 DEF Again
  <2>7. /\ calls \in 0..MaxCalls /\ m_error \subseteq {"EXECUTOR", "TRACK"}
        /\ play_list \in Seq(Record) /\ (in.max_tracks > 0 => Len(play_list) =< in.max_tracks)
    BY <1>1 DEF TypeOK, WalkInv
  <2>8. /\ progress'.counter <= MAX_INCREASE_COUNTER
        /\ progress'.counter \in 0..MAX_INCREASE_COUNTER + 1
    BY <2>5 DEF MAX_INCREASE_COUNTER
  <2> HIDE DEF Folders, Order
  <2>9. /\ calls' \in 0..MaxCalls /\ m_error' \subseteq {"EXECUTOR", "TRACK"}
        /\ play_list' \in Seq(Record) /\ ito' \in Nat
        /\ in.max_tracks > 0 => Len(play_list') < in.max_tracks
        /\ in.max_tracks > 0 => Len(play_list') =< in.max_tracks
        /\ to_next' \in BOOLEAN /\ set_start_folder' \in BOOLEAN
    <3>1. to_next' \in BOOLEAN /\ set_start_folder' \in BOOLEAN
      BY <2>6, Zenon
    <3>2. calls' \in 0..MaxCalls /\ m_error' \subseteq {"EXECUTOR", "TRACK"}
      BY <2>6, <2>7
    <3>3. play_list' \in Seq(Record) /\ ito' \in Nat
      BY <2>6, <2>7
    <3> QED
      BY <2>4, <2>6, <2>7, <3>1, <3>2, <3>3
  <2>10. /\ pc' \in {"idle", "visit", "leave"} /\ pc' # "leave"
         /\ ito' \in DOMAIN folders_order'
    BY <2>3, <2>6
  <2>11. progress' \in [counter : Nat, size : Nat]
    BY <2>5
  <2> QED
    BY <1>5, <2>2, <2>8, <2>9, <2>10, <2>11
<1>11. CASE GiveUp
  <2>1. /\ pc' = "idle" /\ complete' = TRUE /\ calls' = calls /\ play_list' = play_list
        /\ folder' = folder /\ folders_order' = folders_order /\ sch_it' = sch_it
        /\ ito' = ito /\ to_next' = to_next /\ set_start_folder' = set_start_folder
    BY <1>11 DEF GiveUp, Stop, walk, plan
  <2>2. m_error' \subseteq {"EXECUTOR", "TRACK"}
    BY <1>1, <1>11 DEF GiveUp, TypeOK
  <2>3. /\ progress' \in [counter : Nat, size : Nat]
        /\ progress'.counter \in 0..MAX_INCREASE_COUNTER + 1
    <3>1. /\ progress \in [counter : Nat, size : Nat] /\ pc = "leave"
          /\ progress.counter \in Nat /\ progress.counter <= MAX_INCREASE_COUNTER
      BY <1>1, <1>11 DEF WalkInv, GiveUp
    <3>2. progress' = progress \/ progress' = [progress EXCEPT !.counter = @ + 1]
      BY <1>11 DEF GiveUp
    <3> QED
      BY <3>1, <3>2 DEF MAX_INCREASE_COUNTER
  <2> QED
    BY <1>1, <1>4, <1>5, <2>1, <2>2, <2>3 DEF TypeOK, WalkInv
<1> QED
  BY <1>6, <1>7, <1>8, <1>9, <1>10, <1>11

LEMMA StepKeepsTypes == WalkTypes /\ [Next]_vars => WalkTypes'
<1> SUFFICES ASSUME WalkTypes, [Next]_vars PROVE WalkTypes'
  OBVIOUS
<1>1. CASE Next
  BY <1>1, VisitKeepsTypes, OtherStepsKeepTypes DEF Next, Walk
<1>2. CASE UNCHANGED vars
  <2>1. in' = in
    BY <1>2 DEF vars
  <2>2. /\ hfolders' = hfolders /\ schedule' = schedule
        /\ m_schedule' = m_schedule /\ SearchOrder' = SearchOrder
        /\ \A g \in hfolders : Size(g)' = Size(g)
    BY <2>1, InputIsKept
  <2> QED
    BY <1>2, <2>2 DEF vars, walk, plan, WalkTypes, TypeOK, WalkInv
<1> QED
  BY <1>1, <1>2

(* TypeOK holds: the walk visits folders of the order in force only,       *)
(* although a switch of the hour replaces the order under its iterator, and*)
(* the list never gets longer than max_tracks.                             *)
THEOREM RotatorTypeOK == Spec => []TypeOK
<1>1. Init => WalkTypes
  BY InitTypes
<1>2. WalkTypes /\ [Next]_vars => WalkTypes'
  BY StepKeepsTypes
<1>3. WalkTypes => TypeOK
  BY DEF WalkTypes
<1> QED
  BY <1>1, <1>2, <1>3, PTL DEF Spec

(* NewHourFromStart: an iterator is left behind only when set_start_folder *)
(* is raised too, so the key it is read as is never used.                  *)
THEOREM RotatorNewHourFromStart == Spec => NewHourFromStart
<1>1. Init => WalkTypes
  BY InitTypes
<1>2. WalkTypes /\ [Next]_vars => WalkTypes'
  BY StepKeepsTypes
<1>3. WalkTypes /\ [Next]_vars
        => [ito = Dangling /\ pc = "leave" /\ pc' = "visit" => ito' = 1]_vars
  <2> SUFFICES ASSUME WalkTypes, [Next]_vars, pc = "leave", pc' = "visit", ito = Dangling
               PROVE  ito' = 1
    OBVIOUS
  <2>1. set_start_folder
    BY DEF WalkTypes, TypeOK, WalkInv, Dangling
  <2>2. NextFolder \/ Again
    BY DEF Next, Walk, vars, Prepare, CreatePlaylist, Visit, Completed, GiveUp, Stop
  <2>3. CASE NextFolder
    BY <2>1, <2>3 DEF NextFolder
  <2>4. CASE Again
    BY <2>4 DEF Again
  <2> QED
    BY <2>2, <2>3, <2>4
<1> QED
  BY <1>1, <1>2, <1>3, PTL DEF Spec, NewHourFromStart

-----------------------------------------------------------------------------
Airings == [singer : STRING, title : STRING, statistics : Nat, ruled : BOOLEAN]

(* The history of the object is all that was on the air, in its order, as  *)
(* long as its keys have no gap: mHistory[mHistory.size()] would overwrite *)
(* a record otherwise.                                                     *)
HistoryInv ==
    /\ aired \in Seq(Airings)
    /\ DOMAIN mHistory = 0..Len(aired) - 1
    /\ \A k \in 1..Len(aired) :
        /\ mHistory[k - 1].singer = aired[k].singer
        /\ mHistory[k - 1].title = aired[k].title
        /\ mHistory[k - 1].statistics = aired[k].statistics
    /\ Cardinality(Taken) \in 0..Len(aired)
    /\ \A i, k \in 1..Cardinality(Taken) :
        aired[i].title = aired[k].title => aired[i].statistics = aired[k].statistics

(* A record goes onto the air, under the rules or not.                     *)
Put(r, weight, ruled) ==
    LET size == Cardinality(DOMAIN mHistory)
        H == [singer |-> r.singer, title |-> r.title, statistics |-> weight + 1]
    IN  /\ ruled => RulesKept(r, weight)
        /\ mHistory' = [k \in DOMAIN mHistory \cup {size} |->
                            IF k = size THEN H ELSE mHistory[k]]
        /\ aired' = Append(aired, Airing(H, ruled))

LEMMA InitHistory ==
    ASSUME Gapless, Init
    PROVE  HistoryInv /\ RulesHold /\ WeightsRise
<1> DEFINE keys == Taken
           H == SearchHistory
<1>1. in \in Inputs /\ mHistory = H
  BY DEF Init
<1>2. PICK n \in Nat : keys = 0..n - 1 /\ n = Cardinality(keys)
  <2>1. IsFiniteSet(keys)
    BY <1>1, RotatorConstants, FS_Subset DEF Taken, IsArray
  <2>2. Cardinality(keys) \in Nat
    BY <2>1, FS_CardinalityType
  <2> QED
    BY <2>2 DEF Gapless
<1>3. Cardinality(keys) = n
  BY <1>2
<1>4. \A k \in keys : /\ H[k].singer = in.history[k].singer /\ H[k].title = in.history[k].title
                      /\ H[k].statistics = Calc(in.history[k].title)
                      /\ in.history[k].singer \in STRING /\ in.history[k].title \in STRING
  <2> SUFFICES ASSUME NEW k \in keys
               PROVE  /\ H[k].singer = in.history[k].singer /\ H[k].title = in.history[k].title
                      /\ H[k].statistics = Calc(in.history[k].title)
                      /\ in.history[k].singer \in STRING /\ in.history[k].title \in STRING
    OBVIOUS
  <2>1. k \in DOMAIN in.history /\ {"singer", "title"} \subseteq DOMAIN in.history[k]
    BY DEF Taken, Complete
  <2>2. \A x \in {"singer", "title"} :
            x \in DOMAIN in.history[k] => in.history[k][x] \in STRING
    BY <1>1, <2>1, RotatorConstants
  <2>3. in.history[k]["singer"] \in STRING /\ in.history[k]["title"] \in STRING
    BY <2>1, <2>2
  <2> QED
    BY <2>3 DEF SearchHistory
<1>5. \A t : Calc(t) \in Nat
  <2>1. IsFiniteSet(DOMAIN in.history)
    BY <1>1, RotatorConstants DEF IsArray
  <2> QED
    BY <2>1, FS_Subset, FS_CardinalityType DEF Calc
<1>6. aired = [m \in 1..n |-> Airing(mHistory[m - 1], FALSE)]
  <2>1. \A m \in 1..n : Nth(keys, m) = m - 1
    BY <1>2, NthOfList
  <2>2. aired = [m \in 1..n |-> Airing(mHistory[Nth(keys, m)], FALSE)]
    BY <1>3 DEF Init
  <2> QED
    BY <2>1, <2>2
<1>7. \A m \in 1..n : /\ m - 1 \in keys
                      /\ aired[m].singer = in.history[m - 1].singer
                      /\ aired[m].title = in.history[m - 1].title
                      /\ aired[m].statistics = Calc(in.history[m - 1].title)
                      /\ aired[m].ruled = FALSE
                      /\ aired[m] = Airing(mHistory[m - 1], FALSE)
  <2> SUFFICES ASSUME NEW m \in 1..n
               PROVE  /\ m - 1 \in keys
                      /\ aired[m].singer = in.history[m - 1].singer
                      /\ aired[m].title = in.history[m - 1].title
                      /\ aired[m].statistics = Calc(in.history[m - 1].title)
                      /\ aired[m].ruled = FALSE
                      /\ aired[m] = Airing(mHistory[m - 1], FALSE)
    OBVIOUS
  <2>1. m - 1 \in keys
    BY <1>2
  <2>2. aired[m] = Airing(H[m - 1], FALSE)
    BY <1>1, <1>6
  <2> HIDE DEF H, keys
  <2> QED
    BY <1>1, <1>4, <2>1, <2>2 DEF Airing
<1> HIDE DEF H
<1>8. aired \in Seq(Airings) /\ Len(aired) = n
  <2>1. \A m \in 1..n : Airing(mHistory[m - 1], FALSE) \in Airings
    <3> SUFFICES ASSUME NEW m \in 1..n PROVE Airing(mHistory[m - 1], FALSE) \in Airings
      OBVIOUS
    <3>1. m - 1 \in keys
      BY <1>7
    <3>2. /\ mHistory[m - 1].singer \in STRING /\ mHistory[m - 1].title \in STRING
          /\ mHistory[m - 1].statistics \in Nat
      BY <1>1, <1>4, <1>5, <3>1
    <3> QED
      BY <3>2 DEF Airings, Airing
  <2>2. aired \in [1..n -> Airings]
    <3> DEFINE Heard(m) == Airing(mHistory[m - 1], FALSE)
    <3>1. aired = [m \in 1..n |-> Heard(m)] /\ \A m \in 1..n : Heard(m) \in Airings
      BY <1>6, <2>1
    <3> HIDE DEF Heard
    <3> QED
      BY <3>1
  <2> QED
    BY <2>2
<1>9. DOMAIN mHistory = 0..Len(aired) - 1
  BY <1>1, <1>2, <1>8 DEF H, SearchHistory
<1>10. \A i, k \in 1..n : aired[i].title = aired[k].title =>
                            aired[i].statistics = aired[k].statistics
  <2> SUFFICES ASSUME NEW i \in 1..n, NEW k \in 1..n, aired[i].title = aired[k].title
               PROVE  aired[i].statistics = aired[k].statistics
    OBVIOUS
  <2>1. in.history[i - 1].title = in.history[k - 1].title
    BY <1>7
  <2> QED
    BY <1>7, <2>1
<1>11. HistoryInv
  <2>1. \A k \in 1..n : /\ mHistory[k - 1].singer = aired[k].singer
                        /\ mHistory[k - 1].title = aired[k].title
                        /\ mHistory[k - 1].statistics = aired[k].statistics
    <3> SUFFICES ASSUME NEW k \in 1..n
                 PROVE  /\ mHistory[k - 1].singer = aired[k].singer
                        /\ mHistory[k - 1].title = aired[k].title
                        /\ mHistory[k - 1].statistics = aired[k].statistics
      OBVIOUS
    <3>1. aired[k] = Airing(mHistory[k - 1], FALSE)
      BY <1>7
    <3> QED
      BY <3>1 DEF Airing
  <2>2. Cardinality(Taken) = n
    BY <1>3
  <2>3. Len(aired) = n /\ Cardinality(Taken) \in 0..Len(aired)
    BY <1>2, <1>8, <2>2
  <2>4. \A i, k \in 1..Cardinality(Taken) : aired[i].title = aired[k].title =>
                                aired[i].statistics = aired[k].statistics
    BY <1>10, <2>2
  <2>5. \A k \in 1..Len(aired) : /\ mHistory[k - 1].singer = aired[k].singer
                                 /\ mHistory[k - 1].title = aired[k].title
                                 /\ mHistory[k - 1].statistics = aired[k].statistics
    BY <2>1, <2>3
  <2> QED
    BY <1>8, <1>9, <2>3, <2>4, <2>5, Zenon DEF HistoryInv
<1>12. \A j \in DOMAIN aired : ~ aired[j].ruled
  BY <1>6, <1>7
<1> QED
  BY <1>11, <1>12, Zenon DEF RulesHold, WeightsRise

(* What the walk puts onto the air.                                        *)
LEMMA VisitPuts ==
    ASSUME WalkTypes, Visit
    PROVE  \/ UNCHANGED <<mHistory, aired>>
           \/ \E r \in Record, weight \in Nat, ruled \in BOOLEAN : Put(r, weight, ruled)
<1> DEFINE f == folders_order[ito]
           i == IF folder[f].index >= Size(f) THEN SearchNext(f, 0) ELSE folder[f].index
           weight == Weight(f)
           ruled == ~in.folders[f].service
<1>1. IF Decide(f, i, weight) = "add" THEN AddToPlaylist(f, ht(f)[i], weight)
      ELSE UNCHANGED <<play_list, mHistory, progress, plan, timer, set_start_folder, aired>>
  BY DEF Visit
<1>2. f \in hfolders /\ in \in Inputs
  BY DEF WalkTypes, TypeOK, Visit
<1>3. weight \in Nat
  <2>1. folder[f].statistics \in 1..MaxWeight /\ MaxWeight \in Nat
    BY <1>2, RotatorConstants DEF WalkTypes, TypeOK
  <2> QED
    BY <2>1 DEF Weight
<1>4. ruled \in BOOLEAN /\ (ruled <=> ~in.folders[f].service)
  <2>1. in.folders[f].service \in BOOLEAN
    BY <1>2, RotatorConstants DEF hfolders
  <2> QED
    BY <2>1
<1> HIDE DEF f, i, weight
<1>5. CASE Decide(f, i, weight) = "add"
  <2>1. /\ ht(f)[i] \in Record
        /\ in.folders[f].service \/ RulesKept(ht(f)[i], weight)
    BY <1>2, <1>5, DecideAdds, InputFacts
  <2>2. Put(ht(f)[i], weight, ruled)
    BY <1>1, <1>4, <1>5, <2>1 DEF AddToPlaylist, Put
  <2> HIDE DEF ruled
  <2> QED
    BY <1>3, <1>4, <2>1, <2>2
<1>6. CASE Decide(f, i, weight) # "add"
  BY <1>1, <1>6
<1> QED
  BY <1>5, <1>6

(* What the rules say of the last airing of the singer, and of the track.  *)
LEMMA RulesCount ==
    ASSUME HistoryInv, NEW r, NEW weight \in Nat, RulesKept(r, weight),
           in.singer_interval \in Int, in.track_interval \in Int,
           NEW i \in 1..Len(aired), aired[i].singer = r.singer
    PROVE  /\ Len(aired) - i >= in.singer_interval
           /\ aired[i].title = r.title =>
                /\ Len(aired) - i >= in.track_interval
                /\ \E m \in i..Len(aired) :
                        /\ aired[m].title = r.title /\ aired[m].statistics =< weight
<1> DEFINE n == Len(aired)
<1>1. n \in Nat /\ DOMAIN mHistory = 0..n - 1
  BY DEF HistoryInv
<1>2. ASSUME NEW S \in SUBSET (0..n - 1), i - 1 \in S
      PROVE  /\ Max(S) \in S /\ Max(S) >= i - 1 /\ S # {}
             /\ Between(S) = n - 1 - Max(S)
  <2>1. Max(S) \in S /\ Max(S) >= i - 1
    <3>1. n - 1 \in Nat /\ S # {}
      BY <1>1, <1>2
    <3>2. Max(S) \in S /\ \A y \in S : y =< Max(S)
      BY <3>1, MaxIsGreatest
    <3> QED
      BY <1>1, <1>2, <3>2
  <2> DEFINE x == Max(S)
  <2>2. x \in 0..n - 1
    BY <2>1
  <2> HIDE DEF x, n
  <2>3. {k \in DOMAIN mHistory : k > x} = x + 1..n - 1
    BY <1>1, <2>2
  <2>4. Cardinality(x + 1..n - 1) = n - 1 - x
    <3>1. x + 1 \in Int /\ n - 1 \in Int /\ x + 1 =< n - 1 + 1
      BY <1>1, <2>2
    <3>2. Cardinality(x + 1..n - 1) = n - 1 - (x + 1) + 1
      BY <3>1, IntervalCount
    <3>3. n - 1 - (x + 1) + 1 = n - 1 - x
      BY <1>1, <2>2
    <3> QED
      BY <3>2, <3>3
  <2> QED
    BY <1>2, <2>1, <2>3, <2>4 DEF Between, x
<1>3. i - 1 \in 0..n - 1 /\ mHistory[i - 1].singer = aired[i].singer
                         /\ mHistory[i - 1].title = aired[i].title
  BY <1>1 DEF HistoryInv
<1> HIDE DEF n
<1>4. BySinger(r.singer) \in SUBSET (0..n - 1) /\ i - 1 \in BySinger(r.singer)
  BY <1>1, <1>3 DEF BySinger
<1>5. /\ Between(BySinger(r.singer)) >= in.singer_interval
      /\ TitleKept(r.title, weight)
  BY <1>2, <1>4 DEF RulesKept
<1>6. n - i >= in.singer_interval
  <2> DEFINE m == Max(BySinger(r.singer))
  <2>1. m \in 0..n - 1 /\ m >= i - 1 /\ Between(BySinger(r.singer)) = n - 1 - m
    BY <1>2, <1>4
  <2> HIDE DEF m
  <2> QED
    BY <1>1, <1>3, <1>5, <2>1
<1>7. ASSUME aired[i].title = r.title
      PROVE  /\ n - i >= in.track_interval
             /\ \E m \in i..n : aired[m].title = r.title /\ aired[m].statistics =< weight
  <2> DEFINE m == Max(ByTitle(r.title))
  <2>1. ByTitle(r.title) \in SUBSET (0..n - 1) /\ i - 1 \in ByTitle(r.title)
    BY <1>1, <1>3, <1>7 DEF ByTitle
  <2>2. /\ m \in ByTitle(r.title) /\ m >= i - 1 /\ ByTitle(r.title) # {}
        /\ Between(ByTitle(r.title)) = n - 1 - m
    BY <1>2, <2>1
  <2>3. Between(ByTitle(r.title)) >= in.track_interval /\ mHistory[m].statistics <= weight
    BY <1>5, <2>2 DEF TitleKept
  <2>4. m \in 0..n - 1 /\ mHistory[m].title = r.title
    BY <2>1, <2>2 DEF ByTitle
  <2> HIDE DEF m
  <2>5. m + 1 \in 1..n /\ m + 1 \in i..n /\ m + 1 - 1 = m
    BY <1>1, <1>3, <2>2, <2>4
  <2>6. mHistory[m].title = aired[m + 1].title /\ mHistory[m].statistics = aired[m + 1].statistics
    <3>1. \A k \in 1..n : /\ mHistory[k - 1].title = aired[k].title
                          /\ mHistory[k - 1].statistics = aired[k].statistics
      BY DEF HistoryInv, n
    <3>2. PICK q \in 1..n : q = m + 1
      BY <2>5
    <3>3. /\ mHistory[q - 1].title = aired[q].title
          /\ mHistory[q - 1].statistics = aired[q].statistics
      BY <3>1
    <3>4. q - 1 = m
      BY <2>4, <3>2
    <3> QED
      BY <3>2, <3>3, <3>4
  <2> QED
    BY <1>1, <1>3, <2>2, <2>3, <2>4, <2>5, <2>6
<1> QED
  BY <1>6, <1>7 DEF n

(* What is put onto the air keeps the history and the rules.               *)
LEMMA PutKeepsRules ==
    ASSUME Gapless, HistoryInv, RulesHold, WeightsRise, in \in Inputs, in' = in,
           NEW r \in Record, NEW weight \in Nat, NEW ruled \in BOOLEAN,
           Put(r, weight, ruled)
    PROVE  HistoryInv' /\ RulesHold' /\ WeightsRise'
<1> DEFINE n == Len(aired)
           new == [singer |-> r.singer, title |-> r.title,
                   statistics |-> weight + 1, ruled |-> ruled]
           past == Cardinality(Taken)
<1>1. /\ aired \in Seq(Airings) /\ n \in Nat /\ DOMAIN mHistory = 0..n - 1
      /\ past \in 0..n
      /\ \A k \in 1..n : /\ mHistory[k - 1].singer = aired[k].singer
                         /\ mHistory[k - 1].title = aired[k].title
                         /\ mHistory[k - 1].statistics = aired[k].statistics
      /\ \A i, k \in 1..past : aired[i].title = aired[k].title =>
                                aired[i].statistics = aired[k].statistics
  BY DEF HistoryInv
<1>2. Cardinality(DOMAIN mHistory) = n
  <2>1. Cardinality(0..n - 1) = n - 1 - 0 + 1
    BY <1>1, IntervalCount
  <2> QED
    BY <1>1, <2>1
<1>3. new \in Airings
  BY DEF new, Airings, Record
<1>4. /\ aired' = Append(aired, new)
      /\ mHistory' = [k \in 0..n |-> IF k = n THEN [singer |-> r.singer, title |-> r.title,
                                                  statistics |-> weight + 1]
                                     ELSE mHistory[k]]
      /\ ruled => RulesKept(r, weight)
  <2>1. 0..n - 1 \cup {n} = 0..n
    BY <1>1
  <2> QED
    BY <1>1, <1>2, <2>1 DEF Put, Airing
<1> HIDE DEF n, past
<1>5. /\ aired' \in Seq(Airings) /\ Len(aired') = n + 1 /\ aired'[n + 1] = new
      /\ \A k \in 1..n : aired'[k] = aired[k]
      /\ DOMAIN aired = 1..n /\ DOMAIN aired' = 1..n + 1
      /\ \A k \in 1..n : aired[k] \in Airings
  BY <1>1, <1>3, <1>4 DEF n
<1>6. HistoryInv'
  <2>1. DOMAIN mHistory' = 0..Len(aired') - 1
    BY <1>1, <1>4, <1>5
  <2>2. ASSUME NEW k \in 1..n + 1
        PROVE  /\ mHistory'[k - 1].singer = aired'[k].singer
               /\ mHistory'[k - 1].title = aired'[k].title
               /\ mHistory'[k - 1].statistics = aired'[k].statistics
    <3>1. CASE k = n + 1
      BY <1>1, <1>4, <1>5, <3>1
    <3>2. CASE k \in 1..n
      <4>1. mHistory'[k - 1] = mHistory[k - 1] /\ aired'[k] = aired[k]
        BY <1>1, <1>4, <1>5, <3>2
      <4> QED
        BY <1>1, <3>2, <4>1
    <3> QED
      BY <1>1, <3>1, <3>2
  <2>3. Cardinality(Taken)' = past
    BY DEF past, Taken
  <2>4. \A i, k \in 1..past : aired'[i].title = aired'[k].title =>
                              aired'[i].statistics = aired'[k].statistics
    <3>1. \A k \in 1..past : k \in 1..n
      BY <1>1
    <3>2. \A k \in 1..past : aired'[k] = aired[k]
      BY <1>5, <3>1
    <3>3. \A i, k \in 1..past : aired[i].title = aired[k].title =>
                                aired[i].statistics = aired[k].statistics
      BY <1>1
    <3> QED
      BY <3>2, <3>3, Zenon
  <2>5. past \in 0..Len(aired')
    BY <1>1, <1>5
  <2> QED
    BY <1>5, <2>1, <2>2, <2>3, <2>4, <2>5 DEF HistoryInv
<1>7. in.singer_interval \in Int /\ in.track_interval \in Int
  BY InputFacts
<1>8. ASSUME ruled, NEW i \in 1..n, aired[i].singer = r.singer
      PROVE  /\ n - i >= in.singer_interval
             /\ aired[i].title = r.title =>
                  /\ n - i >= in.track_interval
                  /\ \E m \in i..n : aired[m].title = r.title /\ aired[m].statistics =< weight
  BY <1>4, <1>7, <1>8, RulesCount DEF n
<1>9. RulesHold'
  <2> SUFFICES ASSUME NEW j \in 1..n + 1, aired'[j].ruled,
                      NEW i \in 1..j - 1, aired'[i].singer = aired'[j].singer
               PROVE  /\ j - i - 1 >= in.singer_interval
                      /\ aired'[i].title = aired'[j].title => j - i - 1 >= in.track_interval
    BY <1>5 DEF RulesHold
  <2>1. i \in 1..n /\ aired'[i] = aired[i]
    BY <1>1, <1>5
  <2>2. CASE j = n + 1
    <3>1. aired'[j] = new /\ j - i - 1 = n - i
      BY <1>1, <1>5, <2>2
    <3>2. ruled /\ aired[i].singer = r.singer
      BY <2>1, <3>1
    <3> QED
      BY <1>8, <2>1, <3>1, <3>2
  <2>3. CASE j \in 1..n
    BY <1>5, <2>1, <2>3 DEF RulesHold
  <2> QED
    BY <1>1, <2>2, <2>3
<1>10. WeightsRise'
  <2> DEFINE Own(a, i, j) ==
               \A k \in i + 1..j - 1 : a[k].title = a[j].title =>
                    \/ k <= past
                    \/ a[k].ruled /\ a[k].singer = a[j].singer
  <2> SUFFICES ASSUME NEW j \in 1..n + 1, aired'[j].ruled, NEW i \in 1..j - 1,
                      aired'[i].singer = aired'[j].singer, aired'[i].title = aired'[j].title,
                      Own(aired', i, j)
               PROVE  aired'[i].statistics < aired'[j].statistics
    <3>1. Cardinality(Taken)' = past
      BY DEF past, Taken
    <3> QED
      BY <1>5, <3>1 DEF WeightsRise
  <2>1. \A k \in 1..n : aired[k].statistics \in Nat
    BY <1>5 DEF Airings
  <2>2. i \in 1..n /\ aired'[i] = aired[i] /\ aired[i].statistics \in Nat
    BY <1>1, <1>5, <2>1
  <2>3. \A k, l \in 1..n : /\ aired[l].ruled /\ k \in 1..l - 1 /\ Own(aired, k, l)
                           /\ aired[k].singer = aired[l].singer /\ aired[k].title = aired[l].title
                           => aired[k].statistics < aired[l].statistics
    BY <1>5 DEF WeightsRise, past
  <2>4. CASE j = n + 1
    <3>1. aired'[j] = new /\ j - 1 = n
      BY <1>1, <1>5, <2>4
    <3>2. ruled /\ aired[i].singer = r.singer /\ aired[i].title = r.title
      BY <2>2, <3>1
    <3>3. PICK m \in i..n : aired[m].title = r.title /\ aired[m].statistics =< weight
      BY <1>8, <2>2, <3>2
    <3>4. m \in 1..n /\ aired'[m] = aired[m] /\ aired[m].statistics \in Nat
      BY <1>1, <1>5, <2>1, <2>2, <3>3
    <3>5. \A k \in i + 1..n : aired[k].title = r.title =>
                k <= past \/ (aired[k].ruled /\ aired[k].singer = r.singer)
      <4> SUFFICES ASSUME NEW k \in i + 1..n, aired[k].title = r.title
                   PROVE  k <= past \/ (aired[k].ruled /\ aired[k].singer = r.singer)
        OBVIOUS
      <4>1. k \in i + 1..j - 1 /\ aired'[k] = aired[k]
        BY <1>1, <1>5, <2>2, <3>1
      <4>2. aired'[j].title = r.title /\ aired'[j].singer = r.singer
        BY <3>1
      <4> QED
        BY <4>1, <4>2, Zenon
    <3>6. aired[i].statistics =< aired[m].statistics
      <4>1. CASE m = i
        BY <2>2, <4>1
      <4>2. CASE m # i /\ m <= past
        <5>1. i \in 1..past /\ m \in 1..past
          BY <1>1, <2>2, <3>3, <3>4, <4>2
        <5> QED
          BY <1>1, <2>2, <3>2, <3>3, <5>1
      <4>3. CASE m # i /\ ~ (m <= past)
        <5>1. m \in i + 1..n /\ i \in 1..m - 1
          BY <1>1, <2>2, <3>3, <4>3
        <5>2. aired[m].ruled /\ aired[m].singer = r.singer
          BY <3>3, <3>5, <4>3, <5>1
        <5>3. Own(aired, i, m)
          <6>1. \A k \in i + 1..m - 1 : k \in i + 1..n
            BY <1>1, <2>2, <3>4
          <6> QED
            BY <3>3, <3>5, <5>2, <6>1
        <5>4. aired[i].statistics < aired[m].statistics
          BY <2>2, <2>3, <3>2, <3>3, <3>4, <5>1, <5>2, <5>3
        <5> QED
          BY <2>2, <3>4, <5>4
      <4> QED
        BY <4>1, <4>2, <4>3
    <3>7. aired'[j].statistics = weight + 1
      BY <3>1
    <3> QED
      BY <2>2, <3>3, <3>4, <3>6, <3>7
  <2>5. CASE j \in 1..n
    <3>1. aired'[j] = aired[j] /\ \A k \in i + 1..j - 1 : aired'[k] = aired[k]
      <4>1. n \in Nat /\ i \in 1..n
        BY <1>1, <2>2
      <4>2. \A k \in i + 1..j - 1 : k \in 1..n
        BY ONLY <2>5, <4>1
      <4> QED
        BY <1>5, <2>5, <4>2
    <3>2. Own(aired, i, j)
      BY <3>1
    <3> QED
      BY <2>2, <2>3, <2>5, <3>1, <3>2
  <2> QED
    BY <1>1, <2>4, <2>5
<1> QED
  BY <1>6, <1>9, <1>10

(* The walk over the records, and all other steps, keep them.              *)
LEMMA StepKeepsRules ==
    ASSUME WalkTypes, Gapless, HistoryInv, RulesHold, WeightsRise, [Next]_vars
    PROVE  HistoryInv' /\ RulesHold' /\ WeightsRise'
<1>1. in \in Inputs /\ in' = in
  <2>1. in \in Inputs
    BY DEF WalkTypes, TypeOK
  <2>2. in' = in
    BY DEF Next, vars, Prepare, CreatePlaylist, Walk, Visit, Completed, NextFolder,
           Again, GiveUp, Stop
  <2> QED
    BY <2>1, <2>2
<1>2. ASSUME UNCHANGED <<mHistory, aired>>
      PROVE  HistoryInv' /\ RulesHold' /\ WeightsRise'
  <2>1. mHistory' = mHistory /\ aired' = aired
    BY <1>2
  <2>2. Taken' = Taken
    BY <1>1 DEF Taken
  <2> QED
    BY <1>1, <2>1, <2>2 DEF HistoryInv, RulesHold, WeightsRise
<1>3. CASE Visit
  <2>1. CASE UNCHANGED <<mHistory, aired>>
    BY <1>2, <2>1
  <2>2. CASE \E r \in Record, weight \in Nat, ruled \in BOOLEAN : Put(r, weight, ruled)
    BY <1>1, <2>2, PutKeepsRules
  <2> QED
    BY <1>3, <2>1, <2>2, VisitPuts
<1>4. CASE ~Visit
  <2>1. UNCHANGED <<mHistory, aired>>
    BY <1>4 DEF Next, vars, Prepare, CreatePlaylist, Walk, Completed, NextFolder,
                Again, GiveUp, Stop
  <2> QED
    BY <1>2, <2>1
<1> QED
  BY <1>3, <1>4

(* With a gap in the history both properties say nothing; without one they *)
(* rest on the keys of mHistory, which the reverse iteration counts.       *)
LEMMA RulesInvariant == Spec => [](RulesHold /\ WeightsRise)
<1> DEFINE I == WalkTypes /\ (Gapless => HistoryInv /\ RulesHold /\ WeightsRise)
<1>1. Init => I
  BY InitTypes, InitHistory
<1>2. I /\ [Next]_vars => I'
  <2> SUFFICES ASSUME I, [Next]_vars PROVE I'
    OBVIOUS
  <2>1. WalkTypes'
    BY StepKeepsTypes
  <2>2. in' = in
    BY DEF Next, vars, Prepare, CreatePlaylist, Walk, Visit, Completed, NextFolder,
           Again, GiveUp, Stop
  <2>3. Gapless' <=> Gapless
    BY <2>2 DEF Gapless, Taken
  <2>4. CASE Gapless
    BY <2>1, <2>4, StepKeepsRules
  <2>5. CASE ~Gapless
    BY <2>1, <2>3, <2>5
  <2> QED
    BY <2>4, <2>5
<1>3. I => RulesHold /\ WeightsRise
  BY DEF RulesHold, WeightsRise
<1> QED
  BY <1>1, <1>2, <1>3, PTL DEF Spec

(* RulesHold: whatever the folders, orders, hours and calls, a track that  *)
(* find_record_in_history lets pass comes at the required distance after   *)
(* its singer and after itself, also after a history with incomplete       *)
(* records, unless they left a gap.                                        *)
THEOREM RotatorRulesHold == Spec => []RulesHold
<1>1. RulesHold /\ WeightsRise => RulesHold
  OBVIOUS
<1> QED
  BY <1>1, RulesInvariant, PTL

(* WeightsRise: the statistics of the airings of a track rise, because     *)
(* title_statistics_in_history compares the last one with the weight of    *)
(* the folder and add_to_playlist writes that weight plus one.             *)
THEOREM RotatorWeightsRise == Spec => []WeightsRise
<1>1. RulesHold /\ WeightsRise => WeightsRise
  OBVIOUS
<1> QED
  BY <1>1, RulesInvariant, PTL
=============================================================================
