----------------------------- MODULE MCRotator -----------------------------
(***************************************************************************)
(* Inputs for the rotator: two singers in a folder of three records, one   *)
(* of which has no title and one no duration, a folder of two, the first   *)
(* of its records known to the other folder and to a service folder, and   *)
(* an array with a gap, whose last title is that of another singer.        *)
(***************************************************************************)
EXTENDS Rotator, TLC

T(s, t, d) == [singer |-> s, title |-> t, duration |-> d]
F(tracks, svc) == [tracks |-> tracks, service |-> svc]

Songs == F(0 :> T("a", "a1", 2) @@ 1 :> T("b", "b1", NoDuration) @@ 2 :> T("a", "", 2), FALSE)
Hits == F(0 :> T("a", "a1", 2) @@ 1 :> T("a", "a2", 3), FALSE)
Jingles == F(0 :> T("a", "a1", 1), TRUE)
Gap == F(0 :> T("b", "b1", 1) @@ 2 :> T("b", "a2", 1), FALSE)
Empty == F(<<>>, FALSE)

(* Titles of which one begins another.                                     *)
MCPrefixes == {<<"a", "a1">>, <<"a", "a2">>}

(* Nothing, the same title once or twice, a title without a singer which   *)
(* weighs for a1 too, and a record without a title before one that is      *)
(* complete, which leaves a gap.                                           *)
Histories ==
    {<<>>, 0 :> T("a", "a1", 0),
     0 :> T("a", "a1", 0) @@ 1 :> T("a", "a1", 0),
     0 :> T("a", "a1", 0) @@ 1 :> [title |-> "a"],
     0 :> [singer |-> "b"] @@ 1 :> T("a", "a1", 0)}

Input(folders, orders, schedules, histories, times, limits, tracks) ==
    [folders : folders, order : orders, schedule : schedules, history : histories,
     now : times, general : limits, max_tracks : tracks,
     singer_interval : 0..2, track_interval : 0..2]

(* By an order, or by the names of the folders.                            *)
Ordered == Input({<<Songs, Hits, Jingles>>, <<Hits, Gap, Empty>>},
                 {<<>>, <<2, 1, 4>>, <<1, 3, 1>>}, {<<>>}, Histories, {0},
                 {0, 5}, {0, 1, 3})

(* By a schedule of a day of two hours; the longest folder is in every     *)
(* order.                                                                  *)
Scheduled == Input({<<Songs, Hits, Jingles>>}, {<<>>},
                   {0 :> <<1, 2>> @@ 1 :> <<1, 3>>, 1 :> <<1, 4>>},
                   Histories, {0, 5}, {0}, {0, 3})

(* The longest folder is in no order, and the one that is has only tracks  *)
(* of one singer, who has to pause for two.                                *)
WithoutLongest ==
    {i \in Input({<<Songs, Hits, Jingles>>}, {<<>>}, {0 :> <<2>>}, Histories,
                 {0}, {0}, {0}) : i.singer_interval = 2}

(* A title of one singer in two folders, by another singer in a third one, *)
(* in an order that comes to the first folder most often.                  *)
One(s, t) == F(0 :> T(s, t, 1), FALSE)
Cover == Input({<<One("a", "a1"), One("b", "a1"), One("a", "a1"),
                  F([k \in 0..3 |-> T("j", "j1", 1)], TRUE)>>},
               {<<1, 1, 1, 2, 3, 3, 4>>}, {<<>>}, {<<>>}, {0}, {0}, {5})

(* A number of tracks below zero, with tracks that may be on the air once; *)
(* after a history with a gap they would be for ever.                      *)
Once == {[i EXCEPT !.singer_interval = 0, !.track_interval = 9] :
            i \in Input({<<Songs, Hits>>}, {<<>>, <<1, 2>>}, {<<>>},
                        {h \in Histories : \A k \in DOMAIN h : Complete(h[k])},
                        {0}, {0}, {-1})}

MCInputs == Ordered \cup Scheduled \cup Cover \cup Once
=============================================================================
