---------------------------- MODULE Stream_proofs ----------------------------
(***************************************************************************)
(* Proofs about what surrounds the player of accordion: the connection to  *)
(* the streaming server, the pace, the processes of a channel, and the     *)
(* readers of files.                                                       *)
(***************************************************************************)
EXTENDS MCStream, NumberLemmas

-----------------------------------------------------------------------------
(* The client connection, for any number of descriptors and any limit of   *)
(* attempts that is configured.                                            *)

(* While an attempt is made, and as long as the object is connected, the   *)
(* socket of the object is open; an object that is connected is not in     *)
(* net_connect, and the last call it made has said so.                     *)
SocketInv ==
    /\ TypeOK
    /\ (f_connected \/ pc \in {"resolve", "attempt"}) => sock \in open
    /\ f_connected => pc = "idle" /\ returned = "connected"
    /\ pc # "idle" => returned = "none"
    /\ (pc = "idle" /\ returned = "none") => ~f_connected

LEMMA SocketInitInv == Init => SocketInv
<1> SUFFICES ASSUME Init PROVE SocketInv
  OBVIOUS
<1>1. connection_counter \in {0} \cup 1..max_conections
  BY DEF Init
<1>2. TypeOK
  BY <1>1, Zenon DEF Init, TypeOK
<1> QED
  BY <1>2 DEF Init, SocketInv

LEMMA SocketNextInv == SocketInv /\ [Next]_vars => SocketInv'
<1> SUFFICES ASSUME SocketInv, [Next]_vars PROVE SocketInv'
  OBVIOUS
<1> USE AttemptsAreNumbers, NoFdIsNoFd DEF SocketInv, TypeOK, Return
<1>1. CASE NetConnect
  BY <1>1 DEF NetConnect
<1>2. CASE SocketMade
  BY <1>2 DEF SocketMade
<1>3. CASE SocketFails
  BY <1>3 DEF SocketFails
<1>4. CASE Resolved
  BY <1>4 DEF Resolved
<1>5. CASE ResolveFails
  BY <1>5 DEF ResolveFails
<1>6. CASE AttemptConnects
  BY <1>6 DEF AttemptConnects
<1>7. CASE AttemptFails
  BY <1>7 DEF AttemptFails
<1>8. CASE GiveUp
  BY <1>8 DEF GiveUp
<1>9. CASE ClearConnectionCounter
  BY <1>9 DEF ClearConnectionCounter
<1>10. CASE NetClose
  BY <1>10 DEF NetClose
<1>11. CASE UNCHANGED vars
  BY <1>11 DEF vars
<1> QED
  BY <1>1, <1>2, <1>3, <1>4, <1>5, <1>6, <1>7, <1>8, <1>9, <1>10, <1>11
     DEF Next

THEOREM SocketInvariant == Spec => []SocketInv
  BY SocketInitInv, SocketNextInv, PTL DEF Spec

(* The attempts of a call never exceed the limit, whatever it is.          *)
THEOREM SocketTypeOK == Spec => []TypeOK
<1>1. SocketInv => TypeOK
  BY DEF SocketInv
<1> QED
  BY <1>1, SocketInvariant, PTL

(* A connected object owns an open descriptor, however many descriptors    *)
(* failed calls have left open.                                            *)
THEOREM SocketOwned == Spec => []ConnectedOwnsSocket
<1>1. SocketInv => ConnectedOwnsSocket
  BY DEF SocketInv, ConnectedOwnsSocket
<1> QED
  BY <1>1, SocketInvariant, PTL

(* net_connect ends in one of the three ways of Connection, and only a     *)
(* failed transfer or net_close ends a connection.                         *)
THEOREM SocketImplementsConnection == Spec => ImplementsConnection
<1>1. Init => Promise!Init
  BY DEF Init, Promise!Init
<1>2. SocketInv /\ [Next]_vars => [Promise!Next]_Promise!vars
  <2> SUFFICES ASSUME SocketInv, [Next]_vars
               PROVE  [Promise!Next]_Promise!vars
    OBVIOUS
  <2> USE DEF SocketInv, TypeOK, Return, Promise!Next, Promise!vars,
              Promise!Call, Promise!Return, Promise!Lose, Promise!Outcome
  <2>1. CASE NetConnect
    BY <2>1 DEF NetConnect
  <2>2. CASE SocketFails \/ ResolveFails \/ AttemptConnects \/ GiveUp
    BY <2>2 DEF SocketFails, ResolveFails, AttemptConnects, GiveUp
  <2>3. CASE NetClose
    BY <2>3 DEF NetClose
  <2>4. CASE \/ SocketMade \/ Resolved \/ AttemptFails
             \/ ClearConnectionCounter \/ UNCHANGED vars
    BY <2>4 DEF SocketMade, Resolved, AttemptFails, ClearConnectionCounter,
                vars
  <2> QED
    BY <2>1, <2>2, <2>3, <2>4 DEF Next
<1> QED
  BY <1>1, <1>2, SocketInvariant, PTL
     DEF Spec, ImplementsConnection, Promise!Spec

-----------------------------------------------------------------------------
(* The pace, for all lengths of tracks, numbers of tracks, and times that  *)
(* opening and sending take.                                               *)

(* What is needed of the constants: a unit that divides the pauses, a      *)
(* buffer of about 2 to 3 seconds (3 is the value without a configuration  *)
(* and that of the example), tracks of at least 10 seconds, and a longest  *)
(* time of opening.                                                        *)
Usual ==
    /\ Unit \in {1, 5, 25}
    /\ buffer_size \in Ms(2100)..Ms(3000)
    /\ \A len \in Lengths : len >= Ms(10000)
    /\ \E time \in Opens : \A t \in Opens : time >= t

M == Max(Opens)

LEMMA MaxOpens == ASSUME Usual PROVE M \in Nat /\ \A t \in Opens : t <= M
<1> DEFINE P(x) == x \in Opens /\ \A t \in Opens : x >= t
<1>1. \E x : P(x)
  BY DEF Usual
<1>2. M = CHOOSE x : P(x)
  BY DEF M, Max
<1>3. P(M)
  BY <1>1, <1>2, Zenon
<1> QED
  BY <1>3, PacingConstants

LEMMA MinOfTwo ==
    ASSUME NEW a \in Int, NEW b \in Int
    PROVE  Min({a, b}) = IF a <= b THEN a ELSE b
<1> DEFINE P(x) == x \in {a, b} /\ \A y \in {a, b} : x =< y
<1>1. P(IF a <= b THEN a ELSE b)
  OBVIOUS
<1>2. Min({a, b}) = CHOOSE x : P(x)
  BY DEF Min
<1>3. P(Min({a, b}))
  BY <1>1, <1>2, Zenon
<1> QED
  BY <1>3

(* All times of the code are multiples of 25 ms. *)
LEMMA Units ==
    ASSUME Usual
    PROVE  \E k \in Nat \ {0} :
              /\ Ms(100) = 4 * k /\ Ms(900) = 36 * k /\ Ms(975) = 39 * k
              /\ Ms(1000) = 40 * k /\ Ms(1100) = 44 * k /\ Ms(2000) = 80 * k
              /\ Ms(2100) = 84 * k /\ Ms(3000) = 120 * k /\ Ms(10000) = 400 * k
<1>1. CASE Unit = 1
  <2> WITNESS 25 \in Nat \ {0}
  <2> QED BY <1>1 DEF Ms
<1>2. CASE Unit = 5
  <2> WITNESS 5 \in Nat \ {0}
  <2> QED BY <1>2 DEF Ms
<1>3. CASE Unit = 25
  <2> WITNESS 1 \in Nat \ {0}
  <2> QED BY <1>3 DEF Ms
<1> QED
  BY <1>1, <1>2, <1>3 DEF Usual

-----------------------------------------------------------------------------
(* Gain is how far the track was ahead of its clock by what was sent of it, *)
(* Due how much music is accounted for: what was sent less the time, with  *)
(* the time and the music that connecting and failing have cost.           *)
Gain == time_sent - time_elapsed
Due == ahead + lost + outage

(* The part of the last block that lies behind the end of the track.       *)
Overhang == IF time_read > length THEN time_read - length ELSE 0

(* What was sent of the track never exceeds its clock by more than the     *)
(* buffer, and a block that was not sent is missing for good.  Earlier     *)
(* tracks have left no more ahead than the blocks that were lost in them.  *)
TrackInv ==
    phase = "play" =>
        /\ tracks > 0
        /\ length \in Lengths
        /\ Gain <= buffer_size
        /\ time_read < length + Ms(1000)
        /\ time_sent = time_read \/ time_sent + Ms(1000) <= time_read
        /\ time_sent <= length => ahead <= lost - (time_read - time_sent) + Gain
        /\ time_sent > length =>
               ahead <= lost - (time_read - time_sent) + length - time_elapsed

(* Nor have they let the server fall behind by more than the time of their *)
(* opening; while no block has stalled the track gains 100 ms with each    *)
(* block until it is within 1100 ms of the buffer, so that 10 seconds make *)
(* up for a last block that is only partly music.                          *)
BehindInv(m1) ==
    phase = "play" /\ ~stalled =>
        /\ Due >= -m1 + time_read - Overhang - time_elapsed
        /\ \/ 10 * (Due + Overhang + m1 + M) >= time_read
           \/ Due + Overhang + m1 >= buffer_size - Ms(1100)

Opened == IF phase = "play" THEN tracks - 1 ELSE tracks

RestInv ==
    phase = "open" => ahead <= lost /\ (~stalled => Due >= -(tracks * M))

PacingInv == PacingTypeOK /\ TrackInv /\ BehindInv(Opened * M) /\ RestInv

LEMMA PacingNumbers ==
    ASSUME Usual, PacingTypeOK
    PROVE  /\ M \in Nat /\ buffer_size \in Nat
           /\ length \in Nat /\ time_read \in Nat /\ time_sent \in Nat
           /\ time_elapsed \in Nat /\ ahead \in Int /\ lost \in Nat /\ outage \in Nat
           /\ tracks \in Nat /\ tracks * M \in Nat
           /\ phase = "play" /\ tracks > 0 =>
                  Opened * M \in Nat /\ tracks * M = Opened * M + M
<1>1. /\ M \in Nat /\ buffer_size \in Nat
      /\ length \in Nat /\ time_read \in Nat /\ time_sent \in Nat
      /\ time_elapsed \in Nat /\ ahead \in Int /\ lost \in Nat /\ outage \in Nat
      /\ tracks \in Nat
  BY MaxOpens, PacingConstants DEF PacingTypeOK
<1>2. tracks * M \in Nat
  BY <1>1
<1>3. ASSUME phase = "play", tracks > 0
      PROVE  Opened * M \in Nat /\ tracks * M = Opened * M + M
  <2>1. Opened = tracks - 1 /\ tracks - 1 \in Nat
    BY <1>1, <1>3 DEF Opened
  <2>2. (tracks - 1) * M \in Nat /\ tracks * M = (tracks - 1) * M + M
    BY <1>1, <2>1
  <2> QED
    BY <2>1, <2>2
<1> QED
  BY <1>1, <1>2, <1>3

LEMMA PacingInitInv == Usual /\ PacingInit => PacingInv
<1> SUFFICES ASSUME Usual, PacingInit PROVE PacingInv
  OBVIOUS
<1>1. PacingTypeOK
  <2>1. tracks \in 0..MaxTracks
    BY PacingConstants DEF PacingInit
  <2>2. /\ phase \in {"open", "play", "over"} /\ length \in Lengths \union {0}
        /\ time_read \in Nat /\ time_sent \in Nat /\ time_elapsed \in Nat
        /\ ahead \in Int /\ lost \in Nat /\ outage \in Nat
    BY DEF PacingInit
  <2>3. link \in BOOLEAN /\ stalled \in BOOLEAN
    BY Zenon DEF PacingInit
  <2> QED
    BY <2>1, <2>2, <2>3, Zenon DEF PacingTypeOK
<1>2. TrackInv /\ BehindInv(Opened * M)
  BY DEF PacingInit, TrackInv, BehindInv
<1>3. tracks * M = 0
  BY MaxOpens DEF PacingInit
<1>4. RestInv
  BY <1>3 DEF PacingInit, RestInv, Due
<1> QED
  BY <1>1, <1>2, <1>4 DEF PacingInv

LEMMA PacedOpenInv ==
    ASSUME Usual, PacingInv, NEW time \in Opens, NEW len \in Lengths, PacedOpen(time, len)
    PROVE  PacingInv'
<1> PICK k \in Nat \ {0} :
        /\ Ms(1000) = 40 * k /\ Ms(1100) = 44 * k
        /\ Ms(2100) = 84 * k /\ Ms(3000) = 120 * k /\ Ms(10000) = 400 * k
  BY Units
<1> USE DEF PacingInv
<1> DEFINE m1 == tracks * M
<1>1. M \in Nat /\ time <= M /\ time \in Nat /\ len \in Nat
  BY MaxOpens, PacingConstants
<1>2. buffer_size \in 84 * k .. 120 * k /\ len >= 400 * k
  BY DEF Usual
<1>3. PacingTypeOK'
  BY <1>1, PacingNumbers, PacingConstants DEF PacingTypeOK, PacedOpen
<1>4. /\ ahead <= lost /\ (~stalled => Due >= -m1) /\ m1 \in Nat
      /\ ahead \in Int /\ lost \in Nat /\ outage \in Nat
  BY PacingNumbers DEF RestInv, PacedOpen
<1>5. TrackInv'
  BY <1>1, <1>2, <1>4, PacingNumbers DEF PacedOpen, TrackInv, Gain
<1>6. Opened' * M' = m1
  BY PacingNumbers DEF PacedOpen, Opened, M
<1>7. BehindInv(Opened * M)'
  <2> HIDE DEF m1
  <2>1. M' = M /\ Due' = Due - time /\ stalled' = stalled /\ phase' = "play"
        /\ Overhang' = 0 /\ time_read' = 0 /\ time_elapsed' = time
    BY <1>1, <1>2, <1>4 DEF M, Due, PacedOpen, Overhang
  <2>2. Due \in Int
    BY <1>4 DEF Due
  <2> QED
    BY <1>1, <1>4, <1>6, <2>1, <2>2 DEF BehindInv
<1>8. RestInv'
  BY DEF RestInv, PacedOpen
<1> QED
  BY <1>3, <1>5, <1>7, <1>8

LEMMA PacedConnectInv ==
    ASSUME Usual, PacingInv, NEW time \in Outages, PacedConnect(time)
    PROVE  PacingInv'
<1> USE DEF PacingInv
<1>1. time \in Nat
  BY PacingConstants
<1>2. /\ phase = "play" /\ time_elapsed' = time_elapsed + time
      /\ ahead' = ahead - time /\ outage' = outage + time /\ link' = TRUE
      /\ UNCHANGED <<phase, length, time_read, time_sent, lost, stalled, tracks>>
  BY DEF PacedConnect
<1>3. PacingTypeOK'
  <2>1. time_elapsed' \in Nat /\ ahead' \in Int /\ outage' \in Nat
    BY <1>1, <1>2, PacingNumbers
  <2> QED
    BY <1>2, <2>1 DEF PacingTypeOK
<1>4. TrackInv'
  BY <1>1, <1>2, PacingNumbers DEF TrackInv, Gain
<1>5. Opened' * M' = Opened * M /\ M' = M
  BY <1>2 DEF Opened, M
<1>6. Due' = Due /\ Overhang' = Overhang
  BY <1>1, <1>2, PacingNumbers DEF Due, Overhang
<1>7. BehindInv(Opened * M)'
  <2> DEFINE m1 == Opened * M
  <2>1. m1 \in Nat /\ Due \in Int /\ Overhang \in Nat
    BY <1>2, PacingNumbers DEF TrackInv, Due, Overhang
  <2>2. BehindInv(m1) /\ Opened' * M' = m1
    BY <1>5
  <2> HIDE DEF m1
  <2> QED
    BY <1>1, <1>2, <1>5, <1>6, <2>1, <2>2, PacingNumbers DEF BehindInv
<1>8. RestInv'
  BY <1>2 DEF RestInv
<1> QED
  BY <1>3, <1>4, <1>7, <1>8

LEMMA StallsWhenSlow ==
    ASSUME PacingTypeOK, NEW send_lag \in Lags, NEW sent, NEW music,
           PacedBlock(send_lag, sent, music)
    PROVE  (~stalled' => ~stalled /\ ~(send_lag > Ms(900))) /\ stalled' \in BOOLEAN
<1>1. stalled \in BOOLEAN
  BY DEF PacingTypeOK
<1>2. stalled' = IF send_lag > Ms(900) THEN TRUE ELSE stalled
  BY Zenon DEF PacedBlock
<1>3. CASE send_lag > Ms(900)
  <2>1. stalled' = TRUE
    BY <1>2, <1>3, Zenon
  <2> QED
    BY <2>1, Zenon
<1>4. CASE ~(send_lag > Ms(900))
  <2>1. stalled' = stalled
    BY <1>2, <1>4, Zenon
  <2> QED
    BY <1>1, <1>4, <2>1, Zenon
<1> QED
  BY <1>3, <1>4, Zenon

LEMMA PacingNextType == PacingTypeOK /\ [PacingNext]_pacing_vars => PacingTypeOK'
<1> SUFFICES ASSUME PacingTypeOK, [PacingNext]_pacing_vars PROVE PacingTypeOK'
  OBVIOUS
<1>0. /\ length \in Nat /\ time_read \in Nat /\ time_sent \in Nat /\ time_elapsed \in Nat
      /\ ahead \in Int /\ lost \in Nat /\ outage \in Nat /\ tracks \in Nat
  BY PacingConstants DEF PacingTypeOK
<1>1. ASSUME NEW t \in Nat PROVE Ms(t) \in Nat
  BY PacingConstants DEF Ms
<1>2. ASSUME NEW time \in Opens, NEW len \in Lengths, PacedOpen(time, len)
      PROVE  PacingTypeOK'
  BY <1>0, <1>2, PacingConstants DEF PacedOpen, PacingTypeOK
<1>3. ASSUME NEW time \in Outages, PacedConnect(time) PROVE PacingTypeOK'
  <2>1. time_elapsed' \in Nat /\ ahead' \in Int /\ outage' \in Nat
    BY <1>0, <1>3, PacingConstants DEF PacedConnect
  <2> QED
    BY <1>3, <2>1 DEF PacedConnect, PacingTypeOK
<1>4. ASSUME NEW send_lag \in Lags, NEW sent \in Nat, NEW music \in Int,
             PacedBlock(send_lag, sent, music), link' \in BOOLEAN, lost' \in Nat
      PROVE  PacingTypeOK'
  <2> DEFINE now == time_elapsed + send_lag
             p == Pause(Floor(sent - now))
             wait == Floor(p - send_lag)
  <2>1. now \in Nat /\ Second \in Nat /\ send_lag \in Nat
    BY <1>0, <1>1, PacingConstants DEF Second
  <2>2. p \in Nat
    <3>1. Ms(900) \in Nat /\ Ms(975) \in Nat /\ Ms(1100) \in Nat
      BY <1>1
    <3> QED
      BY <3>1 DEF Pause
  <2>3. /\ time_elapsed' = time_elapsed + (send_lag + wait)
        /\ ahead' = ahead + music - (send_lag + wait)
        /\ time_sent' = sent /\ time_read' = time_read + Second
        /\ UNCHANGED <<phase, length, outage, tracks>>
    BY <1>4 DEF PacedBlock
  <2>4. stalled' \in BOOLEAN
    BY <1>4, StallsWhenSlow
  <2> HIDE DEF now, p
  <2>5. wait \in Nat
    BY <2>1, <2>2 DEF Floor
  <2> HIDE DEF wait
  <2>6. time_elapsed' \in Nat /\ time_sent' \in Nat /\ time_read' \in Nat /\ ahead' \in Int
    BY <1>0, <1>4, <2>1, <2>3, <2>5
  <2> QED
    BY <1>4, <2>3, <2>4, <2>6 DEF PacingTypeOK
<1>5. ASSUME NEW send_lag \in Lags, BlockSent(send_lag) PROVE PacingTypeOK'
  <2>1. Second \in Nat
    BY <1>1 DEF Second
  <2> DEFINE music == Min({Second, length - time_read})
  <2>2. music \in Int
    BY <1>0, <2>1, MinOfTwo
  <2>3. PacedBlock(send_lag, time_sent + Second, music) /\ link' = link /\ lost' = lost
    BY <1>5 DEF BlockSent
  <2> HIDE DEF music
  <2>4. time_sent + Second \in Nat
    BY <1>0, <2>1
  <2> QED
    BY <1>0, <1>4, <2>2, <2>3, <2>4 DEF PacingTypeOK
<1>6. ASSUME NEW send_lag \in Lags, BlockLost(send_lag) PROVE PacingTypeOK'
  <2>1. Second \in Nat
    BY <1>1 DEF Second
  <2>2. PacedBlock(send_lag, time_sent, 0) /\ link' = FALSE /\ lost' = lost + Second
    BY <1>6 DEF BlockLost
  <2>3. lost' \in Nat /\ 0 \in Int
    BY <1>0, <2>1, <2>2
  <2>4. link' \in BOOLEAN
    BY <2>2, Zenon
  <2> QED
    BY <1>0, <1>4, <2>2, <2>3, <2>4
<1>7. CASE PacedEnd
  <2>1. ahead' \in Int
    <3> DEFINE rest == length - time_elapsed
    <3>1. Ms(2000) \in Nat /\ Floor(rest) \in Int /\ rest \in Int
      BY <1>0, <1>1 DEF Floor
    <3> QED
      BY <1>0, <1>7, <3>1 DEF PacedEnd
  <2>2. /\ phase' \in {"over", "open"}
        /\ UNCHANGED <<link, length, time_read, time_sent, time_elapsed, lost, outage,
                       stalled, tracks>>
    BY <1>7 DEF PacedEnd, within
  <2> QED
    BY <2>1, <2>2 DEF PacingTypeOK
<1>8. CASE PacedGiveUp
  BY <1>8 DEF PacedGiveUp, within, account, PacingTypeOK
<1>9. CASE UNCHANGED pacing_vars
  BY <1>9 DEF pacing_vars, within, account, PacingTypeOK
<1> QED
  BY <1>2, <1>3, <1>5, <1>6, <1>7, <1>8, <1>9 DEF PacingNext

(* A block takes as long as it is sent, or as the pause that follows from  *)
(* what was sent and the clock.                                            *)
LEMMA BlockSpends ==
    ASSUME Usual, PacingTypeOK, NEW send_lag \in Lags, NEW sent \in Nat, NEW music \in Int,
           PacedBlock(send_lag, sent, music),
           NEW k \in Nat \ {0}, Ms(100) = 4 * k, Ms(900) = 36 * k, Ms(975) = 39 * k,
           Ms(1000) = 40 * k, Ms(1100) = 44 * k,
           Ms(2100) = 84 * k, Ms(3000) = 120 * k
    PROVE  \E T \in Nat :
             /\ time_elapsed' = time_elapsed + T /\ ahead' = ahead + music - T
             /\ T >= send_lag /\ T >= 36 * k
             /\ T = send_lag \/ T = 36 * k \/ T = 39 * k \/ T = 44 * k
             /\ sent - time_elapsed - send_lag > buffer_size => T >= 44 * k
             /\ sent - time_elapsed - send_lag >= buffer_size - 4 * k => T >= 39 * k
             /\ ~(send_lag > 36 * k) =>
                    \/ T = 36 * k
                    \/ T = 39 * k /\ sent - time_elapsed - send_lag >= buffer_size - 4 * k
                    \/ T = 44 * k /\ sent - time_elapsed - send_lag > buffer_size
<1>1. send_lag \in Nat /\ time_elapsed \in Nat /\ ahead \in Int
  BY PacingConstants DEF PacingTypeOK
<1>2. buffer_size \in 84 * k .. 120 * k
  BY DEF Usual
<1> DEFINE bs == Floor(sent - (time_elapsed + send_lag))
           pause == Pause(bs)
           T == send_lag + Floor(pause - send_lag)
<1>3. /\ bs \in Nat
      /\ bs = IF sent - time_elapsed - send_lag > 0 THEN sent - time_elapsed - send_lag ELSE 0
  BY <1>1 DEF Floor
<1>4. /\ pause = IF bs < buffer_size - 4 * k THEN 36 * k
                 ELSE IF bs > buffer_size THEN 44 * k ELSE 39 * k
      /\ pause \in Nat
  BY <1>2, <1>3 DEF Pause
<1>5. time_elapsed' = time_elapsed + T /\ ahead' = ahead + music - T
  BY DEF PacedBlock
<1> HIDE DEF bs, pause
<1>6. T \in Nat /\ T = IF pause > send_lag THEN pause ELSE send_lag
  BY <1>1, <1>4 DEF Floor
<1> HIDE DEF T
<1>7. /\ T >= send_lag /\ T >= 36 * k
      /\ T = send_lag \/ T = 36 * k \/ T = 39 * k \/ T = 44 * k
  BY <1>1, <1>4, <1>6
<1>8. /\ sent - time_elapsed - send_lag > buffer_size => T >= 44 * k
      /\ sent - time_elapsed - send_lag >= buffer_size - 4 * k => T >= 39 * k
  BY <1>1, <1>2, <1>3, <1>4, <1>6
<1>9. ~(send_lag > 36 * k) =>
          \/ T = 36 * k
          \/ T = 39 * k /\ sent - time_elapsed - send_lag >= buffer_size - 4 * k
          \/ T = 44 * k /\ sent - time_elapsed - send_lag > buffer_size
  BY <1>1, <1>2, <1>3, <1>4, <1>6
<1>10. T \in Nat
  BY <1>6
<1> USE <1>10
<1> WITNESS T \in Nat
<1> QED
  BY <1>5, <1>7, <1>8, <1>9

LEMMA BlockSentInv ==
    ASSUME Usual, PacingInv, NEW send_lag \in Lags, BlockSent(send_lag)
    PROVE  PacingInv'
<1> PICK k \in Nat \ {0} :
        /\ Ms(100) = 4 * k /\ Ms(900) = 36 * k /\ Ms(975) = 39 * k
        /\ Ms(1000) = 40 * k /\ Ms(1100) = 44 * k /\ Ms(2100) = 84 * k
        /\ Ms(3000) = 120 * k /\ Ms(10000) = 400 * k
  BY Units
<1> USE DEF PacingInv
<1> DEFINE left == length - time_read
           music == IF 40 * k <= left THEN 40 * k ELSE left
           sent == time_sent + 40 * k
           m1 == Opened * M
<1>1. /\ send_lag \in Nat /\ M \in Nat
      /\ buffer_size \in 84 * k .. 120 * k
      /\ length \in Nat /\ time_read \in Nat /\ time_sent \in Nat /\ time_elapsed \in Nat
      /\ ahead \in Int /\ lost \in Nat /\ outage \in Nat /\ tracks \in Nat
  BY PacingNumbers, PacingConstants DEF Usual
<1>2. Min({Second, length - time_read}) = music
  <2>1. Second = 40 * k /\ left \in Int
    BY <1>1 DEF Second
  <2> QED
    BY <1>1, <2>1, MinOfTwo
<1>3. /\ PacedBlock(send_lag, sent, music) /\ link' = link /\ lost' = lost
  BY <1>2 DEF BlockSent, Second
<1>4. /\ phase = "play" /\ time_read < length
      /\ time_read' = time_read + 40 * k /\ time_sent' = sent
      /\ UNCHANGED <<phase, length, outage, tracks>>
  BY <1>3 DEF PacedBlock, Second
<1>5. sent \in Nat /\ music \in Int
  BY <1>1, <1>4
<1>6. PICK T \in Nat :
        /\ time_elapsed' = time_elapsed + T /\ ahead' = ahead + music - T
        /\ T >= send_lag /\ T >= 36 * k
        /\ sent - time_elapsed - send_lag > buffer_size => T >= 44 * k
        /\ sent - time_elapsed - send_lag >= buffer_size - 4 * k => T >= 39 * k
        /\ ~(send_lag > 36 * k) =>
               \/ T = 36 * k
               \/ T = 39 * k /\ sent - time_elapsed - send_lag >= buffer_size - 4 * k
               \/ T = 44 * k /\ sent - time_elapsed - send_lag > buffer_size
  BY <1>3, <1>5, BlockSpends
<1>7. (~stalled' => ~stalled /\ ~(send_lag > 36 * k)) /\ stalled' \in BOOLEAN
  BY <1>3, StallsWhenSlow
<1>8. PacingTypeOK'
  BY PacingNextType DEF PacingNext
<1>9. /\ tracks > 0 /\ length \in Lengths
      /\ time_sent - time_elapsed <= buffer_size
      /\ time_sent = time_read \/ time_sent + 40 * k <= time_read
      /\ ahead <= lost - (time_read - time_sent) + time_sent - time_elapsed
  BY <1>1, <1>4 DEF TrackInv, Gain
<1>10. TrackInv'
  <2>1. time_sent' - time_elapsed' <= buffer_size
    BY <1>1, <1>4, <1>6, <1>9
  <2>2. /\ time_read' < length' + 40 * k
        /\ time_sent' = time_read' \/ time_sent' + 40 * k <= time_read'
    BY <1>1, <1>4, <1>9
  <2>3. time_sent' <= length' =>
            ahead' <= lost' - (time_read' - time_sent') + time_sent' - time_elapsed'
    BY <1>1, <1>3, <1>4, <1>6, <1>9
  <2>4. time_sent' > length' =>
            ahead' <= lost' - (time_read' - time_sent') + length' - time_elapsed'
    BY <1>1, <1>3, <1>4, <1>6, <1>9
  <2> QED
    BY <1>1, <1>4, <1>5, <1>6, <1>9, <2>1, <2>2, <2>3, <2>4 DEF TrackInv, Gain
<1>11. m1 \in Nat /\ Opened' * M' = m1 /\ M' = M
  <2>1. Opened' = Opened /\ M' = M
    BY <1>4 DEF Opened, M
  <2> QED
    BY <1>4, <1>9, <2>1, PacingNumbers
<1>12. BehindInv(Opened * M)'
  <2> SUFFICES ASSUME ~stalled' PROVE BehindInv(Opened * M)'
    BY DEF BehindInv
  <2>1. /\ Overhang = 0 /\ Overhang' = 40 * k - music
        /\ Due' = Due + music - T /\ Due \in Int
    BY <1>1, <1>3, <1>4, <1>6 DEF Overhang, Due
  <2>2. BehindInv(m1) /\ ~stalled
    BY <1>7
  <2> HIDE DEF m1
  <2>3. /\ Due + m1 >= time_read - time_elapsed
        /\ 10 * (Due + m1 + M) >= time_read \/ Due + m1 >= buffer_size - 44 * k
    BY <1>1, <1>4, <1>11, <2>1, <2>2 DEF BehindInv
  <2>4. Due' + m1 + Overhang' = Due + m1 + 40 * k - T
    BY <1>1, <1>5, <1>11, <2>1
  <2>5. Due' + m1 + Overhang' >= time_read' - time_elapsed'
    BY <1>1, <1>4, <1>6, <1>11, <2>1, <2>3, <2>4
  <2>6. \/ 10 * (Due' + Overhang' + m1 + M) >= time_read'
        \/ Due' + Overhang' + m1 >= buffer_size - 44 * k
    <3>1. CASE T = 36 * k
      <4>1. Due' + m1 + Overhang' = Due + m1 + 4 * k
        BY <2>1, <2>4, <3>1, <1>1, <1>11
      <4>2. Overhang' \in Int /\ Due' \in Int
        BY <1>1, <1>5, <2>1, <1>4, <1>6
      <4> QED
        BY <1>1, <1>4, <1>11, <2>1, <2>3, <4>1, <4>2
    <3>2. CASE T = 39 * k /\ sent - time_elapsed - send_lag >= buffer_size - 4 * k
      BY <1>1, <1>4, <1>6, <1>7, <1>9, <1>11, <2>1, <2>5, <3>2
    <3>3. CASE T = 44 * k /\ sent - time_elapsed - send_lag > buffer_size
      BY <1>1, <1>4, <1>6, <1>7, <1>9, <1>11, <2>1, <2>5, <3>3
    <3> QED
      BY <1>6, <1>7, <3>1, <3>2, <3>3
  <2> DEFINE after == Opened' * M'
             most == M'
             less == Ms(1100)
  <2>7. after = m1 /\ most = M /\ m1 \in Nat /\ less = 44 * k
    BY <1>11
  <2> HIDE DEF after, most, less
  <2>8. Due' >= -after + time_read' - Overhang' - time_elapsed'
    BY <1>1, <1>4, <1>5, <1>6, <2>1, <2>5, <2>7
  <2>9. \/ 10 * (Due' + Overhang' + after + most) >= time_read'
         \/ Due' + Overhang' + after >= buffer_size - less
    BY <1>1, <1>4, <1>5, <1>6, <2>1, <2>6, <2>7
  <2> QED
    BY <2>8, <2>9 DEF BehindInv, after, most, less
<1>13. RestInv'
  BY <1>4 DEF RestInv
<1> QED
  BY <1>8, <1>10, <1>12, <1>13

LEMMA BlockLostInv ==
    ASSUME Usual, PacingInv, NEW send_lag \in Lags, BlockLost(send_lag)
    PROVE  PacingInv'
<1> PICK k \in Nat \ {0} :
        /\ Ms(100) = 4 * k /\ Ms(900) = 36 * k /\ Ms(975) = 39 * k
        /\ Ms(1000) = 40 * k /\ Ms(1100) = 44 * k /\ Ms(2100) = 84 * k
        /\ Ms(3000) = 120 * k /\ Ms(10000) = 400 * k
  BY Units
<1> USE DEF PacingInv
<1> DEFINE m1 == Opened * M
<1>1. /\ send_lag \in Nat /\ M \in Nat
      /\ buffer_size \in 84 * k .. 120 * k
      /\ length \in Nat /\ time_read \in Nat /\ time_sent \in Nat /\ time_elapsed \in Nat
      /\ ahead \in Int /\ lost \in Nat /\ outage \in Nat /\ tracks \in Nat
  BY PacingNumbers, PacingConstants DEF Usual
<1>2. PacedBlock(send_lag, time_sent, 0) /\ link' = FALSE /\ lost' = lost + 40 * k
  BY DEF BlockLost, Second
<1>3. /\ phase = "play" /\ time_read < length
      /\ time_read' = time_read + 40 * k /\ time_sent' = time_sent
      /\ UNCHANGED <<phase, length, outage, tracks>>
  BY <1>2 DEF PacedBlock, Second
<1>4. PICK T \in Nat :
        /\ time_elapsed' = time_elapsed + T /\ ahead' = ahead - T
        /\ T >= send_lag /\ T >= 36 * k
        /\ ~(send_lag > 36 * k) =>
               \/ T = 36 * k
               \/ T = 39 * k /\ time_sent - time_elapsed - send_lag >= buffer_size - 4 * k
               \/ T = 44 * k /\ time_sent - time_elapsed - send_lag > buffer_size
  BY <1>1, <1>2, BlockSpends
<1>5. (~stalled' => ~stalled /\ ~(send_lag > 36 * k)) /\ stalled' \in BOOLEAN
  BY <1>2, StallsWhenSlow
<1>6. PacingTypeOK'
  BY PacingNextType DEF PacingNext
<1>7. /\ tracks > 0 /\ length \in Lengths
      /\ time_sent - time_elapsed <= buffer_size
      /\ time_sent = time_read \/ time_sent + 40 * k <= time_read
      /\ ahead <= lost - (time_read - time_sent) + time_sent - time_elapsed
  BY <1>1, <1>3 DEF TrackInv, Gain
<1>8. TrackInv'
  <2>1. time_sent' - time_elapsed' <= buffer_size
    BY <1>1, <1>3, <1>4, <1>7
  <2>2. time_read' < length' + 40 * k /\ time_sent' + 40 * k <= time_read' /\ time_sent' <= length'
    BY <1>1, <1>3, <1>7
  <2>3. ahead' <= lost' - (time_read' - time_sent') + time_sent' - time_elapsed'
    BY <1>1, <1>2, <1>3, <1>4, <1>7
  <2> QED
    BY <1>1, <1>2, <1>3, <1>4, <1>7, <2>1, <2>2, <2>3 DEF TrackInv, Gain
<1>9. m1 \in Nat /\ Opened' * M' = m1 /\ M' = M
  <2>1. Opened' = Opened /\ M' = M
    BY <1>3 DEF Opened, M
  <2> QED
    BY <1>3, <1>7, <2>1, PacingNumbers
<1>10. BehindInv(Opened * M)'
  <2> SUFFICES ASSUME ~stalled' PROVE BehindInv(Opened * M)'
    BY DEF BehindInv
  <2>1. /\ Overhang = 0
        /\ Overhang' = IF time_read + 40 * k > length THEN time_read + 40 * k - length ELSE 0
        /\ Due' = Due + 40 * k - T /\ Due \in Int
    BY <1>1, <1>2, <1>3, <1>4 DEF Overhang, Due
  <2>2. BehindInv(m1) /\ ~stalled
    BY <1>5
  <2> HIDE DEF m1
  <2>3. /\ Due + m1 >= time_read - time_elapsed
        /\ 10 * (Due + m1 + M) >= time_read \/ Due + m1 >= buffer_size - 44 * k
    BY <1>1, <1>3, <1>9, <2>1, <2>2 DEF BehindInv
  <2>4. Due' + m1 >= time_read' - time_elapsed'
    BY <1>1, <1>3, <1>4, <1>9, <2>1, <2>3
  <2>5. \/ 10 * (Due' + m1 + M) >= time_read'
        \/ Due' + m1 >= buffer_size - 44 * k
    <3>1. CASE T = 36 * k
      BY <1>1, <1>3, <1>9, <2>1, <2>3, <3>1
    <3>2. CASE T = 39 * k /\ time_sent - time_elapsed - send_lag >= buffer_size - 4 * k
      BY <1>1, <1>3, <1>4, <1>7, <1>9, <2>1, <2>4, <3>2
    <3>3. CASE T = 44 * k /\ time_sent - time_elapsed - send_lag > buffer_size
      BY <1>1, <1>3, <1>4, <1>7, <1>9, <2>1, <2>4, <3>3
    <3> QED
      BY <1>4, <1>5, <3>1, <3>2, <3>3
  <2> DEFINE after == Opened' * M'
             most == M'
             less == Ms(1100)
  <2>6. after = m1 /\ most = M /\ m1 \in Nat /\ less = 44 * k
    BY <1>9
  <2> HIDE DEF after, most, less
  <2>7. Due' >= -after + time_read' - Overhang' - time_elapsed'
    BY <1>1, <1>3, <1>4, <2>1, <2>4, <2>6
  <2>8. \/ 10 * (Due' + Overhang' + after + most) >= time_read'
        \/ Due' + Overhang' + after >= buffer_size - less
    BY <1>1, <1>3, <1>4, <2>1, <2>5, <2>6
  <2> QED
    BY <2>7, <2>8 DEF BehindInv, after, most, less
<1>11. RestInv'
  BY <1>3 DEF RestInv
<1> QED
  BY <1>6, <1>8, <1>10, <1>11

(* How far the server may be behind when a track ends, or a block is due.  *)
LEMMA BehindByOpening ==
    ASSUME Usual, PacingInv, phase = "play", ~stalled
    PROVE  Due >= -(tracks * M)
<1> PICK k \in Nat \ {0} :
        /\ Ms(1000) = 40 * k /\ Ms(1100) = 44 * k
        /\ Ms(2100) = 84 * k /\ Ms(3000) = 120 * k /\ Ms(10000) = 400 * k
  BY Units
<1> DEFINE m1 == Opened * M
<1>1. /\ M \in Nat /\ m1 \in Nat /\ tracks * M = m1 + M
      /\ length \in Nat /\ time_read \in Nat /\ Due \in Int /\ length >= 400 * k
      /\ buffer_size \in 84 * k .. 120 * k
  BY PacingNumbers DEF PacingInv, TrackInv, Due, Usual
<1>2. BehindInv(m1) /\ time_read < length + 40 * k
  BY DEF PacingInv, TrackInv
<1> HIDE DEF m1
<1>3. Overhang \in Nat /\ Overhang < 40 * k /\ (Overhang > 0 => time_read > length)
  BY <1>1, <1>2 DEF Overhang
<1>4. \/ 10 * (Due + Overhang + m1 + M) >= time_read
      \/ Due + Overhang + m1 >= buffer_size - 44 * k
  BY <1>2 DEF BehindInv
<1>5. Due >= -(m1 + M)
  BY <1>1, <1>3, <1>4
<1> QED
  BY <1>1, <1>5

LEMMA PacedEndInv == ASSUME Usual, PacingInv, PacedEnd PROVE PacingInv'
<1> PICK k \in Nat \ {0} :
        /\ Ms(1000) = 40 * k /\ Ms(1100) = 44 * k /\ Ms(2000) = 80 * k
        /\ Ms(2100) = 84 * k /\ Ms(3000) = 120 * k /\ Ms(10000) = 400 * k
  BY Units
<1> USE DEF PacingInv
<1> DEFINE rest == length - time_elapsed
           wait == IF rest > 120 * k THEN 80 * k ELSE IF rest > 0 THEN rest ELSE 0
           m1 == Opened * M
<1>1. /\ phase = "play" /\ tracks > 0 /\ time_read >= length /\ phase' # "play"
      /\ phase' \in {"open", "over"}
      /\ UNCHANGED <<link, length, time_read, time_sent, time_elapsed, lost, outage,
                     stalled, tracks>>
  BY DEF PacedEnd, TrackInv, within
<1>2. /\ M \in Nat /\ m1 \in Nat /\ tracks * M = m1 + M
      /\ length \in Nat /\ time_sent \in Nat /\ time_read \in Nat /\ time_elapsed \in Nat
      /\ ahead \in Int /\ lost \in Nat /\ outage \in Nat /\ tracks \in Nat
      /\ buffer_size \in 84 * k .. 120 * k
  BY <1>1, PacingNumbers DEF Usual
<1>3. ahead' = ahead - wait /\ wait \in Nat
  BY <1>2 DEF PacedEnd, Floor
<1>4. PacingTypeOK'
  <2>1. ahead' \in Int
    BY <1>2, <1>3
  <2> QED
    BY <1>1, <2>1 DEF PacingTypeOK
<1>5. TrackInv' /\ BehindInv(Opened * M)'
  BY <1>1 DEF TrackInv, BehindInv
<1>6. /\ time_sent - time_elapsed <= buffer_size
      /\ time_sent = time_read \/ time_sent + 40 * k <= time_read
      /\ time_sent <= length =>
             ahead <= lost - (time_read - time_sent) + time_sent - time_elapsed
      /\ time_sent > length =>
             ahead <= lost - (time_read - time_sent) + length - time_elapsed
  BY <1>1, <1>2 DEF TrackInv, Gain
<1>7. ahead' <= lost'
  BY <1>1, <1>2, <1>3, <1>6
<1>8. ~stalled => Due' >= -(tracks * M)
  <2> SUFFICES ASSUME ~stalled PROVE Due' >= -(tracks * M)
    OBVIOUS
  <2>1. Due >= -(tracks * M) /\ Due' = Due - wait /\ Due \in Int
    BY <1>1, <1>2, <1>3, BehindByOpening DEF Due
  <2>2. Due >= -m1 + length - time_elapsed
    <3>1. BehindInv(m1) /\ Overhang = time_read - length
      BY <1>1, <1>2 DEF Overhang
    <3> HIDE DEF m1
    <3> QED
      BY <1>1, <1>2, <2>1, <3>1 DEF BehindInv
  <2> HIDE DEF m1
  <2> QED
    BY <1>2, <1>3, <2>1, <2>2
<1>9. RestInv'
  <2>1. tracks' * M' = tracks * M /\ stalled' = stalled
    BY <1>1 DEF M
  <2> QED
    BY <1>7, <1>8, <2>1 DEF RestInv
<1> QED
  BY <1>4, <1>5, <1>9

LEMMA PacingNextInv == Usual /\ PacingInv /\ [PacingNext]_pacing_vars => PacingInv'
<1> SUFFICES ASSUME Usual, PacingInv, [PacingNext]_pacing_vars PROVE PacingInv'
  OBVIOUS
<1>1. CASE UNCHANGED pacing_vars
  <2>1. /\ UNCHANGED <<phase, link, length, time_read, time_sent, time_elapsed, ahead,
                       lost, outage, stalled, tracks>>
        /\ M' = M
    BY <1>1 DEF pacing_vars, within, account, M
  <2>2. Gain' = Gain /\ Due' = Due /\ Overhang' = Overhang /\ Opened' = Opened
    BY <2>1 DEF Gain, Due, Overhang, Opened
  <2> QED
    BY <2>1, <2>2 DEF PacingInv, PacingTypeOK, TrackInv, BehindInv, RestInv
<1>2. CASE PacedGiveUp
  <2>1. /\ phase' = "over"
        /\ UNCHANGED <<link, length, time_read, time_sent, time_elapsed, ahead, lost,
                       outage, stalled, tracks>>
    BY <1>2 DEF PacedGiveUp, within, account
  <2> QED
    BY <2>1 DEF PacingInv, PacingTypeOK, TrackInv, BehindInv, RestInv
<1> QED
  BY <1>1, <1>2, PacedOpenInv, PacedConnectInv, BlockSentInv, BlockLostInv, PacedEndInv
     DEF PacingNext

-----------------------------------------------------------------------------
(* The three pauses let the streaming server be ahead by the buffer and the*)
(* blocks it did not get at most, and, unless a block stalls, behind by no *)
(* more than the time of opening and connecting and these blocks, whatever *)
(* the lengths of the tracks, the times that their blocks take and the     *)
(* places where the connection breaks.                                     *)
THEOREM PauseKeepsPace == Usual => (PacingSpec => []Paced)
<1> SUFFICES ASSUME Usual PROVE PacingSpec => []Paced
  OBVIOUS
<1>1. PacingInv => Paced
  <2> SUFFICES ASSUME PacingInv, phase = "play"
               PROVE  /\ ahead <= buffer_size + lost
                      /\ ~stalled => ahead >= -tracks * Max(Opens) - outage - lost
    BY DEF Paced
  <2>1. /\ M \in Nat /\ tracks * M \in Nat /\ tracks \in Nat
        /\ ahead \in Int /\ lost \in Nat /\ outage \in Nat
        /\ time_read \in Nat /\ time_sent \in Nat /\ time_elapsed \in Nat
        /\ length \in Nat /\ buffer_size \in Nat
    BY PacingNumbers DEF PacingInv
  <2>2. ahead <= buffer_size + lost
    <3> PICK k \in Nat \ {0} : Ms(1000) = 40 * k
      BY Units
    <3> QED
      BY <2>1 DEF PacingInv, TrackInv, Gain
  <2>3. -tracks * Max(Opens) = -(tracks * M)
    <3>1. \A a, b \in Nat : -a * b = -(a * b)
      OBVIOUS
    <3> QED
      BY <2>1, <3>1 DEF M
  <2>4. ASSUME ~stalled PROVE ahead >= -(tracks * M) - outage - lost
    <3> DEFINE tm == tracks * M
    <3>1. Due >= -tm /\ tm \in Nat
      BY <2>1, <2>4, BehindByOpening
    <3> HIDE DEF tm
    <3>2. ahead >= -tm - outage - lost
      BY <2>1, <3>1 DEF Due
    <3> QED
      BY <3>2 DEF tm
  <2> QED
    BY <2>2, <2>3, <2>4
<1> QED
  BY <1>1, PacingInitInv, PacingNextInv, PTL DEF PacingSpec

-----------------------------------------------------------------------------
(* The starts and commands of a channel, for any number of processes.      *)

(* GetPid finds nobody only if ps showed no two processes of accordion: it *)
(* leaves out one line, whichever that is.                                 *)
LEMMA GetPidType ==
    ASSUME NEW seen \in SUBSET Procs
    PROVE  GetPid(seen) \in 0..N
<1> DEFINE accordions == {q \in seen \ {Max(seen)} : cmd[q] # "other"}
<1>1. Procs \subseteq Nat /\ Procs \subseteq 0..N /\ 0 \in 0..N
  BY ProcessesAreNumbered DEF Procs
<1>2. accordions \in SUBSET Nat
  BY <1>1
<1>3. accordions # {} => Min(accordions) \in accordions
  BY <1>2, MinIsLeast
<1>4. GetPid(seen) = IF accordions = {} THEN 0 ELSE Min(accordions)
  BY DEF GetPid
<1> QED
  BY <1>1, <1>3, <1>4

LEMMA GetPidSees ==
    ASSUME NEW seen \in SUBSET Procs, NEW p \in seen, NEW q \in seen, p # q,
           cmd[p] # "other", cmd[q] # "other"
    PROVE  GetPid(seen) # 0
<1> DEFINE accordions == {r \in seen \ {Max(seen)} : cmd[r] # "other"}
<1>1. accordions # {}
  OBVIOUS
<1>2. Procs \subseteq Nat \ {0}
  BY ProcessesAreNumbered DEF Procs
<1>3. accordions \in SUBSET Nat
  BY <1>2
<1>4. Min(accordions) \in accordions
  BY <1>1, <1>3, MinIsLeast
<1>5. GetPid(seen) = IF accordions = {} THEN 0 ELSE Min(accordions)
  BY DEF GetPid
<1> QED
  BY <1>1, <1>2, <1>4, <1>5

-----------------------------------------------------------------------------
(* What a process is: only a start streams, only a stop waits.             *)
KindInv ==
    \A p \in Procs :
        /\ at[p] = "serve" => cmd[p] = "start"
        /\ at[p] = "signal" => cmd[p] = "stop"
        /\ at[p] \in {"born", "ps", "done", "signal", "serve"} => cmd[p] # "other"

(* The snapshot of ps has the process itself and none that begins later.   *)
SnapshotInv ==
    \A p \in Procs :
        /\ at[p] = "unborn" => \A q \in Procs : p \notin existed[q]
        /\ at[p] \in {"ps", "done"} => p \in existed[p]

Start(p) == cmd[p] = "start"
Looked(p) == Start(p) /\ at[p] \in {"ps", "done", "serve"}

(* Of two starts that have begun to look, and live, one was there when the *)
(* other one began.                                                        *)
MeetInv ==
    \A p, q \in Procs :
        p # q /\ Looked(p) /\ Looked(q) => p \in existed[q] \/ q \in existed[p]

Committed(p) == Start(p) /\ (at[p] = "serve" \/ (at[p] = "done" /\ m_pid[p] = 0))

(* A start that found nobody streams only when all starts that were there  *)
(* when it looked are gone.                                                *)
CommitInv ==
    \A p, q \in Procs :
        Committed(p) /\ q # p /\ Start(q) /\ q \in existed[p] => at[q] \in {"unborn", "gone"}

(* Who looks while the channel is streamed all the time has the process    *)
(* that streams before its eyes, and finds it.                             *)
ClearInv ==
    \A p \in Procs :
        /\ at[p] = "ps" /\ ~cleared[p] => existed[p] \intersect Serving # {}
        /\ at[p] = "done" /\ m_pid[p] = 0 => cleared[p]

ControlInv ==
    /\ ControlTypeOK /\ KindInv /\ SnapshotInv /\ MeetInv /\ CommitInv /\ ClearInv

(* One process at a time. *)
LEMMA OneCommitted ==
    ASSUME MeetInv, CommitInv,
           NEW p \in Procs, NEW q \in Procs, Committed(p), Committed(q)
    PROVE  p = q
  BY DEF MeetInv, CommitInv, Committed, Looked, Start

LEMMA OneServes ==
    ASSUME ControlInv, NEW p \in Procs, NEW q \in Procs, at[p] = "serve", Committed(q)
    PROVE  p = q
  BY OneCommitted DEF ControlInv, KindInv, Committed, Start

LEMMA ControlInitInv == ControlInit => ControlInv
<1> SUFFICES ASSUME ControlInit PROVE ControlInv
  OBVIOUS
<1>1. ControlTypeOK
  BY ProcessesAreNumbered DEF ControlInit, ControlTypeOK, Procs
<1> QED
  BY <1>1 DEF ControlInit, ControlInv, KindInv, SnapshotInv, MeetInv, CommitInv,
              ClearInv, Looked, Committed
-----------------------------------------------------------------------------
LEMMA BeginInv ==
    ASSUME ControlInv, NEW p \in Procs, NEW word \in Commands \union {"start", "other"},
           Begin(p, word)
    PROVE  ControlInv'
<1> USE DEF ControlInv, ControlTypeOK, Begin
<1>1. ControlTypeOK'
  BY DEF Serving
<1>2. Serving' = Serving
  BY DEF Serving
<1>3. KindInv'
  BY DEF KindInv, Commands
<1>4. SnapshotInv'
  BY DEF SnapshotInv
<1>5. MeetInv'
  BY DEF MeetInv, Looked, Start
<1>6. CommitInv'
  BY DEF CommitInv, Committed, Start, SnapshotInv
<1>7. ClearInv'
  BY <1>2 DEF ClearInv
<1> QED
  BY <1>1, <1>3, <1>4, <1>5, <1>6, <1>7

LEMMA GetCmdOutputInv ==
    ASSUME ControlInv, NEW p \in Procs, GetCmdOutput(p)
    PROVE  ControlInv'
<1> USE DEF ControlInv, ControlTypeOK, GetCmdOutput
<1>1. Serving' = Serving /\ Alive \subseteq Procs
  BY DEF Serving, Alive
<1>2. ControlTypeOK'
  BY <1>1
<1>3. KindInv'
  BY DEF KindInv
<1>4. SnapshotInv'
  BY DEF SnapshotInv, Alive
<1>5. MeetInv'
  BY DEF MeetInv, Looked, Start, Alive
<1>6. CommitInv'
  BY DEF CommitInv, Committed, Start
<1>7. ClearInv'
  <2>1. Serving \subseteq Alive
    BY DEF Serving, Alive
  <2> QED
    BY <1>1, <2>1 DEF ClearInv
<1> QED
  BY <1>2, <1>3, <1>4, <1>5, <1>6, <1>7

LEMMA PsEndsInv ==
    ASSUME ControlInv, NEW p \in Procs, NEW seen \in SUBSET Procs, PsEnds(p, seen)
    PROVE  ControlInv'
<1> USE DEF ControlInv, ControlTypeOK, PsEnds
<1>1. Serving' = Serving
  BY DEF Serving
<1>2. ControlTypeOK'
  BY <1>1, GetPidType
<1>3. KindInv' /\ SnapshotInv'
  BY DEF KindInv, SnapshotInv
<1>4. MeetInv'
  BY DEF MeetInv, Looked, Start
<1>5. cmd[p] # "other" /\ p \in seen
  BY DEF KindInv, SnapshotInv, Alive
<1>6. \A q \in existed[p] \intersect Alive : q # p /\ cmd[q] # "other" => GetPid(seen) # 0
  BY <1>5, GetPidSees DEF Alive
<1>7. CommitInv'
  <2> SUFFICES ASSUME NEW a \in Procs, NEW q \in Procs, Committed(a)', q # a,
                      Start(q)', q \in existed[a]', at'[q] \notin {"unborn", "gone"}
               PROVE  FALSE
    BY DEF CommitInv
  <2>1. CASE a # p
    BY <2>1 DEF CommitInv, Committed, Start
  <2>2. CASE a = p
    <3>1. m_pid'[p] = 0 /\ m_pid'[p] = GetPid(seen)
      BY <2>2 DEF Committed
    <3>2. q \in existed[p] \intersect Alive /\ cmd[q] # "other"
      BY <2>2 DEF Alive, Start
    <3> QED
      BY <1>6, <2>2, <3>1, <3>2
  <2> QED
    BY <2>1, <2>2
<1>8. ClearInv'
  <2>1. ASSUME ~cleared[p] PROVE GetPid(seen) # 0
    <3>1. PICK s \in existed[p] : s \in Serving
      BY <2>1 DEF ClearInv
    <3>2. s \in Alive /\ s # p /\ cmd[s] # "other"
      BY <3>1 DEF Serving, Alive, KindInv
    <3> QED
      BY <1>6, <3>2
  <2> QED
    BY <1>1, <2>1 DEF ClearInv
<1> QED
  BY <1>2, <1>3, <1>4, <1>7, <1>8

LEMMA ServeInv ==
    ASSUME ControlInv, NEW p \in Procs, Serve(p)
    PROVE  ControlInv' /\ Serving = {} /\ Serving' = {p}
<1> USE DEF ControlInv, ControlTypeOK, Serve
<1>1. Committed(p)
  BY DEF Committed, Start
<1>2. Serving = {}
  BY <1>1, OneServes DEF Serving
<1>3. Serving' = {p}
  BY <1>2 DEF Serving
<1>4. ControlTypeOK'
  BY <1>2, <1>3
<1>5. KindInv' /\ SnapshotInv'
  BY DEF KindInv, SnapshotInv
<1>6. MeetInv'
  BY DEF MeetInv, Looked, Start
<1>7. CommitInv'
  BY <1>1 DEF CommitInv, Committed, Start
<1>8. ClearInv'
  BY <1>2 DEF ClearInv
<1> QED
  BY <1>2, <1>3, <1>4, <1>5, <1>6, <1>7, <1>8

(* Steps in which processes only end or, for a stop, wait.                 *)
LEMMA LeaveInv ==
    ASSUME ControlInv, ControlTypeOK', Serving' = Serving,
           UNCHANGED <<cmd, existed, m_pid, cleared>>,
           \A q \in Procs : \/ at'[q] = at[q]
                            \/ at[q] # "unborn" /\ at'[q] = "gone"
                            \/ at[q] = "done" /\ cmd[q] = "stop" /\ at'[q] = "signal"
                            \/ at[q] = "signal" /\ at'[q] = "born"
    PROVE  ControlInv'
<1> USE DEF ControlInv
<1>1. KindInv' /\ SnapshotInv'
  BY DEF KindInv, SnapshotInv
<1>2. MeetInv'
  BY DEF MeetInv, Looked, Start
<1>3. CommitInv'
  BY DEF CommitInv, Committed, Start, KindInv
<1>4. ClearInv'
  BY DEF ClearInv
<1> QED
  BY <1>1, <1>2, <1>3, <1>4

LEMMA OtherStepsInv ==
    ASSUME ControlInv, NEW p \in Procs,
           Refuse(p) \/ Kill(p) \/ LookAgain(p) \/ Report(p) \/ OtherEnds(p)
    PROVE  ControlInv' /\ Serving' = Serving
<1> USE DEF ControlInv, ControlTypeOK
<1>1. CASE Refuse(p) \/ OtherEnds(p)
  <2>1. Serving' = Serving
    BY <1>1 DEF Refuse, OtherEnds, Serving
  <2>2. ControlTypeOK'
    BY <1>1, <2>1 DEF Refuse, OtherEnds
  <2> QED
    BY <1>1, <2>1, <2>2, LeaveInv DEF Refuse, OtherEnds
<1>2. CASE LookAgain(p) \/ Report(p)
  <2>1. Serving' = Serving
    BY <1>2 DEF LookAgain, Report, Serving
  <2>2. ControlTypeOK'
    BY <1>2, <2>1 DEF LookAgain, Report
  <2> QED
    BY <1>2, <2>1, <2>2, LeaveInv DEF LookAgain, Report
<1>3. CASE Kill(p)
  <2>1. \A q \in Procs : \/ at'[q] = at[q]
                         \/ at[q] \notin {"unborn", "serve"} /\ at'[q] = "gone"
                         \/ at[q] = "done" /\ cmd[q] = "stop" /\ at'[q] = "signal"
    BY <1>3 DEF Kill, Alive, Serving
  <2>2. Serving' = Serving
    BY <2>1 DEF Serving
  <2>3. ControlTypeOK'
    BY <1>3, <2>1, <2>2 DEF Kill
  <2> QED
    BY <1>3, <2>1, <2>2, <2>3, LeaveInv DEF Kill
<1> QED
  BY <1>1, <1>2, <1>3

LEMMA EndInv ==
    ASSUME ControlInv, NEW p \in Procs, End(p)
    PROVE  /\ ControlInv'
           /\ Serving = {p} /\ Serving' = {} /\ cleared' = [q \in Procs |-> TRUE]
<1> USE DEF ControlInv, ControlTypeOK, End
<1>1. \A q \in Serving : q = p
  BY OneServes DEF KindInv, Committed, Start, Serving
<1>2. Serving = {p} /\ Serving' = {}
  BY <1>1 DEF Serving
<1>3. cleared' = [q \in Procs |-> TRUE]
  BY <1>2
<1>4. ControlTypeOK'
  BY <1>2, <1>3
<1>5. KindInv' /\ SnapshotInv'
  BY DEF KindInv, SnapshotInv
<1>6. MeetInv'
  BY DEF MeetInv, Looked, Start
<1>7. CommitInv'
  BY DEF CommitInv, Committed, Start
<1>8. ClearInv'
  BY <1>3 DEF ClearInv
<1> QED
  BY <1>2, <1>3, <1>4, <1>5, <1>6, <1>7, <1>8

LEMMA ControlNextInv == ControlInv /\ [ControlNext]_control_vars => ControlInv'
<1> SUFFICES ASSUME ControlInv, [ControlNext]_control_vars PROVE ControlInv'
  OBVIOUS
<1>1. CASE UNCHANGED control_vars
  BY <1>1 DEF control_vars, ControlInv, ControlTypeOK, KindInv, SnapshotInv, MeetInv,
              CommitInv, ClearInv, Looked, Committed, Start, Serving
<1> QED
  BY <1>1, BeginInv, GetCmdOutputInv, PsEndsInv, ServeInv, OtherStepsInv, EndInv
     DEF ControlNext

THEOREM ControlInvariant == ControlSpec => []ControlInv
  BY ControlInitInv, ControlNextInv, PTL DEF ControlSpec

-----------------------------------------------------------------------------
(* However many starts and commands run at the same time, one process at a *)
(* time streams the channel, and a command that reports none looked at a   *)
(* time at which there was none.                                           *)
THEOREM ControlImplementsChannel == ControlSpec => ImplementsChannel
<1>1. ControlInit => Promised!Init
  BY DEF ControlInit, Promised!Init, Serving
<1>2. ControlInv /\ [ControlNext]_control_vars
        => [Promised!Next]_<<Serving, cleared, reported>>
  <2> SUFFICES ASSUME ControlInv, [ControlNext]_control_vars
               PROVE  Promised!Next \/ UNCHANGED <<Serving, cleared, reported>>
    OBVIOUS
  <2>1. CASE UNCHANGED control_vars
    BY <2>1 DEF control_vars, Serving
  <2>2. ASSUME NEW p \in Procs, NEW word \in Commands \union {"start", "other"},
               Begin(p, word)
        PROVE  UNCHANGED <<Serving, cleared, reported>>
    BY <2>2 DEF Begin, Serving, ControlInv, ControlTypeOK
  <2>3. ASSUME NEW p \in Procs, GetCmdOutput(p) PROVE Promised!Looks(p)
    BY <2>3 DEF GetCmdOutput, Promised!Looks, Serving, ControlInv, ControlTypeOK
  <2>4. ASSUME NEW p \in Procs, NEW seen \in SUBSET Procs, PsEnds(p, seen)
        PROVE  UNCHANGED <<Serving, cleared, reported>>
    BY <2>4 DEF PsEnds, Serving, ControlInv, ControlTypeOK
  <2>5. ASSUME NEW p \in Procs, Serve(p) PROVE Promised!Begins(p)
    BY <2>5, ServeInv DEF Serve, Promised!Begins
  <2>6. ASSUME NEW p \in Procs, Refuse(p) \/ Kill(p) \/ LookAgain(p) \/ OtherEnds(p)
        PROVE  UNCHANGED <<Serving, cleared, reported>>
    BY <2>6, OtherStepsInv DEF Refuse, Kill, LookAgain, OtherEnds
  <2>7. ASSUME NEW p \in Procs, Report(p), cmd[p] # "make"
        PROVE  \E word \in {"there", "absent"} : Promised!Says(p, word)
    <3> DEFINE word == IF m_pid[p] = 0 THEN "absent" ELSE "there"
    <3>1. word = "absent" => cleared[p]
      BY <2>7 DEF Report, ControlInv, ClearInv
    <3>2. Promised!Says(p, word)
      BY <2>7, <3>1, OtherStepsInv DEF Report, Promised!Says
    <3> QED
      BY <3>2
  <2>8. ASSUME NEW p \in Procs, Report(p), cmd[p] = "make"
        PROVE  UNCHANGED <<Serving, cleared, reported>>
    BY <2>8, OtherStepsInv DEF Report
  <2>9. ASSUME NEW p \in Procs, End(p) PROVE Promised!Ends
    BY <2>9, EndInv DEF End, Promised!Ends
  <2> QED
    BY <2>1, <2>2, <2>3, <2>4, <2>5, <2>6, <2>7, <2>8, <2>9
       DEF ControlNext, Promised!Next
<1> QED
  BY <1>1, <1>2, ControlInvariant, PTL
     DEF ControlSpec, ImplementsChannel, Promised!Spec

-----------------------------------------------------------------------------
(* The readers of files, for any tracks.                                   *)

(* What was counted follows each other from the first frame, and behind it *)
(* is no frame the counting loop accepts.                                  *)
CountInv ==
    /\ total_frames = Len(counted)
    /\ \A i \in DOMAIN counted :
           /\ counted[i] + header_size <= Size(bytes)
           /\ HeaderAt(bytes, counted[i]) > 0
           /\ counted[i] = IF i = 1 THEN first
                           ELSE counted[i-1] + HeaderAt(bytes, counted[i-1])
    /\ step = "closed" => counted = <<>>
    /\ step = "count" => fs = After(counted)
    /\ step \in {"counted", "ready", "read", "ended", "dies"} =>
           \/ After(counted) + header_size > Size(bytes)
           \/ HeaderAt(bytes, After(counted)) <= 0

(* Every frame that was counted has data in it.                            *)
AllWithData == \A i \in DOMAIN counted : WithData(counted[i])

Whole == blocks * frames_to_read = send_frame_number
Short == blocks * frames_to_read - Len(given) \in 0..frames_to_read - 1
Finished ==
    /\ \A i \in DOMAIN counted :
           i > Len(given) => i = Len(counted) /\ Torn(counted[i])
    /\ WithData(After(given)) => Torn(After(given))

(* A call either goes on where the last one stopped, all blocks being      *)
(* full, or it will find nothing.                                          *)
Going == fs = After(given) /\ Whole
Over == frames_from_file = 0 /\ ~Readable /\ Finished /\ Short

GivenInv ==
    /\ step \notin {"read", "ended"} =>
           given = <<>> /\ blocks = 0 /\ send_frame_number = 0 /\ frames_from_file = 0
    /\ AllWithData =>
           /\ Len(given) <= Len(counted)
           /\ \A i \in DOMAIN given : given[i] = counted[i]
           /\ Len(given) = send_frame_number + frames_from_file
           /\ step = "read" => Going \/ Over
           /\ step = "ended" => frames_from_file = 0 /\ Finished /\ Short

ReaderInv == ReaderTypeOK /\ CountInv /\ GivenInv

LEMMA TrackType ==
    ASSUME audio \in Tracks
    PROVE  /\ bytes.bytes \in Seq(Nat \cup {None}) /\ Size(bytes) \in Nat
           /\ bytes.id3 \in Nat
           /\ aac \in BOOLEAN /\ header_size \in {4, 7}
<1>1. /\ audio \in {"aac", "mpx"} \X [id3 : Nat, bytes : Seq(Nat \cup {None})]
  BY ReaderConstants
<1>2. audio[2] \in [id3 : Nat, bytes : Seq(Nat \cup {None})]
  BY <1>1
<1>3. bytes.bytes \in Seq(Nat \cup {None}) /\ bytes.id3 \in Nat
  BY <1>2 DEF bytes
<1> QED
  BY <1>3 DEF Size, aac, header_size, AAC_HEADER, MPX_HEADER

LEMMA FrameType ==
    ASSUME audio \in Tracks, NEW p
    PROVE  /\ HeaderAt(bytes, p) \in Nat \cup {None}
           /\ HeaderAt(bytes, p) >= 0 => p \in 0..Size(bytes) - 1
<1>1. bytes.bytes \in Seq(Nat \cup {None})
  BY TrackType
<1>2. CASE p \in 0..Size(bytes) - 1
  <2>1. p + 1 \in DOMAIN bytes.bytes
    BY <1>1, <1>2 DEF Size
  <2> QED
    BY <1>1, <1>2, <2>1 DEF HeaderAt
<1> QED
  BY <1>2 DEF HeaderAt, None

LEMMA SeekType ==
    ASSUME audio \in Tracks PROVE MpxSeek(bytes) \in Nat \cup {-1}
<1> DEFINE f == bytes
           n == Buffered(f, f.id3)
           Near(p) == \/ n - p < MARGIN
                      \/ /\ HeaderAt(f, f.id3 + p) > 0
                         /\ p + HeaderAt(f, f.id3 + p) + MPX_HEADER > n
           Confirmed(p) == LET len == HeaderAt(f, f.id3 + p)
                           IN  len > 0 /\ HeaderAt(f, f.id3 + p + len) # None
           ends == {p \in 0..n - 1 : HeaderAt(f, f.id3 + p) # None /\ (Near(p) \/ Confirmed(p))}
<1>1. MpxSeek(f) = IF ends = {} \/ Near(Min(ends)) THEN -1 ELSE f.id3 + Min(ends)
  BY DEF MpxSeek
<1>2. ends \in SUBSET Nat
  OBVIOUS
<1>3. f.id3 \in Nat
  BY TrackType
<1> HIDE DEF ends, Near, f
<1>4. ends # {} => Min(ends) \in Nat
  BY <1>2, MinIsLeast
<1> USE DEF f
<1> QED
  BY <1>1, <1>3, <1>4

LEMMA AfterType ==
    ASSUME ReaderTypeOK, NEW s \in Seq(Nat),
           \A i \in DOMAIN s : HeaderAt(bytes, s[i]) > 0
    PROVE  After(s) \in Nat
<1>1. CASE s = <<>>
  BY <1>1 DEF After, ReaderTypeOK
<1>2. CASE s # <<>>
  <2>1. Len(s) \in DOMAIN s /\ s[Len(s)] \in Nat
    BY <1>2
  <2>2. HeaderAt(bytes, s[Len(s)]) \in Nat
    BY <2>1, FrameType DEF ReaderTypeOK, None
  <2> QED
    BY <1>2, <2>1, <2>2 DEF After
<1> QED
  BY <1>1, <1>2

(* A frame behind the others is the end of the longer sequence.            *)
LEMMA AfterAppend ==
    ASSUME audio' = audio, first' = first, NEW s \in Seq(Nat), NEW p \in Nat
    PROVE  /\ Append(s, p) # <<>>
           /\ LET t == Append(s, p) IN
              (t = <<>> => first' = p) /\
              (IF t = <<>> THEN first ELSE t[Len(t)] + HeaderAt(bytes, t[Len(t)]))
                 = p + HeaderAt(bytes, p)
  OBVIOUS

LEMMA ReaderInitInv == ReaderInit => ReaderInv
<1> SUFFICES ASSUME ReaderInit PROVE ReaderInv
  OBVIOUS
<1>0. audio \in Tracks /\ frames_to_read \in Nat
  BY AudioConstants, BlockConstants DEF ReaderInit, frames_to_read
<1>1. ReaderTypeOK
  BY <1>0 DEF ReaderInit, ReaderTypeOK
<1>2. CountInv
  BY DEF ReaderInit, CountInv
<1>3. GivenInv
  BY DEF ReaderInit, GivenInv
<1> QED
  BY <1>1, <1>2, <1>3 DEF ReaderInv

LEMMA OpenTrackInv == ASSUME ReaderInv, OpenTrack PROVE ReaderInv'
<1> DEFINE pos == IF aac THEN IF AacSeek(bytes) THEN 0 ELSE -1 ELSE MpxSeek(bytes)
<1>1. pos \in Nat \cup {-1}
  BY SeekType DEF ReaderInv, ReaderTypeOK
<1>2. /\ step = "closed" /\ step' \in {"refused", "count"}
      /\ step' = "count" => fs' = first'
      /\ fs' \in Nat /\ first' \in Nat
      /\ UNCHANGED <<audio, total_frames, send_frame_number, frames_from_file, counted, given, blocks>>
  <2>1. /\ step = "closed"
        /\ IF pos = -1 THEN step' = "refused" /\ UNCHANGED <<fs, first>>
           ELSE step' = "count" /\ fs' = pos /\ first' = pos
        /\ UNCHANGED <<audio, total_frames, send_frame_number, frames_from_file, counted, given, blocks>>
    BY DEF OpenTrack, result
  <2> HIDE DEF pos
  <2> QED
    BY <1>1, <2>1 DEF ReaderInv, ReaderTypeOK
<1>3. ReaderTypeOK'
  BY <1>2 DEF ReaderInv, ReaderTypeOK, frames_to_read
<1>4. counted = <<>> /\ given = <<>>
  BY <1>2 DEF ReaderInv, CountInv, GivenInv
<1>5. CountInv'
  BY <1>2, <1>4 DEF ReaderInv, CountInv, After
<1>6. GivenInv'
  BY <1>2, <1>4 DEF ReaderInv, GivenInv
<1> QED
  BY <1>3, <1>5, <1>6 DEF ReaderInv

(* One more frame is counted.                                              *)
LEMMA CountedOne ==
    ASSUME ReaderInv, step = "count",
           fs + header_size <= Size(bytes), HeaderAt(bytes, fs) > 0,
           total_frames' = total_frames + 1, counted' = Append(counted, fs),
           fs' = fs + HeaderAt(bytes, fs), step' \in {"count", "counted"},
           step' = "counted" => fs' + header_size > Size(bytes),
           UNCHANGED <<audio, send_frame_number, frames_from_file, first, given, blocks>>
    PROVE  ReaderInv'
<1>1. HeaderAt(bytes, fs) \in Nat /\ fs \in Nat /\ Size(bytes) \in Nat
  BY FrameType, TrackType DEF ReaderInv, ReaderTypeOK, None
<1>2. ReaderTypeOK'
  BY <1>1 DEF ReaderInv, ReaderTypeOK, frames_to_read
<1>3. /\ given = <<>> /\ blocks = 0 /\ send_frame_number = 0 /\ frames_from_file = 0
  BY DEF ReaderInv, GivenInv
<1>4. GivenInv'
  BY <1>2, <1>3 DEF GivenInv, ReaderTypeOK
<1>5. fs = After(counted) /\ total_frames = Len(counted) /\ counted \in Seq(Nat)
  BY DEF ReaderInv, CountInv, ReaderTypeOK
<1>6. After(counted)' = fs'
  BY <1>1, <1>5 DEF After, bytes
<1>7. total_frames' = Len(counted')
  BY <1>1, <1>5
<1>8. ASSUME NEW i \in DOMAIN counted'
      PROVE  /\ counted'[i] + header_size <= Size(bytes)
             /\ HeaderAt(bytes, counted'[i]) > 0
             /\ counted'[i] = IF i = 1 THEN first
                              ELSE counted'[i-1] + HeaderAt(bytes, counted'[i-1])
  <2>1. CASE i \in DOMAIN counted
    <3>1. counted'[i] = counted[i] /\ (i # 1 => i - 1 \in DOMAIN counted /\ counted'[i-1] = counted[i-1])
      BY <1>1, <1>5, <2>1
    <3> QED
      BY <2>1, <3>1 DEF ReaderInv, CountInv
  <2>2. CASE i \notin DOMAIN counted
    <3>1. i = Len(counted) + 1 /\ counted'[i] = fs
      BY <1>1, <1>5, <2>2
    <3>2. CASE counted = <<>>
      BY <1>5, <3>1, <3>2 DEF After
    <3>3. CASE counted # <<>>
      <4>1. i - 1 = Len(counted) /\ i # 1 /\ counted'[i-1] = counted[Len(counted)]
        BY <1>1, <1>5, <3>1, <3>3
      <4> QED
        BY <1>5, <3>1, <3>3, <4>1 DEF After
    <3> QED
      BY <3>2, <3>3
  <2> QED
    BY <2>1, <2>2
<1>9. header_size' = header_size /\ bytes' = bytes
  BY DEF header_size, aac, bytes
<1>10. /\ \A i \in DOMAIN counted' :
           /\ counted'[i] + header_size' <= Size(bytes')
           /\ HeaderAt(bytes', counted'[i]) > 0
           /\ counted'[i] = IF i = 1 THEN first'
                            ELSE counted'[i-1] + HeaderAt(bytes', counted'[i-1])
  BY <1>8, <1>9
<1>11. step' = "count" => fs' = After(counted)'
  BY <1>6
<1>12. step' = "counted" => After(counted)' + header_size' > Size(bytes')
  BY <1>6, <1>9
<1>13. CountInv'
  BY <1>7, <1>10, <1>11, <1>12 DEF CountInv
<1> QED
  BY <1>2, <1>4, <1>13 DEF ReaderInv

(* A step that neither counts nor gives away a frame.                      *)
LEMMA NothingRead ==
    ASSUME ReaderInv, step \notin {"closed", "read", "ended"},
           step' \in {"counted", "ready", "read", "refused", "hangs", "dies"},
           step' \in {"counted", "ready", "read", "dies"} =>
               \/ step \in {"counted", "ready"}
               \/ After(counted) + header_size > Size(bytes)
               \/ HeaderAt(bytes, After(counted)) <= 0,
           fs' \in Nat, step' = "read" => fs' = first,
           send_frame_number' = send_frame_number \/ send_frame_number' = 0,
           UNCHANGED <<audio, total_frames, frames_from_file, first, counted, given, blocks>>
    PROVE  ReaderInv'
<1>1. /\ given = <<>> /\ blocks = 0 /\ send_frame_number = 0 /\ frames_from_file = 0
  BY DEF ReaderInv, GivenInv
<1>2. ReaderTypeOK'
  BY <1>1 DEF ReaderInv, ReaderTypeOK, frames_to_read
<1>3. header_size' = header_size /\ bytes' = bytes /\ After(counted)' = After(counted)
  BY DEF header_size, aac, bytes, After
<1>4. CountInv'
  <2>1. step' \in {"counted", "ready", "read", "dies"} =>
           \/ After(counted) + header_size > Size(bytes)
           \/ HeaderAt(bytes, After(counted)) <= 0
    BY DEF ReaderInv, CountInv
  <2> QED
    BY <1>3, <2>1 DEF ReaderInv, CountInv
<1>5. step' = "read" => Going'
  <2>1. After(given)' = first
    BY <1>1 DEF After
  <2>2. 0 * Fps = 0
    BY AudioConstants, BlockConstants
  <2> QED
    BY <1>1, <2>1, <2>2 DEF Going, Whole, frames_to_read
<1>6. GivenInv'
  <2>1. /\ given' = <<>> /\ blocks' = 0 /\ send_frame_number' = 0 /\ frames_from_file' = 0
    BY <1>1
  <2>2. Len(given') = 0 /\ DOMAIN given' = {} /\ Len(counted') \in Nat
    BY <1>2, <2>1 DEF ReaderTypeOK
  <2>3. step' # "ended"
    OBVIOUS
  <2> QED
    BY <1>5, <2>1, <2>2, <2>3 DEF GivenInv
<1> QED
  BY <1>2, <1>4, <1>6 DEF ReaderInv

LEMMA AacCountInv == ASSUME ReaderInv, AacCount PROVE ReaderInv'
<1> DEFINE len == HeaderAt(bytes, fs)
           bad == fs + AAC_HEADER > Size(bytes) \/ ~AacHeader(bytes, fs)
<1>1. header_size = 7 /\ step = "count"
  BY DEF AacCount, header_size, AAC_HEADER
<1>2. fs \in Nat /\ Size(bytes) \in Nat /\ len \in Nat \cup {None}
  BY TrackType, FrameType DEF ReaderInv, ReaderTypeOK
<1>3. CASE bad
  <2>1. step' = "refused" /\ UNCHANGED <<fs, total_frames, counted>>
    BY <1>3 DEF AacCount
  <2> QED
    BY <1>1, <1>2, <2>1, NothingRead DEF AacCount, result
<1>4. CASE ~bad /\ len = 0
  <2>1. step' = "hangs" /\ UNCHANGED <<fs, total_frames, counted>>
    BY <1>4 DEF AacCount
  <2> QED
    BY <1>1, <1>2, <2>1, NothingRead DEF AacCount, result
<1>5. CASE ~bad /\ len # 0
  <2>1. /\ total_frames' = total_frames + 1
        /\ counted' = Append(counted, fs)
        /\ fs' = fs + len
        /\ step' = IF fs + len < Size(bytes) THEN "count" ELSE "counted"
    BY <1>5 DEF AacCount
  <2>2. fs + 7 <= Size(bytes) /\ len \in 0..MAX_LENGTH
    BY <1>2, <1>5 DEF AacHeader, AAC_HEADER
  <2>3. len > 0 /\ len \in Nat
    BY <1>2, <1>5, <2>2 DEF None
  <2>4. step' = "counted" => fs' + header_size > Size(bytes)
    BY <1>1, <1>2, <2>1, <2>3
  <2>5. step' \in {"count", "counted"}
    BY <2>1
  <2> QED
    BY <1>1, <2>1, <2>2, <2>3, <2>4, <2>5, CountedOne DEF AacCount, result
<1> QED
  BY <1>3, <1>4, <1>5

LEMMA MpxCountInv == ASSUME ReaderInv, MpxCount PROVE ReaderInv'
<1> DEFINE bad == fs + MPX_HEADER > Size(bytes) \/ HeaderAt(bytes, fs) <= 0
<1>1. header_size = 4 /\ step = "count"
  BY DEF MpxCount, header_size, MPX_HEADER
<1>2. fs \in Nat /\ Size(bytes) \in Nat /\ HeaderAt(bytes, fs) \in Nat \cup {None}
  BY TrackType, FrameType DEF ReaderInv, ReaderTypeOK
<1>3. CASE bad
  <2>1. step' = "counted" /\ fs' = first /\ UNCHANGED <<total_frames, counted>>
    BY <1>3 DEF MpxCount
  <2>2. fs = After(counted) /\ first \in Nat
    BY <1>1 DEF ReaderInv, CountInv, ReaderTypeOK
  <2>3. \/ After(counted) + header_size > Size(bytes)
        \/ HeaderAt(bytes, After(counted)) <= 0
    BY <1>1, <1>3, <2>2 DEF MPX_HEADER
  <2> QED
    BY <1>1, <2>1, <2>2, <2>3, NothingRead DEF MpxCount, result
<1>4. CASE ~bad
  <2>1. /\ total_frames' = total_frames + 1
        /\ counted' = Append(counted, fs)
        /\ fs' = fs + HeaderAt(bytes, fs)
        /\ step' = "count"
    BY <1>1, <1>4 DEF MpxCount
  <2>2. fs + 4 <= Size(bytes) /\ HeaderAt(bytes, fs) > 0
    BY <1>2, <1>4 DEF MPX_HEADER, None
  <2> QED
    BY <1>1, <2>1, <2>2, CountedOne DEF MpxCount, result
<1> QED
  BY <1>3, <1>4

LEMMA MeasuredInv == ASSUME ReaderInv, Measured PROVE ReaderInv'
<1>1. step = "counted" /\ step' \in {"ready", "refused", "dies"}
  BY DEF Measured
<1>2. fs' \in Nat
  BY DEF Measured, ReaderInv, ReaderTypeOK
<1> QED
  BY <1>1, <1>2, NothingRead DEF Measured, result

LEMMA StartPlayInv == ASSUME ReaderInv, StartPlay PROVE ReaderInv'
<1>1. first \in Nat
  BY DEF ReaderInv, ReaderTypeOK
<1> QED
  BY <1>1, NothingRead DEF StartPlay, result

(* What follows the frames given is the next frame that was counted, or,   *)
(* when there is none, what the counting loop stopped at.                  *)
LEMMA AfterGiven ==
    ASSUME ReaderInv, AllWithData
    PROVE  /\ Len(given) \in Nat /\ Len(counted) \in Nat
           /\ Len(given) < Len(counted) =>
                  /\ Len(given) + 1 \in DOMAIN counted
                  /\ After(given) = counted[Len(given) + 1]
           /\ ~ (Len(given) < Len(counted)) =>
                  Len(given) = Len(counted) /\ After(given) = After(counted)
<1>1. /\ given \in Seq(Nat) /\ counted \in Seq(Nat) /\ Len(given) <= Len(counted)
      /\ \A i \in DOMAIN given : given[i] = counted[i]
  BY DEF ReaderInv, ReaderTypeOK, GivenInv
<1>2. Len(given) \in Nat /\ Len(counted) \in Nat
  BY <1>1
<1>3. given # <<>> => /\ Len(given) \in DOMAIN given /\ Len(given) > 0
                      /\ given[Len(given)] = counted[Len(given)]
  BY <1>1
<1>4. given = <<>> => Len(given) = 0
  OBVIOUS
<1>5. ASSUME Len(given) < Len(counted)
      PROVE  /\ Len(given) + 1 \in DOMAIN counted
             /\ After(given) = counted[Len(given) + 1]
  <2>1. Len(given) + 1 \in DOMAIN counted /\ (Len(given) + 1) - 1 = Len(given)
    BY <1>1, <1>2, <1>5
  <2>2. counted[Len(given) + 1] =
            IF Len(given) + 1 = 1 THEN first
            ELSE counted[Len(given)] + HeaderAt(bytes, counted[Len(given)])
    BY <2>1 DEF ReaderInv, CountInv
  <2> QED
    BY <1>2, <1>3, <1>4, <2>1, <2>2 DEF After
<1>6. ASSUME ~ (Len(given) < Len(counted))
      PROVE  Len(given) = Len(counted) /\ After(given) = After(counted)
  <2>1. Len(given) = Len(counted)
    BY <1>1, <1>2, <1>6
  <2>2. given = <<>> <=> counted = <<>>
    BY <1>1, <2>1
  <2> QED
    BY <1>3, <2>1, <2>2 DEF After
<1> QED
  BY <1>2, <1>5, <1>6

(* What is readable was counted; a frame that was counted is readable.     *)
LEMMA ReadableIsCounted ==
    ASSUME ReaderInv, step = "read", Going, AllWithData
    PROVE  /\ Len(given) < Len(counted) =>
                  /\ fs = counted[Len(given) + 1]
                  /\ Len(given) + 1 \in DOMAIN counted
                  /\ fs + header_size <= Size(bytes) /\ WithData(fs)
                  /\ Readable
           /\ ~ (Len(given) < Len(counted)) =>
                  /\ Len(given) = Len(counted)
                  /\ fs + header_size > Size(bytes) \/ HeaderAt(bytes, fs) <= 0
                  /\ ~Readable
<1>1. fs = After(given)
  BY DEF Going
<1>2. /\ fs \in Nat /\ Size(bytes) \in Nat /\ HeaderAt(bytes, fs) \in Nat \cup {-1}
      /\ header_size \in {4, 7}
  BY FrameType, TrackType DEF ReaderInv, ReaderTypeOK, None
<1>3. /\ Len(given) \in Nat /\ total_frames = Len(counted)
      /\ Len(given) = send_frame_number + frames_from_file
      /\ send_frame_number \in Nat /\ frames_from_file \in Nat
  BY AudioConstants, BlockConstants, AfterGiven
     DEF ReaderInv, ReaderTypeOK, CountInv, GivenInv, frames_to_read
<1>4. header_size = IF aac THEN 7 ELSE 4
  BY DEF header_size, AAC_HEADER, MPX_HEADER
<1>5. ASSUME Len(given) < Len(counted)
      PROVE  /\ fs = counted[Len(given) + 1] /\ Len(given) + 1 \in DOMAIN counted
             /\ fs + header_size <= Size(bytes) /\ WithData(fs) /\ Readable
  <2>1. fs = counted[Len(given) + 1] /\ Len(given) + 1 \in DOMAIN counted
    BY <1>1, <1>5, AfterGiven
  <2>2. fs + header_size <= Size(bytes) /\ WithData(fs)
    BY <2>1 DEF ReaderInv, CountInv, AllWithData
  <2>3. HeaderAt(bytes, fs) \in header_size + 1..MAX_LENGTH
    BY <2>2 DEF WithData
  <2>4. HeaderAt(bytes, fs) \in (IF aac THEN AAC_HEADER ELSE 0) + 1..MAX_LENGTH
    BY <1>2, <1>4, <2>3, AudioConstants, BlockConstants DEF AAC_HEADER
  <2>5. send_frame_number < total_frames
    BY <1>3, <1>5, AfterGiven
  <2> QED
    BY <2>1, <2>2, <2>4, <2>5 DEF Readable
<1>6. ASSUME ~ (Len(given) < Len(counted))
      PROVE  /\ Len(given) = Len(counted)
             /\ fs + header_size > Size(bytes) \/ HeaderAt(bytes, fs) <= 0
             /\ ~Readable
  <2>1. Len(given) = Len(counted) /\ fs = After(counted)
    BY <1>1, <1>6, AfterGiven
  <2>2. fs + header_size > Size(bytes) \/ HeaderAt(bytes, fs) <= 0
    BY <2>1 DEF ReaderInv, CountInv
  <2>3. ~Readable
    BY <1>2, <2>2, AudioConstants, BlockConstants DEF Readable, AAC_HEADER
  <2> QED
    BY <2>1, <2>2, <2>3
<1> QED
  BY <1>5, <1>6

LEMMA ReadFrameInv == ASSUME ReaderInv, ReadFrame PROVE ReaderInv'
<1>1. /\ step = "read" /\ step' = "read" /\ Readable
      /\ fs' = fs + HeaderAt(bytes, fs) /\ given' = Append(given, fs)
      /\ frames_from_file' = frames_from_file + 1 /\ frames_from_file < frames_to_read
      /\ UNCHANGED <<audio, total_frames, send_frame_number, first, counted, blocks>>
  BY DEF ReadFrame
<1>2. /\ fs \in Nat /\ Size(bytes) \in Nat /\ HeaderAt(bytes, fs) \in Nat
  <2>1. HeaderAt(bytes, fs) \in (IF aac THEN AAC_HEADER ELSE 0) + 1..MAX_LENGTH
    BY <1>1 DEF Readable
  <2> QED
    BY <2>1, FrameType, TrackType, AudioConstants, BlockConstants
       DEF ReaderInv, ReaderTypeOK, None, AAC_HEADER
<1>3. ReaderTypeOK'
  BY <1>1, <1>2, AudioConstants, BlockConstants DEF ReaderInv, ReaderTypeOK, frames_to_read
<1>4. header_size' = header_size /\ bytes' = bytes /\ After(counted)' = After(counted)
  BY <1>1 DEF header_size, aac, bytes, After
<1>5. CountInv'
  BY <1>1, <1>4 DEF ReaderInv, CountInv
<1>6. ASSUME AllWithData'
      PROVE  /\ Len(given') <= Len(counted)
             /\ \A i \in DOMAIN given' : given'[i] = counted[i]
             /\ Len(given') = send_frame_number + frames_from_file'
             /\ Going'
  <2>1. AllWithData
    BY <1>1, <1>4, <1>6 DEF AllWithData, WithData
  <2>2. Going
    BY <1>1, <2>1 DEF ReaderInv, GivenInv, Over
  <2>3. Len(given) < Len(counted) /\ fs = counted[Len(given) + 1]
    BY <1>1, <2>1, <2>2, ReadableIsCounted
  <2>4. /\ given \in Seq(Nat) /\ counted \in Seq(Nat)
        /\ \A i \in DOMAIN given : given[i] = counted[i]
        /\ Len(given) = send_frame_number + frames_from_file
        /\ send_frame_number \in Nat /\ frames_from_file \in Nat
    BY <2>1, AudioConstants, BlockConstants DEF ReaderInv, ReaderTypeOK, GivenInv, frames_to_read
  <2>5. Len(given') = Len(given) + 1 /\ given' # <<>> /\ given'[Len(given) + 1] = fs
    BY <1>1, <1>2, <2>4
  <2>6. \A i \in DOMAIN given' : given'[i] = counted[i]
    <3> SUFFICES ASSUME NEW i \in DOMAIN given' PROVE given'[i] = counted[i]
      OBVIOUS
    <3>1. i \in DOMAIN given \/ i = Len(given) + 1
      BY <1>1, <1>2, <2>4
    <3>2. i \in DOMAIN given => given'[i] = given[i]
      BY <1>1, <1>2, <2>4
    <3> QED
      BY <2>3, <2>4, <2>5, <3>1, <3>2
  <2>7. After(given)' = fs'
    BY <1>1, <1>4, <2>5 DEF After
  <2>8. Going'
    BY <1>1, <2>2, <2>7 DEF Going, Whole, frames_to_read
  <2>9. Len(given') <= Len(counted) /\ Len(given') = send_frame_number + frames_from_file'
    BY <1>1, <2>3, <2>4, <2>5
  <2> QED
    BY <2>6, <2>8, <2>9
<1>7. GivenInv'
  BY <1>1, <1>6 DEF GivenInv
<1> QED
  BY <1>3, <1>5, <1>7 DEF ReaderInv

(* Where a call stops before its block is full, nothing is left but a      *)
(* torn frame, and the next call reads nothing.                            *)
LEMMA StopFinishes ==
    ASSUME ReaderInv, step = "read", Going, AllWithData, Stops
    PROVE  Finished
<1>1. /\ fs = After(given) /\ Len(counted) \in Nat /\ Len(given) \in Nat
  BY AfterGiven DEF Going
<1>2. CASE Len(given) < Len(counted)
  <2>1. /\ fs = counted[Len(given) + 1] /\ Readable /\ WithData(fs)
    BY <1>2, ReadableIsCounted
  <2>2. Torn(fs)
    BY <2>1 DEF Stops, Torn
  <2>3. Len(given) + 1 = Len(counted)
    <3> SUFFICES ASSUME Len(given) + 1 # Len(counted) PROVE FALSE
      OBVIOUS
    <3>1. counted \in Seq(Nat)
      BY DEF ReaderInv, ReaderTypeOK
    <3>2. Len(given) + 2 \in DOMAIN counted /\ (Len(given) + 2) - 1 = Len(given) + 1
          /\ Len(given) + 2 # 1 /\ counted[Len(given) + 2] \in Nat
      BY <1>1, <1>2, <3>1
    <3>3. /\ counted[Len(given) + 2] = fs + HeaderAt(bytes, fs)
          /\ counted[Len(given) + 2] + header_size <= Size(bytes)
      BY <2>1, <3>2 DEF ReaderInv, CountInv
    <3> QED
      BY <2>2, <3>2, <3>3, TrackType DEF Torn, ReaderInv, ReaderTypeOK
  <2>4. \A i \in DOMAIN counted : i > Len(given) => i = Len(given) + 1
    BY <1>1, <2>3 DEF ReaderInv, ReaderTypeOK
  <2> QED
    BY <1>1, <2>1, <2>2, <2>3, <2>4 DEF Finished
<1>3. CASE ~ (Len(given) < Len(counted))
  <2>1. /\ Len(given) = Len(counted)
        /\ fs + header_size > Size(bytes) \/ HeaderAt(bytes, fs) <= 0
    BY <1>3, ReadableIsCounted
  <2>2. \A i \in DOMAIN counted : ~ (i > Len(given))
    BY <1>1, <2>1 DEF ReaderInv, ReaderTypeOK
  <2>3. WithData(fs) => Torn(fs)
    <3>1. /\ fs \in Nat /\ Size(bytes) \in Nat /\ header_size \in {4, 7}
          /\ HeaderAt(bytes, fs) \in Nat \cup {-1}
      BY TrackType, FrameType DEF ReaderInv, ReaderTypeOK, None
    <3> QED
      BY <2>1, <3>1, AudioConstants, BlockConstants DEF WithData, Torn
  <2> QED
    BY <1>1, <2>2, <2>3 DEF Finished
<1> QED
  BY <1>2, <1>3

LEMMA BehindType == ASSUME ReaderInv PROVE Behind \in Nat
<1>1. /\ fs \in Nat /\ Size(bytes) \in Nat /\ header_size \in {4, 7}
  BY TrackType DEF ReaderInv, ReaderTypeOK
<1> QED
  BY <1>1 DEF Behind

LEMMA NothingBehind ==
    ASSUME ReaderInv, step = "read", Going, AllWithData, Stops,
           fs' = Behind, send_frame_number' = send_frame_number + frames_from_file,
           UNCHANGED <<audio, total_frames>>
    PROVE  ~Readable'
<1>1. header_size' = header_size /\ bytes' = bytes /\ aac' = aac
  BY DEF header_size, aac, bytes
<1>2. /\ fs \in Nat /\ Size(bytes) \in Nat /\ header_size \in {4, 7}
  BY TrackType DEF ReaderInv, ReaderTypeOK
<1>3. /\ send_frame_number \in Nat /\ frames_from_file \in Nat /\ total_frames = Len(counted)
      /\ Len(given) = send_frame_number + frames_from_file /\ Len(counted) \in Nat
  BY AudioConstants, BlockConstants, AfterGiven
     DEF ReaderInv, ReaderTypeOK, CountInv, GivenInv, frames_to_read
<1>4. CASE send_frame_number' >= total_frames
  BY <1>3, <1>4 DEF Readable
<1>5. CASE ~ (send_frame_number' >= total_frames)
  <2>1. Len(given) < Len(counted)
    BY <1>3, <1>5
  <2>2. Readable /\ ~ (send_frame_number >= total_frames)
    BY <1>3, <2>1, ReadableIsCounted
  <2>3. fs' = Size(bytes)
    BY <2>2 DEF Behind
  <2>4. fs' + header_size > Size(bytes)
    BY <1>2, <2>3
  <2>5. ~ (fs' + header_size <= Size(bytes))
    BY <1>2, <2>3, <2>4
  <2> QED
    BY <1>1, <2>5 DEF Readable
<1> QED
  BY <1>4, <1>5

LEMMA BlocksTimes ==
    ASSUME NEW b \in Nat PROVE (b + 1) * frames_to_read = b * frames_to_read + frames_to_read
                            /\ b * frames_to_read \in Nat
  BY AudioConstants, BlockConstants DEF frames_to_read

LEMMA GetFramesInv == ASSUME ReaderInv, GetFrames PROVE ReaderInv'
<1> DEFINE full == frames_from_file = frames_to_read
<1>1. /\ step = "read"
      /\ full \/ Stops
      /\ fs' = IF full THEN fs ELSE Behind
      /\ send_frame_number' = send_frame_number + frames_from_file
      /\ frames_from_file' = 0
      /\ IF frames_from_file = 0 THEN step' = "ended" /\ blocks' = blocks
         ELSE blocks' = blocks + 1 /\ step' = "read"
      /\ UNCHANGED <<audio, total_frames, first, counted, given>>
  BY DEF GetFrames
<1>2. /\ frames_to_read \in Nat /\ frames_to_read > 0
      /\ frames_from_file \in 0..frames_to_read /\ send_frame_number \in Nat
      /\ blocks \in Nat /\ fs \in Nat /\ fs' \in Nat
  BY <1>1, AudioConstants, BlockConstants, BehindType DEF ReaderInv, ReaderTypeOK, frames_to_read
<1>3. ReaderTypeOK'
  BY <1>1, <1>2 DEF ReaderInv, ReaderTypeOK, frames_to_read
<1>4. header_size' = header_size /\ bytes' = bytes
      /\ After(counted)' = After(counted) /\ After(given)' = After(given)
  BY <1>1 DEF header_size, aac, bytes, After
<1>5. CountInv'
  <2>1. step = "read" /\ step' \in {"read", "ended"}
        /\ UNCHANGED <<total_frames, first, counted>>
    BY <1>1
  <2> QED
    BY <1>4, <2>1 DEF ReaderInv, CountInv
<1>6. Finished' <=> Finished
  BY <1>1, <1>4 DEF Finished, Torn, WithData
<1>7. ASSUME AllWithData'
      PROVE  /\ Len(given) <= Len(counted)
             /\ \A i \in DOMAIN given : given[i] = counted[i]
             /\ Len(given) = send_frame_number' + frames_from_file'
             /\ step' = "read" => Going' \/ Over'
             /\ step' = "ended" => Finished' /\ Short'
  <2>1. AllWithData
    BY <1>1, <1>4, <1>7 DEF AllWithData, WithData
  <2>2. /\ Len(given) <= Len(counted)
        /\ \A i \in DOMAIN given : given[i] = counted[i]
        /\ Len(given) = send_frame_number + frames_from_file
        /\ Going \/ Over
    <3>1. step = "read"
      BY <1>1
    <3> QED
      BY <2>1, <3>1 DEF ReaderInv, GivenInv
  <2>3. Len(given) = send_frame_number' + frames_from_file'
    BY <1>1, <1>2, <2>2
  <2>4. CASE Over
    <3>1. frames_from_file = 0 /\ step' = "ended" /\ blocks' = blocks /\ Finished /\ Short
      BY <1>1, <2>4 DEF Over
    <3>2. Short'
      BY <1>1, <3>1 DEF Short, frames_to_read
    <3> QED
      BY <1>6, <2>2, <2>3, <3>1, <3>2
  <2>5. CASE Going /\ full
    <3>1. step' = "read" /\ blocks' = blocks + 1 /\ fs' = fs
          /\ send_frame_number' = send_frame_number + frames_to_read
      BY <1>1, <1>2, <2>5
    <3>2. blocks * frames_to_read = send_frame_number
      BY <2>5 DEF Going, Whole
    <3>3. blocks' * frames_to_read = send_frame_number'
      BY <1>2, <3>1, <3>2, BlocksTimes
    <3>4. Going'
      BY <1>4, <2>5, <3>1, <3>3 DEF Going, Whole, frames_to_read
    <3> QED
      BY <2>2, <2>3, <3>1, <3>4
  <2>6. CASE Going /\ ~full
    <3>0. /\ step = "read" /\ Stops /\ fs' = Behind
          /\ send_frame_number' = send_frame_number + frames_from_file
          /\ UNCHANGED <<audio, total_frames>>
      BY <1>1, <2>6
    <3>1. Finished
      BY <2>1, <2>6, <3>0, StopFinishes
    <3>2. blocks * frames_to_read = send_frame_number
      BY <2>6 DEF Going, Whole
    <3>3. ~Readable'
      BY <2>1, <2>6, <3>0, NothingBehind
    <3>4. Short'
      <4>1. CASE frames_from_file = 0
        <5>1. blocks' * frames_to_read - Len(given) = 0
          BY <1>1, <1>2, <2>2, <3>2, <4>1
        <5> QED
          BY <1>1, <1>2, <5>1 DEF Short, frames_to_read
      <4>2. CASE frames_from_file # 0
        <5>1. blocks' * frames_to_read = send_frame_number + frames_to_read
          BY <1>1, <1>2, <3>2, <4>2, BlocksTimes
        <5>2. blocks' * frames_to_read - Len(given) = frames_to_read - frames_from_file
          BY <1>2, <2>2, <5>1
        <5>3. frames_to_read - frames_from_file \in 0..frames_to_read - 1
          BY <1>2, <4>2
        <5> QED
          BY <1>1, <5>2, <5>3 DEF Short, frames_to_read
      <4> QED
        BY <4>1, <4>2
    <3>5. Over'
      BY <1>1, <1>6, <3>1, <3>3, <3>4 DEF Over
    <3> QED
      BY <1>1, <1>6, <2>2, <2>3, <3>1, <3>4, <3>5
  <2> QED
    BY <2>2, <2>4, <2>5, <2>6
<1>8. GivenInv'
  <2>1. step' \in {"read", "ended"}
    BY <1>1
  <2> QED
    BY <1>1, <1>7, <2>1 DEF GivenInv
<1> QED
  BY <1>3, <1>5, <1>8 DEF ReaderInv

LEMMA ReaderNextInv == ReaderInv /\ [ReaderNext]_reader_vars => ReaderInv'
<1> SUFFICES ASSUME ReaderInv, [ReaderNext]_reader_vars PROVE ReaderInv'
  OBVIOUS
<1>1. CASE UNCHANGED reader_vars
  BY <1>1 DEF reader_vars, ReaderInv, ReaderTypeOK, CountInv, GivenInv, After, AllWithData,
     WithData, Going, Whole, Over, Finished, Short, Torn, Readable, bytes, aac, header_size,
     frames_to_read
<1> QED
  BY <1>1, OpenTrackInv, AacCountInv, MpxCountInv, MeasuredInv, StartPlayInv, ReadFrameInv,
     GetFramesInv DEF ReaderNext

THEOREM ReaderInvariant == ReaderSpec => []ReaderInv
  BY ReaderInitInv, ReaderNextInv, PTL DEF ReaderSpec

(* The loop that gives a track away agrees with the loop that counted it,  *)
(* for every file of which the first loop counted frames with data.        *)
THEOREM ReaderSkipsNothing == ReaderSpec => []NothingSkipped
<1>1. ReaderInv => NothingSkipped
  <2> SUFFICES ASSUME ReaderInv, AllWithData
               PROVE  /\ Len(given) <= Len(counted)
                      /\ \A i \in DOMAIN given :
                            /\ given[i] = counted[i]
                            /\ given[i] = IF i = 1 THEN first
                                          ELSE given[i-1] + HeaderAt(bytes, given[i-1])
                      /\ step = "ended" => Finished
                      /\ frames_from_file = 0 => Short
    BY DEF NothingSkipped, AllWithData, Finished, Short
  <2>1. /\ Len(given) <= Len(counted) /\ \A i \in DOMAIN given : given[i] = counted[i]
        /\ step = "ended" => Finished
    BY DEF ReaderInv, GivenInv
  <2>2. ASSUME NEW i \in DOMAIN given
        PROVE  given[i] = IF i = 1 THEN first
                          ELSE given[i-1] + HeaderAt(bytes, given[i-1])
    <3>1. given \in Seq(Nat) /\ counted \in Seq(Nat)
      BY DEF ReaderInv, ReaderTypeOK
    <3>2. i \in DOMAIN counted /\ (i # 1 => i - 1 \in DOMAIN given)
      BY <2>1, <3>1
    <3> QED
      BY <2>1, <3>2 DEF ReaderInv, CountInv
  <2>3. ASSUME frames_from_file = 0 PROVE Short
    <3>0. /\ frames_to_read \in Nat /\ frames_to_read > 0
          /\ frames_from_file \in 0..frames_to_read /\ send_frame_number \in Nat
      BY AudioConstants, BlockConstants DEF ReaderInv, ReaderTypeOK, frames_to_read
    <3>1. Len(given) = send_frame_number
      BY <2>3, <3>0 DEF ReaderInv, GivenInv
    <3>2. CASE step \notin {"read", "ended"}
      <4>1. blocks = 0 /\ Len(given) = 0 /\ 0 * frames_to_read = 0
        BY <3>0, <3>2 DEF ReaderInv, GivenInv
      <4> QED
        BY <3>0, <4>1 DEF Short
    <3>3. CASE step \in {"read", "ended"} /\ ~Short
      <4>1. Going
        BY <3>3 DEF ReaderInv, GivenInv, Over
      <4>2. blocks * frames_to_read - Len(given) = 0
        BY <3>0, <3>1, <4>1 DEF Going, Whole
      <4> QED
        BY <3>0, <3>3, <4>2 DEF Short
    <3> QED
      BY <3>2, <3>3
  <2> QED
    BY <2>1, <2>2, <2>3
<1> QED
  BY <1>1, ReaderInvariant, PTL

-----------------------------------------------------------------------------
(* The times are of the types the code gives them, without a condition on  *)
(* the constants.                                                          *)

LEMMA PacingTypes == PacingSpec => []PacingTypeOK
<1>1. PacingInit => PacingTypeOK
  <2> SUFFICES ASSUME PacingInit PROVE PacingTypeOK
    OBVIOUS
  <2>1. tracks \in 0..MaxTracks
    BY PacingConstants DEF PacingInit
  <2>2. /\ phase \in {"open", "play", "over"} /\ length \in Lengths \union {0}
        /\ time_read \in Nat /\ time_sent \in Nat /\ time_elapsed \in Nat
        /\ ahead \in Int /\ lost \in Nat /\ outage \in Nat
    BY DEF PacingInit
  <2>3. link \in BOOLEAN /\ stalled \in BOOLEAN
    BY Zenon DEF PacingInit
  <2> QED
    BY <2>1, <2>2, <2>3, Zenon DEF PacingTypeOK
<1> QED
  BY <1>1, PacingNextType, PTL DEF PacingSpec

(* The parts together: what they do is what each of them does alone.       *)
LEMMA StreamParts == MCSpec => Spec /\ ReaderSpec /\ PacingSpec /\ ControlSpec
<1>1. MCInit => Init /\ ReaderInit /\ PacingInit /\ ControlInit
  BY DEF MCInit
<1> DEFINE all == <<part, vars, reader_vars, pacing_vars, control_vars>>
<1>2. [MCNext]_all => [Next]_vars
  BY DEF MCNext, MCSocket, MCReader, MCPacing, MCControl
<1>3. [MCNext]_all => [ReaderNext]_reader_vars
  BY DEF MCNext, MCSocket, MCReader, MCPacing, MCControl
<1>4. [MCNext]_all => [PacingNext]_pacing_vars
  BY DEF MCNext, MCSocket, MCReader, MCPacing, MCControl
<1>5. [MCNext]_all => [ControlNext]_control_vars
  BY DEF MCNext, MCSocket, MCReader, MCPacing, MCControl
<1> QED
  BY <1>1, <1>2, <1>3, <1>4, <1>5, PTL
     DEF MCSpec, Spec, ReaderSpec, PacingSpec, ControlSpec

(* The object of the connection, the reader, the times and the processes   *)
(* keep to the values of the code, for every file, every lag and every     *)
(* number of processes.                                                    *)
THEOREM StreamTypes == MCSpec => []StreamTypeOK
<1>1. SocketInv => TypeOK
  BY DEF SocketInv
<1>2. ReaderInv => ReaderTypeOK
  BY DEF ReaderInv
<1>3. ControlInv => ControlTypeOK
  BY DEF ControlInv
<1>4. TypeOK /\ ReaderTypeOK /\ PacingTypeOK /\ ControlTypeOK => StreamTypeOK
  BY DEF StreamTypeOK
<1> QED
  BY <1>1, <1>2, <1>3, <1>4, StreamParts, SocketInvariant, ReaderInvariant,
     PacingTypes, ControlInvariant, PTL
=============================================================================
