--------------------------- MODULE Musicgo_proofs ----------------------------
(***************************************************************************)
(* Proofs about musicgo.                                                   *)
(***************************************************************************)
EXTENDS MCMusicgo, NumberLemmas

-----------------------------------------------------------------------------
(* The pid file, for any number of processes and of deaths without         *)
(* cleaning up.                                                            *)

(* While no process has died without cleaning up, the file names a daemon  *)
(* on its way to DisposeCommon; an empty file is open in a daemon that     *)
(* either writes its pid or removes the file.                              *)
NamedInv == pidfile \in Pids => at[pidfile] \in {"listen", "serve", "closing", "dispose"}
EmptyInv == pidfile = Empty => writer \in Pids /\ at[writer] \in {"fork", "write", "dispose"}

(* A file that a starting daemon has open under its name is still empty.   *)
WriterInv == writer \in Pids => pidfile = Empty

PidInv ==
    /\ PidTypeOK
    /\ crashes = 0 => NamedInv /\ EmptyInv
    /\ WriterInv

LEMMA PidInitInv == PidInit => PidInv
<1> SUFFICES ASSUME PidInit PROVE PidInv
  OBVIOUS
<1>1. PidTypeOK
  BY PidConstants DEF PidInit, PidTypeOK, NoPid, Alien
<1> QED
  BY <1>1, PidConstants DEF PidInit, PidInv, NamedInv, EmptyInv, WriterInv, NoPid

(* The types hold after every step.                                        *)
LEMMA PidNextType == PidTypeOK /\ [PidNext]_pid_vars => PidTypeOK'
<1> SUFFICES ASSUME PidTypeOK, [PidNext]_pid_vars PROVE PidTypeOK'
  OBVIOUS
<1> USE PidConstants DEF PidTypeOK, Goes, Ended, Unlinked, Closed, Handlers, Alien, NoPid
<1>1. CASE UNCHANGED pid_vars
  BY <1>1 DEF pid_vars
<1>2. ASSUME NEW p \in Pids,
             \/ StartDaemon(p) \/ StartForeground(p) \/ StartMisconfigured(p)
             \/ StopCommand(p) \/ OtherProcess(p) \/ GetPid(p)
      PROVE  PidTypeOK'
  BY <1>2 DEF StartDaemon, StartForeground, StartMisconfigured, StopCommand,
              OtherProcess, GetPid
<1>3. ASSUME NEW p \in Pids,
             \/ Check(p) \/ RemoveStale(p) \/ Create(p) \/ DaemonForkFails(p)
             \/ WritePid(p) \/ Listen(p) \/ DisposeCommon(p) \/ OnSigTerm(p)
      PROVE  PidTypeOK'
  BY <1>3 DEF Check, RemoveStale, Create, DaemonForkFails, WritePid, Listen,
              DisposeCommon, OnSigTerm
<1>4. ASSUME NEW p \in Pids, NEW c \in Pids, Fork(p, c) PROVE PidTypeOK'
  BY <1>4 DEF Fork
<1>5. ASSUME NEW p \in Pids, Kill(p) PROVE PidTypeOK'
  BY <1>5 DEF Kill, Terminated
<1>6. ASSUME NEW p \in Pids, Crash(p) PROVE PidTypeOK'
  BY <1>6 DEF Crash
<1> QED
  BY <1>1, <1>2, <1>3, <1>4, <1>5, <1>6 DEF PidNext

(* So do the facts about the file.                                         *)
LEMMA PidNextInv == PidInv /\ [PidNext]_pid_vars => PidInv'
<1> SUFFICES ASSUME PidInv, [PidNext]_pid_vars
             PROVE  /\ crashes' = 0 => NamedInv' /\ EmptyInv'
                    /\ WriterInv'
  BY PidNextType DEF PidInv
<1> DEFINE Kept == (crashes' = 0 => NamedInv' /\ EmptyInv') /\ WriterInv'
<1> USE PidConstants
    DEF PidInv, PidTypeOK, NamedInv, EmptyInv, WriterInv, Goes, Ended, Unlinked,
        Closed, Handlers, Alien, NoPid
<1>1. CASE UNCHANGED pid_vars
  BY <1>1 DEF pid_vars
<1>2. ASSUME NEW p \in Pids,
             \/ StartDaemon(p) \/ StartForeground(p) \/ StartMisconfigured(p)
             \/ StopCommand(p) \/ OtherProcess(p) \/ GetPid(p)
      PROVE  Kept
  BY <1>2 DEF StartDaemon, StartForeground, StartMisconfigured, StopCommand,
              OtherProcess, GetPid
<1>3. ASSUME NEW p \in Pids,
             Check(p) \/ RemoveStale(p) \/ Create(p) \/ DaemonForkFails(p)
      PROVE  Kept
  BY <1>3 DEF Check, RemoveStale, Create, DaemonForkFails
<1>4. ASSUME NEW p \in Pids,
             WritePid(p) \/ Listen(p) \/ DisposeCommon(p) \/ OnSigTerm(p)
      PROVE  Kept
  BY <1>4 DEF WritePid, Listen, DisposeCommon, OnSigTerm
<1>5. ASSUME NEW p \in Pids, NEW c \in Pids, Fork(p, c) PROVE Kept
  BY <1>5 DEF Fork
<1>6. ASSUME NEW p \in Pids, Kill(p) PROVE Kept
  <2>1. \A q \in Pids : at[q] \in {"listen", "fork", "write", "dispose"}
                        => at'[q] \in {at[q], "dispose"}
    BY <1>6 DEF Kill, Terminated
  <2>2. \A q \in Pids : at[q] \in {"serve", "closing"} => at'[q] \in {at[q], "closing"}
    BY <1>6 DEF Kill, Terminated
  <2>3. UNCHANGED <<pidfile, writer, crashes>>
    BY <1>6 DEF Kill
  <2> QED
    BY <2>1, <2>2, <2>3
<1>7. ASSUME NEW p \in Pids, Crash(p) PROVE Kept
  BY <1>7 DEF Crash
<1> QED
  BY <1>1, <1>2, <1>3, <1>4, <1>5, <1>6, <1>7 DEF PidNext

THEOREM PidInvariant == PidSpec => []PidInv
  BY PidInitInv, PidNextInv, PTL DEF PidSpec

-----------------------------------------------------------------------------
(* The pid that getPid and CheckLockPIDExists find in the file is that of  *)
(* a daemon that has not ended, unless one has died without DisposeCommon. *)
THEOREM FileNamesADaemon == PidSpec => []NamesADaemon
<1>1. PidInv => NamesADaemon
  BY DEF PidInv, NamedInv, NamesADaemon
<1> QED
  BY <1>1, PidInvariant, PTL

(* The file is gone when all processes of musicgo are, unless one has died *)
(* without DisposeCommon.                                                  *)
THEOREM NothingIsLeft == PidSpec => []LeavesNothing
<1>1. PidInv => LeavesNothing
  BY DEF PidInv, PidTypeOK, NamedInv, EmptyInv, LeavesNothing, Alien
<1> QED
  BY <1>1, PidInvariant, PTL

-----------------------------------------------------------------------------
(* The server, for any number of connections and any length of the queue.  *)

(* A line is in the queue only after its child has written it.             *)
LinesInv == \A i \in DOMAIN queue : conn[queue[i]] \in {"exit", "zombie", "gone"}

(* As long as the server is not being stopped, a line of a child that has  *)
(* been reaped is in the queue only while sighandler reads the queue.      *)
DrainInv ==
    server = "serving" =>
        \A i \in DOMAIN queue : conn[queue[i]] = "gone" => hand = "drain"

ServerInv == ServerTypeOK /\ LinesInv /\ DrainInv

LEMMA ServerInitInv == ServerInit => ServerInv
<1> SUFFICES ASSUME ServerInit PROVE ServerInv
  OBVIOUS
<1>1. /\ conn \in [Kids -> Working \union {"out", "waiting", "dropped", "held", "zombie", "gone"}]
      /\ queue \in Seq(Kids) /\ Len(queue) <= QueueMax
      /\ come \subseteq Kids /\ logged \subseteq Kids
      /\ hand \in {"off", "reap", "drain"}
      /\ server \in {"serving", "closing", "stuck", "ended"}
  BY ServerConstants DEF ServerInit
<1>2. chld \in BOOLEAN
  BY Zenon DEF ServerInit
<1>3. LinesInv /\ DrainInv
  BY DEF ServerInit, LinesInv, DrainInv
<1> QED
  BY <1>1, <1>2, <1>3, Zenon DEF ServerInv, ServerTypeOK

-----------------------------------------------------------------------------
(* Steps of one connection that leave the queue and the handler alone.     *)
LEMMA GetsInv ==
    ASSUME ServerInv, NEW k \in Kids, NEW pc, Gets(k, pc),
           pc \in Working \union {"waiting", "dropped", "held", "zombie"},
           pc \in {"exit", "zombie"} \/ conn[k] \notin {"exit", "zombie", "gone"},
           UNCHANGED <<come, queue, logged, hand, server>>, chld' \in BOOLEAN
    PROVE  ServerInv'
<1> USE DEF ServerInv, ServerTypeOK, Gets
<1>1. ServerTypeOK'
  OBVIOUS
<1>2. LinesInv'
  BY DEF LinesInv
<1>3. DrainInv'
  BY DEF DrainInv, Working
<1> QED
  BY <1>1, <1>2, <1>3

LEMMA ConnectionInv ==
    ASSUME ServerInv, NEW k \in Kids,
           \/ Connect(k) \/ Accept(k) \/ ForkFails(k) \/ FcntlFails(k)
           \/ Wake(k) \/ Answer(k) \/ ChildDies(k) \/ Exit(k)
    PROVE  ServerInv'
<1> USE GetsInv DEF Working
<1>1. CASE Connect(k)
  BY <1>1 DEF Connect, ServerInv, ServerTypeOK
<1>2. CASE Accept(k) \/ ForkFails(k) \/ FcntlFails(k)
  BY <1>2 DEF Accept, ForkFails, FcntlFails, ServerInv, ServerTypeOK
<1>3. CASE Wake(k) \/ Answer(k)
  BY <1>3 DEF Wake, Answer, ServerInv, ServerTypeOK
<1>4. CASE ChildDies(k) \/ Exit(k)
  <2>1. chld' \in BOOLEAN
    BY <1>4, Zenon DEF ChildDies, Exit
  <2> QED
    BY <1>4, <2>1 DEF ChildDies, Exit
<1> QED
  BY <1>1, <1>2, <1>3, <1>4

LEMMA MsgSendInv ==
    ASSUME ServerInv, NEW k \in Kids, MsgSend(k)
    PROVE  ServerInv'
<1> USE ServerConstants DEF ServerInv, ServerTypeOK, MsgSend, Gets
<1>1. \/ queue' = queue
      \/ queue' = Append(queue, k) /\ Len(queue) < QueueMax
  OBVIOUS
<1>2. ServerTypeOK'
  BY <1>1 DEF Working
<1>3. \A i \in DOMAIN queue' : queue'[i] = k \/ (i \in DOMAIN queue /\ queue'[i] = queue[i])
  BY <1>1
<1>4. LinesInv'
  BY <1>3 DEF LinesInv
<1>5. DrainInv'
  BY <1>3 DEF DrainInv
<1> QED
  BY <1>2, <1>4, <1>5

(* sighandler: it leaves the loop over the queue only when that is empty.  *)
LEMMA HandlerInv == ASSUME ServerInv, Handler PROVE ServerInv'
<1> USE DEF ServerInv, ServerTypeOK
<1>1. CASE Signalled
  <2>1. chld' \in BOOLEAN
    BY <1>1, Zenon DEF Signalled
  <2> QED
    BY <1>1, <2>1 DEF Signalled, LinesInv, DrainInv
<1>2. CASE Reap
  <2>1. CASE Children({"zombie"}) = {}
    BY <1>2, <2>1 DEF Reap, LinesInv, DrainInv
  <2>2. CASE Children({"zombie"}) # {}
    <3>1. PICK k \in Kids : Gets(k, "gone") /\ conn[k] = "zombie" /\ hand' = "drain"
      BY <1>2, <2>2 DEF Reap, Children
    <3> QED
      BY <1>2, <3>1 DEF Reap, Gets, LinesInv, DrainInv
  <2> QED
    BY <2>1, <2>2
<1>3. CASE Drain
  <2>1. CASE queue = <<>>
    BY <1>3, <2>1 DEF Drain, LinesInv, DrainInv
  <2>2. CASE queue # <<>>
    <3>1. /\ queue' = Tail(queue) /\ hand' = "drain" /\ Head(queue) \in Kids
          /\ UNCHANGED <<conn, come, chld, server>> /\ logged' \subseteq Kids
      BY <1>3, <2>2 DEF Drain
    <3>2. /\ queue' \in Seq(Kids) /\ Len(queue') <= Len(queue)
          /\ \A i \in DOMAIN queue' : i + 1 \in DOMAIN queue /\ queue'[i] = queue[i + 1]
      BY <2>2, <3>1
    <3> QED
      BY <3>1, <3>2, ServerConstants DEF LinesInv, DrainInv
  <2> QED
    BY <2>1, <2>2
<1> QED
  BY <1>1, <1>2, <1>3 DEF Handler

LEMMA StopInv ==
    ASSUME ServerInv, Terminate \/ DoClose
    PROVE  ServerInv'
<1> USE DEF ServerInv, ServerTypeOK
<1>1. CASE Terminate
  BY <1>1 DEF Terminate, LinesInv, DrainInv
<1>2. CASE DoClose
  <2>1. server' \in {"closing", "stuck", "ended"}
    BY <1>2 DEF DoClose
  <2>2. \/ UNCHANGED conn
        \/ \E k \in Kids : Gets(k, "gone")
    BY <1>2 DEF DoClose, Children
  <2>3. UNCHANGED <<come, queue, logged, chld, hand>>
    BY <1>2 DEF DoClose
  <2> QED
    BY <2>1, <2>2, <2>3 DEF Gets, LinesInv, DrainInv
<1> QED
  BY <1>1, <1>2

LEMMA ServerNextInv == ServerInv /\ [ServerNext]_server_vars => ServerInv'
<1> SUFFICES ASSUME ServerInv, [ServerNext]_server_vars PROVE ServerInv'
  OBVIOUS
<1>1. CASE UNCHANGED server_vars
  BY <1>1 DEF server_vars, ServerInv, ServerTypeOK, LinesInv, DrainInv
<1>2. ASSUME NEW k \in Kids, Arrive(k) PROVE ServerInv'
  BY <1>2 DEF Arrive, ServerInv, ServerTypeOK, LinesInv, DrainInv
<1> QED
  BY <1>1, <1>2, ConnectionInv, MsgSendInv, HandlerInv, StopInv
     DEF ServerNext, Client, Child

THEOREM ServerInvariant == ServerSpec => []ServerInv
  BY ServerInitInv, ServerNextInv, PTL DEF ServerSpec

-----------------------------------------------------------------------------
(* Until the server is stopped its message queue holds no line of a child  *)
(* that is gone, unless sighandler is just reading the queue.              *)
THEOREM QueueDoesNotFillUp == ServerSpec => []QueueIsDrained
<1>1. ServerInv => QueueIsDrained
  BY DEF ServerInv, DrainInv, QueueIsDrained, ToSet
<1> QED
  BY <1>1, ServerInvariant, PTL

-----------------------------------------------------------------------------
(* The answer of a child, for any requests and files.                       *)

(* A walk that ends in Stop with what b says, and counts its steps.        *)
Result == [out : {"ok", "no", "hangs"}, frames : Nat]
OneMore(r) == [r EXCEPT !.frames = @ + 1]

LEMMA OneMoreResult == ASSUME NEW r \in Result PROVE OneMore(r) \in Result
  BY DEF Result, OneMore

Walkable(N, Stop, b, nx) ==
    /\ N \in Nat /\ Stop \in SUBSET (0..N)
    /\ b \in [0..N -> Result] /\ nx \in [0..N -> Nat]
    /\ \A p \in 0..N : p \notin Stop => nx[p] \in p + 1..N

LEMMA WalkExists ==
    ASSUME NEW N, NEW Stop, NEW b, NEW nx, Walkable(N, Stop, b, nx)
    PROVE  \E u : u = [p \in 0..N |-> IF p \in Stop THEN b[p] ELSE OneMore(u[nx[p]])]
<1> USE DEF Walkable
<1> DEFINE Walks(u, m) ==
               /\ u \in [N - m..N -> Result]
               /\ \A p \in N - m..N :
                      u[p] = IF p \in Stop THEN b[p] ELSE OneMore(u[nx[p]])
           Without == {m \in 0..N : ~ \E u : Walks(u, m)}
<1>1. Without = {}
  <2> SUFFICES ASSUME Without # {} PROVE FALSE
    OBVIOUS
  <2>1. PICK m \in Without : \A y \in Without : m =< y
    <3>1. Without \in SUBSET Nat
      OBVIOUS
    <3> HIDE DEF Without
    <3> QED
      BY <3>1, LeastNumber
  <2>2. m \in 0..N /\ ~ \E u : Walks(u, m)
    BY <2>1
  <2>3. PICK q \in 0..N : q = N - m
    BY <2>2
  <2>4. CASE q \in Stop
    <3>1. PICK u : m # 0 => Walks(u, m - 1)
      <4>1. CASE m # 0
        <5>1. m - 1 \notin Without
          <6> HIDE DEF Without
          <6> QED
            BY <2>1, <2>2
        <5>2. m - 1 \in 0..N
          BY <2>2, <4>1
        <5> HIDE DEF Walks
        <5> QED
          BY <5>1, <5>2
      <4> QED
        BY <4>1
    <3> DEFINE v == [p \in q..N |-> IF p = q THEN b[q] ELSE u[p]]
    <3>2. \A p \in q..N : p # q => m # 0 /\ p \in N - (m - 1)..N
      BY <2>2, <2>3
    <3>3. \A p \in q..N : p \notin Stop => nx[p] # q /\ nx[p] \in q..N
      BY <2>3
    <3>4. v \in [q..N -> Result]
      BY <2>3, <3>1, <3>2
    <3>5. \A p \in q..N :
              v[p] = IF p \in Stop THEN b[p] ELSE OneMore(v[nx[p]])
      <4> TAKE p \in q..N
      <4>1. CASE p = q
        BY <2>4, <4>1
      <4>2. CASE p # q
        <5>1. u[p] = IF p \in Stop THEN b[p] ELSE OneMore(u[nx[p]])
          BY <3>1, <3>2, <4>2
        <5>2. p \notin Stop => v[nx[p]] = u[nx[p]]
          BY <3>3
        <5>3. v[p] = u[p]
          BY <4>2
        <5> HIDE DEF v
        <5> QED
          BY <5>1, <5>2, <5>3
      <4> QED
        BY <4>1, <4>2
    <3>6. Walks(v, m)
      <4> HIDE DEF v
      <4> QED
        BY <2>3, <3>4, <3>5
    <3> HIDE DEF Walks, v
    <3> QED
      BY <2>2, <3>6
  <2>5. CASE q \notin Stop
    <3>1. nx[q] \in q + 1..N
      BY <2>5
    <3>2. m # 0 /\ m - 1 \in 0..N /\ q + 1 = N - (m - 1)
      BY <2>2, <2>3, <3>1
    <3>3. PICK u : Walks(u, m - 1)
      <4>1. m - 1 \notin Without
        <5> HIDE DEF Without
        <5> QED
          BY <2>1, <2>2
      <4> HIDE DEF Walks
      <4> QED
        BY <3>2, <4>1
    <3> DEFINE v == [p \in q..N |-> IF p = q THEN OneMore(u[nx[q]]) ELSE u[p]]
    <3>4. \A p \in q..N : p # q => p \in N - (m - 1)..N
      BY <2>3, <3>2
    <3>5. \A p \in q..N : p \notin Stop => nx[p] # q /\ nx[p] \in q..N
      BY <2>3
    <3>6. v \in [q..N -> Result]
      <4>1. u[nx[q]] \in Result
        BY <3>1, <3>2, <3>3
      <4>2. OneMore(u[nx[q]]) \in Result
        BY <4>1, OneMoreResult
      <4>3. \A p \in q..N : p # q => u[p] \in Result
        BY <3>3, <3>4
      <4> QED
        BY <4>2, <4>3
    <3>7. \A p \in q..N :
              v[p] = IF p \in Stop THEN b[p] ELSE OneMore(v[nx[p]])
      <4> TAKE p \in q..N
      <4>1. p \notin Stop => v[nx[p]] = u[nx[p]]
        BY <3>5
      <4>2. CASE p = q
        <5>1. v[p] = OneMore(u[nx[q]])
          BY <4>2
        <5> HIDE DEF v
        <5> QED
          BY <2>5, <4>1, <4>2, <5>1
      <4>3. CASE p # q
        <5>1. u[p] = IF p \in Stop THEN b[p] ELSE OneMore(u[nx[p]])
          BY <3>3, <3>4, <4>3
        <5>2. v[p] = u[p]
          BY <4>3
        <5> HIDE DEF v
        <5> QED
          BY <4>1, <5>1, <5>2
      <4> QED
        BY <4>2, <4>3
    <3>8. Walks(v, m)
      <4> HIDE DEF v
      <4> QED
        BY <2>3, <3>6, <3>7
    <3> HIDE DEF Walks, v
    <3> QED
      BY <2>2, <3>8
  <2> QED
    BY <2>4, <2>5
<1>2. PICK u : Walks(u, N)
  <2>1. N \in 0..N
    OBVIOUS
  <2> HIDE DEF Walks
  <2> QED
    BY <1>1, <2>1
<1>3. \A p \in 0..N : u[p] = IF p \in Stop THEN b[p] ELSE OneMore(u[nx[p]])
  <2>1. N - N = 0
    OBVIOUS
  <2> QED
    BY <1>2, <2>1
<1>4. u = [p \in 0..N |-> u[p]]
  <2>1. N - N = 0
    OBVIOUS
  <2> QED
    BY <1>2, <2>1
<1> QED
  BY <1>3, <1>4

(* Whatever is defined that way gives results.                             *)
LEMMA WalkGivesResults ==
    ASSUME NEW N, NEW Stop, NEW b, NEW nx, Walkable(N, Stop, b, nx),
           NEW u,
           u = [p \in 0..N |-> IF p \in Stop THEN b[p] ELSE OneMore(u[nx[p]])]
    PROVE  \A p \in 0..N : u[p] \in Result
<1> USE DEF Walkable
<1> DEFINE Off == {m \in 0..N : u[N - m] \notin Result}
<1>1. Off = {}
  <2> SUFFICES ASSUME Off # {} PROVE FALSE
    OBVIOUS
  <2>1. PICK m \in Off : \A y \in Off : m =< y
    <3>1. Off \in SUBSET Nat
      OBVIOUS
    <3> HIDE DEF Off
    <3> QED
      BY <3>1, LeastNumber
  <2>2. m \in 0..N /\ u[N - m] \notin Result
    BY <2>1
  <2>3. PICK q \in 0..N : q = N - m
    BY <2>2
  <2>4. q \notin Stop /\ u[q] = OneMore(u[nx[q]])
    <3>1. u[q] = IF q \in Stop THEN b[q] ELSE OneMore(u[nx[q]])
      OBVIOUS
    <3>2. u[q] \notin Result
      BY <2>2, <2>3
    <3> QED
      BY <3>1, <3>2
  <2>5. nx[q] \in q + 1..N
    BY <2>4
  <2>6. PICK l \in 0..N : l = N - nx[q]
    BY <2>3, <2>5
  <2>7. l < m /\ N - l = nx[q]
    BY <2>2, <2>3, <2>5, <2>6
  <2>8. l \notin Off
    <3> HIDE DEF Off
    <3> QED
      BY <2>1, <2>2, <2>7
  <2>9. u[nx[q]] \in Result
    BY <2>7, <2>8
  <2> QED
    BY <2>2, <2>3, <2>4, <2>9, OneMoreResult
<1>2. \A p \in 0..N : N - p \in 0..N /\ N - (N - p) = p
  OBVIOUS
<1> QED
  BY <1>1, <1>2

-----------------------------------------------------------------------------
(* The segments of a file begin in it, and have a length.                  *)

LEMMA HeaderType ==
    ASSUME NEW f \in MediaType, NEW p PROVE HeaderAt(f, p) \in Nat \cup {None}
<1>1. f.bytes \in Seq(Nat \cup {None})
  BY DEF MediaType
<1>2. CASE p \in 0..Size(f) - 1
  <2>1. p + 1 \in DOMAIN f.bytes
    BY <1>1, <1>2 DEF Size
  <2> QED
    BY <1>1, <1>2, <2>1 DEF HeaderAt
<1> QED
  BY <1>2 DEF HeaderAt

LEMMA SizeType == ASSUME NEW f \in MediaType PROVE Size(f) \in Nat
  BY DEF MediaType, Size

LEMMA AacNextType ==
    ASSUME NEW f \in MediaType, NEW from \in Nat
    PROVE  AacNext(f, from) \in Nat
<1> DEFINE found == {i \in 0..Buffered(f, from) - 1 :
                         Buffered(f, from) - i >= MARGIN /\ AacHeader(f, from + i)}
<1>1. AacNext(f, from) = IF found = {} THEN 0 ELSE Min(found)
  BY DEF AacNext
<1>2. found \in SUBSET Nat
  OBVIOUS
<1> HIDE DEF found
<1>3. found # {} => Min(found) \in Nat
  BY <1>2, MinIsLeast
<1> QED
  BY <1>1, <1>3

LEMMA AacNextInFile ==
    ASSUME NEW f \in MediaType PROVE AacNext(f, 0) \in 0..Size(f)
<1> DEFINE n == Buffered(f, 0)
           found == {i \in 0..n - 1 : n - i >= MARGIN /\ AacHeader(f, 0 + i)}
<1>1. AacNext(f, 0) = IF found = {} THEN 0 ELSE Min(found)
  BY DEF AacNext
<1>2. Size(f) \in Nat
  BY SizeType
<1>3. n \in Nat /\ n <= Size(f)
  <2>1. CASE Size(f) = 0
    BY <2>1 DEF Buffered
  <2>2. CASE Size(f) # 0
    <3>1. {Window, Size(f)} \in SUBSET Nat /\ {Window, Size(f)} # {}
      BY <1>2, AudioConstants
    <3>2. /\ Min({Window, Size(f)}) \in {Window, Size(f)}
          /\ \A y \in {Window, Size(f)} : Min({Window, Size(f)}) =< y
      BY <3>1, MinIsLeast
    <3>3. n = Min({Window, Size(f)})
      <4>1. Size(f) - 0 = Size(f) /\ ~ (0 >= Size(f))
        BY <1>2, <2>2
      <4> QED
        BY <4>1 DEF Buffered
    <3> HIDE DEF n
    <3> QED
      BY <1>2, <3>2, <3>3, AudioConstants
  <2> QED
    BY <2>1, <2>2
<1> HIDE DEF n
<1>4. found \in SUBSET Nat /\ \A i \in found : i <= Size(f)
  BY <1>2, <1>3
<1> HIDE DEF found
<1>5. found # {} => Min(found) \in found /\ Min(found) \in Nat
  BY <1>4, MinIsLeast
<1> QED
  BY <1>1, <1>2, <1>4, <1>5

(* What the walk makes of the position p, when u says it of those behind.  *)
WalkStep(f, start, u, p) ==
    IF p + AAC_HEADER > Size(f) \/ HeaderAt(f, p) = None THEN Fails
    ELSE IF HeaderAt(f, p) = 0 THEN [out |-> "hangs", frames |-> 0]
    ELSE IF HeaderAt(f, p) > MAX_LENGTH THEN [out |-> "ok", frames |-> 0]
    ELSE IF (p + HeaderAt(f, p)) - start >= Size(f) THEN [out |-> "ok", frames |-> 1]
    ELSE IF p + HeaderAt(f, p) > Size(f) THEN Fails
    ELSE OneMore(u[p + HeaderAt(f, p)])

(* The walk exists, and each of its steps gives a result.                  *)
LEMMA AacWalkSteps ==
    ASSUME NEW f \in MediaType, NEW start \in 0..Size(f)
    PROVE  \E u : /\ AacWalk(f, start) = u[start]
                  /\ \A p \in 0..Size(f) : u[p] \in Result /\ u[p] = WalkStep(f, start, u, p)
<1> DEFINE N == Size(f)
           H(p) == HeaderAt(f, p)
           NoHeader(p) == p + AAC_HEADER > N \/ H(p) = None
           NoLength(p) == H(p) = 0
           TooLong(p) == H(p) > MAX_LENGTH
           to(p) == p + H(p)
           AtEnd(q) == q - start >= N
           Beyond(q) == q > N
           one == [out |-> "ok", frames |-> 1]
           hangs == [out |-> "hangs", frames |-> 0]
           none == [out |-> "ok", frames |-> 0]
           S(u) == u = [p \in 0..N |->
                     IF NoHeader(p) THEN Fails
                     ELSE IF NoLength(p) THEN hangs
                     ELSE IF TooLong(p) THEN none
                     ELSE LET next == to(p)
                          IN  IF AtEnd(next) THEN one
                              ELSE IF Beyond(next) THEN Fails
                              ELSE [u[next] EXCEPT !.frames = @ + 1]]
           Stop == {p \in 0..N : \/ NoHeader(p) \/ NoLength(p) \/ TooLong(p)
                                 \/ AtEnd(to(p)) \/ Beyond(to(p))}
           b == [p \in 0..N |-> IF NoHeader(p) THEN Fails
                                ELSE IF NoLength(p) THEN hangs
                                ELSE IF TooLong(p) THEN none
                                ELSE IF AtEnd(to(p)) THEN one
                                ELSE Fails]
           nx == [p \in 0..N |-> IF p \in Stop THEN 0 ELSE to(p)]
<1>1. N \in Nat
  BY SizeType
<1>2. \A p \in 0..N : H(p) \in Nat \cup {None}
  BY HeaderType
<1>3. Stop \in SUBSET (0..N)
  OBVIOUS
<1>4. b \in [0..N -> Result]
  <2>1. Fails \in Result /\ hangs \in Result /\ none \in Result /\ one \in Result
    BY DEF Result, Fails
  <2> HIDE DEF NoHeader, NoLength, TooLong, to, AtEnd, Beyond, one, hangs, none, N
  <2> QED
    BY <2>1
<1>5. nx \in [0..N -> Nat] /\ \A p \in 0..N : p \notin Stop => nx[p] \in p + 1..N
  <2>1. ASSUME NEW p \in 0..N, p \notin Stop
        PROVE  nx[p] = to(p) /\ to(p) \in p + 1..N
    <3>1. ~NoHeader(p) /\ ~NoLength(p) /\ ~Beyond(to(p)) /\ nx[p] = to(p)
      BY <2>1
    <3>2. H(p) \in Nat /\ H(p) # 0 /\ ~ (p + H(p) > N)
      BY <1>2, <3>1
    <3> HIDE DEF H, Stop, nx
    <3> QED
      BY <1>1, <3>1, <3>2
  <2>2. \A p \in 0..N : p \in Stop => nx[p] = 0
    OBVIOUS
  <2>3. nx = [p \in 0..N |-> nx[p]]
    OBVIOUS
  <2> HIDE DEF nx, Stop, to
  <2>4. \A p \in 0..N : nx[p] \in Nat /\ (p \notin Stop => nx[p] \in p + 1..N)
    <3> TAKE p \in 0..N
    <3>1. CASE p \in Stop
      BY <2>2, <3>1
    <3>2. CASE p \notin Stop
      <4>1. nx[p] \in p + 1..N
        BY <2>1, <3>2
      <4> HIDE DEF N
      <4> QED
        BY <1>1, <3>2, <4>1
    <3> QED
      BY <3>1, <3>2
  <2> QED
    BY <2>3, <2>4
<1>6. Walkable(N, Stop, b, nx)
  <2> HIDE DEF N, Stop, b, nx
  <2> QED
    BY <1>1, <1>3, <1>4, <1>5 DEF Walkable
<1>7. ASSUME NEW u
      PROVE  S(u) <=> u = [p \in 0..N |-> IF p \in Stop THEN b[p] ELSE OneMore(u[nx[p]])]
  <2> HIDE DEF NoHeader, NoLength, TooLong, to, AtEnd, Beyond, one, hangs, none, N
  <2>1. ASSUME NEW p \in 0..N
        PROVE  (IF NoHeader(p) THEN Fails
                ELSE IF NoLength(p) THEN hangs
                ELSE IF TooLong(p) THEN none
                ELSE LET next == to(p)
                     IN  IF AtEnd(next) THEN one
                         ELSE IF Beyond(next) THEN Fails
                         ELSE [u[next] EXCEPT !.frames = @ + 1])
               = IF p \in Stop THEN b[p] ELSE OneMore(u[nx[p]])
    BY DEF OneMore
  <2> HIDE DEF Stop, b, nx
  <2> QED
    BY <2>1
<1>8. \E u : S(u)
  <2>1. \E u : u = [p \in 0..N |-> IF p \in Stop THEN b[p] ELSE OneMore(u[nx[p]])]
    <3> HIDE DEF N, Stop, b, nx
    <3> QED
      BY <1>6, WalkExists
  <2> HIDE DEF S, N, Stop, b, nx
  <2> QED
    BY <1>7, <2>1
<1>9. PICK u : S(u) /\ AacWalk(f, start) = u[start]
  <2>1. AacWalk(f, start) = (CHOOSE u : S(u))[start]
    BY DEF AacWalk
  <2> HIDE DEF S
  <2> QED
    BY <1>8, <2>1, Zenon
<1>10. \A p \in 0..N : u[p] \in Result
  <2> HIDE DEF S, N, Stop, b, nx
  <2> QED
    BY <1>6, <1>7, <1>9, WalkGivesResults
<1>11. \A p \in 0..N : u[p] = WalkStep(f, start, u, p)
  <2> TAKE p \in 0..N
  <2> DEFINE w == IF NoHeader(p) THEN Fails
                  ELSE IF NoLength(p) THEN hangs
                  ELSE IF TooLong(p) THEN none
                  ELSE IF AtEnd(to(p)) THEN one
                  ELSE IF Beyond(to(p)) THEN Fails
                  ELSE OneMore(u[to(p)])
  <2>1. u[p] = w
    <3> HIDE DEF NoHeader, NoLength, TooLong, to, AtEnd, Beyond, one, hangs, none, N
    <3> QED
      BY <1>9 DEF OneMore
  <2>2. WalkStep(f, start, u, p) = w
    <3> HIDE DEF S
    <3> QED
      BY DEF WalkStep
  <2> QED
    BY <2>1, <2>2
<1> QED
  BY <1>9, <1>10, <1>11

LEMMA AacWalkType ==
    ASSUME NEW f \in MediaType, NEW start \in 0..Size(f)
    PROVE  AacWalk(f, start) \in Result
  BY AacWalkSteps

SegmentType == [out : {"ok", "no", "hangs", "dies"}, start : Nat, stop : Nat]

LEMMA ProductType == ASSUME NEW a \in Nat, NEW b \in Nat PROVE a * b \in Nat
  OBVIOUS

LEMMA QuotientType ==
    ASSUME NEW a \in Nat, NEW b \in Nat, b > 0
    PROVE  a \div b \in Nat /\ (a >= b => a \div b > 0)
  OBVIOUS

LEMMA PlayTimeType == ASSUME NEW n \in Nat PROVE PlayTime(n) \in Nat
<1>1. n * Samples \in Nat
  BY SegmentConstants, ProductType
<1> QED
  BY <1>1, SegmentConstants, QuotientType DEF PlayTime

LEMMA AacSegmentType ==
    ASSUME NEW f \in MediaType, NEW m_start \in Nat, NEW m_stop \in Nat
    PROVE  AacSegment(f, m_start, m_stop) \in SegmentType
<1> DEFINE first == AacNext(f, 0)
           walk == AacWalk(f, first)
           rate == Size(f) \div PlayTime(walk.frames)
           place == first + m_start * rate
<1>1. first \in 0..Size(f) /\ first \in Nat /\ Size(f) \in Nat
  BY AacNextInFile, AacNextType, SizeType
<1>2. walk \in Result
  BY <1>1, AacWalkType
<1>3. walk.frames \in Nat
  BY <1>2 DEF Result
<1>4. ASSUME ~ (PlayTime(walk.frames) = 0) PROVE place + AacNext(f, place) \in Nat /\ m_stop * rate \in Nat
  <2> DEFINE seconds == PlayTime(walk.frames)
  <2>1. seconds \in Nat /\ seconds > 0
    <3> HIDE DEF walk
    <3> QED
      BY <1>3, <1>4, PlayTimeType
  <2>2. rate \in Nat
    <3>1. rate = Size(f) \div seconds
      OBVIOUS
    <3> HIDE DEF seconds, rate
    <3> QED
      BY <1>1, <2>1, <3>1, QuotientType
  <2> HIDE DEF rate, first
  <2>3. m_stop * rate \in Nat /\ m_start * rate \in Nat
    BY <2>2, ProductType
  <2>4. place \in Nat
    BY <1>1, <2>3
  <2>5. AacNext(f, place) \in Nat
    BY <2>4, AacNextType
  <2> HIDE DEF place
  <2> QED
    BY <2>3, <2>4, <2>5
<1>5. AacSegment(f, m_start, m_stop) =
          IF walk.out = "hangs" THEN Segment("hangs", 0, 0)
          ELSE IF walk.out = "no" \/ walk.frames = 0 THEN Segment("no", m_start, m_stop)
          ELSE IF PlayTime(walk.frames) = 0 THEN Segment("dies", 0, 0)
          ELSE IF rate = 0 THEN Segment("no", m_start, m_stop)
          ELSE Segment("ok", place + AacNext(f, place), m_stop * rate)
  BY DEF AacSegment
<1>6. /\ Segment("hangs", 0, 0) \in SegmentType /\ Segment("dies", 0, 0) \in SegmentType
      /\ Segment("no", m_start, m_stop) \in SegmentType
  BY DEF Segment, SegmentType
<1>7. ~ (PlayTime(walk.frames) = 0) =>
          Segment("ok", place + AacNext(f, place), m_stop * rate) \in SegmentType
  <2> SUFFICES ASSUME ~ (PlayTime(walk.frames) = 0)
               PROVE  Segment("ok", place + AacNext(f, place), m_stop * rate) \in SegmentType
    OBVIOUS
  <2>1. place + AacNext(f, place) \in Nat /\ m_stop * rate \in Nat
    BY <1>4
  <2> HIDE DEF place, rate
  <2> QED
    BY <2>1 DEF Segment, SegmentType
<1> DEFINE little == PlayTime(walk.frames) = 0
           last == Segment("ok", place + AacNext(f, place), m_stop * rate)
<1>8. ~little => last \in SegmentType
  BY <1>7
<1>9. AacSegment(f, m_start, m_stop) =
          IF walk.out = "hangs" THEN Segment("hangs", 0, 0)
          ELSE IF walk.out = "no" \/ walk.frames = 0 THEN Segment("no", m_start, m_stop)
          ELSE IF little THEN Segment("dies", 0, 0)
          ELSE IF rate = 0 THEN Segment("no", m_start, m_stop)
          ELSE last
  BY <1>5
<1> HIDE DEF little, last, rate, walk
<1> QED
  BY <1>6, <1>8, <1>9

LEMMA MpxRateType == ASSUME NEW len PROVE MpxRate(len) \in Nat
<1> DEFINE announced == {r \in Rates : len \in {MpxLength(r, 0), MpxLength(r, 1)}}
<1>1. MpxRate(len) = IF announced = {} THEN 0 ELSE Min(announced)
  BY DEF MpxRate
<1>2. announced \in SUBSET Nat
  BY SegmentConstants
<1> HIDE DEF announced
<1>3. CASE announced = {}
  BY <1>1, <1>3
<1>4. CASE announced # {}
  <2>1. Min(announced) \in announced
    BY <1>2, <1>4, MinIsLeast
  <2> QED
    BY <1>1, <1>2, <1>4, <2>1
<1> QED
  BY <1>3, <1>4

LEMMA MpxSeekType ==
    ASSUME NEW f \in MediaType, NEW from \in Int
    PROVE  MpxSeek(f, from).found =>
               MpxSeek(f, from).pos \in Nat /\ MpxSeek(f, from).rate \in Nat
<1> DEFINE n == Buffered(f, from)
           Near(p) == \/ n - p < MARGIN
                      \/ /\ HeaderAt(f, from + p) > 0
                         /\ p + HeaderAt(f, from + p) + MPX_HEADER > n
           ends == {p \in 0..n - 1 : /\ HeaderAt(f, from + p) # None
                                     /\ Near(p) \/ MpxConfirmed(f, from + p)}
           p == Min(ends)
           next == HeaderAt(f, from + p + HeaderAt(f, from + p))
           some == [found |-> TRUE, pos |-> from + p, rate |-> MpxRate(next)]
           none == [found |-> FALSE, pos |-> from, rate |-> 0]
<1>1. MpxSeek(f, from) = IF from < 0 \/ ends = {} \/ Near(p) THEN none ELSE some
  BY DEF MpxSeek
<1>2. ends \in SUBSET Nat
  OBVIOUS
<1>3. \A q \in ends : ~Near(q) => MpxConfirmed(f, from + q)
  OBVIOUS
<1> HIDE DEF ends, Near
<1>4. ends # {} => p \in ends /\ p \in Nat
  BY <1>2, MinIsLeast
<1> HIDE DEF p
<1>5. ASSUME ~ (from < 0 \/ ends = {} \/ Near(p))
      PROVE  from + p \in Nat /\ MpxRate(next) \in Nat
  <2>1. p \in Nat /\ MpxConfirmed(f, from + p) /\ from \in Nat
    BY <1>3, <1>4, <1>5
  <2>2. MpxRate(next) \in Nat
    BY MpxRateType
  <2> QED
    BY <2>1, <2>2
<1> DEFINE bad == from < 0 \/ ends = {} \/ Near(p)
           place == from + p
           rate == MpxRate(next)
<1>6. MpxSeek(f, from) = IF bad THEN none ELSE some
  BY <1>1
<1>7. ~bad => place \in Nat /\ rate \in Nat
  BY <1>5
<1>8. some = [found |-> TRUE, pos |-> place, rate |-> rate]
  OBVIOUS
<1> HIDE DEF bad, place, rate, some
<1> QED
  BY <1>6, <1>7, <1>8

LEMMA MpxSegmentType ==
    ASSUME NEW f \in MediaType, NEW m_start \in Nat, NEW m_stop \in Nat
    PROVE  MpxSegment(f, m_start, m_stop) \in SegmentType
<1> DEFINE first == MpxSeek(f, MpxStartPos(f))
           place == first.pos + m_start * first.rate
           next == MpxSeek(f, place)
<1>1. MpxSegment(f, m_start, m_stop) =
          IF ~first.found THEN Segment("no", m_start, m_stop)
          ELSE IF next.found THEN Segment("ok", next.pos, m_stop * next.rate)
          ELSE Segment("ok", 0, m_stop * first.rate)
  BY DEF MpxSegment
<1>2. MpxStartPos(f) \in Int
  BY DEF MpxStartPos, MediaType
<1>3. first.found => first.pos \in Nat /\ first.rate \in Nat
  BY <1>2, MpxSeekType
<1>4. first.found => place \in Nat /\ m_stop * first.rate \in Nat
  <2> HIDE DEF first
  <2> SUFFICES ASSUME first.found PROVE place \in Nat /\ m_stop * first.rate \in Nat
    OBVIOUS
  <2>1. m_start * first.rate \in Nat /\ m_stop * first.rate \in Nat
    BY <1>3, ProductType
  <2> QED
    BY <1>3, <2>1
<1> HIDE DEF first, place
<1>5. first.found /\ next.found => next.pos \in Nat /\ m_stop * next.rate \in Nat
  <2> SUFFICES ASSUME first.found, next.found
               PROVE  next.pos \in Nat /\ m_stop * next.rate \in Nat
    OBVIOUS
  <2>1. place \in Int
    BY <1>4
  <2>2. next.pos \in Nat /\ next.rate \in Nat
    BY <2>1, MpxSeekType
  <2> HIDE DEF next
  <2> QED
    BY <2>2, ProductType
<1> HIDE DEF next
<1>6. Segment("no", m_start, m_stop) \in SegmentType
  BY DEF Segment, SegmentType
<1>7. ASSUME NEW a \in Nat, NEW b \in Nat PROVE Segment("ok", a, b) \in SegmentType
  BY DEF Segment, SegmentType
<1> QED
  BY <1>1, <1>4, <1>5, <1>6, <1>7

-----------------------------------------------------------------------------
(* The frames that follow each other.                                      *)

LEMMA HeaderInFile ==
    ASSUME NEW f \in MediaType, NEW p, HeaderAt(f, p) # None
    PROVE  p \in 0..Size(f) - 1 /\ HeaderAt(f, p) \in Nat
  BY HeaderType DEF HeaderAt

(* Chain is the least set with the first frame and, with each frame, the   *)
(* next one: the intersection of all those sets.                           *)
LEMMA ChainFollows ==
    ASSUME NEW f \in MediaType, NEW start \in 0..Size(f)
    PROVE  LET C == Chain(f, start) IN
           /\ C \subseteq 0..Size(f) - 1
           /\ \A p \in C : HeaderAt(f, p) > 0
           /\ HeaderAt(f, start) > 0 => start \in C
           /\ \A q \in C : HeaderAt(f, q + HeaderAt(f, q)) > 0 => q + HeaderAt(f, q) \in C
           /\ \A p \in C : p # start => \E q \in C : q + HeaderAt(f, q) = p
<1> DEFINE N == Size(f)
           H(p) == HeaderAt(f, p)
           Step(q, p) == H(q) > 0 /\ q + H(q) = p
           HasNext(S) == start \in S /\ \A q \in S, p \in 0..N : Step(q, p) => p \in S
           R == {p \in 0..N : \A S \in SUBSET (0..N) : HasNext(S) => p \in S}
           On(on) == on = [p \in 0..N |-> \/ p = start
                                          \/ \E q \in 0..p - 1 : /\ H(q) > 0
                                                                 /\ q + H(q) = p
                                                                 /\ on[q]]
           C == Chain(f, start)
<1>1. N \in Nat
  BY SizeType
<1>2. \A p : H(p) \in Nat \cup {None}
  BY HeaderType
<1>3. \A p : H(p) > 0 => p \in 0..N - 1
  <2> SUFFICES ASSUME NEW p, H(p) > 0 PROVE p \in 0..N - 1
    OBVIOUS
  <2>1. H(p) # None
    BY <1>2 DEF None
  <2> QED
    BY <2>1, HeaderInFile
<1>4. HasNext(R)
  <2>1. start \in R
    OBVIOUS
  <2>2. ASSUME NEW q \in R, NEW p \in 0..N, Step(q, p) PROVE p \in R
    <3> SUFFICES ASSUME NEW S \in SUBSET (0..N), HasNext(S) PROVE p \in S
      OBVIOUS
    <3>1. q \in S
      OBVIOUS
    <3> HIDE DEF R, Step
    <3> QED
      BY <2>2, <3>1
  <2> HIDE DEF R, Step
  <2> QED
    BY <2>1, <2>2
<1>5. \A p \in R : p = start \/ \E q \in 0..p - 1 : q \in R /\ Step(q, p)
  <2> SUFFICES ASSUME NEW p \in R, p # start, ~ \E q \in 0..p - 1 : q \in R /\ Step(q, p)
               PROVE  FALSE
    OBVIOUS
  <2> DEFINE T == R \ {p}
  <2>1. \A q \in R : Step(q, p) => q \in 0..p - 1
    <3> SUFFICES ASSUME NEW q \in R, Step(q, p) PROVE q \in 0..p - 1
      OBVIOUS
    <3>1. q \in 0..N /\ H(q) \in Nat /\ H(q) > 0 /\ q + H(q) = p
      <4>1. H(q) > 0 /\ H(q) \in Nat \cup {None}
        BY <1>2
      <4> HIDE DEF H
      <4> QED
        BY <4>1 DEF None
    <3> HIDE DEF H, N, R
    <3> QED
      BY <1>1, <3>1
  <2>2. HasNext(T)
    <3>1. start \in T
      BY <1>4
    <3>2. ASSUME NEW q \in T, NEW r \in 0..N, Step(q, r) PROVE r \in T
      <4>1. r \in R
        <5> HIDE DEF R, Step
        <5> QED
          BY <1>4, <3>2
      <4>2. r # p
        <5> HIDE DEF R, Step
        <5> QED
          BY <2>1, <3>2
      <4> QED
        BY <4>1, <4>2
    <3> HIDE DEF T, Step
    <3> QED
      BY <3>1, <3>2
  <2>3. T \in SUBSET (0..N) /\ p \notin T
    OBVIOUS
  <2> HIDE DEF T, HasNext
  <2> QED
    BY <2>2, <2>3
<1>6. \E on : On(on)
  <2> DEFINE v == [p \in 0..N |-> p \in R]
  <2>1. \A p \in 0..N : v[p] <=> (p = start \/ \E q \in 0..p - 1 : H(q) > 0 /\ q + H(q) = p /\ v[q])
    <3> TAKE p \in 0..N
    <3>1. \A q \in 0..p - 1 : q \in 0..N
      BY <1>1
    <3>2. \A q \in 0..N : v[q] = (q \in R)
      BY Zenon
    <3>3. p \in R => (p = start \/ \E q \in 0..p - 1 : H(q) > 0 /\ q + H(q) = p /\ v[q])
      <4> HIDE DEF H, R, v
      <4> QED
        BY <1>5, <3>1, <3>2
    <3>4. (p = start \/ \E q \in 0..p - 1 : H(q) > 0 /\ q + H(q) = p /\ v[q]) => p \in R
      <4> HIDE DEF H, R, v
      <4> QED
        BY <1>4, <3>1, <3>2
    <3> HIDE DEF R, v, H
    <3> QED
      BY <3>2, <3>3, <3>4
  <2>2. On(v)
    <3> DEFINE w == [p \in 0..N |-> \/ p = start
                                    \/ \E q \in 0..p - 1 : H(q) > 0 /\ q + H(q) = p /\ v[q]]
    <3>1. \A p \in 0..N : v[p] = w[p]
      <4> TAKE p \in 0..N
      <4>1. v[p] = (p \in R)
        BY Zenon
      <4>2. w[p] = (\/ p = start
                    \/ \E q \in 0..p - 1 : H(q) > 0 /\ q + H(q) = p /\ v[q])
        BY Zenon
      <4>3. (p \in R) = (\/ p = start
                         \/ \E q \in 0..p - 1 : H(q) > 0 /\ q + H(q) = p /\ v[q])
        <5> DEFINE X == \/ p = start
                        \/ \E q \in 0..p - 1 : H(q) > 0 /\ q + H(q) = p /\ v[q]
        <5>1. v[p] <=> X
          BY <2>1
        <5>2. X \in BOOLEAN /\ (p \in R) \in BOOLEAN
          OBVIOUS
        <5> HIDE DEF R, v, X
        <5>3. (p \in R) <=> X
          BY <4>1, <5>1
        <5>4. (p \in R) = X
          BY <5>2, <5>3
        <5> QED
          BY <5>4 DEF X
      <4> HIDE DEF R, v, w
      <4> QED
        BY <4>1, <4>2, <4>3, Zenon
    <3>2. v = [p \in 0..N |-> v[p]] /\ w = [p \in 0..N |-> w[p]]
      BY Zenon
    <3>3. v = w
      <4> HIDE DEF v, w
      <4> QED
        BY <3>1, <3>2
    <3> HIDE DEF v
    <3> QED
      BY <3>3, Zenon
  <2> HIDE DEF v, On
  <2> QED
    BY <2>2
<1>7. PICK on : On(on) /\ C = {p \in 0..N - 1 : on[p] /\ H(p) > 0}
  <2>1. C = {p \in 0..N - 1 : (CHOOSE on : On(on))[p] /\ H(p) > 0}
    BY DEF Chain
  <2> HIDE DEF On, C, H
  <2> QED
    BY <1>6, <2>1, Zenon
<1>8. \A p \in 0..N : on[p] <=> \/ p = start
                                \/ \E q \in 0..p - 1 : H(q) > 0 /\ q + H(q) = p /\ on[q]
  <2>1. on = [p \in 0..N |-> \/ p = start
                             \/ \E q \in 0..p - 1 : H(q) > 0 /\ q + H(q) = p /\ on[q]]
    BY <1>7
  <2> HIDE DEF H, N, On
  <2> QED
    BY <2>1, Zenon
<1> HIDE DEF On, C
<1>9. C \subseteq 0..N - 1 /\ \A p \in C : H(p) > 0 /\ on[p]
  BY <1>7
<1>10. ASSUME NEW p \in 0..N, on[p], H(p) > 0 PROVE p \in C
  BY <1>3, <1>7, <1>10
<1>11. H(start) > 0 => start \in C
  BY <1>8, <1>10
<1>12. ASSUME NEW q \in C, H(q + H(q)) > 0 PROVE q + H(q) \in C
  <2>1. H(q) > 0 /\ H(q) \in Nat /\ q \in 0..N - 1 /\ on[q]
    <3>1. H(q) > 0 /\ H(q) \in Nat \cup {None} /\ q \in 0..N - 1 /\ on[q]
      BY <1>2, <1>9
    <3> HIDE DEF H
    <3> QED
      BY <3>1 DEF None
  <2>2. q + H(q) \in 0..N - 1
    BY <1>3, <1>12
  <2> DEFINE p == q + H(q)
  <2>3. p \in 0..N /\ q \in 0..p - 1
    <3> HIDE DEF H, N
    <3> QED
      BY <1>1, <2>1, <2>2
  <2>4. on[p]
    <3> HIDE DEF H, N
    <3> QED
      BY <1>8, <2>1, <2>3
  <2> QED
    BY <1>10, <1>12, <2>3, <2>4
<1>13. ASSUME NEW p \in C, p # start PROVE \E q \in C : q + H(q) = p
  <2>1. p \in 0..N /\ on[p]
    <3> HIDE DEF H, N
    <3> QED
      BY <1>1, <1>9
  <2>2. PICK q \in 0..p - 1 : H(q) > 0 /\ q + H(q) = p /\ on[q]
    BY <1>8, <1>13, <2>1
  <2>3. q \in 0..N
    <3> HIDE DEF H, N
    <3> QED
      BY <1>1, <2>1
  <2> QED
    BY <1>10, <2>2, <2>3
<1> HIDE DEF H
<1>14. /\ C \subseteq 0..N - 1
       /\ \A p \in C : H(p) > 0
       /\ H(start) > 0 => start \in C
       /\ \A q \in C : H(q + H(q)) > 0 => q + H(q) \in C
       /\ \A p \in C : p # start => \E q \in C : q + H(q) = p
  BY <1>9, <1>11, <1>12, <1>13
<1> QED
  BY <1>14 DEF H, C

(* The chain of a file whose frames have one length.                       *)
LEMMA SteadyChain ==
    ASSUME NEW f \in MediaType, NEW start \in 0..Size(f), NEW L \in Nat \ {0},
           \A p \in Chain(f, start) : HeaderAt(f, p) = L
    PROVE  LET C == Chain(f, start) IN
           /\ \A p \in C : \E j \in Nat : p = start + j * L
           /\ \A j \in Nat : \A i \in 0..j : start + j * L \in C => start + i * L \in C
           /\ \A j \in Nat : start + j * L \in C =>
                  Cardinality({p \in C : p < start + j * L}) = j
<1> DEFINE C == Chain(f, start)
<1>1. C \in SUBSET Nat /\ start \in Nat
  <2>1. C \subseteq 0..Size(f) - 1 /\ Size(f) \in Nat
    BY ChainFollows, SizeType
  <2> HIDE DEF C
  <2> QED
    BY <2>1
<1>2. \A p \in C : p # start => \E q \in C : q + L = p
  <2>1. \A p \in C : p # start => \E q \in C : q + HeaderAt(f, q) = p
    BY ChainFollows
  <2>2. \A p \in C : HeaderAt(f, p) = L
    OBVIOUS
  <2> HIDE DEF C
  <2> QED
    BY <2>1, <2>2
<1> HIDE DEF C
<1>3. /\ \A p \in C : \E j \in Nat : p = start + j * L
      /\ \A j \in Nat : \A i \in 0..j : start + j * L \in C => start + i * L \in C
  BY <1>1, <1>2, EvenSet, Zenon
<1>4. \A j \in Nat : start + j * L \in C =>
          Cardinality({p \in C : p < start + j * L}) = j
  BY <1>1, <1>2, EvenSetCounts, Zenon
<1> QED
  BY <1>3, <1>4 DEF C

-----------------------------------------------------------------------------
(* Where the preview of a file begins, whose frames begin at audio.        *)

(* How many frames begin before it.                                        *)
Before(f, audio, begin) == Cardinality({p \in Chain(f, audio) : p < begin})

(* All frames have one length, and none reaches over the end of the file.  *)
Steady(f, audio) == \A p \in Chain(f, audio) : HeaderAt(f, p) = HeaderAt(f, audio)
Whole(f, audio) == \A p \in Chain(f, audio) : p + HeaderAt(f, p) <= Size(f)

(* The frames run ahead of the rate, or are padded to keep it.             *)
AheadOfRate(f, audio, rate) ==
    \E p \in Chain(f, audio) :
        (p - audio) * Frequency > Before(f, audio, p) * Samples * rate
Padded(f, audio, rate) ==
    \A p \in Chain(f, audio) :
        Before(f, audio, p) * Samples * rate < (p - audio + 1) * Frequency

(* Only frames look like frames to the search.                             *)
MpxRight(f, audio) ==
    \A p \in audio..Size(f) - 1 : MpxConfirmed(f, p) => p \in Chain(f, audio)
AacRight(f, audio) ==
    \A p \in audio..Size(f) - 1 : AacHeader(f, p) => p \in Chain(f, audio)

(* A header is near enough for the search to have found one.               *)
AacNear(f, begin) ==
    \E p \in begin..begin + Buffered(f, begin) - MARGIN : AacHeader(f, p)

(* mp3.                                                                    *)

LEMMA BufferedType ==
    ASSUME NEW f \in MediaType, NEW from \in Nat
    PROVE  /\ Buffered(f, from) \in Nat
           /\ from + Buffered(f, from) <= Size(f) \/ Buffered(f, from) = 0
<1>1. Size(f) \in Nat
  BY SizeType
<1>2. CASE from >= Size(f)
  BY <1>2 DEF Buffered
<1>3. CASE ~ (from >= Size(f))
  <2> DEFINE S == {Window, Size(f) - from}
  <2>1. S \in SUBSET Nat /\ S # {}
    BY <1>1, <1>3, AudioConstants
  <2>2. Buffered(f, from) = Min(S)
    BY <1>3 DEF Buffered
  <2>3. Size(f) - from \in S
    OBVIOUS
  <2> HIDE DEF S
  <2>4. Min(S) \in Nat /\ Min(S) =< Size(f) - from
    BY <2>1, <2>3, MinIsLeast
  <2> QED
    BY <1>1, <2>2, <2>4
<1> QED
  BY <1>2, <1>3

(* A search that finds something has found the first confirmed header.     *)
LEMMA MpxSeekFinds ==
    ASSUME NEW f \in MediaType, NEW from \in Int, MpxSeek(f, from).found
    PROVE  LET r == MpxSeek(f, from) IN
           /\ from \in Nat /\ r.pos \in Nat /\ from <= r.pos
           /\ MpxConfirmed(f, r.pos)
           /\ r.rate = MpxRate(HeaderAt(f, r.pos + HeaderAt(f, r.pos)))
           /\ \A p \in from..r.pos - 1 : ~MpxConfirmed(f, p)
<1> DEFINE n == Buffered(f, from)
           Near(p) == \/ n - p < MARGIN
                      \/ /\ HeaderAt(f, from + p) > 0
                         /\ p + HeaderAt(f, from + p) + MPX_HEADER > n
           ends == {p \in 0..n - 1 : /\ HeaderAt(f, from + p) # None
                                     /\ Near(p) \/ MpxConfirmed(f, from + p)}
           p == Min(ends)
           next == HeaderAt(f, from + p + HeaderAt(f, from + p))
           some == [found |-> TRUE, pos |-> from + p, rate |-> MpxRate(next)]
           none == [found |-> FALSE, pos |-> from, rate |-> 0]
           r == MpxSeek(f, from)
<1>1. r = IF from < 0 \/ ends = {} \/ Near(p) THEN none ELSE some
  BY DEF MpxSeek
<1>2. ends \in SUBSET Nat
  OBVIOUS
<1>3. \A q \in ends : ~Near(q) => MpxConfirmed(f, from + q)
  OBVIOUS
<1>4. ASSUME NEW q \in 0..n - 1, MpxConfirmed(f, from + q) PROVE q \in ends
  <2>1. HeaderAt(f, from + q) # None
    BY <1>4 DEF MpxConfirmed, None
  <2> QED
    BY <1>4, <2>1
<1>5. r.found
  OBVIOUS
<1>6. ends \subseteq 0..n - 1
  OBVIOUS
<1> HIDE DEF ends, Near
<1>7. ~ (from < 0 \/ ends = {} \/ Near(p)) /\ r = some
  <2> DEFINE bad == from < 0 \/ ends = {} \/ Near(p)
  <2>1. r = IF bad THEN none ELSE some
    BY <1>1
  <2>2. ~none.found
    OBVIOUS
  <2> HIDE DEF none, some, r
  <2>3. ~bad /\ r = some
    BY <1>5, <2>1, <2>2
  <2> QED
    BY <2>3
<1>8. p \in ends /\ \A q \in ends : p =< q
  BY <1>2, <1>7, MinIsLeast
<1>9. r.pos = from + p /\ r.rate = MpxRate(next)
  <2> HIDE DEF p, next, r
  <2> QED
    BY <1>7
<1> HIDE DEF p, r
<1>10. from \in Nat /\ p \in Nat
  BY <1>2, <1>7, <1>8
<1>11. MpxConfirmed(f, from + p)
  BY <1>3, <1>7, <1>8
<1>12. ASSUME NEW q \in from..from + p - 1 PROVE ~MpxConfirmed(f, q)
  <2>1. PICK i \in 0..p - 1 : q = from + i
    <3>1. q - from \in 0..p - 1 /\ q = from + (q - from)
      BY <1>10
    <3> QED
      BY <3>1
  <2>2. n \in Int => i \in 0..n - 1
    BY <1>6, <1>8, <1>10
  <2>3. n \in Int
    BY <1>10, BufferedType
  <2>4. i \notin ends
    BY <1>8, <1>10, <2>1
  <2> HIDE DEF n
  <2> QED
    BY <1>4, <2>1, <2>2, <2>3, <2>4
<1>13. from <= r.pos /\ r.pos \in Nat
  BY <1>9, <1>10
<1>14. r.rate = MpxRate(HeaderAt(f, r.pos + HeaderAt(f, r.pos)))
  BY <1>9
<1>15. MpxConfirmed(f, r.pos)
  BY <1>9, <1>11
<1>16. \A q \in from..r.pos - 1 : ~MpxConfirmed(f, q)
  <2>1. \A q \in from..from + p - 1 : ~MpxConfirmed(f, q)
    BY <1>12
  <2>2. r.pos = from + p
    BY <1>9
  <2> QED
    BY <1>10, <1>13, <2>1, <2>2
<1> QED
  BY <1>10, <1>13, <1>14, <1>15, <1>16 DEF r

LEMMA MpxPreview ==
    ASSUME NEW f \in MediaType, NEW m_start \in Nat, NEW m_stop \in Nat,
           NEW audio, audio = MpxSeek(f, MpxStartPos(f)).pos,
           NEW begin, begin = MpxSegment(f, m_start, m_stop).start,
           MpxSegment(f, m_start, m_stop).out = "ok", begin # 0,
           MpxRight(f, audio),
           NEW rate, rate = MpxSeek(f, MpxStartPos(f)).rate
    PROVE  /\ begin \in Chain(f, audio)
           /\ ~AheadOfRate(f, audio, rate) =>
                  Before(f, audio, begin) * Samples >= m_start * Frequency
           /\ rate > 0 /\ Padded(f, audio, rate) =>
                  \A p \in Chain(f, audio) : p + HeaderAt(f, p) = begin =>
                      Before(f, audio, p) * Samples < m_start * Frequency
<1> USE DEF MpxRight
<1> DEFINE first == MpxSeek(f, MpxStartPos(f))
           place == first.pos + m_start * first.rate
           next == MpxSeek(f, place)
           N == Size(f)
           C == Chain(f, audio)
           H(p) == HeaderAt(f, p)
<1>1. MpxSegment(f, m_start, m_stop) =
          IF ~first.found THEN Segment("no", m_start, m_stop)
          ELSE IF next.found THEN Segment("ok", next.pos, m_stop * next.rate)
          ELSE Segment("ok", 0, m_stop * first.rate)
  BY DEF MpxSegment
<1>2. first.found /\ next.found /\ begin = next.pos
  <2> HIDE DEF first, next
  <2>1. /\ Segment("no", m_start, m_stop).out # "ok"
        /\ Segment("ok", 0, m_stop * first.rate).start = 0
        /\ Segment("ok", next.pos, m_stop * next.rate).start = next.pos
    BY DEF Segment
  <2> QED
    BY <1>1, <2>1
<1>3. /\ audio \in Nat /\ MpxConfirmed(f, audio)
      /\ rate = first.rate /\ rate \in Nat
  <2>1. MpxStartPos(f) \in Int
    BY DEF MpxStartPos, MediaType
  <2> QED
    BY <1>2, <2>1, MpxSeekFinds, MpxSeekType
<1>4. place = audio + m_start * rate
  OBVIOUS
<1>5. N \in Nat
  BY SizeType
<1>6. \A p : H(p) > 0 => p \in 0..N - 1 /\ H(p) \in Nat
  <2> SUFFICES ASSUME NEW p, H(p) > 0 PROVE p \in 0..N - 1 /\ H(p) \in Nat
    OBVIOUS
  <2>1. H(p) # None
    BY DEF None
  <2> QED
    BY <2>1, HeaderInFile
<1>7. H(audio) > 0 /\ H(audio + H(audio)) > 0
  BY <1>3 DEF MpxConfirmed
<1> HIDE DEF first
<1>8. place \in Nat
  <2>1. m_start * rate \in Nat
    BY <1>3, ProductType
  <2> QED
    BY <1>3, <1>4, <2>1
<1> HIDE DEF place
<1>9. /\ begin \in Nat /\ place <= begin /\ MpxConfirmed(f, begin)
      /\ \A p \in place..begin - 1 : ~MpxConfirmed(f, p)
  <2>1. place \in Int
    BY <1>8
  <2> QED
    BY <1>2, <2>1, MpxSeekFinds
<1> HIDE DEF next
<1>10. audio \in 0..N
  <2>1. audio \in 0..N - 1
    BY <1>6, <1>7
  <2> HIDE DEF N
  <2> QED
    BY <1>5, <2>1
<1>11. audio <= place
  <2>1. m_start * rate \in Nat
    BY <1>3, ProductType
  <2> QED
    BY <1>3, <1>4, <2>1
<1>12. begin \in C
  <2>1. begin \in 0..N - 1
    <3>1. H(begin) > 0
      BY <1>9 DEF MpxConfirmed
    <3> QED
      BY <1>6, <3>1
  <2>2. begin \in audio..N - 1
    <3> HIDE DEF N
    <3> QED
      BY <1>3, <1>5, <1>8, <1>9, <1>11, <2>1
  <2> QED
    BY <1>9, <2>2
<1> DEFINE B(p) == Before(f, audio, p)
<1>13. \A p \in Int : B(p) \in Nat
  <2> SUFFICES ASSUME NEW p \in Int PROVE B(p) \in Nat
    OBVIOUS
  <2> DEFINE S == {q \in C : q < p}
  <2>1. S \subseteq 0..N - 1
    <3>1. C \subseteq 0..N - 1
      BY <1>10, ChainFollows
    <3> HIDE DEF C, N
    <3> QED
      BY <3>1
  <2>2. IsFiniteSet(S)
    <3>1. IsFiniteSet(0..N - 1)
      <4>1. 0 \in Int /\ N - 1 \in Int
        BY <1>5
      <4> HIDE DEF N
      <4> QED
        BY <4>1, FS_Interval
    <3> HIDE DEF S, N
    <3> QED
      BY <2>1, <3>1, FS_Subset
  <2>3. B(p) = Cardinality(S)
    BY DEF Before
  <2> HIDE DEF S, B
  <2> QED
    BY <2>2, <2>3, FS_CardinalityType
<1>14. m_start * Frequency \in Nat /\ m_start * rate \in Nat
  BY <1>3, SegmentConstants, ProductType
<1>15. (m_start * rate) * Frequency = (m_start * Frequency) * rate
  BY <1>3, SegmentConstants
<1>16. \A p \in C : /\ p \in Nat /\ H(p) > 0 /\ H(p) \in Nat
                    /\ B(p) \in Nat /\ B(p) * Samples \in Nat
  <2> SUFFICES ASSUME NEW p \in C
               PROVE  /\ p \in Nat /\ H(p) > 0 /\ H(p) \in Nat
                      /\ B(p) \in Nat /\ B(p) * Samples \in Nat
    OBVIOUS
  <2>1. p \in 0..N - 1 /\ H(p) > 0
    BY <1>10, ChainFollows
  <2>2. p \in Nat /\ H(p) \in Nat
    BY <1>6, <2>1
  <2>3. B(p) \in Nat
    BY <1>13, <2>2
  <2> HIDE DEF B, H
  <2> QED
    BY <2>1, <2>2, <2>3, SegmentConstants, ProductType
<1> DEFINE time == m_start * Frequency
           way == m_start * rate
           T(p) == B(p) * Samples
<1>17. ASSUME ~AheadOfRate(f, audio, rate) PROVE ~ (T(begin) < time)
  <2>1. \A p \in C : ~ ((p - audio) * Frequency > T(p) * rate)
    BY <1>17 DEF AheadOfRate
  <2>2. rate > 0
    <3> SUFFICES ASSUME rate = 0 PROVE FALSE
      BY <1>3
    <3>1. audio \in C
      BY <1>7, <1>10, ChainFollows
    <3> DEFINE p == audio + H(audio)
    <3>2. p \in C
      <4>1. \A q \in C : H(q + H(q)) > 0 => q + H(q) \in C
        BY <1>10, ChainFollows
      <4> HIDE DEF C, H
      <4> QED
        BY <1>7, <3>1, <4>1
    <3>3. p - audio \in Nat \ {0}
      <4> HIDE DEF H
      <4> QED
        BY <1>3, <1>6, <1>7
    <3>4. T(p) * rate = 0
      <4>1. T(p) \in Nat
        BY <1>16, <3>2
      <4> HIDE DEF T
      <4> QED
        BY <4>1
    <3>5. (p - audio) * Frequency > 0
      <4> DEFINE d == p - audio
      <4>1. d \in Nat \ {0}
        BY <3>3
      <4> HIDE DEF d
      <4>2. 0 * Frequency < d * Frequency
        BY <4>1, SegmentConstants, TimesIsOrdered
      <4>3. 0 * Frequency = 0
        BY SegmentConstants
      <4> QED
        BY <4>2, <4>3 DEF d
    <3> HIDE DEF p, T
    <3> QED
      BY <2>1, <3>2, <3>4, <3>5
  <2> SUFFICES ASSUME T(begin) < time PROVE FALSE
    OBVIOUS
  <2> DEFINE d == begin - audio
  <2>3. T(begin) \in Nat /\ time \in Nat /\ way \in Nat /\ begin \in Nat
    BY <1>9, <1>12, <1>14, <1>16
  <2>4. way <= d /\ d \in Int
    BY <1>3, <1>4, <1>9, <2>3
  <2>5. ~ (d * Frequency > T(begin) * rate)
    BY <1>12, <2>1
  <2> HIDE DEF d, T, C, B
  <2>6. T(begin) * rate < time * rate
    <3> HIDE DEF time
    <3> QED
      BY <1>3, <2>2, <2>3, TimesIsOrdered
  <2>7. way * Frequency <= d * Frequency
    <3> HIDE DEF way
    <3> QED
      BY <2>3, <2>4, SegmentConstants, TimesKeepsOrder
  <2>8. way * Frequency = time * rate
    BY <1>15
  <2> DEFINE a == way * Frequency
             b == d * Frequency
             c == T(begin) * rate
             e == time * rate
  <2>9. a \in Int /\ b \in Int /\ c \in Int
    <3> HIDE DEF way
    <3> QED
      BY <1>3, <2>3, <2>4, SegmentConstants
  <2>10. c < e /\ a <= b /\ a = e /\ ~ (b > c)
    BY <2>5, <2>6, <2>7, <2>8
  <2> HIDE DEF a, b, c, e
  <2> QED
    BY <2>9, <2>10
<1>18. ASSUME rate > 0, Padded(f, audio, rate), NEW p \in C, p + H(p) = begin
       PROVE  T(p) < time
  <2>1. T(p) * rate < (p - audio + 1) * Frequency
    BY <1>18 DEF Padded
  <2>2. p \in Nat /\ H(p) > 0 /\ H(p) \in Nat /\ T(p) \in Nat /\ time \in Nat /\ way \in Nat
    BY <1>14, <1>16
  <2>3. p < place
    <3> SUFFICES ASSUME ~ (p < place) PROVE FALSE
      OBVIOUS
    <3>1. p \in place..begin - 1
      <4> HIDE DEF H
      <4> QED
        BY <1>8, <1>9, <1>18, <2>2
    <3>2. H(begin) > 0
      BY <1>12, <1>16
    <3>3. MpxConfirmed(f, p)
      BY <1>18, <2>2, <3>2 DEF MpxConfirmed
    <3> QED
      BY <1>9, <3>1, <3>3
  <2> DEFINE d == p - audio + 1
  <2>4. d <= way /\ d \in Int
    BY <1>3, <1>4, <1>8, <2>2, <2>3
  <2>5. T(p) * rate < d * Frequency
    BY <2>1
  <2> HIDE DEF d, T, C, B
  <2>6. d * Frequency <= way * Frequency
    <3> HIDE DEF way
    <3> QED
      BY <2>2, <2>4, SegmentConstants, TimesKeepsOrder
  <2>7. way * Frequency = time * rate
    BY <1>15
  <2> DEFINE a == way * Frequency
             b == d * Frequency
             c == T(p) * rate
             e == time * rate
  <2>8. a \in Int /\ b \in Int /\ c \in Int
    <3> HIDE DEF way
    <3> QED
      BY <1>3, <2>2, <2>4, SegmentConstants
  <2>9. c < b /\ b <= a /\ a = e
    BY <2>5, <2>6, <2>7
  <2>10. c < e
    <3> HIDE DEF a, b, c, e
    <3> QED
      BY <2>8, <2>9
  <2> HIDE DEF time
  <2> QED
    BY <1>3, <1>18, <2>2, <2>10, TimesIsOrdered
<1>19. ~AheadOfRate(f, audio, rate) => B(begin) * Samples >= m_start * Frequency
  <2>1. T(begin) \in Nat /\ time \in Nat
    BY <1>12, <1>14, <1>16
  <2> HIDE DEF T, time
  <2>2. ~AheadOfRate(f, audio, rate) => T(begin) >= time
    BY <1>17, <2>1
  <2> QED
    BY <2>2 DEF T, time
<1>20. rate > 0 /\ Padded(f, audio, rate) =>
           \A p \in C : p + H(p) = begin => B(p) * Samples < m_start * Frequency
  BY <1>18
<1> QED
  BY <1>12, <1>19, <1>20 DEF C, H, B

(* aac.                                                                    *)

(* The search finds a header when there is one near enough.                *)
LEMMA AacNextFinds ==
    ASSUME NEW f \in MediaType, NEW from \in Nat,
           AacNear(f, from + AacNext(f, from))
    PROVE  AacHeader(f, from + AacNext(f, from))
<1> DEFINE n == Buffered(f, from)
           found == {i \in 0..n - 1 : n - i >= MARGIN /\ AacHeader(f, from + i)}
<1>1. AacNext(f, from) = IF found = {} THEN 0 ELSE Min(found)
  BY DEF AacNext
<1>2. n \in Nat
  BY BufferedType
<1>3. CASE found # {}
  <2>1. found \in SUBSET Nat /\ \A i \in found : AacHeader(f, from + i)
    OBVIOUS
  <2> HIDE DEF found
  <2>2. Min(found) \in found
    BY <1>3, <2>1, MinIsLeast
  <2> QED
    BY <1>1, <1>3, <2>1, <2>2
<1>4. CASE found = {}
  <2>1. AacNext(f, from) = 0 /\ from + 0 = from
    BY <1>1, <1>4
  <2>2. PICK p \in from..from + n - MARGIN : AacHeader(f, p)
    <3> HIDE DEF found
    <3> QED
      BY <2>1 DEF AacNear
  <2>3. /\ p - from \in 0..n - 1 /\ n - (p - from) >= MARGIN
        /\ from + (p - from) = p
    <3> HIDE DEF n, found
    <3> QED
      BY <1>2, <2>2 DEF MARGIN
  <2>4. p - from \in found
    <3> HIDE DEF n
    <3> QED
      BY <2>2, <2>3
  <2> QED
    BY <1>4, <2>4
<1> QED
  BY <1>3, <1>4

(* A walk that counts the frames of one length has come so many of them    *)
(* far, when none reaches over the end of the file.                        *)
LEMMA AacWalkCounts ==
    ASSUME NEW f \in MediaType, NEW start \in 0..Size(f), NEW L \in Nat \ {0},
           \A p \in Chain(f, start) : HeaderAt(f, p) = L /\ p + L <= Size(f),
           AacWalk(f, start).out = "ok"
    PROVE  start + AacWalk(f, start).frames * L <= Size(f)
<1> DEFINE N == Size(f)
           C == Chain(f, start)
           H(p) == HeaderAt(f, p)
<1>1. PICK u : /\ AacWalk(f, start) = u[start]
               /\ \A p \in 0..N : u[p] \in Result /\ u[p] = WalkStep(f, start, u, p)
  BY AacWalkSteps
<1>2. N \in Nat
  BY SizeType
<1>3. \A p : H(p) \in Nat \cup {None}
  BY HeaderType
<1>4. ASSUME NEW p \in 0..N, u[p].out = "ok" PROVE H(p) > 0
  <2>1. u[p] = WalkStep(f, start, u, p)
    BY <1>1
  <2>2. H(p) # None /\ H(p) # 0
    <3>1. CASE H(p) = None
      BY <1>4, <2>1, <3>1 DEF WalkStep, Fails
    <3>2. CASE H(p) = 0
      BY <1>4, <2>1, <3>2 DEF WalkStep, Fails
    <3> QED
      BY <3>1, <3>2
  <2>3. H(p) \in Nat \cup {None}
    BY <1>3
  <2> HIDE DEF H
  <2> QED
    BY <2>2, <2>3 DEF None
<1>5. /\ C \subseteq 0..N - 1
      /\ H(start) > 0 => start \in C
      /\ \A q \in C : H(q + H(q)) > 0 => q + H(q) \in C
  BY ChainFollows
<1>6. \A p \in C : H(p) = L /\ p + L <= N
  OBVIOUS
<1>7. \A p \in C : p \in 0..N
  <2> HIDE DEF C, N
  <2> QED
    BY <1>2, <1>5
<1>8. \A p \in C : u[p].out = "ok" => p + u[p].frames * L <= N
  <2> DEFINE Off == {d \in 0..N : /\ N - d \in C
                                  /\ u[N - d].out = "ok"
                                  /\ ~ (N - d + u[N - d].frames * L <= N)}
  <2>1. Off = {}
    <3> SUFFICES ASSUME Off # {} PROVE FALSE
      OBVIOUS
    <3>1. PICK d \in Off : \A y \in Off : d =< y
      <4>1. Off \in SUBSET Nat
        OBVIOUS
      <4> HIDE DEF Off
      <4> QED
        BY <4>1, LeastNumber
    <3> DEFINE p == N - d
    <3>2. d \in 0..N /\ p \in C /\ u[p].out = "ok" /\ ~ (p + u[p].frames * L <= N)
      BY <3>1
    <3>3. p \in 0..N /\ u[p] = WalkStep(f, start, u, p) /\ H(p) = L /\ p + L <= N
      BY <1>1, <1>6, <1>7, <3>2
    <3>4. /\ u[p].frames # 0
          /\ u[p].frames # 1
      <4>1. p + 0 * L <= N /\ p + 1 * L <= N
        <5> HIDE DEF p, N
        <5> QED
          BY <1>2, <3>3
      <4> HIDE DEF p, N
      <4> QED
        BY <3>2, <4>1
    <3>5. u[p] = OneMore(u[p + L])
      <4> HIDE DEF p, N, Off
      <4>1. u[p] = IF p + AAC_HEADER > N \/ L = None THEN Fails
                   ELSE IF L = 0 THEN [out |-> "hangs", frames |-> 0]
                   ELSE IF L > MAX_LENGTH THEN [out |-> "ok", frames |-> 0]
                   ELSE IF (p + L) - start >= N THEN [out |-> "ok", frames |-> 1]
                   ELSE IF p + L > N THEN Fails
                   ELSE OneMore(u[p + L])
        BY <3>3 DEF WalkStep, N
      <4> QED
        BY <3>2, <3>4, <4>1 DEF Fails
    <3> DEFINE q == p + L
    <3>6. q \in 0..N /\ u[q] \in Result
      <4>1. q \in 0..N
        <5> HIDE DEF p, N
        <5> QED
          BY <1>2, <3>3
      <4> HIDE DEF q, N
      <4> QED
        BY <1>1, <4>1
    <3>7. u[p].out = u[q].out /\ u[p].frames = u[q].frames + 1
      <4> HIDE DEF p, N
      <4> QED
        BY <3>5, <3>6 DEF OneMore, Result
    <3>8. q \in C
      <4>1. H(q) > 0
        <5>1. u[q].out = "ok"
          BY <3>2, <3>7
        <5> HIDE DEF q
        <5> QED
          BY <1>4, <3>6, <5>1
      <4> HIDE DEF H, C
      <4> QED
        BY <1>5, <3>2, <3>3, <4>1
    <3>9. q + u[q].frames * L <= N
      <4> DEFINE e == d - L
      <4>1. e \in 0..N /\ N - e = q /\ ~ (d =< e)
        <5> HIDE DEF N
        <5> QED
          BY <1>2, <3>2, <3>6
      <4>2. e \notin Off
        <5> HIDE DEF Off, e
        <5> QED
          BY <3>1, <4>1
      <4>3. ~ /\ N - e \in C
              /\ u[N - e].out = "ok"
              /\ ~ (N - e + u[N - e].frames * L <= N)
        <5> HIDE DEF e
        <5> QED
          BY <4>1, <4>2
      <4> HIDE DEF e, q, Off, C, N
      <4> QED
        BY <3>2, <3>7, <3>8, <4>1, <4>3
    <3>10. /\ u[q].frames \in Nat
           /\ (u[q].frames + 1) * L = u[q].frames * L + L
      <4>1. u[q].frames \in Nat
        BY <3>6 DEF Result
      <4> QED
        BY <4>1, OneMoreTime
    <3>11. u[q].frames * L \in Nat
      BY <3>10, ProductType
    <3>12. p + u[p].frames * L <= N
      <4>1. u[p].frames * L = u[q].frames * L + L
        BY <3>7, <3>10
      <4>2. p \in Nat /\ q = p + L
        BY <3>3
      <4> HIDE DEF p, q, N
      <4> QED
        BY <1>2, <3>9, <3>11, <4>1, <4>2
    <3> QED
      BY <3>2, <3>12
  <2>2. ASSUME NEW p \in C, u[p].out = "ok" PROVE p + u[p].frames * L <= N
    <3>1. N - p \in 0..N /\ N - (N - p) = p
      <4> HIDE DEF N, C, Off
      <4> QED
        BY <1>2, <1>7
    <3> DEFINE d == N - p
    <3>2. d \in 0..N /\ N - d = p /\ d \notin Off
      BY <2>1, <3>1
    <3>3. ~ /\ N - d \in C
            /\ u[N - d].out = "ok"
            /\ ~ (N - d + u[N - d].frames * L <= N)
      <4> HIDE DEF d
      <4> QED
        BY <3>2
    <3> HIDE DEF d, N, C, Off
    <3> QED
      BY <2>2, <3>2, <3>3
  <2> QED
    BY <2>2
<1>9. u[start].out = "ok"
  BY <1>1
<1>10. start \in C
  BY <1>4, <1>5, <1>9
<1> QED
  BY <1>1, <1>8, <1>9, <1>10

(* A byte more than the rate of a file is not less than that of its frames:*)
(* n frames of L bytes in a file of N, which last n * S / F seconds.       *)
LEMMA RateIsEnough ==
    ASSUME NEW N \in Nat, NEW n \in Nat, NEW L \in Nat, NEW S \in Nat,
           NEW F \in Nat \ {0}, n * L <= N, NEW T, T = (n * S) \div F, T > 0
    PROVE  L * F <= (N \div T + 1) * S
<1> DEFINE r == N \div T
           a == n * S
<1>1. a \in Nat
  BY ProductType
<1>2. T \in Nat \ {0} /\ T * F <= a
  <2>1. T = a \div F
    OBVIOUS
  <2> HIDE DEF a
  <2> QED
    BY <1>1, <2>1
<1>3. r \in Nat /\ N <= T * (r + 1)
  BY <1>2
<1> HIDE DEF r
<1> DEFINE b == r + 1
<1>4. b \in Nat /\ N <= T * b
  BY <1>3
<1> HIDE DEF b
<1>5. (T * F) * L <= (n * S) * L
  <2>1. T * F \in Nat
    BY <1>2, ProductType
  <2>2. (T * F) * L <= a * L
    <3> HIDE DEF a
    <3> QED
      BY <1>1, <1>2, <2>1, TimesKeepsOrder
  <2> QED
    BY <2>2
<1>6. (n * L) * S <= N * S
  <2>1. n * L \in Nat
    BY ProductType
  <2> DEFINE nL == n * L
  <2>2. nL \in Nat /\ nL <= N
    BY <2>1
  <2> HIDE DEF nL
  <2>3. nL * S <= N * S
    BY <2>2, TimesKeepsOrder
  <2> QED
    BY <2>3 DEF nL
<1>7. N * S <= (T * b) * S
  <2>1. T * b \in Nat
    BY <1>2, <1>4, ProductType
  <2> QED
    BY <1>4, <2>1, TimesKeepsOrder
<1>8. /\ (T * F) * L = (L * F) * T
      /\ (n * S) * L = (n * L) * S
      /\ (T * b) * S = (b * S) * T
  <2>1. ASSUME NEW i \in Nat, NEW j \in Nat, NEW k \in Nat
        PROVE  (i * j) * k = (j * k) * i /\ (i * j) * k = (i * k) * j
    OBVIOUS
  <2>2. (T * F) * L = (F * L) * T /\ F * L = L * F
    BY <1>2, <2>1
  <2>3. (n * S) * L = (n * L) * S
    BY <2>1
  <2>4. (T * b) * S = (b * S) * T
    BY <1>2, <1>4, <2>1
  <2> QED
    BY <2>2, <2>3, <2>4
<1> DEFINE x == L * F
           y == b * S
           u == x * T
           v == (n * L) * S
           w == N * S
           z == y * T
<1>9. /\ x \in Nat /\ y \in Nat
  BY <1>4, ProductType
<1>10. u \in Int /\ v \in Int /\ w \in Int /\ z \in Int
  <2>1. u \in Int /\ z \in Int
    <3> HIDE DEF x, y
    <3> QED
      BY <1>2, <1>9
  <2>2. n * L \in Nat
    BY ProductType
  <2>3. v \in Int /\ w \in Int
    <3> DEFINE nL == n * L
    <3>1. nL \in Nat
      BY <2>2
    <3> HIDE DEF nL
    <3>2. nL * S \in Nat /\ N * S \in Nat
      BY <3>1, ProductType
    <3> QED
      BY <3>2 DEF nL
  <2> QED
    BY <2>1, <2>3
<1>11. u <= v /\ v <= w /\ w <= z
  BY <1>5, <1>6, <1>7, <1>8
<1>12. ~ (y < x)
  <2> SUFFICES ASSUME y < x PROVE FALSE
    OBVIOUS
  <2>1. z < u
    <3> HIDE DEF x, y
    <3> QED
      BY <1>2, <1>9, TimesIsOrdered
  <2> HIDE DEF u, v, w, z
  <2> QED
    BY <1>10, <1>11, <2>1
<1>13. x <= y
  <2> HIDE DEF x, y
  <2> QED
    BY <1>9, <1>12
<1> QED
  BY <1>13 DEF b, r

LEMMA AacPreview ==
    ASSUME NEW f \in MediaType, NEW m_start \in Nat, NEW m_stop \in Nat,
           NEW audio, audio = AacNext(f, 0),
           NEW begin, begin = AacSegment(f, m_start, m_stop).start,
           AacSegment(f, m_start, m_stop).out = "ok",
           AacNear(f, begin), AacRight(f, audio)
    PROVE  /\ begin \in Chain(f, audio)
           /\ Steady(f, audio) /\ Whole(f, audio) =>
                  (Before(f, audio, begin) * HeaderAt(f, audio) + m_start) * Samples
                      >= m_start * HeaderAt(f, audio) * Frequency
<1> USE DEF AacRight, Steady, Whole, Before
<1> DEFINE walk == AacWalk(f, audio)
           frames == walk.frames
           rate == Size(f) \div PlayTime(frames)
           place == audio + m_start * rate
           N == Size(f)
           C == Chain(f, audio)
           H(p) == HeaderAt(f, p)
<1>1. AacSegment(f, m_start, m_stop) =
          IF walk.out = "hangs" THEN Segment("hangs", 0, 0)
          ELSE IF walk.out = "no" \/ walk.frames = 0 THEN Segment("no", m_start, m_stop)
          ELSE IF PlayTime(walk.frames) = 0 THEN Segment("dies", 0, 0)
          ELSE IF rate = 0 THEN Segment("no", m_start, m_stop)
          ELSE Segment("ok", place + AacNext(f, place), m_stop * rate)
  BY DEF AacSegment
<1>2. audio \in 0..N /\ N \in Nat /\ audio \in Nat
  BY AacNextInFile, AacNextType, SizeType
<1>3. walk \in Result
  BY <1>2, AacWalkType
<1>4. /\ walk.out = "ok" /\ frames \in Nat /\ ~ (PlayTime(frames) = 0)
      /\ begin = place + AacNext(f, place)
  <2> HIDE DEF walk, rate, place
  <2>1. /\ Segment("hangs", 0, 0).out # "ok" /\ Segment("dies", 0, 0).out # "ok"
        /\ Segment("no", m_start, m_stop).out # "ok"
        /\ Segment("ok", place + AacNext(f, place), m_stop * rate).start
             = place + AacNext(f, place)
    BY DEF Segment
  <2>2. /\ walk.out # "hangs" /\ walk.out # "no" /\ ~ (PlayTime(walk.frames) = 0)
        /\ begin = place + AacNext(f, place)
    BY <1>1, <2>1
  <2> QED
    BY <1>3, <2>2 DEF Result
<1> HIDE DEF walk, frames
<1>5. rate \in Nat
  <2>1. PlayTime(frames) \in Nat /\ PlayTime(frames) > 0
    BY <1>4, PlayTimeType
  <2> QED
    BY <1>2, <2>1, QuotientType
<1> HIDE DEF rate, N
<1>6. place \in Nat /\ audio <= place
  <2>1. m_start * rate \in Nat
    BY <1>5, ProductType
  <2> QED
    BY <1>2, <2>1
<1> HIDE DEF place
<1>7. AacHeader(f, begin) /\ place <= begin /\ begin \in Nat
  <2>1. AacNext(f, place) \in Nat
    BY <1>6, AacNextType
  <2>2. AacHeader(f, place + AacNext(f, place))
    BY <1>4, <1>6, AacNextFinds
  <2> QED
    BY <1>4, <1>6, <2>1, <2>2
<1>8. begin \in C
  <2>1. begin \in 0..N - 1
    <3>1. HeaderAt(f, begin) # None
      BY <1>7, AudioConstants DEF AacHeader, None
    <3> QED
      BY <3>1, HeaderInFile DEF N
  <2>2. begin \in audio..N - 1
    BY <1>2, <1>6, <1>7, <2>1
  <2> QED
    BY <1>7, <2>2 DEF N
<1>9. ASSUME \A p \in C : H(p) = H(audio) /\ p + H(p) <= N
      PROVE  (Cardinality({p \in C : p < begin}) * H(audio) + m_start) * Samples
                 >= m_start * H(audio) * Frequency
  <2> DEFINE L == H(audio)
  <2>1. L \in Nat \ {0}
    <3>1. H(begin) > 0 /\ H(begin) = L
      <4>1. \A p \in C : H(p) > 0
        BY <1>2, ChainFollows DEF N
      <4> QED
        BY <1>8, <1>9, <4>1
    <3>2. L \in Nat \cup {None}
      BY HeaderType
    <3> HIDE DEF L, H
    <3> QED
      BY <3>1, <3>2 DEF None
  <2>2. \A p \in C : H(p) = L /\ p + L <= N
    BY <1>9
  <2> HIDE DEF L
  <2>3. audio + frames * L <= N
    BY <1>2, <1>4, <2>1, <2>2, AacWalkCounts DEF walk, frames, N
  <2>4. frames * L \in Nat
    BY <1>4, <2>1, ProductType
  <2>5. L * Frequency <= (rate + 1) * Samples
    <3>1. frames * L <= N
      BY <1>2, <2>3, <2>4
    <3>2. PlayTime(frames) > 0
      BY <1>4, PlayTimeType
    <3> QED
      BY <1>2, <1>4, <2>1, <3>1, <3>2, SegmentConstants, RateIsEnough DEF rate, N, PlayTime
  <2>6. \A p \in C : H(p) = L
    BY <2>2
  <2>7. /\ \A p \in C : \E j \in Nat : p = audio + j * L
        /\ \A j \in Nat : audio + j * L \in C =>
               Cardinality({p \in C : p < audio + j * L}) = j
    BY <1>2, <2>1, <2>6, SteadyChain DEF N
  <2> HIDE DEF C
  <2>8. PICK j \in Nat : begin = audio + j * L
    BY <1>8, <2>7
  <2>9. Cardinality({p \in C : p < begin}) = j
    BY <1>8, <2>7, <2>8
  <2> DEFINE one == rate + 1
             way == m_start * rate
             far == j * L
  <2>10. /\ way \in Nat /\ far \in Nat /\ way <= far
         /\ m_start * one = way + m_start
    <3>1. way \in Nat /\ far \in Nat
      BY <1>5, <2>1, ProductType
    <3>2. audio + way <= audio + far
      BY <1>7, <2>8 DEF place
    <3>3. m_start * one = way + m_start
      BY <1>5
    <3> HIDE DEF way, far
    <3> QED
      BY <1>2, <3>1, <3>2, <3>3
  <2>11. one \in Nat /\ L * Frequency <= one * Samples
    BY <1>5, <2>5
  <2> HIDE DEF way, far, one
  <2> DEFINE x == L * Frequency
             y == one * Samples
             a == m_start * one
             b == far + m_start
  <2>12. x \in Nat /\ y \in Nat /\ a \in Nat /\ b \in Nat /\ x <= y /\ a <= b
    BY <2>1, <2>10, <2>11, SegmentConstants, ProductType
  <2>13. m_start * x <= m_start * y
    <3> HIDE DEF x, y
    <3>1. x * m_start <= y * m_start
      BY <2>12, TimesKeepsOrder
    <3> QED
      BY <2>12, <3>1
  <2>14. a * Samples <= b * Samples
    <3> HIDE DEF a, b
    <3> QED
      BY <2>12, SegmentConstants, TimesKeepsOrder
  <2>15. m_start * L * Frequency = m_start * x /\ m_start * y = a * Samples
    BY <2>1, <2>11, SegmentConstants
  <2>16. m_start * x \in Nat /\ a * Samples \in Nat /\ b * Samples \in Nat
    <3> HIDE DEF x, y, a, b
    <3> QED
      BY <2>12, SegmentConstants, ProductType
  <2>17. b * Samples >= m_start * L * Frequency
    <3> DEFINE i1 == m_start * x
               i2 == a * Samples
               i3 == b * Samples
    <3>1. i1 \in Nat /\ i2 \in Nat /\ i3 \in Nat /\ i1 <= i2 /\ i2 <= i3
      BY <2>13, <2>14, <2>15, <2>16
    <3>2. m_start * L * Frequency = i1
      BY <2>15
    <3> HIDE DEF i1, i2, i3
    <3>3. i3 >= i1
      BY <3>1
    <3> QED
      BY <3>2, <3>3 DEF i3
  <2> QED
    BY <2>9, <2>17 DEF far, L
<1> QED
  BY <1>8, <1>9 DEF C, H, N

-----------------------------------------------------------------------------
(* What is asked for and announced, and how far the body has come.         *)
RangeInv ==
    /\ phase \in {"segment", "header"} =>
           data_begin = FirstRange(mData)[1] /\ data_end = FirstRange(mData)[2]
    /\ phase \in {"parse", "open", "segment", "header"} => sent = 0
    /\ phase \in {"parse", "open"} => start_pos = 0
    /\ phase # "done" => response = 206 /\ ~gone
    /\ phase = "segment" => m_len = Size(file) /\ start_pos = 0
    /\ phase = "header" /\ mData.token => m_len = Size(file) /\ start_pos = 0

EndOfRange ==
    IF FirstRange(mData)[2] = 0 THEN m_len - 1 ELSE FirstRange(mData)[2]

(* From the header on: what was sent and what may be sent are the range    *)
(* together, the file is read where the body has got to, and never behind  *)
(* its end.                                                                *)
BodyInv ==
    phase = "body" \/ Answered =>
        /\ data_begin = FirstRange(mData)[1]
        /\ promised = EndOfRange - data_begin + 1
        /\ sent + data_end = EndOfRange + 1
        /\ mData.token => m_len = Size(file) /\ start_pos = 0
        /\ start_pos + data_begin <= Size(file) =>
               start_pos + data_begin + sent <= Size(file)
        /\ phase = "body" => pos = start_pos + data_begin + sent
        /\ phase = "done" => \/ data_end = 0
                             \/ start_pos + data_begin + sent >= Size(file)

AnswerInv == AnswerTypeOK /\ RangeInv /\ BodyInv

DataType == [is_aac : BOOLEAN, is_mp3 : BOOLEAN, id : Nat, module : BOOLEAN,
             hash : BOOLEAN, token : BOOLEAN, mRange : SUBSET (Nat \X Nat)]

LEMMA ParameterKeepsType ==
    ASSUME NEW d \in DataType, NEW p \in ParameterType
    PROVE  Parameter(d, p) \in DataType
<1>1. /\ p.n \in Nat /\ p.m \in Nat
      /\ p.name \in {"token", "id", "module", "date", "hash", "bytes"}
      /\ (p.n >= TOKEN_SIZE) \in BOOLEAN
  BY DEF ParameterType
<1>2. CASE p.name = "token"
  <2>1. Parameter(d, p) = [d EXCEPT !.token = p.n >= TOKEN_SIZE]
    BY <1>2 DEF Parameter
  <2> QED
    BY <1>1, <2>1 DEF DataType
<1>3. CASE p.name = "id"
  <2>1. Parameter(d, p) = [d EXCEPT !.id = p.n, !.is_aac = TRUE]
    BY <1>3 DEF Parameter
  <2> QED
    BY <1>1, <2>1 DEF DataType
<1>4. CASE p.name = "module"
  <2>1. Parameter(d, p) = [d EXCEPT !.module = TRUE]
    BY <1>4 DEF Parameter
  <2> QED
    BY <2>1 DEF DataType
<1>5. CASE p.name = "date"
  <2>1. Parameter(d, p) = [d EXCEPT !.is_mp3 = TRUE]
    BY <1>5 DEF Parameter
  <2> QED
    BY <2>1 DEF DataType
<1>6. CASE p.name = "hash"
  <2>1. Parameter(d, p) = [d EXCEPT !.hash = TRUE]
    BY <1>6 DEF Parameter
  <2> QED
    BY <2>1 DEF DataType
<1>7. CASE p.name = "bytes"
  <2>1. Parameter(d, p) = [d EXCEPT !.mRange =
                               {r \in @ : r[1] # p.n} \union {<<p.n, p.m>>}]
    BY <1>7 DEF Parameter
  <2>2. {r \in d.mRange : r[1] # p.n} \union {<<p.n, p.m>>} \in SUBSET (Nat \X Nat)
    BY <1>1 DEF DataType
  <2> QED
    BY <2>1, <2>2 DEF DataType
<1> QED
  BY <1>1, <1>2, <1>3, <1>4, <1>5, <1>6, <1>7

LEMMA FirstRangeType ==
    ASSUME NEW d \in DataType
    PROVE  FirstRange(d) \in Nat \X Nat
<1>1. d.mRange \in SUBSET (Nat \X Nat)
  BY DEF DataType
<1>2. CASE d.mRange = {}
  BY <1>2 DEF FirstRange
<1>3. CASE d.mRange # {}
  <2> DEFINE S == {r[1] : r \in d.mRange}
             First(r) == r \in d.mRange /\ \A q \in d.mRange : r[1] <= q[1]
  <2>1. S \in SUBSET Nat /\ S # {}
    BY <1>1, <1>3
  <2>2. PICK x \in S : \A y \in S : x =< y
    <3> HIDE DEF S
    <3> QED
      BY <2>1, LeastNumber
  <2>3. PICK r \in d.mRange : x = r[1]
    OBVIOUS
  <2>4. First(r)
    BY <2>2, <2>3
  <2>5. FirstRange(d) = CHOOSE z : First(z)
    BY <1>3 DEF FirstRange
  <2>6. First(CHOOSE z : First(z))
    <3> HIDE DEF First
    <3> QED
      BY <2>4
  <2> QED
    BY <1>1, <2>5, <2>6
<1> QED
  BY <1>2, <1>3

LEMMA AnswerInitInv == AnswerInit => AnswerInv
<1> SUFFICES ASSUME AnswerInit PROVE AnswerInv
  OBVIOUS
<1>1. AnswerTypeOK
  <2>1. mData \in DataType
    BY DEF AnswerInit, NoData, DataType
  <2>2. request \in Seq(ParameterType)
    BY AnswerConstants DEF AnswerInit
  <2>3. /\ phase = "parse" /\ response = 206 /\ gone = FALSE
        /\ data_begin = 0 /\ data_end = 0 /\ m_len = 0 /\ start_pos = 0
        /\ promised = 0 /\ pos = 0 /\ sent = 0 /\ file \in Media /\ config \in Config
    BY DEF AnswerInit
  <2>4. response \in {206, 403, 404, 405} /\ promised \in Int
        /\ phase \in {"parse", "open", "segment", "header", "body", "done", "dead", "hung"}
    BY <2>3
  <2>6. gone \in BOOLEAN
    BY <2>3, Zenon
  <2>5. /\ data_begin \in Nat /\ data_end \in Nat /\ m_len \in Nat /\ start_pos \in Nat
        /\ pos \in Nat /\ sent \in Nat
    BY <2>3
  <2> QED
    BY <2>1, <2>2, <2>3, <2>4, <2>5, <2>6, Zenon DEF AnswerTypeOK, DataType
<1> QED
  BY <1>1 DEF AnswerInit, AnswerInv, RangeInv, BodyInv, Answered

(* The steps before the header, and those that end the answer.             *)
LEMMA AskedInv ==
    ASSUME AnswerInv,
           \/ GetParameter \/ BadRequest \/ Parsed \/ NotFound \/ Forbidden \/ ClientGone
    PROVE  AnswerInv'
<1>1. /\ file' = file /\ config' = config /\ data_begin' = data_begin
      /\ data_end' = data_end /\ m_len' = m_len /\ start_pos' = start_pos
      /\ promised' = promised /\ pos' = pos /\ sent' = sent
  BY DEF GetParameter, BadRequest, Parsed, NotFound, Forbidden, ClientGone, Refused,
         asked, range
<1>2. mData' \in DataType /\ request' \in Seq(ParameterType)
  <2>1. mData \in DataType /\ request \in Seq(ParameterType)
    BY DEF AnswerInv, AnswerTypeOK, DataType
  <2>2. CASE GetParameter
    <3>1. Head(request) \in ParameterType /\ Tail(request) \in Seq(ParameterType)
      BY <2>1, <2>2 DEF GetParameter
    <3> QED
      BY <2>1, <2>2, <3>1, ParameterKeepsType DEF GetParameter
  <2>3. CASE \/ BadRequest \/ Parsed \/ NotFound \/ Forbidden \/ ClientGone
    BY <2>1, <2>3 DEF BadRequest, Parsed, NotFound, Forbidden, ClientGone, Refused, asked
  <2> QED
    BY <2>2, <2>3
<1>3. /\ response' \in {206, 403, 404, 405} /\ gone' \in BOOLEAN
      /\ \/ phase' \in {"parse", "open"} /\ phase \in {"parse", "open"}
            /\ response' = response /\ gone' = gone
         \/ phase' = "done" /\ (response' # 206 \/ gone')
  <2>1. response \in {206, 403, 404, 405} /\ gone \in BOOLEAN
    BY DEF AnswerInv, AnswerTypeOK
  <2>2. CASE GetParameter \/ Parsed
    BY <2>1, <2>2 DEF GetParameter, Parsed
  <2>3. CASE BadRequest \/ NotFound \/ Forbidden
    BY <2>1, <2>3 DEF BadRequest, NotFound, Forbidden, Refused
  <2>4. CASE ClientGone
    BY <2>1, <2>4 DEF ClientGone
  <2> QED
    BY <2>2, <2>3, <2>4
<1>4. AnswerTypeOK'
  BY <1>1, <1>2, <1>3 DEF AnswerInv, AnswerTypeOK, DataType
<1>5. RangeInv'
  BY <1>1, <1>3 DEF AnswerInv, RangeInv
<1>6. BodyInv'
  BY <1>3 DEF BodyInv, Answered
<1> QED
  BY <1>4, <1>5, <1>6 DEF AnswerInv

LEMMA OpenInv == ASSUME AnswerInv, Open PROVE AnswerInv'
<1>1. /\ file' = file /\ config' = config /\ mData' = mData /\ request' = request
      /\ data_begin' = FirstRange(mData)[1] /\ data_end' = FirstRange(mData)[2]
      /\ m_len' = Size(file) /\ start_pos' = start_pos
      /\ promised' = promised /\ pos' = pos /\ sent' = sent /\ gone' = gone
      /\ response' = response /\ phase = "open" /\ phase' = "segment"
  BY DEF Open, asked
<1>2. FirstRange(mData) \in Nat \X Nat
  BY FirstRangeType DEF AnswerInv, AnswerTypeOK, DataType
<1>3. Size(file) \in Nat
  BY SizeType, AnswerConstants DEF AnswerInv, AnswerTypeOK
<1>4. AnswerTypeOK'
  BY <1>1, <1>2, <1>3 DEF AnswerInv, AnswerTypeOK
<1>5. BodyInv'
  BY <1>1 DEF BodyInv, Answered
<1>6. RangeInv'
  BY <1>1 DEF AnswerInv, RangeInv
<1> QED
  BY <1>4, <1>5, <1>6 DEF AnswerInv

LEMMA TakeSegmentInv == ASSUME AnswerInv, TakeSegment PROVE AnswerInv'
<1>1. /\ file' = file /\ config' = config /\ mData' = mData /\ request' = request
      /\ data_begin' = data_begin /\ data_end' = data_end
      /\ promised' = promised /\ pos' = pos /\ sent' = sent /\ gone' = gone
      /\ response' = response /\ phase = "segment"
  BY DEF TakeSegment, asked
<1>2. /\ file \in MediaType /\ config[1] \in Nat /\ config[2] \in Nat
      /\ m_len \in Nat /\ start_pos \in Nat
  BY AnswerConstants DEF AnswerInv, AnswerTypeOK
<1>3. FileSegment \in SegmentType
  BY <1>2, AacSegmentType, MpxSegmentType DEF FileSegment
<1>4. /\ phase' \in {"header", "dead", "hung"} /\ m_len' \in Nat /\ start_pos' \in Nat
      /\ mData.token => m_len' = m_len /\ start_pos' = start_pos
  <2>1. CASE mData.token
    BY <1>2, <2>1 DEF TakeSegment
  <2>2. CASE ~mData.token
    <3> DEFINE s == FileSegment
    <3>1. s.start \in Nat /\ s.stop \in Nat
      BY <1>3 DEF SegmentType
    <3>2. /\ phase' = CASE s.out = "dies" -> "dead" [] s.out = "hangs" -> "hung"
                         [] OTHER -> "header"
          /\ start_pos' = s.start
          /\ m_len' = IF s.out = "ok" THEN Min({m_len, s.stop}) ELSE m_len
      BY <2>2 DEF TakeSegment
    <3> HIDE DEF s
    <3>3. Min({m_len, s.stop}) \in Nat
      <4>1. {m_len, s.stop} \in SUBSET Nat /\ {m_len, s.stop} # {}
        BY <1>2, <3>1
      <4> QED
        BY <4>1, MinIsLeast
    <3> QED
      BY <1>2, <2>2, <3>1, <3>2, <3>3
  <2> QED
    BY <2>1, <2>2
<1>5. AnswerTypeOK'
  BY <1>1, <1>4 DEF AnswerInv, AnswerTypeOK
<1>6. RangeInv'
  BY <1>1, <1>4 DEF AnswerInv, RangeInv
<1>7. BodyInv'
  BY <1>1, <1>4 DEF BodyInv, Answered
<1> QED
  BY <1>5, <1>6, <1>7 DEF AnswerInv

LEMMA SendHeaderInv == ASSUME AnswerInv, SendHeader PROVE AnswerInv'
<1>1. /\ file' = file /\ config' = config /\ mData' = mData /\ request' = request
      /\ data_begin' = data_begin /\ data_end' = LastByte + 1
      /\ m_len' = m_len /\ start_pos' = start_pos
      /\ promised' = LastByte - data_begin + 1 /\ pos' = start_pos + data_begin
      /\ sent' = sent /\ gone' = gone /\ response' = response
      /\ phase = "header" /\ phase' = "body"
  BY DEF SendHeader, asked
<1>2. data_begin \in Nat /\ data_end \in Nat /\ m_len \in Nat /\ start_pos \in Nat
  BY DEF AnswerInv, AnswerTypeOK
<1>3. /\ data_begin = FirstRange(mData)[1] /\ data_end = FirstRange(mData)[2]
      /\ sent = 0 /\ (mData.token => m_len = Size(file) /\ start_pos = 0)
  BY <1>1 DEF AnswerInv, RangeInv
<1>4. LastByte \in Int /\ LastByte + 1 \in Nat /\ LastByte = EndOfRange
  BY <1>2, <1>3 DEF LastByte, EndOfRange
<1>5. AnswerTypeOK'
  <2>1. promised' \in Int /\ pos' \in Nat /\ data_end' \in Nat
    BY <1>1, <1>2, <1>4
  <2> QED
    BY <1>1, <2>1 DEF AnswerInv, AnswerTypeOK
<1>6. RangeInv'
  BY <1>1 DEF AnswerInv, RangeInv
<1>7. BodyInv'
  <2>1. EndOfRange' = EndOfRange
    BY <1>1 DEF EndOfRange
  <2>2. Size(file) \in Nat
    BY SizeType, AnswerConstants DEF AnswerInv, AnswerTypeOK
  <2>3. sent' + data_end' = EndOfRange + 1
    BY <1>1, <1>3, <1>4
  <2>4. promised' = EndOfRange - data_begin + 1
    BY <1>1, <1>4
  <2>5. start_pos + data_begin <= Size(file) =>
               start_pos + data_begin + sent <= Size(file)
    BY <1>2, <1>3, <2>2
  <2>6. pos' = start_pos + data_begin + sent
    BY <1>1, <1>2, <1>3
  <2> QED
    BY <1>1, <1>3, <2>1, <2>3, <2>4, <2>5, <2>6 DEF BodyInv
<1> QED
  BY <1>5, <1>6, <1>7 DEF AnswerInv

LEMMA SendBlockInv == ASSUME AnswerInv, SendBlock PROVE AnswerInv'
<1> DEFINE block == IF pos < Size(file) THEN Min({BUFFER_SIZE, Size(file) - pos}) ELSE 0
           out == Min({block, data_end})
<1>1. /\ file' = file /\ config' = config /\ mData' = mData /\ request' = request
      /\ data_begin' = data_begin /\ m_len' = m_len /\ start_pos' = start_pos
      /\ promised' = promised /\ gone' = gone /\ response' = response
      /\ phase = "body"
  BY DEF SendBlock, asked
<1>2. /\ sent' = sent + out /\ pos' = pos + block /\ data_end' = data_end - out
      /\ phase' = IF block = 0 \/ data_end' = 0 THEN "done" ELSE "body"
  BY DEF SendBlock
<1>3. /\ data_begin \in Nat /\ data_end \in Nat /\ start_pos \in Nat
      /\ pos \in Nat /\ sent \in Nat
  BY DEF AnswerInv, AnswerTypeOK
<1>4. Size(file) \in Nat
  BY SizeType, AnswerConstants DEF AnswerInv, AnswerTypeOK
<1>5. /\ block \in Nat /\ (block = 0 => pos >= Size(file))
      /\ pos <= Size(file) => pos + block <= Size(file)
  <2>1. CASE pos < Size(file)
    <3> DEFINE S == {BUFFER_SIZE, Size(file) - pos}
    <3>1. S \in SUBSET Nat /\ S # {} /\ (\A y \in S : y > 0) /\ Size(file) - pos \in S
      BY <1>3, <1>4, <2>1, AnswerConstants
    <3>2. block = Min(S)
      BY <2>1
    <3> HIDE DEF S, block
    <3>3. Min(S) \in S /\ \A y \in S : Min(S) =< y
      BY <3>1, MinIsLeast
    <3>4. Min(S) \in Nat /\ Min(S) > 0 /\ Min(S) <= Size(file) - pos
      BY <3>1, <3>3
    <3> QED
      BY <1>3, <1>4, <3>2, <3>4
  <2>2. CASE ~ (pos < Size(file))
    BY <1>3, <1>4, <2>2
  <2> QED
    BY <2>1, <2>2
<1> HIDE DEF block
<1>6. out \in {block, data_end} /\ out <= block /\ out <= data_end
  <2> DEFINE S == {block, data_end}
  <2>1. S \in SUBSET Nat /\ S # {}
    BY <1>3, <1>5
  <2>2. out = Min(S)
    OBVIOUS
  <2> HIDE DEF S, out
  <2>3. Min(S) \in S /\ \A y \in S : Min(S) =< y
    BY <2>1, MinIsLeast
  <2> QED
    BY <2>2, <2>3 DEF S
<1> HIDE DEF out
<1>7. /\ data_begin = FirstRange(mData)[1]
      /\ promised = EndOfRange - data_begin + 1
      /\ sent + data_end = EndOfRange + 1
      /\ mData.token => m_len = Size(file) /\ start_pos = 0
      /\ start_pos + data_begin <= Size(file) =>
             start_pos + data_begin + sent <= Size(file)
      /\ pos = start_pos + data_begin + sent
  BY <1>1 DEF AnswerInv, BodyInv
<1>8. sent' \in Nat /\ data_end' \in Nat /\ pos' \in Nat
  BY <1>2, <1>3, <1>5, <1>6
<1>9. EndOfRange' = EndOfRange /\ EndOfRange \in Int
  <2>1. EndOfRange' = EndOfRange
    BY <1>1 DEF EndOfRange
  <2>2. FirstRange(mData)[2] \in Nat /\ m_len \in Nat
    BY FirstRangeType DEF AnswerInv, AnswerTypeOK, DataType
  <2> QED
    BY <2>1, <2>2 DEF EndOfRange
<1>10. AnswerTypeOK'
  BY <1>1, <1>2, <1>8 DEF AnswerInv, AnswerTypeOK
<1>11. RangeInv'
  BY <1>1, <1>2 DEF AnswerInv, RangeInv
<1>12. sent' + data_end' = EndOfRange + 1
  BY <1>2, <1>3, <1>5, <1>6, <1>7, <1>9
<1>13. start_pos + data_begin <= Size(file) =>
             start_pos + data_begin + sent' <= Size(file)
  BY <1>2, <1>3, <1>4, <1>5, <1>6, <1>7
<1>14. CASE block = 0 \/ data_end' = 0
  <2>1. data_end' = 0 \/ start_pos + data_begin + sent' >= Size(file)
    <3>1. CASE block = 0
      BY <1>2, <1>3, <1>4, <1>5, <1>6, <1>7, <3>1
    <3> QED
      BY <1>14, <3>1
  <2> QED
    BY <1>1, <1>2, <1>7, <1>9, <1>10, <1>11, <1>12, <1>13, <1>14, <2>1
    DEF AnswerInv, BodyInv
<1>15. CASE ~ (block = 0 \/ data_end' = 0)
  <2>1. out = block
    BY <1>2, <1>3, <1>6, <1>15
  <2>2. pos' = start_pos + data_begin + sent'
    BY <1>2, <1>3, <1>5, <1>7, <2>1
  <2> QED
    BY <1>1, <1>2, <1>7, <1>9, <1>10, <1>11, <1>12, <1>13, <1>15, <2>2
    DEF AnswerInv, BodyInv
<1> QED
  BY <1>14, <1>15

LEMMA AnswerNextInv == AnswerInv /\ [AnswerNext]_answer_vars => AnswerInv'
<1> SUFFICES ASSUME AnswerInv, [AnswerNext]_answer_vars PROVE AnswerInv'
  OBVIOUS
<1>1. CASE UNCHANGED answer_vars
  BY <1>1 DEF answer_vars, AnswerInv, AnswerTypeOK, RangeInv, BodyInv, Answered,
              EndOfRange
<1>2. CASE AnswerNext
  BY <1>2, AskedInv, OpenInv, TakeSegmentInv, SendHeaderInv, SendBlockInv DEF AnswerNext
<1> QED
  BY <1>1, <1>2

LEMMA AnswerInvariant == AnswerSpec => []AnswerInv
  BY AnswerInitInv, AnswerNextInv, PTL DEF AnswerSpec

LEMMA BodyInvImplies == AnswerInv => BodyIsPromised
<1> SUFFICES ASSUME AnswerInv, Answered, RangeExists
             PROVE  /\ sent \in promised..promised + data_begin
                    /\ mData.token /\ FirstRange(mData)[2] = 0 => sent = promised
  BY DEF BodyIsPromised
<1>1. /\ data_begin \in Nat /\ data_end \in Nat /\ start_pos \in Nat
      /\ sent \in Nat /\ promised \in Int /\ m_len \in Nat
  BY DEF AnswerInv, AnswerTypeOK
<1>2. Size(file) \in Nat /\ FirstRange(mData)[2] \in Nat
  BY SizeType, AnswerConstants, FirstRangeType DEF AnswerInv, AnswerTypeOK, DataType
<1>3. EndOfRange \in Int
  BY <1>1, <1>2 DEF EndOfRange
<1>4. data_begin <= EndOfRange /\ start_pos + EndOfRange < Size(file)
  BY DEF RangeExists, EndOfRange, AnswerInv, BodyInv
<1>5. /\ promised = EndOfRange - data_begin + 1
      /\ sent + data_end = EndOfRange + 1
      /\ start_pos + data_begin <= Size(file) =>
             start_pos + data_begin + sent <= Size(file)
      /\ data_end = 0 \/ start_pos + data_begin + sent >= Size(file)
      /\ mData.token => m_len = Size(file) /\ start_pos = 0
  BY DEF AnswerInv, BodyInv, Answered
<1>6. sent >= promised
  <2>1. CASE data_end = 0
    BY <1>1, <1>3, <1>5, <2>1
  <2>2. CASE start_pos + data_begin + sent >= Size(file)
    BY <1>1, <1>2, <1>3, <1>4, <1>5, <2>2
  <2> QED
    BY <1>5, <2>1, <2>2
<1>7. sent <= promised + data_begin
  BY <1>1, <1>3, <1>5
<1>8. ASSUME mData.token, FirstRange(mData)[2] = 0 PROVE sent = promised
  <2>1. EndOfRange = m_len - 1 /\ m_len = Size(file) /\ start_pos = 0
    BY <1>5, <1>8 DEF EndOfRange
  <2>2. sent <= promised
    BY <1>1, <1>2, <1>3, <1>4, <1>5, <2>1
  <2> QED
    BY <1>1, <1>6, <2>2
<1> QED
  BY <1>1, <1>6, <1>7, <1>8

(* A client that stays gets the bytes that the header of create_answer     *)
(* promises when they exist, and no more of those that follow than the     *)
(* range left out before it; none for a range from the first byte, or one  *)
(* without an end and with a token.                                        *)
THEOREM AnswerBodyIsPromised == AnswerSpec => []BodyIsPromised
  BY AnswerInvariant, BodyInvImplies, PTL

-----------------------------------------------------------------------------
(* A listener without a token hears the segment that was found.            *)
SegmentInv ==
    (phase \in {"header", "body"} \/ Answered) /\ ~mData.token =>
        start_pos = FileSegment.start

LEMMA SegmentInitInv == AnswerInit => SegmentInv
  BY DEF AnswerInit, SegmentInv, Answered

LEMMA SegmentNextInv == SegmentInv /\ [AnswerNext]_answer_vars => SegmentInv'
<1> SUFFICES ASSUME SegmentInv, [AnswerNext]_answer_vars PROVE SegmentInv'
  OBVIOUS
<1>1. CASE GetParameter \/ Parsed \/ Open
  BY <1>1 DEF GetParameter, Parsed, Open, SegmentInv, Answered
<1>2. CASE BadRequest \/ NotFound \/ Forbidden \/ ClientGone
  BY <1>2 DEF BadRequest, NotFound, Forbidden, Refused, ClientGone, SegmentInv, Answered
<1>3. CASE TakeSegment
  <2>1. mData' = mData /\ FileSegment' = FileSegment
    BY <1>3 DEF TakeSegment, asked, FileSegment
  <2>2. ~mData.token => start_pos' = FileSegment.start
    BY <1>3 DEF TakeSegment
  <2> QED
    BY <2>1, <2>2 DEF SegmentInv
<1>4. CASE SendHeader \/ SendBlock \/ UNCHANGED answer_vars
  <2>1. /\ mData' = mData /\ FileSegment' = FileSegment /\ start_pos' = start_pos
        /\ response' = response /\ gone' = gone
    BY <1>4 DEF SendHeader, SendBlock, answer_vars, asked, FileSegment
  <2>2. phase \in {"header", "body"} \/ (phase' = phase)
    BY <1>4 DEF SendHeader, SendBlock, answer_vars
  <2> QED
    BY <2>1, <2>2 DEF SegmentInv, Answered
<1> QED
  BY <1>1, <1>2, <1>3, <1>4 DEF AnswerNext

LEMMA SegmentInvariant == AnswerSpec => []SegmentInv
  BY SegmentInitInv, SegmentNextInv, PTL DEF AnswerSpec

LEMMA SegmentInvImplies == AnswerInv /\ SegmentInv => PreviewOnFrame
<1> SUFFICES ASSUME AnswerInv, SegmentInv, Answered, ~mData.token, FileSegment.out = "ok"
             PROVE  PreviewOnFrame
  BY DEF PreviewOnFrame
<1>1. file \in MediaType /\ config[1] \in Nat /\ config[2] \in Nat /\ start_pos \in Nat
  BY AnswerConstants DEF AnswerInv, AnswerTypeOK
<1>2. start_pos = FileSegment.start
  BY DEF SegmentInv
<1>3. CASE mData.is_aac
  <2> DEFINE audio == AacNext(file, 0)
  <2>1. FileSegment = AacSegment(file, config[1], config[2])
    BY <1>3 DEF FileSegment
  <2>2. AacNear(file, start_pos) /\ AacRight(file, audio) =>
            /\ start_pos \in Chain(file, audio)
            /\ Steady(file, audio) /\ Whole(file, audio) =>
                   (Before(file, audio, start_pos) * HeaderAt(file, audio) + config[1]) * Samples
                       >= config[1] * HeaderAt(file, audio) * Frequency
    BY <1>1, <1>2, <2>1, AacPreview
  <2> QED
    BY <1>3, <2>2 DEF PreviewOnFrame, AacNear, AacRight, Steady, Whole, Before
<1>4. CASE ~mData.is_aac
  <2> DEFINE audio == MpxSeek(file, MpxStartPos(file)).pos
             rate == MpxSeek(file, MpxStartPos(file)).rate
  <2>1. FileSegment = MpxSegment(file, config[1], config[2])
    BY <1>4 DEF FileSegment
  <2>2. start_pos # 0 /\ MpxRight(file, audio) =>
            /\ start_pos \in Chain(file, audio)
            /\ ~AheadOfRate(file, audio, rate) =>
                   Before(file, audio, start_pos) * Samples >= config[1] * Frequency
            /\ rate > 0 /\ Padded(file, audio, rate) =>
                   \A p \in Chain(file, audio) : p + HeaderAt(file, p) = start_pos =>
                       Before(file, audio, p) * Samples < config[1] * Frequency
    BY <1>1, <1>2, <2>1, MpxPreview
  <2> QED
    BY <1>4, <2>2 DEF PreviewOnFrame, MpxRight, AheadOfRate, Padded, Before
<1> QED
  BY <1>3, <1>4

(* What a listener without a token hears starts with a frame of the file,  *)
(* of any file, also with damaged or odd frames, in which a frame begins   *)
(* near the place that get_file_segment computes and nothing else looks    *)
(* like one to its searches.  The place is the configured second as far as *)
(* the frames keep to the rate that calc_bitrate reads from a header of    *)
(* mp3, or that play_time gives for frames of one length of aac.           *)
THEOREM AnswerPreviewOnFrame == AnswerSpec => []PreviewOnFrame
  BY AnswerInvariant, SegmentInvariant, SegmentInvImplies, PTL

-----------------------------------------------------------------------------
(* The processes together: what they do is what each of them does alone.   *)
LEMMA MusicgoParts == MCSpec => PidSpec /\ ServerSpec /\ AnswerSpec
<1>1. MCInit => PidInit /\ ServerInit /\ AnswerInit
  BY DEF MCInit
<1>2. [MCNext]_vars => [PidNext]_pid_vars
  BY DEF MCNext, MCPid, MCServer, MCAnswer, vars
<1>3. [MCNext]_vars => [ServerNext]_server_vars
  BY DEF MCNext, MCPid, MCServer, MCAnswer, vars
<1>4. [MCNext]_vars => [AnswerNext]_answer_vars
  BY DEF MCNext, MCPid, MCServer, MCAnswer, vars
<1> QED
  BY <1>1, <1>2, <1>3, <1>4, PTL DEF MCSpec, PidSpec, ServerSpec, AnswerSpec

(* The pid file, the children, the queue and the answer of each child keep *)
(* to the values of the code, also where a file has no frames or odd ones. *)
THEOREM MusicgoTypeOK == MCSpec => []TypeOK
<1>1. PidInv => PidTypeOK
  BY DEF PidInv
<1>2. ServerInv => ServerTypeOK
  BY DEF ServerInv
<1>3. AnswerInv => AnswerTypeOK
  BY DEF AnswerInv
<1>4. PidTypeOK /\ ServerTypeOK /\ AnswerTypeOK => TypeOK
  BY DEF TypeOK
<1> QED
  BY <1>1, <1>2, <1>3, <1>4, MusicgoParts, PidInvariant, ServerInvariant,
     AnswerInvariant, PTL
=============================================================================
