---------------------------- MODULE Logger_proofs ----------------------------
(***************************************************************************)
(* Proofs about the threads of the logger.                                 *)
(***************************************************************************)
EXTENDS MCLogger, NumberLemmas

-----------------------------------------------------------------------------
(* The threads of the clients, for any number of clients and descriptors.  *)

-----------------------------------------------------------------------------
Part == Clients \X {1, 2}
Parts(s) == {s[i] : i \in DOMAIN s}

Stations == {"none", "failed", "begin", "recv", "unpack", "answer", "add", "done"}

TypesInv ==
    /\ connected \subseteq Clients
    /\ arrived \in [Clients -> 0..2]
    /\ unread \in [Clients -> Seq(Part)]
    /\ owner \in [Fd -> Clients \cup {Nobody}]
    /\ clientfd \in Fd \cup {NoFd}
    /\ at \in [Clients -> Stations]
    /\ m \in [Clients -> Fd \cup {NoFd}]
    /\ str \in [Clients -> Seq(Part)]
    /\ answered \subseteq Clients
    /\ added \in Seq(Clients)

(* Each part that has arrived is in one place only.                        *)
PartsInv ==
    /\ \A d \in Clients : \A x \in Parts(unread[d]) : x[1] = d /\ x[2] <= arrived[d]
    /\ \A c \in Clients : \A x \in Parts(str[c]) : x[2] <= arrived[x[1]]
    /\ \A c, d \in Clients : Parts(str[c]) \cap Parts(unread[d]) = {}
    /\ \A c, d \in Clients : c # d => Parts(str[c]) \cap Parts(str[d]) = {}

(* A thread that has read something and not yet closed its descriptor has  *)
(* it all from the client that still owns this descriptor: nobody else can *)
(* have closed it, because that takes the whole message of this client.    *)
ReaderInv ==
    \A c \in Clients :
        /\ at[c] \in {"none", "failed", "begin"} => str[c] = <<>>
        /\ at[c] \in {"recv", "unpack", "answer"} /\ str[c] # <<>> =>
               /\ m[c] \in Fd
               /\ owner[m[c]] \in Clients
               /\ \A x \in Parts(str[c]) : x[1] = owner[m[c]]
        /\ at[c] \in {"answer", "add"} => Whole(str[c])

(* What AnsweredOnce says, client by client and message by message.        *)
OnceInv ==
    /\ \A t \in Through : Author(str[t]) \in answered
    /\ \A c \in answered : \E t \in Through : Author(str[t]) = c
    /\ \A t \in Through : at[t] = "done" /\ Author(str[t]) \notin BadHeaders =>
           \E i \in DOMAIN added : added[i] = Author(str[t])
    /\ \A i \in DOMAIN added :
           /\ added[i] \notin BadHeaders
           /\ \E t \in Through : at[t] = "done" /\ Author(str[t]) = added[i]
    /\ \A i, j \in DOMAIN added : added[i] = added[j] => i = j

ClientsInv == TypesInv /\ PartsInv /\ ReaderInv /\ OnceInv

LEMMA WholeHasBoth ==
    ASSUME NEW s \in Seq(Part), Whole(s)
    PROVE  /\ s # <<>> /\ Author(s) \in Clients
           /\ <<Author(s), 1>> \in Parts(s) /\ <<Author(s), 2>> \in Parts(s)
<1>1. 1 \in DOMAIN s /\ 2 \in DOMAIN s
  BY DEF Whole
<1>2. s[1] = <<Author(s), 1>> /\ s[2] = <<Author(s), 2>>
  BY DEF Whole
<1>3. s[1] \in Part /\ s[1][1] = Author(s)
  BY <1>1, <1>2 DEF Author
<1>4. Author(s) \in Clients
  BY <1>3 DEF Part
<1> QED
  BY <1>1, <1>2, <1>4 DEF Parts

(* A whole message is in the hands of one thread.                          *)
LEMMA AuthorsDiffer ==
    ASSUME TypesInv, PartsInv, NEW t \in Clients, NEW u \in Clients,
           Whole(str[t]), Whole(str[u]), Author(str[t]) = Author(str[u])
    PROVE  t = u
<1>1. str[t] \in Seq(Part) /\ str[u] \in Seq(Part)
  BY DEF TypesInv
<1>2. <<Author(str[t]), 1>> \in Parts(str[t]) \cap Parts(str[u])
  BY <1>1, WholeHasBoth
<1> QED
  BY <1>2 DEF PartsInv

(* Steps that neither answer nor add nor end a thread that has answered.   *)
LEMMA OnceStays ==
    ASSUME OnceInv, Through' = Through, UNCHANGED <<answered, added>>,
           \A t \in Through : str'[t] = str[t] /\ at'[t] = at[t]
    PROVE  OnceInv'
<1>1. \A t \in Through : Author(str'[t]) = Author(str[t])
  BY DEF Author
<1> HIDE DEF Through
<1> QED
  BY <1>1 DEF OnceInv

LEMMA ClientsInitInv == ClientsInit => ClientsInv
<1> SUFFICES ASSUME ClientsInit PROVE ClientsInv
  OBVIOUS
<1>1. TypesInv
  BY DEF ClientsInit, TypesInv, Stations
<1>2. PartsInv
  BY DEF ClientsInit, PartsInv, Parts
<1>3. ReaderInv /\ OnceInv
  BY DEF ClientsInit, ReaderInv, OnceInv, Through
<1> QED
  BY <1>1, <1>2, <1>3 DEF ClientsInv

-----------------------------------------------------------------------------
LEMMA ArriveInv ==
    ASSUME ClientsInv, NEW c \in Clients, Arrive(c)
    PROVE  ClientsInv'
<1> USE DEF ClientsInv
<1> DEFINE portion == <<c, arrived[c] + 1>>
<1>1. /\ arrived' = [arrived EXCEPT ![c] = @ + 1] /\ arrived[c] \in 0..1
      /\ unread' = [unread EXCEPT ![c] = Append(@, portion)]
      /\ UNCHANGED <<connected, owner, clientfd, at, m, str, answered, added>>
  BY DEF Arrive, TypesInv, hands, results
<1>2. portion \in Part
  BY <1>1 DEF Part
<1>3. TypesInv'
  BY <1>1, <1>2 DEF TypesInv
<1>4. \A d \in Clients : Parts(unread'[d]) \subseteq Parts(unread[d]) \cup (IF d = c THEN {portion} ELSE {})
  BY <1>1, <1>2 DEF TypesInv, Parts
<1>5. \A d \in Clients : portion \notin Parts(str[d])
  <2> SUFFICES ASSUME NEW d \in Clients, portion \in Parts(str[d]) PROVE FALSE
    OBVIOUS
  <2>1. portion[2] <= arrived[portion[1]]
    BY DEF PartsInv
  <2> QED
    BY <2>1, <1>1
<1>6. PartsInv'
  <2>1. \A d \in Clients : arrived[d] <= arrived'[d]
    <3>1. arrived'[c] = arrived[c] + 1 /\ \A d \in Clients \ {c} : arrived'[d] = arrived[d]
      BY <1>1 DEF TypesInv
    <3>2. \A d \in Clients : arrived[d] \in 0..2
      BY DEF TypesInv
    <3> QED
      BY <3>1, <3>2
  <2>2. \A d \in Clients : \A x \in Parts(unread'[d]) : x[1] = d /\ x[2] <= arrived'[d]
    <3> SUFFICES ASSUME NEW d \in Clients, NEW x \in Parts(unread'[d])
                 PROVE  x[1] = d /\ x[2] <= arrived'[d]
      OBVIOUS
    <3>1. CASE x \in Parts(unread[d])
      <4>1. x \in Part
        BY <3>1 DEF Parts, TypesInv
      <4> QED
        BY <3>1, <4>1, <1>1, <2>1 DEF PartsInv, TypesInv, Part
    <3>2. CASE d = c /\ x = portion
      BY <3>2, <1>1 DEF TypesInv
    <3> QED
      BY <3>1, <3>2, <1>4
  <2>3. \A d \in Clients : \A x \in Parts(str'[d]) : x[2] <= arrived'[x[1]]
    <3> SUFFICES ASSUME NEW d \in Clients, NEW x \in Parts(str[d])
                 PROVE  x[2] <= arrived'[x[1]]
      BY <1>1
    <3>1. x \in Part
      BY DEF Parts, TypesInv
    <3>2. x[2] <= arrived[x[1]]
      BY DEF PartsInv
    <3> QED
      BY <3>1, <3>2, <2>1, <1>1 DEF Part, TypesInv
  <2>4. \A a, d \in Clients : Parts(str'[a]) \cap Parts(unread'[d]) = {}
    <3> SUFFICES ASSUME NEW a \in Clients, NEW d \in Clients,
                        NEW x \in Parts(str[a]), x \in Parts(unread'[d])
                 PROVE  FALSE
      BY <1>1
    <3>1. x \in Parts(unread[d]) \/ x = portion
      BY <1>4
    <3> QED
      BY <3>1, <1>5 DEF PartsInv
  <2>5. \A a, d \in Clients : a # d => Parts(str'[a]) \cap Parts(str'[d]) = {}
    BY <1>1 DEF PartsInv
  <2> QED
    BY <2>2, <2>3, <2>4, <2>5 DEF PartsInv
<1>7. ReaderInv'
  BY <1>1 DEF ReaderInv
<1>8. OnceInv'
  BY <1>1, OnceStays DEF Through
<1> QED
  BY <1>3, <1>6, <1>7, <1>8

(* A descriptor that is free is in nobody's hands who has read something.  *)
LEMMA AcceptInv ==
    ASSUME ClientsInv, NEW c \in Clients, Accept(c) \/ NoThread(c) \/ AcceptFails
    PROVE  ClientsInv'
<1> USE ClientsConstants DEF ClientsInv
<1>1. CASE AcceptFails
  <2>1. clientfd' = NoFd /\ UNCHANGED <<results, hands, peers, owner, at>>
    BY <1>1 DEF AcceptFails
  <2> QED
    BY <2>1 DEF results, hands, peers, TypesInv, PartsInv, ReaderInv, OnceInv, Through
<1>2. CASE Accept(c) \/ NoThread(c)
  <2>1. /\ at[c] = "none"
        /\ at' = [at EXCEPT ![c] = "begin"] \/ at' = [at EXCEPT ![c] = "failed"]
        /\ owner' = [owner EXCEPT ![clientfd'] = c]
        /\ UNCHANGED <<connected, arrived, unread, m, str, answered, added>>
    BY <1>2 DEF Accept, NoThread, results, hands, peers
  <2>2. clientfd' \in Free
    BY <1>2, MinIsLeast DEF Accept, NoThread, Free
  <2>3. clientfd' \in Fd /\ owner[clientfd'] = Nobody
    BY <2>2 DEF Free
  <2>4. TypesInv' /\ PartsInv'
    BY <2>1, <2>3 DEF TypesInv, PartsInv, Stations
  <2>5. \A d \in Clients : m[d] \in Fd /\ owner[m[d]] \in Clients => owner'[m[d]] = owner[m[d]]
    BY <2>1, <2>3 DEF TypesInv
  <2>6. ReaderInv'
    BY <2>1, <2>5 DEF TypesInv, ReaderInv
  <2>7. \A d \in Clients : d # c => at'[d] = at[d]
    BY <2>1 DEF TypesInv
  <2>8. at'[c] \in {"begin", "failed"}
    BY <2>1 DEF TypesInv
  <2>9. Through' = Through /\ \A t \in Through : at'[t] = at[t]
    BY <2>1, <2>7, <2>8 DEF Through
  <2>10. OnceInv'
    BY <2>1, <2>9, OnceStays
  <2> QED
    BY <2>4, <2>6, <2>10
<1> QED
  BY <1>1, <1>2

LEMMA RecvInv ==
    ASSUME ClientsInv, NEW c \in Clients, Recv(c)
    PROVE  ClientsInv'
<1> USE DEF ClientsInv
<1> DEFINE p == owner[m[c]]
<1>1. /\ m[c] \in Fd /\ p \in Clients /\ Waiting(c) = unread[p] /\ Peer(c) = p
  BY DEF Recv, Waiting, Peer, TypesInv
<1>2. /\ at[c] = "recv" /\ at' = at
      /\ str' = [str EXCEPT ![c] = @ \o unread[p]]
      /\ unread' = [unread EXCEPT ![p] = <<>>]
      /\ UNCHANGED <<connected, arrived, owner, clientfd, m, answered, added>>
  BY <1>1 DEF Recv, Moves, results, TypesInv
<1>3. TypesInv'
  BY <1>1, <1>2 DEF TypesInv
<1>4. \A d \in Clients : Parts(unread'[d]) = IF d = p THEN {} ELSE Parts(unread[d])
  BY <1>1, <1>2 DEF TypesInv, Parts
<1>5. \A d \in Clients :
          Parts(str'[d]) \subseteq Parts(str[d]) \cup (IF d = c THEN Parts(unread[p]) ELSE {})
  <2>1. ASSUME NEW s \in Seq(Part), NEW t \in Seq(Part)
        PROVE  Parts(s \o t) \subseteq Parts(s) \cup Parts(t)
    BY DEF Parts
  <2> QED
    BY <1>1, <1>2, <2>1 DEF TypesInv
<1>6. \A d \in Clients : d # p => Parts(unread[p]) \cap Parts(unread[d]) = {}
  BY <1>1 DEF PartsInv
<1>7. PartsInv'
  <2>1. \A d \in Clients : \A x \in Parts(unread'[d]) : x[1] = d /\ x[2] <= arrived'[d]
    BY <1>2, <1>4 DEF PartsInv
  <2>2. \A d \in Clients : \A x \in Parts(str'[d]) : x[2] <= arrived'[x[1]]
    BY <1>1, <1>2, <1>5 DEF PartsInv
  <2>3. \A a, d \in Clients : Parts(str'[a]) \cap Parts(unread'[d]) = {}
    BY <1>1, <1>4, <1>5, <1>6 DEF PartsInv
  <2>4. \A a, d \in Clients : a # d => Parts(str'[a]) \cap Parts(str'[d]) = {}
    BY <1>1, <1>5 DEF PartsInv
  <2> QED
    BY <2>1, <2>2, <2>3, <2>4 DEF PartsInv
<1>8. ReaderInv'
  <2>1. \A x \in Parts(str'[c]) : x[1] = p
    <3> SUFFICES ASSUME NEW x \in Parts(str'[c]) PROVE x[1] = p
      OBVIOUS
    <3>1. CASE x \in Parts(str[c])
      <4>1. str[c] # <<>>
        BY <3>1 DEF Parts
      <4> QED
        BY <1>2, <3>1, <4>1 DEF ReaderInv
    <3>2. CASE x \in Parts(unread[p])
      BY <1>1, <3>2 DEF PartsInv
    <3> QED
      BY <1>5, <3>1, <3>2
  <2>2. \A d \in Clients : d # c => str'[d] = str[d]
    BY <1>2 DEF TypesInv
  <2> QED
    BY <1>1, <1>2, <2>1, <2>2 DEF ReaderInv
<1>9. OnceInv'
  <2>1. \A d \in Clients : d # c => str'[d] = str[d]
    BY <1>2 DEF TypesInv
  <2>2. Through' = Through /\ \A t \in Through : str'[t] = str[t]
    BY <1>2, <2>1 DEF Through
  <2> QED
    BY <1>2, <2>2, OnceStays
<1> QED
  BY <1>3, <1>7, <1>8, <1>9

(* Steps of a thread that touch neither messages nor descriptors.          *)
LEMMA StationInv ==
    ASSUME ClientsInv, NEW c \in Clients,
           ReadFd(c) \/ RecvEnds(c) \/ Unpack(c) \/ UnpackThrows(c)
    PROVE  ClientsInv'
<1> USE DEF ClientsInv
<1>1. UNCHANGED <<connected, arrived, unread, owner, clientfd, str, answered, added>>
  BY DEF ReadFd, RecvEnds, Unpack, UnpackThrows, peers, hands, results
<1>2. ReadFd(c) => TypesInv' /\ PartsInv' /\ ReaderInv'
  <2> SUFFICES ASSUME ReadFd(c) PROVE TypesInv' /\ PartsInv' /\ ReaderInv'
    OBVIOUS
  <2>1. /\ at[c] = "begin" /\ at' = [at EXCEPT ![c] = "recv"]
        /\ m' = [m EXCEPT ![c] = clientfd]
    BY DEF ReadFd, Moves
  <2> QED
    BY <1>1, <2>1 DEF TypesInv, PartsInv, ReaderInv, Stations
<1>3. RecvEnds(c) \/ Unpack(c) \/ UnpackThrows(c) => TypesInv' /\ PartsInv' /\ ReaderInv'
  <2> SUFFICES ASSUME RecvEnds(c) \/ Unpack(c) \/ UnpackThrows(c)
               PROVE  TypesInv' /\ PartsInv' /\ ReaderInv'
    OBVIOUS
  <2>1. /\ UNCHANGED m
        /\ \/ at[c] = "recv" /\ at' = [at EXCEPT ![c] = "unpack"]
           \/ at[c] = "unpack" /\ at' = [at EXCEPT ![c] = "answer"] /\ Whole(str[c])
           \/ at[c] = "unpack" /\ at' = [at EXCEPT ![c] = "done"]
    BY DEF RecvEnds, Unpack, UnpackThrows, Moves, hands
  <2>2. TypesInv' /\ PartsInv'
    BY <1>1, <2>1 DEF TypesInv, PartsInv, Stations
  <2>3. ReaderInv'
    BY <1>1, <2>1 DEF TypesInv, ReaderInv
  <2> QED
    BY <2>2, <2>3
<1>4. OnceInv'
  <2>1. /\ at[c] \in {"begin", "recv", "unpack"}
        /\ \/ \E b \in {"recv", "unpack", "answer"} : at' = [at EXCEPT ![c] = b]
           \/ at' = [at EXCEPT ![c] = "done"] /\ ~Whole(str[c])
    BY DEF ReadFd, RecvEnds, Unpack, UnpackThrows, Moves
  <2>2. \A d \in Clients : d # c => at'[d] = at[d]
    BY <2>1 DEF TypesInv
  <2>3. at'[c] \in {"recv", "unpack", "answer"} \/ ~Whole(str[c])
    BY <2>1 DEF TypesInv
  <2>4. Through' = Through /\ \A t \in Through : at'[t] = at[t]
    BY <1>1, <2>1, <2>2, <2>3 DEF Through
  <2> QED
    BY <1>1, <2>4, OnceStays
<1> QED
  BY <1>2, <1>3, <1>4

LEMMA AnswerInv ==
    ASSUME ClientsInv, NEW c \in Clients, Answer(c)
    PROVE  ClientsInv'
<1> USE DEF ClientsInv
<1>1. /\ at[c] = "answer" /\ at' = [at EXCEPT ![c] = "add"]
      /\ UNCHANGED <<connected, arrived, unread, clientfd, m, str, added>>
  BY DEF Answer, Moves, peers, hands
<1> DEFINE a == Author(str[c])
<1>2. /\ str[c] # <<>> /\ a \in Clients /\ Whole(str[c])
      /\ <<a, 1>> \in Parts(str[c]) /\ <<a, 2>> \in Parts(str[c])
  BY <1>1, WholeHasBoth DEF ReaderInv, TypesInv
<1>3. m[c] \in Fd /\ owner[m[c]] = a
  <2>1. m[c] \in Fd /\ <<a, 1>>[1] = owner[m[c]]
    BY <1>1, <1>2 DEF ReaderInv
  <2> QED
    BY <2>1
<1>4. /\ answered' = answered \cup {a}
      /\ owner' = [owner EXCEPT ![m[c]] = Nobody]
  BY <1>2, <1>3, ClientsConstants DEF Answer, Peer, Closed
<1>5. \A d \in Clients :
          d # c /\ at[d] \in {"recv", "unpack", "answer"} /\ str[d] # <<>> => m[d] # m[c]
  <2> SUFFICES ASSUME NEW d \in Clients, d # c, str[d] # <<>>, m[d] = m[c],
                      at[d] \in {"recv", "unpack", "answer"}
               PROVE  FALSE
    OBVIOUS
  <2>1. str[d][1] \in Parts(str[d]) /\ str[d][1] \in Part
    BY DEF Parts, TypesInv
  <2>2. str[d][1][1] = a
    BY <1>3, <2>1 DEF ReaderInv
  <2>3. str[d][1] \in {<<a, 1>>, <<a, 2>>}
    BY <2>1, <2>2 DEF Part
  <2> QED
    BY <1>2, <2>1, <2>3 DEF PartsInv
<1>6. TypesInv' /\ PartsInv'
  BY <1>1, <1>2, <1>3, <1>4 DEF TypesInv, PartsInv, Stations
<1>7. ReaderInv'
  BY <1>1, <1>2, <1>3, <1>4, <1>5 DEF TypesInv, ReaderInv
<1>8. Through' = Through \cup {c} /\ c \notin Through
  <2>1. at'[c] = "add" /\ \A d \in Clients : d # c => at'[d] = at[d]
    BY <1>1 DEF TypesInv
  <2> QED
    BY <1>1, <1>2, <2>1 DEF Through
<1>9. OnceInv'
  <2>1. at'[c] = "add" /\ \A t \in Through : at'[t] = at[t]
    BY <1>1, <1>8 DEF TypesInv, Through
  <2>2. \A t \in Clients : Author(str'[t]) = Author(str[t])
    BY <1>1 DEF Author
  <2>3. Through \subseteq Clients
    BY DEF Through
  <2> QED
    BY <1>1, <1>4, <1>8, <2>1, <2>2, <2>3 DEF OnceInv
<1> QED
  BY <1>6, <1>7, <1>9

LEMMA AddInv ==
    ASSUME ClientsInv, NEW c \in Clients, Add(c)
    PROVE  ClientsInv'
<1> USE DEF ClientsInv
<1> DEFINE a == Author(str[c])
<1>1. /\ at[c] = "add" /\ at' = [at EXCEPT ![c] = "done"]
      /\ added' = IF a \in BadHeaders THEN added ELSE Append(added, a)
      /\ UNCHANGED <<connected, arrived, unread, owner, clientfd, m, str, answered>>
  BY DEF Add, Moves, peers, hands
<1>2. a \in Clients /\ Whole(str[c])
  BY <1>1, WholeHasBoth DEF ReaderInv, TypesInv
<1>3. added \in Seq(Clients) /\ added' \in Seq(Clients)
  BY <1>1, <1>2 DEF TypesInv
<1>4. TypesInv' /\ PartsInv' /\ ReaderInv'
  BY <1>1, <1>2, <1>3 DEF TypesInv, PartsInv, ReaderInv, Stations
<1>5. at'[c] = "done" /\ \A d \in Clients : d # c => at'[d] = at[d]
  BY <1>1 DEF TypesInv
<1>6. Through' = Through /\ c \in Through /\ Through \subseteq Clients
  BY <1>1, <1>2, <1>5 DEF Through
<1>7. \A t \in Clients : Author(str'[t]) = Author(str[t])
  BY <1>1 DEF Author
<1>8. \A t \in Through : Author(str[t]) = a => t = c
  BY <1>2, <1>6, AuthorsDiffer DEF Through
<1> HIDE DEF a
<1>9. CASE a \in BadHeaders
  <2>1. added' = added
    BY <1>1, <1>9
  <2>2. \A t \in Through : at'[t] = "done" /\ Author(str[t]) \notin BadHeaders =>
            at[t] = "done"
    BY <1>5, <1>6, <1>9 DEF a
  <2>3. \A t \in Through : at[t] = "done" => at'[t] = "done"
    BY <1>5, <1>6
  <2>4. OnceInv'
    BY <1>1, <1>6, <1>7, <2>1, <2>2, <2>3 DEF OnceInv
  <2> QED
    BY <1>4, <2>4
<1>10. CASE a \notin BadHeaders
  <2>1. /\ DOMAIN added' = 1..Len(added) + 1 /\ DOMAIN added = 1..Len(added)
        /\ Len(added) \in Nat
        /\ added'[Len(added) + 1] = a
        /\ \A i \in DOMAIN added : added'[i] = added[i]
    BY <1>1, <1>2, <1>3, <1>10
  <2>2. \A i \in DOMAIN added : added[i] # a
    <3> SUFFICES ASSUME NEW i \in DOMAIN added, added[i] = a PROVE FALSE
      OBVIOUS
    <3>1. PICK t \in Through : at[t] = "done" /\ Author(str[t]) = a
      BY DEF OnceInv
    <3> QED
      BY <1>1, <1>8, <3>1
  <2>3. \A t \in Through : at'[t] = "done" /\ Author(str'[t]) \notin BadHeaders =>
            \E i \in DOMAIN added' : added'[i] = Author(str'[t])
    <3> SUFFICES ASSUME NEW t \in Through, at'[t] = "done",
                        Author(str[t]) \notin BadHeaders
                 PROVE  \E i \in DOMAIN added' : added'[i] = Author(str[t])
      BY <1>6, <1>7
    <3>1. CASE t = c
      BY <2>1, <3>1 DEF a
    <3>2. CASE t # c
      <4>1. at[t] = "done"
        BY <1>5, <1>6, <3>2
      <4>2. PICK i \in DOMAIN added : added[i] = Author(str[t])
        BY <4>1 DEF OnceInv
      <4> QED
        BY <2>1, <4>2
    <3> QED
      BY <3>1, <3>2
  <2>4. \A i \in DOMAIN added' :
            /\ added'[i] \notin BadHeaders
            /\ \E t \in Through : at'[t] = "done" /\ Author(str'[t]) = added'[i]
    <3> SUFFICES ASSUME NEW i \in DOMAIN added'
                 PROVE  /\ added'[i] \notin BadHeaders
                        /\ \E t \in Through : at'[t] = "done" /\ Author(str[t]) = added'[i]
      BY <1>6, <1>7
    <3>1. CASE i = Len(added) + 1
      BY <1>5, <1>6, <1>10, <2>1, <3>1 DEF a
    <3>2. CASE i \in DOMAIN added
      <4>1. /\ added[i] \notin BadHeaders
            /\ \E t \in Through : at[t] = "done" /\ Author(str[t]) = added[i]
        BY <3>2 DEF OnceInv
      <4>2. \A t \in Through : at[t] = "done" => at'[t] = "done"
        BY <1>5, <1>6
      <4> QED
        BY <2>1, <3>2, <4>1, <4>2
    <3> QED
      BY <2>1, <3>1, <3>2
  <2>5. \A i, j \in DOMAIN added' : added'[i] = added'[j] => i = j
    BY <2>1, <2>2 DEF OnceInv
  <2>6. OnceInv'
    BY <1>1, <1>6, <1>7, <2>3, <2>4, <2>5 DEF OnceInv
  <2> QED
    BY <1>4, <2>6
<1> QED
  BY <1>9, <1>10

LEMMA ClientsNextInv == ClientsInv /\ [ClientsNext]_client_vars => ClientsInv'
<1> SUFFICES ASSUME ClientsInv, [ClientsNext]_client_vars PROVE ClientsInv'
  OBVIOUS
<1>1. CASE UNCHANGED client_vars
  BY <1>1 DEF client_vars, peers, hands, results, ClientsInv, TypesInv, PartsInv,
              ReaderInv, OnceInv, Through
<1>2. ASSUME NEW c \in Clients, Connect(c) PROVE ClientsInv'
  BY <1>2 DEF Connect, peers, hands, results, ClientsInv, TypesInv, PartsInv,
              ReaderInv, OnceInv, Through
<1>3. CASE AcceptFails
  <2>1. \E c \in connected : at[c] = "none"
    BY <1>3 DEF AcceptFails
  <2> QED
    BY <1>3, <2>1, AcceptInv DEF ClientsInv, TypesInv
<1> QED
  BY <1>1, <1>2, <1>3, ArriveInv, AcceptInv, RecvInv, StationInv, AnswerInv, AddInv
     DEF ClientsNext, ClientThread

THEOREM ClientsInvariant == ClientsSpec => []ClientsInv
  BY ClientsInitInv, ClientsNextInv, PTL DEF ClientsSpec

-----------------------------------------------------------------------------
(* Whatever descriptors the threads take from the shared variable of       *)
(* do_accept, a thread that answers does so to the client whose message it *)
(* has read, and gives that message to AddMessage once, if its headers are *)
(* not wrong.                                                              *)
THEOREM AnswersOnce == ClientsSpec => []AnsweredOnce
<1>1. ClientsInv => AnsweredOnce
  <2> SUFFICES ASSUME ClientsInv PROVE AnsweredOnce
    OBVIOUS
  <2>1. \A t, u \in Through : Author(str[t]) = Author(str[u]) => t = u
    BY AuthorsDiffer DEF ClientsInv, Through
  <2>2. answered = AuthorsOf(Through)
    BY DEF ClientsInv, OnceInv, AuthorsOf
  <2>3. {added[i] : i \in DOMAIN added} =
            AuthorsOf({t \in Through : at[t] = "done"}) \ BadHeaders
    BY DEF ClientsInv, OnceInv, AuthorsOf
  <2> QED
    BY <2>1, <2>2, <2>3 DEF AnsweredOnce, ClientsInv, OnceInv
<1> QED
  BY <1>1, ClientsInvariant, PTL

-----------------------------------------------------------------------------
(* The error monitor, for any domains, messages, limits and times.         *)

(* Sizes are numbers below the longest. *)
LEMMA SizeType ==
    ASSUME NEW msg \in Message
    PROVE  msg.size \in Nat /\ msg.size =< MaxSize /\ MaxSize \in Nat
<1>1. msg.size \in Sizes
  BY DEF Message
<1>2. MaxSize \in Nat /\ Sizes \subseteq 0..MaxSize
  BY MonitorConstants, Zenon DEF MonitorConstants
<1>3. msg.size \in 0..MaxSize
  BY <1>1, <1>2, Zenon
<1> QED
  BY <1>2, <1>3

(* The volume of a box is what its messages sum up to.                     *)
LEMMA VolumeSums ==
    ASSUME NEW box \in Seq(Message)
    PROVE  \E u \in [0..Len(box) -> Nat] :
               /\ u[0] = 0
               /\ \A n \in 1..Len(box) : u[n] = u[n - 1] + box[n].size
               /\ Volume(box) = u[Len(box)]
<1> DEFINE N == Len(box)
           w == [n \in 1..N |-> box[n].size]
           S(u) == u = [n \in 0..N |-> IF n = 0 THEN 0 ELSE u[n - 1] + box[n].size]
<1>1. N \in Nat /\ w \in [1..N -> Nat]
  <2>1. \A n \in 1..N : box[n] \in Message
    OBVIOUS
  <2>2. \A n \in 1..N : box[n].size \in Nat
    BY <2>1, SizeType
  <2> QED
    BY <2>2
<1>2. ASSUME NEW u
      PROVE  S(u) <=> u = [n \in 0..N |-> IF n = 0 THEN 0 ELSE u[n - 1] + w[n]]
  <2>1. \A n \in 0..N : n # 0 => w[n] = box[n].size
    OBVIOUS
  <2> QED
    BY <2>1
<1>3. \E u : S(u)
  <2> HIDE DEF w, N, S
  <2> QED
    BY <1>1, <1>2, SumsExist
<1>4. PICK v : S(v) /\ Volume(box) = v[N]
  <2>1. Volume(box) = (CHOOSE v : S(v))[N]
    BY DEF Volume
  <2> HIDE DEF S
  <2> QED
    BY <1>3, <2>1, Zenon
<1>5. /\ v \in [0..N -> Nat] /\ v[0] = 0
      /\ \A n \in 1..N : v[n] = v[n - 1] + w[n]
  <2> HIDE DEF w, N, S
  <2> QED
    BY <1>1, <1>2, <1>4, SumsAreNumbers
<1> QED
  BY <1>4, <1>5

LEMMA VolumeType == ASSUME NEW box \in Seq(Message) PROVE Volume(box) \in Nat
<1> DEFINE N == Len(box)
<1>1. PICK u \in [0..N -> Nat] : Volume(box) = u[N]
  BY VolumeSums
<1>2. N \in 0..N
  OBVIOUS
<1> HIDE DEF N
<1> QED
  BY <1>1, <1>2

LEMMA VolumeOfNone == Volume(<<>>) = 0
<1>1. <<>> \in Seq(Message) /\ Len(<<>>) = 0
  OBVIOUS
<1> QED
  BY <1>1, VolumeSums

LEMMA VolumeOfAppend ==
    ASSUME NEW box \in Seq(Message), NEW msg \in Message
    PROVE  /\ Volume(box) \in Nat
           /\ Volume(Append(box, msg)) = Volume(box) + msg.size
<1> DEFINE longer == Append(box, msg)
           N == Len(box)
<1>1. /\ N \in Nat /\ longer \in Seq(Message) /\ Len(longer) = N + 1 /\ longer[N + 1] = msg
      /\ \A n \in 1..N : longer[n] = box[n]
  OBVIOUS
<1>2. PICK u \in [0..N -> Nat] : /\ u[0] = 0 /\ Volume(box) = u[N]
                                 /\ \A n \in 1..N : u[n] = u[n - 1] + box[n].size
  BY VolumeSums
<1> HIDE DEF longer, N
<1>3. PICK v \in [0..N + 1 -> Nat] :
          /\ v[0] = 0 /\ Volume(longer) = v[N + 1]
          /\ \A n \in 1..N + 1 : v[n] = v[n - 1] + longer[n].size
  <2> DEFINE L == Len(longer)
  <2>1. \E v \in [0..L -> Nat] :
            /\ v[0] = 0
            /\ \A n \in 1..L : v[n] = v[n - 1] + longer[n].size
            /\ Volume(longer) = v[L]
    BY <1>1, VolumeSums
  <2>2. L = N + 1
    BY <1>1
  <2> HIDE DEF L
  <2> QED
    BY <2>1, <2>2
<1> DEFINE begun == [n \in 0..N |-> v[n]]
<1>4. begun \in [0..N -> Int] /\ u \in [0..N -> Int]
  BY <1>1, <1>2, <1>3
<1>5. \A n \in 1..N : begun[n] - begun[n - 1] = u[n] - u[n - 1]
  <2> SUFFICES ASSUME NEW n \in 1..N PROVE begun[n] - begun[n - 1] = u[n] - u[n - 1]
    OBVIOUS
  <2>1. n \in 0..N /\ n - 1 \in 0..N /\ n \in 1..N + 1
    BY <1>1
  <2>2. begun[n] = v[n - 1] + box[n].size /\ begun[n - 1] = v[n - 1]
    BY <1>1, <1>3, <2>1
  <2>3. u[n] = u[n - 1] + box[n].size
    BY <1>2
  <2>4. begun[n] \in Int /\ begun[n - 1] \in Int /\ u[n] \in Int /\ u[n - 1] \in Int
    BY <1>4, <2>1
  <2>5. box[n].size \in Nat
    BY <1>1, SizeType DEF N
  <2> HIDE DEF begun
  <2> QED
    BY <2>2, <2>3, <2>4, <2>5
<1>6. begun[N] - u[N] = begun[0] - u[0]
  <2> HIDE DEF begun
  <2> QED
    BY <1>1, <1>4, <1>5, SameSteps
<1>7. v[N] = u[N]
  <2>1. 0 \in 0..N /\ N \in 0..N
    BY <1>1
  <2>2. begun[0] = 0 /\ begun[N] = v[N] /\ begun[N] \in Int /\ u[N] \in Int
    BY <1>3, <1>4, <2>1
  <2> HIDE DEF begun
  <2> QED
    BY <1>2, <1>6, <2>2
<1>8. v[N + 1] = v[N] + msg.size
  BY <1>1, <1>3
<1>9. u[N] \in Nat
  BY <1>1, <1>2
<1> QED
  BY <1>2, <1>3, <1>7, <1>8, <1>9 DEF longer

LEMMA VolumeOfTail ==
    ASSUME NEW box \in Seq(Message), box # <<>>
    PROVE  /\ Tail(box) \in Seq(Message)
           /\ Volume(box) = Head(box).size + Volume(Tail(box))
<1> DEFINE rest == Tail(box)
           N == Len(box)
<1>1. /\ N \in Nat \ {0} /\ rest \in Seq(Message) /\ Len(rest) = N - 1 /\ Head(box) = box[1]
      /\ \A n \in 1..N - 1 : rest[n] = box[n + 1]
  OBVIOUS
<1>2. PICK u \in [0..N -> Nat] : /\ u[0] = 0 /\ Volume(box) = u[N]
                                 /\ \A n \in 1..N : u[n] = u[n - 1] + box[n].size
  BY VolumeSums
<1> HIDE DEF rest, N
<1> DEFINE M == N - 1
<1>3. PICK v \in [0..M -> Nat] :
          /\ v[0] = 0 /\ Volume(rest) = v[M]
          /\ \A n \in 1..M : v[n] = v[n - 1] + rest[n].size
  <2> DEFINE L == Len(rest)
  <2>1. \E v \in [0..L -> Nat] :
            /\ v[0] = 0
            /\ \A n \in 1..L : v[n] = v[n - 1] + rest[n].size
            /\ Volume(rest) = v[L]
    BY <1>1, VolumeSums
  <2>2. L = M
    BY <1>1
  <2> HIDE DEF L, M
  <2> QED
    BY <2>1, <2>2
<1> DEFINE later == [n \in 0..M |-> u[n + 1]]
<1>4. M \in Nat /\ later \in [0..M -> Int] /\ v \in [0..M -> Int]
  <2>1. \A n \in 0..M : n + 1 \in 0..N
    BY <1>1
  <2> QED
    BY <1>1, <1>2, <1>3, <2>1
<1>5. \A n \in 1..M : later[n] - later[n - 1] = v[n] - v[n - 1]
  <2> SUFFICES ASSUME NEW n \in 1..M PROVE later[n] - later[n - 1] = v[n] - v[n - 1]
    OBVIOUS
  <2>1. n \in 0..M /\ n - 1 \in 0..M /\ n + 1 \in 1..N
    BY <1>1
  <2>2. later[n] = u[n + 1] /\ later[n - 1] = u[n - 1 + 1]
    BY <2>1
  <2>6. u[n + 1] = u[n + 1 - 1] + box[n + 1].size
    BY <1>2, <2>1
  <2>7. n + 1 - 1 = n /\ n - 1 + 1 = n
    OBVIOUS
  <2>8. later[n] = u[n] + box[n + 1].size /\ later[n - 1] = u[n]
    BY <2>2, <2>6, <2>7
  <2>3. v[n] = v[n - 1] + box[n + 1].size
    BY <1>1, <1>3
  <2>4. later[n] \in Int /\ later[n - 1] \in Int /\ v[n] \in Int /\ v[n - 1] \in Int
    BY <1>4, <2>1
  <2>5. box[n + 1].size \in Nat
    BY <1>1, <2>1, SizeType DEF N
  <2> HIDE DEF later, M
  <2> QED
    BY <2>3, <2>4, <2>5, <2>8
<1>6. later[M] - v[M] = later[0] - v[0]
  <2> HIDE DEF later, M
  <2> QED
    BY <1>4, <1>5, SameSteps
<1>7. u[N] = u[1] + v[M]
  <2>1. 0 \in 0..M /\ M \in 0..M /\ M + 1 = N /\ 1 \in 0..N
    BY <1>1
  <2>3. later[0] = u[0 + 1] /\ later[M] = u[M + 1]
    BY <2>1
  <2>2. later[0] = u[1] /\ later[M] = u[N] /\ later[M] \in Int /\ v[M] \in Int /\ u[1] \in Int
    <3> HIDE DEF later, M
    <3> QED
      BY <1>2, <1>4, <2>1, <2>3
  <2> HIDE DEF later
  <2> QED
    BY <1>3, <1>6, <2>2
<1>8. u[1] = box[1].size
  <2>1. 1 \in 1..N /\ u[1] = u[0] + box[1].size
    BY <1>1, <1>2
  <2>2. box[1].size \in Nat
    BY <1>1, <2>1, SizeType DEF N
  <2> QED
    BY <1>2, <2>1, <2>2
<1> QED
  BY <1>1, <1>2, <1>3, <1>7, <1>8 DEF rest

(* What is kept of the domain d: a box of messages about it, in the order  *)
(* of the errors and older than the one under way; the time of its last    *)
(* mail; and until the first mail all messages that were counted, unless   *)
(* the volume was too small for them.                                      *)
BoxInv(d, info) ==
    LET box == info.msg_box
    IN  /\ info.msg_box_size = Volume(box)
        /\ \A i \in DOMAIN box : /\ box[i].domain = d /\ box[i].id =< reported
                                 /\ i > 1 => box[i - 1].id < box[i].id
                                 /\ mess # NoMess => box[i].id < mess.id

Holds(n, box) == Len(box) >= n \/ Volume(box) + MaxSize > m_email_volume

FirstInv(info) ==
    info.m_first_owerflow =>
        /\ info.m_counter \in 1..m_error_counter /\ ~info.m_overflow
        /\ now - info.tm >= TenYears
        /\ Holds(info.m_counter, info.msg_box)

LastMailInv(d, mail) ==
    mail.domain = d =>
        IF d \in DOMAIN domain /\ ~domain[d].m_first_owerflow
        THEN mail.tm =< domain[d].tm
        ELSE now - mail.tm >= m_reset_error_timeout

Mail == [domain : Domains, tm : Int, box : Seq(Message), first : BOOLEAN]

MonitorInv ==
    /\ MonitorTypeOK
    /\ mails \in Seq(Mail)
    /\ \A d \in DOMAIN domain : BoxInv(d, domain[d]) /\ FirstInv(domain[d])
    /\ \A d \in Domains : \A i \in DOMAIN mails : LastMailInv(d, mails[i])
    /\ MailsApart
    /\ FirstMailIsFull

LEMMA MonitorInitInv == MonitorInit => MonitorInv
<1> SUFFICES ASSUME MonitorInit PROVE MonitorInv
  OBVIOUS
<1>1. /\ mails = <<>> /\ domain = <<>> /\ DOMAIN domain = {} /\ DOMAIN mails = {}
      /\ now = 0 /\ waiting_since = 0 /\ reported = 0 /\ mess = NoMess
  BY DEF MonitorInit
<1>2. MaxTime \in Nat /\ MaxErrors \in Nat
  BY MonitorConstants
<1>3. MonitorTypeOK
  <2>1. domain \in [DOMAIN domain -> Info]
    BY <1>1
  <2>2. mess.id = 0
    BY <1>1 DEF NoMess
  <2> QED
    BY <1>1, <1>2, <2>1, <2>2 DEF MonitorTypeOK
<1>4. mails \in Seq(Mail)
  BY <1>1
<1>5. MailsApart /\ FirstMailIsFull
  BY <1>1 DEF MailsApart, FirstMailIsFull
<1> QED
  BY <1>1, <1>3, <1>4, <1>5 DEF MonitorInv

(* counter_overflow changes the counter and the mark of the overflow.      *)
LEMMA CountedFields ==
    ASSUME NEW info \in Info, info.m_counter \in 0..m_error_counter
    PROVE  /\ Counted(info) \in Info
           /\ Counted(info).m_counter = Value(info)
           /\ Counted(info).m_counter \in 0..m_error_counter - 1
           /\ Counted(info).m_overflow = (Value(info) = 0)
           /\ Counted(info).tm = info.tm
           /\ Counted(info).m_first_owerflow = info.m_first_owerflow
           /\ Counted(info).msg_box = info.msg_box
           /\ Counted(info).msg_box_size = info.msg_box_size
<1>1. m_error_counter \in Nat \ {0}
  BY MonitorConstants
<1>2. Value(info) \in 0..m_error_counter - 1
  BY <1>1 DEF Value
<1>3. Value(info) \in Nat /\ (Value(info) = 0) \in BOOLEAN
  BY <1>1, <1>2
<1> HIDE DEF Value
<1> QED
  BY <1>2, <1>3 DEF Counted, Info

(* Room is made by the removal of the oldest message, or not at all.       *)
LEMMA RoomFields ==
    ASSUME NEW info \in Info, NEW size \in Nat, info.msg_box_size = Volume(info.msg_box)
    PROVE  LET room == Room(info, size)
           IN  /\ room \in Info
               /\ room.m_counter = info.m_counter /\ room.m_overflow = info.m_overflow
               /\ room.tm = info.tm /\ room.m_first_owerflow = info.m_first_owerflow
               /\ room.msg_box_size = Volume(room.msg_box)
               /\ \/ room = info
                  \/ /\ size + Volume(info.msg_box) > m_email_volume
                     /\ info.msg_box # <<>> /\ room.msg_box = Tail(info.msg_box)
<1> DEFINE box == info.msg_box
           room == Room(info, size)
<1>1. CASE size + info.msg_box_size > m_email_volume /\ box # <<>>
  <2>1. box \in Seq(Message) /\ info.msg_box_size \in Nat
    BY DEF Info
  <2>2. Tail(box) \in Seq(Message) /\ Volume(box) = Head(box).size + Volume(Tail(box))
    BY <1>1, <2>1, VolumeOfTail
  <2>3. Volume(Tail(box)) \in Nat
    BY <2>2, VolumeType
  <2>4. Head(box) \in Message
    BY <1>1, <2>1
  <2>5. Head(box).size \in Nat
    BY <2>4, SizeType
  <2>6. info.msg_box_size - Head(box).size = Volume(Tail(box))
    BY <2>1, <2>2, <2>3, <2>5
  <2>7. room = [info EXCEPT !.msg_box = Tail(box), !.msg_box_size = Volume(Tail(box))]
    BY <1>1, <2>6 DEF Room
  <2> HIDE DEF room
  <2>8. /\ room \in Info /\ room.msg_box = Tail(box) /\ room.msg_box_size = Volume(Tail(box))
        /\ room.m_counter = info.m_counter /\ room.m_overflow = info.m_overflow
        /\ room.tm = info.tm /\ room.m_first_owerflow = info.m_first_owerflow
    BY <2>2, <2>3, <2>7 DEF Info
  <2> QED
    BY <1>1, <2>8 DEF room
<1>2. CASE ~ (size + info.msg_box_size > m_email_volume /\ box # <<>>)
  BY <1>2 DEF Room
<1> QED
  BY <1>1, <1>2

(* The message under way is put behind the others.                         *)
LEMMA AddFields ==
    ASSUME MonitorTypeOK, mess # NoMess, NEW d, mess.domain = d,
           NEW info \in Info, BoxInv(d, info)
    PROVE  LET room == Room(info, mess.size)
               box  == Append(room.msg_box, mess)
           IN  /\ box \in Seq(Message)
               /\ Volume(box) = room.msg_box_size + mess.size
               /\ \A i \in DOMAIN box : /\ box[i].domain = d /\ box[i].id =< reported
                                        /\ i > 1 => box[i - 1].id < box[i].id
               /\ \A n \in Nat : Holds(n, info.msg_box) => Holds(n + 1, box)
<1> DEFINE room == Room(info, mess.size)
           old == info.msg_box
           kept == room.msg_box
           box == Append(kept, mess)
<1>1. mess \in Message /\ mess.id \in Nat /\ mess.id =< reported /\ reported \in Nat
  BY MonitorConstants DEF MonitorTypeOK, Message
<1>2. mess.size \in Nat /\ mess.size =< MaxSize /\ MaxSize \in Nat
  BY <1>1, SizeType
<1>3. /\ old \in Seq(Message) /\ info.msg_box_size = Volume(old)
      /\ \A i \in DOMAIN old : /\ old[i].domain = d /\ old[i].id =< reported
                               /\ i > 1 => old[i - 1].id < old[i].id
                               /\ old[i].id < mess.id
  BY DEF Info, BoxInv
<1>4. /\ room \in Info /\ room.msg_box_size = Volume(kept)
      /\ \/ room = info
         \/ /\ mess.size + Volume(old) > m_email_volume
            /\ old # <<>> /\ kept = Tail(old)
  BY <1>2, <1>3, RoomFields
<1>5. kept \in Seq(Message)
  BY <1>4 DEF Info
<1> HIDE DEF room
<1>6. /\ Len(kept) \in Nat /\ Len(box) = Len(kept) + 1
      /\ box[Len(kept) + 1] = mess /\ DOMAIN kept = 1..Len(kept)
      /\ \A i \in 1..Len(kept) : box[i] = kept[i]
      /\ box \in Seq(Message) /\ DOMAIN box = 1..Len(kept) + 1
  BY <1>1, <1>5
<1>7. Volume(kept) \in Nat /\ Volume(box) = Volume(kept) + mess.size
  BY <1>1, <1>5, VolumeOfAppend
<1>8. \A i \in DOMAIN kept : /\ kept[i].domain = d /\ kept[i].id =< reported
                             /\ i > 1 => kept[i - 1].id < kept[i].id
                             /\ kept[i].id < mess.id
  <2>1. CASE kept = old
    BY <1>3, <2>1, Zenon
  <2>2. CASE old # <<>> /\ kept = Tail(old)
    <3> SUFFICES ASSUME NEW i \in DOMAIN kept
                 PROVE  /\ kept[i].domain = d /\ kept[i].id =< reported
                        /\ i > 1 => kept[i - 1].id < kept[i].id
                        /\ kept[i].id < mess.id
      OBVIOUS
    <3>1. /\ i \in Nat /\ i >= 1 /\ kept[i] = old[i + 1] /\ i + 1 \in DOMAIN old
          /\ i > 1 => kept[i - 1] = old[i]
      BY <1>3, <2>2
    <3>2. PICK k \in DOMAIN old : k = i + 1 /\ k > 1
      BY <3>1
    <3>3. old[k - 1].id < old[k].id /\ old[k].domain = d /\ old[k].id =< reported
          /\ old[k].id < mess.id
      BY <1>3, <3>2, Zenon
    <3>4. k - 1 = i /\ kept[i] = old[k] /\ (i > 1 => kept[i - 1] = old[i])
      BY <3>1, <3>2
    <3>5. i > 1 => kept[i - 1].id < kept[i].id
      BY <3>3, <3>4, Zenon
    <3> QED
      BY <3>3, <3>4, <3>5, Zenon
  <2> QED
    BY <1>4, <2>1, <2>2
<1>9. ASSUME NEW i \in DOMAIN box
      PROVE  /\ box[i].domain = d /\ box[i].id =< reported
             /\ i > 1 => box[i - 1].id < box[i].id
  <2>1. CASE i = Len(kept) + 1
    <3>1. i > 1 => i - 1 \in DOMAIN kept /\ box[i - 1] = kept[i - 1]
      BY <1>6, <2>1
    <3>2. box[i] = mess
      BY <1>6, <2>1
    <3> HIDE DEF box, kept
    <3> QED
      BY <1>1, <1>8, <3>1, <3>2
  <2>2. CASE i \in 1..Len(kept)
    <3>1. i \in DOMAIN kept /\ box[i] = kept[i] /\ (i > 1 => box[i - 1] = kept[i - 1])
      BY <1>6, <2>2
    <3> HIDE DEF box, kept
    <3> QED
      BY <1>8, <3>1
  <2>3. i = Len(kept) + 1 \/ i \in 1..Len(kept)
    <3> HIDE DEF box, kept
    <3> QED
      BY <1>6
  <2> QED
    BY <2>1, <2>2, <2>3
<1>10. ASSUME NEW n \in Nat, Holds(n, old)
       PROVE  Holds(n + 1, box)
  <2>1. Volume(old) \in Nat /\ m_email_volume \in Nat
    BY <1>3, VolumeType, MonitorConstants
  <2>2. CASE room = info
    <3>1. kept = old
      BY <2>2
    <3>2. Len(box) = Len(old) + 1 /\ Volume(box) = Volume(old) + mess.size /\ Len(old) \in Nat
      <4> HIDE DEF box
      <4> QED
        BY <1>6, <1>7, <3>1
    <3> HIDE DEF box, old, kept
    <3> QED
      BY <1>2, <1>10, <2>1, <3>2 DEF Holds
  <2>3. CASE /\ mess.size + Volume(old) > m_email_volume
             /\ old # <<>> /\ kept = Tail(old)
    <3>1. Volume(old) = Head(old).size + Volume(kept) /\ Head(old) \in Message
      BY <1>3, <2>3, VolumeOfTail
    <3>2. Head(old).size \in Nat /\ Head(old).size =< MaxSize
      BY <3>1, SizeType
    <3>3. Volume(box) + MaxSize > m_email_volume
      <4> HIDE DEF box, old, kept
      <4> QED
        BY <1>2, <1>7, <2>1, <2>3, <3>1, <3>2
    <3> QED
      BY <3>3 DEF Holds
  <2> QED
    BY <1>4, <2>2, <2>3
<1>11. Volume(box) = room.msg_box_size + mess.size
  BY <1>4, <1>7
<1> HIDE DEF box, kept, old
<1> QED
  BY <1>6, <1>9, <1>10, <1>11 DEF box, kept, old, room

(* onAdd_error keeps the invariant.                                        *)
LEMMA OnAddErrorInv == ASSUME MonitorInv, OnAddError PROVE MonitorInv'
<1> DEFINE d == mess.domain
           known == d \in DOMAIN domain
           counted == IF known THEN Counted(domain[d]) ELSE NewInfo
           fl_email == known /\ exceeded_email_timeout(counted)
           room == Room(counted, mess.size)
           box == Append(room.msg_box, mess)
           boxed == [room EXCEPT !.msg_box = Append(@, mess)]
           info == IF fl_email THEN Mailed(boxed)
                   ELSE [boxed EXCEPT !.m_counter = @ + 1, !.msg_box_size = @ + mess.size]
           mail == [domain |-> d, tm |-> now, box |-> box, first |-> counted.m_first_owerflow]
<1>1. /\ mess # NoMess /\ mess' = NoMess
      /\ domain' = [x \in DOMAIN domain \union {d} |-> IF x = d THEN info ELSE domain[x]]
      /\ mails' = IF ~fl_email THEN mails
                  ELSE Append(mails, [domain |-> d, tm |-> now, box |-> boxed.msg_box,
                                      first |-> counted.m_first_owerflow])
      /\ waiting_since' = now /\ now' = now /\ reported' = reported
  BY DEF OnAddError
<1>2. /\ MonitorTypeOK /\ mails \in Seq(Mail)
      /\ mess \in Message /\ d \in Domains /\ mess.size \in Nat
      /\ now \in Nat /\ TenYears \in Nat /\ m_error_counter \in Nat \ {0}
      /\ m_reset_error_timeout \in Nat /\ m_email_error_timeout \in Nat
      /\ TenYears >= m_reset_error_timeout /\ TenYears >= m_email_error_timeout
  <2>1. MonitorTypeOK /\ mess \in Message /\ mails \in Seq(Mail)
    BY <1>1 DEF MonitorInv, MonitorTypeOK
  <2>2. mess.size \in Nat /\ d \in Domains
    BY <2>1, SizeType DEF Message
  <2> QED
    BY <2>1, <2>2, MonitorConstants DEF MonitorTypeOK
<1>3. /\ counted \in Info /\ BoxInv(d, counted) /\ counted.tm =< now
      /\ counted.m_counter \in 0..m_error_counter - 1
  <2>1. CASE known
    <3>1. /\ domain[d] \in Info /\ domain[d].m_counter \in 0..m_error_counter
          /\ domain[d].tm =< now /\ BoxInv(d, domain[d])
      BY <1>2, <2>1 DEF MonitorInv, MonitorTypeOK
    <3>2. counted = Counted(domain[d])
      BY <2>1
    <3> QED
      BY <3>1, <3>2, CountedFields DEF BoxInv
  <2>2. CASE ~known
    <3>1. counted = NewInfo
      BY <2>2
    <3>2. NewInfo \in Info /\ NewInfo.tm = now - TenYears
          /\ NewInfo.m_counter = 0 /\ NewInfo.msg_box = <<>> /\ NewInfo.msg_box_size = 0
      BY <1>2 DEF NewInfo, Info
    <3>3. BoxInv(d, NewInfo)
      BY <3>2, VolumeOfNone DEF BoxInv
    <3> HIDE DEF counted
    <3> QED
      BY <1>2, <3>1, <3>2, <3>3
  <2> QED
    BY <2>1, <2>2
<1>4. /\ room \in Info /\ room.msg_box_size = Volume(room.msg_box)
      /\ room.m_counter = counted.m_counter /\ room.m_overflow = counted.m_overflow
      /\ room.tm = counted.tm /\ room.m_first_owerflow = counted.m_first_owerflow
  <2>1. counted.msg_box_size = Volume(counted.msg_box)
    BY <1>3 DEF BoxInv
  <2> HIDE DEF counted
  <2> QED
    BY <1>2, <1>3, <2>1, RoomFields
<1>5. /\ box \in Seq(Message)
      /\ Volume(box) = room.msg_box_size + mess.size
      /\ \A i \in DOMAIN box : /\ box[i].domain = d /\ box[i].id =< reported
                               /\ i > 1 => box[i - 1].id < box[i].id
      /\ \A n \in Nat : Holds(n, counted.msg_box) => Holds(n + 1, box)
  <2> HIDE DEF counted
  <2> QED
    BY <1>1, <1>2, <1>3, AddFields
<1> HIDE DEF room, counted, box
<1>6. /\ info \in Info /\ info.tm = (IF fl_email THEN now ELSE counted.tm)
      /\ info.m_counter = (IF fl_email THEN 0 ELSE counted.m_counter + 1)
      /\ info.m_counter \in 0..m_error_counter
      /\ info.m_overflow = (IF fl_email THEN FALSE ELSE counted.m_overflow)
      /\ info.m_first_owerflow = (IF fl_email THEN FALSE ELSE counted.m_first_owerflow)
      /\ info.msg_box = (IF fl_email THEN <<>> ELSE box)
      /\ info.msg_box_size = Volume(info.msg_box)
  <2>1. boxed \in Info /\ boxed = [room EXCEPT !.msg_box = box]
    BY <1>4, <1>5 DEF Info, box
  <2>2. /\ boxed.msg_box = box /\ boxed.msg_box_size = room.msg_box_size
        /\ boxed.m_counter = counted.m_counter /\ boxed.m_overflow = counted.m_overflow
        /\ boxed.tm = counted.tm /\ boxed.m_first_owerflow = counted.m_first_owerflow
    BY <1>4, <2>1 DEF Info
  <2> HIDE DEF boxed
  <2>3. CASE fl_email
    <3>1. info = Mailed(boxed)
      BY <2>3
    <3>2. now \in Int /\ <<>> \in Seq(Message) /\ 0 \in Nat /\ FALSE \in BOOLEAN
      BY <1>2
    <3> HIDE DEF info, fl_email
    <3>3. /\ info \in Info /\ info.tm = now /\ info.m_counter = 0 /\ info.m_overflow = FALSE
          /\ info.m_first_owerflow = FALSE /\ info.msg_box = <<>> /\ info.msg_box_size = 0
      BY <2>1, <3>1, <3>2 DEF Mailed, Info
    <3>4. 0 \in 0..m_error_counter
      BY <1>2
    <3>5. info.msg_box_size = Volume(info.msg_box)
      BY <3>3, VolumeOfNone
    <3> QED
      BY <2>3, <3>3, <3>4, <3>5, Zenon
  <2>4. CASE ~fl_email
    <3>1. info = [boxed EXCEPT !.m_counter = counted.m_counter + 1,
                               !.msg_box_size = room.msg_box_size + mess.size]
      BY <2>2, <2>4
    <3>2. counted.m_counter + 1 \in 0..m_error_counter
          /\ counted.m_counter + 1 \in Nat /\ room.msg_box_size + mess.size \in Nat
      BY <1>2, <1>3, <1>4 DEF Info
    <3> HIDE DEF info, fl_email
    <3> QED
      BY <1>5, <2>1, <2>2, <2>4, <3>1, <3>2 DEF Info
  <2> QED
    BY <2>3, <2>4
<1>7. mails' = IF fl_email THEN Append(mails, mail) ELSE mails
  <2>1. boxed.msg_box = box
    BY <1>4 DEF Info, box
  <2> HIDE DEF boxed
  <2> QED
    BY <1>1, <2>1
<1>8. mail \in Mail
  BY <1>2, <1>3, <1>5 DEF Mail, Info
<1> HIDE DEF info, mail
<1>9. /\ DOMAIN domain' = DOMAIN domain \union {d} /\ domain'[d] = info
      /\ \A x \in DOMAIN domain : x # d => domain'[x] = domain[x]
  BY <1>1
<1>10. fl_email => known /\ counted.m_overflow /\ now - counted.tm >= m_email_error_timeout
  BY DEF exceeded_email_timeout
<1>11. counted.m_first_owerflow =>
         /\ now - counted.tm >= TenYears
         /\ IF fl_email THEN Holds(m_error_counter, counted.msg_box)
            ELSE ~counted.m_overflow /\ Holds(counted.m_counter, counted.msg_box)
  <2> SUFFICES ASSUME counted.m_first_owerflow
               PROVE  /\ now - counted.tm >= TenYears
                      /\ IF fl_email THEN Holds(m_error_counter, counted.msg_box)
                         ELSE ~counted.m_overflow /\ Holds(counted.m_counter, counted.msg_box)
    OBVIOUS
  <2>1. CASE known
    <3>1. /\ domain[d] \in Info /\ domain[d].m_counter \in 0..m_error_counter
          /\ FirstInv(domain[d])
      BY <1>2, <2>1 DEF MonitorInv, MonitorTypeOK
    <3>2. counted = Counted(domain[d])
      BY <2>1 DEF counted
    <3>3. /\ counted.m_counter = Value(domain[d])
          /\ counted.m_overflow = (Value(domain[d]) = 0)
          /\ counted.tm = domain[d].tm /\ counted.msg_box = domain[d].msg_box
          /\ counted.m_first_owerflow = domain[d].m_first_owerflow
      BY <3>1, <3>2, CountedFields
    <3>4. /\ domain[d].m_counter \in 1..m_error_counter /\ ~domain[d].m_overflow
          /\ now - counted.tm >= TenYears /\ Holds(domain[d].m_counter, counted.msg_box)
      BY <3>1, <3>3 DEF FirstInv
    <3>5. CASE domain[d].m_counter = m_error_counter
      <4>1. Value(domain[d]) = 0
        BY <1>2, <3>5 DEF Value
      <4>2. counted.tm \in Int
        BY <1>3 DEF Info
      <4>3. now - counted.tm >= m_email_error_timeout
        BY <1>2, <3>4, <4>2
      <4>4. fl_email
        BY <2>1, <3>3, <4>1, <4>3 DEF exceeded_email_timeout
      <4> HIDE DEF fl_email
      <4> QED
        BY <3>4, <3>5, <4>4
    <3>6. CASE domain[d].m_counter # m_error_counter
      <4>1. Value(domain[d]) = domain[d].m_counter /\ Value(domain[d]) # 0
        BY <1>2, <3>4, <3>6 DEF Value
      <4>2. ~counted.m_overflow
        BY <3>3, <4>1
      <4> QED
        BY <1>10, <3>3, <3>4, <4>1, <4>2
    <3> QED
      BY <3>5, <3>6
  <2>2. CASE ~known
    <3>1. counted = NewInfo
      BY <2>2 DEF counted
    <3>2. /\ counted.tm = now - TenYears /\ ~counted.m_overflow
          /\ counted.m_counter = 0 /\ counted.msg_box = <<>>
      BY <3>1 DEF NewInfo
    <3>3. now - counted.tm >= TenYears
      BY <1>2, <3>2
    <3>4. Holds(0, <<>>)
      BY DEF Holds
    <3> QED
      BY <2>2, <3>2, <3>3, <3>4
  <2> QED
    BY <2>1, <2>2
<1> HIDE DEF fl_email
<1>12. /\ \A i \in DOMAIN info.msg_box :
             /\ info.msg_box[i].domain = d /\ info.msg_box[i].id =< reported
             /\ i > 1 => info.msg_box[i - 1].id < info.msg_box[i].id
       /\ info.m_first_owerflow =>
             /\ info.m_counter \in 1..m_error_counter /\ ~info.m_overflow
             /\ now - info.tm >= TenYears /\ Holds(info.m_counter, info.msg_box)
  <2>1. \A i \in DOMAIN info.msg_box :
             /\ info.msg_box[i].domain = d /\ info.msg_box[i].id =< reported
             /\ i > 1 => info.msg_box[i - 1].id < info.msg_box[i].id
    <3>1. CASE fl_email
      <4>1. info.msg_box = <<>>
        BY <1>6, <3>1
      <4>2. DOMAIN <<>> = {}
        OBVIOUS
      <4> QED
        BY <4>1, <4>2
    <3>2. CASE ~fl_email
      <4>1. info.msg_box = box
        BY <1>6, <3>2
      <4> QED
        BY <1>5, <4>1
    <3> QED
      BY <3>1, <3>2
  <2>2. ASSUME info.m_first_owerflow
        PROVE  /\ info.m_counter \in 1..m_error_counter /\ ~info.m_overflow
               /\ now - info.tm >= TenYears /\ Holds(info.m_counter, info.msg_box)
    <3>1. ~fl_email /\ counted.m_first_owerflow
      BY <1>6, <2>2
    <3>2. /\ now - counted.tm >= TenYears /\ ~counted.m_overflow
          /\ Holds(counted.m_counter, counted.msg_box) /\ counted.m_counter \in Nat
      BY <1>2, <1>3, <1>11, <3>1
    <3>3. Holds(counted.m_counter + 1, box)
      BY <1>5, <3>2
    <3>4. info.m_counter = counted.m_counter + 1 /\ info.m_counter # 0
      BY <1>6, <3>1, <3>2
    <3> QED
      BY <1>2, <1>6, <3>1, <3>2, <3>3, <3>4
  <2> QED
    BY <2>1, <2>2
<1>13. ASSUME NEW x \in DOMAIN domain'
       PROVE  BoxInv(x, domain[x])' /\ FirstInv(domain[x])'
  <2>1. CASE x = d
    <3>1. domain'[x] = info
      BY <1>9, <2>1
    <3>2. BoxInv(x, domain[x])'
      BY <1>1, <1>6, <1>12, <2>1, <3>1 DEF BoxInv
    <3>3. FirstInv(domain[x])'
      BY <1>1, <1>12, <3>1 DEF FirstInv, Holds
    <3> QED
      BY <3>2, <3>3
  <2>2. CASE x # d
    <3>1. x \in DOMAIN domain /\ domain'[x] = domain[x]
      BY <1>9, <1>13, <2>2
    <3>2. BoxInv(x, domain[x]) /\ FirstInv(domain[x])
      BY <3>1 DEF MonitorInv
    <3> QED
      BY <1>1, <3>1, <3>2 DEF BoxInv, FirstInv, Holds
  <2> QED
    BY <2>1, <2>2
<1>14. /\ mails' \in Seq(Mail) /\ Len(mails) \in Nat
       /\ DOMAIN mails = 1..Len(mails)
       /\ \A i \in DOMAIN mails : /\ i \in DOMAIN mails' /\ mails'[i] = mails[i]
                                  /\ mails[i] \in Mail /\ mails[i].tm \in Int
                                  /\ mails[i].tm =< now
       /\ fl_email => /\ mails'[Len(mails) + 1] = mail
                      /\ DOMAIN mails' = 1..Len(mails) + 1
       /\ ~fl_email => DOMAIN mails' = DOMAIN mails
  <2>1. \A i \in DOMAIN mails : mails[i] \in Mail /\ mails[i].tm \in Int /\ mails[i].tm =< now
    <3>1. \A i \in DOMAIN mails : mails[i] \in Mail
      BY <1>2
    <3>2. \A i \in DOMAIN mails : mails[i].tm \in Int
      BY <3>1 DEF Mail
    <3> QED
      BY <1>2, <3>1, <3>2 DEF MonitorTypeOK
  <2>2. CASE fl_email
    BY <1>2, <1>7, <1>8, <2>1, <2>2
  <2>3. CASE ~fl_email
    BY <1>2, <1>7, <2>1, <2>3
  <2> QED
    BY <2>2, <2>3
<1>15. mail.domain = d /\ mail.tm = now /\ mail.box = box
       /\ mail.first = counted.m_first_owerflow
  BY DEF mail
<1>16. ASSUME NEW c \in Domains, NEW i \in DOMAIN mails'
       PROVE  LastMailInv(c, mails[i])'
  <2>1. CASE i \in DOMAIN mails
    <3>1. mails'[i] = mails[i] /\ mails[i].tm =< now /\ mails[i].tm \in Int
      BY <1>14, <2>1
    <3>2. LastMailInv(c, mails[i])
      BY <2>1 DEF MonitorInv
    <3>3. CASE c # d
      <4>1. (c \in DOMAIN domain') = (c \in DOMAIN domain)
            /\ (c \in DOMAIN domain => domain'[c] = domain[c])
        BY <1>9, <3>3
      <4> QED
        BY <1>1, <3>1, <3>2, <4>1 DEF LastMailInv
    <3>4. CASE c = d /\ known
      <4>1. counted.m_first_owerflow = domain[d].m_first_owerflow
            /\ counted.tm = domain[d].tm
        <5>1. domain[d] \in Info /\ domain[d].m_counter \in 0..m_error_counter
          BY <1>2, <3>4 DEF MonitorTypeOK
        <5>2. counted = Counted(domain[d])
          BY <3>4 DEF counted
        <5> QED
          BY <5>1, <5>2, CountedFields
      <4> QED
        BY <1>1, <1>6, <1>9, <3>1, <3>2, <3>4, <4>1 DEF LastMailInv
    <3>5. CASE c = d /\ ~known
      <4>1. counted.m_first_owerflow /\ ~fl_email
        BY <1>10, <3>5 DEF counted, NewInfo
      <4> QED
        BY <1>1, <1>6, <1>9, <3>1, <3>2, <3>5, <4>1 DEF LastMailInv
    <3> QED
      BY <3>3, <3>4, <3>5
  <2>2. CASE i \notin DOMAIN mails
    <3>1. fl_email /\ mails'[i] = mail
      BY <1>14, <2>2
    <3>2. ~info.m_first_owerflow /\ info.tm = now
      BY <1>6, <3>1
    <3> QED
      BY <1>1, <1>2, <1>9, <1>15, <3>1, <3>2 DEF LastMailInv
  <2> QED
    BY <2>1, <2>2
<1>17. MailsApart'
  <2> DEFINE apart == Min({m_email_error_timeout, m_reset_error_timeout})
  <2>1. /\ apart =< m_email_error_timeout /\ apart =< m_reset_error_timeout
        /\ apart \in Nat
    <3> DEFINE two == {m_email_error_timeout, m_reset_error_timeout}
    <3>1. two \in SUBSET Nat /\ two # {}
      BY <1>2
    <3>2. Min(two) \in two /\ \A y \in two : Min(two) =< y
      <4> HIDE DEF two
      <4> QED
        BY <3>1, MinIsLeast
    <3> QED
      BY <1>2, <3>2
  <2> HIDE DEF apart
  <2> SUFFICES ASSUME NEW j \in DOMAIN mails', NEW i \in 1..j - 1,
                      mails'[i].domain = mails'[j].domain
               PROVE  mails'[j].tm - mails'[i].tm >= apart
    BY <1>14 DEF MailsApart, apart
  <2>2. i \in DOMAIN mails /\ mails'[i] = mails[i]
    BY <1>14
  <2>3. CASE j \in DOMAIN mails
    BY <1>14, <2>2, <2>3 DEF MonitorInv, MailsApart, apart
  <2>4. CASE j \notin DOMAIN mails
    <3>1. fl_email /\ mails'[j] = mail /\ mails[i].domain = d
      BY <1>14, <1>15, <2>2, <2>4
    <3>2. known /\ now - counted.tm >= m_email_error_timeout /\ LastMailInv(d, mails[i])
      BY <1>2, <1>10, <2>2, <3>1 DEF MonitorInv
    <3>3. counted.tm = domain[d].tm /\ counted.tm \in Int
      <4>1. domain[d] \in Info /\ domain[d].m_counter \in 0..m_error_counter
        BY <1>2, <3>2 DEF MonitorTypeOK
      <4>2. counted = Counted(domain[d])
        BY <3>2 DEF counted
      <4> QED
        BY <1>3, <4>1, <4>2, CountedFields DEF Info
    <3>4. \/ mails[i].tm =< counted.tm
          \/ now - mails[i].tm >= m_reset_error_timeout
      BY <3>1, <3>2, <3>3 DEF LastMailInv
    <3>5. mails[i].tm \in Int
      BY <1>14, <2>2
    <3>6. now - mails[i].tm >= apart
      BY <1>2, <2>1, <3>2, <3>3, <3>4, <3>5
    <3> QED
      BY <1>15, <2>2, <3>1, <3>6
  <2> QED
    BY <2>3, <2>4
<1>18. FirstMailIsFull'
  <2> SUFFICES ASSUME NEW i \in DOMAIN mails', mails'[i].first
               PROVE  \/ Len(mails'[i].box) > m_error_counter
                      \/ Volume(mails'[i].box) + MaxSize > m_email_volume
    BY DEF FirstMailIsFull
  <2>1. CASE i \in DOMAIN mails
    BY <1>14, <2>1 DEF MonitorInv, FirstMailIsFull
  <2>2. CASE i \notin DOMAIN mails
    <3>1. fl_email /\ mails'[i] = mail
      BY <1>14, <2>2
    <3>2. Holds(m_error_counter, counted.msg_box)
      BY <1>11, <1>15, <3>1
    <3>3. Holds(m_error_counter + 1, box)
      BY <1>2, <1>5, <3>2
    <3>4. Len(box) \in Nat
      BY <1>5
    <3> QED
      BY <1>2, <1>15, <3>1, <3>3, <3>4 DEF Holds
  <2> QED
    BY <2>1, <2>2
<1>19. MonitorTypeOK'
  <2>1. /\ now' \in 0..MaxTime /\ waiting_since' \in 0..now' /\ reported' \in 0..MaxErrors
    BY <1>1, <1>2 DEF MonitorTypeOK
  <2>2. mess' = NoMess /\ mess'.id \in 0..reported'
    BY <1>1, <1>2, MonitorConstants DEF NoMess, MonitorTypeOK
  <2>3. domain' \in [DOMAIN domain' -> Info] /\ DOMAIN domain' \subseteq Domains
    BY <1>1, <1>2, <1>6 DEF MonitorTypeOK
  <2>4. ASSUME NEW x \in DOMAIN domain'
        PROVE  domain'[x].m_counter \in 0..m_error_counter /\ domain'[x].tm =< now'
    <3>1. CASE x = d
      <4>1. domain'[x] = info
        BY <1>9, <3>1
      <4>2. counted.tm =< now /\ now \in Nat
        BY <1>2, <1>3
      <4>3. info.tm =< now
        BY <1>6, <4>2
      <4> QED
        BY <1>1, <1>6, <4>1, <4>3
    <3>2. CASE x # d
      <4>1. x \in DOMAIN domain /\ domain'[x] = domain[x]
        BY <1>9, <2>4, <3>2
      <4> QED
        BY <1>1, <1>2, <4>1 DEF MonitorTypeOK
    <3> QED
      BY <3>1, <3>2
  <2>5. ASSUME NEW i \in DOMAIN mails' PROVE mails'[i].tm =< now'
    BY <1>1, <1>2, <1>14, <1>15
  <2> QED
    BY <2>1, <2>2, <2>3, <2>4, <2>5 DEF MonitorTypeOK
<1> QED
  BY <1>13, <1>14, <1>16, <1>17, <1>18, <1>19 DEF MonitorInv

LEMMA OnTransmitErrorInv ==
    ASSUME MonitorInv, NEW d \in Domains, NEW size \in Sizes, OnTransmitError(d, size)
    PROVE  MonitorInv'
<1> DEFINE new == [id |-> reported + 1, domain |-> d, size |-> size]
<1>1. /\ reported' = reported + 1 /\ reported < MaxErrors
      /\ mess' = (IF mess = NoMess THEN new ELSE mess)
      /\ now' = now /\ waiting_since' = waiting_since /\ domain' = domain /\ mails' = mails
  BY DEF OnTransmitError
<1>2. MonitorTypeOK /\ reported \in 0..MaxErrors /\ MaxErrors \in Nat
  BY MonitorConstants DEF MonitorInv, MonitorTypeOK
<1>3. MonitorTypeOK'
  <2>1. reported' \in 0..MaxErrors
    BY <1>1, <1>2
  <2>2. (mess = NoMess \/ mess \in Message)' /\ mess'.id \in 0..reported'
    <3>1. CASE mess = NoMess
      <4>1. mess' = new /\ new \in Message /\ new.id = reported + 1
        BY <1>1, <1>2, <3>1 DEF Message
      <4> QED
        BY <1>1, <1>2, <4>1
    <3>2. CASE mess # NoMess
      <4>1. mess' = mess /\ mess \in Message /\ mess.id \in 0..reported
        BY <1>1, <1>2, <3>2 DEF MonitorTypeOK
      <4> QED
        BY <1>1, <1>2, <4>1
    <3> QED
      BY <3>1, <3>2
  <2> QED
    BY <1>1, <1>2, <2>1, <2>2 DEF MonitorTypeOK
<1>4. ASSUME NEW x \in DOMAIN domain
      PROVE  BoxInv(x, domain[x])' /\ FirstInv(domain[x])'
  <2>1. BoxInv(x, domain[x]) /\ FirstInv(domain[x]) /\ domain[x] \in Info
    BY <1>2 DEF MonitorInv, MonitorTypeOK
  <2>2. FirstInv(domain[x])'
    BY <1>1, <2>1 DEF FirstInv, Holds
  <2>3. ASSUME NEW i \in DOMAIN domain[x].msg_box
        PROVE  /\ domain[x].msg_box[i].id =< reported'
               /\ mess' # NoMess => domain[x].msg_box[i].id < mess'.id
    <3>1. domain[x].msg_box[i] \in Message
      BY <2>1 DEF Info
    <3>2. domain[x].msg_box[i].id \in Nat /\ domain[x].msg_box[i].id =< reported
          /\ (mess # NoMess => domain[x].msg_box[i].id < mess.id)
      BY <2>1, <3>1 DEF BoxInv, Message
    <3>3. mess = NoMess => mess'.id = reported + 1
      BY <1>1
    <3>4. mess # NoMess => mess' = mess
      BY <1>1
    <3> QED
      BY <1>1, <1>2, <3>2, <3>3, <3>4
  <2>4. BoxInv(x, domain[x])'
    BY <1>1, <2>1, <2>3 DEF BoxInv
  <2> QED
    BY <2>2, <2>4
<1>5. \A x \in Domains : \A i \in DOMAIN mails : LastMailInv(x, mails[i])'
  BY <1>1 DEF MonitorInv, LastMailInv
<1>6. MailsApart' /\ FirstMailIsFull' /\ mails' \in Seq(Mail)
  BY <1>1 DEF MonitorInv, MailsApart, FirstMailIsFull
<1> QED
  BY <1>1, <1>3, <1>4, <1>5, <1>6 DEF MonitorInv

LEMMA TickInv == ASSUME MonitorInv, Tick PROVE MonitorInv'
<1>1. /\ now < MaxTime /\ now' = now + 1 /\ reported' = reported /\ mess' = mess
      /\ waiting_since' = waiting_since /\ domain' = domain /\ mails' = mails
  BY DEF Tick
<1>2. /\ MonitorTypeOK /\ now \in 0..MaxTime /\ MaxTime \in Nat
      /\ mails \in Seq(Mail) /\ TenYears \in Nat /\ m_reset_error_timeout \in Nat
  BY MonitorConstants DEF MonitorInv, MonitorTypeOK
<1>3. MonitorTypeOK'
  <2>1. now' \in 0..MaxTime /\ waiting_since' \in 0..now'
    BY <1>1, <1>2 DEF MonitorTypeOK
  <2>2. ASSUME NEW x \in DOMAIN domain PROVE domain[x].tm =< now'
    <3>1. domain[x] \in Info /\ domain[x].tm =< now
      BY <1>2 DEF MonitorTypeOK
    <3>2. domain[x].tm \in Int
      BY <3>1 DEF Info
    <3> QED
      BY <1>1, <1>2, <3>1, <3>2
  <2>3. ASSUME NEW i \in DOMAIN mails PROVE mails[i].tm =< now'
    <3>1. mails[i] \in Mail /\ mails[i].tm =< now
      BY <1>2 DEF MonitorTypeOK
    <3>2. mails[i].tm \in Int
      BY <3>1 DEF Mail
    <3> QED
      BY <1>1, <1>2, <3>1, <3>2
  <2> QED
    BY <1>1, <1>2, <2>1, <2>2, <2>3 DEF MonitorTypeOK
<1>4. ASSUME NEW x \in DOMAIN domain
      PROVE  BoxInv(x, domain[x])' /\ FirstInv(domain[x])'
  <2>1. BoxInv(x, domain[x]) /\ FirstInv(domain[x]) /\ domain[x] \in Info
    BY <1>2 DEF MonitorInv, MonitorTypeOK
  <2>2. domain[x].tm \in Int
    BY <2>1 DEF Info
  <2>3. now - domain[x].tm >= TenYears => now' - domain[x].tm >= TenYears
    BY <1>1, <1>2, <2>2
  <2> QED
    BY <1>1, <2>1, <2>3 DEF BoxInv, FirstInv, Holds
<1>5. ASSUME NEW x \in Domains, NEW i \in DOMAIN mails
      PROVE  LastMailInv(x, mails[i])'
  <2>1. LastMailInv(x, mails[i]) /\ mails[i] \in Mail
    BY <1>2 DEF MonitorInv
  <2>2. mails[i].tm \in Int
    BY <2>1 DEF Mail
  <2>3. now - mails[i].tm >= m_reset_error_timeout => now' - mails[i].tm >= m_reset_error_timeout
    BY <1>1, <1>2, <2>2
  <2> QED
    BY <1>1, <2>1, <2>3 DEF LastMailInv
<1>6. MailsApart' /\ FirstMailIsFull' /\ mails' \in Seq(Mail)
  BY <1>1 DEF MonitorInv, MailsApart, FirstMailIsFull
<1> QED
  BY <1>1, <1>3, <1>4, <1>5, <1>6 DEF MonitorInv

(* A domain is forgotten only when its last mail is long ago: the mails    *)
(* about it stay apart from those that come after it is heard of again.    *)
LEMMA ResetTimeoutInv == ASSUME MonitorInv, ResetTimeout PROVE MonitorInv'
<1> DEFINE kept == {d \in DOMAIN domain : now - domain[d].tm < m_reset_error_timeout}
<1>1. /\ now' = now /\ reported' = reported /\ mess' = mess
      /\ waiting_since' = now /\ domain' = [d \in kept |-> domain[d]] /\ mails' = mails
  BY DEF ResetTimeout
<1>2. /\ MonitorTypeOK /\ now \in 0..MaxTime /\ MaxTime \in Nat /\ mails \in Seq(Mail)
      /\ TenYears \in Nat /\ m_reset_error_timeout \in Nat
      /\ TenYears >= m_reset_error_timeout
  BY MonitorConstants DEF MonitorInv, MonitorTypeOK
<1>3. /\ DOMAIN domain' = kept /\ kept \subseteq DOMAIN domain
      /\ \A d \in kept : domain'[d] = domain[d]
  BY <1>1
<1>4. MonitorTypeOK'
  <2>1. domain' \in [DOMAIN domain' -> Info] /\ DOMAIN domain' \subseteq Domains
    BY <1>2, <1>3, <1>1 DEF MonitorTypeOK
  <2>2. waiting_since' \in 0..now'
    BY <1>1, <1>2
  <2> HIDE DEF kept
  <2> QED
    BY <1>1, <1>2, <1>3, <2>1, <2>2 DEF MonitorTypeOK
<1>5. ASSUME NEW x \in kept
      PROVE  BoxInv(x, domain[x])' /\ FirstInv(domain[x])'
  <2>1. x \in DOMAIN domain /\ domain'[x] = domain[x]
    BY <1>3
  <2>2. BoxInv(x, domain[x]) /\ FirstInv(domain[x])
    BY <2>1 DEF MonitorInv
  <2> HIDE DEF kept
  <2> QED
    BY <1>1, <2>1, <2>2 DEF BoxInv, FirstInv, Holds
<1>6. ASSUME NEW x \in Domains, NEW i \in DOMAIN mails
      PROVE  LastMailInv(x, mails[i])'
  <2>1. LastMailInv(x, mails[i]) /\ mails[i] \in Mail /\ mails'[i] = mails[i]
    BY <1>1, <1>2 DEF MonitorInv
  <2>2. mails[i].tm \in Int
    BY <2>1 DEF Mail
  <2>3. CASE x \in kept
    <3>1. x \in DOMAIN domain /\ x \in DOMAIN domain' /\ domain'[x] = domain[x]
      BY <1>3, <2>3
    <3> HIDE DEF kept
    <3> QED
      BY <1>1, <2>1, <3>1 DEF LastMailInv
  <2>4. CASE x \in DOMAIN domain /\ x \notin kept
    <3>1. domain[x] \in Info /\ now - domain[x].tm >= m_reset_error_timeout
      <4>1. domain[x] \in Info
        BY <1>2, <2>4 DEF MonitorTypeOK
      <4>2. domain[x].tm \in Int
        BY <4>1 DEF Info
      <4> QED
        BY <1>2, <2>4, <4>1, <4>2
    <3>2. domain[x].tm \in Int
      BY <3>1 DEF Info
    <3>3. mails[i].tm =< domain[x].tm => now - mails[i].tm >= m_reset_error_timeout
      BY <1>2, <2>2, <3>1, <3>2
    <3>4. x \notin DOMAIN domain'
      BY <1>3, <2>4
    <3> QED
      BY <1>1, <2>1, <3>3, <3>4 DEF LastMailInv
  <2>5. CASE x \notin DOMAIN domain
    <3>1. x \notin DOMAIN domain'
      BY <1>3, <2>5
    <3> QED
      BY <1>1, <2>1, <2>5, <3>1 DEF LastMailInv
  <2> QED
    BY <2>3, <2>4, <2>5
<1>7. MailsApart' /\ FirstMailIsFull' /\ mails' \in Seq(Mail)
  BY <1>1 DEF MonitorInv, MailsApart, FirstMailIsFull
<1> HIDE DEF kept
<1> QED
  BY <1>1, <1>3, <1>4, <1>5, <1>6, <1>7 DEF MonitorInv

LEMMA MonitorNextInv == MonitorInv /\ [MonitorNext]_monitor => MonitorInv'
<1> SUFFICES ASSUME MonitorInv, [MonitorNext]_monitor PROVE MonitorInv'
  OBVIOUS
<1>1. CASE Tick
  BY <1>1, TickInv
<1>2. CASE \E d \in Domains, size \in Sizes : OnTransmitError(d, size)
  BY <1>2, OnTransmitErrorInv
<1>3. CASE OnAddError
  BY <1>3, OnAddErrorInv
<1>4. CASE ResetTimeout
  BY <1>4, ResetTimeoutInv
<1>5. CASE UNCHANGED monitor
  BY <1>5 DEF monitor, MonitorInv, MonitorTypeOK, BoxInv, FirstInv, Holds, LastMailInv,
              MailsApart, FirstMailIsFull
<1> QED
  BY <1>1, <1>2, <1>3, <1>4, <1>5 DEF MonitorNext

(* The counters, boxes and times of the monitor, and the ends of its mails.*)
LEMMA MonitorInvariant == MonitorSpec => []MonitorInv
  BY MonitorInitInv, MonitorNextInv, PTL DEF MonitorSpec

LEMMA MonitorInvImplies ==
    MonitorInv => MonitorTypeOK /\ BoxIsCounted /\ MailsApart /\ FirstMailIsFull
<1> SUFFICES ASSUME MonitorInv PROVE BoxIsCounted
  BY DEF MonitorInv
<1> QED
  BY DEF MonitorInv, BoxInv, BoxIsCounted

(* The volume from which onAdd_error decides whether room is needed is     *)
(* that of the box, and the box is in the order of the errors.             *)
THEOREM MonitorBoxIsCounted == MonitorSpec => []BoxIsCounted
  BY MonitorInvariant, MonitorInvImplies, PTL

(* exceeded_email_timeout and exceeded_reset_timeout keep the mails about  *)
(* a domain apart, although a reset forgets when the last one was sent.    *)
THEOREM MonitorMailsApart == MonitorSpec => []MailsApart
  BY MonitorInvariant, MonitorInvImplies, PTL

(* The first mail about a domain is sent at once when its counter has      *)
(* passed error_counter, with all its messages as far as there was room.   *)
THEOREM MonitorFirstMailIsFull == MonitorSpec => []FirstMailIsFull
  BY MonitorInvariant, MonitorInvImplies, PTL

-----------------------------------------------------------------------------
(* The remote thread, for any number of files, messages and starts, and    *)
(* any bounds of its lists.                                                *)

Piece == Item \cup {MARKER_END}

(* What the remote thread holds as one message begins with an item, and no *)
(* two ends of a line follow each other.                                   *)
Line(s) ==
    /\ s \in Seq(Piece) /\ s # <<>> /\ s[1] \in Item
    /\ \A i \in 1..Len(s) - 1 : s[i] = MARKER_END => s[i + 1] # MARKER_END

Fresh(s, f) == \E x \in Item : x.file = f /\ s \in {<<x>>, <<x, MARKER_END>>}

(* The messages a client has added for one file, not yet in the list.      *)
FreshList(list, f) ==
    /\ list \in Seq(Seq(Piece))
    /\ \A k \in DOMAIN list : Fresh(list[k], f) /\ list[k][1].id <= accepted
    /\ \A k, l \in DOMAIN list : k < l => list[k][1].id < list[l][1].id

Newer(p, list) == \A k \in DOMAIN list : p.id < list[k][1].id

(* What has ever reached the list and may still come out of it.            *)
Past == ItemsOf(local) \cup ItemsOf(delivered) \cup Listed

After(x, y) == x.file = y.file => x.id < y.id \/ y \in saved

ShapeInv ==
    /\ RemoteTypeOK
    /\ accepted \in Nat
    /\ msg_list \in Seq(Seq(Piece))
    /\ \A i \in DOMAIN msg_list : Line(msg_list[i])
    /\ delivered \in Seq(Item)
    /\ local \in Seq(Piece) /\ (local # <<>> => Line(local))
    /\ ItemsOf(local) \subseteq saved
    /\ it \in Nat
    /\ pc = "recv" => it <= Len(msg_list)
    /\ pc = "start" => it >= 1 /\ (it <= Len(local) => local[it] # MARKER_END)

FreshInv ==
    /\ DOMAIN mml = Files /\ DOMAIN message_list = Files
    /\ \A f \in Files : FreshList(mml[f], f) /\ FreshList(message_list[f], f)
    /\ \A f \in Files : \A k \in DOMAIN mml[f] :
           Newer(mml[f][k][1], message_list[f])
    /\ \A p \in Past : /\ p.id <= accepted
                       /\ Newer(p, mml[p.file]) /\ Newer(p, message_list[p.file])

(* The messages of the list that have not been sent.                       *)
Unsent(i) ==
    pc # "save" /\ (pc = "send" => it <= i) /\ (pc = "recv" => it < i)

OrderInv ==
    /\ OrderUnlessSaved
    /\ \A i, j \in DOMAIN msg_list :
           i < j => After(msg_list[i][1], msg_list[j][1])
    /\ \A i \in DOMAIN delivered, j \in DOMAIN msg_list :
           Unsent(j) => After(delivered[i], msg_list[j][1])

RoundInv ==
    /\ pc \in {"send", "recv", "save"} => (is_ok => sent)
    /\ pc = "save" => \A i \in DOMAIN msg_list :
                          i < it => ItemsOf(msg_list[i]) \subseteq ItemsOf(local)

RemoteInv == ShapeInv /\ FreshInv /\ OrderInv /\ RoundInv

-----------------------------------------------------------------------------
(* What messages are made of.                                              *)

LEMMA EndIsNoItem == MARKER_END \notin Item
  BY DEF MARKER_END, Item

LEMMA ItemFields ==
    ASSUME NEW x \in Item PROVE x.id \in Nat /\ x.id <= MaxItems /\ x.file \in Files
  BY RemoteConstants DEF Item

LEMMA ItemsType ==
    ASSUME NEW s \in Seq(Piece) PROVE ItemsOf(s) \subseteq Item
  BY DEF ItemsOf, Piece

LEMMA ItemsOfItems ==
    ASSUME NEW s \in Seq(Item)
    PROVE  ItemsOf(s) = {s[i] : i \in DOMAIN s}
  BY EndIsNoItem DEF ItemsOf

LEMMA ItemsOfNone == ItemsOf(<<>>) = {}
  BY DEF ItemsOf

LEMMA ItemsOfConcat ==
    ASSUME NEW s \in Seq(Piece), NEW t \in Seq(Piece)
    PROVE  ItemsOf(s \o t) = ItemsOf(s) \cup ItemsOf(t)
<1>1. \A i \in DOMAIN (s \o t) :
          \/ i \in DOMAIN s /\ (s \o t)[i] = s[i]
          \/ i - Len(s) \in DOMAIN t /\ (s \o t)[i] = t[i - Len(s)]
  OBVIOUS
<1>2. \A i \in DOMAIN s : i \in DOMAIN (s \o t) /\ (s \o t)[i] = s[i]
  OBVIOUS
<1>3. \A i \in DOMAIN t : i + Len(s) \in DOMAIN (s \o t)
                          /\ (s \o t)[i + Len(s)] = t[i]
  OBVIOUS
<1> QED
  BY <1>1, <1>2, <1>3, ZenonT(60) DEF ItemsOf

LEMMA HeadIsItem ==
    ASSUME NEW s, Line(s) PROVE s[1] \in ItemsOf(s) /\ s[1] \in Item /\ Head(s) = s[1]
<1>1. 1 \in DOMAIN s
  BY DEF Line
<1>2. s[1] # MARKER_END
  BY EndIsNoItem DEF Line
<1> QED
  BY <1>1, <1>2 DEF Line, ItemsOf

LEMMA LineConcat ==
    ASSUME NEW s, Line(s), NEW t, Line(t) PROVE Line(s \o t)
<1>1. s \in Seq(Piece) /\ t \in Seq(Piece) /\ Len(s) >= 1 /\ Len(t) >= 1
  BY DEF Line
<1>2. s \o t \in Seq(Piece) /\ s \o t # <<>> /\ (s \o t)[1] = s[1]
  BY <1>1
<1>3. SUFFICES ASSUME NEW i \in 1..Len(s \o t) - 1, (s \o t)[i] = MARKER_END
               PROVE  (s \o t)[i + 1] # MARKER_END
  BY <1>2 DEF Line
<1>4. CASE i < Len(s)
  <2>1. (s \o t)[i] = s[i] /\ (s \o t)[i + 1] = s[i + 1] /\ i \in 1..Len(s) - 1
    BY <1>1, <1>4
  <2> QED
    BY <1>3, <2>1 DEF Line
<1>5. CASE i = Len(s)
  <2>1. (s \o t)[i + 1] = t[1]
    BY <1>1, <1>5
  <2> QED
    BY <2>1, EndIsNoItem DEF Line
<1>6. CASE i > Len(s)
  <2>1. PICK j \in Nat : j = i - Len(s)
    BY <1>1, <1>6
  <2>2. (s \o t)[i] = t[j] /\ (s \o t)[i + 1] = t[j + 1] /\ j \in 1..Len(t) - 1
    BY <1>1, <1>6, <2>1
  <2> QED
    BY <1>3, <2>2 DEF Line
<1> QED
  BY <1>1, <1>4, <1>5, <1>6

LEMMA FreshIsLine ==
    ASSUME NEW f, NEW s, Fresh(s, f)
    PROVE  Line(s) /\ ItemsOf(s) = {s[1]} /\ s[1].file = f /\ s[1] \in Item
<1>1. PICK x \in Item : x.file = f /\ s \in {<<x>>, <<x, MARKER_END>>}
  BY DEF Fresh
<1>2. x # MARKER_END
  BY EndIsNoItem
<1>3. CASE s = <<x>>
  BY <1>1, <1>2, <1>3 DEF Line, ItemsOf, Piece
<1>4. CASE s = <<x, MARKER_END>>
  <2>1. /\ s \in Seq(Piece) /\ Len(s) = 2 /\ s[1] = x /\ s[2] = MARKER_END
        /\ DOMAIN s = {1, 2}
    BY <1>1, <1>4 DEF Piece
  <2>2. \A i \in 1..Len(s) - 1 : i = 1
    BY <2>1
  <2>3. \A i \in 1..Len(s) - 1 : s[i] # MARKER_END
    BY <1>2, <2>1, <2>2
  <2>5. s # <<>> /\ s[1] \in Item
    BY <2>1
  <2>6. Line(s)
    BY <2>1, <2>3, <2>5 DEF Line
  <2>4. ItemsOf(s) = {x}
    BY <1>2, <2>1 DEF ItemsOf
  <2> QED
    BY <1>1, <2>1, <2>6, <2>4
<1> QED
  BY <1>1, <1>3, <1>4

-----------------------------------------------------------------------------
(* What a step leaves alone.                                               *)

LEMMA PastKept ==
    ASSUME local' = local, delivered' = delivered, msg_list' = msg_list
    PROVE  Past' = Past
  BY DEF Past, Listed, ItemsOf

LEMMA ListedEmptied == ASSUME msg_list' = <<>> PROVE Listed' = {}
  BY DEF Listed

LEMMA PastType == ASSUME ShapeInv PROVE Past \subseteq Item /\ Listed \subseteq Item
<1>1. ItemsOf(local) \subseteq Item
  BY ItemsType DEF ShapeInv
<1>2. ItemsOf(delivered) \subseteq Item
  BY ItemsOfItems DEF ShapeInv
<1>3. \A i \in DOMAIN msg_list : msg_list[i] \in Seq(Piece)
  BY DEF ShapeInv, Line
<1>4. Listed \subseteq Item
  BY <1>3, ItemsType DEF Listed
<1> QED
  BY <1>1, <1>2, <1>4 DEF Past

LEMMA FreshKept ==
    ASSUME FreshInv, mml' = mml, message_list' = message_list,
           accepted' = accepted, Past' \subseteq Past
    PROVE  FreshInv'
<1>1. \A f \in Files : FreshList(mml[f], f)' /\ FreshList(message_list[f], f)'
  BY DEF FreshInv, FreshList
<1>2. \A f \in Files : \A k \in DOMAIN mml'[f] :
           Newer(mml'[f][k][1], message_list'[f])
  BY DEF FreshInv
<1>3. \A p \in Past' : /\ p.id <= accepted'
                       /\ Newer(p, mml'[p.file]) /\ Newer(p, message_list'[p.file])
  BY DEF FreshInv
<1>4. DOMAIN mml' = Files /\ DOMAIN message_list' = Files
  BY DEF FreshInv
<1> QED
  BY <1>1, <1>2, <1>3, <1>4 DEF FreshInv, Newer

LEMMA OrderKept ==
    ASSUME OrderInv, msg_list' = msg_list, delivered' = delivered,
           saved \subseteq saved',
           \A j \in DOMAIN msg_list : Unsent(j)' => Unsent(j)
    PROVE  OrderInv'
<1>1. \A x, y : After(x, y) => After(x, y)'
  BY DEF After
<1>2. OrderUnlessSaved'
  BY DEF OrderInv, OrderUnlessSaved
<1> QED
  BY <1>1, <1>2 DEF OrderInv

LEMMA OrderEmptied ==
    ASSUME OrderInv, msg_list' = <<>>, delivered' = delivered, saved' = saved
    PROVE  OrderInv'
<1>1. OrderUnlessSaved'
  BY DEF OrderInv, OrderUnlessSaved
<1>2. DOMAIN msg_list' = {}
  OBVIOUS
<1> QED
  BY <1>1, <1>2 DEF OrderInv

-----------------------------------------------------------------------------
(* The beginning.                                                          *)

LEMMA NoList == DOMAIN <<>> = {} /\ <<>> \in Seq(Seq(Piece))
  OBVIOUS

LEMMA NothingFresh ==
    ASSUME mml = Empty, message_list = Empty, Past = {} PROVE FreshInv
<1>1. \A f \in Files : mml[f] = <<>> /\ message_list[f] = <<>>
  BY DEF Empty
<1>2. DOMAIN mml = Files /\ DOMAIN message_list = Files
  BY DEF Empty
<1>3. \A f \in Files : FreshList(mml[f], f) /\ FreshList(message_list[f], f)
  BY <1>1, NoList DEF FreshList
<1>4. \A f \in Files : DOMAIN mml[f] = {}
  BY <1>1, NoList
<1> QED
  BY <1>2, <1>3, <1>4 DEF FreshInv

LEMMA RemoteInitInv == RemoteInit => RemoteInv
<1> SUFFICES ASSUME RemoteInit PROVE RemoteInv
  OBVIOUS
<1>1. ItemsOf(local) = {} /\ ItemsOf(delivered) = {} /\ Listed = {}
  BY DEF RemoteInit, ItemsOf, Listed
<1>2. FreshInv
  BY <1>1, NothingFresh DEF RemoteInit, Past
<1>3. RemoteTypeOK
  BY RemoteConstants DEF RemoteInit, RemoteTypeOK, NoSignal
<1>4. ShapeInv
  BY <1>1, <1>3 DEF ShapeInv, RemoteInit
<1>5. OrderInv
  BY DEF OrderInv, RemoteInit, OrderUnlessSaved
<1>6. RoundInv
  BY DEF RoundInv, RemoteInit
<1> QED
  BY <1>2, <1>4, <1>5, <1>6 DEF RemoteInv

(* The memory of a process that begins is empty, the file is as it was.    *)
LEMMA StartInv == ASSUME RemoteInv, Start PROVE RemoteInv'
<1>1. /\ msg_list' = <<>> /\ pc' = "start" /\ it' = 1 /\ process' = "starting"
      /\ mml' = Empty /\ message_list' = Empty
      /\ pending' = NoSignal /\ siginfo' \in SiginfoAtStart
      /\ local' = local /\ delivered' = delivered /\ saved' = saved
      /\ accepted' = accepted
  BY DEF Start, Begun, done
<1>2. Past' \subseteq Past
  <2>1. Listed' = {}
    BY <1>1, ListedEmptied
  <2>2. ItemsOf(local') = ItemsOf(local) /\ ItemsOf(delivered') = ItemsOf(delivered)
    BY <1>1
  <2> QED
    BY <2>1, <2>2 DEF Past
<1>3. FreshInv'
  <2>1. \A f \in Files : mml'[f] = <<>> /\ message_list'[f] = <<>>
    BY <1>1 DEF Empty
  <2>2. DOMAIN mml' = Files /\ DOMAIN message_list' = Files
    BY <1>1 DEF Empty
  <2>3. \A p \in Past : p.id <= accepted
    BY DEF RemoteInv, FreshInv
  <2>4. \A p \in Past : p.file \in Files
    BY PastType, ItemFields DEF RemoteInv
  <2>5. \A p \in Past' : /\ p.id <= accepted'
                         /\ Newer(p, mml'[p.file]) /\ Newer(p, message_list'[p.file])
    BY <1>1, <1>2, <2>1, <2>3, <2>4 DEF Newer
  <2>6. \A f \in Files : FreshList(mml[f], f)' /\ FreshList(message_list[f], f)'
    BY <2>1, NoList DEF FreshList
  <2> QED
    BY <2>1, <2>2, <2>5, <2>6 DEF FreshInv
<1>4. OrderInv'
  BY <1>1, OrderEmptied DEF RemoteInv
<1>5. RoundInv'
  BY <1>1 DEF RoundInv
<1>6. RemoteTypeOK'
  BY <1>1 DEF RemoteTypeOK, RemoteInv, ShapeInv
<1>7. local # <<>> => local[1] # MARKER_END
  BY EndIsNoItem DEF RemoteInv, ShapeInv, Line
<1>8. ItemsOf(local') \subseteq saved' /\ (local' # <<>> => Line(local'))
  BY <1>1 DEF RemoteInv, ShapeInv
<1>9. ShapeInv'
  BY <1>1, <1>6, <1>7, <1>8 DEF ShapeInv, RemoteInv, Line
<1> QED
  BY <1>3, <1>4, <1>5, <1>9 DEF RemoteInv

-----------------------------------------------------------------------------
(* The process and its other threads.                                      *)

Codes == {NoSignal, "raised", "evMsg", "0xFF"}

LEMMA QueuedType ==
    ASSUME ShapeInv, NEW c \in Codes PROVE Queued(c) \in Codes
  BY DEF Queued, ShapeInv, RemoteTypeOK, Codes

(* The thread, the file and the other logger stay as they are.             *)
LEMMA OutsideKeeps ==
    ASSUME RemoteInv, UNCHANGED <<thread, done>>,
           process' \in {"starting", "running", "stopping", "ended"},
           accepted' \in 0..MaxItems, pending' \in Codes
    PROVE  ShapeInv' /\ OrderInv' /\ RoundInv' /\ Past' = Past
<1>1. /\ pc' = pc /\ siginfo' = siginfo /\ mml' = mml /\ msg_list' = msg_list
      /\ fl_local_exists' = fl_local_exists /\ it' = it /\ is_ok' = is_ok
      /\ sent' = sent /\ local' = local /\ delivered' = delivered
      /\ saved' = saved
  BY DEF thread, done
<1>2. RemoteTypeOK'
  BY <1>1 DEF RemoteInv, ShapeInv, RemoteTypeOK, Codes
<1>3. ItemsOf(local') = ItemsOf(local)
  BY <1>1
<1>4. accepted' \in Nat
  BY RemoteConstants
<1>5. ShapeInv'
  BY <1>1, <1>2, <1>3, <1>4 DEF RemoteInv, ShapeInv, Line
<1>6. OrderInv'
  BY <1>1, OrderKept DEF RemoteInv, Unsent
<1>7. RoundInv'
  BY <1>1, <1>3 DEF RemoteInv, RoundInv, ItemsOf
<1> QED
  BY <1>1, <1>5, <1>6, <1>7, PastKept

LEMMA ProcessInv ==
    ASSUME RemoteInv, ClientMessageMade \/ Stop \/ End PROVE RemoteInv'
<1>1. /\ UNCHANGED <<thread, done>> /\ mml' = mml /\ message_list' = message_list
      /\ accepted' = accepted
      /\ process' \in {"starting", "running", "stopping", "ended"}
  BY DEF ClientMessageMade, Stop, End, thread
<1>2. pending' \in Codes
  <2>1. pending \in Codes
    BY DEF RemoteInv, ShapeInv, RemoteTypeOK, Codes
  <2>2. CASE Stop
    <3>1. Queued("0xFF") \in Codes
      BY QueuedType DEF RemoteInv, Codes
    <3> QED
      BY <2>2, <3>1 DEF Stop
  <2> QED
    BY <2>1, <2>2 DEF ClientMessageMade, End
<1>3. accepted' \in 0..MaxItems
  BY <1>1 DEF RemoteInv, ShapeInv, RemoteTypeOK
<1>4. ShapeInv' /\ OrderInv' /\ RoundInv' /\ Past' = Past
  BY <1>1, <1>2, <1>3, OutsideKeeps
<1> QED
  BY <1>1, <1>4, FreshKept DEF RemoteInv

LEMMA EmptyIsNewer ==
    ASSUME FreshInv, mml' = mml, message_list' = Empty, accepted' = accepted,
           Past' = Past, Past \subseteq Item
    PROVE  FreshInv'
<1>1. \A f \in Files : message_list'[f] = <<>> /\ DOMAIN message_list'[f] = {}
  BY NoList DEF Empty
<1>2. DOMAIN mml' = Files /\ DOMAIN message_list' = Files
  BY DEF Empty, FreshInv
<1>3. \A f \in Files : FreshList(mml[f], f)' /\ FreshList(message_list[f], f)'
  BY <1>1, NoList DEF FreshInv, FreshList
<1>4. \A f \in Files : \A k \in DOMAIN mml'[f] :
           Newer(mml'[f][k][1], message_list'[f])
  BY <1>1 DEF Newer
<1>5. \A p \in Past' : p.file \in Files
  BY ItemFields
<1>6. \A p \in Past' : /\ p.id <= accepted'
                       /\ Newer(p, mml'[p.file]) /\ Newer(p, message_list'[p.file])
  BY <1>1, <1>5 DEF FreshInv, Newer
<1> QED
  BY <1>2, <1>3, <1>4, <1>6 DEF FreshInv, Newer

LEMMA MessageThreadTakesInv ==
    ASSUME RemoteInv, MessageThreadTakes PROVE RemoteInv'
<1>1. /\ UNCHANGED <<thread, done>> /\ mml' = mml /\ message_list' = Empty
      /\ accepted' = accepted /\ process' = process /\ pending' = pending
  BY DEF MessageThreadTakes, thread
<1>2. /\ process' \in {"starting", "running", "stopping", "ended"}
      /\ accepted' \in 0..MaxItems /\ pending' \in Codes
  BY <1>1 DEF RemoteInv, ShapeInv, RemoteTypeOK, Codes
<1>3. ShapeInv' /\ OrderInv' /\ RoundInv' /\ Past' = Past
  BY <1>1, <1>2, OutsideKeeps
<1> QED
  BY <1>1, <1>3, EmptyIsNewer, PastType DEF RemoteInv

(* A message is newer than all that were accepted before.                  *)
LEMMA AddMessageInv ==
    ASSUME RemoteInv, NEW kind \in {"msg", "del"}, NEW f \in Files, AddMessage(kind, f)
    PROVE  RemoteInv'
<1> DEFINE x == [id |-> accepted + 1, kind |-> kind, file |-> f]
           s == IF kind = "msg" THEN <<x, MARKER_END>> ELSE <<x>>
<1>1. /\ UNCHANGED <<thread, done>> /\ mml' = mml
      /\ message_list' = [message_list EXCEPT ![f] = Append(@, s)]
      /\ accepted' = accepted + 1 /\ accepted < MaxItems /\ process' = process
      /\ pending' \in {pending, Queued("evMsg")}
  BY DEF AddMessage, thread
<1>2. accepted \in 0..MaxItems /\ accepted \in Nat /\ pending \in Codes
      /\ process \in {"starting", "running", "stopping", "ended"}
  BY DEF RemoteInv, ShapeInv, RemoteTypeOK, Codes
<1>3. accepted' \in 0..MaxItems
  BY <1>1, <1>2, RemoteConstants
<1>4. Queued("evMsg") \in Codes
  BY QueuedType DEF RemoteInv, Codes
<1>5. ShapeInv' /\ OrderInv' /\ RoundInv' /\ Past' = Past
  BY <1>1, <1>2, <1>3, <1>4, OutsideKeeps
<1>6. x \in Item /\ x.id = accepted + 1 /\ x.file = f
  BY <1>1, <1>2, RemoteConstants DEF Item
<1> HIDE DEF x
<1>7. Fresh(s, f)
  BY <1>6 DEF Fresh
<1>8. s \in Seq(Piece) /\ s[1] = x
  <2>1. x \in Piece /\ MARKER_END \in Piece
    BY <1>6 DEF Piece
  <2>2. <<x>> \in Seq(Piece) /\ <<x, MARKER_END>> \in Seq(Piece)
    BY <2>1
  <2>3. <<x>>[1] = x /\ <<x, MARKER_END>>[1] = x
    OBVIOUS
  <2> QED
    BY <2>2, <2>3, Zenon
<1> HIDE DEF s
<1> DEFINE old == message_list[f]
           new == Append(old, s)
<1>9. FreshInv
  BY DEF RemoteInv
<1>10. old \in Seq(Seq(Piece)) /\ FreshList(old, f)
  BY <1>9 DEF FreshInv, FreshList
<1>11. /\ new \in Seq(Seq(Piece)) /\ DOMAIN new = 1..Len(old) + 1
       /\ DOMAIN old = 1..Len(old) /\ Len(old) \in Nat
       /\ \A k \in 1..Len(old) : new[k] = old[k]
       /\ new[Len(old) + 1] = s
  BY <1>8, <1>10
<1>12. /\ message_list'[f] = new /\ DOMAIN message_list' = Files
       /\ \A g \in Files : g # f => message_list'[g] = message_list[g]
  BY <1>1, <1>9 DEF FreshInv
<1>13. \A k \in DOMAIN old : old[k][1].id \in Nat /\ old[k][1].id <= accepted
  BY <1>10, FreshIsLine, ItemFields DEF FreshList
<1> HIDE DEF new, old
<1>14. \A k \in DOMAIN new : \/ k \in DOMAIN old /\ new[k] = old[k]
                             \/ k = Len(old) + 1 /\ new[k][1] = x
  BY <1>8, <1>11
<1>15. \A k, l \in DOMAIN new : k < l => new[k][1].id < new[l][1].id
  <2> SUFFICES ASSUME NEW k \in DOMAIN new, NEW l \in DOMAIN new, k < l
               PROVE  new[k][1].id < new[l][1].id
    OBVIOUS
  <2>1. k \in DOMAIN old /\ new[k] = old[k]
    BY <1>11
  <2>2. CASE l \in DOMAIN old
    BY <1>10, <1>11, <2>1, <2>2 DEF FreshList
  <2>3. CASE l = Len(old) + 1
    <3>1. new[l][1].id = accepted + 1
      BY <1>6, <1>8, <1>11, <2>3
    <3> QED
      BY <1>2, <1>13, <2>1, <3>1
  <2> QED
    BY <1>14, <2>2, <2>3
<1>16. \A k \in DOMAIN new : Fresh(new[k], f) /\ new[k][1].id <= accepted + 1
  <2> TAKE k \in DOMAIN new
  <2>1. CASE k \in DOMAIN old /\ new[k] = old[k]
    BY <1>2, <1>10, <1>13, <2>1 DEF FreshList
  <2>2. CASE k = Len(old) + 1
    BY <1>2, <1>6, <1>7, <1>8, <1>11, <2>2
  <2> QED
    BY <1>14, <2>1, <2>2
<1>17. \A p \in Item : p.id <= accepted /\ Newer(p, old) => Newer(p, new)
  BY <1>2, <1>6, <1>14, ItemFields DEF Newer
<1>18. \A g \in Files : FreshList(mml[g], g)' /\ FreshList(message_list[g], g)'
  <2> TAKE g \in Files
  <2>1. FreshList(mml[g], g) /\ FreshList(message_list[g], g)
    BY <1>9 DEF FreshInv
  <2>2. \A list : FreshList(list, g) => \A k \in DOMAIN list : list[k][1].id \in Nat
    BY FreshIsLine, ItemFields DEF FreshList
  <2>3. \A list : FreshList(list, g) => \A k \in DOMAIN list : list[k][1].id <= accepted'
    <3> SUFFICES ASSUME NEW list, FreshList(list, g), NEW k \in DOMAIN list
                 PROVE  list[k][1].id <= accepted'
      OBVIOUS
    <3>1. list[k][1].id \in Nat /\ list[k][1].id <= accepted
      BY <2>2 DEF FreshList
    <3> QED
      BY <1>1, <1>2, <3>1
  <2>4. \A list : FreshList(list, g) => FreshList(list, g)'
    BY <2>3 DEF FreshList
  <2>5. CASE g = f
    <3>1. FreshList(message_list[g], g)'
      BY <1>1, <1>11, <1>12, <1>15, <1>16, <2>5 DEF FreshList
    <3> QED
      BY <1>1, <2>1, <2>4, <3>1 DEF FreshList
  <2>6. CASE g # f
    BY <1>1, <1>12, <2>1, <2>3, <2>6 DEF FreshList
  <2> QED
    BY <2>5, <2>6
<1>19. \A g \in Files : \A k \in DOMAIN mml'[g] :
           Newer(mml'[g][k][1], message_list'[g])
  <2> TAKE g \in Files
  <2> TAKE k \in DOMAIN mml'[g]
  <2>1. k \in DOMAIN mml[g] /\ mml'[g] = mml[g] /\ Newer(mml[g][k][1], message_list[g])
    BY <1>1, <1>9 DEF FreshInv
  <2>2. mml[g][k][1] \in Item /\ mml[g][k][1].id <= accepted
    BY <1>9, <2>1, FreshIsLine DEF FreshInv, FreshList
  <2> QED
    BY <1>12, <1>17, <2>1, <2>2 DEF old
<1>20. \A p \in Past' : /\ p.id <= accepted'
                        /\ Newer(p, mml'[p.file]) /\ Newer(p, message_list'[p.file])
  <2> TAKE p \in Past'
  <2>1. p \in Past /\ p \in Item /\ p.file \in Files /\ p.id \in Nat
    BY <1>5, PastType, ItemFields DEF RemoteInv
  <2>2. p.id <= accepted /\ Newer(p, mml[p.file]) /\ Newer(p, message_list[p.file])
    BY <1>9, <2>1 DEF FreshInv
  <2>3. p.id <= accepted'
    BY <1>1, <1>2, <2>1, <2>2
  <2> QED
    BY <1>1, <1>12, <1>17, <2>1, <2>2, <2>3 DEF old
<1>21. FreshInv'
  BY <1>1, <1>9, <1>12, <1>18, <1>19, <1>20 DEF FreshInv, Newer
<1> QED
  BY <1>5, <1>21 DEF RemoteInv

-----------------------------------------------------------------------------
(* The steps of the remote thread that leave its list alone.               *)

LEMMA WaitInv ==
    ASSUME RemoteInv, ReadLocal \/ Wake \/ TakeFromNull \/ Check
    PROVE  RemoteInv'
<1>1. /\ mml' = mml /\ message_list' = message_list /\ accepted' = accepted
      /\ msg_list' = msg_list /\ local' = local /\ delivered' = delivered
      /\ saved' = saved /\ it' = it /\ is_ok' = is_ok /\ sent' = sent
  BY DEF ReadLocal, Wake, TakeFromNull, Check, outside, thread, done
<1>2. /\ process' \in {process, "ended"} /\ accepted' \in 0..MaxItems
      /\ pending' \in Codes
      /\ siginfo' \in SiginfoAtStart \cup {"raised", "evMsg", "0xFF"}
      /\ pc' \in {"wait", "take", "ended"}
      /\ pc' = "ended" => msg_list = <<>>
  <2>1. /\ pending \in Codes
        /\ siginfo \in SiginfoAtStart \cup {"raised", "evMsg", "0xFF"}
        /\ accepted \in 0..MaxItems /\ (pc = "check" => msg_list = <<>>)
    BY DEF RemoteInv, ShapeInv, RemoteTypeOK, Codes
  <2>2. CASE ReadLocal
    BY <2>1, <2>2 DEF ReadLocal, Goto, Codes
  <2>3. CASE Wake
    BY <2>1, <2>3 DEF Wake, Goto, Codes
  <2>4. CASE TakeFromNull
    BY <2>1, <2>4 DEF TakeFromNull, thread
  <2>5. CASE Check
    BY <2>1, <2>5 DEF Check, Goto, outside
  <2> QED
    BY <2>2, <2>3, <2>4, <2>5
<1>3. RemoteTypeOK'
  BY <1>1, <1>2 DEF RemoteInv, ShapeInv, RemoteTypeOK, Codes
<1>4. ItemsOf(local') = ItemsOf(local)
  BY <1>1
<1>5. pc' # "recv" /\ pc' # "start"
  BY <1>2
<1>6. ShapeInv'
  BY <1>1, <1>3, <1>4, <1>5 DEF RemoteInv, ShapeInv, Line
<1>7. pc # "save" /\ pc # "send" /\ pc # "recv"
  BY DEF ReadLocal, Wake, TakeFromNull, Check, Goto
<1>8. OrderInv'
  BY <1>1, <1>7, OrderKept DEF RemoteInv, Unsent
<1>9. RoundInv'
  BY <1>2 DEF RoundInv
<1> QED
  BY <1>1, <1>6, <1>8, <1>9, PastKept, FreshKept DEF RemoteInv

LEMMA RunWorkInv == ASSUME RemoteInv, RunWork PROVE RemoteInv'
<1>1. /\ mml' = mml /\ message_list' = message_list /\ accepted' = accepted
      /\ msg_list' = msg_list /\ local' = local /\ delivered' = delivered
      /\ saved' = saved /\ it' = 1 /\ is_ok' = FALSE /\ sent' = FALSE
      /\ process' = process /\ pending' = pending /\ siginfo' = siginfo
      /\ pc = "append" /\ pc' = (IF msg_list = <<>> THEN "check" ELSE "send")
  BY DEF RunWork, Goto, outside, done
<1>2. Len(msg_list) \in Nat /\ msg_list \in Seq(Seq(Piece))
  BY DEF RemoteInv, ShapeInv
<1>3. 1 \in 1..Len(msg_list) + 1
  BY <1>2
<1>4. RemoteTypeOK'
  BY <1>1, <1>3 DEF RemoteInv, ShapeInv, RemoteTypeOK
<1>5. ItemsOf(local') = ItemsOf(local)
  BY <1>1
<1>6. ShapeInv'
  BY <1>1, <1>4, <1>5 DEF RemoteInv, ShapeInv, Line
<1>7. OrderInv'
  BY <1>1, OrderKept DEF RemoteInv, Unsent
<1>8. RoundInv'
  BY <1>1 DEF RoundInv
<1> QED
  BY <1>1, <1>6, <1>7, <1>8, PastKept, FreshKept DEF RemoteInv

(* The next message is tried, or the list is to be saved.                  *)
LEMMA NextMessageInv ==
    ASSUME RemoteInv, Received \/ SendFails \/ Fails PROVE RemoteInv'
<1>1. /\ mml' = mml /\ message_list' = message_list /\ accepted' = accepted
      /\ msg_list' = msg_list /\ local' = local /\ delivered' = delivered
      /\ saved' = saved /\ sent' = sent
      /\ process' = process /\ pending' = pending /\ siginfo' = siginfo
  BY DEF Received, SendFails, Fails, Goto, outside, done
<1>2. /\ Len(msg_list) \in Nat /\ it \in Nat
      /\ pc \in {"send", "recv"} => it \in 1..Len(msg_list) + 1
      /\ pc = "recv" => it <= Len(msg_list)
  BY DEF RemoteInv, ShapeInv, RemoteTypeOK
<1>3. it' \in 1..Len(msg_list) + 1 /\ it' \in Nat
  <2>1. CASE Received
    BY <1>2, <2>1 DEF Received, Goto
  <2>2. CASE SendFails
    BY <1>2, <2>2 DEF SendFails, Goto
  <2>3. CASE Fails
    BY <1>2, <2>3 DEF Fails, Goto
  <2> QED
    BY <2>1, <2>2, <2>3
<1>4. pc' \in {"send", "save"} /\ pc \in {"send", "recv"} /\ is_ok' \in {is_ok, FALSE}
  BY DEF Received, SendFails, Fails, Goto
<1>5. RemoteTypeOK'
  BY <1>1, <1>3, <1>4 DEF RemoteInv, ShapeInv, RemoteTypeOK
<1>6. ItemsOf(local') = ItemsOf(local) /\ pc' # "recv" /\ pc' # "start"
  BY <1>1, <1>4
<1>7. ShapeInv'
  BY <1>1, <1>3, <1>5, <1>6 DEF RemoteInv, ShapeInv, Line
<1>8. \A j \in DOMAIN msg_list : Unsent(j)' => Unsent(j)
  <2> SUFFICES ASSUME NEW j \in DOMAIN msg_list, Unsent(j)' PROVE Unsent(j)
    OBVIOUS
  <2>1. j \in Nat
    BY DEF RemoteInv, ShapeInv
  <2>2. CASE Received
    <3>1. pc = "recv" /\ it' = it + 1 /\ it' <= j
      BY <2>2 DEF Received, Goto, Unsent
    <3>2. it < j
      BY <1>2, <2>1, <3>1
    <3> QED
      BY <3>1, <3>2 DEF Unsent
  <2>3. CASE SendFails
    <3>1. pc = "send" /\ it' = it + 1 /\ it' <= j
      BY <2>3 DEF SendFails, Goto, Unsent
    <3>2. it <= j
      BY <1>2, <2>1, <3>1
    <3> QED
      BY <3>1, <3>2 DEF Unsent
  <2>4. CASE Fails
    BY <2>4 DEF Fails, Goto, Unsent
  <2> QED
    BY <2>2, <2>3, <2>4
<1>9. OrderInv'
  BY <1>1, <1>8, OrderKept DEF RemoteInv
<1>10. RoundInv'
  <2>1. is_ok' => sent'
    BY <1>1, <1>4 DEF RemoteInv, RoundInv
  <2>2. CASE Fails
    <3>1. \A i \in DOMAIN msg_list : ~ (i < 1)
      BY DEF RemoteInv, ShapeInv
    <3> QED
      BY <1>1, <2>1, <2>2, <3>1 DEF Fails, RoundInv
  <2>3. CASE Received \/ SendFails
    BY <2>1, <2>3 DEF Received, SendFails, Goto, RoundInv
  <2> QED
    BY <2>2, <2>3
<1> QED
  BY <1>1, <1>7, <1>9, <1>10, PastKept, FreshKept DEF RemoteInv

(* The list is dropped, and the local file is kept or emptied.             *)
LEMMA DroppedInv == ASSUME RemoteInv, Succeeds \/ Saved PROVE RemoteInv'
<1>1. /\ mml' = mml /\ message_list' = message_list /\ accepted' = accepted
      /\ msg_list' = <<>> /\ local' \in {local, <<>>} /\ delivered' = delivered
      /\ saved' = saved /\ sent' = sent /\ it' = it
      /\ process' = process /\ pending' = pending /\ siginfo' = siginfo
      /\ pc' = "check"
  BY DEF Succeeds, Saved, Goto, outside, done
<1>2. RemoteTypeOK'
  BY <1>1 DEF RemoteInv, ShapeInv, RemoteTypeOK
<1>3. local' \in Seq(Piece) /\ (local' # <<>> => Line(local'))
  <2>1. CASE local' = local
    BY <2>1 DEF RemoteInv, ShapeInv
  <2>2. CASE local' = <<>>
    BY <2>2
  <2> QED
    BY <1>1, <2>1, <2>2
<1>4. ItemsOf(local') \subseteq ItemsOf(local)
  BY <1>1, ItemsOfNone
<1>5. ShapeInv'
  BY <1>1, <1>2, <1>3, <1>4 DEF RemoteInv, ShapeInv, Line
<1>6. Past' \subseteq Past
  <2>1. Listed' = {}
    BY <1>1, ListedEmptied
  <2>2. ItemsOf(delivered') = ItemsOf(delivered)
    BY <1>1
  <2> QED
    BY <1>4, <2>1, <2>2 DEF Past
<1>7. OrderInv'
  BY <1>1, OrderEmptied DEF RemoteInv
<1>8. RoundInv'
  BY <1>1 DEF RoundInv
<1> QED
  BY <1>1, <1>5, <1>6, <1>7, <1>8, FreshKept DEF RemoteInv

-----------------------------------------------------------------------------
(* The steps that fill the list.                                           *)

(* A line of the file has no end in it, and begins with an item.           *)
LEMMA LineOfFile ==
    ASSUME NEW lines, Line(lines), NEW a \in 1..Len(lines), NEW b \in a..Len(lines) + 1,
           lines[a] # MARKER_END,
           \A k \in a..b - 1 : lines[k] # MARKER_END,
           b <= Len(lines) => lines[b] = MARKER_END
    PROVE  LET s == SubSeq(lines, a, b - 1)
           IN  Line(s) /\ ItemsOf(s) \subseteq ItemsOf(lines)
<1> DEFINE s == SubSeq(lines, a, b - 1)
<1>1. lines \in Seq(Piece) /\ Len(lines) \in Nat /\ a \in Nat /\ b \in Nat
  BY DEF Line
<1>2. b > a
  <2>1. CASE a = b
    BY <1>1, <2>1
  <2> QED
    BY <1>1, <2>1
<1>3. \A k \in a..b - 1 : k \in DOMAIN lines /\ lines[k] \in Piece
  BY <1>1
<1>4. s \in Seq(Piece) /\ Len(s) = b - a
  BY <1>1, <1>2, <1>3
<1>5. \A k \in 1..b - a : s[k] = lines[a + k - 1] /\ a + k - 1 \in a..b - 1
  BY <1>1, <1>2
<1> HIDE DEF s
<1>6. \A k \in 1..Len(s) : /\ s[k] # MARKER_END /\ s[k] \in Item
                           /\ \E j \in DOMAIN lines : s[k] = lines[j]
  <2> TAKE k \in 1..Len(s)
  <2>1. PICK j \in a..b - 1 : s[k] = lines[j]
    BY <1>4, <1>5
  <2> QED
    BY <1>3, <2>1 DEF Piece
<1>7. Line(s)
  <2>1. 1 \in 1..Len(s) /\ s # <<>>
    BY <1>1, <1>2, <1>4
  <2>2. \A i \in 1..Len(s) - 1 : i \in 1..Len(s)
    BY <1>4
  <2> QED
    BY <1>4, <1>6, <2>1, <2>2 DEF Line
<1>8. ItemsOf(s) \subseteq ItemsOf(lines)
  BY <1>4, <1>6 DEF ItemsOf
<1> QED
  BY <1>7, <1>8 DEF s

LEMMA GetLineInv == ASSUME RemoteInv, GetLine PROVE RemoteInv'
<1>1. /\ mml' = mml /\ message_list' = message_list /\ accepted' = accepted
      /\ local' = local /\ delivered' = delivered /\ saved' = saved
      /\ process' = process /\ pending' = pending /\ siginfo' = siginfo
      /\ pc = "start" /\ pc' = "start"
  BY DEF GetLine, Goto, outside, done
<1>2. PICK end \in it..Len(local) + 1 :
          /\ end \in LineEnds
          /\ \A k \in it..end - 1 : k \notin LineEnds
          /\ msg_list' = Append(msg_list, SubSeq(local, it, end - 1))
          /\ it' = end + 1
  BY DEF GetLine
<1>3. it \in 1..Len(local) /\ Line(local) /\ Len(local) \in Nat
      /\ local \in Seq(Piece) /\ local[it] # MARKER_END
  <2>1. /\ it <= Len(local) /\ it >= 1 /\ local \in Seq(Piece) /\ it \in Nat
        /\ (local # <<>> => Line(local)) /\ (it <= Len(local) => local[it] # MARKER_END)
    BY <1>1 DEF GetLine, RemoteInv, ShapeInv
  <2>2. local # <<>> /\ it \in 1..Len(local) /\ Len(local) \in Nat
    BY <2>1
  <2> QED
    BY <2>1, <2>2
<1>4. end \in 1..Len(local) + 1 /\ (end <= Len(local) => local[end] = MARKER_END)
  BY <1>2 DEF LineEnds
<1>5. \A k \in it..end - 1 : local[k] # MARKER_END
  <2> TAKE k \in it..end - 1
  <2>1. k \in 1..Len(local) + 1
    BY <1>3, <1>4
  <2> QED
    BY <1>2, <2>1 DEF LineEnds
<1> DEFINE s == SubSeq(local, it, end - 1)
<1>6. Line(s) /\ ItemsOf(s) \subseteq ItemsOf(local)
  BY <1>3, <1>4, <1>5, <1>2, LineOfFile
<1>7. s \in Seq(Piece) /\ s[1] \in ItemsOf(local) /\ s[1] \in Item /\ s # <<>>
  BY <1>6, HeadIsItem DEF Line
<1>8. msg_list \in Seq(Seq(Piece)) /\ msg_list' = Append(msg_list, s)
  BY <1>2 DEF RemoteInv, ShapeInv
<1> HIDE DEF s
<1>9. /\ msg_list' \in Seq(Seq(Piece)) /\ DOMAIN msg_list' = 1..Len(msg_list) + 1
      /\ DOMAIN msg_list = 1..Len(msg_list) /\ Len(msg_list) \in Nat
      /\ \A i \in DOMAIN msg_list : msg_list'[i] = msg_list[i]
      /\ msg_list'[Len(msg_list) + 1] = s
  BY <1>7, <1>8
<1>10. \A i \in DOMAIN msg_list' : \/ i \in DOMAIN msg_list /\ msg_list'[i] = msg_list[i]
                                   \/ i = Len(msg_list) + 1 /\ msg_list'[i] = s
  BY <1>9
<1>11. \A i \in DOMAIN msg_list' : Line(msg_list'[i]) /\ msg_list'[i] # <<>>
                                   /\ msg_list'[i][1] \in Item
  BY <1>6, <1>7, <1>10 DEF RemoteInv, ShapeInv, RemoteTypeOK
<1>12. RemoteTypeOK'
  BY <1>1, <1>11 DEF RemoteInv, ShapeInv, RemoteTypeOK
<1>13. it' \in Nat /\ it' >= 1 /\ (it' <= Len(local) => local[it'] # MARKER_END)
  <2>1. end \in Nat /\ it' = end + 1
    BY <1>2, <1>4
  <2>2. CASE it' <= Len(local)
    <3>1. end \in 1..Len(local) - 1 /\ end <= Len(local)
      BY <1>3, <1>4, <2>1, <2>2
    <3>2. local[end + 1] # MARKER_END
      BY <1>3, <1>4, <3>1 DEF Line
    <3> QED
      BY <2>1, <3>2
  <2> QED
    BY <2>1, <2>2
<1>14. ItemsOf(local') = ItemsOf(local)
  BY <1>1
<1>15. ShapeInv'
  BY <1>1, <1>9, <1>11, <1>12, <1>13, <1>14 DEF RemoteInv, ShapeInv, Line
<1>16. Past' \subseteq Past
  <2>1. Listed' \subseteq Listed \cup ItemsOf(local)
    BY <1>6, <1>10 DEF Listed
  <2>2. ItemsOf(delivered') = ItemsOf(delivered)
    BY <1>1
  <2> QED
    BY <1>14, <2>1, <2>2 DEF Past
<1>17. s[1] \in saved
  BY <1>7 DEF RemoteInv, ShapeInv
<1>18. OrderInv'
  <2>1. OrderUnlessSaved'
    BY <1>1 DEF RemoteInv, OrderInv, OrderUnlessSaved
  <2>2. \A x, y : After(x, y)' <=> After(x, y)
    BY <1>1 DEF After
  <2>3. \A x : After(x, s[1])
    BY <1>17 DEF After
  <2>4. \A i, j \in DOMAIN msg_list' :
            i < j => After(msg_list'[i][1], msg_list'[j][1])
    <3> SUFFICES ASSUME NEW i \in DOMAIN msg_list', NEW j \in DOMAIN msg_list', i < j
                 PROVE  After(msg_list'[i][1], msg_list'[j][1])
      OBVIOUS
    <3>1. CASE j = Len(msg_list) + 1
      BY <1>9, <2>3, <3>1
    <3>2. CASE j \in DOMAIN msg_list
      <4>1. i \in DOMAIN msg_list
        BY <1>9, <3>2
      <4> QED
        BY <1>9, <3>2, <4>1 DEF RemoteInv, OrderInv
    <3> QED
      BY <1>10, <3>1, <3>2
  <2>5. \A i \in DOMAIN delivered, j \in DOMAIN msg_list' :
            After(delivered[i], msg_list'[j][1])
    BY <1>1, <1>10, <2>3 DEF RemoteInv, OrderInv, Unsent
  <2> QED
    BY <1>1, <2>1, <2>2, <2>4, <2>5 DEF OrderInv
<1>19. RoundInv'
  BY <1>1 DEF RoundInv
<1> QED
  BY <1>1, <1>15, <1>16, <1>18, <1>19, FreshKept DEF RemoteInv

(* The buffer is newer than the list, whatever was taken before.           *)
LEMMA TakeInv == ASSUME RemoteInv, Take PROVE RemoteInv'
<1>1. /\ mml' = message_list /\ message_list' = Empty /\ accepted' = accepted
      /\ msg_list' = msg_list /\ local' = local /\ delivered' = delivered
      /\ saved' = saved /\ it' = it /\ is_ok' = is_ok /\ sent' = sent
      /\ process' = process /\ pending' = pending /\ siginfo' = siginfo
      /\ pc = "take" /\ pc' = "append"
  BY DEF Take, Goto, done
<1>2. RemoteTypeOK'
  BY <1>1 DEF RemoteInv, ShapeInv, RemoteTypeOK
<1>3. ItemsOf(local') = ItemsOf(local)
  BY <1>1
<1>4. ShapeInv'
  BY <1>1, <1>2, <1>3 DEF RemoteInv, ShapeInv, Line
<1>5. OrderInv'
  BY <1>1, OrderKept DEF RemoteInv, Unsent
<1>6. RoundInv'
  BY <1>1 DEF RoundInv
<1>7. FreshInv'
  <2>1. \A f \in Files : message_list'[f] = <<>> /\ DOMAIN message_list'[f] = {}
    BY <1>1, NoList DEF Empty
  <2>2. DOMAIN message_list' = Files /\ DOMAIN mml' = Files
    BY <1>1 DEF Empty, RemoteInv, FreshInv
  <2>3. Past' = Past
    BY <1>1, PastKept
  <2>4. \A p \in Past : p.file \in Files
    BY PastType, ItemFields DEF RemoteInv
  <2>5. \A f \in Files : FreshList(mml[f], f)' /\ FreshList(message_list[f], f)'
    BY <1>1, <2>1, NoList DEF RemoteInv, FreshInv, FreshList
  <2>6. \A f \in Files : \A k \in DOMAIN mml'[f] :
            Newer(mml'[f][k][1], message_list'[f])
    BY <2>1 DEF Newer
  <2>7. \A p \in Past' : /\ p.id <= accepted'
                         /\ Newer(p, mml'[p.file]) /\ Newer(p, message_list'[p.file])
    BY <1>1, <2>1, <2>3, <2>4 DEF RemoteInv, FreshInv, Newer
  <2> QED
    BY <2>2, <2>5, <2>6, <2>7 DEF FreshInv, Newer
<1> QED
  BY <1>4, <1>5, <1>6, <1>7 DEF RemoteInv

(* What stays of a list that is too long is its end.                       *)
LEMMA KeptIsTheEnd ==
    ASSUME msg_list \in Seq(Seq(Piece))
    PROVE  /\ Kept \in Seq(Seq(Piece))
           /\ \E d \in Nat : \A k \in 1..Len(Kept) :
                  k + d \in DOMAIN msg_list /\ Kept[k] = msg_list[k + d]
<1> DEFINE sz == Len(msg_list)
           d == (sz * 3) \div 4
<1>1. CASE sz <= m_size_in_memo
  <2>1. Kept = msg_list
    BY <1>1 DEF Kept
  <2>2. \A k \in 1..Len(Kept) : k + 0 \in DOMAIN msg_list /\ Kept[k] = msg_list[k + 0]
    BY <2>1
  <2> QED
    BY <2>1, <2>2
<1>2. CASE ~ (sz <= m_size_in_memo)
  <2>1. Kept = SubSeq(msg_list, d + 1, sz)
    BY <1>2 DEF Kept
  <2>2. sz \in Nat /\ d \in 0..sz
    OBVIOUS
  <2> HIDE DEF d
  <2>3. Kept \in Seq(Seq(Piece)) /\ Len(Kept) = sz - d
    BY <2>1, <2>2
  <2>4. \A k \in 1..sz - d : k + d \in DOMAIN msg_list
                             /\ SubSeq(msg_list, d + 1, sz)[k] = msg_list[k + d]
    BY <2>2
  <2>5. \A k \in 1..Len(Kept) : k + d \in DOMAIN msg_list /\ Kept[k] = msg_list[k + d]
    BY <2>1, <2>3, <2>4
  <2>6. d \in Nat
    BY <2>2
  <2> QED
    BY <2>3, <2>5, <2>6
<1> QED
  BY <1>1, <1>2

LEMMA AppendFileInv ==
    ASSUME RemoteInv, NEW f \in Files, AppendFile(f) PROVE RemoteInv'
<1>1. /\ message_list' = message_list /\ accepted' = accepted
      /\ mml' = [mml EXCEPT ![f] = <<>>] /\ msg_list' = Kept \o mml[f]
      /\ local' = local /\ delivered' = delivered
      /\ saved' = saved /\ it' = it /\ is_ok' = is_ok /\ sent' = sent
      /\ process' = process /\ pending' = pending /\ siginfo' = siginfo
      /\ pc = "append" /\ pc' = "append"
  BY DEF AppendFile, Goto, outside, done
<1> DEFINE new == mml[f]
           n == Len(Kept)
<1>2. new \in Seq(Seq(Piece)) /\ FreshList(new, f) /\ msg_list \in Seq(Seq(Piece))
  BY DEF RemoteInv, FreshInv, FreshList, ShapeInv
<1>3. Kept \in Seq(Seq(Piece)) /\ n \in Nat
  BY <1>2, KeptIsTheEnd
<1>4. PICK d \in Nat : \A k \in 1..n :
          k + d \in DOMAIN msg_list /\ Kept[k] = msg_list[k + d]
  BY <1>2, KeptIsTheEnd
<1>5. msg_list' \in Seq(Seq(Piece)) /\ DOMAIN msg_list' = 1..n + Len(new)
      /\ DOMAIN new = 1..Len(new) /\ Len(new) \in Nat
  BY <1>1, <1>2, <1>3
<1>6. \A i \in DOMAIN msg_list' :
          \/ /\ i \in 1..n /\ i + d \in DOMAIN msg_list
             /\ msg_list'[i] = msg_list[i + d]
          \/ i > n /\ i - n \in DOMAIN new /\ msg_list'[i] = new[i - n]
  <2> TAKE i \in DOMAIN msg_list'
  <2>1. CASE i <= n
    <3>1. i \in 1..n /\ msg_list'[i] = Kept[i]
      BY <1>1, <1>2, <1>3, <1>5, <2>1
    <3> QED
      BY <1>4, <3>1
  <2>2. CASE i > n
    BY <1>1, <1>2, <1>3, <1>5, <2>2
  <2> QED
    BY <1>3, <1>5, <2>1, <2>2
<1> HIDE DEF n, new
<1>7. \A k \in DOMAIN new : /\ Line(new[k]) /\ ItemsOf(new[k]) = {new[k][1]}
                            /\ new[k][1].file = f /\ new[k][1] \in Item
                            /\ new[k][1].id <= accepted
  BY <1>2, FreshIsLine DEF FreshList
<1>8. \A i \in DOMAIN msg_list' : Line(msg_list'[i])
  BY <1>6, <1>7 DEF RemoteInv, ShapeInv
<1>9. \A i \in DOMAIN msg_list' : msg_list'[i] # <<>> /\ msg_list'[i][1] \in Item
  BY <1>8 DEF Line
<1>10. RemoteTypeOK'
  BY <1>1, <1>9 DEF RemoteInv, ShapeInv, RemoteTypeOK
<1>11. ItemsOf(local') = ItemsOf(local) /\ ItemsOf(delivered') = ItemsOf(delivered)
  BY <1>1
<1>12. ShapeInv'
  BY <1>1, <1>5, <1>8, <1>10, <1>11 DEF RemoteInv, ShapeInv, Line
<1>13. \A p \in Past' : p \in Past \/ \E k \in DOMAIN new : p = new[k][1]
  <2>1. \A p \in Listed' : p \in Listed \/ \E k \in DOMAIN new : p = new[k][1]
    <3> SUFFICES ASSUME NEW i \in DOMAIN msg_list', NEW p \in ItemsOf(msg_list'[i])
                 PROVE  p \in Listed \/ \E k \in DOMAIN new : p = new[k][1]
      BY DEF Listed
    <3>1. CASE i \in 1..n /\ i + d \in DOMAIN msg_list
               /\ msg_list'[i] = msg_list[i + d]
      BY <3>1 DEF Listed
    <3>2. CASE i - n \in DOMAIN new /\ msg_list'[i] = new[i - n]
      BY <1>7, <3>2
    <3> QED
      BY <1>6, <3>1, <3>2
  <2> QED
    BY <1>11, <2>1 DEF Past
<1>14. FreshInv
  BY DEF RemoteInv
<1>15. \A p \in Past : Newer(p, mml[p.file]) /\ Newer(p, message_list[p.file])
                       /\ p.id <= accepted
  BY <1>14 DEF FreshInv
<1>16. \A g \in Files : IF g = f THEN mml'[g] = <<>> /\ DOMAIN mml'[g] = {}
                        ELSE mml'[g] = mml[g]
  BY <1>1, <1>14, NoList DEF FreshInv
<1>17. FreshInv'
  <2>1. DOMAIN mml' = Files /\ DOMAIN message_list' = Files
    BY <1>1, <1>14 DEF FreshInv
  <2>2. \A g \in Files : FreshList(mml[g], g)' /\ FreshList(message_list[g], g)'
    BY <1>1, <1>14, <1>16, NoList DEF FreshInv, FreshList
  <2>3. \A g \in Files : \A k \in DOMAIN mml'[g] :
            Newer(mml'[g][k][1], message_list'[g])
    BY <1>1, <1>14, <1>16 DEF FreshInv
  <2>4. \A p \in Past' : /\ p.id <= accepted'
                         /\ Newer(p, mml'[p.file]) /\ Newer(p, message_list'[p.file])
    <3> TAKE p \in Past'
    <3>1. CASE p \in Past
      <4>1. p.file \in Files
        BY <3>1, PastType, ItemFields DEF RemoteInv
      <4>2. Newer(p, mml'[p.file])
        BY <1>15, <1>16, <3>1, <4>1 DEF Newer
      <4> QED
        BY <1>1, <1>15, <3>1, <4>2
    <3>2. CASE \E k \in DOMAIN new : p = new[k][1]
      <4>1. PICK k \in DOMAIN new : p = new[k][1]
        BY <3>2
      <4>2. p.file = f /\ p.id <= accepted
        BY <1>7, <4>1
      <4>3. Newer(p, message_list[f])
        BY <1>14, <4>1 DEF FreshInv, new
      <4>4. Newer(p, mml'[f])
        BY <1>16 DEF Newer
      <4> QED
        BY <1>1, <4>2, <4>3, <4>4
    <3> QED
      BY <1>13, <3>1, <3>2
  <2> QED
    BY <2>1, <2>2, <2>3, <2>4 DEF FreshInv, Newer
<1>18. \A p \in Past : \A k \in DOMAIN new : After(p, new[k][1])
  BY <1>7, <1>15 DEF After, Newer, new
<1>19. OrderInv'
  <2>1. OrderUnlessSaved'
    BY <1>1 DEF RemoteInv, OrderInv, OrderUnlessSaved
  <2>2. \A x, y : After(x, y)' <=> After(x, y)
    BY <1>1 DEF After
  <2>3. \A i \in DOMAIN msg_list : msg_list[i][1] \in Past
    BY HeadIsItem DEF RemoteInv, ShapeInv, Past, Listed
  <2>4. \A i, j \in DOMAIN msg_list' :
            i < j => After(msg_list'[i][1], msg_list'[j][1])
    <3> SUFFICES ASSUME NEW i \in DOMAIN msg_list', NEW j \in DOMAIN msg_list', i < j
                 PROVE  After(msg_list'[i][1], msg_list'[j][1])
      OBVIOUS
    <3>1. CASE i \in 1..n /\ j \in 1..n
      <4>1. /\ i + d \in DOMAIN msg_list /\ j + d \in DOMAIN msg_list /\ i + d < j + d
            /\ msg_list'[i] = msg_list[i + d] /\ msg_list'[j] = msg_list[j + d]
        BY <1>3, <1>6, <3>1
      <4> QED
        BY <4>1 DEF RemoteInv, OrderInv
    <3>2. CASE i \in 1..n /\ j > n
      <4>1. /\ i + d \in DOMAIN msg_list /\ msg_list'[i] = msg_list[i + d]
            /\ j - n \in DOMAIN new /\ msg_list'[j] = new[j - n]
        BY <1>3, <1>6, <3>2
      <4> QED
        BY <1>18, <2>3, <4>1
    <3>3. CASE i > n
      <4>1. /\ i - n \in DOMAIN new /\ msg_list'[i] = new[i - n]
            /\ j - n \in DOMAIN new /\ msg_list'[j] = new[j - n]
            /\ i - n < j - n
        BY <1>3, <1>5, <1>6, <3>3
      <4>2. PICK k \in DOMAIN new : k = i - n
        BY <4>1
      <4>3. PICK l \in DOMAIN new : l = j - n
        BY <4>1
      <4>4. new[k][1].id < new[l][1].id
        BY <1>2, <4>1, <4>2, <4>3 DEF FreshList
      <4> QED
        BY <4>1, <4>2, <4>3, <4>4 DEF After
    <3> QED
      BY <1>3, <1>5, <1>6, <3>1, <3>2, <3>3
  <2>5. \A i \in DOMAIN delivered, j \in DOMAIN msg_list' :
            After(delivered[i], msg_list'[j][1])
    <3> TAKE i \in DOMAIN delivered, j \in DOMAIN msg_list'
    <3>1. delivered[i] \in Past
      BY ItemsOfItems DEF RemoteInv, ShapeInv, Past
    <3>2. CASE j \in 1..n /\ j + d \in DOMAIN msg_list
               /\ msg_list'[j] = msg_list[j + d]
      BY <1>1, <3>2 DEF RemoteInv, OrderInv, Unsent
    <3>3. CASE j - n \in DOMAIN new /\ msg_list'[j] = new[j - n]
      BY <1>18, <3>1, <3>3
    <3> QED
      BY <1>6, <3>2, <3>3
  <2> QED
    BY <1>1, <2>1, <2>2, <2>4, <2>5 DEF OrderInv
<1>20. RoundInv'
  BY <1>1 DEF RoundInv
<1> QED
  BY <1>12, <1>17, <1>19, <1>20 DEF RemoteInv

-----------------------------------------------------------------------------
(* Sending and saving.                                                     *)

LEMMA SentInv == ASSUME RemoteInv, Sent PROVE RemoteInv'
<1>1. /\ mml' = mml /\ message_list' = message_list /\ accepted' = accepted
      /\ msg_list' = msg_list /\ local' = local
      /\ delivered' = Append(delivered, Head(msg_list[it]))
      /\ saved' = saved /\ sent' = TRUE /\ is_ok' = TRUE /\ it' = it
      /\ process' = process /\ pending' = pending /\ siginfo' = siginfo
      /\ pc = "send" /\ pc' = "recv" /\ it <= Len(msg_list)
  BY DEF Sent, Goto, outside
<1>2. it \in DOMAIN msg_list /\ it \in Nat
  BY <1>1 DEF RemoteInv, ShapeInv, RemoteTypeOK
<1> DEFINE x == msg_list[it][1]
<1>3. x \in Item /\ Head(msg_list[it]) = x /\ x \in ItemsOf(msg_list[it])
  BY <1>2, HeadIsItem DEF RemoteInv, ShapeInv
<1>4. delivered \in Seq(Item)
  BY DEF RemoteInv, ShapeInv
<1> HIDE DEF x
<1>5. /\ delivered' \in Seq(Item) /\ DOMAIN delivered' = 1..Len(delivered) + 1
      /\ DOMAIN delivered = 1..Len(delivered) /\ Len(delivered) \in Nat
      /\ \A i \in DOMAIN delivered : delivered'[i] = delivered[i]
      /\ delivered'[Len(delivered) + 1] = x
  BY <1>1, <1>3, <1>4
<1>6. \A i \in DOMAIN delivered' : \/ i \in DOMAIN delivered
                                   \/ i = Len(delivered) + 1
  BY <1>5
<1>7. RemoteTypeOK'
  <2>1. \A i \in DOMAIN delivered' : delivered'[i] \in Item
    BY <1>5
  <2>2. it \in 1..Len(msg_list) + 1
    BY <1>1 DEF RemoteInv, ShapeInv, RemoteTypeOK
  <2> QED
    BY <1>1, <2>1, <2>2 DEF RemoteInv, ShapeInv, RemoteTypeOK
<1>8. ItemsOf(local') = ItemsOf(local)
  BY <1>1
<1>9. ShapeInv'
  BY <1>1, <1>2, <1>5, <1>7, <1>8 DEF RemoteInv, ShapeInv, Line
<1>10. Past' \subseteq Past
  <2>1. Listed' = Listed
    BY <1>1 DEF Listed, ItemsOf
  <2>2. x \in Listed
    BY <1>2, <1>3 DEF Listed
  <2>3. ItemsOf(delivered') \subseteq ItemsOf(delivered) \cup {x}
    <3> SUFFICES ASSUME NEW i \in DOMAIN delivered'
                 PROVE  delivered'[i] \in ItemsOf(delivered) \cup {x}
      BY DEF ItemsOf
    <3>1. CASE i \in DOMAIN delivered
      BY <1>4, <1>5, <3>1, ItemsOfItems
    <3>2. CASE i = Len(delivered) + 1
      BY <1>5, <3>2
    <3> QED
      BY <1>6, <3>1, <3>2
  <2> QED
    BY <1>8, <2>1, <2>2, <2>3 DEF Past
<1>11. \A j \in DOMAIN msg_list : Unsent(j)' => Unsent(j) /\ it < j
  BY <1>1, <1>2 DEF Unsent, RemoteInv, ShapeInv
<1>12. Unsent(it)
  BY <1>1, <1>2 DEF Unsent
<1>13. \A a, b : After(a, b)' <=> After(a, b)
  BY <1>1 DEF After
<1>14. OrderInv'
  <2>1. \A i \in DOMAIN delivered : After(delivered[i], x)
    BY <1>2, <1>12 DEF RemoteInv, OrderInv, x
  <2>2. \A i, j \in DOMAIN delivered : i < j => After(delivered[i], delivered[j])
    <3> SUFFICES ASSUME NEW i \in DOMAIN delivered, NEW j \in DOMAIN delivered, i < j
                 PROVE  After(delivered[i], delivered[j])
      OBVIOUS
    <3>1. i \in 1..j - 1
      BY <1>5
    <3> QED
      BY <3>1 DEF RemoteInv, OrderInv, OrderUnlessSaved, After
  <2>3. \A i, j \in DOMAIN delivered' : i < j => After(delivered'[i], delivered'[j])
    <3> SUFFICES ASSUME NEW i \in DOMAIN delivered', NEW j \in DOMAIN delivered', i < j
                 PROVE  After(delivered'[i], delivered'[j])
      OBVIOUS
    <3>1. i \in DOMAIN delivered /\ delivered'[i] = delivered[i]
      BY <1>5
    <3>2. CASE j \in DOMAIN delivered
      BY <1>5, <2>2, <3>1, <3>2
    <3>3. CASE j = Len(delivered) + 1
      BY <1>5, <2>1, <3>1, <3>3
    <3> QED
      BY <1>6, <3>2, <3>3
  <2>4. OrderUnlessSaved'
    <3> SUFFICES ASSUME NEW j \in DOMAIN delivered', NEW i \in 1..j - 1,
                        delivered'[i].file = delivered'[j].file
                 PROVE  delivered'[i].id < delivered'[j].id \/ delivered'[j] \in saved
      BY <1>1 DEF OrderUnlessSaved
    <3>1. i \in DOMAIN delivered' /\ i < j
      BY <1>5
    <3> QED
      BY <2>3, <3>1 DEF After
  <2>5. \A i, j \in DOMAIN msg_list' :
            i < j => After(msg_list'[i][1], msg_list'[j][1])
    BY <1>1 DEF RemoteInv, OrderInv
  <2>6. \A i \in DOMAIN delivered', j \in DOMAIN msg_list' :
            Unsent(j)' => After(delivered'[i], msg_list'[j][1])
    <3> SUFFICES ASSUME NEW i \in DOMAIN delivered', NEW j \in DOMAIN msg_list, Unsent(j)'
                 PROVE  After(delivered'[i], msg_list[j][1])
      BY <1>1
    <3>1. Unsent(j) /\ it < j
      BY <1>11
    <3>2. CASE i \in DOMAIN delivered
      BY <1>5, <3>1, <3>2 DEF RemoteInv, OrderInv
    <3>3. CASE i = Len(delivered) + 1
      BY <1>2, <1>5, <3>1, <3>3 DEF RemoteInv, OrderInv, x
    <3> QED
      BY <1>6, <3>2, <3>3
  <2> QED
    BY <1>13, <2>4, <2>5, <2>6 DEF OrderInv
<1>15. RoundInv'
  BY <1>1 DEF RoundInv
<1> QED
  BY <1>1, <1>9, <1>10, <1>14, <1>15, FreshKept DEF RemoteInv

LEMMA SaveInv == ASSUME RemoteInv, Save PROVE RemoteInv'
<1>1. /\ mml' = mml /\ message_list' = message_list /\ accepted' = accepted
      /\ msg_list' = msg_list /\ local' = local \o msg_list[it]
      /\ delivered' = delivered /\ saved' = saved \cup ItemsOf(msg_list[it])
      /\ sent' = sent /\ is_ok' = is_ok /\ it' = it + 1
      /\ process' = process /\ pending' = pending /\ siginfo' = siginfo
      /\ pc = "save" /\ pc' = "save" /\ it <= Len(msg_list)
  BY DEF Save, Goto, outside
<1>2. it \in DOMAIN msg_list /\ it \in Nat /\ it' \in 1..Len(msg_list) + 1
  BY <1>1 DEF RemoteInv, ShapeInv, RemoteTypeOK
<1>3. Line(msg_list[it]) /\ local \in Seq(Piece) /\ (local # <<>> => Line(local))
  BY <1>2 DEF RemoteInv, ShapeInv
<1>4. Line(local') /\ local' \in Seq(Piece)
  <2>1. CASE local = <<>>
    <3>1. local' = msg_list[it]
      BY <1>1, <1>3, <2>1 DEF Line
    <3> QED
      BY <1>3, <3>1 DEF Line
  <2>2. CASE local # <<>>
    <3>1. Line(local')
      BY <1>1, <1>3, <2>2, LineConcat
    <3> QED
      BY <3>1 DEF Line
  <2> QED
    BY <2>1, <2>2
<1>5. ItemsOf(local') = ItemsOf(local) \cup ItemsOf(msg_list[it])
  BY <1>1, <1>3, ItemsOfConcat DEF Line
<1>6. RemoteTypeOK'
  BY <1>1, <1>2 DEF RemoteInv, ShapeInv, RemoteTypeOK
<1>7. it' \in Nat
  BY <1>1, <1>2
<1>8. ShapeInv'
  BY <1>1, <1>4, <1>5, <1>6, <1>7 DEF RemoteInv, ShapeInv, Line
<1>9. Past' \subseteq Past
  <2>1. Listed' = Listed /\ ItemsOf(msg_list[it]) \subseteq Listed
    BY <1>1, <1>2 DEF Listed, ItemsOf
  <2>2. ItemsOf(delivered') = ItemsOf(delivered)
    BY <1>1
  <2> QED
    BY <1>5, <2>1, <2>2 DEF Past
<1>10. OrderInv'
  BY <1>1, OrderKept DEF RemoteInv, Unsent
<1>11. RoundInv'
  <2>1. \A i \in DOMAIN msg_list : i < it + 1 => i < it \/ i = it
    <3>1. \A i \in DOMAIN msg_list : i \in Nat
      BY DEF RemoteInv, ShapeInv
    <3> QED
      BY <1>2, <3>1
  <2>2. \A i \in DOMAIN msg_list :
            i < it => ItemsOf(msg_list[i]) \subseteq ItemsOf(local)
    BY <1>1 DEF RemoteInv, RoundInv
  <2>3. \A i \in DOMAIN msg_list :
            i < it + 1 => ItemsOf(msg_list[i]) \subseteq ItemsOf(local')
    BY <1>5, <2>1, <2>2
  <2>4. \A i \in DOMAIN msg_list' :
            i < it' => ItemsOf(msg_list'[i]) \subseteq ItemsOf(local')
    BY <1>1, <2>3
  <2>5. is_ok' => sent'
    BY <1>1 DEF RemoteInv, RoundInv
  <2> QED
    BY <2>4, <2>5 DEF RoundInv
<1> QED
  BY <1>1, <1>8, <1>9, <1>10, <1>11, FreshKept DEF RemoteInv

-----------------------------------------------------------------------------
(* The theorems.                                                           *)

LEMMA RemoteNextInv == RemoteInv /\ [RemoteNext]_remote => RemoteInv'
<1> SUFFICES ASSUME RemoteInv, [RemoteNext]_remote PROVE RemoteInv'
  OBVIOUS
<1>1. CASE \E k \in {"msg", "del"}, f \in Files : AddMessage(k, f)
  BY <1>1, AddMessageInv
<1>2. CASE ClientMessageMade \/ Stop \/ End
  BY <1>2, ProcessInv
<1>3. CASE MessageThreadTakes
  BY <1>3, MessageThreadTakesInv
<1>4. CASE Start
  BY <1>4, StartInv
<1>5. CASE RemoteStep
  <2>1. CASE GetLine
    BY <2>1, GetLineInv
  <2>2. CASE ReadLocal \/ Wake \/ TakeFromNull \/ Check
    BY <2>2, WaitInv
  <2>3. CASE Take
    BY <2>3, TakeInv
  <2>4. CASE \E f \in Files : AppendFile(f)
    BY <2>4, AppendFileInv
  <2>5. CASE RunWork
    BY <2>5, RunWorkInv
  <2>6. CASE Sent
    BY <2>6, SentInv
  <2>7. CASE Received \/ SendFails \/ Fails
    BY <2>7, NextMessageInv
  <2>8. CASE Succeeds \/ Saved
    BY <2>8, DroppedInv
  <2>9. CASE Save
    BY <2>9, SaveInv
  <2> QED
    BY <1>5, <2>1, <2>2, <2>3, <2>4, <2>5, <2>6, <2>7, <2>8, <2>9
    DEF RemoteStep, Work
<1>6. CASE UNCHANGED remote
  <2>1. /\ UNCHANGED <<thread, done>> /\ mml' = mml /\ message_list' = message_list
        /\ accepted' = accepted /\ process' = process /\ pending' = pending
    BY <1>6 DEF remote, outside, thread
  <2>2. /\ process \in {"starting", "running", "stopping", "ended"}
        /\ accepted \in 0..MaxItems /\ pending \in Codes
    BY DEF RemoteInv, ShapeInv, RemoteTypeOK, Codes
  <2>3. ShapeInv' /\ OrderInv' /\ RoundInv' /\ Past' = Past
    BY <2>1, <2>2, OutsideKeeps
  <2> QED
    BY <2>1, <2>3, FreshKept DEF RemoteInv
<1> QED
  BY <1>1, <1>2, <1>3, <1>4, <1>5, <1>6 DEF RemoteNext

LEMMA RemoteInvariant == RemoteSpec => []RemoteInv
  BY RemoteInitInv, RemoteNextInv, PTL DEF RemoteSpec

(* The codes, the list and the place of the remote thread fit each other.  *)
THEOREM RemoteTypes == RemoteSpec => []RemoteTypeOK
<1>1. RemoteInv => RemoteTypeOK
  BY DEF RemoteInv, ShapeInv
<1> QED
  BY <1>1, RemoteInvariant, PTL

(* append, the loop of RunWork and the clearing of the buffer keep the     *)
(* messages for one file in order, and send none of them twice, unless it  *)
(* went through the local file.                                            *)
THEOREM RemoteOrderUnlessSaved == RemoteSpec => []OrderUnlessSaved
<1>1. RemoteInv => OrderUnlessSaved
  BY DEF RemoteInv, OrderInv
<1> QED
  BY <1>1, RemoteInvariant, PTL

(* RunWork never drops a list of which nothing was sent before             *)
(* SaveRemoteFile has written all of it.                                   *)
THEOREM RemoteUnsentIsSaved == RemoteSpec => UnsentIsSaved
<1>1. RemoteInv /\ [RemoteNext]_remote =>
          [RoundEnds /\ ~sent => Listed \subseteq ItemsOf(local')]_remote
  <2> SUFFICES ASSUME RemoteInv, RemoteNext, RoundEnds, ~sent
               PROVE  Listed \subseteq ItemsOf(local')
    OBVIOUS
  <2>1. Succeeds \/ Saved
    BY DEF RoundEnds, RemoteNext, RemoteStep, Work, Goto, AddMessage, ClientMessageMade,
           MessageThreadTakes, Stop, End, Start, Begun, GetLine, ReadLocal, Wake,
           TakeFromNull, Take, AppendFile, RunWork, Sent, Received, SendFails,
           Succeeds, Fails, Save, Saved, Check, thread
  <2>2. CASE Succeeds
    BY <2>2 DEF Succeeds, Goto, RemoteInv, RoundInv
  <2>3. CASE Saved
    <3>1. pc = "save" /\ it > Len(msg_list) /\ local' = local
      BY <2>3 DEF Saved, Goto, done
    <3>2. \A i \in DOMAIN msg_list : i < it
      BY <3>1 DEF RemoteInv, ShapeInv
    <3>3. \A i \in DOMAIN msg_list : ItemsOf(msg_list[i]) \subseteq ItemsOf(local)
      BY <3>1, <3>2 DEF RemoteInv, RoundInv
    <3>4. ItemsOf(local') = ItemsOf(local)
      BY <3>1
    <3> QED
      BY <3>3, <3>4 DEF Listed
  <2> QED
    BY <2>1, <2>2, <2>3
<1> QED
  BY <1>1, RemoteInvariant, PTL DEF RemoteSpec, UnsentIsSaved

-----------------------------------------------------------------------------
(* The threads together: what they do is what each of them does alone, so  *)
(* that all theorems about one hold of the logger.                         *)
LEMMA LoggerParts == Spec => ClientsSpec /\ RemoteSpec /\ MonitorSpec
<1> DEFINE vars == <<part, client_vars, remote, monitor>>
<1>1. Init => ClientsInit /\ RemoteInit /\ MonitorInit
  BY DEF Init
<1>2. [Next]_vars => [ClientsNext]_client_vars
  BY DEF Next, Clients_, Remote_, Monitor_
<1>3. [Next]_vars => [RemoteNext]_remote
  BY DEF Next, Clients_, Remote_, Monitor_
<1>4. [Next]_vars => [MonitorNext]_monitor
  BY DEF Next, Clients_, Remote_, Monitor_
<1> QED
  BY <1>1, <1>2, <1>3, <1>4, PTL DEF Spec, ClientsSpec, RemoteSpec, MonitorSpec

(* The variables of the clients, the remote thread and the error monitor   *)
(* have the values their code gives them, whoever moves.                   *)
THEOREM LoggerTypeOK == Spec => []TypeOK
<1>1. ClientsInv => ClientsTypeOK
  BY DEF ClientsInv, TypesInv, ReaderInv, ClientsTypeOK, Stations
<1>2. RemoteInv => RemoteTypeOK
  BY DEF RemoteInv, ShapeInv
<1>3. ClientsTypeOK /\ RemoteTypeOK /\ MonitorTypeOK => TypeOK
  BY DEF TypeOK
<1> QED
  BY <1>1, <1>2, <1>3, LoggerParts, ClientsInvariant, RemoteInvariant, MonitorInvariant,
     MonitorInvImplies, PTL
=============================================================================
