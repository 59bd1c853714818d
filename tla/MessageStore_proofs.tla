------------------------ MODULE MessageStore_proofs ------------------------
(***************************************************************************)
(* Proofs about the message store of the logger: what the message thread   *)
(* has done with the messages, and in which order, for any number of       *)
(* files, any sizes and any signals.                                       *)
(***************************************************************************)
EXTENDS MessageStore, SequenceTheorems, TLAPS

-----------------------------------------------------------------------------
(* The orders of which everything is made.                                 *)
Increasing(s) == \A i, j \in DOMAIN s : i < j => s[i].id < s[j].id
Before(S, T) == \A x \in S, y \in T : x.id < y.id

All(A) == UNION {Range(A[a]) : a \in DOMAIN A}
InOrder(A) ==
    \A a, b \in DOMAIN A : \A i \in DOMAIN A[a], j \in DOMAIN A[b] :
        a < b \/ (a = b /\ i < j) => A[a][i].id < A[b][j].id

Own(m) == KeyOf(m.kind, m.file)

(* What was written or taken for the name of a file, under its key.        *)
Done == named \cup UNION {Written(f) : f \in File}
Dealt(k) == {m \in Done : Own(m) = k}

(* Under each key the thread has dealt with what came first, holds what    *)
(* came next, and the buffer has what came last.                           *)
KeyInv(k) ==
    /\ Increasing(message_list[k]) /\ Increasing(mml[k])
    /\ Before(Range(mml[k]), Range(message_list[k]))
    /\ Before(Dealt(k), Range(mml[k]) \cup Range(message_list[k]))
    /\ \A m \in Range(mml[k]) \cup Range(message_list[k]) : Own(m) = k /\ m.id <= accepted
    /\ \A m \in Dealt(k) : m.id <= accepted

FileInv(f) ==
    /\ InOrder(Parts(f))
    /\ \A m \in Written(f) : m.kind = "msg" /\ m.file = f
    /\ Written(f) \cap named = {}

KeysInv == \A k \in Key : KeyInv(k)
FilesInv == \A f \in File : FileInv(f)
StoreInv == TypeOK /\ (pc = "archive" => full \in File) /\ KeysInv /\ FilesInv

-----------------------------------------------------------------------------
(* Sequences of items.                                                     *)
LEMMA RangeOfNone == Range(<<>>) = {} /\ Increasing(<<>>)
<1>1. DOMAIN <<>> = {}
  OBVIOUS
<1> QED
  BY <1>1 DEF Range, Increasing

LEMMA RangeType == ASSUME NEW s \in Seq(Item) PROVE Range(s) \subseteq Item
  BY DEF Range

LEMMA ItemId == ASSUME NEW m \in Item PROVE m.id \in Nat /\ m.kind \in {"msg", "del"} /\ m.file \in File
  BY SizesAreNumbers DEF Item

LEMMA ConcatItems ==
    ASSUME NEW s \in Seq(Item), NEW t \in Seq(Item)
    PROVE  /\ s \o t \in Seq(Item)
           /\ Range(s \o t) = Range(s) \cup Range(t)
           /\ Increasing(s) /\ Increasing(t) /\ Before(Range(s), Range(t)) =>
                  Increasing(s \o t)
<1>1. /\ s \o t \in Seq(Item)
      /\ DOMAIN (s \o t) = 1..Len(s) + Len(t)
      /\ \A i \in DOMAIN (s \o t) : (s \o t)[i] = IF i <= Len(s) THEN s[i] ELSE t[i - Len(s)]
  OBVIOUS
<1>2. DOMAIN s = 1..Len(s) /\ DOMAIN t = 1..Len(t) /\ Len(s) \in Nat /\ Len(t) \in Nat
  OBVIOUS
<1>3. Range(s \o t) = Range(s) \cup Range(t)
  <2>1. ASSUME NEW x \in Range(s \o t) PROVE x \in Range(s) \cup Range(t)
    <3>1. PICK i \in DOMAIN (s \o t) : x = (s \o t)[i]
      BY DEF Range
    <3>2. CASE i <= Len(s)
      <4>1. i \in DOMAIN s /\ x = s[i]
        BY <1>1, <1>2, <3>1, <3>2
      <4> QED
        BY <4>1 DEF Range
    <3>3. CASE ~ (i <= Len(s))
      <4>1. i - Len(s) \in DOMAIN t /\ x = t[i - Len(s)]
        BY <1>1, <1>2, <3>1, <3>3
      <4> QED
        BY <4>1 DEF Range
    <3> QED
      BY <3>2, <3>3
  <2>2. ASSUME NEW i \in DOMAIN s PROVE s[i] \in Range(s \o t)
    <3>1. i \in DOMAIN (s \o t) /\ (s \o t)[i] = s[i]
      BY <1>1, <1>2
    <3> QED
      BY <3>1 DEF Range
  <2>3. ASSUME NEW i \in DOMAIN t PROVE t[i] \in Range(s \o t)
    <3>1. i + Len(s) \in DOMAIN (s \o t) /\ (s \o t)[i + Len(s)] = t[i]
      BY <1>1, <1>2
    <3> QED
      BY <3>1 DEF Range
  <2> QED
    BY <2>1, <2>2, <2>3 DEF Range
<1>4. ASSUME Increasing(s), Increasing(t), Before(Range(s), Range(t))
      PROVE  Increasing(s \o t)
  <2> SUFFICES ASSUME NEW i \in DOMAIN (s \o t), NEW j \in DOMAIN (s \o t), i < j
               PROVE  (s \o t)[i].id < (s \o t)[j].id
    BY DEF Increasing
  <2>1. CASE j <= Len(s)
    <3>1. /\ i \in DOMAIN s /\ j \in DOMAIN s
          /\ (s \o t)[i] = s[i] /\ (s \o t)[j] = s[j]
      BY <1>1, <1>2, <2>1
    <3> QED
      BY <1>4, <3>1 DEF Increasing
  <2>2. CASE i > Len(s)
    <3>1. /\ i - Len(s) \in DOMAIN t /\ j - Len(s) \in DOMAIN t /\ i - Len(s) < j - Len(s)
          /\ (s \o t)[i] = t[i - Len(s)] /\ (s \o t)[j] = t[j - Len(s)]
      BY <1>1, <1>2, <2>2
    <3> QED
      BY <1>4, <3>1 DEF Increasing
  <2>3. CASE i <= Len(s) /\ j > Len(s)
    <3>1. /\ i \in DOMAIN s /\ j - Len(s) \in DOMAIN t
          /\ (s \o t)[i] = s[i] /\ (s \o t)[j] = t[j - Len(s)]
      BY <1>1, <1>2, <2>3
    <3>2. (s \o t)[i] \in Range(s) /\ (s \o t)[j] \in Range(t)
      BY <3>1 DEF Range
    <3> QED
      BY <1>4, <3>2 DEF Before
  <2> QED
    BY <1>1, <1>2, <2>1, <2>2, <2>3
<1> QED
  BY <1>1, <1>3, <1>4

LEMMA AppendItem ==
    ASSUME NEW s \in Seq(Item), NEW x \in Item
    PROVE  /\ Append(s, x) \in Seq(Item)
           /\ Range(Append(s, x)) = Range(s) \cup {x}
           /\ Increasing(s) /\ Before(Range(s), {x}) => Increasing(Append(s, x))
<1>1. <<x>> \in Seq(Item) /\ Append(s, x) = s \o <<x>>
  OBVIOUS
<1>2. DOMAIN <<x>> = {1} /\ <<x>>[1] = x
  OBVIOUS
<1>3. Range(<<x>>) = {x} /\ Increasing(<<x>>)
  BY <1>2 DEF Range, Increasing
<1> QED
  BY <1>1, <1>3, ConcatItems

LEMMA TailItems ==
    ASSUME NEW s \in Seq(Item), s # <<>>, Increasing(s)
    PROVE  /\ Head(s) \in Range(s) /\ Tail(s) \in Seq(Item)
           /\ Range(Tail(s)) \subseteq Range(s) /\ Increasing(Tail(s))
           /\ Before({Head(s)}, Range(Tail(s)))
<1>1. /\ 1 \in DOMAIN s /\ Head(s) = s[1] /\ Tail(s) \in Seq(Item)
      /\ \A i \in DOMAIN Tail(s) : i \in Nat /\ i + 1 \in DOMAIN s /\ 1 < i + 1 /\ Tail(s)[i] = s[i + 1]
  OBVIOUS
<1>2. Head(s) \in Range(s) /\ Range(Tail(s)) \subseteq Range(s)
  BY <1>1 DEF Range
<1>3. Increasing(Tail(s))
  <2> SUFFICES ASSUME NEW i \in DOMAIN Tail(s), NEW j \in DOMAIN Tail(s), i < j
               PROVE  Tail(s)[i].id < Tail(s)[j].id
    BY DEF Increasing
  <2>1. i + 1 < j + 1
    BY <1>1
  <2> QED
    BY <1>1, <2>1 DEF Increasing
<1>4. Before({Head(s)}, Range(Tail(s)))
  <2> SUFFICES ASSUME NEW i \in DOMAIN Tail(s) PROVE Head(s).id < Tail(s)[i].id
    BY DEF Before, Range
  <2> QED
    BY <1>1 DEF Increasing
<1> QED
  BY <1>1, <1>2, <1>3, <1>4

(* One part more.                                                          *)
LEMMA OnePartMore ==
    ASSUME NEW A \in Seq(Seq(Item)), NEW l \in Seq(Item)
    PROVE  /\ Append(A, l) \in Seq(Seq(Item))
           /\ All(Append(A, l)) = All(A) \cup Range(l)
           /\ InOrder(Append(A, l)) <=>
                  InOrder(A) /\ Increasing(l) /\ Before(All(A), Range(l))
<1> DEFINE B == Append(A, l)
           n == Len(A)
<1>1. /\ n \in Nat /\ DOMAIN A = 1..n /\ DOMAIN B = 1..n + 1 /\ B \in Seq(Seq(Item))
      /\ \A a \in 1..n : B[a] = A[a]
      /\ B[n + 1] = l
  OBVIOUS
<1> HIDE DEF B, n
<1>2. /\ \A a \in 1..n : a \in DOMAIN B /\ a < n + 1 /\ a \in Nat
      /\ n + 1 \in DOMAIN B /\ ~ (n + 1 < n + 1)
      /\ \A a \in DOMAIN B : a \in 1..n \/ a = n + 1
      /\ \A a \in 1..n : ~ (n + 1 < a) /\ n + 1 # a
  BY <1>1
<1>3. All(B) = All(A) \cup Range(l)
  BY <1>1, <1>2, Zenon DEF All
<1>4. ASSUME InOrder(B) PROVE InOrder(A) /\ Increasing(l) /\ Before(All(A), Range(l))
  <2>1. InOrder(A)
    <3> SUFFICES ASSUME NEW a \in DOMAIN A, NEW b \in DOMAIN A,
                        NEW i \in DOMAIN A[a], NEW j \in DOMAIN A[b],
                        a < b \/ (a = b /\ i < j)
                 PROVE  A[a][i].id < A[b][j].id
      BY DEF InOrder
    <3>1. a \in DOMAIN B /\ b \in DOMAIN B /\ B[a] = A[a] /\ B[b] = A[b]
      BY <1>1, <1>2
    <3> QED
      BY <1>4, <3>1 DEF InOrder
  <2>2. Increasing(l)
    BY <1>1, <1>2, <1>4 DEF InOrder, Increasing
  <2>3. Before(All(A), Range(l))
    <3> SUFFICES ASSUME NEW x \in All(A), NEW y \in Range(l) PROVE x.id < y.id
      BY DEF Before
    <3>1. PICK a \in DOMAIN A : x \in Range(A[a])
      BY DEF All
    <3>2. PICK i \in DOMAIN A[a] : x = A[a][i]
      BY <3>1 DEF Range
    <3>3. PICK j \in DOMAIN l : y = l[j]
      BY DEF Range
    <3>4. a \in DOMAIN B /\ n + 1 \in DOMAIN B /\ a < n + 1 /\ B[a] = A[a] /\ B[n + 1] = l
      BY <1>1, <1>2
    <3> QED
      BY <1>4, <3>2, <3>3, <3>4 DEF InOrder
  <2> QED
    BY <2>1, <2>2, <2>3
<1>5. ASSUME InOrder(A), Increasing(l), Before(All(A), Range(l)) PROVE InOrder(B)
  <2> SUFFICES ASSUME NEW a \in DOMAIN B, NEW b \in DOMAIN B,
                      NEW i \in DOMAIN B[a], NEW j \in DOMAIN B[b],
                      a < b \/ (a = b /\ i < j)
               PROVE  B[a][i].id < B[b][j].id
    BY DEF InOrder
  <2>1. CASE a \in 1..n /\ b \in 1..n
    BY <1>1, <1>5, <2>1 DEF InOrder
  <2>2. CASE a \in 1..n /\ b = n + 1
    <3>1. B[a][i] \in All(A) /\ B[b][j] \in Range(l)
      BY <1>1, <2>2 DEF All, Range
    <3> QED
      BY <1>5, <3>1 DEF Before
  <2>3. CASE a = n + 1 /\ b = n + 1
    BY <1>1, <1>2, <1>5, <2>3 DEF Increasing
  <2> QED
    BY <1>2, <2>1, <2>2, <2>3
<1> QED
  BY <1>1, <1>3, <1>4, <1>5 DEF B

-----------------------------------------------------------------------------
(* The variables keep to their types.                                      *)
Types == TypeOK /\ (pc = "archive" => full \in File)

LEMMA EmptyType == /\ Empty \in [Key -> Seq(Item)]
                   /\ \A k \in Key : Empty[k] = <<>> /\ Range(Empty[k]) = {}
<1>1. <<>> \in Seq(Item)
  OBVIOUS
<1> QED
  BY <1>1, RangeOfNone DEF Empty

LEMMA NewItem ==
    ASSUME Types, NEW k \in {"msg", "del"}, NEW f \in File, accepted < MaxItems,
           NEW n, n = accepted + 1
    PROVE  /\ [id |-> n, kind |-> k, file |-> f] \in Item
           /\ KeyOf(k, f) \in Key /\ n \in 0..MaxItems
<1>1. accepted \in 0..MaxItems
  BY DEF Types, TypeOK
<1>2. n \in 1..MaxItems /\ n \in 0..MaxItems
  BY <1>1, SizesAreNumbers
<1>3. KeyOf(k, f) \in Key
  BY DEF KeyOf, Key
<1> QED
  BY <1>2, <1>3 DEF Item

LEMMA TypesInit == Init => Types
<1> SUFFICES ASSUME Init PROVE Types
  OBVIOUS
<1>1. accepted \in 0..MaxItems
  BY SizesAreNumbers DEF Init
<1>2. /\ message_list \in [Key -> Seq(Item)] /\ mml \in [Key -> Seq(Item)]
  BY EmptyType DEF Init
<1>3. log \in [File -> Seq(Item)] /\ archives \in [File -> Seq(Seq(Item))]
  BY DEF Init
<1>4. fl_break \in BOOLEAN
  BY Zenon DEF Init
<1>5. /\ process \in {"running", "stopping", "ended"}
      /\ pending \in Codes \cup {"0xFF", NoSignal}
      /\ pc \in {"start", "wait", "take", "store", "archive", "ended"} /\ pc # "archive"
      /\ siginfo \in SiginfoAtStart \cup Codes \cup {"0xFF"}
      /\ code \in Codes /\ full \in File \cup {NoFile} /\ named \subseteq Item
  BY DEF Init, Codes
<1> QED
  BY <1>1, <1>2, <1>3, <1>4, <1>5, Zenon DEF Types, TypeOK

LEMMA QueuedType ==
    ASSUME Types, NEW c \in Codes \cup {"0xFF"}
    PROVE  Queued(c) \in Codes \cup {"0xFF", NoSignal}
  BY DEF Types, TypeOK, Queued

LEMMA AddMessageTypes ==
    ASSUME Types, NEW k \in {"msg", "del"}, NEW f \in File, AddMessage(k, f)
    PROVE  Types'
<1>1. /\ accepted < MaxItems /\ accepted' = accepted + 1
      /\ message_list' = [message_list EXCEPT ![KeyOf(k, f)] =
                             Append(@, [id |-> accepted', kind |-> k, file |-> f])]
      /\ UNCHANGED <<process, pc, siginfo, code, fl_break, mml, full, log, archives, named>>
  BY DEF AddMessage, thread, files
<1>2. /\ [id |-> accepted', kind |-> k, file |-> f] \in Item
      /\ KeyOf(k, f) \in Key /\ accepted' \in 0..MaxItems
  BY <1>1, NewItem
<1>3. message_list' \in [Key -> Seq(Item)]
  BY <1>1, <1>2, AppendItem DEF Types, TypeOK
<1>4. pending' \in Codes \cup {"0xFF", NoSignal}
  <2> DEFINE long == k = "msg" /\ Size(message_list') >= max_list_size
  <2>1. pending' = CASE k = "del" -> Queued("evDelete")
                     [] long -> Queued("evMsg")
                     [] OTHER -> pending
    BY DEF AddMessage
  <2>2. /\ Queued("evDelete") \in Codes \cup {"0xFF", NoSignal}
        /\ Queued("evMsg") \in Codes \cup {"0xFF", NoSignal}
        /\ pending \in Codes \cup {"0xFF", NoSignal}
    BY QueuedType DEF Types, TypeOK, Codes
  <2>3. pending' \in {Queued("evDelete"), Queued("evMsg"), pending}
    <3> HIDE DEF long
    <3> QED
      BY <2>1
  <2> QED
    BY <2>2, <2>3
<1> QED
  BY <1>1, <1>2, <1>3, <1>4 DEF Types, TypeOK

LEMMA WriteFileTypes ==
    ASSUME Types, NEW f \in File, WriteFile(f) PROVE Types'
<1>1. log' \in [File -> Seq(Item)]
  <2>1. log[f] \o mml[f] \in Seq(Item)
    BY ConcatItems DEF Types, TypeOK, Key
  <2>2. log' = log \/ log' = [log EXCEPT ![f] = log[f] \o mml[f]]
    BY DEF WriteFile
  <2> QED
    BY <2>1, <2>2 DEF Types, TypeOK
<1>2. full' \in {f, NoFile}
  <2> PICK ok \in BOOLEAN : full' = IF ok /\ Len(log'[f]) > max_size THEN f ELSE NoFile
    BY DEF WriteFile
  <2> DEFINE long == ok /\ Len(log'[f]) > max_size
  <2>1. full' = IF long THEN f ELSE NoFile
    OBVIOUS
  <2> HIDE DEF long
  <2> QED
    BY <2>1
<1>3. pc' \in {"archive", "store"} /\ (pc' = "archive" => full' = f)
  BY DEF WriteFile, Goto
<1>4. mml' \in [Key -> Seq(Item)]
  <2>1. <<>> \in Seq(Item)
    OBVIOUS
  <2> QED
    BY <2>1 DEF WriteFile, Types, TypeOK
<1>5. UNCHANGED <<process, accepted, message_list, pending, siginfo, code,
                  fl_break, archives, named>>
  BY DEF WriteFile
<1> QED
  BY <1>1, <1>2, <1>3, <1>4, <1>5 DEF Types, TypeOK

LEMMA DeleteNamedTypes ==
    ASSUME Types, NEW k \in Key, DeleteNamed(k), Increasing(mml[k]) PROVE Types'
<1>1. /\ mml[k] \in Seq(Item) /\ mml[k] # <<>>
  BY DEF Types, TypeOK, DeleteNamed
<1>2. Head(mml[k]) \in Item /\ Tail(mml[k]) \in Seq(Item)
  BY <1>1
<1>3. log' \in [File -> Seq(Item)]
  <2>1. Head(mml[k]).file \in File /\ <<>> \in Seq(Item)
    BY <1>2, ItemId
  <2>2. log' = log \/ log' = [log EXCEPT ![Head(mml[k]).file] = <<>>]
    BY DEF DeleteNamed
  <2> QED
    BY <2>1, <2>2 DEF Types, TypeOK
<1>4. mml' \in [Key -> Seq(Item)] /\ named' \subseteq Item
  BY <1>1, <1>2 DEF DeleteNamed, Types, TypeOK
<1>5. pc' = "store" /\ UNCHANGED <<process, accepted, message_list, pending, siginfo, code,
                                   fl_break, full, archives>>
  BY DEF DeleteNamed, Goto
<1> QED
  BY <1>3, <1>4, <1>5 DEF Types, TypeOK

LEMMA OtherTypes ==
    ASSUME Types,
           \/ Block \/ Receive \/ Timeout \/ Take \/ Archive \/ WriteRequests \/ StoreDone
           \/ Stop \/ End \/ Start \/ UNCHANGED vars
    PROVE  Types'
<1> USE DEF Types, TypeOK, Goto
<1>1. CASE Block
  BY <1>1 DEF Block, files
<1>2. CASE Receive
  <2>1. pending \in Codes \cup {"0xFF"}
    BY <1>2 DEF Receive
  <2>2. /\ code' \in Codes /\ siginfo' \in Codes \cup {"0xFF"} /\ pending' = NoSignal
    BY <1>2, <2>1 DEF Receive, Codes
  <2>3. fl_break' \in BOOLEAN
    BY <1>2, Zenon DEF Receive
  <2>4. pc' = "take" /\ UNCHANGED <<process, accepted, message_list, mml, full, log, archives, named>>
    BY <1>2 DEF Receive, files
  <2> QED
    BY <2>2, <2>3, <2>4
<1>3. CASE Timeout
  <2>1. fl_break' \in BOOLEAN
    BY <1>3, Zenon DEF Timeout
  <2>2. pc' = "take" /\ code' = "evMsg"
        /\ UNCHANGED <<process, accepted, message_list, pending, siginfo, mml, full, log, archives, named>>
    BY <1>3 DEF Timeout, files
  <2> QED
    BY <2>1, <2>2 DEF Codes
<1>4. CASE Take
  BY <1>4, EmptyType DEF Take, files
<1>5. CASE Archive
  <2>1. full \in File
    BY <1>5 DEF Archive
  <2>2. <<>> \in Seq(Item) /\ Append(archives[full], log[full]) \in Seq(Seq(Item))
    BY <2>1, OnePartMore
  <2>3. log' \in [File -> Seq(Item)] /\ archives' \in [File -> Seq(Seq(Item))]
    BY <1>5, <2>1, <2>2 DEF Archive
  <2>4. pc' = "store" /\ full' = NoFile /\ UNCHANGED <<process, accepted, message_list, pending, siginfo, code,
                   fl_break, mml, named>>
    BY <1>5 DEF Archive
  <2> QED
    BY <2>3, <2>4
<1>6. CASE WriteRequests
  <2>1. <<>> \in Seq(Item)
    OBVIOUS
  <2> QED
    BY <1>6, <2>1 DEF WriteRequests, files
<1>7. CASE StoreDone
  <2>1. pc' \in {"ended", "wait"}
    BY <1>7, Zenon DEF StoreDone
  <2> QED
    BY <1>7, <2>1 DEF StoreDone, files
<1>8. CASE Stop
  <2>1. Queued("0xFF") \in Codes \cup {"0xFF", NoSignal}
    BY QueuedType
  <2> QED
    BY <1>8, <2>1 DEF Stop, thread, files
<1>9. CASE End
  BY <1>9 DEF End, thread, files
<1>10. CASE Start
  <2>1. fl_break' \in BOOLEAN
    BY <1>10, Zenon DEF Start
  <2> QED
    BY <1>10, <2>1, EmptyType DEF Start, files, Codes
<1>11. CASE UNCHANGED vars
  BY <1>11 DEF vars, thread, files
<1> QED
  BY <1>1, <1>2, <1>3, <1>4, <1>5, <1>6, <1>7, <1>8, <1>9, <1>10, <1>11

-----------------------------------------------------------------------------
(* What is written.                                                        *)
LEMMA WrittenIs ==
    ASSUME Types, NEW f \in File
    PROVE  /\ archives[f] \in Seq(Seq(Item)) /\ log[f] \in Seq(Item)
           /\ Written(f) = All(archives[f]) \cup Range(log[f])
           /\ InOrder(Parts(f)) <=> /\ InOrder(archives[f]) /\ Increasing(log[f])
                                    /\ Before(All(archives[f]), Range(log[f]))
<1>1. archives[f] \in Seq(Seq(Item)) /\ log[f] \in Seq(Item)
  BY DEF Types, TypeOK
<1>2. Written(f) = All(Append(archives[f], log[f])) /\ Parts(f) = Append(archives[f], log[f])
  BY DEF Written, Parts, All
<1> QED
  BY <1>1, <1>2, OnePartMore

LEMMA WrittenIsPrime ==
    ASSUME Types', NEW f \in File
    PROVE  /\ Written(f)' = All(archives'[f]) \cup Range(log'[f])
           /\ InOrder(Parts(f)') <=> /\ InOrder(archives'[f]) /\ Increasing(log'[f])
                                     /\ Before(All(archives'[f]), Range(log'[f]))
<1>1. archives'[f] \in Seq(Seq(Item)) /\ log'[f] \in Seq(Item)
  BY DEF Types, TypeOK
<1>2. Written(f)' = All(Append(archives'[f], log'[f])) /\ Parts(f)' = Append(archives'[f], log'[f])
  BY DEF Written, Parts, All
<1> QED
  BY <1>1, <1>2, OnePartMore

(* Under a key that was not touched nothing changes, as long as nothing    *)
(* else is dealt with under it.                                            *)
LEMMA KeyStays ==
    ASSUME NEW k \in Key, KeyInv(k),
           message_list'[k] = message_list[k], mml'[k] = mml[k],
           Dealt(k)' \subseteq Dealt(k), accepted' = accepted
    PROVE  KeyInv(k)'
  BY DEF KeyInv, Before, Increasing, Own

(* A list of which nothing is left. *)
LEMMA KeyForgets ==
    ASSUME NEW k \in Key, KeyInv(k),
           message_list'[k] = message_list[k] \/ message_list'[k] = <<>>,
           mml'[k] = <<>>,
           Dealt(k)' \subseteq Dealt(k) \cup Range(mml[k]), accepted' = accepted
    PROVE  KeyInv(k)'
<1>1. /\ Range(mml'[k]) = {} /\ Increasing(mml'[k])
      /\ Range(message_list'[k]) \subseteq Range(message_list[k])
      /\ Increasing(message_list'[k])
  BY RangeOfNone DEF KeyInv
<1>2. Before(Dealt(k)', Range(message_list'[k]))
  BY <1>1 DEF KeyInv, Before
<1>3. \A m \in Dealt(k)' : m.id <= accepted'
  BY DEF KeyInv
<1>4. \A m \in Range(message_list'[k]) : Own(m) = k /\ m.id <= accepted'
  BY <1>1 DEF KeyInv
<1> QED
  BY <1>1, <1>2, <1>3, <1>4, Zenon DEF KeyInv, Before, Increasing, Own

LEMMA SameDone ==
    ASSUME named' = named, \A f \in File : Written(f)' = Written(f)
    PROVE  Done' = Done /\ \A k \in Key : Dealt(k)' = Dealt(k)
<1>1. Done' = Done
  BY DEF Done
<1> QED
  BY <1>1 DEF Dealt, Own

LEMMA SameFiles ==
    ASSUME FilesInv, UNCHANGED <<log, archives, named>>
    PROVE  /\ FilesInv' /\ \A f \in File : Written(f)' = Written(f)
           /\ Done' = Done /\ \A k \in Key : Dealt(k)' = Dealt(k)
<1>1. \A f \in File : Parts(f)' = Parts(f) /\ Written(f)' = Written(f)
  BY DEF Parts, Written
<1>2. FilesInv'
  BY <1>1 DEF FilesInv, FileInv, InOrder
<1> QED
  BY <1>1, <1>2, SameDone

LEMMA AddMessageInv ==
    ASSUME StoreInv, NEW k \in {"msg", "del"}, NEW f \in File, AddMessage(k, f)
    PROVE  KeysInv' /\ FilesInv'
<1> DEFINE new == [id |-> accepted + 1, kind |-> k, file |-> f]
           k0 == KeyOf(k, f)
<1>1. /\ accepted < MaxItems /\ accepted' = accepted + 1
      /\ message_list' = [message_list EXCEPT ![k0] = Append(@, new)]
      /\ UNCHANGED <<mml, log, archives, named>>
  BY DEF AddMessage, thread, files
<1>2. Types /\ accepted \in Nat
  BY DEF StoreInv, Types, TypeOK
<1>3. new \in Item /\ k0 \in Key
  BY <1>1, <1>2, NewItem
<1>4. FilesInv' /\ \A q \in Key : Dealt(q)' = Dealt(q)
  BY <1>1, SameFiles DEF StoreInv
<1>5. ASSUME NEW q \in Key PROVE KeyInv(q)'
  <2>1. KeyInv(q)
    BY DEF StoreInv, KeysInv
  <2>2. /\ message_list[q] \in Seq(Item) /\ mml[q] \in Seq(Item) /\ Dealt(q) \subseteq Item
    <3>1. Done \subseteq Item
      <4>1. named \subseteq Item
        BY <1>2 DEF Types, TypeOK
      <4>2. ASSUME NEW g \in File PROVE Written(g) \subseteq Item
        <5>1. archives[g] \in Seq(Seq(Item)) /\ log[g] \in Seq(Item)
          BY <1>2, WrittenIs
        <5>2. All(archives[g]) \subseteq Item /\ Range(log[g]) \subseteq Item
          BY <5>1 DEF All, Range
        <5> QED
          BY <1>2, <5>2, WrittenIs
      <4> QED
        BY <4>1, <4>2 DEF Done
    <3> QED
      BY <1>2, <3>1 DEF Types, TypeOK, Dealt
  <2>3. /\ Range(message_list[q]) \subseteq Item /\ Range(mml[q]) \subseteq Item
    BY <2>2, RangeType
  <2>4. \A m \in Range(message_list[q]) \cup Range(mml[q]) \cup Dealt(q) :
            m.id <= accepted /\ m.id \in Nat
    BY <2>1, <2>2, <2>3, ItemId DEF KeyInv
  <2>5. \A m \in Range(message_list[q]) \cup Range(mml[q]) \cup Dealt(q) : m.id <= accepted'
    BY <1>1, <1>2, <2>4
  <2>6. CASE q # k0
    <3>1. message_list'[q] = message_list[q] /\ mml'[q] = mml[q] /\ Dealt(q)' = Dealt(q)
      BY <1>1, <1>2, <1>3, <1>4, <2>6 DEF Types, TypeOK
    <3> QED
      BY <2>1, <2>5, <3>1 DEF KeyInv, Before, Increasing, Own
  <2>7. CASE q = k0
    <3>1. message_list'[q] = Append(message_list[q], new) /\ mml'[q] = mml[q] /\ Dealt(q)' = Dealt(q)
      BY <1>1, <1>2, <1>3, <1>4, <2>7 DEF Types, TypeOK
    <3>2. new.id = accepted + 1 /\ Own(new) = k0
      BY DEF Own
    <3> HIDE DEF new, k0
    <3>3. Before(Range(message_list[q]) \cup Range(mml[q]) \cup Dealt(q), {new})
      BY <1>2, <2>4, <3>2 DEF Before
    <3>4. /\ Range(message_list'[q]) = Range(message_list[q]) \cup {new}
          /\ Increasing(message_list'[q])
      BY <1>3, <2>1, <2>2, <3>1, <3>3, AppendItem DEF KeyInv, Before
    <3>5. new.id <= accepted'
      BY <1>1, <1>2, <3>2
    <3>6. /\ Before(Range(mml[q]), Range(message_list'[q]))
          /\ Before(Dealt(q), Range(mml[q]) \cup Range(message_list'[q]))
      BY <2>1, <3>3, <3>4 DEF KeyInv, Before
    <3>7. \A m \in Range(mml[q]) \cup Range(message_list'[q]) : Own(m) = q /\ m.id <= accepted'
      BY <2>1, <2>5, <2>7, <3>2, <3>4, <3>5 DEF KeyInv
    <3>8. \A m \in Dealt(q) : m.id <= accepted'
      BY <2>5
    <3> QED
      BY <2>1, <3>1, <3>4, <3>6, <3>7, <3>8 DEF KeyInv, Before, Increasing, Own
  <2> QED
    BY <2>6, <2>7
<1> QED
  BY <1>4, <1>5 DEF KeysInv

LEMMA TakeInv == ASSUME StoreInv, Take PROVE KeysInv' /\ FilesInv'
<1>1. /\ mml' = message_list /\ message_list' = Empty
      /\ UNCHANGED <<accepted, log, archives, named>>
  BY DEF Take, files
<1>2. FilesInv' /\ \A k \in Key : Dealt(k)' = Dealt(k)
  BY <1>1, SameFiles DEF StoreInv
<1>3. ASSUME NEW k \in Key PROVE KeyInv(k)'
  <2>1. Range(message_list'[k]) = {} /\ Increasing(message_list'[k])
    BY <1>1, EmptyType, RangeOfNone
  <2> QED
    BY <1>1, <1>2, <2>1 DEF StoreInv, KeysInv, KeyInv, Before, Increasing, Own
<1> QED
  BY <1>2, <1>3 DEF KeysInv

LEMMA StartInv == ASSUME StoreInv, Start PROVE KeysInv' /\ FilesInv'
<1>1. /\ mml' = Empty /\ message_list' = Empty
      /\ UNCHANGED <<accepted, log, archives, named>>
  BY DEF Start, files
<1>2. FilesInv' /\ \A k \in Key : Dealt(k)' = Dealt(k)
  BY <1>1, SameFiles DEF StoreInv
<1>3. ASSUME NEW k \in Key PROVE KeyInv(k)'
  <2>1. message_list'[k] = <<>> /\ mml'[k] = <<>>
    BY <1>1, EmptyType
  <2> QED
    BY <1>1, <1>2, <2>1, KeyForgets DEF StoreInv, KeysInv
<1> QED
  BY <1>2, <1>3 DEF KeysInv

LEMMA WriteRequestsInv == ASSUME StoreInv, WriteRequests PROVE KeysInv' /\ FilesInv'
<1>1. /\ mml' = [mml EXCEPT ![Domain] = <<>>]
      /\ UNCHANGED <<accepted, message_list, log, archives, named>>
  BY DEF WriteRequests, files
<1>2. FilesInv' /\ \A k \in Key : Dealt(k)' = Dealt(k)
  BY <1>1, SameFiles DEF StoreInv
<1>3. ASSUME NEW k \in Key PROVE KeyInv(k)'
  <2>1. mml'[k] = <<>> \/ mml'[k] = mml[k]
    BY <1>1 DEF StoreInv, TypeOK
  <2> QED
    BY <1>1, <1>2, <2>1, KeyForgets, KeyStays DEF StoreInv, KeysInv
<1> QED
  BY <1>2, <1>3 DEF KeysInv

(* A file that is archived stays in order behind the older archives.       *)
LEMMA ArchiveInv == ASSUME StoreInv, Types', Archive PROVE KeysInv' /\ FilesInv'
<1>1. /\ full \in File
      /\ archives' = [archives EXCEPT ![full] = Append(@, log[full])]
      /\ log' = [log EXCEPT ![full] = <<>>]
      /\ UNCHANGED <<accepted, message_list, mml, named>>
  BY DEF Archive, Goto, StoreInv
<1>2. Types
  BY DEF StoreInv, Types
<1>3. ASSUME NEW f \in File
      PROVE  Written(f)' = Written(f) /\ (InOrder(Parts(f)) => InOrder(Parts(f)'))
  <2>1. CASE f # full
    <3>1. archives'[f] = archives[f] /\ log'[f] = log[f]
      BY <1>1, <1>2, <2>1 DEF Types, TypeOK
    <3> QED
      BY <3>1 DEF Written, Parts
  <2>2. CASE f = full
    <3>1. archives'[f] = Append(archives[f], log[f]) /\ log'[f] = <<>>
      BY <1>1, <1>2, <2>2 DEF Types, TypeOK
    <3>2. /\ All(archives'[f]) = Written(f)
          /\ InOrder(Parts(f)) => InOrder(archives'[f])
      BY <3>1 DEF Written, Parts, All
    <3>3. Range(log'[f]) = {} /\ Increasing(log'[f])
      BY <3>1, RangeOfNone
    <3> QED
      BY <3>2, <3>3, WrittenIsPrime DEF Before
  <2> QED
    BY <2>1, <2>2
<1>4. \A k \in Key : Dealt(k)' = Dealt(k)
  BY <1>1, <1>3, SameDone
<1>5. FilesInv'
  <2> SUFFICES ASSUME NEW f \in File PROVE FileInv(f)'
    BY DEF FilesInv
  <2>1. FileInv(f) /\ Written(f)' = Written(f) /\ (InOrder(Parts(f)) => InOrder(Parts(f)'))
    BY <1>3 DEF StoreInv, FilesInv
  <2>2. InOrder(Parts(f)')
    BY <2>1 DEF FileInv
  <2>3. InOrder(Parts(f))'
    BY <2>2 DEF InOrder
  <2> QED
    BY <1>1, <2>1, <2>3 DEF FileInv
<1>6. KeysInv'
  BY <1>1, <1>4, KeyStays DEF StoreInv, KeysInv
<1> QED
  BY <1>5, <1>6

(* What is written of a file is dealt with under its key, before anything  *)
(* the thread still holds or the buffer has.                               *)
LEMMA WrittenIsDealt ==
    ASSUME StoreInv, NEW f \in File
    PROVE  /\ f \in Key /\ Written(f) \subseteq Dealt(f)
           /\ Before(Written(f), Range(mml[f]))
           /\ Range(mml[f]) \cap Dealt(f) = {}
           /\ \A m \in Range(mml[f]) : Own(m) = f /\ m.kind = "msg" /\ m.file = f
<1>1. f \in Key /\ f # Domain
  BY DomainIsNoFile DEF Key
<1>2. KeyInv(f) /\ FileInv(f)
  BY <1>1 DEF StoreInv, KeysInv, FilesInv
<1>3. Written(f) \subseteq Dealt(f)
  BY <1>2 DEF FileInv, Dealt, Done, Own, KeyOf
<1>4. Before(Written(f), Range(mml[f]))
  BY <1>2, <1>3 DEF KeyInv, Before
<1>5. mml[f] \in Seq(Item)
  BY <1>1 DEF StoreInv, TypeOK
<1>6. \A m \in Range(mml[f]) : m.id \in Nat /\ m \in Item
  BY <1>5, RangeType, ItemId
<1>7. Range(mml[f]) \cap Dealt(f) = {}
  <2> SUFFICES ASSUME NEW m \in Range(mml[f]), m \in Dealt(f) PROVE FALSE
    OBVIOUS
  <2>1. m.id < m.id /\ m.id \in Nat
    BY <1>2, <1>6 DEF KeyInv, Before
  <2> QED
    BY <2>1
<1>8. \A m \in Range(mml[f]) : Own(m) = f
  BY <1>2 DEF KeyInv
<1>9. \A m \in Range(mml[f]) : m.kind = "msg" /\ m.file = f
  BY <1>1, <1>8 DEF Own, KeyOf
<1> QED
  BY <1>1, <1>3, <1>4, <1>7, <1>8, <1>9

LEMMA WriteFileInv ==
    ASSUME StoreInv, Types', NEW f \in File, WriteFile(f)
    PROVE  KeysInv' /\ FilesInv'
<1>1. /\ log' = log \/ log' = [log EXCEPT ![f] = log[f] \o mml[f]]
      /\ mml' = [mml EXCEPT ![f] = <<>>]
      /\ UNCHANGED <<accepted, message_list, archives, named>>
  BY DEF WriteFile
<1>2. Types /\ f \in Key /\ mml[f] \in Seq(Item) /\ mml'[f] = <<>>
  BY <1>1 DEF StoreInv, Types, TypeOK, Key
<1>3. ASSUME NEW g \in File, g # f \/ log' = log
      PROVE  Written(g)' = Written(g) /\ Parts(g)' = Parts(g)
  <2>1. archives'[g] = archives[g] /\ log'[g] = log[g]
    BY <1>1, <1>2, <1>3 DEF Types, TypeOK
  <2> QED
    BY <2>1 DEF Written, Parts
<1>4. ASSUME log' # log
      PROVE  /\ Written(f)' = Written(f) \cup Range(mml[f])
             /\ InOrder(Parts(f)) => InOrder(Parts(f)')
  <2>1. archives'[f] = archives[f] /\ log'[f] = log[f] \o mml[f]
    BY <1>1, <1>2, <1>4 DEF Types, TypeOK
  <2>2. /\ Range(log'[f]) = Range(log[f]) \cup Range(mml[f])
        /\ Increasing(log[f]) /\ Increasing(mml[f]) /\ Before(Range(log[f]), Range(mml[f])) =>
               Increasing(log'[f])
    BY <1>2, <2>1, WrittenIs, ConcatItems
  <2>3. Written(f)' = Written(f) \cup Range(mml[f])
    BY <1>2, <2>1, <2>2, WrittenIs, WrittenIsPrime
  <2>4. /\ Before(All(archives[f]), Range(mml[f])) /\ Before(Range(log[f]), Range(mml[f]))
        /\ Increasing(mml[f])
    BY <1>2, WrittenIs, WrittenIsDealt DEF Before, StoreInv, KeysInv, KeyInv
  <2>5. ASSUME InOrder(Parts(f)) PROVE InOrder(Parts(f)')
    <3>1. /\ InOrder(archives'[f]) /\ Increasing(log[f])
          /\ Before(All(archives'[f]), Range(log[f]))
      BY <1>2, <2>1, <2>5, WrittenIs
    <3>2. Increasing(log'[f]) /\ Before(All(archives'[f]), Range(log'[f]))
      BY <2>1, <2>2, <2>4, <3>1 DEF Before
    <3> QED
      BY <3>1, <3>2, WrittenIsPrime
  <2> QED
    BY <2>3, <2>5
<1>5. \A g \in File : Written(g)' \subseteq Written(g) \cup Range(mml[f])
  BY <1>3, <1>4
<1>6. ASSUME NEW g \in File PROVE FileInv(g)'
  <2>1. FileInv(g)
    BY DEF StoreInv, FilesInv
  <2>2. InOrder(Parts(g)')
    BY <1>3, <1>4, <2>1 DEF FileInv
  <2>3. InOrder(Parts(g))'
    BY <2>2 DEF InOrder
  <2>4. \A m \in Written(g)' : m.kind = "msg" /\ m.file = g
    BY <1>3, <1>4, <2>1, WrittenIsDealt DEF FileInv
  <2>5. Written(g)' \cap named = {}
    <3>1. Range(mml[f]) \cap named = {}
      <4> SUFFICES ASSUME NEW m \in Range(mml[f]), m \in named PROVE FALSE
        OBVIOUS
      <4>1. m \in Dealt(f)
        BY WrittenIsDealt DEF Dealt, Done
      <4> QED
        BY <4>1, WrittenIsDealt
    <3> QED
      BY <1>3, <1>4, <2>1, <3>1 DEF FileInv
  <2> QED
    BY <1>1, <2>3, <2>4, <2>5 DEF FileInv
<1>7. \A k \in Key : Dealt(k)' \subseteq IF k = f THEN Dealt(k) \cup Range(mml[k]) ELSE Dealt(k)
  <2>1. Done' \subseteq Done \cup Range(mml[f])
    BY <1>1, <1>5 DEF Done
  <2>2. \A m \in Range(mml[f]) : Own(m) = f
    BY WrittenIsDealt
  <2> QED
    BY <2>1, <2>2 DEF Dealt, Own
<1>8. ASSUME NEW k \in Key PROVE KeyInv(k)'
  <2>1. CASE k = f
    BY <1>1, <1>2, <1>7, <2>1, KeyForgets DEF StoreInv, KeysInv
  <2>2. CASE k # f
    <3>1. mml'[k] = mml[k]
      BY <1>1, <2>2 DEF StoreInv, TypeOK
    <3> QED
      BY <1>1, <1>7, <2>2, <3>1, KeyStays DEF StoreInv, KeysInv
  <2> QED
    BY <2>1, <2>2
<1> QED
  BY <1>6, <1>8 DEF KeysInv, FilesInv

LEMMA DeleteNamedInv ==
    ASSUME StoreInv, Types', NEW k \in Key, DeleteNamed(k)
    PROVE  KeysInv' /\ FilesInv'
<1> DEFINE h == Head(mml[k])
<1>1. /\ mml[k] # <<>> /\ named' = named \cup {h}
      /\ log' = log \/ log' = [log EXCEPT ![h.file] = <<>>]
      /\ mml' = [mml EXCEPT ![k] = Tail(@)]
      /\ UNCHANGED <<accepted, message_list, archives>>
  BY DEF DeleteNamed
<1>2. Types /\ KeyInv(k) /\ mml[k] \in Seq(Item) /\ mml'[k] = Tail(mml[k])
  BY <1>1 DEF StoreInv, Types, TypeOK, KeysInv
<1>3. /\ h \in Range(mml[k]) /\ Range(Tail(mml[k])) \subseteq Range(mml[k])
      /\ Increasing(Tail(mml[k])) /\ Before({h}, Range(Tail(mml[k])))
  BY <1>1, <1>2, TailItems DEF KeyInv
<1> HIDE DEF h
<1>4. h \in Item /\ h.id \in Nat /\ Own(h) = k /\ h.id <= accepted
  <2>1. h \in Item
    BY <1>2, <1>3, RangeType
  <2> QED
    BY <1>2, <1>3, <2>1, ItemId DEF KeyInv
<1>5. h \notin Done
  <2> SUFFICES ASSUME h \in Done PROVE FALSE
    OBVIOUS
  <2>1. h \in Dealt(k)
    BY <1>4 DEF Dealt
  <2>2. h.id < h.id
    BY <1>2, <1>3, <2>1 DEF KeyInv, Before
  <2> QED
    BY <1>4, <2>2
<1>6. ASSUME NEW f \in File
      PROVE  Written(f)' \subseteq Written(f) /\ (InOrder(Parts(f)) => InOrder(Parts(f)'))
  <2>1. archives'[f] = archives[f] /\ (log'[f] = log[f] \/ log'[f] = <<>>)
    BY <1>1, <1>2 DEF Types, TypeOK
  <2>2. CASE log'[f] = log[f]
    BY <2>1, <2>2 DEF Written, Parts
  <2>3. CASE log'[f] = <<>>
    <3>1. Range(log'[f]) = {} /\ Increasing(log'[f])
      BY <2>3, RangeOfNone
    <3>2. Written(f)' \subseteq Written(f)
      BY <1>2, <2>1, <3>1, WrittenIs, WrittenIsPrime
    <3>3. InOrder(Parts(f)) => InOrder(Parts(f)')
      BY <1>2, <2>1, <3>1, WrittenIs, WrittenIsPrime DEF Before
    <3> QED
      BY <3>2, <3>3
  <2> QED
    BY <2>1, <2>2, <2>3
<1>7. ASSUME NEW f \in File PROVE FileInv(f)'
  <2>1. FileInv(f)
    BY DEF StoreInv, FilesInv
  <2>2. InOrder(Parts(f)')
    BY <1>6, <2>1 DEF FileInv
  <2>3. InOrder(Parts(f))'
    BY <2>2 DEF InOrder
  <2>4. h \notin Written(f)
    BY <1>5 DEF Done
  <2>5. Written(f)' \cap named' = {}
    BY <1>1, <1>6, <2>1, <2>4 DEF FileInv
  <2> QED
    BY <1>6, <2>1, <2>3, <2>5 DEF FileInv
<1>8. \A q \in Key : Dealt(q)' \subseteq IF q = k THEN Dealt(q) \cup {h} ELSE Dealt(q)
  <2>1. Done' \subseteq Done \cup {h}
    BY <1>1, <1>6 DEF Done
  <2> QED
    BY <1>4, <2>1 DEF Dealt, Own
<1>9. ASSUME NEW q \in Key PROVE KeyInv(q)'
  <2>1. CASE q # k
    <3>1. mml'[q] = mml[q]
      BY <1>1, <2>1 DEF StoreInv, TypeOK
    <3> QED
      BY <1>1, <1>8, <2>1, <3>1, KeyStays DEF StoreInv, KeysInv
  <2>2. CASE q = k
    <3>1. /\ Range(mml'[k]) \subseteq Range(mml[k]) /\ Increasing(mml'[k])
          /\ Before({h}, Range(mml'[k])) /\ message_list' = message_list /\ accepted' = accepted
      BY <1>1, <1>2, <1>3
    <3>2. Dealt(k)' \subseteq Dealt(k) \cup {h}
      BY <1>8
    <3>3. Before(Range(mml'[k]), Range(message_list[k]))
      BY <1>2, <3>1 DEF KeyInv, Before
    <3>4. Before(Dealt(k)', Range(mml'[k]) \cup Range(message_list[k]))
      BY <1>2, <1>3, <3>1, <3>2 DEF KeyInv, Before
    <3>5. \A m \in Range(mml'[k]) \cup Range(message_list[k]) : Own(m) = k /\ m.id <= accepted
      BY <1>2, <3>1 DEF KeyInv
    <3>6. \A m \in Dealt(k)' : m.id <= accepted
      BY <1>2, <1>4, <3>2 DEF KeyInv
    <3>7. Increasing(message_list[k])
      BY <1>2 DEF KeyInv
    <3> QED
      BY <2>2, <3>1, <3>3, <3>4, <3>5, <3>6, <3>7 DEF KeyInv, Before, Increasing, Own
  <2> QED
    BY <2>1, <2>2
<1> QED
  BY <1>7, <1>9 DEF KeysInv, FilesInv

-----------------------------------------------------------------------------
LEMMA StoreInitInv == Init => StoreInv
<1> SUFFICES ASSUME Init PROVE StoreInv
  OBVIOUS
<1>1. Types
  BY TypesInit
<1>2. ASSUME NEW f \in File
      PROVE  Written(f) = {} /\ InOrder(Parts(f))
  <2>1. archives[f] = <<>> /\ log[f] = <<>>
    BY DEF Init
  <2>2. DOMAIN <<>> = {}
    OBVIOUS
  <2>3. All(archives[f]) = {} /\ InOrder(archives[f])
    BY <2>1, <2>2 DEF All, InOrder
  <2> QED
    BY <1>1, <2>1, <2>3, WrittenIs, RangeOfNone DEF Before
<1>3. Done = {}
  BY <1>2 DEF Done, Init
<1>4. ASSUME NEW k \in Key PROVE KeyInv(k)
  <2>1. message_list[k] = <<>> /\ mml[k] = <<>>
    BY EmptyType DEF Init
  <2>2. Dealt(k) = {}
    BY <1>3 DEF Dealt
  <2> QED
    BY <2>1, <2>2, RangeOfNone DEF KeyInv, Before
<1> QED
  BY <1>1, <1>2, <1>4 DEF StoreInv, Types, KeysInv, FilesInv, FileInv

LEMMA StoreNextInv == StoreInv /\ [Next]_vars => StoreInv'
<1> SUFFICES ASSUME StoreInv, [Next]_vars PROVE StoreInv'
  OBVIOUS
<1>0. Types
  BY DEF StoreInv, Types
<1>a. Types' /\ KeysInv' /\ FilesInv' => StoreInv'
  BY DEF StoreInv, Types
<1>1. ASSUME NEW k \in {"msg", "del"}, NEW f \in File, AddMessage(k, f)
      PROVE  StoreInv'
  BY <1>0, <1>a, <1>1, AddMessageTypes, AddMessageInv
<1>2. ASSUME NEW f \in File, WriteFile(f) PROVE StoreInv'
  BY <1>0, <1>a, <1>2, WriteFileTypes, WriteFileInv
<1>3. ASSUME NEW k \in Key, DeleteNamed(k) PROVE StoreInv'
  <2>1. Increasing(mml[k])
    BY DEF StoreInv, KeysInv, KeyInv
  <2> QED
    BY <1>0, <1>a, <1>3, <2>1, DeleteNamedTypes, DeleteNamedInv
<1>4. CASE \/ Block \/ Receive \/ Timeout \/ StoreDone \/ Stop \/ End \/ UNCHANGED vars
  <2>1. Types'
    BY <1>0, <1>4, OtherTypes
  <2>2. UNCHANGED <<accepted, mml, log, archives, named>> /\ message_list' = message_list
    BY <1>4 DEF Block, Receive, Timeout, StoreDone, Stop, End, vars, thread, files
  <2>3. FilesInv' /\ \A k \in Key : Dealt(k)' = Dealt(k)
    BY <2>2, SameFiles DEF StoreInv
  <2>4. KeysInv'
    BY <2>2, <2>3, KeyStays DEF StoreInv, KeysInv
  <2> QED
    BY <1>a, <2>1, <2>3, <2>4
<1>5. CASE Take
  BY <1>0, <1>a, <1>5, OtherTypes, TakeInv
<1>6. CASE Archive
  BY <1>0, <1>a, <1>6, OtherTypes, ArchiveInv
<1>7. CASE WriteRequests
  BY <1>0, <1>a, <1>7, OtherTypes, WriteRequestsInv
<1>8. CASE Start
  BY <1>0, <1>a, <1>8, OtherTypes, StartInv
<1> QED
  BY <1>1, <1>2, <1>3, <1>4, <1>5, <1>6, <1>7, <1>8 DEF Next, ThreadStep

THEOREM StoreInvariant == Spec => []StoreInv
  BY StoreInitInv, StoreNextInv, PTL DEF Spec

(* The list of the message thread, the buffer, the files and the archives  *)
(* have the types of the code; archiving always has a file to archive, and *)
(* the code 0xFF is never acted upon.                                      *)
THEOREM StoreTypeOK == Spec => []TypeOK
<1>1. StoreInv => TypeOK
  BY DEF StoreInv
<1> QED
  BY <1>1, StoreInvariant, PTL

(* Over all archives the messages of a file are in the order in which they *)
(* were accepted, and none is there twice, whatever signals are dropped    *)
(* and wherever the logger is stopped and started again.                   *)
THEOREM StoreWritesInOrder == Spec => []WrittenInOrder
<1>1. StoreInv => WrittenInOrder
  <2> SUFFICES ASSUME StoreInv, NEW f \in File
               PROVE  \A a, b \in DOMAIN Parts(f) :
                          \A i \in DOMAIN Parts(f)[a], j \in DOMAIN Parts(f)[b] :
                              a < b \/ (a = b /\ i < j) =>
                                  Parts(f)[a][i].id < Parts(f)[b][j].id
    BY DEF WrittenInOrder
  <2> QED
    BY DEF StoreInv, FilesInv, FileInv, InOrder
<1> QED
  BY <1>1, StoreInvariant, PTL

(* No message is both in the buffer and dealt with, is in two files, or is *)
(* written and taken for the name of a file.                               *)
THEOREM StoreOnePlace == Spec => []OnePlace
<1>1. StoreInv => OnePlace
  <2> SUFFICES ASSUME StoreInv PROVE OnePlace
    OBVIOUS
  <2> DEFINE buffered == UNION {Range(message_list[k]) : k \in Key}
             written == UNION {Written(f) : f \in File}
  <2>1. buffered \cap (written \cup named) = {}
    <3> SUFFICES ASSUME NEW k \in Key, NEW m \in Range(message_list[k]), m \in Done
                 PROVE  FALSE
      BY DEF Done
    <3>1. KeyInv(k) /\ message_list[k] \in Seq(Item)
      BY DEF StoreInv, KeysInv, TypeOK
    <3>2. m \in Dealt(k) /\ m.id \in Nat
      BY <3>1, RangeType, ItemId DEF KeyInv, Dealt
    <3>3. m.id < m.id
      BY <3>1, <3>2 DEF KeyInv, Before
    <3> QED
      BY <3>2, <3>3
  <2>2. \A f \in File : \A m \in Written(f) : m.kind = "msg" /\ m.file = f
    BY DEF StoreInv, FilesInv, FileInv
  <2>3. written \cap named = {}
    BY DEF StoreInv, FilesInv, FileInv
  <2> QED
    BY <2>1, <2>2, <2>3 DEF OnePlace
<1> QED
  BY <1>1, StoreInvariant, PTL
=============================================================================
