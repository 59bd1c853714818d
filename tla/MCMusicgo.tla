------------------------------ MODULE MCMusicgo ------------------------------
(***************************************************************************)
(* musicgo for TLC: its pid file, its server and the answers of its        *)
(* children, which share no variable, so that each behaviour is one of a   *)
(* single part.                                                            *)
(***************************************************************************)
EXTENDS PidFile, RangeServer, RangeAnswer

VARIABLE part

vars == <<part, pid_vars, server_vars, answer_vars>>

(* n frames of the given lengths: a header, and data without headers.      *)
Frame(len) == <<len>> \o [i \in 1..len - 1 |-> None]
Frames(lens) == FoldLeft(LAMBDA s, len : s \o Frame(len), <<>>, lens)
Even(n, len) == Frames([i \in 1..n |-> len])
Junk(n) == [i \in 1..n |-> None]
Decoy(s, p, len) == [s EXCEPT ![p] = len]

File(id3, bytes) == [is |-> "file", id3 |-> id3, bytes |-> bytes]

MCMedia ==
    {[is |-> "absent", id3 |-> 0, bytes |-> <<>>],
     [is |-> "closed", id3 |-> 0, bytes |-> <<>>],
     File(0, Even(6, 12)),                              \* a regular file
     File(0, Even(10, 12)),                             \* without padding
     File(0, Frames(<<12>> \o [i \in 1..8 |-> 13])),    \* padded to keep the rate
     File(0, Even(2, 12)),                              \* shorter than a preview
     File(0, Even(1, 12)),                              \* shorter than a second
     File(5, Junk(5) \o Even(6, 12)),                   \* with a tag
     File(0, Junk(3) \o Even(5, 12)),                   \* with junk before it
     File(0, Decoy(Even(6, 12), 28, 13)),               \* a syncword in the data
     File(0, Decoy(Even(6, 12), 28, 9)),                \* one that a frame follows
     File(0, SubSeq(Even(6, 12), 1, 68)),               \* a torn last frame
     File(0, Frames(<<12, 10, 14, 10, 12, 10>>)),       \* of changing rate
     File(0, Even(3, 12) \o Junk(12)),                  \* a damaged end
     File(0, Even(4, 12) \o Frame(0)),                  \* a frame without length
     File(0, Even(4, 12) \o Frame(21)),                 \* a frame too long
     File(0, Even(3, 12) \o Junk(4)),                   \* a few bytes too many
     File(0, Junk(8))}                                  \* no audio

P(name, n, m) == [name |-> name, n |-> n, m |-> m]
Aac == <<P("id", 7, 0), P("module", 0, 0)>>
Mpx == <<P("date", 0, 0), P("hash", 0, 0)>>
Token == <<P("token", 2, 0)>>
Range_(n, m) == <<P("bytes", n, m)>>

MCRequests ==
    LET what == {Aac, Mpx}
        who == {<<>>, Token, Token \o <<P("token", 1, 0)>>}
        part_of == {<<>>, Range_(0, 9), Range_(5, 0), Range_(5, 20),
                    Range_(30, 40) \o Range_(0, 17)}
    IN  {w \o t \o r : w \in what, t \in who, r \in part_of}
        \union {<<>>, <<P("id", 7, 0)>>, <<P("id", 0, 0), P("module", 0, 0)>>,
                <<P("date", 0, 0)>>, Aac \o <<P("date", 0, 0)>>, Aac \o Mpx}

MCConfig == {<<0, 2>>, <<1, 1>>, <<2, 2>>, <<3, 1>>}

MCInit ==
    /\ part \in {"pid", "server", "answer"}
    /\ PidInit /\ ServerInit
    /\ IF part = "answer" THEN AnswerInit
       ELSE LET one == CHOOSE x \in MCRequests : x = <<>>
                none == [is |-> "absent", id3 |-> 0, bytes |-> <<>>]
            IN  /\ request = one /\ file = none /\ config = <<0, 2>>
                /\ AnswerInit

MCPid == part = "pid" /\ PidNext /\ UNCHANGED <<part, server_vars, answer_vars>>
MCServer == part = "server" /\ ServerNext /\ UNCHANGED <<part, pid_vars, answer_vars>>
MCAnswer == part = "answer" /\ AnswerNext /\ UNCHANGED <<part, pid_vars, server_vars>>

MCNext == MCPid \/ MCServer \/ MCAnswer

(* The kernel delivers a pending signal and runs the parent.               *)
MCSpec ==
    /\ MCInit /\ [][MCNext]_vars
    /\ WF_server_vars(part = "server" /\ Handler)
    /\ WF_server_vars(part = "server" /\ DoClose)

(* The variables of each part have the values the program gives them.      *)
TypeOK == PidTypeOK /\ ServerTypeOK /\ AnswerTypeOK
=============================================================================
