------------------------------ MODULE MCStream ------------------------------
(***************************************************************************)
(* What surrounds the player of accordion, for TLC: the readers of files,  *)
(* the pace, the connection to the streaming server, and the processes     *)
(* that are started for a channel.  They share no variable, so that each   *)
(* behaviour is one of a single part.                                      *)
(***************************************************************************)
EXTENDS ClientSocket, FrameReader, Pacing, ChannelControl, SequencesExt

VARIABLE part

Frame(len) == <<len>> \o [i \in 1..len - 1 |-> None]
Frames(lens) == FoldLeft(LAMBDA s, len : s \o Frame(len), <<>>, lens)
Junk(n) == [i \in 1..n |-> None]
File(id3, s) == [id3 |-> id3, bytes |-> s]

MCTracks ==
    {"aac", "mpx"} \X
    {File(0, Frames(<<12, 12, 12, 12, 12>>)),
     File(0, Frames(<<12, 9, 15, 10, 13, 12>>)),
     File(0, Frames(<<12>>)),                           \* less than a second
     File(0, Frames(<<12, 12, 7, 12, 12, 12>>)),        \* a frame without data
     File(0, Frames(<<12, 12, 0>>)),                    \* a frame without length
     File(0, Frames(<<12, 12, 12>>) \o <<12, None, None, None, None, None, None, None>>),
     File(0, Frames(<<12, 12, 12>>) \o <<12, None>>),   \* torn frames
     File(0, Frames(<<12, 12, 12, 12>>) \o Junk(14)),
     File(0, Junk(5) \o Frames(<<12, 12, 12>>)),
     File(6, Junk(6) \o Frames(<<12, 12, 12>>)),        \* with a tag
     File(0, Frames(<<20, 20, 20>>)),                   \* a high rate
     File(0, <<>>)}
    \union {<<"aac", File(0, Frames(<<12, 12, 30, 12>>))>>}   \* too long for aac

MCInit ==
    /\ part \in {"socket", "reader", "pacing", "control"}
    /\ Init /\ PacingInit /\ ControlInit /\ ReaderInit
    /\ part # "reader" => audio = <<"aac", File(0, <<>>)>>
    /\ part # "socket" => \A n \in Attempts : n <= max_conections

MCSocket ==
    part = "socket" /\ Next /\ UNCHANGED <<part, reader_vars, pacing_vars, control_vars>>
MCReader ==
    part = "reader" /\ ReaderNext /\ UNCHANGED <<part, vars, pacing_vars, control_vars>>
MCPacing ==
    part = "pacing" /\ PacingNext /\ UNCHANGED <<part, vars, reader_vars, control_vars>>
MCControl ==
    part = "control" /\ ControlNext /\ UNCHANGED <<part, vars, reader_vars, pacing_vars>>

MCNext == MCSocket \/ MCReader \/ MCPacing \/ MCControl

MCSpec ==
    /\ MCInit /\ [][MCNext]_<<part, vars, reader_vars, pacing_vars, control_vars>>
    /\ Fairness

(* The variables of each part have the values the program gives them.      *)
StreamTypeOK == TypeOK /\ ReaderTypeOK /\ PacingTypeOK /\ ControlTypeOK
=============================================================================
