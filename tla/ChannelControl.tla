--------------------------- MODULE ChannelControl ---------------------------
(***************************************************************************)
(* The processes that are started for one channel (main of accordion):     *)
(* each looks through the output of ps for the others, in the order in     *)
(* which they were started, and then streams, sends a signal or reports.   *)
(*                                                                         *)
(* ps reads one process after the other: who lives all the while is seen,  *)
(* who begins or ends meanwhile may be.                                    *)
(***************************************************************************)
EXTENDS Integers, FiniteSetsExt

CONSTANT N      \* bound of the model: processes, numbered as they start

ASSUME ProcessesAreNumbered == N \in Nat

Procs == 1..N
Commands == {"stop", "make", "status", "check"}

VARIABLES
    at,         \* "unborn", "born", "ps", "done", "signal", "serve", "other", "gone"
    cmd,        \* the first argument; "other": another program with these arguments
    existed,    \* the processes that were there when its ps began
    m_pid,      \* whom it found, 0 for nobody
    again,      \* stop looks once more
    sigterm,    \* processes that stream, with a SIGTERM to come
    cleared,    \* nobody streamed at some time of its look
    reported    \* its exit status, as what it means

control_vars == <<at, cmd, existed, m_pid, again, sigterm, cleared, reported>>

Alive == {p \in Procs : at[p] \notin {"unborn", "gone"}}
Serving == {p \in Procs : at[p] = "serve"}

ControlInit ==
    /\ at = [p \in Procs |-> "unborn"]
    /\ cmd = [p \in Procs |-> "start"]
    /\ existed = [p \in Procs |-> {}]
    /\ m_pid = [p \in Procs |-> 0]
    /\ again = {} /\ sigterm = {}
    /\ cleared = [p \in Procs |-> FALSE]
    /\ reported = [p \in Procs |-> "nothing"]

(* A process with the arguments of the channel begins. *)
Begin(p, word) ==
    /\ at[p] = "unborn"
    /\ \A q \in 1..p - 1 : at[q] # "unborn"
    /\ at' = [at EXCEPT ![p] = IF word = "other" THEN "other" ELSE "born"]
    /\ cmd' = [cmd EXCEPT ![p] = word]
    /\ UNCHANGED <<existed, m_pid, again, sigterm, cleared, reported>>

(* getCmdOutput: ps begins. *)
GetCmdOutput(p) ==
    /\ at[p] = "born"
    /\ at' = [at EXCEPT ![p] = "ps"]
    /\ existed' = [existed EXCEPT ![p] = Alive]
    /\ cleared' = [cleared EXCEPT ![p] = (Serving = {})]
    /\ UNCHANGED <<cmd, m_pid, again, sigterm, reported>>

(* Mutant of GetPid: also the first line is taken for the process itself.  *)
GetPidSecond(seen) ==
    LET lines == seen \ {Max(seen), Min(seen)}
        accordions == {q \in lines : cmd[q] # "other"}
    IN  IF accordions = {} THEN 0 ELSE Min(accordions)

(* GetPid: the first line but for other programs (is_console_cmd); the     *)
(* last one is taken for the process itself.                               *)
GetPid(seen) ==
    LET lines == seen \ {Max(seen)}
        accordions == {q \in lines : cmd[q] # "other"}
    IN  IF accordions = {} THEN 0 ELSE Min(accordions)

PsEnds(p, seen) ==
    /\ at[p] = "ps"
    /\ existed[p] \intersect Alive \subseteq seen
    /\ seen \subseteq existed[p] \union Alive
    /\ at' = [at EXCEPT ![p] = "done"]
    /\ m_pid' = [m_pid EXCEPT ![p] = GetPid(seen)]
    /\ UNCHANGED <<cmd, existed, again, sigterm, cleared, reported>>

(* dispatcher begins. *)
Serve(p) ==
    /\ at[p] = "done" /\ cmd[p] = "start"
    /\ m_pid[p] = 0
    /\ at' = [at EXCEPT ![p] = "serve"]
    /\ UNCHANGED <<cmd, existed, m_pid, again, sigterm, cleared, reported>>

(* "is already started", or there is no configuration. *)
Refuse(p) ==
    /\ at[p] = "done" /\ cmd[p] = "start"
    /\ at' = [at EXCEPT ![p] = "gone"]
    /\ UNCHANGED <<cmd, existed, m_pid, again, sigterm, cleared, reported>>

(* kill.  Only a process that streams has handlers for the two signals;    *)
(* another one dies of them, the command itself included.                  *)
Kill(p) ==
    /\ at[p] = "done" /\ cmd[p] \in {"stop", "make"}
    /\ m_pid[p] # 0 /\ p \notin again
    /\ LET t == m_pid[p]
       IN  /\ sigterm' = IF t \in Serving /\ cmd[p] = "stop" THEN sigterm \union {t}
                         ELSE sigterm
           /\ at' = [q \in Procs |->
                        IF q = t /\ q \in Alive \ Serving THEN "gone"
                        ELSE IF q # p THEN at[q]
                        ELSE IF cmd[p] = "stop" THEN "signal" ELSE "gone"]
    /\ UNCHANGED <<cmd, existed, m_pid, again, cleared, reported>>

(* After a second, stop looks again. *)
LookAgain(p) ==
    /\ at[p] = "signal"
    /\ at' = [at EXCEPT ![p] = "born"]
    /\ again' = again \union {p}
    /\ UNCHANGED <<cmd, existed, m_pid, sigterm, cleared, reported>>

(* The exit status; that of make has no meaning: it is 1 if the signal was *)
(* sent and if there was no process.                                       *)
Report(p) ==
    /\ at[p] = "done" /\ cmd[p] \in Commands
    /\ cmd[p] \in {"status", "check"} \/ m_pid[p] = 0 \/ p \in again
    /\ at' = [at EXCEPT ![p] = "gone"]
    /\ reported' = IF cmd[p] = "make" THEN reported
                   ELSE [reported EXCEPT ![p] = IF m_pid[p] = 0 THEN "absent" ELSE "there"]
    /\ UNCHANGED <<cmd, existed, m_pid, again, sigterm, cleared>>

(* The process that streams ends: Sig_Handler, or dispatcher returns.      *)
End(p) ==
    /\ at[p] = "serve"
    /\ at' = [at EXCEPT ![p] = "gone"]
    /\ sigterm' = sigterm \ {p}
    /\ cleared' = IF Serving = {p} THEN [q \in Procs |-> TRUE] ELSE cleared
    /\ UNCHANGED <<cmd, existed, m_pid, again, reported>>

(* Another program ends. *)
OtherEnds(p) ==
    /\ at[p] = "other"
    /\ at' = [at EXCEPT ![p] = "gone"]
    /\ UNCHANGED <<cmd, existed, m_pid, again, sigterm, cleared, reported>>

ControlNext ==
    \E p \in Procs :
        \/ \E word \in Commands \union {"start", "other"} : Begin(p, word)
        \/ GetCmdOutput(p)
        \/ \E seen \in SUBSET Procs : PsEnds(p, seen)
        \/ Serve(p) \/ Refuse(p) \/ Kill(p) \/ LookAgain(p) \/ Report(p)
        \/ End(p) \/ OtherEnds(p)

ControlSpec == ControlInit /\ [][ControlNext]_control_vars

-----------------------------------------------------------------------------
(* The variables have the values the program gives them; only a process    *)
(* that streams waits for a SIGTERM.                                       *)
ControlTypeOK ==
    /\ at \in [Procs -> {"unborn", "born", "ps", "done", "signal", "serve",
                         "other", "gone"}]
    /\ cmd \in [Procs -> Commands \union {"start", "other"}]
    /\ existed \in [Procs -> SUBSET Procs]
    /\ m_pid \in [Procs -> 0..N]
    /\ again \subseteq Procs
    /\ sigterm \subseteq Serving
    /\ cleared \in [Procs -> BOOLEAN]
    /\ reported \in [Procs -> {"nothing", "absent", "there"}]

Promised == INSTANCE Channel
              WITH running <- Serving, clear <- cleared, said <- reported

(* However many starts and commands run at the same time, whatever their   *)
(* ps shows of each other, and whoever kills whom: one process at a time   *)
(* streams the channel, and a command that says there is none is right.    *)
ImplementsChannel == Promised!Spec
=============================================================================
