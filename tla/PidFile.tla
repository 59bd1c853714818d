------------------------------ MODULE PidFile ------------------------------
(***************************************************************************)
(* The processes of musicgo around its pid file (musicgo_alias.cpp and     *)
(* common.cpp): starts as a daemon or in the foreground, the command stop, *)
(* SIGTERM, deaths without cleaning up, and the system's reuse of pids for *)
(* processes that are not musicgo.                                         *)
(*                                                                         *)
(* The file at the path need not be the one a starting daemon has open:    *)
(* writer tells whose it is, and what is written to an unlinked file is    *)
(* gone.  The lock of the file is left out: it is taken on a file just     *)
(* created, and nobody else asks for it.                                   *)
(***************************************************************************)
EXTENDS Naturals, FiniteSets

CONSTANTS
    Pids,           \* the process ids of the system
    NoFile, Empty,  \* no pid file; its content before a pid is written
    MaxCrashes      \* bound of the model: deaths without cleaning up

ASSUME PidConstants ==
    /\ {NoFile, Empty} \cap Pids = {}
    /\ NoFile # Empty
    /\ MaxCrashes \in Nat

VARIABLES
    at,             \* where the process of this id stands
    foreground,     \* processes that do not become a daemon
    pidfile,        \* what the file with the name of the pid file holds
    writer,         \* the starting daemon that has this file open
    target,         \* the pid the command stop has read
    bound,          \* who listens on the port
    crashes

pid_vars == <<at, foreground, pidfile, writer, target, bound, crashes>>

(* A process with "handlers" has passed ConfigureSignalHandlers.           *)
Handlers == {"check", "unlink", "create", "fork", "write", "listen", "dispose"}
Alien == {"none", "other"}
NoPid == Empty

PidInit ==
    /\ at = [p \in Pids |-> "none"]
    /\ foreground = {}
    /\ pidfile = NoFile
    /\ writer = NoPid
    /\ target = [p \in Pids |-> NoPid]
    /\ bound = NoPid
    /\ crashes = 0

Goes(p, pc) == at' = [at EXCEPT ![p] = pc]

Unlinked == pidfile' = NoFile /\ writer' = NoPid

Closed(p) == IF writer = p THEN NoPid ELSE writer

Ended(p) ==
    /\ Goes(p, "none")
    /\ foreground' = foreground \ {p}
    /\ target' = [target EXCEPT ![p] = NoPid]

(* main: the configuration decides between a daemon and the foreground;    *)
(* without a file, or with a bad one, the process only cleans up.          *)
StartDaemon(p) ==
    /\ at[p] = "none"
    /\ Goes(p, "check")
    /\ UNCHANGED <<foreground, pidfile, writer, target, bound, crashes>>

StartForeground(p) ==
    /\ at[p] = "none"
    /\ Goes(p, "listen")
    /\ foreground' = foreground \union {p}
    /\ UNCHANGED <<pidfile, writer, target, bound, crashes>>

StartMisconfigured(p) ==
    /\ at[p] = "none"
    /\ \E pc \in {"leave", "dispose"} : Goes(p, pc)
    /\ UNCHANGED <<foreground, pidfile, writer, target, bound, crashes>>

(* CheckLockPIDExists: only a file that names a process that is gone lets  *)
(* the start go on, after the file has been removed.                       *)
Check(p) ==
    /\ at[p] = "check"
    /\ Goes(p, IF pidfile = NoFile THEN "create"
               ELSE IF pidfile = Empty THEN "dispose"
               ELSE IF at[pidfile] = "none" THEN "unlink" ELSE "dispose")
    /\ UNCHANGED <<foreground, pidfile, writer, target, bound, crashes>>

RemoveStale(p) ==
    /\ at[p] = "unlink"
    /\ Goes(p, "create")
    /\ Unlinked
    /\ UNCHANGED <<foreground, target, bound, crashes>>

(* BecomeDaemonProcess: open with O_EXCL, fork, and the pid of the child.  *)
Create(p) ==
    /\ at[p] = "create"
    /\ IF pidfile # NoFile
       THEN Goes(p, "dispose") /\ UNCHANGED <<pidfile, writer>>
       ELSE Goes(p, "fork") /\ pidfile' = Empty /\ writer' = p
    /\ UNCHANGED <<foreground, target, bound, crashes>>

Fork(p, c) ==
    /\ at[p] = "fork"
    /\ at[c] = "none"
    /\ at' = [at EXCEPT ![p] = "none", ![c] = "write"]
    /\ writer' = IF writer = p THEN c ELSE writer
    /\ UNCHANGED <<foreground, pidfile, target, bound, crashes>>

DaemonForkFails(p) ==
    /\ at[p] = "fork"
    /\ Goes(p, "dispose")
    /\ UNCHANGED <<foreground, pidfile, writer, target, bound, crashes>>

WritePid(p) ==
    /\ at[p] = "write"
    /\ pidfile' = IF writer = p THEN p ELSE pidfile
    /\ writer' = Closed(p)
    /\ Goes(p, "listen")
    /\ UNCHANGED <<foreground, target, bound, crashes>>

(* The constructor of tclient_socket: bind, which fails for a second one.  *)
Listen(p) ==
    /\ at[p] = "listen"
    /\ \/ /\ bound = NoPid
          /\ bound' = p
          /\ Goes(p, "serve")
       \/ Goes(p, "dispose") /\ UNCHANGED bound
    /\ UNCHANGED <<foreground, pidfile, writer, target, crashes>>

(* Mutant of DisposeCommon: the file is not unlinked.                      *)
DisposeNothing(p) ==
    /\ at[p] \in {"dispose", "leave"}
    /\ Ended(p)
    /\ writer' = Closed(p)
    /\ UNCHANGED <<pidfile, bound, crashes>>

(* DisposeCommon removes what has the name of the pid file, also when it   *)
(* belongs to another process.                                             *)
DisposeCommon(p) ==
    /\ at[p] \in {"dispose", "leave"}
    /\ Unlinked
    /\ Ended(p)
    /\ UNCHANGED <<bound, crashes>>

(* The command stop: getPid ends the process when there is no file.        *)
StopCommand(p) ==
    /\ at[p] = "none"
    /\ Goes(p, "stop")
    /\ UNCHANGED <<foreground, pidfile, writer, target, bound, crashes>>

GetPid(p) ==
    /\ at[p] = "stop"
    /\ IF pidfile = NoFile THEN Goes(p, "none") /\ UNCHANGED target
       ELSE Goes(p, "kill") /\ target' = [target EXCEPT ![p] = pidfile]
    /\ UNCHANGED <<foreground, pidfile, writer, bound, crashes>>

(* Mutant of Terminated: a server has no handler of SIGTERM.               *)
TerminatedAtOnce(q) ==
    IF at[q] \in Handlers THEN "dispose" ELSE "none"

(* SIGTERM: OnSigTerm waits for the children when there is a Socket; a     *)
(* process without the handler dies of it.                                 *)
Terminated(q) ==
    IF at[q] \in {"serve", "closing"} THEN "closing"
    ELSE IF at[q] \in Handlers THEN "dispose" ELSE "none"

Kill(p) ==
    /\ at[p] = "kill"
    /\ at' = [q \in Pids |-> IF q = p THEN "leave"
                             ELSE IF q = target[p] THEN Terminated(q) ELSE at[q]]
    /\ target' = [q \in Pids |-> IF at'[q] = "kill" THEN target[q] ELSE NoPid]
    /\ UNCHANGED <<foreground, pidfile, writer, bound, crashes>>

(* do_close and the end of the Socket, before OnSigTerm's DisposeCommon.   *)
OnSigTerm(p) ==
    /\ at[p] = "closing"
    /\ bound' = NoPid
    /\ Goes(p, "dispose")
    /\ UNCHANGED <<foreground, pidfile, writer, target, crashes>>

(* A signal that FatalSigHandler answers with _exit, or SIGKILL.           *)
Crash(p) ==
    /\ crashes < MaxCrashes
    /\ at[p] \notin Alien
    /\ crashes' = crashes + 1
    /\ Ended(p)
    /\ writer' = Closed(p)
    /\ bound' = IF bound = p THEN NoPid ELSE bound
    /\ UNCHANGED pidfile

OtherProcess(p) ==
    /\ at[p] \in Alien
    /\ Goes(p, IF at[p] = "none" THEN "other" ELSE "none")
    /\ UNCHANGED <<foreground, pidfile, writer, target, bound, crashes>>

PidNext ==
    \E p \in Pids :
        \/ StartDaemon(p) \/ StartForeground(p) \/ StartMisconfigured(p)
        \/ Check(p) \/ RemoveStale(p) \/ Create(p)
        \/ (\E c \in Pids : Fork(p, c)) \/ DaemonForkFails(p) \/ WritePid(p)
        \/ Listen(p) \/ DisposeCommon(p)
        \/ StopCommand(p) \/ GetPid(p) \/ Kill(p) \/ OnSigTerm(p)
        \/ Crash(p) \/ OtherProcess(p)

PidSpec == PidInit /\ [][PidNext]_pid_vars

-----------------------------------------------------------------------------
PidTypeOK ==
    /\ at \in [Pids -> Handlers \union Alien
                       \union {"serve", "closing", "leave", "stop", "kill"}]
    /\ foreground \subseteq Pids
    /\ pidfile \in Pids \union {NoFile, Empty}
    /\ writer \in Pids \union {NoPid}
    /\ target \in [Pids -> Pids \union {NoPid}]
    /\ bound \in Pids \union {NoPid}
    /\ crashes \in 0..MaxCrashes

(* When no process of musicgo is left, and none has died without cleaning  *)
(* up, there is no pid file, whatever starts, stops, refusals and signals  *)
(* came between: OnSigTerm, main and stop all end in DisposeCommon.        *)
LeavesNothing ==
    crashes = 0 /\ (\A p \in Pids : at[p] \in Alien) => pidfile = NoFile

(* The pid that CheckLockPIDExists and getPid read is that of a daemon     *)
(* that has not ended, unless one died without cleaning up: a start is not *)
(* refused, and a stop not sent, because of a process that only came by    *)
(* the same id.                                                            *)
NamesADaemon ==
    crashes = 0 /\ pidfile \in Pids =>
        at[pidfile] \in {"listen", "serve", "closing", "dispose"}
=============================================================================
