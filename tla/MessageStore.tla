---------------------------- MODULE MessageStore ----------------------------
(***************************************************************************)
(* The message store of the logger in the mode LOCAL_STORE: the buffer of  *)
(* TClientMessage (clientmessage.cpp), the message thread that empties it  *)
(* when it is woken by a signal or after a minute, and the log files with  *)
(* their archives (class filethread, file.cpp).                            *)
(*                                                                         *)
(* The threads of the clients put messages and requests to delete a file   *)
(* into one buffer and signal SIGUSR2 with a code.  SIGUSR2 is no          *)
(* real-time signal: while one is pending, another one is dropped.  The    *)
(* message thread takes the whole buffer and does with all of it what the  *)
(* one code says.  Each critical section of the mutex ClientMessage is one *)
(* action; the mutex Write is used by no other thread in this mode.        *)
(***************************************************************************)
EXTENDS Naturals, Sequences, FiniteSets, Functions

CONSTANTS
    File,               \* the log files of a domain (domain/filename)
    Domain,             \* its name, under which requests to delete are kept
    max_list_size,      \* length of the buffer that wakes the message thread
    max_size,           \* messages in a file above which it is archived
    max_archive_count,  \* archives of one file
    SiginfoAtStart,     \* codes its uninitialised siginfo may hold at first
    MaxItems            \* bound of the model: messages and requests in all

ASSUME DomainIsNoFile == Domain \notin File

ASSUME SizesAreNumbers ==
    /\ max_list_size \in Nat
    /\ max_size \in Nat
    /\ max_archive_count \in Nat
    /\ MaxItems \in Nat

VARIABLES
    process,        \* "running", "stopping" in FreeMemory, or "ended"
    accepted,       \* how many messages and requests have been accepted
    message_list,   \* TClientMessage::message_list: what arrived, by key
    pending,        \* the code of the SIGUSR2 pending at the message thread
    pc,             \* where the message thread stands
    siginfo,        \* the code its siginfo holds
    code,           \* the code it acts upon
    fl_break,       \* it ends afterwards
    mml,            \* the list it has taken and not yet done with
    full,           \* the file it is about to archive, or NoFile
    log,            \* the log files (disk)
    archives,       \* the archives of each file, the oldest first (disk)
    named           \* what was handed to FileDelete as the name of a file

thread == <<pc, siginfo, code, fl_break, mml, full>>
files == <<log, archives>>
vars == <<process, accepted, message_list, pending, thread, files, named>>

(* A message for a file, or a request to delete it; ids count arrivals. *)
Item == [id : 1..MaxItems, kind : {"msg", "del"}, file : File]

(* A list of the type Mmessagelist: a message under its file, a request    *)
(* under its domain, each in the order of arrival.                         *)
Key == File \cup {Domain}
KeyOf(k, f) == IF k = "msg" THEN f ELSE Domain
Empty == [k \in Key |-> <<>>]

(* get_messagelist_size                                                    *)
Size(list) == Cardinality({p \in Key \X (1..MaxItems) : p[2] \in DOMAIN list[p[1]]})

Codes == {"evMsg", "evDelete"}
NoSignal == "none"
NoFile == "none"

Init ==
    /\ process = "running"
    /\ accepted = 0
    /\ message_list = Empty
    /\ pending = NoSignal
    /\ pc = "start"
    /\ siginfo \in SiginfoAtStart
    /\ code = "evMsg"
    /\ fl_break = FALSE
    /\ mml = Empty
    /\ full = NoFile
    /\ log = [f \in File |-> <<>>]
    /\ archives = [f \in File |-> <<>>]
    /\ named = {}

-----------------------------------------------------------------------------
(* pthread_sigqueue(msg_thread, SIGUSR2, c): ignored until the thread      *)
(* blocks SIGUSR2 and after its end, dropped while another one is pending. *)
Queued(c) ==
    IF pc \in {"start", "ended"} \/ pending # NoSignal THEN pending ELSE c

(* AddMessage of a client thread, with OnReadyTransmitMessage or           *)
(* OnDeleteMessage.                                                        *)
AddMessage(k, f) ==
    /\ process # "ended"
    /\ accepted < MaxItems
    /\ accepted' = accepted + 1
    /\ message_list' = [message_list EXCEPT ![KeyOf(k, f)] =
                            Append(@, [id |-> accepted', kind |-> k, file |-> f])]
    /\ pending' = CASE k = "del" -> Queued("evDelete")
                    [] k = "msg" /\ Size(message_list') >= max_list_size ->
                        Queued("evMsg")
                    [] OTHER -> pending
    /\ UNCHANGED <<process, thread, files, named>>

-----------------------------------------------------------------------------
(* A step of the message thread from a to b. *)
Goto(a, b) == process # "ended" /\ pc = a /\ pc' = b

(* sigprocmask: from now on SIGUSR2 is kept. *)
Block ==
    /\ Goto("start", "wait")
    /\ UNCHANGED <<process, accepted, message_list, pending, siginfo, code,
                   fl_break, mml, full, files, named>>

(* Mutant: the code 0xFF is not replaced by evMsg. *)
ReceiveRawCode ==
    /\ Goto("wait", "take")
    /\ pending # NoSignal
    /\ fl_break' = (pending = "0xFF")
    /\ code' = pending
    /\ siginfo' = pending
    /\ pending' = NoSignal
    /\ UNCHANGED <<process, accepted, message_list, mml, full, files, named>>

(* sigtimedwait returns a signal; the code 0xFF means to write what there  *)
(* is and to end.                                                          *)
Receive ==
    /\ Goto("wait", "take")
    /\ pending # NoSignal
    /\ fl_break' = (pending = "0xFF")
    /\ code' = IF pending = "0xFF" THEN "evMsg" ELSE pending
    /\ siginfo' = pending
    /\ pending' = NoSignal
    /\ UNCHANGED <<process, accepted, message_list, mml, full, files, named>>

(* Mutant: a timeout only waits again. *)
TimeoutWaits ==
    /\ Goto("wait", "wait")
    /\ pending = NoSignal
    /\ UNCHANGED vars

(* sigtimedwait times out: the buffer is written.  Whether the thread ends *)
(* afterwards is read from siginfo, which still holds the code of the      *)
(* signal before, or of none.                                              *)
Timeout ==
    /\ Goto("wait", "take")
    /\ pending = NoSignal
    /\ code' = "evMsg"
    /\ fl_break' = (siginfo = "0xFF")
    /\ UNCHANGED <<process, accepted, message_list, pending, siginfo, mml, full,
                   files, named>>

(* Mutant: the buffer is copied and not cleared. *)
TakeCopy ==
    /\ Goto("take", "store")
    /\ mml' = message_list
    /\ UNCHANGED <<process, accepted, message_list, pending, siginfo, code,
                   fl_break, full, files, named>>

(* The buffer is copied and cleared. *)
Take ==
    /\ Goto("take", "store")
    /\ mml' = message_list
    /\ message_list' = Empty
    /\ UNCHANGED <<process, accepted, pending, siginfo, code, fl_break, full,
                   files, named>>

(* RunWork, the turn of one file: all its messages are appended, unless    *)
(* its directory cannot be made or it cannot be opened.  A file that grew  *)
(* too long is archived, with the mutex Write still held.  (The map is     *)
(* walked in the order of the names, which are not modelled.)              *)
WriteFile(f) ==
    /\ code = "evMsg"
    /\ mml[f] # <<>>
    /\ \E ok \in BOOLEAN :
        /\ log' = IF ok THEN [log EXCEPT ![f] = @ \o mml[f]] ELSE log
        /\ full' = IF ok /\ Len(log'[f]) > max_size THEN f ELSE NoFile
    /\ Goto("store", IF full' = f THEN "archive" ELSE "store")
    /\ mml' = [mml EXCEPT ![f] = <<>>]
    /\ UNCHANGED <<process, accepted, message_list, pending, siginfo, code,
                   fl_break, archives, named>>

(* Mutant: the file becomes the oldest of the archives. *)
ArchiveFirst ==
    /\ Goto("archive", "store")
    /\ Len(archives[full]) + 1 <= max_archive_count
    /\ archives' = [archives EXCEPT ![full] = <<log[full]>> \o @]
    /\ log' = [log EXCEPT ![full] = <<>>]
    /\ full' = NoFile
    /\ UNCHANGED <<process, accepted, message_list, pending, siginfo, code,
                   fl_break, mml, named>>

(* RecreateFileList: the file becomes the youngest of the archives, if     *)
(* there are not yet as many as allowed; the archives keep their names.    *)
(* If there are, FileDelete locks the mutex Write, which its caller's      *)
(* caller Write holds: the thread waits for itself, and has no step.       *)
Archive ==
    /\ Goto("archive", "store")
    /\ Len(archives[full]) + 1 <= max_archive_count
    /\ archives' = [archives EXCEPT ![full] = Append(@, log[full])]
    /\ log' = [log EXCEPT ![full] = <<>>]
    /\ full' = NoFile
    /\ UNCHANGED <<process, accepted, message_list, pending, siginfo, code,
                   fl_break, mml, named>>

(* RunWork, the turn of the domain: the texts of its requests are written  *)
(* to a file with the name of the domain, or to none.                      *)
WriteRequests ==
    /\ code = "evMsg"
    /\ Goto("store", "store")
    /\ mml[Domain] # <<>>
    /\ mml' = [mml EXCEPT ![Domain] = <<>>]
    /\ UNCHANGED <<process, accepted, message_list, pending, siginfo, code,
                   fl_break, full, files, named>>

(* TryToDeleteFile: a request deletes its file.  The text of a message     *)
(* names no file.                                                          *)
DeleteNamed(k) ==
    /\ code = "evDelete"
    /\ Goto("store", "store")
    /\ mml[k] # <<>>
    /\ named' = named \cup {Head(mml[k])}
    /\ log' = IF k = Domain THEN [log EXCEPT ![Head(mml[k]).file] = <<>>] ELSE log
    /\ mml' = [mml EXCEPT ![k] = Tail(@)]
    /\ UNCHANGED <<process, accepted, message_list, pending, siginfo, code,
                   fl_break, full, archives>>

(* The list is done with. *)
StoreDone ==
    /\ Goto("store", IF fl_break THEN "ended" ELSE "wait")
    /\ mml = Empty
    /\ UNCHANGED <<process, accepted, message_list, pending, siginfo, code,
                   fl_break, mml, full, files, named>>

ThreadStep ==
    \/ Block \/ Receive \/ Timeout \/ Take
    \/ \E f \in File : WriteFile(f)
    \/ Archive \/ WriteRequests
    \/ \E k \in Key : DeleteNamed(k)
    \/ StoreDone

-----------------------------------------------------------------------------
(* SIGTERM: FreeMemory tells the message thread to end.  As the thread is  *)
(* detached, pthread_join does not wait for it: the process ends at any    *)
(* moment from now on.                                                     *)
Stop ==
    /\ process = "running"
    /\ process' = "stopping"
    /\ pending' = Queued("0xFF")
    /\ UNCHANGED <<accepted, message_list, thread, files, named>>

End ==
    /\ process = "stopping"
    /\ process' = "ended"
    /\ UNCHANGED <<accepted, message_list, pending, thread, files, named>>

(* The logger is started again: the files are left. *)
Start ==
    /\ process = "ended"
    /\ process' = "running"
    /\ message_list' = Empty
    /\ pending' = NoSignal
    /\ pc' = "start"
    /\ siginfo' \in SiginfoAtStart
    /\ code' = "evMsg"
    /\ fl_break' = FALSE
    /\ mml' = Empty
    /\ full' = NoFile
    /\ UNCHANGED <<accepted, files, named>>

Next ==
    \/ \E k \in {"msg", "del"}, f \in File : AddMessage(k, f)
    \/ ThreadStep
    \/ Stop \/ End \/ Start

Spec == Init /\ [][Next]_vars

(* The message thread is scheduled; a SIGTERM comes to its end. *)
FairSpec == Spec /\ WF_vars(ThreadStep) /\ WF_vars(End)

-----------------------------------------------------------------------------
(* Every variable has the values the program gives it; only a 0xFF ends    *)
(* the thread.                                                             *)
TypeOK ==
    /\ process \in {"running", "stopping", "ended"}
    /\ accepted \in 0..MaxItems
    /\ message_list \in [Key -> Seq(Item)]
    /\ pending \in Codes \cup {"0xFF", NoSignal}
    /\ pc \in {"start", "wait", "take", "store", "archive", "ended"}
    /\ siginfo \in SiginfoAtStart \cup Codes \cup {"0xFF"}
    /\ code \in Codes
    /\ full \in File \cup {NoFile}
    /\ fl_break \in BOOLEAN
    /\ mml \in [Key -> Seq(Item)]
    /\ log \in [File -> Seq(Item)]
    /\ archives \in [File -> Seq(Seq(Item))]
    /\ named \subseteq Item

(* What is written of a file, from the oldest archive to the log. *)
Parts(f) == Append(archives[f], log[f])
Written(f) == UNION {Range(Parts(f)[a]) : a \in DOMAIN Parts(f)}

(* The messages of a file are written in the order in which they were      *)
(* accepted and none of them twice, over all archives: whatever the        *)
(* signals, the takes and the restarts between them.                       *)
WrittenInOrder ==
    \A f \in File : \A a, b \in DOMAIN Parts(f) :
        \A i \in DOMAIN Parts(f)[a], j \in DOMAIN Parts(f)[b] :
            a < b \/ (a = b /\ i < j) => Parts(f)[a][i].id < Parts(f)[b][j].id

(* A message is written to its own file only; what is written or named is  *)
(* no longer in the buffer, so that no later signal can act on it again.   *)
OnePlace ==
    LET buffered == UNION {Range(message_list[k]) : k \in Key}
        written == UNION {Written(f) : f \in File}
    IN  /\ buffered \cap (written \cup named) = {}
        /\ \A f \in File : \A m \in Written(f) : m.kind = "msg" /\ m.file = f
        /\ written \cap named = {}

(* Signals are dropped, but nothing stays in the buffer or in the hands of *)
(* the message thread: every message and request is dealt with, or the     *)
(* program has been stopped.                                               *)
Held(n) ==
    \E k \in Key : \E m \in Range(message_list[k]) \cup Range(mml[k]) : m.id = n
Handled == \A n \in 1..MaxItems : Held(n) ~> (~Held(n) \/ process # "running")

(* Received messages are written, as Logger.ini says of check_period: none *)
(* of them is taken for the name of a file to be deleted.                  *)
MessagesAreWritten == \A i \in named : i.kind = "del"

(* The number of archives is limited by deleting the oldest, as Logger.ini *)
(* says of max_archive_count: the limit does not stop the logger.          *)
ArchivingGoesOn == (pc = "archive") ~> (pc # "archive" \/ process # "running")
=============================================================================
