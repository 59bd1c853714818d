--------------------------- MODULE RemoteDelivery ---------------------------
(***************************************************************************)
(* The logger in the mode REMOTE_STORE (remotethread.cpp): the remote      *)
(* thread takes the buffer of TClientMessage, sends each message to        *)
(* another logger over a connection of its own, and appends to a local     *)
(* file what it could not send.  The file is read when the program starts. *)
(*                                                                         *)
(* The message thread of the other mode runs here too and empties the same *)
(* buffer.  A message is the sequence of what it is made of on the disk:   *)
(* an item and the end of the line, so that lines may run together.        *)
(***************************************************************************)
EXTENDS Naturals, Sequences, SequencesExt

CONSTANTS
    Files,          \* the keys of the buffer, numbered in their order
    m_size_in_memo, \* length of the list above which its older part is dropped
    max_list_size,  \* length of the buffer that wakes the remote thread
    SiginfoAtStart, \* codes its uninitialised siginfo may hold at first
    MaxItems,       \* bound of the model: messages and requests in all
    MaxStarts       \* bound of the model: how often the logger is started

ASSUME RemoteConstants ==
    /\ Files \subseteq Nat
    /\ m_size_in_memo \in Nat /\ max_list_size \in Nat
    /\ MaxItems \in Nat /\ MaxStarts \in Nat

VARIABLES
    process,        \* "starting" without pClientMessage, "running", "stopping", "ended"
    starts,         \* how often the logger was started
    accepted,       \* messages and requests accepted so far
    message_list,   \* TClientMessage::message_list
    pending,        \* the code of the SIGUSR2 pending at the remote thread
    pc,             \* where the remote thread stands
    siginfo,        \* the code its siginfo holds
    mml,            \* what it has taken from the buffer
    msg_list,       \* RemoteThread::msg_list
    fl_local_exists,
    it,             \* the message it sends or saves
    is_ok,
    local,          \* the local file (disk)
    delivered,      \* auxiliary: what the other logger has received
    saved,          \* auxiliary: what has ever been written to the local file
    sent            \* auxiliary: a message of this round has been sent

outside == <<process, starts, accepted, message_list, pending>>
thread == <<pc, siginfo, mml, msg_list, fl_local_exists, it, is_ok, sent>>
done == <<local, delivered, saved>>
remote == <<outside, thread, done>>

Item == [id : 1..MaxItems, kind : {"msg", "del"}, file : Files]
MARKER_END == [id |-> 0, kind |-> "end", file |-> 0]
NoSignal == "none"
Empty == [f \in Files |-> <<>>]

(* The process begins: the threads exist before pClientMessage does.       *)
Begun ==
    /\ process' = "starting"
    /\ message_list' = Empty
    /\ pending' = NoSignal
    /\ pc' = "start"
    /\ siginfo' \in SiginfoAtStart
    /\ mml' = Empty
    /\ msg_list' = <<>>
    /\ fl_local_exists' = FALSE
    /\ it' = 1
    /\ is_ok' = FALSE
    /\ sent' = FALSE

RemoteInit ==
    /\ process = "starting"
    /\ starts = 1
    /\ accepted = 0
    /\ message_list = Empty
    /\ pending = NoSignal
    /\ pc = "start"
    /\ siginfo \in SiginfoAtStart
    /\ mml = Empty
    /\ msg_list = <<>>
    /\ fl_local_exists = FALSE
    /\ it = 1
    /\ is_ok = FALSE
    /\ sent = FALSE
    /\ local = <<>>
    /\ delivered = <<>>
    /\ saved = {}

-----------------------------------------------------------------------------
(* The clients, the message thread and the process.                        *)

(* pthread_sigqueue(remote_thread, ...): ignored until the thread has      *)
(* blocked SIGUSR2, dropped while another one is pending.                  *)
Queued(c) ==
    IF pc \in {"start", "ended"} \/ pending # NoSignal THEN pending ELSE c

(* main: new TClientMessage. *)
ClientMessageMade ==
    /\ process = "starting"
    /\ process' = "running"
    /\ UNCHANGED <<starts, accepted, message_list, pending, thread, done>>

BufferSize(m) == FoldLeft(LAMBDA n, f : n + Len(m[f]), 0, SetToSeq(Files))

(* AddMessage: a message is kept with the end of its line, a request to    *)
(* delete is a bare name, and wakes only the message thread.               *)
AddMessage(k, f) ==
    LET item == [id |-> accepted + 1, kind |-> k, file |-> f]
    IN  /\ process \in {"running", "stopping"}
        /\ accepted < MaxItems
        /\ accepted' = accepted + 1
        /\ message_list' = [message_list EXCEPT ![f] =
               Append(@, IF k = "msg" THEN <<item, MARKER_END>> ELSE <<item>>)]
        /\ pending' = IF k = "msg" /\ BufferSize(message_list') >= max_list_size
                      THEN Queued("evMsg") ELSE pending
        /\ UNCHANGED <<process, starts, thread, done>>

(* The message thread after its minute, or after a request to delete:      *)
(* filethread::RunWork does nothing in this mode, TryToDeleteFile takes    *)
(* all of the list for names.                                              *)
MessageThreadTakes ==
    /\ process \in {"running", "stopping"}
    /\ message_list # Empty
    /\ message_list' = Empty
    /\ UNCHANGED <<process, starts, accepted, pending, thread, done>>

(* FreeMemory: both threads are told to end, and as they are detached      *)
(* nobody waits for them.                                                  *)
Stop ==
    /\ process = "running"
    /\ process' = "stopping"
    /\ pending' = Queued("0xFF")
    /\ UNCHANGED <<starts, accepted, message_list, thread, done>>

End ==
    /\ process = "stopping"
    /\ process' = "ended"
    /\ UNCHANGED <<starts, accepted, message_list, pending, thread, done>>

Start ==
    /\ process = "ended"
    /\ starts < MaxStarts
    /\ starts' = starts + 1
    /\ Begun
    /\ UNCHANGED <<accepted, done>>

-----------------------------------------------------------------------------
(* A step of the remote thread from a to b.                                *)
Goto(a, b) == process # "ended" /\ pc = a /\ pc' = b

LineEnds == {i \in 1..Len(local) + 1 : i <= Len(local) => local[i] = MARKER_END}

(* RemoteThread(): the next line of the local file goes to the list; the  *)
(* last one may lack its end.                                              *)
GetLine ==
    /\ Goto("start", "start")
    /\ it <= Len(local)
    /\ \E end \in it..Len(local) + 1 :
        /\ end \in LineEnds
        /\ \A k \in it..end - 1 : k \notin LineEnds
        /\ msg_list' = Append(msg_list, SubSeq(local, it, end - 1))
        /\ it' = end + 1
    /\ UNCHANGED <<outside, siginfo, mml, fl_local_exists, is_ok, sent, done>>

(* The thread wakes itself if the file held anything.                      *)
ReadLocal ==
    /\ Goto("start", "wait")
    /\ it > Len(local)
    /\ fl_local_exists' = (msg_list # <<>>)
    /\ pending' = IF msg_list # <<>> THEN "raised" ELSE NoSignal
    /\ UNCHANGED <<process, starts, accepted, message_list, siginfo, mml, msg_list,
                   it, is_ok, sent, done>>

(* sigtimedwait: a signal, or retry_interval has passed and siginfo is as  *)
(* it was.                                                                 *)
Wake ==
    /\ Goto("wait", "take")
    /\ siginfo' = IF pending # NoSignal THEN pending ELSE siginfo
    /\ pending' = NoSignal
    /\ UNCHANGED <<process, starts, accepted, message_list, mml, msg_list,
                   fl_local_exists, it, is_ok, sent, done>>

(* Mutant: the buffer is not cleared. *)
TakeCopy ==
    /\ process # "starting"
    /\ Goto("take", "append")
    /\ mml' = message_list
    /\ UNCHANGED <<outside, siginfo, msg_list, fl_local_exists, it, is_ok, sent,
                   done>>

(* The buffer is copied and cleared under its mutex. *)
Take ==
    /\ process # "starting"
    /\ Goto("take", "append")
    /\ mml' = message_list
    /\ message_list' = Empty
    /\ UNCHANGED <<process, starts, accepted, pending, siginfo, msg_list,
                   fl_local_exists, it, is_ok, sent, done>>

(* The thread is faster than main: it uses pClientMessage, which is NULL.  *)
TakeFromNull ==
    /\ process = "starting"
    /\ pc = "take"
    /\ process' = "ended"
    /\ UNCHANGED <<starts, accepted, message_list, pending, thread, done>>

(* append: the keys take their turn; a list that is too long loses its    *)
(* older three quarters first.                                             *)
Kept ==
    LET sz == Len(msg_list)
    IN  IF sz <= m_size_in_memo THEN msg_list
        ELSE SubSeq(msg_list, (sz * 3) \div 4 + 1, sz)

AppendFile(f) ==
    /\ Goto("append", "append")
    /\ mml[f] # <<>>
    /\ \A g \in Files : g < f => mml[g] = <<>>
    /\ msg_list' = Kept \o mml[f]
    /\ mml' = [mml EXCEPT ![f] = <<>>]
    /\ UNCHANGED <<outside, siginfo, fl_local_exists, it, is_ok, sent, done>>

(* RunWork after append. *)
RunWork ==
    /\ Goto("append", IF msg_list = <<>> THEN "check" ELSE "send")
    /\ mml = Empty
    /\ it' = 1
    /\ is_ok' = FALSE
    /\ sent' = FALSE
    /\ UNCHANGED <<outside, siginfo, mml, msg_list, fl_local_exists, done>>

(* A message has been sent; the other logger reads one object of it. *)
Sent ==
    /\ Goto("send", "recv")
    /\ it <= Len(msg_list)
    /\ is_ok' = TRUE
    /\ sent' = TRUE
    /\ delivered' = Append(delivered, Head(msg_list[it]))
    /\ UNCHANGED <<outside, siginfo, mml, msg_list, fl_local_exists, it, local,
                   saved>>

(* net_recv() returns when the other side has closed the connection. *)
Received ==
    /\ Goto("recv", "send")
    /\ it' = it + 1
    /\ UNCHANGED <<outside, siginfo, mml, msg_list, fl_local_exists, is_ok,
                   sent, done>>

(* net_connect gave a broken connection, or -1, which is true: net_send    *)
(* fails and the next message is tried.                                    *)
SendFails ==
    /\ Goto("send", "send")
    /\ it <= Len(msg_list)
    /\ is_ok' = FALSE
    /\ it' = it + 1
    /\ UNCHANGED <<outside, siginfo, mml, msg_list, fl_local_exists, sent,
                   done>>

(* After the last message, or as soon as a connection is refused: the list *)
(* is either dropped, with the local file, ...                             *)
Succeeds ==
    /\ Goto("send", "check")
    /\ is_ok
    /\ msg_list' = <<>>
    /\ local' = IF fl_local_exists THEN <<>> ELSE local
    /\ UNCHANGED <<outside, siginfo, mml, fl_local_exists, it, is_ok, sent,
                   delivered, saved>>

(* Mutant: the list is dropped when nothing could be sent. *)
FailsUnsaved ==
    /\ Goto("send", "check")
    /\ ~is_ok
    /\ msg_list' = <<>>
    /\ UNCHANGED <<outside, siginfo, mml, it, fl_local_exists, is_ok, sent,
                   done>>

(* ... or written to the local file. *)
Fails ==
    /\ Goto("send", "save")
    /\ ~is_ok
    /\ it' = 1
    /\ UNCHANGED <<outside, siginfo, mml, msg_list, fl_local_exists, is_ok,
                   sent, done>>

ItemsOf(s) == {s[i] : i \in DOMAIN s} \ {MARKER_END}

(* SaveRemoteFile: one write per message. *)
Save ==
    /\ Goto("save", "save")
    /\ it <= Len(msg_list)
    /\ local' = local \o msg_list[it]
    /\ saved' = saved \cup ItemsOf(msg_list[it])
    /\ it' = it + 1
    /\ UNCHANGED <<outside, siginfo, mml, msg_list, fl_local_exists, is_ok,
                   sent, delivered>>

(* Mutant: what was saved stays in the list. *)
SavedKept ==
    /\ Goto("save", "check")
    /\ it > Len(msg_list)
    /\ UNCHANGED <<outside, siginfo, mml, it, fl_local_exists, msg_list, is_ok,
                   sent, done>>

Saved ==
    /\ Goto("save", "check")
    /\ it > Len(msg_list)
    /\ msg_list' = <<>>
    /\ UNCHANGED <<outside, siginfo, mml, it, fl_local_exists, is_ok, sent,
                   done>>

(* Is siginfo the code of the end?  The list is empty by now, so that the  *)
(* last SaveRemoteFile writes nothing.                                     *)
Check ==
    /\ Goto("check", IF siginfo = "0xFF" THEN "ended" ELSE "wait")
    /\ UNCHANGED <<outside, siginfo, mml, msg_list, fl_local_exists, it, is_ok,
                   sent, done>>

Work == Take \/ (\E f \in Files : AppendFile(f)) \/ RunWork \/ Sent \/ Received \/ SendFails \/ Succeeds \/ Fails
            \/ Save \/ Saved \/ Check
RemoteStep == GetLine \/ ReadLocal \/ Wake \/ TakeFromNull \/ Work

RemoteNext ==
    \/ \E k \in {"msg", "del"}, f \in Files : AddMessage(k, f)
    \/ ClientMessageMade \/ MessageThreadTakes \/ Stop \/ End \/ Start
    \/ RemoteStep

RemoteSpec == RemoteInit /\ [][RemoteNext]_remote

-----------------------------------------------------------------------------
(* The state of the remote thread fits its place, and its list is emptied  *)
(* before it waits again (except for what it has read at the start).       *)
RemoteTypeOK ==
    /\ process \in {"starting", "running", "stopping", "ended"}
    /\ accepted \in 0..MaxItems
    /\ pending \in {NoSignal, "raised", "evMsg", "0xFF"}
    /\ siginfo \in SiginfoAtStart \cup {"raised", "evMsg", "0xFF"}
    /\ pc \in {"start", "wait", "take", "append", "send", "recv", "save", "check",
              "ended"}
    /\ it \in 1..Len(msg_list) + 1 \/ pc \notin {"send", "recv", "save"}
    /\ \A i \in DOMAIN msg_list : msg_list[i] # <<>> /\ msg_list[i][1] \in Item
    /\ \A i \in DOMAIN delivered : delivered[i] \in Item
    /\ pc \in {"check", "ended"} => msg_list = <<>>

(* Messages for one file reach the other logger in the order in which they *)
(* were accepted, and once: only one that had to go through the local file *)
(* may come late or again.                                                 *)
OrderUnlessSaved ==
    \A j \in DOMAIN delivered : \A i \in 1..j - 1 :
        delivered[i].file = delivered[j].file =>
            delivered[i].id < delivered[j].id \/ delivered[j] \in saved

(* size_in_memo is the list that waits for the connection: when not one    *)
(* message of a round could be sent, each of them is in the local file     *)
(* before the list is dropped.                                             *)
RoundEnds == pc \in {"send", "save"} /\ pc' = "check"
Listed == UNION {ItemsOf(msg_list[i]) : i \in DOMAIN msg_list}
UnsentIsSaved == [][RoundEnds /\ ~sent => Listed \subseteq ItemsOf(local')]_remote

(* Received messages are transmitted, as Logger.ini says of check_period:  *)
(* as long as the program runs none of them disappears.                    *)
Held ==
    LET waiting == UNION {{s[i] : i \in DOMAIN s} :
                            s \in {message_list[f] : f \in Files} \cup
                                  {mml[f] : f \in Files} \cup {msg_list}}
    IN  UNION {ItemsOf(m) : m \in waiting \cup {local, delivered}}
Messages == {m \in Held : m.kind = "msg"}
NothingIsLost ==
    [][process = "running" /\ process' = process => Messages \subseteq Messages']_remote
=============================================================================
