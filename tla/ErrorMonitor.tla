---------------------------- MODULE ErrorMonitor ----------------------------
(***************************************************************************)
(* The error monitor of the logger (errormonitor.cpp): the errors of each  *)
(* domain are counted, their messages are kept in a box of limited volume, *)
(* and when there are too many the box is mailed.                          *)
(*                                                                         *)
(* An error comes from a client thread (TClientMessage::OnTransmitError)   *)
(* with a SIGUSR2, which is dropped while another one is pending.  Only    *)
(* errors above the registered level come here.                            *)
(***************************************************************************)
EXTENDS Integers, Sequences, FiniteSetsExt

CONSTANTS
    Domains,
    Sizes, MaxSize,     \* lengths of messages
    m_error_counter, m_email_volume,
    m_reset_error_timeout, m_email_error_timeout,
    TenYears,           \* how long ago a domain without a mail had its last one
    MaxErrors, MaxTime  \* bounds of the model

ASSUME MonitorConstants ==
    /\ m_error_counter \in Nat \ {0}    \* IsNeedToCheckErrors
    /\ m_email_volume \in Nat
    /\ MaxSize \in Nat /\ Sizes \subseteq 0..MaxSize
    /\ m_reset_error_timeout \in Nat /\ m_email_error_timeout \in Nat
    /\ TenYears \in Nat
    /\ TenYears >= m_reset_error_timeout /\ TenYears >= m_email_error_timeout
    /\ MaxErrors \in Nat /\ MaxTime \in Nat

VARIABLES
    now,            \* the clock
    reported,       \* errors reported so far
    mess,           \* the error of the pending signal, or NoMess
    waiting_since,  \* when sigtimedwait was called
    domain,         \* TErrorMonitor::domain
    mails           \* auxiliary: the mails sent

monitor == <<now, reported, mess, waiting_since, domain, mails>>

NoMess == [id |-> 0]

MonitorInit ==
    /\ now = 0
    /\ reported = 0
    /\ mess = NoMess
    /\ waiting_since = 0
    /\ domain = <<>>
    /\ mails = <<>>

-----------------------------------------------------------------------------
Tick ==
    /\ now < MaxTime
    /\ now' = now + 1
    /\ UNCHANGED <<reported, mess, waiting_since, domain, mails>>

(* OnTransmitError: the signal is dropped, and its message leaks, while    *)
(* another one is pending.                                                 *)
OnTransmitError(d, size) ==
    /\ reported < MaxErrors
    /\ reported' = reported + 1
    /\ mess' = IF mess = NoMess
               THEN [id |-> reported', domain |-> d, size |-> size] ELSE mess
    /\ UNCHANGED <<now, waiting_since, domain, mails>>

(* A domain that is heard of for the first time, or again. *)
NewInfo == [m_counter |-> 0, m_overflow |-> FALSE, tm |-> now - TenYears,
            m_first_owerflow |-> TRUE, msg_box |-> <<>>, msg_box_size |-> 0]

(* Mutant: the error that reaches the limit is taken for one above it.     *)
ValueEarly(info) ==
    IF info.m_overflow \/ info.m_counter >= m_error_counter - 1 THEN 0
    ELSE info.m_counter

(* counter_overflow begins to count anew after an overflow; an overflow is *)
(* a counter that is 0.                                                    *)
Value(info) ==
    IF info.m_overflow \/ info.m_counter >= m_error_counter THEN 0
    ELSE info.m_counter

Counted(info) == [info EXCEPT !.m_counter = Value(info),
                              !.m_overflow = (Value(info) = 0)]

exceeded_email_timeout(info) ==
    info.m_overflow /\ now - info.tm >= m_email_error_timeout

(* Mutant: the volume of the message that is removed stays counted.        *)
RoomUncounted(info, size) ==
    IF size + info.msg_box_size > m_email_volume /\ info.msg_box # <<>>
    THEN [info EXCEPT !.msg_box = Tail(@)]
    ELSE info

(* A message that would exceed the volume removes the oldest, only one.    *)
Room(info, size) ==
    IF size + info.msg_box_size > m_email_volume /\ info.msg_box # <<>>
    THEN [info EXCEPT !.msg_box = Tail(@),
                      !.msg_box_size = @ - Head(info.msg_box).size]
    ELSE info

(* Mutant: the time of the mail is not noted. *)
MailedTimeless(info) ==
    [info EXCEPT !.m_overflow = FALSE, !.m_first_owerflow = FALSE,
                 !.msg_box = <<>>, !.m_counter = 0, !.msg_box_size = 0]

(* The info after a mail. *)
Mailed(info) ==
    [info EXCEPT !.m_overflow = FALSE, !.m_first_owerflow = FALSE, !.tm = now,
                 !.msg_box = <<>>, !.m_counter = 0, !.msg_box_size = 0]

(* onAdd_error, for the error of the signal that sigtimedwait returned.    *)
OnAddError ==
    LET d == mess.domain
        known == d \in DOMAIN domain
        counted == IF known THEN Counted(domain[d]) ELSE NewInfo
        fl_email == known /\ exceeded_email_timeout(counted)
        boxed == [Room(counted, mess.size) EXCEPT !.msg_box = Append(@, mess)]
        info == IF fl_email THEN Mailed(boxed)
                ELSE [boxed EXCEPT !.m_counter = @ + 1, !.msg_box_size = @ + mess.size]
    IN  /\ mess # NoMess
        /\ mess' = NoMess
        /\ domain' = [x \in DOMAIN domain \union {d} |-> IF x = d THEN info ELSE domain[x]]
        /\ mails' = IF ~fl_email THEN mails
                    ELSE Append(mails, [domain |-> d, tm |-> now,
                                        box |-> boxed.msg_box,
                                        first |-> counted.m_first_owerflow])
        /\ waiting_since' = now
        /\ UNCHANGED <<now, reported>>

(* sigtimedwait has timed out: exceeded_reset_timeout forgets the domains  *)
(* whose last mail is long ago.                                            *)
ResetTimeout ==
    /\ mess = NoMess
    /\ now - waiting_since >= m_reset_error_timeout
    /\ waiting_since' = now
    /\ LET kept == {d \in DOMAIN domain : now - domain[d].tm < m_reset_error_timeout}
       IN  domain' = [d \in kept |-> domain[d]]
    /\ UNCHANGED <<now, reported, mess, mails>>

MonitorNext ==
    \/ Tick
    \/ \E d \in Domains, size \in Sizes : OnTransmitError(d, size)
    \/ OnAddError
    \/ ResetTimeout

MonitorSpec == MonitorInit /\ [][MonitorNext]_monitor

-----------------------------------------------------------------------------
(* The messages, and what is kept of a domain.                            *)
Message == [id : Nat \ {0}, domain : Domains, size : Sizes]

Info == [m_counter : Nat, m_overflow : BOOLEAN, tm : Int, m_first_owerflow : BOOLEAN,
         msg_box : Seq(Message), msg_box_size : Nat]

MonitorTypeOK ==
    /\ now \in 0..MaxTime /\ waiting_since \in 0..now
    /\ reported \in 0..MaxErrors
    /\ mess = NoMess \/ mess \in Message
    /\ mess.id \in 0..reported
    /\ domain \in [DOMAIN domain -> Info] /\ DOMAIN domain \subseteq Domains
    /\ \A d \in DOMAIN domain : /\ domain[d].m_counter \in 0..m_error_counter
                                /\ domain[d].tm <= now
    /\ \A i \in DOMAIN mails : mails[i].tm <= now

Volume(box) ==
    LET upto[n \in 0..Len(box)] == IF n = 0 THEN 0 ELSE upto[n - 1] + box[n].size
    IN  upto[Len(box)]

(* The volume of a box, on which the removal of old messages depends, is   *)
(* that of its messages, and these are in the order of the errors, however *)
(* mails, removals and resets follow each other.                           *)
BoxIsCounted ==
    \A d \in DOMAIN domain :
        LET box == domain[d].msg_box
        IN  /\ domain[d].msg_box_size = Volume(box)
            /\ \A i \in DOMAIN box : /\ box[i].domain = d
                                     /\ i > 1 => box[i - 1].id < box[i].id

(* Two mails about a domain are as far apart as email_error_timeout, or as *)
(* reset_error_timeout if the domain could be forgotten in between.        *)
MailsApart ==
    \A j \in DOMAIN mails : \A i \in 1..j - 1 :
        mails[i].domain = mails[j].domain =>
            mails[j].tm - mails[i].tm >=
                Min({m_email_error_timeout, m_reset_error_timeout})

(* The first mail about a domain needs more errors than error_counter; it  *)
(* holds them all, as far as the volume allows.                            *)
FirstMailIsFull ==
    \A i \in DOMAIN mails : mails[i].first =>
        \/ Len(mails[i].box) > m_error_counter
        \/ Volume(mails[i].box) + MaxSize > m_email_volume
=============================================================================
