# A verification project for cproject

The repository holds four C/C++ programs of an internet radio: `accordion`
(streams a playlist to an icecast or shoutcast server), `logger` (collects the
log messages of the other programs over the network), `musicgo_alias` (an HTTP
server of tracks and parts of tracks) and `rotator` (a PHP extension that
composes playlists). This directory models their control in TLA+, checks the
models with TLC on small instances and proves theorems about them with TLAPS.

## 1. Inventory

### accordion (src/accordion_V10.X)

| part | state | operations | interacts with |
|---|---|---|---|
| shared playlist, `Tparameters` (parameters.cpp, loggermutex.h) | `playlist`, `new_playlist`, `playfile_exists`, `playfile_default`, the file `playfile`, two mutexes | `check_playlist` at the start, `set_change_playlist`, `get_new_playlist`, `set_new_playlist`, `update_playlist` | written by fetches, read by the player |
| fetches (handler_proc.cpp, url.cpp) | per thread: the parsed list, the request counter | `query_playlist_detach`, `handler_playlist_thread`, `handler_playlist_sign` | HTTP server of playlists; the shared playlist. Started by the player at the end of its list, by SIGUSR1, by the timer, at the boot |
| dispatcher (main_dispatcher.cpp) | globals `pConfig`, `pParameters`, `pPlaylist` | boot, synchronous first fetch, `cleaner` | all of the above |
| player, `TPlaylist` (playlist.cpp) | its copy `play_list`, `it_playlist`, the file `npfile`, the header flag, `icecast_sample_rate`, the track being sent, the times of `timing()` | `start`, `advance_iterator`, `save_idx`/`load_idx`, `erase_idx`, `get_next_iterator`, `load_playlist`, `timing` | the shared playlist; the streaming server; the frame readers |
| connection, `tclient_socket` (tclientsocket.cpp) | `sock`, `f_connected`, `connection_counter`, open descriptors | `net_connect`, `net_send`, `net_recv`, `net_close` | used by the player, `query_url`, `transmit` |
| frame readers (aac.cpp, mpx.cpp) | the position of the file, the counts of frames | open and count, `StartPlay`, `GetFrames` | the player |
| start and commands (accordion_V10.x.cpp, common.cpp) | the processes of a channel, as ps shows them | start, `stop`, `make`, `status`, `check`; `GetPid`; SIGTERM, SIGUSR1 | other processes of the same channel |
| configuration, logs, messages | files | ini file, log rotation, messages to the logger | all |

Hard: three kinds of threads on one list with two mutexes; a list and an index
on the disk that are rewritten in place; a connection that may break between
any two steps of a track; return codes of which -1 means true; a pace kept by
three fixed pauses; two loops that have to agree on what a frame is; processes
that find each other in a text that is not a snapshot.

Correct means: a thread never sees half a list; the locks never stop the
program; a restart finds a usable list and position; the iterator that is used
unchecked is valid; a track is sent once, in turn, whole, at its pace, under a
header that fits it; a new list is taken up; connecting ends; one process
streams a channel.

### logger (src/logger)

| part | state | operations | interacts with |
|---|---|---|---|
| accept loop and client threads (tclientsocket.cpp) | `clientfd`, descriptors, what each thread has read | `do_accept`, `handler_client_thread`, `net_recv`, the answer | message store, error monitor |
| message store (clientmessage.cpp) | `message_list` under a mutex, the pending SIGUSR2 | `AddMessage`, `handler_message_thread` | woken by signals; the files |
| files and archives (file.cpp, abstractfile.cpp) | log files, archives | `RunWork`, `Write`, `RecreateFileList`, `TryToDeleteFile`, `RunLocal` | called by the two threads |
| remote delivery (remotethread.cpp) | its list, the local file of what was not sent | `handler_remote_thread`, `append`, `RunWork`, `SaveRemoteFile` | takes from the store; another logger |
| error monitor (errormonitor.cpp) | per domain: counters, a box of messages, the time of the last mail | `onAdd_error`, `exceeded_reset_timeout` | signals from client threads; mail |

Hard: SIGUSR2 is not queued, so signals are lost, or applied to messages of
another kind; one variable is passed by address to all client threads; a list
that drops its older part; deliveries that fail half-way; a mutex taken twice.
Correct means: a message is written or delivered once and in its order; a client
that was answered need not send again; what could not be sent is saved; counts
and boxes agree.

### musicgo_alias (src/musicgo_alias)

| part | state | operations | interacts with |
|---|---|---|---|
| process control (musicgo_alias.cpp, common.cpp) | the pid file | start as a daemon or in the foreground, `stop`, SIGTERM, `DisposeCommon` | other instances through the file |
| server (tclientsocket.cpp, mqueue.cpp) | connections, children, the System V queue of log lines | `do_accept`, the child, `sighandler`, `do_close`, `msg_send`, `msg_recv` | clients; the children |
| requests (Parameters.cpp) | parameters, the range, the position | `get_file_data`, `sparse`, `create_answer` | a child's client; the segment readers |
| segments (mp3bitrate.cpp, aacbitrate.cpp) | a position, a bitrate | `get_file_segment` | requests without a token |

Correct means: the pid file names the daemon and goes with it; children are
reaped, their lines read; the body is what the header promises; a preview begins
with a frame.

### rotator (src/rotator)

Sequential: an object is built from arrays of folders, an order or a schedule of
hours, and a history; `prepare` and `create_playlist` are called by a script, in
any order, and keep history, weights and the place in the schedule between the
calls. Hard: three kinds of state that outlive a call, an order that is replaced
under the iterator of the walk, histories with incomplete records. Correct means:
the rules hold between any two tracks, a track comes back only in its turn, a new
hour begins with its own order, the search ends.

### The rest

Vendored or generated and left out: ini.c, INIReader, base64, configure,
msgpack (composer). `accordion_V9.X` (two copies, src and src_makefile) is an
older state of accordion; without its client socket, configuration and a few
paths it is the text of V10, which is the reference here. Its example
configuration `conf/Template.ini` is the documentation of the options.

## 2. Modules

| module | models |
|---|---|
| `ListOps` | operators on lists of tracks |
| `PlaylistRegister` | abstract: the shared playlist as a register written and copied in one step, with a stored beginning |
| `PlaylistStore` | `Tparameters`, the fetches, the boot, the loading side of the player |
| `Player` | extends `PlaylistStore` with `TPlaylist::start`, the disk file of the index and the connection to the streaming server |
| `Connection` | abstract: what `tclient_socket` promises to its callers |
| `ClientSocket` | `tclient_socket`: attempts, descriptors, failures |
| `Channel` | abstract: one process streams, a command that says there is none is right |
| `ChannelControl` | `main` of accordion: starts and commands, ps, `GetPid`, the signals |
| `AudioFile` | files of audio as the readers see them, for accordion and musicgo |
| `FrameReader` | aac.cpp and mpx.cpp: open, count, give away in blocks |
| `Pacing` | `TPlaylist::timing` |
| `MessageStore` | the logger in the mode LOCAL_STORE: buffer, signals, message thread, files and archives |
| `RemoteDelivery` | the mode REMOTE_STORE: the remote thread, its list and local file, restarts, the message thread beside it |
| `ErrorMonitor` | counters, boxes and mails |
| `LoggerClients` | the accept loop and the client threads |
| `PidFile` | the processes of musicgo around the pid file |
| `RangeServer` | parent, children, SIGCHLD, the message queue |
| `SegmentReader`, `RangeAnswer` | the part of a file for listeners without a token; the answer to one request |
| `Rotator` | parsing, `prepare`, `create_playlist` |
| `MCPlaylistStore`, `MCPlayer`, `MCStream`, `MCLogger`, `MCMusicgo`, `MCRotator` | instances for TLC |
| `PlaylistStore_proofs`, `Player_proofs` | theorems about the shared playlist and the player |
| `Stream_proofs` | theorems about the parts of `MCStream` |
| `Logger_proofs` | theorems about the parts of `MCLogger` |
| `MessageStore_proofs` | theorems about the message store |
| `Musicgo_proofs` | theorems about the parts of `MCMusicgo` |
| `Rotator_proofs` | theorems about the rotator |
| `NumberLemmas` | lemmas on least and greatest members, counting and sums |

`MCStream`, `MCLogger` and `MCMusicgo` hold parts that share no variable of the
model: the variable `part` says which of them a behaviour is of, the others stay
in their initial states. A property of one part is so checked over all its
behaviours and no product of unrelated states is built. `Player` on the other
hand is a true composition: it shares the variables of the store.

### accordion

**PlaylistStore.** A thread's `pc` stands for its place in
`handler_playlist_thread` / `set_change_playlist` (fetches, and Main during the
synchronous fetch) or in `dispatcher` / `load_playlist` (Main). Every access to
a shared variable or to a mutex is a step of its own; the list is written
(`Push`) and copied (`CopyTrack`) one track per step. What goes to the playlist
file is buffered by the stream, so a prefix may reach the disk at any time:
each `Push` writes all or nothing of what was pushed so far. `Restart` (stop or
crash, at any moment) keeps only the file. An answer of the server is abstracted
to the list of the files it names that exist; the tracks are model values.

**Player.** `at` stands for the place in `start()`. The iterator is an index.
`save_idx` is two steps because fopen truncates before fclose writes. The
connection is `link` (f_connected) with the outcomes of net_connect that
`ClientSocket` shows to be all of them; NetConnect in the player is one step,
because no other thread uses that socket. Every network transfer may fail.
The actions of the store are reused, not rewritten: `PlayerUsesStore` proves
that the player does nothing else to the store.

**ClientSocket.** One object, called in sequence. Failed calls leave their
descriptor open, so `Fd \ open` can become empty and then socket() fails.
`max_conections` is any of the limits that may be configured; with 0 no attempt
is made and the call fails at once. A connected object still owns an open
descriptor (`ConnectedOwnsSocket`, a theorem), but the leak itself is what the code does.

**ChannelControl.** Processes are numbered in the order of their starts, which is
the order of ps by start time (two starts within the resolution of that time are
not considered). A look is two steps: ps begins (`existed`), and ends with any
set between those that lived all the while and those that lived at some time.
`GetPid` drops the last line, which it takes for the process itself, and other
programs. `Kill` ends whom it hits, unless this one streams and so has handlers.
`cleared` is auxiliary: nobody streamed at some time of the look.
What a streaming process does with SIGUSR1 (a new fetch) is in `PlaylistStore`.
The model also shows what is not promised: two starts at once may both refuse,
and `stop` and `make` may hit another command or themselves.

**AudioFile, FrameReader, SegmentReader.** A file is a sequence of bytes of which
only the headers are told apart, by the length of the frame that begins there.
`FrameReader` counts in frames of 1/`Fps` seconds. In `SegmentReader` a frame is
`Samples` of which a second has `Frequency`: the length of an mp3 frame is the
announced rate times its time, rounded down, and a byte more with padding
(`MpxLength`), while the seek uses the announced rate itself (`MpxRate`, from the
table of bitrates); aac divides the size of the file by its whole seconds
(`PlayTime`). Left out are the lengths of layer 1, in units of 4 bytes, and the
rounding of `play_time` as a float. `FrameReader` has a
step for each frame counted and each frame read; the search for the first header
is one step (`AacSeek`, `MpxSeek`), as are all bytes read into the window. The
code only numbers the frames; `counted` and `given` are auxiliary and remember
the position of each. The
states `"hangs"` (an aac frame of length 0 in the count) and `"dies"` (a division
by a length of 0 seconds) are what the code does with such files. The content of
ID3 tags is their size.

**Pacing.** Time in units of 25 ms, of which all times of the code are multiples;
a block is taken for a second of music (43 frames at 44.1 kHz last 998 ms). A block
is read, counted in `time_read` and waited for in any case; in `time_sent` it is
counted only if it was sent (`BlockSent`, `BlockLost`). A failed block costs the
connection, and `PacedConnect` makes a new one before the next block while the
clock of the track runs. `ahead` is all music sent less all the time that has
passed; `lost`, `outage` and `stalled` are auxiliary. `PacedGiveUp` ends what is
looked at: the player leaves its list. time_pause is an unsigned int that wraps
below 0; its use as an int is negative again, so there is no wait.

### logger

**MessageStore.** `message_list` is the buffer of `TClientMessage`, a map as in
the code: a message lies under its file, a request to delete under the name of
its domain, each list in the order of arrival.
`pending` is the one SIGUSR2 that can be pending at the message thread: a
signal is dropped while another is pending, and before the thread has blocked
SIGUSR2, which the program ignores. `Receive`, `Timeout`, `Take` are the turns of
`handler_message_thread`; `WriteFile`, `Archive`, `WriteRequests`, `DeleteNamed`
what `filethread` does with the list, one key of the map after the other. Each critical section of the mutex
ClientMessage is one action. The mutex Write is used by no other thread in this
mode; its second locking by the same thread (`FileDelete` under `Write`) is a
state without a step, not a step that is left out. Archives keep their numbers
as long as none is deleted, so renaming is one step. The stop does not wait for
the detached message thread, so that the process may end between any two of its
steps; the files survive, the buffer does not. `siginfo` is uninitialised until
the first signal: `SiginfoAtStart` are the codes it may hold, and the runs assume
that the one that ends the thread is not among them.

**RemoteDelivery.** The same buffer, taken by the remote thread. A message on the
disk is an item and an end of line, requests to delete are without one, so that
lines of the local file may run together; `GetLine` reads the local file a line
in a step, `AppendFile` takes over the messages of one key in a step. Sending
(`RunWork`) is a step for each
message, with the outcomes sent, failed, and connection refused (which ends the
round with the result of the message before). `append` drops the older three
quarters of a list that is too long (`Kept`). The threads are started before
`pClientMessage` exists (`TakeFromNull`). Auxiliary: `delivered`, `saved`, `sent`.

**ErrorMonitor.** A clock; one pending signal with its error; per domain what
the code keeps. `Volume` is the sum of the lengths in a box, which the code
counts along in `msg_box_size`; `MaxSize` is the longest message. A mail is
recorded when it is sent, whether or not it arrives.

**LoggerClients.** `clientfd` is the one variable of `do_accept`; a thread reads it
when it begins (`ReadFd`), after any number of further accepts. Descriptors are
taken again as soon as they are closed. A message is two parts; a read ends at
the first EAGAIN; unpack throws for less than a whole message and ends the
process (`aborted`). The answer is sent and the descriptor closed before
`AddMessage`, and a message with wrong headers (`BadHeaders`) is answered and not
added; if the process is aborted in between, an answered message is lost, which
`AnsweredOnce` says. When fcntl or the creation of the thread fails, the
descriptor stays open and the client waits (`NoThread`). `NobodyWaits` allows for
both: it holds unless the logger has aborted, or such clients have taken all
descriptors, and it allows as many clients without an answer as there are
connections without a thread.

### musicgo_alias

**PidFile.** Pids are a finite set that the system uses again, also for programs
that are not musicgo. Each system call on the file is a step. `writer` tells
whether the file under the name is the one that a starting daemon has open: what
is written into an unlinked file is gone. `DisposeCommon` unlinks whatever has
the name, also in a start that was refused.

**RangeServer.** A connection and the child forked for it share a number. `chld`
is the one pending SIGCHLD; `sighandler` is a loop over waitpid (`Reap`) with a
loop over the queue in it (`Drain`); SIGTERM may come inside. A child reads what
has arrived after its sleep, and may die in its answer. Where fork fails the
connection is closed (`ForkFails`), where fcntl fails it stays open without an
answer (`FcntlFails`).

**RangeAnswer.** A request is a sequence of parameters with numbers.
`GetParameter` takes one of them into `mData`, as the loop of `get_file_data`
does; `data_end` is first a position and then, as in the code, a length that is
counted down.

### rotator

**Rotator.** A folder is a function from keys to records, since PHP arrays may
have gaps; `SearchNext` is `search_next_hash_index`, `Known` the list of those
names of an array that are folders. The walk has a step for each
record looked at and one for each folder left. The maps that find a singer and
a title in the history are the quantifiers of `RulesKept` and `TitleKept`. `aired`
is auxiliary: the history and all that was added, in order, each with a mark
whether the rules let it in.

`SearchHistory` takes the complete records of the history under the keys they have;
one without singer or title leaves a gap. The statistics of a title count the
records that weigh for it, by `is_equal`, which takes a title for another one that
begins with it (`Prefixes`) and an empty title for any. `mHistory[size()]`, where a
new track goes, is behind all others only if there is no gap. In a history with one
the rules fail, and `RulesHold` and `WeightsRise` are conditioned on `Gapless`:
without that condition TLC finds a counterexample for the rules, with the history
of `MCRotator` whose first record has no title. The comments on the rules
(rotator_ctrl.cpp:33-34) know no such exception.

When a track ends an hour, `add_to_playlist` replaces `folders_order`, and the walk
reads the key at its iterator of the old order (rotator_ctrl.cpp:1516), which is
undefined: `Dangling`, for which `UpperBound` is any folder. `NewHourFromStart` says
that the walk begins the new order at its start all the same.

`WeightsRise` says that the statistics rise from airing to airing of a
track. They are kept per title, so it speaks of two airings between which
the title was not aired by another singer, nor from a service folder, which
sets them back without asking the rules.

Left out of the inputs are those on which `create_playlist` never returns because the
list never becomes long enough while the rules let tracks in: a number of tracks
below zero (`m_special_conditions` is true of it, the limit is never reached) when
the rules let tracks in again and again, and tracks without a duration under a
schedule or a general duration, of which the playlist's time does not grow. The
model has these (`m_special_conditions`, `NoDuration`); a schedule whose other
tracks have durations and a negative number with tracks that may be aired once are
in the run. `MaxWeight` bounds the model: a walk that would add a track
from a folder at that weight stops there, before its call has returned, which
violates `Returns`; so no bound makes an endless walk look like one that ends.

### Abstractions and assumptions

- accordion: at most one of the stored files has vanished at a restart
  (`Surviving`); `npfile` can be written, and fgets reads what was written or
  nothing; at most `|Fetcher|` detached fetches are alive, and when all of them
  are busy the player spawns none (`QueryAtEnd`); the end of Main ends all
  threads at once (the window in which `cleaner` has freed the shared objects
  and threads still run is a listed hazard); `handler_metadata_thread` changes
  nothing of this state.
- Pacing: a pause lasts as long as it was asked for; a full block lasts a second.
- logger: the local file can be opened; what a connection delivers, it delivers
  whole.
- rotator: a history is an array with keys of its own, of arrays; what is no array
  or an empty one is as if it were not there, but for its key.
- musicgo: the lock of the pid file, which nobody else asks for, is left out;
  fork may fail anywhere; a queue that holds `QueueMax` lines refuses the next.
- Ranges without a first byte ("-500") are left out, as are frames of layer 1.

## 3. Runs

| run | question | bounds |
|---|---|---|
| `playlist_store` | are lists and flag used under their mutexes, is only a whole list announced, does the store implement the register? | 2 fetches + Main, 2 tracks, lists of 0, 1 and 2 tracks, 1 jingle; symmetry of fetches (2.2 million states) |
| `player` | is the iterator valid, is each track sent once in turn, does a header precede audio? | 1 fetch + Main, a list of 2 tracks with different rates, tracks of 0 or 1 blocks (0.9 million states) |
| `player_live` | are mutexes always given back, is a published list taken up? | as above, lists of 1 track |
| `stream` | does net_connect return, and how, whatever limit is configured (`ConnectReturns`, `ImplementsConnection`)? Are the frames read those that were counted (`NothingSkipped`)? Does the server stay within its buffer (`Paced`)? Does one process stream a channel (`ImplementsChannel`)? | limits of 0, 1 and 3 attempts, 3 descriptors; 25 files of up to 71 bytes; 2 tracks of 10.025 or 39 s, a buffer of 3 s, sending in 0.875 or 1.5 s, a block that cannot be sent, connecting in 0.1 s; 3 processes, each a start, a command or another program (0.6 million states) |
| `logger_store` | are messages written once, in their order, over archives and restarts, and is the buffer always emptied, although signals are dropped? | 2 files, 4 messages or requests, a buffer of 2, files of 1 message, no archive to be deleted (0.5 million states) |
| `logger_threads` | does each thread answer the client whose message it read, and is that message added once (`AnsweredOnce`), and is each client answered (`NobodyWaits`)? Are messages delivered in order, and saved when a round sent none (`OrderUnlessSaved`, `UnsentIsSaved`)? Are boxes counted, mails apart and the first one full (`BoxIsCounted`, `MailsApart`, `FirstMailIsFull`)? | 3 clients, one with wrong headers, 2 descriptors; 1 key, 3 messages, a list of 1, 2 starts; 2 domains, 4 errors of 2 sizes, limits of 2 errors and 5 bytes, 4 ticks (0.4 million states) |
| `musicgo` | does the pid file name a daemon and go with it (`NamesADaemon`, `LeavesNothing`)? Are children reaped and their lines read (`Reaped`, `QueueIsDrained`)? Is the body what the header promises (`BodyIsPromised`), does a preview begin with the frame of its second (`PreviewOnFrame`)? | 3 pids, 1 crash; 3 connections, a queue of 2; 36 requests, 16 files of up to 120 bytes, 4 configurations; 4 samples a frame and 9 a second, so that a frame lasts no whole part of a second (0.1 million states) |
| `rotator` | do the rules hold, do tracks come back in their turn (`WeightsRise`), does a new hour begin at its start (`NewHourFromStart`), does the search end? | 3 or 4 folders of up to 4 records, orders of up to 7 places, 2 schedules, 5 histories, intervals of 0 to 2 (or a track once), lists of 1, 3 or 5, without limit or with one below zero, 3 calls (0.15 million states) |
| `player_reconnect` | does the player give up a lost server? **violated** | as `player` |
| `logger_archives` | does archiving go on at the limit? **violated** | 1 archive |
| `remote_lost` | is no message lost in the mode REMOTE_STORE? **violated** | 2 messages |
| `rotator_schedule` | does `create_playlist` return for every schedule? **violated** | a schedule without the longest folder |

Why these bounds are enough. Two fetches and the player are two writers and a
reader, in all orders; a third writer takes the same code and the proofs hold
for any number. A list of two tracks has a half-written state, an end, a wrap
and an index that is out of range for a shorter list; a track of zero blocks is
one whose first read fails, one block gives a break before, in and after it.
Three processes of a channel are two starts and a command, or a start, a command
and a later process that is taken for the last line; three pids are a daemon,
its parent or a second start, and a stop. Three clients with two descriptors
reuse a descriptor, and run out of them, while two threads read the same
variable. Three children with a queue of two fill the queue and end while the
handler runs. The files of `MCStream` and `MCMusicgo` have a regular one and one
for each condition of the loops: torn, empty, too long and zero frames, junk
before, in and after the audio, a syncword in the data. The lengths of `Pacing`
have a last block that is almost empty, and enough blocks to fill the buffer;
times of sending below and above a pause. The inputs of the rotator have a
gap, a track without title, a track without duration, a track in two folders, a
title of two singers, a service folder, an empty folder and an order that names
an unknown one; the histories have a title that weighs for another one and
incomplete records before and after a complete one.

**What `PreviewOnFrame` needs.** Its conditions are where the code does something
else. Without a frame near the computed position, mp3 starts with the first byte
of the file and aac at the position itself, whatever stands there. A syncword in
the data of a frame misleads aac when the header is valid, mp3 when another
header happens to follow. The second is a matter of the rate. For mp3 the code
goes by the announced one, while a frame has a rounded length: files padded to keep
the rate give the first frame of the second, those without padding fall behind it,
by about a frame in 11 s at 44.1 kHz and 128 kbit/s, and TLC has a counterexample when
`padded` is dropped. The preview is then late, not early; it is early only in a
file whose frames run ahead of the rate, as in one of several rates
(`aheadOfRate`). For aac the rate is rounded, which makes the preview early by less
than a byte for each second, when all frames have one length and the last one is
whole. For the files of the run each condition fails for some and holds for
others; the theorem of section 4 says that under these conditions the statement
holds for every file.

**What `Paced` needs.** The buffer is 3 s, the value without a configuration and
that of `Template.ini` (lines 95-96). Runs with other values show where the pace
is not kept, and are not part of the project because no text promises it: with a
buffer of 1 s the server falls behind by up to 100 ms; tracks of a few seconds
leave it behind by up to 900 ms each, because the pause after the last, partial
block is as long as any other; with more than 3 s of buffer, the cut of the wait
between tracks to 2 s lets the server drift ahead with each track. A block that
takes longer than a pause leaves the server behind for good (`stalled`). A block that
cannot be sent is music that nobody hears (`lost`): the time of connecting is made
up for within the track, since the clock runs on while the server is connected
again; but the wait at the end of the track reckons with all of its blocks, so
that with the lost ones in it the server is ahead by so much more. The bounds allow
for both, and for nothing else.

**Fairness.** `player_live` and `player_reconnect` assume that every thread is
scheduled (weak fairness of each fetch, of the boot), and strong fairness of the
player and of its loading: both wait for a mutex that is free again and again,
and a pthread mutex that is released over and over between network requests of
seconds is obtained in the end. No fairness is assumed of the outcome of a
network call, of the start of a fetch or of a restart. `stream` assumes that a
call of net_connect goes on. `logger_store` and `logger_archives` assume that the
message thread is scheduled and that sigtimedwait returns, with a signal or after
its 60 seconds, and that `FreeMemory` ends; nothing is assumed of clients.
`logger_threads` assumes that the client threads and the accept loop are
scheduled; clients need not send anything. `musicgo` assumes that the kernel
delivers a pending SIGCHLD and runs the parent; the children may sleep for ever
(`Reaped` is about those that have ended). `rotator` and `rotator_schedule` assume
that a call goes on. Safety properties are checked without fairness.

**Deadlock** is checked in the runs of the playlist, the player, the message
store and the archives. In the others the system may really stop: all processes
have ended, all clients were served, the script makes no further call.

**Findings** (in PROJECT.json with the lines). Each comes from a run:
- `player_reconnect`: -1 returned as true makes an endless, uncounted
  reconnection that leaks a socket each time;
- `logger_archives`: the message thread of the logger locks a mutex it holds when
  an archive has to be deleted;
- `remote_lost`: in the mode REMOTE_STORE the message thread empties the buffer
  of the remote thread and writes nothing;
- `stream`: a limit of 0 attempts makes none, where `Template.ini` says that it is to
  try for ever; `ConnectReturns` holds with it among the limits;
- `rotator_schedule`: `create_playlist` goes round for ever when the folders of the
  schedule are all shorter than the longest folder and the rules refuse their
  tracks.

Five more properties are stated next to the models and do not hold either; TLC
refutes each when it is put into a cfg of the module: `ThreeRequests`
(`PlaylistStore`: a fetch makes two requests, not three), `RateMatches` and
`ResumesSameTrack` (`Player`: a reconnection in the middle of a track forgets the
announced rate; a restart skips the saved track), `MessagesAreWritten`
(`MessageStore`: a request to delete makes the logger take all buffered messages
for names of files), `RunsForever` (`LoggerClients`: a message that comes in two
parts ends the logger).

## 4. Proofs

All theorems hold for every value of the constants that satisfies the assumptions
named in the component's module. The invariants of the runs are not inductive as
they stand; each module proves a stronger one and concludes from it. With them,
every invariant, step property and refinement that a passing run checks is a
theorem; so is `ConnectedOwnsSocket` of `ClientSocket`, which no run checks.

### accordion: `PlaylistStore_proofs` and `Player_proofs`

`PlaylistStore` (Main is no fetch, answers and jingles are lists):
- `StoreInvariant`: `StoreInv` = `TypeOK`, `FetchInv` (a fetch past parsing has
  a list that is not empty, and one of the answers), `LockInv` (a mutex is owned
  by exactly the thread that stands in its section), `WriteInv` (the list under
  rewriting is a beginning of the writer's list, a copy is a beginning of the
  list), `WholeInv` (otherwise the announced list is one of the answers).
  Mutual exclusion is not inductive alone: the owner has to be tied to the
  place of the thread, which is `LockInv`.
- `StoreTypeOK`, `StoreMutualExclusion`, `StoreAnnouncedIsWhole` follow.
- `StoreImplementsRegister`: a list is published at `ClearList`, when the
  writer has both mutexes, and adopted at `BeginLoad`.

`Player`:
- `PlayerUsesStore`: every step of the player is a step of the store or leaves
  it alone; so all theorems of the store hold of the player
  (`PlayerKeepsStore`).
- `PlayerInvariant`, with `StandInv` (while a track is open Main plays, and
  there are tracks where one is needed), `HeaderInv` (a connection to which no
  header is due has accepted one), `OpenInv` (npfile, iterator and open track
  agree before the first block), and from it `PlayerTypes`,
  `PlayerIteratorValid`, `PlayerInTurn`, `PlayerHeaderFirst`.

### accordion: `Stream_proofs`

`ClientSocket`: `SocketInvariant`, `SocketTypeOK`, `SocketOwned`,
`SocketImplementsConnection`, for any limit of attempts and number of descriptors.

`ChannelControl`, for any number of processes: `ControlImplementsChannel`
from `ControlInvariant`. The argument: of two starts that look, one was there
when the other began (`MeetInv`, since both are there after their beginnings), so
the later one sees the earlier one or its end; a start that found nobody has
only starts behind it that are gone (`CommitInv`), and two that found nobody
contradict each other (`OneCommitted`). `ClearInv` says why a command that finds
nobody is right: as long as the channel is streamed, the process that streams is
in every snapshot and is not the last line. `KindInv` and `SnapshotInv` tie the
commands and the snapshots to the places of the processes.

`Pacing`: `PauseKeepsPace`, for all lengths and numbers of tracks, times of
opening, sending and connecting, and any number of lost blocks, under `Usual` (a
buffer of 2.1 to 3 s, tracks of at least 10 s, a longest time of opening).
`TrackInv`: what was sent of the track exceeds its clock by no more than the buffer,
a block that was not sent is missing for good, and earlier tracks have handed on no
more than what was lost in them. `BehindInv`: while it is below the buffer by more
than 1.1 s each block gains 100 ms, and 10 s make up for the last block. `Paced` alone
says nothing of how the gain grows, which decides whether the end of the track
is reached ahead.

`FrameReader`: `ReaderSkipsNothing`, for every file. Two loops with different
conditions walk through the file. `CountInv` ties the counting loop to positions:
each frame counted begins where the one before ends, and when the loop has
ended, no header it accepts follows. `GivenInv` compares the reading loop with
it: what was given is a beginning of what was counted, and between two calls
the file either stands behind the last frame given, all blocks having been full
(`Going`), or the next call will find nothing (`Over`). The second case is why
`NothingSkipped` is not inductive: after a block that is not full the position
says nothing any more, and the reader must not find another frame from there.

`StreamTypes`: `StreamTypeOK` of all parts, from the types of each
(`StreamParts`); `PacingTypes` needs nothing of `Usual`.

### logger: `Logger_proofs` and `MessageStore_proofs`

`LoggerClients`, for any number of clients and descriptors:
`AnswersOnce`. `PartsInv`: a part of a message is in one place. `ReaderInv`: a
thread that has read something still holds the descriptor of the client it
came from, since only a thread with the whole message can close it. Hence the
client that is answered is the author, whoever's thread it is; `OnceInv` says so
client by client, and what has been added message by message.

`ErrorMonitor`, for any domains, lengths, limits and times: `MonitorBoxIsCounted`,
`MonitorMailsApart`, `MonitorFirstMailIsFull`. `MonitorInv` has for each domain:
`BoxInv`, the volume counted along is the sum of the box, whose messages are in
the order of the errors and older than the one that is pending; `FirstInv`, a
domain without a mail so far has in its box all messages counted, unless the
volume left no room; `LastMailInv`, the time that is kept is that of the last
mail, and a domain that was forgotten, or is new, had its last mail longer ago
than the timeout of the reset. That a mail is never too early for a forgotten domain
needs the last one: its time is no longer in the state.

`RemoteDelivery`, for any files, sizes of lists, restarts and failures:
`RemoteOrderUnlessSaved` and `RemoteUnsentIsSaved`. `RemoteInv` has four parts:
`ShapeInv`, where a line of the list and of the local file begins and ends, and
that what the local file holds was saved; `FreshInv`, the messages that come are
newer than all that ever reached the list; `OrderInv`, the heads of the list are
in order unless saved, and later than what was delivered as long as they are
unsent; `RoundInv`, what the saving loop has passed is in the local file. Without
`FreshInv` a message could overtake one that is already in the list, without the
exception for saved messages a line read back from the local file would be out
of order.

`LoggerTypeOK` is `TypeOK` of the three, from `LoggerParts`.

`MessageStore`, for any number of files, sizes, archives and restarts:
`StoreTypeOK`, `StoreWritesInOrder`, `StoreOnePlace`. `KeysInv` orders, for each key
of the map, all that ever lay under it: what was dealt with (written or named)
is older than what the message thread holds, and that is older than what is
buffered. `FilesInv` says the same of the parts of a file. Each turn of the thread
moves the end of one of these lists to the next, which keeps the order; a
restart only forgets the young ones.

### musicgo_alias: `Musicgo_proofs`

`PidFile`, for any number of processes: `FileNamesADaemon` and
`NothingIsLeft`. `NamedInv` and `EmptyInv` (an empty file is open in a daemon that
will write or remove it) hold as long as nobody died without cleaning up,
`WriterInv` (a file that is open for writing under its name is empty) always.

`RangeServer`, for any number of connections and any queue:
`QueueDoesNotFillUp`. `LinesInv`: a line is of a child that has written it;
`DrainInv`: while the server serves, lines of reaped children exist only while
the handler reads the queue.

`RangeAnswer`, for any file, request, configuration and size of the blocks:
`AnswerBodyIsPromised`. `RangeInv` says where range, length and beginning come from
before the header; `BodyInv` is the invariant of the loop of blocks: what was sent
and what may still be sent are the range together, and the position is where the
body has got to. `data_end` changes its meaning in the header, from a position to
a length, so that the two invariants meet there. What is sent is therefore the
range counted from byte 0, and exceeds the promise by the bytes before its first.

`AnswerPreviewOnFrame`, for the same: a preview begins with a frame, where the
configured second is as far as the rate allows. The step that matters is `TakeSegment`;
`SegmentInv` carries its result to the end of the answer, since nothing changes
`start_pos` afterwards. The rest is about the two searches in one file:
- `ChainFollows`: the frames of a file (`Chain`, a recursive function) are the
  least set with the first frame and, with each frame, the next. `SteadyChain`:
  if all have the length L they are multiples of L behind the first, and as many
  begin before one of them as its multiple says.
- mp3 (`MpxPreview`): the search ends at the first header that another follows
  (`MpxSeekFinds`), so a frame with a successor between the position where it begins
  and the beginning of the preview would have been found. How many frames lie before
  that position is a matter of the announced rate and is told by the two conditions,
  `AheadOfRate` and `Padded`.
- aac (`AacPreview`): the rate is the size of the file by the whole seconds of its
  frames. The walk has come as far as the frames it counted (`AacWalkCounts`), and
  a byte more than the rate is not less than that of the frames (`RateIsEnough`).

`MusicgoTypeOK` is `TypeOK` of the three parts, from `MusicgoParts`. It needs that
the searches for a segment end and give numbers for any file
(`AacSegmentType`, `MpxSegmentType`).

### rotator: `Rotator_proofs`

For any folders, order, schedule, history and limits:
- `RotatorTypeOK`: the walk stays inside the folders and the order. `WalkInv`: the order
  in force is not empty while the walk is on, without a schedule it is that of
  the beginning, and the list is not full when a record is visited. The iterator is
  left behind in a replaced order only where the walk is to begin anew.
- `RotatorNewHourFromStart` follows from it: whatever the dangling iterator is read
  as, the step goes to the first folder.
- `RotatorRulesHold` and `RotatorWeightsRise`, which speak of histories without a gap
  (`Gapless`; incomplete records behind all others do not matter). `HistoryInv`: the
  history is all that was on the air, in its order and with its statistics, and
  titles of the input weigh the same wherever they are. The rules look at the last
  record by the singer and by the title only; that they hold for all earlier ones
  too is the order of the keys, and the rise of the statistics along all airings in
  between. Nothing is assumed of the history, of which titles begin others, or
  of the number of tracks.

### Lemmas

`NumberLemmas` has what several modules need: a set of numbers has a least member
(from the library's well-founded order of the numbers), one with a bound a greatest,
`Min` and `Max` are these, and the members of a finite set can be counted
through. An induction is done with it as the search for a least counterexample:
so sums along a sequence (`SumsExist`, `SameSteps`, for the boxes of the error
monitor), the end of the walk through an aac file (`WalkExists`) and the places of
frames of one length (`EvenSet`, `EvenSetCounts`) are proved, though the prover has
no rule of induction.

### Only model-checked

- The liveness properties (`MutexesAreFreed`, `PublishedIsTaken`,
  `ConnectReturns`, `Handled`, `NobodyWaits`, `Reaped`, `Returns`) and the
  violations, which are out of the prover's reach.

## 5. Not modelled, and what is left

- Configuration, ini files, log files and their rotation, formats of messages,
  the parsing of URLs, metadata, mail: input and output, on which no other part
  waits.
- Of accordion: `cleaner` while threads run (a listed hazard), `get_next_file` and
  the flags of `Tparameters` that have no caller, `handler_metadata_thread`.
- Of the logger: the configuration event, the start of the process, the removal
  of directories, the failure to open the local file.
- Of musicgo: ranges from the end, `create_answer1` (no caller), the proxy, a
  client that never reads (its child blocks in send, and with it `do_close`; the
  configured transmit timeout is not used), the removal of the queue (there is
  none: lines survive a stop).
- Of the rotator: registration of the extension, getters, debug output; the two
  kinds of endless lists named in section 2 (in the model, in no input).
- `accordion_V9.X`: the same text as V10 but for the client socket and the
  configuration.

Left for later: the removal of archives and the failure to open the local
file in the logger.
