----------------------------- MODULE RangeAnswer -----------------------------
(***************************************************************************)
(* The child of musicgo's server that answers one request (Parameters.cpp) *)
(* with a header and a part of a file.  With a token the client gets the   *)
(* range it asks for; without one, only the segment of SegmentReader.      *)
(*                                                                         *)
(* A request is the sequence of its parameters, each with two numbers; of  *)
(* the names only their presence counts.  Ranges are "N-" (as <<N, 0>>)    *)
(* and "N-M"; what strtol makes of a range without N is left out.          *)
(***************************************************************************)
EXTENDS SegmentReader

CONSTANTS
    Requests,       \* the requests of the clients
    Media,          \* the files, with "absent" and "closed" ones
    Config,         \* pairs start_position, duration, in seconds
    BUFFER_SIZE,
    TOKEN_SIZE

ParameterType ==
    [name : {"token", "id", "module", "date", "hash", "bytes"}, n : Nat, m : Nat]

MediaType ==
    [is : {"file", "absent", "closed"}, id3 : Nat, bytes : Seq(Nat \cup {None})]

ASSUME AnswerConstants ==
    /\ Requests \subseteq Seq(ParameterType)
    /\ Media \subseteq MediaType
    /\ Config \subseteq Nat \X Nat
    /\ BUFFER_SIZE \in Nat \ {0} /\ TOKEN_SIZE \in Nat

VARIABLES
    phase,          \* "parse", "open", "segment", "header", "body", "done", "dead", "hung"
    request,        \* the parameters that are still to be read
    mData,          \* TParameters::mData and mRange
    file, config,
    response,       \* msg_log.response
    data_begin, data_end, m_len, start_pos,
    promised,       \* the header's Content-Length
    pos,            \* the position of the file
    sent,           \* bytes of the body
    gone            \* the client has closed the connection

answer_vars == <<phase, request, mData, file, config, response, data_begin, data_end,
                 m_len, start_pos, promised, pos, sent, gone>>

asked == <<request, mData, file, config>>
range == <<data_begin, data_end, m_len, start_pos>>

NoData == [is_aac |-> FALSE, is_mp3 |-> FALSE, id |-> 0, module |-> FALSE,
           hash |-> FALSE, token |-> FALSE, mRange |-> {}]

(* get_file_data: one parameter after the other; a later one wins, except  *)
(* that ranges are kept by their first byte.                               *)
Parameter(d, p) ==
    CASE p.name = "token"  -> [d EXCEPT !.token = p.n >= TOKEN_SIZE]
      [] p.name = "id"     -> [d EXCEPT !.id = p.n, !.is_aac = TRUE]
      [] p.name = "module" -> [d EXCEPT !.module = TRUE]
      [] p.name = "date"   -> [d EXCEPT !.is_mp3 = TRUE]
      [] p.name = "hash"   -> [d EXCEPT !.hash = TRUE]
      [] p.name = "bytes"  -> [d EXCEPT !.mRange =
                                  {r \in @ : r[1] # p.n} \union {<<p.n, p.m>>}]

(* sparse: which requests name a file.                                     *)
Sparse(d) ==
    /\ d.is_aac \/ d.is_mp3
    /\ d.is_aac => d.id # 0 /\ d.module
    /\ d.is_mp3 => d.hash

(* The range that begins first.  Without one, aac sets 0-0 and mp3 reads   *)
(* the end of an empty std::map, where libstdc++ keeps its size, 0.        *)
FirstRange(d) ==
    IF d.mRange = {} THEN <<0, 0>>
    ELSE CHOOSE r \in d.mRange : \A q \in d.mRange : r[1] <= q[1]

AnswerInit ==
    /\ phase = "parse"
    /\ request \in Requests /\ file \in Media /\ config \in Config
    /\ mData = NoData
    /\ response = 206
    /\ data_begin = 0 /\ data_end = 0 /\ m_len = 0 /\ start_pos = 0
    /\ promised = 0 /\ pos = 0 /\ sent = 0
    /\ gone = FALSE

Refused(code) ==
    /\ phase' = "done"
    /\ response' = code
    /\ UNCHANGED <<asked, range, promised, pos, sent, gone>>

(* The next parameter of the request.                                      *)
GetParameter ==
    /\ phase = "parse"
    /\ request # <<>>
    /\ mData' = Parameter(mData, Head(request))
    /\ request' = Tail(request)
    /\ UNCHANGED <<phase, file, config, response, range, promised, pos, sent, gone>>

BadRequest ==
    phase = "parse" /\ request = <<>> /\ ~Sparse(mData) /\ Refused(405)

Parsed ==
    /\ phase = "parse"
    /\ request = <<>>
    /\ Sparse(mData)
    /\ phase' = "open"
    /\ UNCHANGED <<asked, response, range, promised, pos, sent, gone>>

NotFound == phase = "open" /\ file.is = "absent" /\ Refused(404)
Forbidden == phase = "open" /\ file.is = "closed" /\ Refused(403)

Open ==
    /\ phase = "open"
    /\ file.is = "file"
    /\ phase' = "segment"
    /\ data_begin' = FirstRange(mData)[1]
    /\ data_end' = FirstRange(mData)[2]
    /\ m_len' = Size(file)
    /\ UNCHANGED <<asked, response, start_pos, promised, pos, sent, gone>>

(* create_answer without a token: a file without a segment is sent from    *)
(* the byte that has the number of the configured second.                  *)
FileSegment ==
    IF mData.is_aac THEN AacSegment(file, config[1], config[2])
    ELSE MpxSegment(file, config[1], config[2])

TakeSegment ==
    /\ phase = "segment"
    /\ IF mData.token
       THEN phase' = "header" /\ UNCHANGED <<m_len, start_pos>>
       ELSE LET s == FileSegment IN
            /\ phase' = CASE s.out = "dies" -> "dead" [] s.out = "hangs" -> "hung"
                          [] OTHER -> "header"
            /\ start_pos' = s.start
            /\ m_len' = IF s.out = "ok" THEN Min({m_len, s.stop}) ELSE m_len
    /\ UNCHANGED <<asked, response, data_begin, data_end, promised, pos, sent, gone>>

(* The end of the range that the header announces.                         *)
LastByte == IF data_end = 0 THEN m_len - 1 ELSE data_end

(* Mutant of SendHeader: the last byte of the range is not counted in.     *)
SendHeaderShort ==
    /\ phase = "header"
    /\ promised' = LastByte - data_begin + 1
    /\ pos' = start_pos + data_begin
    /\ data_end' = LastByte
    /\ phase' = "body"
    /\ UNCHANGED <<asked, response, data_begin, m_len, start_pos, sent, gone>>

(* The position, the header, and data_end++: from here on data_end is what *)
(* may still be sent.                                                      *)
SendHeader ==
    /\ phase = "header"
    /\ promised' = LastByte - data_begin + 1
    /\ pos' = start_pos + data_begin
    /\ data_end' = LastByte + 1
    /\ phase' = "body"
    /\ UNCHANGED <<asked, response, data_begin, m_len, start_pos, sent, gone>>

(* One block of the loop.                                                  *)
SendBlock ==
    /\ phase = "body"
    /\ LET block == IF pos < Size(file) THEN Min({BUFFER_SIZE, Size(file) - pos}) ELSE 0
           out   == Min({block, data_end})
       IN  /\ sent' = sent + out
           /\ pos' = pos + block
           /\ data_end' = data_end - out
           /\ phase' = IF block = 0 \/ data_end' = 0 THEN "done" ELSE "body"
    /\ UNCHANGED <<asked, response, data_begin, m_len, start_pos, promised, gone>>

(* send fails, for the header or for a block.                              *)
ClientGone ==
    /\ phase \in {"header", "body"}
    /\ gone' = TRUE
    /\ phase' = "done"
    /\ UNCHANGED <<asked, response, range, promised, pos, sent>>

AnswerNext ==
    \/ GetParameter \/ BadRequest \/ Parsed \/ NotFound \/ Forbidden \/ Open
    \/ TakeSegment \/ SendHeader \/ SendBlock \/ ClientGone

AnswerSpec == AnswerInit /\ [][AnswerNext]_answer_vars

-----------------------------------------------------------------------------
AnswerTypeOK ==
    /\ phase \in {"parse", "open", "segment", "header", "body", "done", "dead", "hung"}
    /\ request \in Seq(ParameterType) /\ file \in Media /\ config \in Config
    /\ mData \in [is_aac : BOOLEAN, is_mp3 : BOOLEAN, id : Nat, module : BOOLEAN,
                  hash : BOOLEAN, token : BOOLEAN, mRange : SUBSET (Nat \X Nat)]
    /\ response \in {206, 403, 404, 405}
    /\ data_begin \in Nat /\ data_end \in Nat /\ m_len \in Nat /\ start_pos \in Nat
    /\ promised \in Int /\ pos \in Nat /\ sent \in Nat
    /\ gone \in BOOLEAN

Answered == phase = "done" /\ response = 206 /\ ~gone

(* The bytes of the range that was asked for are there, in the file or in  *)
(* the segment of a listener without a token.                              *)
RangeExists ==
    LET r == FirstRange(mData)
        last == IF r[2] = 0 THEN m_len - 1 ELSE r[2]
    IN  r[1] <= last /\ last < m_len /\ start_pos + last < Size(file)

(* A client that stays gets the bytes that Content-Length promises, when   *)
(* they exist, and after them no more than the range has left out before   *)
(* its first byte (the loop of create_answer counts from byte 0, so that a *)
(* range 5-20 is followed by five bytes more); exactly what is promised    *)
(* when the range starts the file or the segment, or has no end and the    *)
(* client has a token.                                                     *)
BodyIsPromised ==
    Answered /\ RangeExists =>
        /\ sent \in promised..promised + data_begin
        /\ mData.token /\ FirstRange(mData)[2] = 0 => sent = promised

(* What a listener without a token hears starts with a frame of the file,  *)
(* also when a syncword stands in the data of a frame; and that frame is   *)
(* where the configured second is: the two searches, the rate that comes   *)
(* from the first and the position between.  A frame lasts Samples /       *)
(* Frequency seconds.                                                      *)
(*  - mp3 takes the rate that the headers announce.  Its preview does not  *)
(*    start before the second unless the frames run ahead of that rate, and*)
(*    starts with the first frame of the second when they are padded to    *)
(*    keep it.  (Frames of a rounded length without padding fall behind,   *)
(*    and the preview starts later, the further the second is.)            *)
(*  - aac divides the size by the whole seconds: the preview is early by   *)
(*    less than a byte of each second, when all frames have one length.    *)
(*                                                                         *)
(* It needs a frame to begin where the second search looks: without one    *)
(* mp3 starts at the first byte and aac wherever the position is.  And the *)
(* searches must not be misled by data that look to them like a frame: for *)
(* aac a header, for mp3 one that another one follows.  The rate of aac    *)
(* counts the last frame in, so that frame has to be whole.                *)
PreviewOnFrame ==
    LET aac == mData.is_aac
        audio == IF aac THEN AacNext(file, 0) ELSE MpxSeek(file, MpxStartPos(file)).pos
        chain == Chain(file, audio)
        LooksLikeFrame(p) == IF aac THEN AacHeader(file, p) ELSE MpxConfirmed(file, p)
        misled == \E p \in audio..Size(file) - 1 : LooksLikeFrame(p) /\ p \notin chain
        found == IF aac
                 THEN \E p \in chain :
                          /\ AacHeader(file, p)
                          /\ p \in start_pos..start_pos + Buffered(file, start_pos) - MARGIN
                 ELSE start_pos # 0
        steady == \A p \in chain : HeaderAt(file, p) = HeaderAt(file, audio)
        whole == \A p \in chain : p + HeaderAt(file, p) <= Size(file)
        rate == MpxSeek(file, MpxStartPos(file)).rate
        Before(p) == Cardinality({q \in chain : q < p})
        aheadOfRate == \E p \in chain : (p - audio) * Frequency > Before(p) * Samples * rate
        padded == \A p \in chain : Before(p) * Samples * rate < (p - audio + 1) * Frequency
        L == HeaderAt(file, audio)
    IN  Answered /\ ~mData.token /\ FileSegment.out = "ok" /\ found /\ ~misled =>
            /\ start_pos \in chain
            /\ aac /\ steady /\ whole =>
                   (Before(start_pos) * L + config[1]) * Samples >= config[1] * L * Frequency
            /\ ~aac /\ ~aheadOfRate => Before(start_pos) * Samples >= config[1] * Frequency
            /\ ~aac /\ rate > 0 /\ padded =>
                   \A p \in chain : p + HeaderAt(file, p) = start_pos =>
                       Before(p) * Samples < config[1] * Frequency
=============================================================================
