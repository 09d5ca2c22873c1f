----------------------------- MODULE ChunkReader -----------------------------
(***************************************************************************)
(* The reading half of an RTMP connection's chunk stream                   *)
(* (format/rtmp/msg.go): readChunk, readMsg, readMsgHandleEvent,           *)
(* nextAggPart and handleEvent.  Chunks of several chunk streams are       *)
(* reassembled into messages; headers are completed from what the chunk    *)
(* stream remembers; SetChunkSize changes the framing of what follows, an  *)
(* aggregate message is unpacked, and what was read is acknowledged.       *)
(*                                                                         *)
(* The wire is a sequence of tokens: a chunk's header, its extended        *)
(* timestamp, and units of payload.  Chunk sizes, message lengths and the  *)
(* acknowledgement window count tokens; timestamps are numbers modulo      *)
(* TimeMod, and Ext stands for 0xffffff.  Who writes to the wire is said   *)
(* by the modules that extend this one.                                    *)
(***************************************************************************)
EXTENDS Integers, FiniteSets, Sequences, SequencesExt

CONSTANTS Ext,        \* 0xffffff: the timestamp that announces an extended one
          TimeMod,    \* 2^32, for timestamps
          AckMod,     \* 2^32, for the count of what was read
          AckSize,    \* the initial readAckSize
          ChunkSize,  \* the initial ReadMaxChunkSize
          MaxCsid,    \* chunk streams a reader keeps (16 in the code)
          MaxMsgSize  \* what a message may hold (4 MiB in the code)

ASSUME ChunkAssumption ==
    /\ Ext \in Nat \ {0} /\ TimeMod \in Nat /\ Ext < TimeMod
    /\ AckMod \in Nat \ {0} /\ AckSize \in Nat /\ ChunkSize \in Nat \ {0}
    /\ MaxCsid \in Nat /\ MaxMsgSize \in Nat

VARIABLES
    wire,              \* tokens on their way to the reader
    readcsmap,         \* chunk stream id -> what the reader knows of it
    ReadMaxChunkSize,
    readAckSize,
    ackn, lastackn,    \* what was read, and as much as was acknowledged
    aggmsg,            \* the aggregate message being unpacked, or NoAgg
    replies,           \* acknowledgements and ping responses written
    out,               \* messages readMsgHandleEvent saw, in order
    err,               \* the error readChunk returned, or ""
    read               \* tokens read and not acknowledged: ackn - lastackn without wrapping

readervars == <<readcsmap, ReadMaxChunkSize, readAckSize, ackn, lastackn, aggmsg, replies, out,
                err, read>>

\* A unit of payload is a pair of numbers.
Token(k) == [k |-> k, fmt |-> 0, csid |-> 0, ts |-> 0, len |-> 0, type |-> "", sid |-> 0,
             val |-> <<0, 0>>]
HdrToken(fmt, csid, ts, len, type, sid) ==
    [Token("hdr") EXCEPT !.fmt = fmt, !.csid = csid, !.ts = ts, !.len = len, !.type = type,
                         !.sid = sid]
ExtToken(ts) == [Token("ext") EXCEPT !.ts = ts]
DataToken(val) == [Token("data") EXCEPT !.val = val]

Message(type, time, sid, data) == [type |-> type, time |-> time, sid |-> sid, data |-> data]

\* &message{}
NewCs == [msghdrtype |-> 0, timenow |-> 0, timedelta |-> 0, hastimeext |-> FALSE, timeext |-> 0,
          msgsid |-> 0, msgtypeid |-> "", msgdatalen |-> 0, msgdataleft |-> 0, msgdata |-> <<>>]
NoAgg == [time |-> 0, parts |-> <<>>, first |-> 0, idx |-> 0]

ReaderInit ==
    /\ readcsmap = <<>>
    /\ ReadMaxChunkSize = ChunkSize
    /\ readAckSize = AckSize
    /\ ackn = 0 /\ lastackn = 0 /\ read = 0
    /\ aggmsg = NoAgg
    /\ replies = <<>>
    /\ out = <<>>
    /\ err = ""

-----------------------------------------------------------------------------
(* handleEvent and the messages it sees                                    *)

\* Deviation: the answer does not carry the ping's own time.
AnswerZero(m, acks) == IF m.type = "PingRequest" THEN Append(acks, <<"PingResponse", 0>>) ELSE acks

\* What handleEvent writes: the answer to a ping, with the time the ping carried.
Answer(m, acks) ==
    IF m.type = "PingRequest" THEN Append(acks, <<"PingResponse", m.data[1][1]>>) ELSE acks

\* A message is seen by handleEvent: it takes the three that are about the
\* connection itself.
HandleEvent(m, acks) ==
    /\ out' = Append(out, m)
    /\ ReadMaxChunkSize' = IF m.type = "SetChunkSize" THEN m.data[1][1] ELSE ReadMaxChunkSize
    /\ readAckSize' = IF m.type = "WindowAckSize" THEN m.data[1][1] ELSE readAckSize
    /\ replies' = Answer(m, acks)
    /\ aggmsg' = NoAgg

\* readMsgHandleEvent, given a message of readMsg.
Deliver(cs, acks) ==
    IF cs.msgtypeid = "Aggregate"
    THEN /\ aggmsg' = [time |-> cs.timenow, parts |-> cs.msgdata, first |-> 0, idx |-> 0]
         /\ replies' = acks
         /\ UNCHANGED <<ReadMaxChunkSize, readAckSize, out>>
    ELSE HandleEvent(Message(cs.msgtypeid, cs.timenow, cs.msgsid, cs.msgdata), acks)

\* Deviation: every part is taken to carry a time of its own.
AggTimeAbsolute(m, first, t) == t

\* The time of a part, relative to the first one, is added to the message's.
AggTime(m, first, t) == (m.time + t - first) % TimeMod

\* nextAggPart; a part is <<its time, its content>>, its type that of a video.
NextAggPart ==
    LET part  == Head(aggmsg.parts)
        first == IF aggmsg.idx = 0 THEN part[1] ELSE aggmsg.first
    IN  /\ err = ""
        /\ aggmsg.parts # <<>>
        /\ out' = Append(out, Message("Video", AggTime(aggmsg, first, part[1]), 0, <<part>>))
        /\ aggmsg' = IF Tail(aggmsg.parts) = <<>> THEN NoAgg
                     ELSE [aggmsg EXCEPT !.parts = Tail(@), !.first = first, !.idx = @ + 1]
        /\ UNCHANGED <<wire, readcsmap, ReadMaxChunkSize, readAckSize, ackn, lastackn, replies,
                       err, read>>

-----------------------------------------------------------------------------
(* readChunk                                                               *)

Known(c) == c \in DOMAIN readcsmap
Cs(c) == IF Known(c) THEN readcsmap[c] ELSE NewCs

\* Deviation: the limit is one lower.
TooBigEarly(cs) == cs.msgdatalen >= MaxMsgSize

\* No buffer is made for such a message.  An aggregate's parts lie within it, so
\* Start does not fail for them.
TooBig(cs) == cs.msgdatalen > MaxMsgSize

\* Deviation: the buffer of the message before is kept.
StartKeeps(cs) == [cs EXCEPT !.msgdataleft = cs.msgdatalen]

\* cs.Start() that does not fail: the buffer of a new message.
Start(cs) == [cs EXCEPT !.msgdataleft = cs.msgdatalen, !.msgdata = <<>>]

\* Deviation: the counts are compared as if they never wrapped.
AckDueNoWrap(n) == readAckSize # 0 /\ n > lastackn + readAckSize

\* readMsg, after every chunk: is more than the window unacknowledged?
AckDue(n) == readAckSize # 0 /\ (n - lastackn) % AckMod > readAckSize

\* The payload of the chunk at hand.
Size(cs) == IF cs.msgdataleft > ReadMaxChunkSize THEN ReadMaxChunkSize ELSE cs.msgdataleft

\* Deviation: a message without payload is taken for one that is not complete.
FullNonEmpty(cs) == cs.msgdataleft = 0 /\ cs.msgdatalen # 0

\* The message is complete.
Full(cs) == cs.msgdataleft = 0

\* Once the header has been read into cs: the payload that follows on rest, the
\* acknowledgement, and the message if it is complete.
Payload(c, cs, rest) ==
    LET size == Size(cs)
        done == [cs EXCEPT !.msgdataleft = @ - size,
                           !.msgdata = @ \o [i \in 1..size |-> rest[i].val]]
        n    == (ackn + Len(wire) - Len(rest) + size) % AckMod
        acks == IF AckDue(n) THEN Append(replies, <<"Ack", n>>) ELSE replies
    IN  /\ Len(rest) >= size
        /\ wire' = SubSeq(rest, size + 1, Len(rest))
        /\ readcsmap' = [d \in DOMAIN readcsmap \union {c} |-> IF d = c THEN done ELSE readcsmap[d]]
        /\ ackn' = n
        /\ lastackn' = IF AckDue(n) THEN n ELSE lastackn
        /\ read' = IF AckDue(n) THEN 0 ELSE read + Len(wire) - Len(rest) + size
        /\ err' = err
        /\ IF Full(done) THEN Deliver(done, acks)
           ELSE replies' = acks /\ UNCHANGED <<ReadMaxChunkSize, readAckSize, aggmsg, out>>

Fail(e) ==
    /\ err' = e
    /\ UNCHANGED <<wire, readcsmap, ReadMaxChunkSize, readAckSize, ackn, lastackn, aggmsg, replies,
                   out, read>>

\* readChunk is called, and the next token is a header.
Chunk(fmt) == err = "" /\ aggmsg.parts = <<>> /\ wire # <<>> /\ wire[1].k = "hdr" /\ wire[1].fmt = fmt

\* Deviation: the limit is one chunk stream lower.
TooManyCsidEarly(c) == Cardinality(DOMAIN readcsmap \union {c}) >= MaxCsid

TooManyCsid(c) == Cardinality(DOMAIN readcsmap \union {c}) > MaxCsid

\* A message begins: its header has been read, and its extended timestamp.  An
\* error ends the connection, so nothing is said of what it leaves unread.
Begin(c, cs, rest) == IF TooBig(cs) THEN Fail("MsgDataTooBig") ELSE Payload(c, Start(cs), rest)

\* The errors readChunk may return for a header by its type and chunk stream.
ReadChunkError ==
    \E fmt \in 0..3 :
       LET c == wire[1].csid
       IN  /\ Chunk(fmt)
           /\ \/ TooManyCsid(c) /\ Fail("TooManyCsid")
              \/ ~TooManyCsid(c) /\ fmt # 0 /\ ~Known(c) /\ Fail("NoPrevChunk")
              \/ ~TooManyCsid(c) /\ fmt # 3 /\ Cs(c).msgdataleft # 0 /\ Fail("MsgDataLeft")

HasExt(h) == h.ts = Ext

\* Deviation: the extended timestamp is read and not used.
TimestampShort(h) == h.ts

\* The 24-bit timestamp of header h, or the extended one that follows.
Timestamp(h) == IF HasExt(h) THEN wire[2].ts ELSE h.ts
AfterExt(h) == SubSeq(wire, IF HasExt(h) THEN 3 ELSE 2, Len(wire))

ReadChunk0 ==
    LET h == wire[1]
        c == h.csid
    IN  /\ Chunk(0)
        /\ ~TooManyCsid(c) /\ Cs(c).msgdataleft = 0
        /\ Begin(c, [Cs(c) EXCEPT !.msghdrtype = 0, !.msgdatalen = h.len,
                                  !.msgtypeid = h.type, !.msgsid = h.sid,
                                  !.hastimeext = HasExt(h),
                                  !.timeext = IF HasExt(h) THEN Timestamp(h) ELSE @,
                                  !.timenow = Timestamp(h)],
                 AfterExt(h))

\* Deviation: a type 2 header resets the message's length.
ReadChunk12Reset(fmt) ==
    LET h == wire[1]
        c == h.csid
    IN  /\ Chunk(fmt)
        /\ ~TooManyCsid(c) /\ Known(c) /\ Cs(c).msgdataleft = 0
        /\ Begin(c, [Cs(c) EXCEPT !.msghdrtype = fmt, !.msgdatalen = h.len,
                                  !.msgtypeid = IF fmt = 1 THEN h.type ELSE @,
                                  !.hastimeext = HasExt(h),
                                  !.timeext = IF HasExt(h) THEN Timestamp(h) ELSE @,
                                  !.timedelta = Timestamp(h),
                                  !.timenow = (@ + Timestamp(h)) % TimeMod],
                 AfterExt(h))

\* Types 1 and 2: a delta, and with type 2 the length and type of before.
ReadChunk12(fmt) ==
    LET h == wire[1]
        c == h.csid
    IN  /\ Chunk(fmt)
        /\ ~TooManyCsid(c) /\ Known(c) /\ Cs(c).msgdataleft = 0
        /\ Begin(c, [Cs(c) EXCEPT !.msghdrtype = fmt,
                                  !.msgdatalen = IF fmt = 1 THEN h.len ELSE @,
                                  !.msgtypeid = IF fmt = 1 THEN h.type ELSE @,
                                  !.hastimeext = HasExt(h),
                                  !.timeext = IF HasExt(h) THEN Timestamp(h) ELSE @,
                                  !.timedelta = Timestamp(h),
                                  !.timenow = (@ + Timestamp(h)) % TimeMod],
                 AfterExt(h))

\* Type 3 that starts a message: everything is as before; after a type 0 the
\* extended timestamp is a time, after types 1 and 2 it is a delta.
ReadChunk3New ==
    LET c  == wire[1].csid
        cs == Cs(c)
        ts == IF cs.hastimeext THEN wire[2].ts ELSE cs.timedelta
    IN  /\ Chunk(3)
        /\ ~TooManyCsid(c) /\ Known(c) /\ cs.msgdataleft = 0
        /\ Begin(c, IF cs.msghdrtype = 0
                    THEN IF cs.hastimeext THEN [cs EXCEPT !.timenow = ts, !.timeext = ts] ELSE cs
                    ELSE [cs EXCEPT !.timenow = (@ + ts) % TimeMod],
                 SubSeq(wire, IF cs.hastimeext THEN 3 ELSE 2, Len(wire)))

\* Deviation: a message that goes on is taken to repeat the timestamp.
RepeatedAlways(cs) == cs.hastimeext

\* The extended timestamp is repeated, judging by the next four bytes.
Repeated(cs) == cs.hastimeext /\ Len(wire) > 1 /\ wire[2].ts = cs.timeext

\* Type 3 within a message.
ReadChunk3More ==
    LET c  == wire[1].csid
        cs == Cs(c)
    IN  /\ Chunk(3)
        /\ ~TooManyCsid(c) /\ Known(c) /\ cs.msgdataleft # 0
        /\ Payload(c, cs, SubSeq(wire, IF Repeated(cs) THEN 3 ELSE 2, Len(wire)))

ReaderStep ==
    \/ ReadChunk0
    \/ \E fmt \in {1, 2} : ReadChunk12(fmt)
    \/ ReadChunk3New
    \/ ReadChunk3More
    \/ NextAggPart

\* When the wire is empty the reader waits; an error ends the connection.
ReaderNext == ReaderStep \/ ReadChunkError

-----------------------------------------------------------------------------
\* The reader's variables have their types, the buffer of every message is within
\* the limit and filled up to what is left of it.
ReaderTypeOK ==
    /\ \A c \in DOMAIN readcsmap :
          LET cs == readcsmap[c]
          IN  /\ cs.timenow \in 0..TimeMod - 1 /\ cs.timedelta \in 0..TimeMod - 1
              /\ cs.timeext \in 0..TimeMod - 1 /\ cs.hastimeext \in BOOLEAN
              /\ cs.msghdrtype \in 0..2
              /\ cs.msgdatalen <= MaxMsgSize /\ cs.msgdataleft \in 0..cs.msgdatalen
              /\ Len(cs.msgdata) = cs.msgdatalen - cs.msgdataleft
    /\ ReadMaxChunkSize \in Nat /\ readAckSize \in Nat
    /\ ackn \in 0..AckMod - 1 /\ lastackn \in 0..AckMod - 1
    /\ Cardinality(DOMAIN readcsmap) <= MaxCsid

\* The reader is not out of step with the chunks on the wire.
AtHeader == wire # <<>> => wire[1].k = "hdr"

\* After every chunk, no more than the window is unacknowledged, however often
\* the 32-bit counts wrapped.
AckInTime == [][ackn' # ackn /\ readAckSize # 0 => read' <= readAckSize]_<<wire, readervars>>
=============================================================================
