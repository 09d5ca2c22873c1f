------------------------------ MODULE ChunkPeer ------------------------------
(***************************************************************************)
(* Any RTMP program at the other end of a ChunkReader, as far as the       *)
(* reader provides for it: it interleaves the messages of several chunk    *)
(* streams, compresses headers (types 1, 2 and 3), repeats an extended     *)
(* timestamp in the chunks of a message or does not, changes its chunk     *)
(* size in the middle of other messages, sends pings and aggregates.  With *)
(* Rude it may also break the rules.  None of this is joy5's code.         *)
(***************************************************************************)
EXTENDS ChunkReader

CONSTANTS Csids,     \* the chunk streams it uses; 2 is for control messages
          Times,
          Lens,      \* lengths of messages, which fit a header's field (below 2^24)
          Sizes,
          Parts,     \* what aggregate messages hold: sequences of <<time, content>>
          Rude,      \* it may break the rules
          MaxMsgs    \* messages it starts (bound)

ASSUME PeerAssumption ==
    /\ Csids \subseteq Nat /\ IsFiniteSet(Csids)
    /\ Times \subseteq 0..TimeMod - 1 /\ Lens \subseteq Nat /\ Sizes \subseteq Nat \ {0}
    /\ \A p \in Parts : p \in Seq(Nat \X Nat)
    /\ Rude \in BOOLEAN /\ MaxMsgs \in Nat

VARIABLES
    enc,      \* per chunk stream: the last header's fields, and the message under way
    size,     \* its chunk size
    repeat,   \* it repeats extended timestamps
    started,  \* messages started
    sent,     \* messages it has written to the last unit, in that order
    over,     \* where the first message over the limit it started would be in sent, or 0
    broke     \* it has broken a rule

vars == <<wire, enc, size, repeat, started, sent, over, broke, readervars>>

NoMsg == Message("", 0, 0, <<>>)
NoEnc == [used |-> FALSE, fmt |-> 0, msg |-> NoMsg, off |-> 0, delta |-> 0, ext |-> 0]

Init ==
    /\ wire = <<>>
    /\ enc = [c \in Csids |-> NoEnc]
    /\ size = ChunkSize
    /\ repeat \in BOOLEAN
    /\ started = 0
    /\ sent = <<>>
    /\ over = 0 /\ broke = FALSE
    /\ ReaderInit

Rest(c) == Len(enc[c].msg.data) - enc[c].off

\* A header of type fmt for m makes sense after what the chunk stream carried.
Allowed(c, fmt, m) ==
    LET last == enc[c]
    IN  CASE fmt = 0 -> TRUE
          [] fmt = 1 -> last.used /\ m.sid = last.msg.sid
          [] fmt = 2 -> /\ last.used /\ m.sid = last.msg.sid
                        /\ m.type = last.msg.type /\ Len(m.data) = Len(last.msg.data)
          [] fmt = 3 -> /\ last.used /\ m.sid = last.msg.sid
                        /\ m.type = last.msg.type /\ Len(m.data) = Len(last.msg.data)
                        /\ IF last.fmt # 0 THEN m.time = (last.msg.time + last.delta) % TimeMod
                           ELSE IF last.ext # 0 THEN m.time >= Ext ELSE m.time = last.msg.time

\* What an aggregate message makes of its parts.
Unpacked(m) ==
    [i \in 1..Len(m.data) |->
        Message("Video", (m.time + m.data[i][1] - m.data[1][1]) % TimeMod, 0, <<m.data[i]>>)]

Seen(m) == IF m.type = "Aggregate" THEN Unpacked(m) ELSE <<m>>

\* The chunk of m, from its unit off on, behind head.
Emit(c, new, head) ==
    LET left == Len(new.msg.data) - new.off
        n    == IF left > size THEN size ELSE left
    IN  /\ wire' = wire \o head \o [i \in 1..n |-> DataToken(new.msg.data[new.off + i])]
        /\ enc' = [enc EXCEPT ![c] = [new EXCEPT !.off = @ + n]]
        /\ sent' = IF n = left THEN sent \o Seen(new.msg) ELSE sent
        /\ size' = IF n = left /\ new.msg.type = "SetChunkSize" THEN new.msg.data[1][1] ELSE size

StartMsg(c, fmt, m) ==
    LET delta == (m.time - enc[c].msg.time) % TimeMod
        ts    == IF fmt = 0 THEN m.time
                 ELSE IF fmt = 3 THEN (IF enc[c].fmt = 0 THEN m.time ELSE enc[c].delta)
                 ELSE delta
        ext   == IF fmt = 3 THEN enc[c].ext # 0 ELSE ts >= Ext
        hdr   == HdrToken(fmt, c, IF fmt = 3 THEN 0 ELSE IF ext THEN Ext ELSE ts,
                          IF fmt \in {0, 1} THEN Len(m.data) ELSE 0,
                          IF fmt \in {0, 1} THEN m.type ELSE "", IF fmt = 0 THEN m.sid ELSE 0)
    IN  /\ started < MaxMsgs /\ started' = started + 1
        /\ over' = IF over = 0 /\ Len(m.data) > MaxMsgSize THEN Len(sent) + 1 ELSE over
        /\ ~broke /\ Rest(c) = 0 /\ Allowed(c, fmt, m)
        /\ Emit(c, [used |-> TRUE, fmt |-> IF fmt = 3 THEN enc[c].fmt ELSE fmt, msg |-> m, off |-> 0,
                    delta |-> IF fmt \in {1, 2} THEN delta ELSE enc[c].delta,
                    ext |-> IF ext THEN ts ELSE 0],
                IF ext THEN <<hdr, ExtToken(ts)>> ELSE <<hdr>>)
        /\ UNCHANGED <<repeat, broke, readervars>>

ContinueMsg(c) ==
    /\ ~broke /\ Rest(c) > 0
    /\ Emit(c, enc[c], IF repeat /\ enc[c].ext # 0
                       THEN <<HdrToken(3, c, 0, 0, "", 0), ExtToken(enc[c].ext)>>
                       ELSE <<HdrToken(3, c, 0, 0, "", 0)>>)
    /\ UNCHANGED <<started, repeat, over, broke, readervars>>

\* The contents of the n-th message are told from all others.
Media(ts, len) == Message("Video", ts, 1, [i \in 1..len |-> <<started + 1, i>>])
Control(type, n) == Message(type, 0, 0, <<<<n, 0>>>>)

MediaMsgs == {Media(ts, len) : ts \in Times, len \in Lens}
AggMsgs == {Message("Aggregate", ts, 1, p) : ts \in Times, p \in Parts}
ControlMsgs ==
    {Control(type, n) : type \in {"SetChunkSize", "WindowAckSize", "PingRequest"}, n \in Sizes}

\* A header that no conforming program would write: of a chunk stream never
\* used, or in the middle of a message.
BreakRule(c, fmt) ==
    /\ Rude /\ ~broke
    /\ (fmt # 0 /\ ~enc[c].used) \/ (fmt # 3 /\ Rest(c) > 0)
    /\ wire' = Append(wire, HdrToken(fmt, c, 0, 0, "Video", 0))
    /\ broke' = TRUE
    /\ UNCHANGED <<enc, size, repeat, started, sent, over, readervars>>

PeerStep ==
    \/ \E c \in Csids \ {2}, fmt \in 0..3, m \in MediaMsgs \union AggMsgs : StartMsg(c, fmt, m)
    \/ 2 \in Csids /\ \E m \in ControlMsgs : StartMsg(2, 0, m)
    \/ \E c \in Csids : ContinueMsg(c)
    \/ \E c \in Csids, fmt \in 0..3 : BreakRule(c, fmt)

Read == ReaderNext /\ UNCHANGED <<enc, size, repeat, started, sent, over, broke>>

Finished ==
    /\ (started = MaxMsgs /\ wire = <<>>) \/ err # ""
    /\ UNCHANGED vars

Next == PeerStep \/ Read \/ Finished

Spec == Init /\ [][Next]_vars

-----------------------------------------------------------------------------
\* The reader's variables have their types and its buffers their fill.
TypeOK == ReaderTypeOK

\* What a peer writes that breaks no rule is understood, token by token: the
\* reader is never out of step with the chunks on the wire, and returns an error
\* when it meets a message over the limit, and for nothing else.
InStep ==
    /\ err = "" => AtHeader
    /\ err # "" => err = "MsgDataTooBig" /\ over # 0 /\ Len(out) = over - 1

\* Messages come out in the order in which their last chunks were written, with
\* their own type, time, message stream and payload, whatever lay between their
\* chunks; of an aggregate its parts, with their own times.
Reassembled == IsPrefix(out, sent)

\* All of them: a reader that has emptied the wire has seen every message.
Complete == wire = <<>> /\ err = "" /\ aggmsg.parts = <<>> => out = sent

\* Every ping was answered, in order, and by nothing but its own answer.
PingTime(m) == IF m.type = "PingRequest" THEN <<m.data[1][1]>> ELSE <<>>
AnswerTime(r) == IF r[1] = "PingResponse" THEN <<r[2]>> ELSE <<>>
PingTimes(ms) == FlattenSeq([i \in 1..Len(ms) |-> PingTime(ms[i])])
AnswerTimes(rs) == FlattenSeq([i \in 1..Len(rs) |-> AnswerTime(rs[i])])
PingsAnswered == AnswerTimes(replies) = PingTimes(out)

\* The reader refuses what breaks the rules, more chunk streams than it keeps, or
\* a message over the limit, the first one and where it begins, and nothing else;
\* it never takes the rest of such a wire for messages.
RefusesOnlyRude ==
    /\ err = "MsgDataTooBig" => over # 0 /\ Len(out) = over - 1
    /\ err = "TooManyCsid" => broke \/ Cardinality({c \in Csids : enc[c].used}) > MaxCsid
    /\ err \notin {"", "MsgDataTooBig", "TooManyCsid"} => broke
    /\ (broke \/ over # 0) /\ wire = <<>> => err # ""
=============================================================================
