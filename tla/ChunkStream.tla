----------------------------- MODULE ChunkStream -----------------------------
(***************************************************************************)
(* joy5's own writer of chunks (writeMsg2, fillChunkHeader0,               *)
(* fillChunkHeader3, setAndWriteChunkSize of format/rtmp/msg.go) at the    *)
(* other end of a ChunkReader: every message starts with a type 0 header   *)
(* and goes on in type 3 chunks, one message after the other.              *)
(***************************************************************************)
EXTENDS ChunkReader

CONSTANTS Csids,     \* chunk stream ids writeMsg is called with
          Times,     \* timestamps
          Lens,      \* lengths of messages, which fit a header's field (below 2^24)
          TagHdrs,   \* lengths of the tag header fillheader writes
          Sizes,     \* sizes setAndWriteChunkSize is called with
          MaxMsgs    \* messages written (bound)

ASSUME StreamAssumption ==
    /\ Times \subseteq 0..TimeMod - 1 /\ Lens \subseteq Nat
    /\ Sizes \subseteq Nat \ {0} /\ MaxMsgs \in Nat
    /\ Csids \subseteq Nat /\ IsFiniteSet(Csids) /\ Cardinality(Csids \union {2}) <= MaxCsid
    /\ \A h \in TagHdrs : h \in Nat /\ h <= ChunkSize /\ \A size \in Sizes : h <= size

VARIABLES writeMaxChunkSize, sent
vars == <<wire, writeMaxChunkSize, sent, readervars>>

Init ==
    /\ wire = <<>>
    /\ writeMaxChunkSize = ChunkSize
    /\ sent = <<>>
    /\ ReaderInit

WithExt(hdr, ts) == IF ts >= Ext THEN <<[hdr EXCEPT !.ts = Ext], ExtToken(ts)>>
                    ELSE <<[hdr EXCEPT !.ts = ts]>>

ChunkHeader0(c, m) == WithExt(HdrToken(0, c, 0, Len(m.data), m.type, m.sid), m.time)

ChunkHeader3(c, m) == <<HdrToken(3, c, 0, 0, "", 0)>>
                        \o (IF m.time >= Ext THEN <<ExtToken(m.time)>> ELSE <<>>)

Units(m, from, n) == [i \in 1..n |-> DataToken(m.data[from + i - 1])]

\* Deviation: the first chunk's size does not count the tag header.
FirstLeftWhole(max, taghdr) == max

\* What is left of the first chunk behind the tag header.
FirstLeft(max, taghdr) == max - taghdr

\* The turns of writeMsg2's loop but the first: left units of m remain, and each turn
\* is a chunk with a header of its own, because the one before filled its chunk.
Loop(c, m, max) ==
    LET total == Len(m.data)
        loop[left \in 0..total] ==
            IF left = 0 THEN <<>>
            ELSE LET n == IF left > max THEN max ELSE left
                 IN  ChunkHeader3(c, m) \o Units(m, total - left + 1, n) \o loop[left - n]
    IN  loop

\* The first turn goes without a header and has the room the tag header leaves.
Body(c, m, max, taghdr) ==
    LET left == Len(m.data) - taghdr
        room == FirstLeft(max, taghdr)
        n    == IF left > room THEN room ELSE left
    IN  Units(m, 1, taghdr) \o Units(m, taghdr + 1, n) \o Loop(c, m, max)[left - n]

\* writeMsg2: everything the message becomes on the wire.
Chunks(c, m, max, taghdr) == ChunkHeader0(c, m) \o Body(c, m, max, taghdr)

\* The n-th message written; its payload says so.
Content(n, len) == [i \in 1..len |-> <<n, i>>]

\* writeMsg, as WriteTag, writeCommand and WriteEvent call it.
WriteMsg(c, ts, len, taghdr) ==
    LET m == Message("Video", ts, 1, Content(Len(sent) + 1, len))
    IN  /\ Len(sent) < MaxMsgs
        /\ taghdr <= len
        /\ wire' = wire \o Chunks(c, m, writeMaxChunkSize, taghdr)
        /\ sent' = Append(sent, m)
        /\ UNCHANGED <<writeMaxChunkSize, readervars>>

\* A control message on chunk stream 2: its payload is one number.
Event(type, n) == Message(type, 0, 0, <<<<n, 0>>>>)

\* setAndWriteChunkSize: the new size holds from the announcement on.
SetAndWriteChunkSize(size) ==
    /\ Len(sent) < MaxMsgs
    /\ writeMaxChunkSize' = size
    /\ wire' = wire \o Chunks(2, Event("SetChunkSize", size), size, 0)
    /\ sent' = Append(sent, Event("SetChunkSize", size))
    /\ UNCHANGED readervars

WriterStep ==
    \/ \E c \in Csids, ts \in Times, len \in Lens, h \in TagHdrs : WriteMsg(c, ts, len, h)
    \/ \E size \in Sizes : SetAndWriteChunkSize(size)

Read == ReaderNext /\ UNCHANGED <<writeMaxChunkSize, sent>>

Finished == ((Len(sent) = MaxMsgs /\ wire = <<>>) \/ err # "") /\ UNCHANGED vars

Next == WriterStep \/ Read \/ Finished

Spec == Init /\ [][Next]_vars

-----------------------------------------------------------------------------
\* The variables have their types, the reader's buffers their fill.
TypeOK == ReaderTypeOK /\ writeMaxChunkSize \in Sizes \union {ChunkSize}

\* What joy5 writes joy5 reads, token by token: the reader is never out of step
\* with the chunks on the wire, and returns an error for the first message that is
\* over the limit, and for no other.  The writer has no such limit.
TooLong(m) == Len(m.data) > MaxMsgSize

InStep ==
    /\ err = "" => AtHeader /\ \A i \in 1..Len(out) : ~TooLong(sent[i])
    /\ err # "" => err = "MsgDataTooBig" /\ Len(out) < Len(sent) /\ TooLong(sent[Len(out) + 1])

\* Messages come out as they went in: type, time, message stream and every
\* unit of payload, in order, none twice, none missing.
Reassembled == IsPrefix(out, sent)

\* And all of them: a reader that has emptied the wire without an error has seen
\* every message.
Complete == wire = <<>> /\ err = "" => out = sent
=============================================================================
