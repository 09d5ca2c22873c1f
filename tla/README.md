# A verification of joy5

joy5 is a Go toolkit for audio and video: an RTMP server and client, an FLV
reader and writer, codec helpers for H.264 and AAC, and `avtool`, a program made
of them.  Its most delicate part is the server `avtool pubsubrtmp`: goroutines
of publishers and subscribers that share streams, above RTMP connections with
buffered writes, deadlines and background readers.  This directory holds TLA+
modules that model it, TLC configurations that check them on small instances,
and TLAPS proofs about them for instances of any size.

1. [The system](#the-system)
2. [The modules](#the-modules)
3. [The runs](#the-runs)
4. [Fairness](#fairness)
5. [The proofs](#the-proofs)
6. [Findings](#findings)
7. [What is not modelled](#what-is-not-modelled)
8. [Plan](#plan)

Line numbers refer to the sources under `src/`; `PROJECT.json` maps every
definition of the modules to the lines it models.

## The system

| component | source | state | operations | what makes it correct |
|---|---|---|---|---|
| pub/sub stream | `cmd/avtool/pubsub.go` 15-256 | `stream.pub`, `stream.sub`; per publisher `gopCache`, `mergeSeqhdr`, a context; per subscriber a cursor, `splitSeqhdr`, `notify` | `setPub`, `addSub`, `notifySub`, `gopCache.put`, `gopCacheReadCursor.advance`, `mergeSeqhdr.do`, `splitSeqhdr.do` | no lost wake-up; one publisher at a time; packets in order, gaps only up to a key frame; headers before the packets that need them |
| stream registry | `pubsub.go` 258-332 | map from path to stream and user count, a mutex | `add`, `remove`, `HandleConn` | one stream object per path while it is in use, none afterwards |
| RTMP set-up | `format/rtmp/` `handshake.go`, `cmd.go`, `conn.go`, `client.go`, `server.go`, `wraprw.go` | stage, role, message stream id, transaction id, write buffer, deadline, peek loop | `Prepare`, handshake, connect / createStream / publish / play, `writeDataStart`, `startPeekReadLoop` | both ends agree; nobody waits for unflushed bytes; nothing that is needed is discarded; a hang-up is noticed |
| RTMP chunk stream | `format/rtmp/msg.go` | per chunk stream the header and the message under way; chunk sizes; acknowledgement counts; the aggregate being unpacked | `readChunk`, `readMsg`, `readMsgHandleEvent`, `nextAggPart`, `handleEvent`, `writeMsg`, `setAndWriteChunkSize` | messages come out as they went in; the reader stays in step with the bytes; acknowledgements and ping answers are sent |
| URL and path | `format/rtmp/url.go` | none | `splitPath`, `getTcURL`, `createURL` | client and server name the same path |
| FLV | `format/flv/flv.go`, `flvio/flvio.go` | muxer and demuxer: header state | `WritePacket`, `ReadPacket`, tag parsing and filling | a packet written is the packet read |
| AMF | `flvio/amf0.go`, `amf3.go` | parse position | `ParseAMFVals`, `FillAMF0Vals` | parse inverts fill |
| H.264, AAC | `codec/h264`, `codec/aac` | none | NALU splitting, SPS parsing, configuration records, ADTS | parse inverts fill; every NALU found once |
| bits | `utils/bits`, `utils/bits/pio` | bit buffers | `Read/WriteBits`, Golomb codes, integer fields, vectors of slices | fields come out as they went in |
| formats, av | `format/format.go`, `av/` | none | opening by URL, packet types | dispatch |
| avtool commands | `cmd/avtool/*.go` | loops over packets (`skipgop` counts key frames, `seqhdr` keeps the configuration) | `conv`, `skipgop`, `forwardrtmp`, ... | each packet is handled once, and keeps its units |

How they interact: `Server.HandleNetConn` prepares a connection (handshake and
commands) up to the publish or play command, then calls `HandleConn` of
`doPubsubRtmp`, which asks the registry for the stream of the path and runs
`setPub` or `addSub` on it in the connection's goroutine.  `setPub` reads
packets (`Conn.ReadPacket` -> `ReadTag` -> `readMsgHandleEvent` -> `readChunk`)
and stores them; `addSub` writes them (`Conn.WritePacket` -> `WriteTag` ->
`writeMsg`).  Publisher and subscriber goroutines meet in the stream: through
an atomically swapped pointer to the publisher, a copy-on-write cache, a
concurrent map of subscribers, and a channel of capacity one per subscriber.
A connection that writes has a second goroutine, which reads and discards
what comes back and reports the end on `CloseNotify`, which `addSub` waits on.

What is hard: the interleavings of takeover, cache snapshot and wake-up; what
the peek loop may discard; unflushed buffers and answers that are deferred;
deadlines; framing that depends on values announced in the same stream; counts
and times that wrap; formats that do not say which of them a buffer is in.
`PROJECT.json` lists these hazards line by line with the
properties that cover them.

## The modules

    StreamFeed      what a stream promises to a subscriber (abstract)
      ^ implemented by
    PubSub          one stream: publishers, subscribers, cache   <- MCPubSub
    PubSubProofs      theorems about it
    Streams         the registry of streams                      <- MCStreams
      ^ extended by
    Server          the handlers that use it, found by URL       <- MCServer
    ServerProofs      theorems about Streams, RtmpUrl and Server
    RtmpUrl           how a URL is taken apart and put together
    Conn            a client and a server set a connection up and use it
    ConnProofs        theorems about it
    ChunkReader     the reading half of the chunk stream
      ^ extended by
    ChunkStream     ... fed by joy5's own writer
    ChunkPeer       ... fed by any RTMP program                  <- MCChunkPeer
    ChunkReaderProofs what the reader makes of a wire, whoever writes it
    ChunkStreamProofs theorems about ChunkStream
    ChunkPeerProofs   theorems about ChunkPeer
    Flv             an FLV file being written and read           <- MCFlv
    Framing         callers of integer fields, slices and NAL units
      ^ extended by
    Codecs          ... and of all other codecs                  <- MCCodecs
      uses
    Reads, Pio, Bits       results with errors; integers and slices; fields of bits
    Nalu, H264, Aac, Amf   the formats
    Transmux        the loops of avtool that rewrite H.264
    CodecRef        what the standards say
    MediaProofs       theorems about Flv and Framing
    SeqFacts        lemmas on counting, recursion, joined sequences and division

Operators named after an action with a suffix and commented "Deviation" are not
part of any specification.  Each is a plausible mistake in the definition that
follows it; `PROJECT.json` ("mutants") says which property finds it out.

**PubSub** has a program counter per publisher (`ppc`: check of the context,
read, put, notify) and per subscriber (`spc`: load, snapshot, wait, write).  An
action is one access to shared state: `SetPub` is the `SwapPointer`,
`CancelOld` the cancellation that follows it, `CheckDone` the `select` on the
context, `ReadMedia` the return of `ReadPacket` with `mergeSeqhdr.do` and
`gopCache.put` (the new cache becomes visible in one pointer store),
`NotifyOne` a turn of the range over the subscribers with its non-blocking
send, `LoadPub`, `TakeSnapshot` and `Wake` the steps of `addSub`, `SendMeta`,
`SendVSeqHdr`, `SendASeqHdr` and `SendPkt` the writes `splitSeqhdr.do` makes.
A range over `sync.Map` may or may not see an entry stored or deleted meanwhile;
`NotifyOne` and `NotifyDone` allow both.  `turn`, `keys`, `late`, `phdr` and
`plast` are history variables: who published when, which packets were key
frames, what a player has received.  A packet is its number, whether it is a
key frame, and the headers it was published under.

**StreamFeed** has none of this: publishers number their packets, and a
subscriber is handed the next one, or a later key frame, or the start or a key
frame of a later publisher.  `PubSub!FeedSpec` is that specification under the
refinement mapping `head <- gcidx`, `pos <- plast`.

**Streams** has one action per statement of `add` and `remove` between locking
and unlocking, so that a missing lock would show.  A stream object is named
after the handler that allocated it.

**Server** puts registry and streams together.  It extends `Streams` with one
action per step of `setPub` and `addSub`, at a coarser grain than `PubSub`:
packets are only counted, a notification reaches all subscribers at once, a batch
is written in one step.  What it adds is that there are many objects, that a
publisher which failed is still the publisher of its object, and that handlers
come by URL: `RtmpUrl` has `splitPath` of the client, `createURL` of the server and
the path that is looked up, for URIs that are sequences of slashes, names and a
question mark.  `tenure` and `born` are histories: how often a path was given up
by its last handler, and in which of these periods a handler came.

**Conn** has two ends (`"cli"`, `"srv"`) with a program counter each, a write
buffer `wbuf` of `BufCap` messages, a pipe `net` of `NetCap` messages per
direction, the stage and the fields `Prepare` sets, a deadline, and the state of
the peek loop.  An action is a step of `Prepare` between two reads.  `Write`
spills into the pipe when the buffer is full, as `bufio.Writer` does, and blocks
when the pipe is full; `WriteFlush` stands for writes with a flush behind them.
`Expire` lets a deadline pass at any time; `CloseClient`, `HandlerReturns` and
`Collect` end the connection (`HandleConn` does not close it: it is closed by
the finalizer Go's runtime attaches to a connection).

**ChunkReader** has one action per branch of `readChunk` (`ReadChunk0`,
`ReadChunk12`, `ReadChunk3New`, `ReadChunk3More`, `ReadChunkError`), each with
all that follows in the same call of `readMsgHandleEvent`: the acknowledgement,
`handleEvent`, its answers.  The wire is a sequence of tokens - headers,
extended timestamps, units of payload - and sizes and windows count tokens.
Numbers that wrap in the code wrap in the model, at `TimeMod` and `AckMod`;
`Ext` is the timestamp 0xffffff that announces an extended one; `MaxMsgSize` is the limit
of `message.Start` (4 MiB): `Begin` is what every branch does behind a header that begins a
message, and fails with `MsgDataTooBig` above it.  An error ends the connection, so what is
left half read is not said.  The parts of an aggregate lie within it and it within the
limit, so `Start` does not fail in `nextAggPart`.
**ChunkStream** adds `writeMsg2`, which has no such limit, as a function from a message
to tokens (`Chunks`); **ChunkPeer** adds a writer that does whatever the protocol, as far
as the reader supports it, allows, and with `Rude` also what it does not.

**Flv** has a file that grows by the calls of `Write` the muxer makes: the file
header, and three per tag (header, data, size).  `WritePacket` makes the tag of
a packet, `WriteForeign` puts in a tag of another program - a codec joy5 does
not know, AMF3 metadata, a tag too short for its header - and `Write` does one
call; no action is fair, so the writer may have stopped anywhere.
`ReadFileHeader` and `ReadTag` are the demuxer, `ReadTag` with the turn of the
loop of `avtool skipgop` that uses the packet.  An AMF value is one number; the
metadata is a sequence of values, with the names that are put before it and
taken off.

**Framing** and **Codecs** are about functions without state: each action calls one
function, or what writes and what reads, with an argument of a set, and keeps
argument and result in `call` until `Return`. `Framing` has the callers of `Pio` and
`Nalu`, and what Annex B says of a byte stream by positions (`AnnexbUnits`, as quoted in
`h264.go` 325-346: units lie behind start code prefixes, and the zeros around them
belong to none); it reaches no `RECURSIVE` operator - the loops of these functions are recursive functions of
the turn - so that it can be proved about. `Codecs` adds the callers of everything
else, whose calls have other names: a step of `Codecs` leaves `call` alone, is a
step of `Framing`, or makes a call of which `NALUsSurvive` and `FieldsSurvive` say
nothing. The functions are operators of their own modules: `Reads` (a value and
where to read on, or an error that every caller passes on), `Pio` (integers of k
bytes, bounds, `VecSliceTo`), `Bits` (the word of bits that `Reader` fills and
`Writer` flushes, and the Golomb reader), `Nalu` (`SplitNALUs` and the joins),
`H264` (the fields of an SPS as a grammar that `GParse` follows, the maps of
`Codec`, the decoder configuration), `Aac` (audio configuration, ADTS) and `Amf`
(AMF0 written and read, AMF3 read). `CodecRef` has the other side: what encoders
that are not joy5's write (SPS with every optional part, AMF3, Exp-Golomb codes).
Limits that lie at a power of the byte's size are met with small bytes: the run
gives those of `Framing` 4 values, and `Amf18` and `Bits2` are instances in which a
byte has 18 values or 2 bits (a word has four such bytes); the formats whose fields
are fixed have bytes of 8 bits (`Nalu256` where they hold NAL units). `Transmux` has
`avtool seqhdr` and `avtool avcc2annexb`, which run between the calls.

## The runs

| run | bounds | what it asks |
|---|---|---|
| `pubsub_takeover` | 3 publishers, 1 subscriber, 2 packets; and 1 publisher, 2 subscribers, 3 packets | `TypeOK`, `NoLostWakeup`, `ReplacedPubStops`, refinement of `StreamFeed`, while publishers replace each other in any order, and for several subscribers and more than one trimmed GOP |
| `pubsub_headers` | 2 publishers, 1 subscriber, 3 reads, 2 header values of each kind | `ConfigInForce`: whatever the batches, the skipped GOPs and the switches, each packet follows the headers it was published under |
| `pubsub_live` | 2 publishers, 1 subscriber, 2 packets | `CatchesUp`, `ClosedSubLeaves` |
| `streams` | 4 handlers, 2 paths | `SameStream`, `CountsUsers`, `AllLeave` |
| `server` | 3 handlers, 1 packet each, URLs with and without a query and one of a single segment | `NothingFromThePast`, `OnePublisher`: who feeds whom, whatever objects and failed publishers there were |
| `conn` | pipes of 2 messages, buffer of 1, 5 packets | agreement, what the peek loop drops, order, and that nobody waits for good |
| `conn_refused` | 1 packet | a refused client (violated, see Findings) |
| `chunk_stream` | 3 messages of 0, 1, 3 or 4 units, of which 3 are the limit, on 2 chunk streams, times below, at and above `Ext`, tag headers of 0 or 1, chunk size 1 or 2 | `TypeOK`, `InStep`, `Reassembled`, `Complete` |
| `chunk_peer` | 3 messages of 0, 2 or 3 units, of which 2 are the limit, on 2 chunk streams, 3 times, header types 0-3 | `InStep`, `Reassembled`, `Complete` for what is interleaved and compressed |
| `chunk_control` | 3 messages of 3 or 4 units, of which 3 are the limit, on 3 chunk streams (2 allowed), sizes, windows, pings, aggregates of 0-2 parts, rule breaking | `Reassembled`, `RefusesOnlyRude`, `PingsAnswered`, `AckInTime` |
| `flv` | 5 packets, of which 2 are not H.264 frames: 9 kinds of packet, 6 foreign tags; low times of 2 bits, high of 1, composition times of 2 | `TypeOK`, `Demuxed`, `SkipsTwoGops`, `EndsAtTheEnd` |
| `codecs` | all buffers of up to 6 bytes of 4 values and some of 8, units of up to 4; 194 SPS, lists of up to 33 parameter sets; audio configurations of every rate and layout, payloads up to the longest of ADTS; AMF values nested twice, strings beyond the short limit; up to three fields of up to a word in one or two groups; pairs of Golomb codes; integers around the limits of one to eight bytes; up to three slices and all bounds | `NALUsSurvive`, `ConfigsSurvive`, `ValuesSurvive`, `FieldsSurvive`: what one function writes the other reads, and nothing cut short is taken for a value |

The two scenarios of `pubsub_takeover` are one instance with a `CONSTRAINT` that
admits either several publishers or several subscribers.  That of `chunk_control` does not
follow the peer beyond the reader's error, after which nothing it writes is read.

Why the bounds are enough.  A lost wake-up needs one packet between a snapshot and the
wait; a takeover race needs three publishers, one that is replaced before it has
cancelled the one it replaced.  Two packets that may be key frames make a GOP be cut
off, a third one a second GOP.  A stream of two paths and four handlers has an entry
deleted and created again while others come and go.  The pipes of `conn` are smaller
than what either end writes, so every wait for a full pipe occurs, and 5 packets exceed
all buffers together.  In the chunk modules a message has more units than the chunk
size, and may be just as long as the limit or one unit longer; `TimeMod` is 8 and
`AckMod` 12, so that times and counts wrap within a run;
`AckMod` exceeds the window by more than a chunk, as 2^32 does.  Three key frames and
two more packets show both sides of the cut `skipgop` makes; the times of `flv` lie on,
below and above each limit of their fields, and a composition time is negative.  Three
handlers are a publisher that fails, a player that keeps its stream, and who comes next;
with two they are gone before the third comes; one packet each is what a failed
publisher needs to leave something behind.  In `codecs` a byte of 4 values makes
lengths, start codes and plain payload collide in buffers of six bytes; 18 is the least
size of an AMF byte that holds its markers, and its string of 324 characters the first
that two bytes do not count; a word of 8 bits is filled and left over by fields of every
width.

`SYMMETRY` is used for publishers, subscribers and handlers in runs that check no
liveness.  Deadlock is checked in every run: each specification has a
`Finished` step for the states in which the program has nothing left to do, and
only for those.

## Fairness

Goroutines that can run are run (weak fairness on the steps of each goroutine
that wait for nobody).  `pubsub_live` assumes that a subscriber's peer reads, so
that a write returns; nothing is assumed of what publishers send.  In `streams`
the lock has strong fairness - `sync.Mutex` hands itself to a waiter it has
starved for a millisecond - and `setPub` and `addSub` return.  In `conn` both
programs go on reading packets; no one has to write, hang up or time out.

## The proofs

All theorems hold for any sets of publishers, subscribers, packets, handlers and
paths, any capacities and any number of messages that satisfy the named assumptions
of the modules (`Nil` is not a publisher; handlers are finitely many; URIs begin with
a slash; packets are what the muxer's callers make).  TLC evaluates the assumptions for
the instances of the runs.

`PubSubProofs`
* `TypeCorrect`: `TypeOK` is an invariant.  The parts about program counters (no
  nil pointer is followed) make it inductive.
* `WakeupNeverLost`: `NoLostWakeup`.  Inductive with `WakeInv`, which speaks of
  every subscriber between its load of the publisher and the wait, too: what it
  missed meanwhile has a token or a notifier under way.
* `ReplacedStops`: `ReplacedPubStops`.  Inductive with `StopInv`: every serving
  publisher but the current one has its cancellation behind it or coming, and
  a cancelled one that passed the check reads at most once.
* `ImplementsFeed`: `Spec => FeedSpec`.  The invariant `FeedInv` has three parts:
  `TurnInv` (publishers attached earlier have lower turns, the current one has
  the highest), `CacheInv` (the cache of a publisher is a run of consecutive
  packets that ends at `gcidx` and starts at packet 1 or at a key frame) and
  `CursorInv` (a batch being written is a run that may follow what the player has).
  A step of `SendPkt` then is a `Deliver`, a step of `ReadMedia` a `Publish`,
  `SetPub` an `Attach`, and all others stutter.
* `HeadersInForce`: `ConfigInForce`.  `HdrInv` says what merge and split remember:
  between key frames of a cache or a batch the video header does not change, and a
  key frame carries its own (`CacheHdrs`, `BatchHdrs`); the batch a player is sent still
  agrees with what the cache has under the same numbers (`SameGov`), though the cache
  has moved on; what `splitSeqhdr` has sent is what the player has, and that is the
  header of the packet sent last, or the next packet is a key frame (`InForce`).  The code
  does not look at the video header when it writes an inter frame; that it
  may do so rests on `FeedInv`: the frame comes directly after the packet sent last.

`ServerProofs`
* `TypeCorrect`, `OneStreamPerPath` (`SameStream`) and `CountersExact`
  (`CountsUsers`).  The invariant is `LockInv` (who is inside holds the lock)
  with `EntryInv` (what the registry and the handlers know of each other) and
  `CountInv` (a counter differs from its users by the critical section under
  way).  They are about `Streams`, for any handlers and paths.
* `NamesSurvive`: for every request URI, what the server looks a stream up by names
  what the path of the URI names, and is that path if it has more than one segment.
  The positions of the second and third slash exist when they are counted (`SlashFound`,
  from the least element of a set of numbers), so that `splitPath` and `createURL`
  are inverse (`Rejoined`); one segment comes back with a slash at its end, behind the
  query if there is one (`OneSegment`).
* `ImplementsStreams`: `ServerSpec => Spec`, the specification of the registry: what
  the handlers do between `add` and `remove` leaves the registry alone, and what
  is shown of it above holds in the server.
* `NobodyFromThePast` (`NothingFromThePast`) and `OnePublisherPerName`
  (`OnePublisher`), from `NamesSurvive` and one invariant, which is inductive relative to
  that of the registry.  `FreshInv` and `AllocInv`: who is not served yet has met nobody,
  and an object has no publisher before it is in the registry.  `BornInv`: whoever holds
  a stream came in the tenure of its path that lasts, as only the last one to leave
  deletes the entry.  `PubInv`: so did the publisher of an object in the registry, as the
  one it has was a holder when it came, and an entry starts without one.  `MeetInv`
  carries this over to the publisher a player has read or was fed by.  `StopInv`: a
  publisher that runs is its stream's, or was cancelled, or is remembered in the `oldsp` of
  the one that is about to cancel it.

`ConnProofs`
* `ConnTypes` (`TypeOK`), `AgreedWhenPrepared` (`PreparedAgree`), `OnlyAcksDropped`
  (`DropsOnlyAcks`) and `PacketsInOrder` (`InOrder`), from one inductive invariant,
  `ConnInv`.  It follows the bytes: `Out(e)` is what `e` has written and the other end
  has not read, in the pipe or still in the buffer, so that a flush or a spill changes
  nothing.  `PlaceInv` ties program counters to stages, `AgreeInv` what one end
  has recorded to how far the other is.  `CliStream` and `SrvStream` say which messages
  may be on their way in which phase, and which may follow which (`Paired`): the results
  of connect and createStream, then the answer, then what the role sends.  That the peek
  loop drops acknowledgements only follows from what may still be under way when it
  starts.  `CliPackets` and `SrvPackets` say that the packets
  on their way are the next ones, in order, behind everything else (`Pending`), and
  that a player which is not prepared yet still has its answer before them (`Answered`).

`SeqFacts` has what the prover needs in place of induction over data: induction over
the members of a set of numbers (`NatSet`), the existence of the function
`FlattenSeq` recurs on (`RecursionExists`, `ConcatsExist`), and from it how a flattened sequence grows.

`MediaProofs`, on `Flv`
* `FlvTypes` (`TypeOK`), `DemuxesWhatWasMuxed` (`Demuxed`), `ReadsToTheEnd`
  (`EndsAtTheEnd`) and `SkipsExactlyTwoGops` (`SkipsTwoGops`).  First one tag: for every packet the muxer takes, what `WriteTag` and
  `ReadTag` do to type, time, composition time, key frame flag and data is the identity
  (times are cut into a low and a high field, negative composition times wrap), and for
  every foreign tag `ReadTag` gives what `gives` says.  Then the file: `Layout` (what is
  written, with what is pending, is a header and three writes for every tag muxed) and
  `Reading` (the reader stands before a tag and has returned the packets of all tags before it).
  `SkipInv`, relative to that invariant, says that `gopnr` counts the key frames returned,
  that `out` is what is kept of them, and that a key frame is in it once frames are kept.
  `PacketAssumption` bounds the composition time by its field - nothing in the code
  checks it - and says that only frames have one, or are key frames, as in all packets `flv.go` makes (250-300).  `ForeignAssumption` defines which values a tag of another program holds.

`MediaProofs`, on `Framing`: for every even size of a byte from four on, all buffers and
integers, all vectors of slices, and all units shorter than the numbers of a length.
* Loops come first.  A loop of the model is a recursive function of the turn; that there
  is one (`LoopExists`) and what a turn does are proved once, and with the induction of `NatSet`
  that two loops which start and go on alike are alike (`SameLoops`).
* `FieldsTheorem` (`FieldsSurvive`).  The bytes `PutBE` stores are the digits of the
  number (`Shifts`); loading them gives it up to `Power(k)`, by induction over the digits
  (`UnsignedBack`), and the sign of the first byte decides which of the numbers
  that differ by `Power(k)` it is (`SignedBack`).  For `VecSliceTo` the loop invariant
  (`VecAt`) says what is still to be passed over and to be taken behind the slices done, and
  that what is taken joins to its part of their bytes.
* `NALUsTheorem` (`NALUsSurvive`).  Lengths: `splitAVCC` keeps that joining
  the units so far gives the buffer up to where it reads on, so what it accepts joins to the
  buffer; and in a buffer that was joined, turn i finds unit i.  Start codes: the
  invariant of the scan (`ScanAt`) relates its state to the positions in `Ends` - the zeros
  counted are those before byte i, up to three, `from` is the last start code, `out` the
  units before it - so the result is cut at the start codes, whatever the buffer (`CutUnits`),
  and where it is cut it differs from `AnnexbUnits` in zeros only: those that trail a unit, of
  which the code drops one in front of a start code, and those before the first start code
  (`CutTrimmed`, `CutUnitsTrimmed`).  A stream of proper
  units has its start codes exactly where they were put (`StreamEnd`), as a unit neither
  contains one nor ends with a zero that would belong to the next.  The guess: a stream taken for
  lengths begins with a length that is made of a start code and a byte of the unit, or, where
  start codes of four bytes are lengths of 1, comes to one that is made of four bytes of a unit, and
  is at least that long (`ShortStream`, `LongStream`): an `Unmistakable` stream is refused.

`ChunkReaderProofs` and `ChunkStreamProofs`
* `StreamTypes` (`TypeOK`), `ReaderInStep` (`InStep`), `MessagesReassembled`
  (`Reassembled`) and `NothingMissing` (`Complete`), from `StreamInvariant`.  What is on the
  wire can be cut anywhere by the reader's progress, so the invariant does not describe it
  by what was written but by what reading it will do: it leads the reader, from the state
  it is in, to one that has come to know exactly `sent`, with no message under way and
  the writer's chunk size (`Holds`).  A state is the part of the reader that decides what it
  makes of later chunks; `Link` says that the wire begins with a chunk that fits the
  state, and which state follows; `Leads` closes it under any number of chunks.  States go on
  behind a message over the limit as if there were none, and their `cut` says where
  the first one is among the messages: the reader stops there and nowhere else
  (`FirstLong`, `Refuses`).  Three
  facts carry the proof: a reading step takes the first chunk and leaves a wire that
  leads to the same state, or fails at the `cut` of that state (`ChunkTurn`, for all types of header, extended timestamps and
  repeated ones, aggregates and control messages); wires that lead on compose
  (`LeadsJoin`); and what `writeMsg2` writes for a message leads any idle state to the one
  that has that message too (`WriteLeads`, by induction over what is left in `LoopLeads`).
  A change of the chunk size is written with the new size, while the reader has the old one: it fits
  as it is one unit long.  `StreamAssumption` says that a connection uses no more chunk streams than
  the reader keeps; the code writes on five (2 to 6), the reader keeps 16.  `Leads` quantifies over
  sets of infinite wires and states: TLC cannot evaluate this invariant, only the four
  properties that follow from it.

`ChunkPeerProofs`
* `PeerReassembled` (`Reassembled`), `PeerComplete` (`Complete`), `RudeRefused`
  (`RefusesOnlyRude`) and `PeerInStep` (`InStep`, for a peer without `Rude` that keeps to
  `MaxCsid` chunk streams; it may send messages over the limit), from `PeerInvariant`: of any program that interleaves chunk
  streams, compresses headers, repeats extended timestamps or not, changes its chunk size
  in the middle of messages and sends aggregates.  The invariant (`PeerOK`, of two cases)
  says of a reader that goes on that the front of the wire leads it to a state which
  follows the peer (`InTune`): in every chunk stream it remembers what the peer has last
  written there and holds the same part of the message under way (`Mirror`), and it has come to know
  exactly `sent`.  Behind the front there is nothing, or, if the peer broke a
  rule, what begins with a header that the state refuses (`Bad`).  Of a reader that has given up it says
  why (`Excuse`): a rule was broken, more chunk streams are in use than it keeps, or the next
  message, the one at `over`, is over the limit; and that what it has delivered is the
  beginning of `sent`.  `ReadTurn` applies `ChunkTurn`
  of the reader to the front; `StartTurn` and `ContinueTurn` extend it by a chunk, with one
  lemma per type of header; `BadRefused` is the step that meets the broken rule, whichever it is.
  `PeerAssumption` says of the constants what a chunk stream and a 32-bit time are;
  the numbers of messages, times and sizes are arbitrary, and so are lengths that fit
  a header's field of three bytes.
* `PeerAcked` (`AckInTime`).  `AckOK`: `read` is how far the count of what was read, which
  wraps, is from the one last acknowledged, and never more than some announced window.
  `Orders` says that sizes and windows the reader is told are ones the peer sends, and
  `ChunkTurn` how much a step counts.  The theorem assumes `SmallWindows`: a window, a chunk
  and its header together stay below 2^32.  The code does not check what a peer announces; with
  a window nearer to 2^32 the difference of the counts wraps before it reaches the window, and
  no acknowledgement is sent.  A window of 0, which the code takes as none, is not announced
  here (`Sizes`), nor is `AckSize` 0.  joy5 itself starts with 2,500,000 and the run has 5 + 2 + 2 < 12.
* `PeerPingsAnswered` (`PingsAnswered`), from `PingOK`: a step appends to the answers what
  the message it delivers asks for, acknowledgements apart.

Only model-checked: all liveness (fairness and `ENABLED` are outside what the prover
does), and with it the answers and deliveries of the connection; `ConfigsSurvive` and
`ValuesSurvive`, as AMF trees and the grammar of parameter sets are recursive operators over
their data, and shifts of words use `Bitwise`.  Every other safety property a passing run
checks is a theorem.

## Findings

`conn_refused`: a server refuses a request with `NetStream.Publish.Failed` or
`NetStream.Play.Failed` at level `"status"` (`cmd.go` 142), and
`checkLevelStatus` (`cmd.go` 299) of a joy5 client takes any `"status"` for
success, though `connectPublish` and `connectPlay` mean to report
`PublishFailed` and `PlayFailed` (418, 479).  `Dial` returns a connection.

Observations that no run is about: a deadline that passes between
`startPeekReadLoop` and the reset of the deadline ends the peek loop, and
`CloseNotify` reports an end that has not come (`Conn!CutShort`); a publisher
that fails stays the stream's publisher, and later subscribers are fed its
last GOPs; a stream without key frames is cached whole; the last packets
written stay in the buffer until more follow (hence `BufCap` in `Delivers`); an
FLV file that ends between two of a tag's writes is read to an end like any
other (`io.EOF`, as `ReadFull` has read nothing), and its last, incomplete tag is
dropped without an error; the file header never says that there is audio or video,
as nothing sets `HasAudio` and `HasVideo`; joy5 reads messages of up to 4 MiB
(`message.Start`, `msg.go` 93-96) and writes longer ones without complaint: the joy5 that
reads one ends the connection with `MsgDataTooBig` (`InStep` of both writers says that this
is the only error); nor does `writeMsg` check that a length fits the three bytes
of its field.

Observations from the codecs, each outside what its property asks:
* `bits.go`: a `Writer` that is given more than the word holds before a flush writes
  the wrong bits (`mask` in `WriteBits64`, line 74, shifts by `move`
  and not by `n - move`), as does `Write` of more than eight bytes; a field of 64 bits
  that is not aligned in the `Reader` loses the bits that leave the word.  No caller
  does either.
* `golomb_reader.go`: `ReadSE` negates an unsigned number and halves it afterwards,
  so that only the low bits are right.  Scaling lists use the low eight.
* `h264.go`: an SPS of 4:4:4 has twelve scaling lists and eight are read; croppings
  count in units of two in 4:4:4 and in fields, too, where the standard has others; 32 SPS
  do not fit the five bits of their count; a byte stream that happens to be a
  sequence of lengths and payloads is taken for one.
* `aac.go`: `AOT_ESCAPE` is 46 where the format has 31, as `iota` counts the constants
  before it: object types from 32 on are not read back.
* `amf0.go`, `amf3.go`: an ECMA array is written without the lengths of its
  keys (nothing writes one); a boolean of AMF3 is taken to have a byte behind its
  marker; the unnamed values of an array are left unread; a negative integer comes
  out positive.
* `h264.go`: `splitAnnexb`, under the syntax of Annex B it quotes as a TODO (325-346), leaves
  zeros on the end of a unit (it drops one in front of a start code), where they are
  `trailing_zero_8bits`, and takes what precedes the first start code for a unit, where
  only `leading_zero_8bits` may be: 0 0 1 2 0 is read as the unit 2 0, and 0 0 0 0 1 2 as
  the units 0 and 2.  `NALUsSurvive` compares the units without these zeros (`Trimmed`).
* `seqhdr.go` 51: a key frame before the first configuration ends the command with a nil
  pointer (`Transmux!ReadFrameCrash`).
* `url.go`: the server looks up `/a/` for a URL of one segment, and `/a` if it has a
  query: two streams for one name (hence the condition in `OnePublisher`).
* `format.go`: `Create` of a `.flv` file hands out one muxer and writes packets through
  another; connections to a server it waits on, after the first, are set up and then
  neither served nor closed, as nothing reads the channel again; `forwardrtmp` to a file
  follows the connection it does not have.

## What is not modelled

Wording and layout of messages (AMF, URLs, digests of the handshake, the fields
of events), logging, allocation, and `SendSampleAccess`.  The four bytes that
`Peek(4)` compares are taken to tell an extended timestamp from payload: that
payload may start with the same four bytes is an ambiguity of the protocol.
A wire that ends within a chunk is not modelled: units arrive with their header; nor is
a message of 2^24 bytes or more, whose length its header does not hold; nor an FLV file
that ends within one call of `Write`, or has a longer header.  `Conn`, `PubSub` and
`Server` take messages to be within the reader's limit.

Of the codecs: the eight bytes of a float are those of an integer, dates are whole
milliseconds; the helpers that print AMF values or look into them, `Time64`, names of
unit types, `IsDataNALU` and durations of AAC packets are left out.  `getTcURL` is text for
the peer.

No module: `format/format.go` opens files, connections and listeners by URL and hands
packets on - I/O and dispatch; `av/` has type declarations and
`pktop`, which sleeps by the wall clock; `util.go` prints JSON; `conv`, `statsec`,
`forwardrtmp` and `benchrtmp` are loops that pass packets on or count them; `main.go`
is the command line.

## Plan

1. Done: the pub/sub stream with its abstract feed, the registry, the connection,
   the chunk stream, FLV; the server of registry and streams by URL; the codecs
   over bounded inputs; proofs about the stream, the registry, URLs, the server,
   the connection, FLV, the chunk stream, written by joy5 and by any peer, integer
   fields, slices and NAL units.
2. Left: the bit fields of `Bits` without `Bitwise` (division and remainder in place of
   shifts and masks), from which audio configurations and ADTS headers could be proved;
   what AMF trees and parameter sets need stays with TLC.
