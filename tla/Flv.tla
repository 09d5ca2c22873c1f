-------------------------------- MODULE Flv --------------------------------
(***************************************************************************)
(* An FLV file between a writer and a reader (format/flv/flv.go and        *)
(* flvio/flvio.go).  The writer muxes packets, each as a tag written in    *)
(* three writes; it may stop for good between any two of them, as no       *)
(* action is fair.  The reader demuxes the same file, perhaps while it is  *)
(* still being written, and does with the packets what `avtool skipgop`    *)
(* does (cmd/avtool/skipgop.go).  Tags that joy5 itself does not write may *)
(* be in the file too.                                                     *)
(*                                                                         *)
(* Data is a sequence of numbers: payload, or AMF values one number each.  *)
(* A field of a header is one number, and the sound flags but the format   *)
(* are left out.                                                           *)
(* Times are milliseconds; a tag holds one as a low and a high part, and a *)
(* composition time as a signed number of fewer bits.                      *)
(***************************************************************************)
EXTENDS Integers, FiniteSets, Sequences, SequencesExt

CONSTANTS LoMod,     \* 2^24
          HiMod,     \* 2^8
          CTimeMod,  \* 2^24
          Packets,   \* packets the writer may mux
          Foreign,   \* tags another program may have written
          MaxTags,   \* packets and foreign tags written (bound)
          MaxOthers  \* of these, others than H264 frames (bound)

ASSUME FlvAssumption == /\ LoMod \in Nat \ {0} /\ HiMod \in Nat \ {0}
                        /\ MaxTags \in Nat /\ MaxOthers \in Nat
                        /\ CTimeMod \in {2 * n : n \in 1..CTimeMod}

TimeMod == LoMod * HiMod

VARIABLES
    file,            \* what has been written, write by write
    pend,            \* the writes of the tag at hand that are still to be done
    filehdrwritten,
    Publishing,
    sent,            \* packets and foreign tags muxed so far
    gotfilehdr,
    pos,             \* writes the reader has read
    err,             \* the error ReadPacket returned, or ""
    got,             \* packets ReadPacket returned
    gopnr, out       \* of doSkipGop: key frames seen, packets written

writervars == <<file, pend, filehdrwritten, Publishing, sent>>
readervars == <<gotfilehdr, pos, err, got, gopnr, out>>
vars == <<writervars, readervars>>

TAG_AUDIO == 8
TAG_VIDEO == 9
TAG_AMF3 == 15
TAG_AMF0 == 18
SOUND_AAC == 10
VIDEO_H264 == 7
VIDEO_H265 == 12
AAC_SEQHDR == 0
AAC_RAW == 1
AVC_SEQHDR == 0
AVC_NALU == 1
FRAME_KEY == 1
FRAME_INTER == 2

\* AMF values: two strings, an empty map, one that does not parse; the rest are maps.
SetDataFrame == 100
OnMetaData == 101
EmptyMap == 102
Unparsable == 103

\* ParseAMFVals fails, on AMF0.
Bad(data) == \E i \in 1..Len(data) : data[i] = Unparsable

\* A packet's composition time fits into its field; only frames have one.
ASSUME PacketAssumption ==
    \A p \in Packets :
        /\ p \in [Type : {"AAC", "AACDecoderConfig", "H264", "H264DecoderConfig", "H264SPSPPSNALU",
                          "Metadata"},
                  IsKeyFrame : BOOLEAN, Time : Nat,
                  CTime : -(CTimeMod \div 2)..CTimeMod \div 2 - 1, Data : Seq(Nat)]
        /\ p.Type # "H264" => ~p.IsKeyFrame /\ p.CTime = 0

\* What may stand before the values of another program's metadata.
Names(type) ==
    LET names == {<<OnMetaData>>, <<SetDataFrame, OnMetaData>>}
    IN  CASE type = TAG_AMF0 -> names
          [] type = TAG_AMF3 -> names \union {<<0>> \o n : n \in names}
          [] OTHER -> {}

\* A foreign tag gives the values behind such names, and an audio or video tag is
\* none of those joy5 has packets for.
ASSUME ForeignAssumption ==
    \A tag \in Foreign :
        /\ tag \in [Type : {TAG_AUDIO, TAG_VIDEO, TAG_AMF3, TAG_AMF0}, Time : 0..TimeMod - 1,
                    Data : Seq(Nat), gives : Seq(Nat)]
        /\ \A n \in Names(tag.Type) :
              LET vals == SubSeq(tag.Data, Len(n) + 1, Len(tag.Data))
              IN  IsPrefix(n, tag.Data) /\ ~Bad(tag.Data) =>
                      tag.gives = IF vals = <<>> THEN <<EmptyMap>> ELSE vals
        /\ Bad(tag.Data) \/ (\A n \in Names(tag.Type) : ~IsPrefix(n, tag.Data)) => tag.gives = <<>>
        /\ tag.Type = TAG_AUDIO /\ Len(tag.Data) > 1 /\ tag.Data[1] = SOUND_AAC =>
              tag.Data[2] \notin {AAC_SEQHDR, AAC_RAW}
        /\ tag.Type = TAG_VIDEO /\ Len(tag.Data) > 3 /\ tag.Data[2] = VIDEO_H264 =>
              tag.Data[3] \notin {AVC_SEQHDR, AVC_NALU}

Init ==
    /\ file = <<>> /\ pend = <<>> /\ filehdrwritten = FALSE /\ Publishing \in BOOLEAN
    /\ sent = <<>>
    /\ gotfilehdr = FALSE /\ pos = 0 /\ err = "" /\ got = <<>>
    /\ gopnr = 0 /\ out = <<>>

-----------------------------------------------------------------------------
(* Tags                                                                    *)

\* Tag.FillHeader: what precedes the data in a tag's body.
FillHeader(tag) ==
    CASE tag.Type = TAG_AUDIO -> IF tag.Format = SOUND_AAC THEN <<tag.Format, tag.PacketType>>
                                 ELSE <<tag.Format>>
      [] tag.Type = TAG_VIDEO -> IF tag.Format \in {VIDEO_H264, VIDEO_H265}
                                 THEN <<tag.FrameType, tag.Format, tag.PacketType,
                                        tag.CTime % CTimeMod>>
                                 ELSE <<tag.FrameType, tag.Format>>
      [] OTHER -> <<>>

NoTag == [Type |-> 0, Format |-> 0, FrameType |-> 0, PacketType |-> 0, CTime |-> 0, Time |-> 0,
          Data |-> <<>>]

\* Deviation: the composition time is read as an unsigned number.
I24Unsigned(n) == n

\* ReadI24BE extends the sign.
I24(n) == IF n >= CTimeMod \div 2 THEN n - CTimeMod ELSE n

\* Length of the header Tag.ParseHeader finds at the start of body.
HeaderLen(type, body) ==
    CASE type = TAG_AUDIO -> IF body # <<>> /\ body[1] = SOUND_AAC THEN 2 ELSE 1
      [] type = TAG_VIDEO -> IF Len(body) > 1 /\ body[2] \in {VIDEO_H264, VIDEO_H265} THEN 4 ELSE 2
      [] OTHER -> 0

\* Tag.Parse, of a body that is not too short for its header.
Parse(type, time, body) ==
    LET n   == HeaderLen(type, body)
        tag == [NoTag EXCEPT !.Type = type, !.Time = time, !.Data = SubSeq(body, n + 1, Len(body))]
    IN  CASE type = TAG_AUDIO -> [tag EXCEPT !.Format = body[1],
                                             !.PacketType = IF n = 2 THEN body[2] ELSE 0]
          [] type = TAG_VIDEO -> [tag EXCEPT !.FrameType = body[1], !.Format = body[2],
                                             !.PacketType = IF n = 4 THEN body[3] ELSE 0,
                                             !.CTime = IF n = 4 THEN I24(body[4]) ELSE 0]
          [] OTHER -> tag

FileHeader == [k |-> "file", type |-> 0, lo |-> 0, hi |-> 0, body |-> <<>>]

\* WriteTag: three writes.  The data's length is not kept: the data is one write.
WriteTag(tag, header) ==
    LET write == [FileHeader EXCEPT !.k = "data"]
    IN  << [k |-> "header", type |-> tag.Type, lo |-> tag.Time % LoMod,
            hi |-> (tag.Time \div LoMod) % HiMod, body |-> header],
           [write EXCEPT !.body = tag.Data],
           [write EXCEPT !.k = "trailer"] >>

\* ParseTagHeader puts the time together.
TagTime(header) == header.lo + header.hi * LoMod

-----------------------------------------------------------------------------
(* The muxer                                                               *)

Avc(type, key, p) == [NoTag EXCEPT !.Type = TAG_VIDEO, !.Format = VIDEO_H264, !.PacketType = type,
                                   !.FrameType = IF key THEN FRAME_KEY ELSE FRAME_INTER,
                                   !.Time = p.Time % TimeMod, !.Data = p.Data]
Aac(type, p) == [NoTag EXCEPT !.Type = TAG_AUDIO, !.Format = SOUND_AAC, !.PacketType = type,
                              !.Data = p.Data]

\* What WritePacket makes of p: a tag, or nothing.
Tags(p) ==
    CASE p.Type = "AAC"               -> <<[Aac(AAC_RAW, p) EXCEPT !.Time = p.Time % TimeMod]>>
      [] p.Type = "AACDecoderConfig"  -> <<Aac(AAC_SEQHDR, p)>>
      [] p.Type = "H264"              ->
            <<[Avc(AVC_NALU, p.IsKeyFrame, p) EXCEPT !.CTime = p.CTime]>>
      [] p.Type = "H264DecoderConfig" -> <<Avc(AVC_SEQHDR, TRUE, p)>>
      [] p.Type = "Metadata" /\ ~Bad(p.Data) ->
            <<[NoTag EXCEPT !.Type = TAG_AMF0, !.Time = p.Time % TimeMod,
                            !.Data = (IF Publishing THEN <<SetDataFrame>> ELSE <<>>)
                                        \o <<OnMetaData>> \o p.Data]>>
      [] OTHER -> <<>>

\* Deviation: every tag is preceded by a file header.
FileHeaderDueAlways(writes) == writes # <<>>

\* WriteFileHeader: before the first tag only.
FileHeaderDue(writes) == writes # <<>> /\ ~filehdrwritten

IsFrame(p) == p.Type = "H264"
IsKey(p) == IsFrame(p) /\ p.IsKeyFrame
Others == {i \in 1..Len(sent) : sent[i].foreign \/ ~IsFrame(sent[i].pkt)}

Mux(item, writes) ==
    /\ pend = <<>> /\ Len(sent) < MaxTags
    /\ sent' = Append(sent, item)
    /\ pend' = (IF FileHeaderDue(writes) THEN <<FileHeader>> ELSE <<>>) \o writes
    /\ UNCHANGED <<file, filehdrwritten, Publishing, readervars>>

WritePacket(p) ==
    /\ IsFrame(p) \/ Cardinality(Others) < MaxOthers
    /\ Mux([foreign |-> FALSE, pkt |-> p],
           FlattenSeq([i \in 1..Len(Tags(p)) |-> WriteTag(Tags(p)[i], FillHeader(Tags(p)[i]))]))

\* A tag of another program: its Data is its whole body.
WriteForeign(tag) ==
    /\ Cardinality(Others) < MaxOthers
    /\ Mux([foreign |-> TRUE, pkt |-> tag], WriteTag(tag, <<>>))

\* One call of Write.
Write ==
    /\ pend # <<>>
    /\ file' = Append(file, Head(pend))
    /\ pend' = Tail(pend)
    /\ filehdrwritten' = (filehdrwritten \/ Head(pend).k = "file")
    /\ UNCHANGED <<Publishing, sent, readervars>>

-----------------------------------------------------------------------------
(* The demuxer                                                             *)

Packet(type, tag) == [Type |-> type, IsKeyFrame |-> FALSE, Time |-> tag.Time, CTime |-> 0,
                      Data |-> tag.Data]

\* Deviation: the name is expected with @setDataFrame before it.
MetadataNamed(vals) ==
    IF Len(vals) > 2 /\ vals[1] = SetDataFrame THEN SubSeq(vals, 3, Len(vals)) ELSE <<>>

\* convertToAMF0Metadata: the values behind the names; <<>> if there is no name.
Metadata(vals) ==
    LET data == IF vals # <<>> /\ vals[1] = SetDataFrame THEN Tail(vals) ELSE vals
    IN  IF Bad(vals) \/ data = <<>> \/ data[1] # OnMetaData THEN <<>>
        ELSE IF Len(data) = 1 THEN <<EmptyMap>>
        ELSE Tail(data)

\* ParseAMFVals: an AMF3 tag that begins with 0 holds AMF0 values behind it.
Vals(tag) == IF tag.Type = TAG_AMF3 /\ tag.Data # <<>> /\ tag.Data[1] = 0 THEN Tail(tag.Data)
             ELSE tag.Data

\* The packet ReadPacket returns for a tag; <<>> when it goes on to the next one.
FromTag(tag) ==
    CASE tag.Type \in {TAG_AMF0, TAG_AMF3} /\ Metadata(Vals(tag)) # <<>> ->
            <<[Packet("Metadata", tag) EXCEPT !.Data = Metadata(Vals(tag))]>>
      [] tag.Type = TAG_VIDEO /\ tag.Format = VIDEO_H264 /\ tag.PacketType = AVC_SEQHDR ->
            <<[Packet("H264DecoderConfig", tag) EXCEPT !.Time = 0]>>
      [] tag.Type = TAG_VIDEO /\ tag.Format = VIDEO_H264 /\ tag.PacketType = AVC_NALU ->
            <<[Packet("H264", tag) EXCEPT !.CTime = tag.CTime,
                                          !.IsKeyFrame = (tag.FrameType = FRAME_KEY)]>>
      [] tag.Type = TAG_AUDIO /\ tag.Format = SOUND_AAC /\ tag.PacketType = AAC_SEQHDR ->
            <<[Packet("AACDecoderConfig", tag) EXCEPT !.Time = 0]>>
      [] tag.Type = TAG_AUDIO /\ tag.Format = SOUND_AAC /\ tag.PacketType = AAC_RAW ->
            <<Packet("AAC", tag)>>
      [] OTHER -> <<>>

\* Deviation: the key frame that begins the third group is dropped with the second.
KeptLate(pkt) == ~IsFrame(pkt) \/ gopnr > 2

\* doSkipGop writes all but the frames of the first two groups.
Kept(pkt) == ~IsFrame(pkt) \/ gopnr + (IF pkt.IsKeyFrame THEN 1 ELSE 0) > 2

\* The body of doSkipGop's loop, for the packet ReadPacket returned, if any: pkts has at most one.
SkipGop(pkts) ==
    /\ got' = got \o pkts
    /\ gopnr' = gopnr + IF \E i \in 1..Len(pkts) : IsKey(pkts[i])
                        THEN 1 ELSE 0
    /\ out' = IF \E i \in 1..Len(pkts) : Kept(pkts[i]) THEN out \o pkts ELSE out

Next1 == file[pos + 1]
Fail(e) == err' = e /\ UNCHANGED <<gotfilehdr, pos, got, gopnr, out, writervars>>

ReadFileHeader ==
    /\ err = "" /\ ~gotfilehdr
    /\ IF pos = Len(file) THEN Fail("EOF")
       ELSE IF Next1.k # "file" THEN Fail("CC3Invalid")
       ELSE /\ gotfilehdr' = TRUE /\ pos' = pos + 1
            /\ UNCHANGED <<err, got, gopnr, out, writervars>>

\* Deviation: a tag is returned before the size behind it is there to be skipped.
TrailerThereUnread == TRUE

\* ReadTag's last ReadFull finds the size behind the tag.
TrailerThere == pos + 3 <= Len(file)

\* ReadPacket's loop and the loop of doSkipGop around it, for one tag.  A file that ends
\* between two of WriteTag's writes ends with io.EOF too: ReadFull has read nothing then.
ReadTag ==
    /\ err = "" /\ gotfilehdr
    /\ IF pos + 2 > Len(file) THEN Fail("EOF")
       ELSE LET body == Next1.body \o file[pos + 2].body
            IN  IF Next1.k # "header" THEN Fail("misread")
                ELSE IF Len(body) < HeaderLen(Next1.type, body) THEN Fail("short")
                ELSE IF ~TrailerThere THEN Fail("EOF")
                ELSE /\ pos' = pos + 3
                     /\ SkipGop(FromTag(Parse(Next1.type, TagTime(Next1), body)))
                     /\ UNCHANGED <<gotfilehdr, err, writervars>>

Finished == err # "" /\ pend = <<>> /\ Len(sent) = MaxTags /\ UNCHANGED vars

Next ==
    \/ \E p \in Packets : WritePacket(p)
    \/ \E tag \in Foreign : WriteForeign(tag)
    \/ Write
    \/ ReadFileHeader \/ ReadTag
    \/ Finished

Spec == Init /\ [][Next]_vars

-----------------------------------------------------------------------------
(* Properties                                                              *)

\* Every variable keeps its type, and the reader stays behind the writer.
TypeOK ==
    /\ filehdrwritten \in BOOLEAN /\ Publishing \in BOOLEAN /\ gotfilehdr \in BOOLEAN
    /\ err \in {"", "EOF", "short"}
    /\ Len(sent) <= MaxTags /\ pos \in 0..Len(file) /\ gopnr \in 0..Len(got)
    /\ \A i \in 1..Len(got) : got[i].Time \in 0..(TimeMod - 1)

\* What of an item of sent must come back, by what a packet means: frames with their time
\* cut to its width, configurations without a time, metadata without names and never empty.
Returned(item) ==
    LET p == item.pkt
    IN  CASE ~item.foreign /\ p.Type \in {"AAC", "H264"} -> <<[p EXCEPT !.Time = @ % TimeMod]>>
          [] ~item.foreign /\ p.Type \in {"AACDecoderConfig", "H264DecoderConfig"} ->
                <<[p EXCEPT !.Time = 0]>>
          [] ~item.foreign /\ p.Type = "Metadata" /\ ~Bad(p.Data) ->
                <<[p EXCEPT !.Time = @ % TimeMod, !.Data = IF @ = <<>> THEN <<EmptyMap>> ELSE @]>>
          [] item.foreign /\ p.gives # <<>> -> <<[Packet("Metadata", p) EXCEPT !.Data = p.gives]>>
          [] OTHER -> <<>>

ReturnedOf(items) == FlattenSeq([i \in 1..Len(items) |-> Returned(items[i])])

\* The reader returns the packets that were muxed, in order and none twice, with data, key
\* frame flag, time and the sign of the composition time intact, whatever foreign tags stand
\* between them and however far the writer is (Muxer.WritePacket against Demuxer.ReadPacket).
Demuxed == IsPrefix(got, ReturnedOf(sent))

\* Items that are in the file with all of their writes.
Complete == IF pend = <<>> THEN sent ELSE Front(sent)

\* Reading ends with io.EOF only after the packets of all complete tags, even where the file
\* ends within a tag, whose packet is left out; it ends otherwise only at a tag too short for
\* its own header, after the packets before it (ReadTag returns the error of Tag.Parse).
EndsAtTheEnd ==
    [][err # err' =>
          \/ err' = "EOF" /\ got = ReturnedOf(Complete)
          \/ err' = "short" /\ \E i \in 1..Len(sent) :
                /\ sent[i].foreign
                /\ Len(sent[i].pkt.Data) < HeaderLen(sent[i].pkt.Type, sent[i].pkt.Data)
                /\ got = ReturnedOf(SubSeq(sent, 1, i - 1)) ]_vars

\* Key frames among the first n packets read.
KeysRead(n) == Cardinality({i \in 1..n : IsKey(got[i])})

\* skipgop leaves out exactly the frames before the third key frame, and nothing is moved:
\* configurations, metadata and audio all stay where they were between the frames.  What it
\* writes can be decoded from its first frame on, which is a key frame (doSkipGop).
SkipsTwoGops ==
    /\ out = FlattenSeq([i \in 1..Len(got) |->
                            IF IsFrame(got[i]) /\ KeysRead(i) <= 2 THEN <<>> ELSE <<got[i]>>])
    /\ \A i \in 1..Len(out) : IsFrame(out[i]) => \E j \in 1..i : IsKey(out[j])
=============================================================================
