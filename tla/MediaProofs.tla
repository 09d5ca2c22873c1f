----------------------------- MODULE MediaProofs -----------------------------
(***************************************************************************)
(* What Flv and Framing promise.                                           *)
(*                                                                         *)
(* Flv, for every width of the time fields, all packets the muxer takes,   *)
(* any foreign tags and any number of them: the demuxer returns what the   *)
(* muxer was given, and where the file ends it has returned everything     *)
(* before.  First, one tag: what WriteTag writes of a packet, ReadTag      *)
(* makes the packet again.  Then the file: it is, with what is still to be *)
(* written, a file header and three writes per tag, and the reader stands  *)
(* in front of a tag and has returned the packets of all tags before that. *)
(* Last, what skipgop makes of these packets.                              *)
(*                                                                         *)
(* Framing, for every even number of byte values from four on, all         *)
(* integers, slices, units and buffers: fields are read as they were       *)
(* written and NAL units come back from a buffer.  First, loops: a         *)
(* recursive function is what its steps say.  Then integers and vectors of *)
(* slices.  Then the two ways to mark where units begin: a unit ends where *)
(* its length says, or in front of the next start code.  Last, SplitNALUs, *)
(* which has to tell the two from each other.                              *)
(***************************************************************************)
EXTENDS Flv, Framing, SeqFacts, FiniteSetTheorems

-----------------------------------------------------------------------------
(* Numbers                                                                 *)

LEMMA ModSmall ==
    ASSUME NEW m \in Nat \ {0}, NEW a \in 0..m - 1
    PROVE  a % m = a
OBVIOUS

\* A time survives being cut into two fields.
LEMMA TimeFields ==
    ASSUME NEW t \in 0..TimeMod - 1
    PROVE  /\ (t % LoMod) + ((t \div LoMod) % HiMod) * LoMod = t
           /\ t % LoMod \in Nat /\ (t \div LoMod) % HiMod \in Nat
<1>0. LoMod \in Nat \ {0} /\ HiMod \in Nat \ {0} /\ t \in Nat /\ t < LoMod * HiMod
  <2>1. LoMod \in Nat \ {0} /\ HiMod \in Nat \ {0}
        BY FlvAssumption
  <2>2. LoMod * HiMod \in Nat
        BY <2>1
  <2> QED  BY <2>1, <2>2 DEF TimeMod
<1>1. t = LoMod * (t \div LoMod) + (t % LoMod) /\ t % LoMod \in 0..LoMod - 1 /\ t \div LoMod \in Int
      BY <1>0, DivMod
<1>2. t \div LoMod >= 0
      BY <1>0, <1>1
<1>3. t \div LoMod < HiMod
      BY <1>0, <1>1, <1>2
<1>4. (t \div LoMod) % HiMod = t \div LoMod
      BY <1>0, <1>1, <1>2, <1>3, ModSmall
<1> QED  BY <1>0, <1>1, <1>2, <1>4

LEMMA TimeModPositive == TimeMod \in Nat \ {0}
BY FlvAssumption DEF TimeMod

\* So does a composition time in one, with its sign.
LEMMA CTimeField ==
    ASSUME NEW c \in -(CTimeMod \div 2)..CTimeMod \div 2 - 1
    PROVE  I24(c % CTimeMod) = c /\ c % CTimeMod \in Nat
<1> DEFINE h == CTimeMod \div 2
<1>1. CTimeMod = 2 * h /\ h \in Nat \ {0}
  <2>1. PICK n \in 1..CTimeMod : CTimeMod = 2 * n
        BY FlvAssumption
  <2>2. n \in Int
        OBVIOUS
  <2> QED  BY <2>1, <2>2
<1> HIDE DEF h
<1>2. c \in -h..h - 1
      BY DEF h
<1>3. CASE c >= 0
  <2>1. c % CTimeMod = c
        BY <1>1, <1>2, <1>3, ModSmall
  <2> QED  BY <1>1, <1>2, <1>3, <2>1 DEF I24, h
<1>4. CASE c < 0
  <2>1. c % CTimeMod = c + CTimeMod
    <3>1. CTimeMod \in Nat \ {0} /\ -CTimeMod <= c /\ c < 0 /\ c \in Int
          BY <1>1, <1>2, <1>4
    <3> HIDE DEF h
    <3> QED  BY <3>1
  <2> QED  BY <1>1, <1>2, <1>4, <2>1 DEF I24, h
<1>5. c >= 0 \/ c < 0
      BY <1>2, <1>1
<1> QED  BY <1>3, <1>4, <1>5

-----------------------------------------------------------------------------
(* Records                                                                 *)

\* A record with several fields replaced is one with one replaced after the other.
LEMMA TagFields ==
    ASSUME NEW type, NEW time, NEW d
    PROVE  [NoTag EXCEPT !.Type = type, !.Time = time, !.Data = d]
                = [Type |-> type, Format |-> 0, FrameType |-> 0, PacketType |-> 0, CTime |-> 0,
                   Time |-> time, Data |-> d]
<1> DEFINE e  == <<>>
           r1 == [NoTag EXCEPT !.Type = type]
           r2 == [r1 EXCEPT !.Time = time]
           r3 == [r2 EXCEPT !.Data = d]
<1>1. NoTag = [Type |-> 0, Format |-> 0, FrameType |-> 0, PacketType |-> 0, CTime |-> 0, Time |-> 0,
               Data |-> e]
      BY DEF NoTag
<1>2. [NoTag EXCEPT !.Type = type, !.Time = time, !.Data = d] = r3
      BY Zenon
<1> HIDE DEF e
<1>3. r1 = [Type |-> type, Format |-> 0, FrameType |-> 0, PacketType |-> 0, CTime |-> 0, Time |-> 0,
            Data |-> e]
      BY <1>1
<1> HIDE DEF r1
<1>4. r2 = [Type |-> type, Format |-> 0, FrameType |-> 0, PacketType |-> 0, CTime |-> 0,
            Time |-> time, Data |-> e]
      BY <1>3
<1> HIDE DEF r2
<1>5. r3 = [Type |-> type, Format |-> 0, FrameType |-> 0, PacketType |-> 0, CTime |-> 0,
            Time |-> time, Data |-> d]
      BY <1>4
<1> HIDE DEF r3
<1> QED  BY <1>2, <1>5

LEMMA FillerWrites ==
    ASSUME NEW d
    PROVE  LET write == [FileHeader EXCEPT !.k = "data"]
           IN  /\ [write EXCEPT !.body = d]
                        = [k |-> "data", type |-> 0, lo |-> 0, hi |-> 0, body |-> d]
               /\ [write EXCEPT !.k = "trailer"]
                        = [k |-> "trailer", type |-> 0, lo |-> 0, hi |-> 0, body |-> <<>>]
<1> DEFINE e == <<>>
           write == [FileHeader EXCEPT !.k = "data"]
<1>1. FileHeader = [k |-> "file", type |-> 0, lo |-> 0, hi |-> 0, body |-> e]
      BY DEF FileHeader
<1> HIDE DEF e
<1>2. write = [k |-> "data", type |-> 0, lo |-> 0, hi |-> 0, body |-> e]
      BY <1>1
<1> HIDE DEF write
<1>3. [write EXCEPT !.body = d] = [k |-> "data", type |-> 0, lo |-> 0, hi |-> 0, body |-> d]
      BY <1>2
<1>4. [write EXCEPT !.k = "trailer"] = [k |-> "trailer", type |-> 0, lo |-> 0, hi |-> 0, body |-> e]
      BY <1>2
<1>5. e = <<>>
      BY DEF e
<1> QED  BY <1>3, <1>4, <1>5 DEF write

\* What Tag.Parse makes of a tag with a whole header.
LEMMA ParsedAudio ==
    ASSUME NEW time, NEW body
    PROVE  Parse(TAG_AUDIO, time, body)
                = [Type |-> TAG_AUDIO, Format |-> body[1], FrameType |-> 0,
                   PacketType |-> IF HeaderLen(TAG_AUDIO, body) = 2 THEN body[2] ELSE 0,
                   CTime |-> 0, Time |-> time,
                   Data |-> SubSeq(body, HeaderLen(TAG_AUDIO, body) + 1, Len(body))]
<1> DEFINE n  == HeaderLen(TAG_AUDIO, body)
           d  == SubSeq(body, n + 1, Len(body))
           t0 == [NoTag EXCEPT !.Type = TAG_AUDIO, !.Time = time, !.Data = d]
           t1 == [t0 EXCEPT !.Format = body[1]]
           v2 == IF n = 2 THEN body[2] ELSE 0
           t2 == [t1 EXCEPT !.PacketType = v2]
<1>1. TAG_AUDIO # TAG_VIDEO
      BY DEF TAG_AUDIO, TAG_VIDEO
<1>2. Parse(TAG_AUDIO, time, body) = [t0 EXCEPT !.Format = body[1], !.PacketType = v2]
      BY <1>1 DEF Parse
<1>3. [t0 EXCEPT !.Format = body[1], !.PacketType = v2] = t2
      BY Zenon
<1>4. t0 = [Type |-> TAG_AUDIO, Format |-> 0, FrameType |-> 0,
            PacketType |-> 0, CTime |-> 0, Time |-> time,
            Data |-> d]
      BY TagFields
<1> HIDE DEF d, v2, t0
<1>5. t1 = [Type |-> TAG_AUDIO, Format |-> body[1], FrameType |-> 0,
            PacketType |-> 0, CTime |-> 0, Time |-> time,
            Data |-> d]
      BY <1>4
<1> HIDE DEF t1
<1>6. t2 = [Type |-> TAG_AUDIO, Format |-> body[1], FrameType |-> 0,
            PacketType |-> v2, CTime |-> 0, Time |-> time,
            Data |-> d]
      BY <1>5
<1> HIDE DEF t2
<1> QED  BY <1>2, <1>3, <1>6 DEF d, n, v2

LEMMA ParseAudio ==
    ASSUME NEW time, NEW body, HeaderLen(TAG_AUDIO, body) = 2
    PROVE  Parse(TAG_AUDIO, time, body)
                = [Type |-> TAG_AUDIO, Format |-> body[1], FrameType |-> 0,
                   PacketType |-> body[2], CTime |-> 0, Time |-> time,
                   Data |-> SubSeq(body, 3, Len(body))]
<1> DEFINE y == IF HeaderLen(TAG_AUDIO, body) = 2 THEN body[2] ELSE 0
           d == SubSeq(body, HeaderLen(TAG_AUDIO, body) + 1, Len(body))
<1>1. Parse(TAG_AUDIO, time, body)
            = [Type |-> TAG_AUDIO, Format |-> body[1], FrameType |-> 0, PacketType |-> y,
               CTime |-> 0, Time |-> time, Data |-> d]
      BY ParsedAudio
<1>2. y = body[2] /\ d = SubSeq(body, 3, Len(body))
  <2>1. 2 + 1 = 3
        OBVIOUS
  <2> QED  BY <2>1
<1> HIDE DEF y, d
<1> QED  BY <1>1, <1>2

LEMMA ParsedVideo ==
    ASSUME NEW time, NEW body
    PROVE  Parse(TAG_VIDEO, time, body)
                = [Type |-> TAG_VIDEO, Format |-> body[2], FrameType |-> body[1],
                   PacketType |-> IF HeaderLen(TAG_VIDEO, body) = 4 THEN body[3] ELSE 0,
                   CTime |-> IF HeaderLen(TAG_VIDEO, body) = 4 THEN I24(body[4]) ELSE 0, Time |-> time,
                   Data |-> SubSeq(body, HeaderLen(TAG_VIDEO, body) + 1, Len(body))]
<1> DEFINE n  == HeaderLen(TAG_VIDEO, body)
           d  == SubSeq(body, n + 1, Len(body))
           t0 == [NoTag EXCEPT !.Type = TAG_VIDEO, !.Time = time, !.Data = d]
           t1 == [t0 EXCEPT !.FrameType = body[1]]
           t2 == [t1 EXCEPT !.Format = body[2]]
           v3 == IF n = 4 THEN body[3] ELSE 0
           t3 == [t2 EXCEPT !.PacketType = v3]
           v4 == IF n = 4 THEN I24(body[4]) ELSE 0
           t4 == [t3 EXCEPT !.CTime = v4]
<1>1. TAG_VIDEO # TAG_AUDIO
      BY DEF TAG_AUDIO, TAG_VIDEO
<1>2. Parse(TAG_VIDEO, time, body) = [t0 EXCEPT !.FrameType = body[1], !.Format = body[2], !.PacketType = v3, !.CTime = v4]
      BY <1>1 DEF Parse
<1>3. [t0 EXCEPT !.FrameType = body[1], !.Format = body[2], !.PacketType = v3, !.CTime = v4] = t4
      BY Zenon
<1>4. t0 = [Type |-> TAG_VIDEO, Format |-> 0, FrameType |-> 0,
            PacketType |-> 0, CTime |-> 0, Time |-> time,
            Data |-> d]
      BY TagFields
<1> HIDE DEF d, v3, v4, t0
<1>5. t1 = [Type |-> TAG_VIDEO, Format |-> 0, FrameType |-> body[1],
            PacketType |-> 0, CTime |-> 0, Time |-> time,
            Data |-> d]
      BY <1>4
<1> HIDE DEF t1
<1>6. t2 = [Type |-> TAG_VIDEO, Format |-> body[2], FrameType |-> body[1],
            PacketType |-> 0, CTime |-> 0, Time |-> time,
            Data |-> d]
      BY <1>5
<1> HIDE DEF t2
<1>7. t3 = [Type |-> TAG_VIDEO, Format |-> body[2], FrameType |-> body[1],
            PacketType |-> v3, CTime |-> 0, Time |-> time,
            Data |-> d]
      BY <1>6
<1> HIDE DEF t3
<1>8. t4 = [Type |-> TAG_VIDEO, Format |-> body[2], FrameType |-> body[1],
            PacketType |-> v3, CTime |-> v4, Time |-> time,
            Data |-> d]
      BY <1>7
<1> HIDE DEF t4
<1> QED  BY <1>2, <1>3, <1>8 DEF d, n, v3, v4

LEMMA ParseVideo ==
    ASSUME NEW time, NEW body, HeaderLen(TAG_VIDEO, body) = 4
    PROVE  Parse(TAG_VIDEO, time, body)
                = [Type |-> TAG_VIDEO, Format |-> body[2], FrameType |-> body[1],
                   PacketType |-> body[3], CTime |-> I24(body[4]), Time |-> time,
                   Data |-> SubSeq(body, 5, Len(body))]
<1> DEFINE y == IF HeaderLen(TAG_VIDEO, body) = 4 THEN body[3] ELSE 0
           c == IF HeaderLen(TAG_VIDEO, body) = 4 THEN I24(body[4]) ELSE 0
           d == SubSeq(body, HeaderLen(TAG_VIDEO, body) + 1, Len(body))
<1>1. Parse(TAG_VIDEO, time, body)
            = [Type |-> TAG_VIDEO, Format |-> body[2], FrameType |-> body[1], PacketType |-> y,
               CTime |-> c, Time |-> time, Data |-> d]
      BY ParsedVideo
<1>2. y = body[3] /\ c = I24(body[4]) /\ d = SubSeq(body, 5, Len(body))
  <2>1. 4 + 1 = 5
        OBVIOUS
  <2> QED  BY <2>1
<1> HIDE DEF y, c, d
<1> QED  BY <1>1, <1>2

-----------------------------------------------------------------------------
(* One tag                                                                 *)

\* What may come of reading: packets, with the time of a tag.
PacketTypes == {"AAC", "AACDecoderConfig", "H264", "H264DecoderConfig", "H264SPSPPSNALU", "Metadata"}
Pkts == [Type : PacketTypes, IsKeyFrame : BOOLEAN, Time : 0..TimeMod - 1, CTime : Int, Data : Seq(Nat)]

\* What may be in a file.
Writable == [k : {"file", "header", "data", "trailer"}, type : Nat, lo : Nat, hi : Nat, body : Seq(Int)]

\* What may be muxed, and what Mux makes of it.
Items == [foreign : {FALSE}, pkt : Packets] \union [foreign : {TRUE}, pkt : Foreign]
Tagged(item) == item.foreign \/ Tags(item.pkt) # <<>>
Writes(item) ==
    IF item.foreign THEN WriteTag(item.pkt, <<>>)
    ELSE FlattenSeq([i \in 1..Len(Tags(item.pkt)) |->
                        WriteTag(Tags(item.pkt)[i], FillHeader(Tags(item.pkt)[i]))])

\* The tags the muxer makes.
MuxTags ==
    [Type : {TAG_AUDIO}, Format : {SOUND_AAC}, FrameType : {0}, PacketType : {AAC_SEQHDR, AAC_RAW},
     CTime : {0}, Time : 0..TimeMod - 1, Data : Seq(Nat)]
    \union
    [Type : {TAG_VIDEO}, Format : {VIDEO_H264}, FrameType : {FRAME_KEY, FRAME_INTER},
     PacketType : {AVC_SEQHDR, AVC_NALU}, CTime : -(CTimeMod \div 2)..CTimeMod \div 2 - 1,
     Time : 0..TimeMod - 1, Data : Seq(Nat)]
    \union
    [Type : {TAG_AMF0}, Format : {0}, FrameType : {0}, PacketType : {0}, CTime : {0},
     Time : 0..TimeMod - 1, Data : Seq(Nat)]

\* The numbers named in Flv.
USE DEF TAG_AUDIO, TAG_VIDEO, TAG_AMF3, TAG_AMF0, SOUND_AAC, VIDEO_H264, VIDEO_H265, AAC_SEQHDR, AAC_RAW,
        AVC_SEQHDR, AVC_NALU, FRAME_KEY, FRAME_INTER

\* The three writes of a tag.
LEMMA ThreeWrites ==
    ASSUME NEW tag, NEW header,
           tag.Time \in 0..TimeMod - 1, tag.Type \in Nat, tag.Data \in Seq(Nat), header \in Seq(Nat)
    PROVE  /\ WriteTag(tag, header) \in Seq(Writable) /\ Len(WriteTag(tag, header)) = 3
           /\ WriteTag(tag, header)[1].k = "header" /\ WriteTag(tag, header)[1].type = tag.Type
           /\ WriteTag(tag, header)[1].body = header
           /\ WriteTag(tag, header)[2].body = tag.Data
           /\ TagTime(WriteTag(tag, header)[1]) = tag.Time
           /\ \A i \in 1..3 : WriteTag(tag, header)[i].k # "file"
<1> DEFINE write == [FileHeader EXCEPT !.k = "data"]
           a == [k |-> "header", type |-> tag.Type, lo |-> tag.Time % LoMod,
                 hi |-> (tag.Time \div LoMod) % HiMod, body |-> header]
           b == [write EXCEPT !.body = tag.Data]
           c == [write EXCEPT !.k = "trailer"]
           w == <<a, b, c>>
<1>1. WriteTag(tag, header) = w
      BY DEF WriteTag
<1>2. a \in Writable
      BY TimeFields DEF Writable
<1>3. b \in Writable /\ b.k = "data" /\ b.body = tag.Data
  <2>1. b = [k |-> "data", type |-> 0, lo |-> 0, hi |-> 0, body |-> tag.Data]
        BY FillerWrites
  <2> HIDE DEF b
  <2> QED  BY <2>1 DEF Writable
<1>4. c \in Writable /\ c.k = "trailer"
  <2> DEFINE e == <<>>
  <2>1. e \in Seq(Nat)
        OBVIOUS
  <2>2. c = [k |-> "trailer", type |-> 0, lo |-> 0, hi |-> 0, body |-> e]
        BY FillerWrites
  <2> HIDE DEF c, e
  <2> QED  BY <2>1, <2>2 DEF Writable
<1>5. TagTime(a) = tag.Time
      BY TimeFields DEF TagTime
<1>6. a.k = "header" /\ a.type = tag.Type /\ a.body = header
      OBVIOUS
<1> HIDE DEF a, b, c
<1>7. w \in Seq(Writable) /\ Len(w) = 3 /\ w[1] = a /\ w[2] = b /\ w[3] = c
      BY <1>2, <1>3, <1>4
<1>8. \A i \in 1..3 : w[i].k # "file"
  <2>1. a.k # "file" /\ b.k # "file" /\ c.k # "file"
        BY <1>3, <1>4, <1>6
  <2> HIDE DEF w
  <2> QED  BY <1>7, <2>1
<1> HIDE DEF w
<1> QED  BY <1>1, <1>3, <1>5, <1>6, <1>7, <1>8

\* What the muxer writes of a tag, the demuxer makes the tag again.
LEMMA TagReadBack ==
    ASSUME NEW tag \in MuxTags
    PROVE  LET header == FillHeader(tag)
               body   == header \o tag.Data
           IN  /\ header \in Seq(Nat) /\ tag.Type \in Nat
               /\ body \in Seq(Nat)
               /\ HeaderLen(tag.Type, body) \in Nat
               /\ ~(Len(body) < HeaderLen(tag.Type, body))
               /\ Parse(tag.Type, tag.Time, body) = tag
<1> DEFINE header == FillHeader(tag)
           body == header \o tag.Data
           n == Len(header)
<1>1. CASE tag.Type = TAG_AUDIO
  <2>1. /\ tag = [Type |-> TAG_AUDIO, Format |-> SOUND_AAC, FrameType |-> 0,
                  PacketType |-> tag.PacketType, CTime |-> 0, Time |-> tag.Time, Data |-> tag.Data]
        /\ tag.PacketType \in Nat /\ tag.Data \in Seq(Nat)
        BY <1>1 DEF MuxTags
  <2>2. header = <<SOUND_AAC, tag.PacketType>>
        BY <1>1, <2>1 DEF FillHeader
  <2>3. header \in Seq(Nat) /\ n = 2 /\ header[1] = SOUND_AAC /\ header[2] = tag.PacketType
        BY <2>1, <2>2
  <2> HIDE DEF header
  <2>a. tag.Data \in Seq(Nat) /\ header \in Seq(Nat)
        BY <2>1, <2>3
  <2>4. /\ body \in Seq(Nat) /\ Len(body) = n + Len(tag.Data) /\ SubSeq(body, n + 1, Len(body)) = tag.Data
        /\ \A i \in 1..n : body[i] = header[i]
        BY <2>a, ConcatParts
  <2> HIDE DEF body, n
  <2>5. Len(tag.Data) \in Nat /\ Len(body) >= 2 /\ body # <<>> /\ body[1] = SOUND_AAC
        /\ body[2] = tag.PacketType
        BY <2>1, <2>3, <2>4
  <2>6. HeaderLen(tag.Type, body) = 2
        BY <1>1, <2>5 DEF HeaderLen
  <2>7. Parse(tag.Type, tag.Time, body)
            = [Type |-> TAG_AUDIO, Format |-> body[1], FrameType |-> 0, PacketType |-> body[2],
               CTime |-> 0, Time |-> tag.Time, Data |-> SubSeq(body, 3, Len(body))]
        BY <1>1, <2>6, ParseAudio
  <2>8. Parse(tag.Type, tag.Time, body) = tag
        BY <2>1, <2>3, <2>4, <2>5, <2>7
  <2> QED  BY <1>1, <2>3, <2>4, <2>5, <2>6, <2>8 DEF header, body
<1>2. CASE tag.Type = TAG_VIDEO
  <2> DEFINE c == tag.CTime % CTimeMod
  <2>1. /\ tag = [Type |-> TAG_VIDEO, Format |-> VIDEO_H264, FrameType |-> tag.FrameType,
                  PacketType |-> tag.PacketType, CTime |-> tag.CTime, Time |-> tag.Time,
                  Data |-> tag.Data]
        /\ tag.PacketType \in Nat /\ tag.FrameType \in Nat /\ tag.Data \in Seq(Nat)
        /\ tag.CTime \in -(CTimeMod \div 2)..CTimeMod \div 2 - 1
        BY <1>2 DEF MuxTags
  <2>2. I24(c) = tag.CTime /\ c \in Nat
        BY <2>1, CTimeField
  <2>3. header = <<tag.FrameType, VIDEO_H264, tag.PacketType, c>>
        BY <1>2, <2>1 DEF FillHeader
  <2> HIDE DEF c
  <2>4. /\ header \in Seq(Nat) /\ n = 4
        /\ header[1] = tag.FrameType /\ header[2] = VIDEO_H264
        /\ header[3] = tag.PacketType /\ header[4] = c
        BY <2>1, <2>2, <2>3
  <2> HIDE DEF header
  <2>a. tag.Data \in Seq(Nat) /\ header \in Seq(Nat)
        BY <2>1, <2>4
  <2>5. /\ body \in Seq(Nat) /\ Len(body) = n + Len(tag.Data) /\ SubSeq(body, n + 1, Len(body)) = tag.Data
        /\ \A i \in 1..n : body[i] = header[i]
        BY <2>a, ConcatParts
  <2> HIDE DEF body, n
  <2>6. /\ Len(tag.Data) \in Nat /\ Len(body) >= 4
        /\ body[1] = tag.FrameType /\ body[2] = VIDEO_H264 /\ body[3] = tag.PacketType /\ body[4] = c
    <3>1. Len(tag.Data) \in Nat /\ Len(body) >= 4
          BY <2>1, <2>4, <2>5
    <3>2. 1 \in 1..n /\ 2 \in 1..n /\ 3 \in 1..n /\ 4 \in 1..n
          BY <2>4
    <3>3. body[1] = header[1] /\ body[2] = header[2] /\ body[3] = header[3] /\ body[4] = header[4]
          BY <2>5, <3>2
    <3> QED  BY <2>4, <3>1, <3>3
  <2>7. HeaderLen(tag.Type, body) = 4
        BY <1>2, <2>6 DEF HeaderLen
  <2>8. Parse(tag.Type, tag.Time, body)
            = [Type |-> TAG_VIDEO, Format |-> body[2], FrameType |-> body[1], PacketType |-> body[3],
               CTime |-> I24(body[4]), Time |-> tag.Time, Data |-> SubSeq(body, 5, Len(body))]
        BY <1>2, <2>7, ParseVideo
  <2>9. Parse(tag.Type, tag.Time, body) = tag
        BY <2>1, <2>2, <2>4, <2>5, <2>6, <2>8
  <2> QED  BY <1>2, <2>4, <2>5, <2>6, <2>7, <2>9 DEF header, body
<1>3. CASE tag.Type = TAG_AMF0
  <2>1. /\ tag = [Type |-> TAG_AMF0, Format |-> 0, FrameType |-> 0, PacketType |-> 0, CTime |-> 0,
                  Time |-> tag.Time, Data |-> tag.Data]
        /\ tag.Data \in Seq(Nat)
        BY <1>3 DEF MuxTags
  <2>2. header = <<>>
        BY <1>3 DEF FillHeader
  <2>3. header \in Seq(Nat) /\ n = 0
        BY <2>2
  <2> HIDE DEF header
  <2>4. /\ body \in Seq(Nat) /\ Len(body) = n + Len(tag.Data) /\ SubSeq(body, n + 1, Len(body)) = tag.Data
        BY <2>1, <2>3, ConcatParts
  <2> HIDE DEF body, n
  <2>5. HeaderLen(tag.Type, body) = 0 /\ Len(body) \in Nat
        BY <1>3, <2>4 DEF HeaderLen
  <2>6. Parse(tag.Type, tag.Time, body)
            = [NoTag EXCEPT !.Type = tag.Type, !.Time = tag.Time, !.Data = tag.Data]
    <3>1. tag.Type # TAG_AUDIO /\ tag.Type # TAG_VIDEO /\ 0 + 1 = 1
          BY <1>3
    <3>2. SubSeq(body, 0 + 1, Len(body)) = tag.Data
          BY <2>3, <2>4
    <3> QED  BY <2>5, <3>1, <3>2 DEF Parse
  <2>7. Parse(tag.Type, tag.Time, body) = tag
    <3>1. [NoTag EXCEPT !.Type = tag.Type, !.Time = tag.Time, !.Data = tag.Data]
            = [Type |-> tag.Type, Format |-> 0, FrameType |-> 0, PacketType |-> 0, CTime |-> 0,
               Time |-> tag.Time, Data |-> tag.Data]
          BY TagFields
    <3>2. tag = [Type |-> tag.Type, Format |-> 0, FrameType |-> 0, PacketType |-> 0, CTime |-> 0,
                 Time |-> tag.Time, Data |-> tag.Data]
          BY <1>3, <2>1
    <3> QED  BY <2>6, <3>1, <3>2
  <2> QED  BY <1>3, <2>3, <2>4, <2>5, <2>7 DEF header, body
<1>4. tag.Type \in {TAG_AUDIO, TAG_VIDEO, TAG_AMF0}
      BY DEF MuxTags
<1> QED  BY <1>1, <1>2, <1>3, <1>4

\* The tags of the muxer, field by field.
LEMMA AacFields ==
    ASSUME NEW type, NEW p
    PROVE  Aac(type, p)
                = [Type |-> TAG_AUDIO, Format |-> SOUND_AAC, FrameType |-> 0,
                   PacketType |-> type, CTime |-> 0, Time |-> 0,
                   Data |-> p.Data]
<1> DEFINE e  == <<>>
           d  == p.Data
           t1 == [NoTag EXCEPT !.Type = TAG_AUDIO]
           t2 == [t1 EXCEPT !.Format = SOUND_AAC]
           t3 == [t2 EXCEPT !.PacketType = type]
           t4 == [t3 EXCEPT !.Data = d]
<1>1. NoTag = [Type |-> 0, Format |-> 0, FrameType |-> 0,
               PacketType |-> 0, CTime |-> 0, Time |-> 0,
               Data |-> e]
      BY DEF NoTag
<1>2. Aac(type, p) = [NoTag EXCEPT !.Type = TAG_AUDIO, !.Format = SOUND_AAC, !.PacketType = type, !.Data = d]
      BY DEF Aac
<1>3. [NoTag EXCEPT !.Type = TAG_AUDIO, !.Format = SOUND_AAC, !.PacketType = type, !.Data = d] = t4
      BY Zenon
<1> HIDE DEF e, d
<1>4. t1 = [Type |-> TAG_AUDIO, Format |-> 0, FrameType |-> 0,
               PacketType |-> 0, CTime |-> 0, Time |-> 0,
               Data |-> e]
      BY <1>1
<1> HIDE DEF t1
<1>5. t2 = [Type |-> TAG_AUDIO, Format |-> SOUND_AAC, FrameType |-> 0,
               PacketType |-> 0, CTime |-> 0, Time |-> 0,
               Data |-> e]
      BY <1>4
<1> HIDE DEF t2
<1>6. t3 = [Type |-> TAG_AUDIO, Format |-> SOUND_AAC, FrameType |-> 0,
               PacketType |-> type, CTime |-> 0, Time |-> 0,
               Data |-> e]
      BY <1>5
<1> HIDE DEF t3
<1>7. t4 = [Type |-> TAG_AUDIO, Format |-> SOUND_AAC, FrameType |-> 0,
               PacketType |-> type, CTime |-> 0, Time |-> 0,
               Data |-> d]
      BY <1>6
<1> HIDE DEF t4
<1> QED  BY <1>2, <1>3, <1>7 DEF d

LEMMA AvcFields ==
    ASSUME NEW type, NEW key, NEW p
    PROVE  Avc(type, key, p)
                = [Type |-> TAG_VIDEO, Format |-> VIDEO_H264, FrameType |-> IF key THEN FRAME_KEY ELSE FRAME_INTER,
                   PacketType |-> type, CTime |-> 0, Time |-> p.Time % TimeMod,
                   Data |-> p.Data]
<1> DEFINE e  == <<>>
           f  == IF key THEN FRAME_KEY ELSE FRAME_INTER
           t  == p.Time % TimeMod
           d  == p.Data
           t1 == [NoTag EXCEPT !.Type = TAG_VIDEO]
           t2 == [t1 EXCEPT !.Format = VIDEO_H264]
           t3 == [t2 EXCEPT !.PacketType = type]
           t4 == [t3 EXCEPT !.FrameType = f]
           t5 == [t4 EXCEPT !.Time = t]
           t6 == [t5 EXCEPT !.Data = d]
<1>1. NoTag = [Type |-> 0, Format |-> 0, FrameType |-> 0,
               PacketType |-> 0, CTime |-> 0, Time |-> 0,
               Data |-> e]
      BY DEF NoTag
<1>2. Avc(type, key, p) = [NoTag EXCEPT !.Type = TAG_VIDEO, !.Format = VIDEO_H264, !.PacketType = type, !.FrameType = f, !.Time = t, !.Data = d]
      BY DEF Avc
<1>3. [NoTag EXCEPT !.Type = TAG_VIDEO, !.Format = VIDEO_H264, !.PacketType = type, !.FrameType = f, !.Time = t, !.Data = d] = t6
      BY Zenon
<1> HIDE DEF e, f, t, d
<1>4. t1 = [Type |-> TAG_VIDEO, Format |-> 0, FrameType |-> 0,
               PacketType |-> 0, CTime |-> 0, Time |-> 0,
               Data |-> e]
      BY <1>1
<1> HIDE DEF t1
<1>5. t2 = [Type |-> TAG_VIDEO, Format |-> VIDEO_H264, FrameType |-> 0,
               PacketType |-> 0, CTime |-> 0, Time |-> 0,
               Data |-> e]
      BY <1>4
<1> HIDE DEF t2
<1>6. t3 = [Type |-> TAG_VIDEO, Format |-> VIDEO_H264, FrameType |-> 0,
               PacketType |-> type, CTime |-> 0, Time |-> 0,
               Data |-> e]
      BY <1>5
<1> HIDE DEF t3
<1>7. t4 = [Type |-> TAG_VIDEO, Format |-> VIDEO_H264, FrameType |-> f,
               PacketType |-> type, CTime |-> 0, Time |-> 0,
               Data |-> e]
      BY <1>6
<1> HIDE DEF t4
<1>8. t5 = [Type |-> TAG_VIDEO, Format |-> VIDEO_H264, FrameType |-> f,
               PacketType |-> type, CTime |-> 0, Time |-> t,
               Data |-> e]
      BY <1>7
<1> HIDE DEF t5
<1>9. t6 = [Type |-> TAG_VIDEO, Format |-> VIDEO_H264, FrameType |-> f,
               PacketType |-> type, CTime |-> 0, Time |-> t,
               Data |-> d]
      BY <1>8
<1> HIDE DEF t6
<1> QED  BY <1>2, <1>3, <1>9 DEF f, t, d

\* A packet, field by field.
LEMMA PacketFields ==
    ASSUME NEW p \in Packets
    PROVE  /\ p = [Type |-> p.Type, IsKeyFrame |-> p.IsKeyFrame, Time |-> p.Time, CTime |-> p.CTime,
                   Data |-> p.Data]
           /\ p.Type \in PacketTypes /\ p.IsKeyFrame \in BOOLEAN /\ p.Data \in Seq(Nat)
           /\ p.Time % TimeMod \in 0..TimeMod - 1
           /\ p.CTime \in -(CTimeMod \div 2)..CTimeMod \div 2 - 1
           /\ p.Type # "H264" => p.IsKeyFrame = FALSE /\ p.CTime = 0
<1>1. p.Time \in Nat
      BY PacketAssumption
<1>2. p.Time % TimeMod \in 0..TimeMod - 1
  <2> DEFINE t == p.Time  m == TimeMod
  <2>1. t \in Int /\ m \in Nat \ {0}
        BY <1>1, TimeModPositive
  <2> HIDE DEF t, m
  <2>2. t % m \in 0..m - 1
        BY <2>1, DivMod
  <2> QED  BY <2>2 DEF t, m
<1>3. p.Type # "H264" => p.IsKeyFrame = FALSE /\ p.CTime = 0
      BY PacketAssumption
<1> QED  BY <1>2, <1>3, PacketAssumption DEF PacketTypes

LEMMA Retimed ==
    ASSUME NEW p \in Packets, NEW t
    PROVE  [p EXCEPT !.Time = t] = [Type |-> p.Type, IsKeyFrame |-> p.IsKeyFrame, Time |-> t,
                                    CTime |-> p.CTime, Data |-> p.Data]
<1> DEFINE a == p.Type  k == p.IsKeyFrame  u == p.Time  c == p.CTime  d == p.Data
<1>1. p = [Type |-> a, IsKeyFrame |-> k, Time |-> u, CTime |-> c, Data |-> d]
      BY PacketFields
<1> HIDE DEF a, k, u, c, d
<1>2. [p EXCEPT !.Time = t] = [Type |-> a, IsKeyFrame |-> k, Time |-> t, CTime |-> c, Data |-> d]
      BY <1>1
<1> QED  BY <1>2 DEF a, k, u, c, d

\* What the muxer makes of a packet: nothing, or one tag of which the demuxer makes the packet again.
OneTag(p) ==
    \E tag \in MuxTags :
        /\ Tags(p) = <<tag>>
        /\ FromTag(tag) = Returned([foreign |-> FALSE, pkt |-> p])
        /\ FromTag(tag) \in Seq(Pkts) /\ Len(FromTag(tag)) = 1

LEMMA CTimeZero ==
    /\ CTimeMod \div 2 \in Int
    /\ 0 \in -(CTimeMod \div 2)..CTimeMod \div 2 - 1
<1>1. PICK n \in 1..CTimeMod : CTimeMod = 2 * n
      BY FlvAssumption
<1>2. CTimeMod \div 2 = n /\ n >= 1 /\ n \in Int
      BY <1>1
<1> QED  BY <1>2

LEMMA RawAudio ==
    ASSUME NEW p \in Packets, p.Type = "AAC"
    PROVE  OneTag(p)
<1> DEFINE d == p.Data
           t == p.Time % TimeMod
           item == [foreign |-> FALSE, pkt |-> p]
           tag == [Type |-> TAG_AUDIO, Format |-> SOUND_AAC, FrameType |-> 0, PacketType |-> AAC_RAW,
                   CTime |-> 0, Time |-> t, Data |-> d]
           pkt == [Type |-> "AAC", IsKeyFrame |-> FALSE, Time |-> t, CTime |-> 0, Data |-> d]
<1>1. /\ d \in Seq(Nat) /\ t \in 0..TimeMod - 1
      /\ p.IsKeyFrame = FALSE /\ p.CTime = 0
  <2>1. p.IsKeyFrame = FALSE /\ p.CTime = 0
        BY PacketFields
  <2>2. d \in Seq(Nat) /\ p.Time % TimeMod \in 0..TimeMod - 1
        BY PacketFields
  <2>3. 0 \in 0..TimeMod - 1
        BY TimeModPositive
  <2> QED  BY <2>1, <2>2, <2>3
<1>2. item.foreign = FALSE /\ item.pkt = p
      OBVIOUS
<1>3. Tags(p) = <<tag>>
  <2>1. Aac(AAC_RAW, p) = [Type |-> TAG_AUDIO, Format |-> SOUND_AAC, FrameType |-> 0,
                           PacketType |-> AAC_RAW, CTime |-> 0, Time |-> 0, Data |-> d]
        BY AacFields
  <2> HIDE DEF t, d
  <2>2. [Aac(AAC_RAW, p) EXCEPT !.Time = t] = tag
        BY <2>1
  <2>3. Tags(p) = <<[Aac(AAC_RAW, p) EXCEPT !.Time = t]>>
        BY Zenon DEF Tags, t
  <2> HIDE DEF tag
  <2> QED  BY <2>2, <2>3
<1>4. tag \in MuxTags
  <2> HIDE DEF d, t
  <2> QED  BY <1>1 DEF MuxTags
<1>5. FromTag(tag) = <<pkt>>
  <2> HIDE DEF d, t
  <2>1. Packet("AAC", tag) = pkt
        BY DEF Packet
  <2>2. /\ tag.Type \notin {TAG_AMF0, TAG_AMF3} /\ tag.Type # TAG_VIDEO /\ tag.Type = TAG_AUDIO
        /\ tag.Format = SOUND_AAC /\ tag.PacketType # AAC_SEQHDR /\ tag.PacketType = AAC_RAW
        OBVIOUS
  <2> HIDE DEF tag, pkt
  <2>3. FromTag(tag) = <<Packet("AAC", tag)>>
        BY <2>2 DEF FromTag
  <2> QED  BY <2>1, <2>3
<1>6. Returned(item) = <<pkt>>
  <2>1. [p EXCEPT !.Time = p.Time % TimeMod] = [Type |-> p.Type, IsKeyFrame |-> p.IsKeyFrame, Time |-> t,
                                  CTime |-> p.CTime, Data |-> p.Data]
        BY Retimed
  <2>2. [p EXCEPT !.Time = p.Time % TimeMod] = pkt
        BY <1>1, <2>1
  <2> HIDE DEF t, pkt, item
  <2>3. Returned(item) = <<[p EXCEPT !.Time = p.Time % TimeMod]>>
        BY <1>2 DEF Returned
  <2> QED  BY <2>2, <2>3
<1>7. pkt \in Pkts
  <2> HIDE DEF d, t
  <2>1. 0 \in Int
        BY <1>1, CTimeZero
  <2> QED  BY <1>1, <2>1 DEF Pkts, PacketTypes
<1> HIDE DEF tag, pkt
<1>8. <<pkt>> \in Seq(Pkts) /\ Len(<<pkt>>) = 1
      BY <1>7
<1> QED  BY <1>3, <1>4, <1>5, <1>6, <1>8 DEF OneTag, item

LEMMA AudioConfig ==
    ASSUME NEW p \in Packets, p.Type = "AACDecoderConfig"
    PROVE  OneTag(p)
<1> DEFINE d == p.Data
           t == 0
           item == [foreign |-> FALSE, pkt |-> p]
           tag == [Type |-> TAG_AUDIO, Format |-> SOUND_AAC, FrameType |-> 0, PacketType |-> AAC_SEQHDR,
                   CTime |-> 0, Time |-> t, Data |-> d]
           pkt == [Type |-> "AACDecoderConfig", IsKeyFrame |-> FALSE, Time |-> t, CTime |-> 0, Data |-> d]
<1>1. /\ d \in Seq(Nat) /\ t \in 0..TimeMod - 1
      /\ p.IsKeyFrame = FALSE /\ p.CTime = 0
  <2>1. p.IsKeyFrame = FALSE /\ p.CTime = 0
        BY PacketFields
  <2>2. d \in Seq(Nat) /\ p.Time % TimeMod \in 0..TimeMod - 1
        BY PacketFields
  <2>3. 0 \in 0..TimeMod - 1
        BY TimeModPositive
  <2> QED  BY <2>1, <2>2, <2>3
<1>2. item.foreign = FALSE /\ item.pkt = p
      OBVIOUS
<1>3. Tags(p) = <<tag>>
  <2>1. Aac(AAC_SEQHDR, p) = tag
        BY AacFields
  <2>2. Tags(p) = <<Aac(AAC_SEQHDR, p)>>
        BY Zenon DEF Tags
  <2> HIDE DEF tag
  <2> QED  BY <2>1, <2>2
<1>4. tag \in MuxTags
  <2> HIDE DEF d, t
  <2> QED  BY <1>1 DEF MuxTags
<1>5. FromTag(tag) = <<pkt>>
  <2> HIDE DEF d, t
  <2>1. [Packet("AACDecoderConfig", tag) EXCEPT !.Time = 0] = pkt
    <3> DEFINE p0 == Packet("AACDecoderConfig", tag)
               b  == FALSE
    <3>1. p0 = [Type |-> "AACDecoderConfig", IsKeyFrame |-> b, Time |-> t, CTime |-> 0, Data |-> d]
          BY DEF Packet
    <3>2. pkt = [Type |-> "AACDecoderConfig", IsKeyFrame |-> b, Time |-> t, CTime |-> 0, Data |-> d]
          OBVIOUS
    <3> HIDE DEF p0, b, pkt
    <3>3. [p0 EXCEPT !.Time = t] = pkt
          BY <3>1, <3>2
    <3> QED  BY <3>3 DEF p0, t
  <2>2. /\ tag.Type \notin {TAG_AMF0, TAG_AMF3} /\ tag.Type # TAG_VIDEO /\ tag.Type = TAG_AUDIO
        /\ tag.Format = SOUND_AAC /\ tag.PacketType = AAC_SEQHDR /\ tag.PacketType # AAC_RAW
        OBVIOUS
  <2> HIDE DEF tag, pkt
  <2>3. FromTag(tag) = <<[Packet("AACDecoderConfig", tag) EXCEPT !.Time = 0]>>
        BY <2>2 DEF FromTag
  <2> QED  BY <2>1, <2>3
<1>6. Returned(item) = <<pkt>>
  <2>1. [p EXCEPT !.Time = 0] = [Type |-> p.Type, IsKeyFrame |-> p.IsKeyFrame, Time |-> t,
                                  CTime |-> p.CTime, Data |-> p.Data]
        BY Retimed
  <2>2. [p EXCEPT !.Time = 0] = pkt
        BY <1>1, <2>1
  <2> HIDE DEF t, pkt, item
  <2>3. Returned(item) = <<[p EXCEPT !.Time = 0]>>
        BY <1>2 DEF Returned
  <2> QED  BY <2>2, <2>3
<1>7. pkt \in Pkts
  <2> HIDE DEF d, t
  <2>1. 0 \in Int
        BY <1>1, CTimeZero
  <2> QED  BY <1>1, <2>1 DEF Pkts, PacketTypes
<1> HIDE DEF tag, pkt
<1>8. <<pkt>> \in Seq(Pkts) /\ Len(<<pkt>>) = 1
      BY <1>7
<1> QED  BY <1>3, <1>4, <1>5, <1>6, <1>8 DEF OneTag, item

LEMMA Frames ==
    ASSUME NEW p \in Packets, p.Type = "H264"
    PROVE  OneTag(p)
<1> DEFINE d == p.Data
           t == p.Time % TimeMod
           k == p.IsKeyFrame
           c == p.CTime
           f == IF k THEN FRAME_KEY ELSE FRAME_INTER
           item == [foreign |-> FALSE, pkt |-> p]
           tag == [Type |-> TAG_VIDEO, Format |-> VIDEO_H264, FrameType |-> f, PacketType |-> AVC_NALU,
                   CTime |-> c, Time |-> t, Data |-> d]
           pkt == [Type |-> "H264", IsKeyFrame |-> k, Time |-> t, CTime |-> c, Data |-> d]
<1>1. /\ d \in Seq(Nat) /\ t \in 0..TimeMod - 1
      /\ k \in BOOLEAN /\ c \in -(CTimeMod \div 2)..CTimeMod \div 2 - 1
      /\ f \in {FRAME_KEY, FRAME_INTER} /\ (f = FRAME_KEY) = k
  <2>1. /\ d \in Seq(Nat) /\ t \in 0..TimeMod - 1 /\ k \in BOOLEAN
        /\ c \in -(CTimeMod \div 2)..CTimeMod \div 2 - 1
    <3> HIDE DEF item
    <3> QED  BY PacketFields
  <2>2. f \in {FRAME_KEY, FRAME_INTER} /\ (f = FRAME_KEY) = k
    <3>1. k = TRUE \/ k = FALSE
          BY <2>1
    <3> HIDE DEF k
    <3>2. CASE k = TRUE
      <4>1. f = FRAME_KEY
            BY <3>2
      <4> HIDE DEF f
      <4>2. (f = FRAME_KEY) = k
            BY <3>2, <4>1, Zenon
      <4> QED  BY <4>1, <4>2
    <3>3. CASE k = FALSE
      <4>1. f = FRAME_INTER /\ f # FRAME_KEY
            BY <3>3
      <4> HIDE DEF f
      <4>2. (f = FRAME_KEY) = k
            BY <3>3, <4>1, Zenon
      <4> QED  BY <4>1, <4>2
    <3> QED  BY <3>1, <3>2, <3>3
  <2> HIDE DEF f, c, k, t, d
  <2> QED  BY <2>1, <2>2
<1>2. item.foreign = FALSE /\ item.pkt = p
      OBVIOUS
<1>3. Tags(p) = <<tag>>
  <2>1. Avc(AVC_NALU, k, p) = [Type |-> TAG_VIDEO, Format |-> VIDEO_H264, FrameType |-> f,
                              PacketType |-> AVC_NALU, CTime |-> 0, Time |-> t, Data |-> d]
        BY AvcFields
  <2> HIDE DEF t, d, f, c
  <2>2. [Avc(AVC_NALU, k, p) EXCEPT !.CTime = c] = tag
        BY <2>1
  <2>3. Tags(p) = <<[Avc(AVC_NALU, k, p) EXCEPT !.CTime = c]>>
        BY Zenon DEF Tags, c
  <2> HIDE DEF tag
  <2> QED  BY <2>2, <2>3
<1>4. tag \in MuxTags
  <2> HIDE DEF d, t, k, c, f
  <2> QED  BY <1>1 DEF MuxTags
<1>5. FromTag(tag) = <<pkt>>
  <2> HIDE DEF d, t, k, c, f
  <2>1. [Packet("H264", tag) EXCEPT !.CTime = tag.CTime, !.IsKeyFrame = (tag.FrameType = FRAME_KEY)] = pkt
    <3> DEFINE p0 == Packet("H264", tag)
               b  == FALSE
               x  == tag.CTime
               y  == (tag.FrameType = FRAME_KEY)
               p1 == [p0 EXCEPT !.CTime = x]
               p2 == [p1 EXCEPT !.IsKeyFrame = y]
    <3>1. p0 = [Type |-> "H264", IsKeyFrame |-> b, Time |-> t, CTime |-> 0, Data |-> d]
          BY DEF Packet
    <3>2. [p0 EXCEPT !.CTime = tag.CTime, !.IsKeyFrame = (tag.FrameType = FRAME_KEY)] = p2
          BY Zenon
    <3>3. x = c /\ y = k
      <4>1. tag.CTime = c /\ tag.FrameType = f
            OBVIOUS
      <4> HIDE DEF tag
      <4> QED  BY <1>1, <4>1
    <3> HIDE DEF p0, x, y, b
    <3>4. p1 = [Type |-> "H264", IsKeyFrame |-> b, Time |-> t, CTime |-> c, Data |-> d]
          BY <3>1, <3>3
    <3> HIDE DEF p1
    <3>5. p2 = [Type |-> "H264", IsKeyFrame |-> k, Time |-> t, CTime |-> c, Data |-> d]
          BY <3>3, <3>4
    <3> HIDE DEF p2
    <3> QED  BY <3>2, <3>5 DEF p0
  <2>2. /\ tag.Type \notin {TAG_AMF0, TAG_AMF3} /\ tag.Type = TAG_VIDEO /\ tag.Type # TAG_AUDIO
        /\ tag.Format = VIDEO_H264 /\ tag.PacketType # AVC_SEQHDR /\ tag.PacketType = AVC_NALU
        OBVIOUS
  <2> HIDE DEF tag, pkt
  <2>3. FromTag(tag) = <<[Packet("H264", tag) EXCEPT !.CTime = tag.CTime, !.IsKeyFrame = (tag.FrameType = FRAME_KEY)]>>
        BY <2>2 DEF FromTag
  <2> QED  BY <2>1, <2>3
<1>6. Returned(item) = <<pkt>>
  <2>1. [p EXCEPT !.Time = p.Time % TimeMod] = [Type |-> p.Type, IsKeyFrame |-> p.IsKeyFrame, Time |-> t,
                                  CTime |-> p.CTime, Data |-> p.Data]
        BY Retimed
  <2>2. [p EXCEPT !.Time = p.Time % TimeMod] = pkt
        BY <1>1, <2>1
  <2> HIDE DEF t, pkt, item
  <2>3. Returned(item) = <<[p EXCEPT !.Time = p.Time % TimeMod]>>
        BY <1>2 DEF Returned
  <2> QED  BY <2>2, <2>3
<1>7. pkt \in Pkts
  <2> HIDE DEF d, t, k, c, f
  <2>1. c \in Int
        BY <1>1, CTimeZero
  <2> QED  BY <1>1, <2>1 DEF Pkts, PacketTypes
<1> HIDE DEF tag, pkt
<1>8. <<pkt>> \in Seq(Pkts) /\ Len(<<pkt>>) = 1
      BY <1>7
<1> QED  BY <1>3, <1>4, <1>5, <1>6, <1>8 DEF OneTag, item

LEMMA VideoConfig ==
    ASSUME NEW p \in Packets, p.Type = "H264DecoderConfig"
    PROVE  OneTag(p)
<1> DEFINE d == p.Data
           t == 0
           u == p.Time % TimeMod
           item == [foreign |-> FALSE, pkt |-> p]
           tag == [Type |-> TAG_VIDEO, Format |-> VIDEO_H264, FrameType |-> FRAME_KEY, PacketType |-> AVC_SEQHDR,
                   CTime |-> 0, Time |-> u, Data |-> d]
           pkt == [Type |-> "H264DecoderConfig", IsKeyFrame |-> FALSE, Time |-> t, CTime |-> 0, Data |-> d]
<1>1. /\ d \in Seq(Nat) /\ t \in 0..TimeMod - 1 /\ u \in 0..TimeMod - 1
      /\ p.IsKeyFrame = FALSE /\ p.CTime = 0
  <2>1. p.IsKeyFrame = FALSE /\ p.CTime = 0
        BY PacketFields
  <2>2. d \in Seq(Nat) /\ p.Time % TimeMod \in 0..TimeMod - 1
        BY PacketFields
  <2>3. 0 \in 0..TimeMod - 1
        BY TimeModPositive
  <2> QED  BY <2>1, <2>2, <2>3
<1>2. item.foreign = FALSE /\ item.pkt = p
      OBVIOUS
<1>3. Tags(p) = <<tag>>
  <2>1. Avc(AVC_SEQHDR, TRUE, p) = tag
    <3>1. Avc(AVC_SEQHDR, TRUE, p)
            = [Type |-> TAG_VIDEO, Format |-> VIDEO_H264,
               FrameType |-> IF TRUE THEN FRAME_KEY ELSE FRAME_INTER,
               PacketType |-> AVC_SEQHDR, CTime |-> 0, Time |-> u, Data |-> d]
          BY AvcFields
    <3>2. (IF TRUE THEN FRAME_KEY ELSE FRAME_INTER) = FRAME_KEY
          OBVIOUS
    <3> QED  BY <3>1, <3>2
  <2>2. Tags(p) = <<Avc(AVC_SEQHDR, TRUE, p)>>
        BY Zenon DEF Tags
  <2> HIDE DEF tag
  <2> QED  BY <2>1, <2>2
<1>4. tag \in MuxTags
  <2> HIDE DEF d, t, u
  <2>1. 0 \in -(CTimeMod \div 2)..CTimeMod \div 2 - 1
        BY CTimeZero
  <2> QED  BY <1>1, <2>1 DEF MuxTags
<1>5. FromTag(tag) = <<pkt>>
  <2> HIDE DEF d, t, u
  <2>1. [Packet("H264DecoderConfig", tag) EXCEPT !.Time = 0] = pkt
    <3> DEFINE p0 == Packet("H264DecoderConfig", tag)
               b  == FALSE
    <3>1. p0 = [Type |-> "H264DecoderConfig", IsKeyFrame |-> b, Time |-> u, CTime |-> 0, Data |-> d]
          BY DEF Packet
    <3>2. pkt = [Type |-> "H264DecoderConfig", IsKeyFrame |-> b, Time |-> t, CTime |-> 0, Data |-> d]
          OBVIOUS
    <3> HIDE DEF p0, b, pkt
    <3>3. [p0 EXCEPT !.Time = t] = pkt
          BY <3>1, <3>2
    <3> QED  BY <3>3 DEF p0, t
  <2>2. /\ tag.Type \notin {TAG_AMF0, TAG_AMF3} /\ tag.Type = TAG_VIDEO /\ tag.Type # TAG_AUDIO
        /\ tag.Format = VIDEO_H264 /\ tag.PacketType = AVC_SEQHDR /\ tag.PacketType # AVC_NALU
        OBVIOUS
  <2> HIDE DEF tag, pkt
  <2>3. FromTag(tag) = <<[Packet("H264DecoderConfig", tag) EXCEPT !.Time = 0]>>
        BY <2>2 DEF FromTag
  <2> QED  BY <2>1, <2>3
<1>6. Returned(item) = <<pkt>>
  <2>1. [p EXCEPT !.Time = 0] = [Type |-> p.Type, IsKeyFrame |-> p.IsKeyFrame, Time |-> t,
                                  CTime |-> p.CTime, Data |-> p.Data]
        BY Retimed
  <2>2. [p EXCEPT !.Time = 0] = pkt
        BY <1>1, <2>1
  <2> HIDE DEF t, pkt, item
  <2>3. Returned(item) = <<[p EXCEPT !.Time = 0]>>
        BY <1>2 DEF Returned
  <2> QED  BY <2>2, <2>3
<1>7. pkt \in Pkts
  <2> HIDE DEF d, t, u
  <2>1. 0 \in Int
        BY <1>1, CTimeZero
  <2> QED  BY <1>1, <2>1 DEF Pkts, PacketTypes
<1> HIDE DEF tag, pkt
<1>8. <<pkt>> \in Seq(Pkts) /\ Len(<<pkt>>) = 1
      BY <1>7
<1> QED  BY <1>3, <1>4, <1>5, <1>6, <1>8 DEF OneTag, item

\* Sequences of numbers, and the parts of them.
LEMMA PrefixIs ==
    ASSUME NEW n \in Seq(Nat), NEW v \in Seq(Nat)
    PROVE  IsPrefix(n, v) <=> Len(n) <= Len(v) /\ \A i \in 1..Len(n) : n[i] = v[i]
<1> DEFINE m == Len(n)
<1>1. m \in Nat /\ Len(v) \in Nat
      OBVIOUS
<1>2. SubSeq(n, 1, m) \in Seq(Nat) /\ Len(SubSeq(n, 1, m)) = m /\ \A i \in 1..m : SubSeq(n, 1, m)[i] = n[i]
      OBVIOUS
<1>3. ASSUME m <= Len(v)
      PROVE  SubSeq(v, 1, m) \in Seq(Nat) /\ Len(SubSeq(v, 1, m)) = m
             /\ \A i \in 1..m : SubSeq(v, 1, m)[i] = v[i]
  <2> HIDE DEF m
  <2> QED  BY <1>1, <1>3
<1> HIDE DEF m
<1>4. ASSUME m <= Len(v), \A i \in 1..m : n[i] = v[i]
      PROVE  SubSeq(n, 1, m) = SubSeq(v, 1, m)
  <2> DEFINE a == SubSeq(n, 1, m)  b == SubSeq(v, 1, m)
  <2>1. a \in Seq(Nat) /\ b \in Seq(Nat) /\ Len(a) = m /\ Len(b) = m /\ \A i \in 1..m : a[i] = b[i]
        BY <1>2, <1>3, <1>4
  <2> HIDE DEF a, b
  <2>2. a = b
        BY <2>1, SeqEqual
  <2> QED  BY <2>2 DEF a, b
<1>5. ASSUME m <= Len(v), SubSeq(n, 1, m) = SubSeq(v, 1, m)
      PROVE  \A i \in 1..m : n[i] = v[i]
      BY <1>2, <1>3, <1>5
<1>6. IsPrefix(n, v) <=> m <= Len(v) /\ SubSeq(n, 1, m) = SubSeq(v, 1, m)
      BY DEF IsPrefix, m
<1> QED  BY <1>4, <1>5, <1>6 DEF m

\* What stands behind the first n members.
Rest(v, n) == SubSeq(v, n + 1, Len(v))

LEMMA RestIs ==
    ASSUME NEW v \in Seq(Nat), NEW n \in Nat, n <= Len(v)
    PROVE  /\ Rest(v, n) \in Seq(Nat) /\ Len(Rest(v, n)) = Len(v) - n
           /\ \A i \in 1..Len(v) - n : Rest(v, n)[i] = v[i + n]
           /\ Rest(v, n) = <<>> <=> Len(v) = n
<1> DEFINE b == Rest(v, n)  m == Len(v)
<1>1. m \in Nat /\ n + 1 \in 1..m + 1 /\ m \in n..m /\ m - (n + 1) + 1 = m - n
      OBVIOUS
<1>2. b \in Seq(Nat) /\ Len(b) = m - n /\ \A i \in 1..m - n : b[i] = v[i + n]
  <2> HIDE DEF m
  <2>1. /\ SubSeq(v, n + 1, m) \in Seq(Nat) /\ Len(SubSeq(v, n + 1, m)) = m - n
        /\ \A i \in 1..m - n : SubSeq(v, n + 1, m)[i] = v[i + n]
    <3>1. v \in Seq(Nat) /\ n + 1 \in Int /\ n + 1 >= 1 /\ m = Len(v) /\ n + 1 <= m + 1
          BY <1>1 DEF m
    <3> QED  BY <3>1, <1>1
  <2> QED  BY <2>1 DEF Rest, m
<1>3. b = <<>> <=> m = n
  <2> HIDE DEF b, m
  <2>1. b = <<>> <=> Len(b) = 0
        BY <1>2, EmptySeq
  <2> QED  BY <1>1, <1>2, <2>1
<1> QED  BY <1>2, <1>3

LEMMA RestRest ==
    ASSUME NEW v \in Seq(Nat), NEW n \in Nat, NEW m \in Nat, n + m <= Len(v)
    PROVE  Rest(Rest(v, n), m) = Rest(v, n + m)
<1> DEFINE a == Rest(v, n)  b == Rest(a, m)  c == Rest(v, n + m)
<1>1. n <= Len(v) /\ n + m \in Nat /\ Len(v) \in Nat
      OBVIOUS
<1>2. a \in Seq(Nat) /\ Len(a) = Len(v) - n /\ \A i \in 1..Len(v) - n : a[i] = v[i + n]
      BY <1>1, RestIs
<1>3. c \in Seq(Nat) /\ Len(c) = Len(v) - (n + m) /\ \A i \in 1..Len(v) - (n + m) : c[i] = v[i + (n + m)]
      BY <1>1, RestIs
<1> HIDE DEF a
<1>4. m <= Len(a)
      BY <1>1, <1>2
<1>5. b \in Seq(Nat) /\ Len(b) = Len(a) - m /\ \A i \in 1..Len(a) - m : b[i] = a[i + m]
      BY <1>2, <1>4, RestIs
<1> HIDE DEF b, c
<1>6. Len(b) = Len(c) /\ \A i \in 1..Len(b) : b[i] = c[i]
  <2>1. Len(b) = Len(c) /\ Len(b) = Len(v) - (n + m) /\ Len(a) - m = Len(v) - (n + m)
        BY <1>1, <1>2, <1>3, <1>5
  <2>2. SUFFICES ASSUME NEW i \in 1..Len(v) - (n + m)
                 PROVE  b[i] = c[i]
        BY <2>1
  <2>3. i + m \in 1..Len(v) - n /\ (i + m) + n = i + (n + m)
        BY <1>1, <2>2
  <2> QED  BY <2>1, <2>3, <1>2, <1>3, <1>5
<1>7. b = c
      BY <1>3, <1>5, <1>6, SeqEqual
<1> QED  BY <1>7 DEF a, b, c

LEMMA TailIs ==
    ASSUME NEW v \in Seq(Nat), v # <<>>
    PROVE  Tail(v) = Rest(v, 1)
<1>1. Tail(v) = SubSeq(v, 2, Len(v)) /\ 1 + 1 = 2
      BY TailIsSubSeq
<1> QED  BY <1>1 DEF Rest

-----------------------------------------------------------------------------
(* Metadata                                                                *)

\* How many names convertToAMF0Metadata finds; 0 if not those it wants.
NamesIn(v) ==
    IF Len(v) >= 1 /\ v[1] = OnMetaData THEN 1
    ELSE IF Len(v) >= 2 /\ v[1] = SetDataFrame /\ v[2] = OnMetaData THEN 2
    ELSE 0

LEMMA MetadataIs ==
    ASSUME NEW v \in Seq(Nat)
    PROVE  /\ NamesIn(v) = 0 \/ Bad(v) => Metadata(v) = <<>>
           /\ NamesIn(v) # 0 /\ ~Bad(v) =>
                Metadata(v) = IF Rest(v, NamesIn(v)) = <<>> THEN <<EmptyMap>>
                              ELSE Rest(v, NamesIn(v))
           /\ NamesIn(v) \in 0..2 /\ NamesIn(v) <= Len(v)
<1> DEFINE data == IF v # <<>> /\ v[1] = SetDataFrame THEN Tail(v) ELSE v
           meta == IF Bad(v) \/ data = <<>> \/ data[1] # OnMetaData THEN <<>>
                   ELSE IF Len(data) = 1 THEN <<EmptyMap>> ELSE Tail(data)
<1>1. Metadata(v) = meta
      BY DEF Metadata
<1>2. Len(v) \in Nat /\ (v = <<>> <=> Len(v) = 0) /\ OnMetaData # SetDataFrame
      BY EmptySeq DEF OnMetaData, SetDataFrame
<1>3. NamesIn(v) \in 0..2 /\ NamesIn(v) <= Len(v)
      BY <1>2 DEF NamesIn
<1> HIDE DEF data
<1>4. Bad(v) => meta = <<>>
      OBVIOUS
<1>5. CASE v # <<>> /\ v[1] = SetDataFrame
  <2>1. data = Rest(v, 1)
        BY <1>5, TailIs DEF data
  <2>2. 1 <= Len(v) /\ 1 \in Nat
        BY <1>2, <1>5
  <2>3. /\ data \in Seq(Nat) /\ Len(data) = Len(v) - 1 /\ \A i \in 1..Len(v) - 1 : data[i] = v[i + 1]
        /\ data = <<>> <=> Len(v) = 1
        BY <2>1, <2>2, RestIs
  <2>4. CASE Len(v) >= 2 /\ v[2] = OnMetaData
    <3>1. NamesIn(v) = 2
          BY <1>2, <1>5, <2>4 DEF NamesIn
    <3>2. data # <<>> /\ data[1] = OnMetaData
      <4>1. 1 \in 1..Len(v) - 1 /\ 1 + 1 = 2
            BY <1>2, <2>4
      <4>2. data[1] = v[1 + 1]
            BY <2>3, <4>1
      <4> QED  BY <1>2, <2>3, <2>4, <4>1, <4>2
    <3>3. Tail(data) = Rest(v, 2)
      <4>1. Tail(data) = Rest(data, 1)
            BY <2>3, <3>2, TailIs
      <4>2. 1 + 1 <= Len(v) /\ 1 + 1 = 2
            BY <2>4
      <4>3. Rest(Rest(v, 1), 1) = Rest(v, 1 + 1)
            BY <4>2, RestRest
      <4> QED  BY <2>1, <4>1, <4>2, <4>3
    <3>4. Len(data) = 1 <=> Rest(v, 2) = <<>>
      <4>1. 2 <= Len(v) /\ 2 \in Nat
            BY <2>4
      <4>2. Rest(v, 2) = <<>> <=> Len(v) = 2
            BY <4>1, RestIs
      <4> QED  BY <1>2, <2>3, <4>2
    <3>5. ASSUME ~Bad(v)
          PROVE  meta = IF Rest(v, 2) = <<>> THEN <<EmptyMap>> ELSE Rest(v, 2)
      <4>1. meta = IF Len(data) = 1 THEN <<EmptyMap>> ELSE Tail(data)
            BY <3>2, <3>5
      <4> HIDE DEF meta
      <4>2. CASE Len(data) = 1
            BY <3>4, <4>1, <4>2
      <4>3. CASE Len(data) # 1
            BY <3>3, <3>4, <4>1, <4>3
      <4> QED  BY <4>2, <4>3
    <3> HIDE DEF meta
    <3>6. NamesIn(v) # 0
          BY <3>1
    <3>7. ~Bad(v) => Metadata(v) = IF Rest(v, NamesIn(v)) = <<>> THEN <<EmptyMap>>
                                   ELSE Rest(v, NamesIn(v))
          BY <1>1, <3>1, <3>5
    <3>8. Bad(v) => Metadata(v) = <<>>
          BY <1>1, <1>4
    <3> QED  BY <1>3, <3>6, <3>7, <3>8
  <2>5. CASE ~(Len(v) >= 2 /\ v[2] = OnMetaData)
    <3>1. NamesIn(v) = 0
          BY <1>2, <1>5, <2>5 DEF NamesIn
    <3>2. data = <<>> \/ data[1] # OnMetaData
      <4>1. CASE Len(v) = 1
            BY <2>3, <4>1
      <4>2. CASE Len(v) >= 2
        <5>1. 1 \in 1..Len(v) - 1 /\ 1 + 1 = 2
              BY <1>2, <4>2
        <5>2. data[1] = v[1 + 1]
              BY <2>3, <5>1
        <5> QED  BY <2>5, <4>2, <5>1, <5>2
      <4>3. Len(v) = 1 \/ Len(v) >= 2
        <5> DEFINE l == Len(v)
        <5>1. l \in Nat /\ 1 <= l
              BY <1>2, <2>2
        <5> HIDE DEF l
        <5>2. l = 1 \/ l >= 2
              BY <5>1
        <5> QED  BY <5>2 DEF l
      <4> HIDE DEF meta
      <4> QED  BY <4>1, <4>2, <4>3
    <3> QED  BY <1>1, <1>3, <3>1, <3>2
  <2> QED  BY <2>4, <2>5
<1>6. CASE ~(v # <<>> /\ v[1] = SetDataFrame)
  <2>1. data = v
        BY <1>6 DEF data
  <2>2. CASE Len(v) >= 1 /\ v[1] = OnMetaData
    <3>1. NamesIn(v) = 1
          BY <2>2 DEF NamesIn
    <3>2. v # <<>> /\ 1 <= Len(v) /\ 1 \in Nat
          BY <1>2, <2>2
    <3>3. Tail(v) = Rest(v, 1)
          BY <3>2, TailIs
    <3>4. Len(v) = 1 <=> Rest(v, 1) = <<>>
          BY <3>2, RestIs
    <3>5. ASSUME ~Bad(v)
          PROVE  meta = IF Rest(v, 1) = <<>> THEN <<EmptyMap>> ELSE Rest(v, 1)
      <4>1. meta = IF Len(v) = 1 THEN <<EmptyMap>> ELSE Tail(v)
            BY <2>1, <2>2, <3>2, <3>5
      <4> HIDE DEF meta
      <4>2. CASE Len(v) = 1
            BY <3>4, <4>1, <4>2
      <4>3. CASE Len(v) # 1
            BY <3>3, <3>4, <4>1, <4>3
      <4> QED  BY <4>2, <4>3
    <3> HIDE DEF meta
    <3>6. NamesIn(v) # 0
          BY <3>1
    <3>7. ~Bad(v) => Metadata(v) = IF Rest(v, NamesIn(v)) = <<>> THEN <<EmptyMap>>
                                   ELSE Rest(v, NamesIn(v))
          BY <1>1, <3>1, <3>5
    <3>8. Bad(v) => Metadata(v) = <<>>
          BY <1>1, <1>4
    <3> QED  BY <1>3, <3>6, <3>7, <3>8
  <2>3. CASE ~(Len(v) >= 1 /\ v[1] = OnMetaData)
    <3>1. NamesIn(v) = 0
          BY <1>2, <1>6, <2>3 DEF NamesIn
    <3> QED  BY <1>1, <1>2, <1>3, <2>1, <2>3, <3>1
  <2> QED  BY <2>2, <2>3
<1> QED  BY <1>5, <1>6

\* A value that does not parse spoils all of them.
LEMMA BadBehind ==
    ASSUME NEW v \in Seq(Nat), NEW n \in Nat, n <= Len(v), \A i \in 1..n : v[i] # Unparsable
    PROVE  Bad(Rest(v, n)) <=> Bad(v)
<1> DEFINE b == Rest(v, n)  m == Len(v)
<1>1. b \in Seq(Nat) /\ Len(b) = m - n /\ \A i \in 1..m - n : b[i] = v[i + n]
      BY RestIs
<1>2. m \in Nat
      OBVIOUS
<1> HIDE DEF b
<1>3. ASSUME NEW i \in 1..Len(b), b[i] = Unparsable
      PROVE  \E j \in 1..Len(v) : v[j] = Unparsable
  <2> HIDE DEF m
  <2>1. i \in 1..m - n /\ i + n \in 1..m
        BY <1>1, <1>2
  <2>2. v[i + n] = Unparsable
        BY <1>1, <1>3, <2>1
  <2> QED  BY <2>1, <2>2 DEF m
<1>4. ASSUME NEW j \in 1..m, v[j] = Unparsable
      PROVE  \E i \in 1..Len(b) : b[i] = Unparsable
  <2> HIDE DEF m
  <2>1. j \notin 1..n
        BY <1>4
  <2>2. j - n \in 1..m - n /\ (j - n) + n = j
        BY <1>2, <2>1
  <2>3. b[j - n] = Unparsable
        BY <1>1, <1>4, <2>2
  <2> QED  BY <1>1, <2>2, <2>3
<1> QED  BY <1>3, <1>4 DEF Bad, b

LEMMA MetadataTyped ==
    ASSUME NEW v \in Seq(Nat)
    PROVE  Metadata(v) \in Seq(Nat)
<1>1. EmptyMap \in Nat /\ <<EmptyMap>> \in Seq(Nat) /\ <<>> \in Seq(Nat)
      BY DEF EmptyMap
<1>2. NamesIn(v) \in Nat /\ NamesIn(v) <= Len(v)
  <2>1. NamesIn(v) \in 0..2 /\ NamesIn(v) <= Len(v)
        BY MetadataIs
  <2> QED  BY <2>1
<1>3. Rest(v, NamesIn(v)) \in Seq(Nat)
      BY <1>2, RestIs
<1>4. CASE NamesIn(v) = 0 \/ Bad(v)
  <2>1. Metadata(v) = <<>>
        BY <1>4, MetadataIs
  <2> QED  BY <1>1, <2>1
<1>5. CASE NamesIn(v) # 0 /\ ~Bad(v)
  <2>1. Metadata(v) = IF Rest(v, NamesIn(v)) = <<>> THEN <<EmptyMap>> ELSE Rest(v, NamesIn(v))
        BY <1>5, MetadataIs
  <2> QED  BY <1>1, <1>3, <2>1
<1> QED  BY <1>4, <1>5

\* The names of a tag, and where they are.
LEMMA NamesOf ==
    ASSUME NEW v \in Seq(Nat)
    PROVE  /\ IsPrefix(<<OnMetaData>>, v) <=> NamesIn(v) = 1
           /\ IsPrefix(<<SetDataFrame, OnMetaData>>, v) <=> NamesIn(v) = 2
<1>0. OnMetaData \in Nat /\ SetDataFrame \in Nat /\ OnMetaData # SetDataFrame /\ Len(v) \in Nat
      BY DEF OnMetaData, SetDataFrame
<1>1. IsPrefix(<<OnMetaData>>, v) <=> Len(v) >= 1 /\ v[1] = OnMetaData
  <2> DEFINE n == <<OnMetaData>>
  <2>1. n \in Seq(Nat) /\ Len(n) = 1 /\ n[1] = OnMetaData
        BY <1>0
  <2> HIDE DEF n
  <2>2. IsPrefix(n, v) <=> Len(n) <= Len(v) /\ \A i \in 1..Len(n) : n[i] = v[i]
        BY <2>1, PrefixIs
  <2>3. IsPrefix(n, v) <=> Len(v) >= 1 /\ v[1] = OnMetaData
        BY <1>0, <2>1, <2>2
  <2> QED  BY <2>3 DEF n
<1>2. IsPrefix(<<SetDataFrame, OnMetaData>>, v)
        <=> Len(v) >= 2 /\ v[1] = SetDataFrame /\ v[2] = OnMetaData
  <2> DEFINE n == <<SetDataFrame, OnMetaData>>
  <2>1. n \in Seq(Nat) /\ Len(n) = 2 /\ n[1] = SetDataFrame /\ n[2] = OnMetaData
        BY <1>0
  <2> HIDE DEF n
  <2>2. IsPrefix(n, v) <=> Len(n) <= Len(v) /\ \A i \in 1..Len(n) : n[i] = v[i]
        BY <2>1, PrefixIs
  <2>3. IsPrefix(n, v) <=> Len(v) >= 2 /\ v[1] = SetDataFrame /\ v[2] = OnMetaData
        BY <1>0, <2>1, <2>2
  <2> QED  BY <2>3 DEF n
<1> QED  BY <1>0, <1>1, <1>2 DEF NamesIn

LEMMA ZeroNames ==
    ASSUME NEW n \in {<<OnMetaData>>, <<SetDataFrame, OnMetaData>>}, NEW v \in Seq(Nat)
    PROVE  /\ n \in Seq(Nat) /\ Len(n) \in 1..2 /\ n[1] # 0
           /\ Len(<<0>> \o n) = Len(n) + 1
           /\ IsPrefix(<<0>> \o n, v) <=> v # <<>> /\ v[1] = 0 /\ IsPrefix(n, Tail(v))
<1> DEFINE z == <<0>>  u == z \o n
<1>1. n \in Seq(Nat) /\ Len(n) \in 1..2 /\ n[1] # 0
  <2>1. CASE n = <<OnMetaData>>
        BY <2>1 DEF OnMetaData
  <2>2. CASE n = <<SetDataFrame, OnMetaData>>
        BY <2>2 DEF OnMetaData, SetDataFrame
  <2> QED  BY <2>1, <2>2
<1>2. z \in Seq(Nat) /\ Len(z) = 1 /\ z[1] = 0
      OBVIOUS
<1> HIDE DEF z
<1>3. u \in Seq(Nat) /\ Len(u) = 1 + Len(n)
      /\ \A i \in 1..1 + Len(n) : u[i] = IF i <= 1 THEN z[i] ELSE n[i - 1]
  <2>1. z \in Seq(Nat) /\ n \in Seq(Nat)
        BY <1>1, <1>2
  <2>2. z \o n \in Seq(Nat) /\ Len(z \o n) = Len(z) + Len(n)
        /\ \A i \in 1..Len(z) + Len(n) : (z \o n)[i] = IF i <= Len(z) THEN z[i] ELSE n[i - Len(z)]
        BY <2>1, ConcatProperties
  <2> QED  BY <1>2, <2>2
<1> HIDE DEF u
<1>4. IsPrefix(u, v) <=> Len(u) <= Len(v) /\ \A i \in 1..Len(u) : u[i] = v[i]
      BY <1>3, PrefixIs
<1>5. CASE v = <<>>
  <2>1. Len(v) = 0
        BY <1>5
  <2>2. ~IsPrefix(u, v)
        BY <1>1, <1>3, <1>4, <2>1
  <2> QED  BY <1>1, <1>3, <1>5, <2>2 DEF u, z
<1>6. CASE v # <<>>
  <2> DEFINE t == Tail(v)
  <2>1. /\ t \in Seq(Nat) /\ Len(t) = Len(v) - 1 /\ \A i \in 1..Len(v) - 1 : t[i] = v[i + 1]
        /\ Len(v) \in Nat /\ Len(v) >= 1
    <3>1. Len(v) \in Nat /\ Len(v) >= 1
          BY <1>6, EmptySeq
    <3>2. t \in Seq(Nat) /\ Len(t) = Len(v) - 1 /\ \A i \in 1..Len(t) : t[i] = v[i + 1]
          BY <1>6, HeadTailProperties
    <3> HIDE DEF t
    <3> QED  BY <3>1, <3>2
  <2> HIDE DEF t
  <2>2. IsPrefix(n, t) <=> Len(n) <= Len(t) /\ \A i \in 1..Len(n) : n[i] = t[i]
        BY <1>1, <2>1, PrefixIs
  <2>3. ASSUME IsPrefix(u, v)
        PROVE  v[1] = 0 /\ IsPrefix(n, t)
    <3>1. Len(u) <= Len(v) /\ \A i \in 1..Len(u) : u[i] = v[i]
          BY <1>4, <2>3
    <3>2. v[1] = 0
      <4>1. 1 \in 1..1 + Len(n) /\ 1 \in 1..Len(u)
            BY <1>1, <1>3
      <4>2. u[1] = z[1]
            BY <1>3, <4>1
      <4> QED  BY <1>2, <3>1, <4>1, <4>2
    <3>3. Len(n) <= Len(t)
          BY <1>1, <1>3, <2>1, <3>1
    <3>4. ASSUME NEW i \in 1..Len(n)
          PROVE  n[i] = t[i]
      <4>1. i + 1 \in 1..1 + Len(n) /\ ~(i + 1 <= 1) /\ (i + 1) - 1 = i /\ i \in 1..Len(v) - 1
            BY <1>1, <2>1, <3>3, <3>4
      <4>2. u[i + 1] = n[i]
            BY <1>3, <4>1
      <4>3. u[i + 1] = v[i + 1]
            BY <1>3, <3>1, <4>1
      <4> QED  BY <2>1, <4>1, <4>2, <4>3
    <3> QED  BY <2>2, <3>2, <3>3, <3>4
  <2>4. ASSUME v[1] = 0, IsPrefix(n, t)
        PROVE  IsPrefix(u, v)
    <3>1. Len(n) <= Len(t) /\ \A i \in 1..Len(n) : n[i] = t[i]
          BY <2>2, <2>4
    <3>2. Len(u) <= Len(v)
          BY <1>1, <1>3, <2>1, <3>1
    <3>3. ASSUME NEW i \in 1..Len(u)
          PROVE  u[i] = v[i]
      <4>0. i \in 1..1 + Len(n) /\ Len(n) \in Nat
            BY <1>1, <1>3, <3>3
      <4>1. CASE i = 1
            BY <1>2, <1>3, <2>4, <4>0, <4>1
      <4>2. CASE i # 1
        <5>1. i - 1 \in 1..Len(n) /\ ~(i <= 1) /\ (i - 1) + 1 = i /\ i - 1 \in 1..Len(v) - 1
              BY <4>0, <4>2, <2>1, <3>1
        <5>2. u[i] = n[i - 1]
              BY <1>3, <4>0, <5>1
        <5>3. t[i - 1] = v[(i - 1) + 1]
              BY <2>1, <5>1
        <5> QED  BY <3>1, <5>1, <5>2, <5>3
      <4> QED  BY <4>1, <4>2
    <3> QED  BY <1>4, <3>2, <3>3
  <2> QED  BY <1>1, <1>3, <1>6, <2>3, <2>4 DEF u, z, t
<1> QED  BY <1>5, <1>6

\* The muxer's metadata.
LEMMA NamedMetadata ==
    ASSUME NEW n \in {<<OnMetaData>>, <<SetDataFrame, OnMetaData>>}, NEW d \in Seq(Nat), ~Bad(d)
    PROVE  n \o d \in Seq(Nat) /\ Metadata(n \o d) = IF d = <<>> THEN <<EmptyMap>> ELSE d
<1> DEFINE v == n \o d  m == Len(n)
<1>1. n \in Seq(Nat) /\ m \in 1..2 /\ m \in Nat
  <2>1. n \in Seq(Nat) /\ Len(n) \in 1..2
        BY ZeroNames
  <2> QED  BY <2>1
<1>2. /\ v \in Seq(Nat) /\ Len(v) = m + Len(d) /\ SubSeq(v, m + 1, Len(v)) = d
      /\ \A i \in 1..m : v[i] = n[i]
      BY <1>1, ConcatParts
<1>3. Rest(v, m) = d
      BY <1>2 DEF Rest
<1>4. m <= Len(v)
  <2>1. Len(d) \in Nat
        OBVIOUS
  <2> HIDE DEF v, m
  <2> QED  BY <1>1, <1>2, <2>1
<1>5. NamesIn(v) = m /\ \A i \in 1..m : v[i] # Unparsable
  <2>1. OnMetaData # SetDataFrame /\ OnMetaData # Unparsable /\ SetDataFrame # Unparsable
        BY DEF OnMetaData, SetDataFrame, Unparsable
  <2>2. CASE n = <<OnMetaData>>
    <3>1. m = 1 /\ n[1] = OnMetaData
          BY <2>2
    <3> HIDE DEF m, v
    <3>2. v[1] = OnMetaData /\ Len(v) >= 1
          BY <1>2, <1>4, <3>1
    <3> QED  BY <2>1, <3>1, <3>2 DEF NamesIn
  <2>3. CASE n = <<SetDataFrame, OnMetaData>>
    <3>1. m = 2 /\ n[1] = SetDataFrame /\ n[2] = OnMetaData
          BY <2>3
    <3> HIDE DEF m, v
    <3>2. v[1] = SetDataFrame /\ v[2] = OnMetaData /\ Len(v) >= 2
          BY <1>2, <1>4, <3>1
    <3> QED  BY <2>1, <3>1, <3>2 DEF NamesIn
  <2> QED  BY <2>2, <2>3
<1> HIDE DEF v, m
<1>6. ~Bad(v)
      BY <1>1, <1>2, <1>3, <1>4, <1>5, BadBehind
<1>7. Metadata(v) = IF Rest(v, NamesIn(v)) = <<>> THEN <<EmptyMap>> ELSE Rest(v, NamesIn(v))
  <2>1. NamesIn(v) # 0
        BY <1>1, <1>5
  <2> QED  BY <1>2, <1>6, <2>1, MetadataIs
<1>8. Metadata(v) = IF d = <<>> THEN <<EmptyMap>> ELSE d
      BY <1>3, <1>5, <1>7
<1> QED  BY <1>2, <1>8 DEF v

LEMMA MetadataTag ==
    ASSUME NEW p \in Packets, p.Type = "Metadata", ~Bad(p.Data)
    PROVE  OneTag(p)
<1> DEFINE d == p.Data
           t == p.Time % TimeMod
           n == (IF Publishing THEN <<SetDataFrame>> ELSE <<>>) \o <<OnMetaData>>
           v == n \o d
           m == IF d = <<>> THEN <<EmptyMap>> ELSE d
           item == [foreign |-> FALSE, pkt |-> p]
           tag == [Type |-> TAG_AMF0, Format |-> 0, FrameType |-> 0, PacketType |-> 0,
                   CTime |-> 0, Time |-> t, Data |-> v]
           pkt == [Type |-> "Metadata", IsKeyFrame |-> FALSE, Time |-> t, CTime |-> 0, Data |-> m]
<1>1. /\ d \in Seq(Nat) /\ t \in 0..TimeMod - 1
      /\ p.IsKeyFrame = FALSE /\ p.CTime = 0
  <2>1. p.IsKeyFrame = FALSE /\ p.CTime = 0
        BY PacketFields
  <2>2. d \in Seq(Nat) /\ t \in 0..TimeMod - 1
        BY PacketFields
  <2> QED  BY <2>1, <2>2
<1>2. item.foreign = FALSE /\ item.pkt = p
      OBVIOUS
<1>3. n \in {<<OnMetaData>>, <<SetDataFrame, OnMetaData>>}
  <2>1. CASE Publishing
    <3>1. n = <<SetDataFrame>> \o <<OnMetaData>>
          BY <2>1
    <3>2. <<SetDataFrame>> \o <<OnMetaData>> = <<SetDataFrame, OnMetaData>>
      <4> DEFINE a == <<SetDataFrame>>  b == <<OnMetaData>>  c == <<SetDataFrame, OnMetaData>>
      <4>1. a \in Seq(Nat) /\ b \in Seq(Nat) /\ c \in Seq(Nat) /\ Len(a) = 1 /\ Len(b) = 1 /\ Len(c) = 2
            /\ c[1] = a[1] /\ c[2] = b[1]
            BY DEF SetDataFrame, OnMetaData
      <4> HIDE DEF a, b, c
      <4>2. a \o b \in Seq(Nat) /\ Len(a \o b) = Len(a) + Len(b)
            /\ \A i \in 1..Len(a) + Len(b) : (a \o b)[i] = IF i <= Len(a) THEN a[i] ELSE b[i - Len(a)]
            BY <4>1, ConcatProperties
      <4> DEFINE u == a \o b
      <4>3. u \in Seq(Nat) /\ Len(u) = 2 /\ u[1] = a[1] /\ u[2] = b[1]
            BY <4>1, <4>2
      <4> HIDE DEF u
      <4>4. \A i \in 1..Len(u) : u[i] = c[i]
            BY <4>1, <4>3
      <4>5. u = c
            BY <4>1, <4>3, <4>4, SeqEqual
      <4> QED  BY <4>5 DEF u, a, b, c
    <3> QED  BY <3>1, <3>2
  <2>2. CASE ~Publishing
    <3>1. n = <<>> \o <<OnMetaData>>
          BY <2>2
    <3>2. <<OnMetaData>> \in Seq(Nat)
          BY DEF OnMetaData
    <3>3. <<>> \o <<OnMetaData>> = <<OnMetaData>>
          BY <3>2, ConcatEmptySeq
    <3> QED  BY <3>1, <3>3
  <2> QED  BY <2>1, <2>2
<1> HIDE DEF n
<1>4. v \in Seq(Nat) /\ Metadata(v) = m
      BY <1>1, <1>3, NamedMetadata
<1>5. m \in Seq(Nat) /\ m # <<>>
  <2>1. EmptyMap \in Nat
        BY DEF EmptyMap
  <2> HIDE DEF d
  <2>2. CASE d = <<>>
        BY <2>1, <2>2
  <2>3. CASE d # <<>>
        BY <1>1, <2>3
  <2> QED  BY <2>2, <2>3
<1>6. Tags(p) = <<tag>>
  <2>1. [NoTag EXCEPT !.Type = TAG_AMF0, !.Time = t, !.Data = v]
            = [Type |-> TAG_AMF0, Format |-> 0, FrameType |-> 0, PacketType |-> 0, CTime |-> 0,
               Time |-> t, Data |-> v]
        BY TagFields
  <2>2. Tags(p) = <<[NoTag EXCEPT !.Type = TAG_AMF0, !.Time = t, !.Data = v]>>
        BY Zenon DEF Tags, t, v, n, d
  <2> HIDE DEF tag
  <2> QED  BY <2>1, <2>2 DEF tag
<1> HIDE DEF v, m
<1>7. tag \in MuxTags
  <2> HIDE DEF t, d
  <2> QED  BY <1>1, <1>4 DEF MuxTags
<1>8. FromTag(tag) = <<pkt>>
  <2> HIDE DEF t, d
  <2>1. [Packet("Metadata", tag) EXCEPT !.Data = m] = pkt
    <3> DEFINE p0 == Packet("Metadata", tag)
               b  == FALSE
    <3>1. p0 = [Type |-> "Metadata", IsKeyFrame |-> b, Time |-> t, CTime |-> 0, Data |-> v]
          BY DEF Packet
    <3>2. pkt = [Type |-> "Metadata", IsKeyFrame |-> b, Time |-> t, CTime |-> 0, Data |-> m]
          OBVIOUS
    <3> HIDE DEF p0, b, pkt
    <3>3. [p0 EXCEPT !.Data = m] = pkt
          BY <3>1, <3>2
    <3> QED  BY <3>3 DEF p0
  <2>2. /\ tag.Type \in {TAG_AMF0, TAG_AMF3} /\ tag.Type # TAG_VIDEO /\ tag.Type # TAG_AUDIO
        /\ tag.Type # TAG_AMF3 /\ tag.Data = v
        OBVIOUS
  <2> HIDE DEF tag, pkt
  <2>3. Metadata(Vals(tag)) = m
        BY <1>4, <2>2 DEF Vals
  <2>4. FromTag(tag) = <<[Packet("Metadata", tag) EXCEPT !.Data = Metadata(Vals(tag))]>>
        BY <1>5, <2>2, <2>3 DEF FromTag
  <2> QED  BY <2>1, <2>3, <2>4
<1>9. Returned(item) = <<pkt>>
  <2> DEFINE ret == [p EXCEPT !.Time = p.Time % TimeMod, !.Data = IF p.Data = <<>> THEN <<EmptyMap>> ELSE p.Data]
  <2>1. ret = pkt
    <3> DEFINE p1 == [p EXCEPT !.Time = t]
               p2 == [p1 EXCEPT !.Data = m]
               y  == p.Type  k == p.IsKeyFrame  c == p.CTime
    <3>1. p1 = [Type |-> y, IsKeyFrame |-> k, Time |-> t, CTime |-> c, Data |-> d]
          BY Retimed
    <3>2. ret = p2
          BY Zenon DEF m
    <3>3. y = "Metadata" /\ k = FALSE /\ c = 0
          BY <1>1
    <3> HIDE DEF p1, t, d, y, k, c
    <3>4. p2 = [Type |-> y, IsKeyFrame |-> k, Time |-> t, CTime |-> c, Data |-> m]
          BY <3>1
    <3> HIDE DEF p2
    <3>5. p2 = pkt
          BY <3>3, <3>4
    <3> HIDE DEF ret, pkt
    <3> QED  BY <3>2, <3>5
  <2>2. Returned(item) = <<ret>>
    <3> HIDE DEF item
    <3> QED  BY <1>2, Zenon DEF Returned
  <2> HIDE DEF ret, pkt
  <2> QED  BY <2>1, <2>2
<1>10. pkt \in Pkts
  <2> HIDE DEF d, t
  <2> QED  BY <1>1, <1>5 DEF Pkts, PacketTypes
<1> HIDE DEF tag, pkt
<1>11. <<pkt>> \in Seq(Pkts) /\ Len(<<pkt>>) = 1
      BY <1>10
<1> QED  BY <1>6, <1>7, <1>8, <1>9, <1>11 DEF OneTag, item

-----------------------------------------------------------------------------
(* Tags of other programs                                                  *)

LEMMA ForeignFields ==
    ASSUME NEW tag \in Foreign
    PROVE  /\ tag.Type \in {TAG_AUDIO, TAG_VIDEO, TAG_AMF3, TAG_AMF0} /\ tag.Type \in Nat
           /\ tag.Time \in 0..TimeMod - 1 /\ tag.Data \in Seq(Nat) /\ tag.gives \in Seq(Nat)
<1>1. /\ tag.Type \in {TAG_AUDIO, TAG_VIDEO, TAG_AMF3, TAG_AMF0}
      /\ tag.Time \in 0..TimeMod - 1 /\ tag.Data \in Seq(Nat) /\ tag.gives \in Seq(Nat)
      BY ForeignAssumption
<1> QED  BY <1>1

LEMMA Gives ==
    ASSUME NEW tag \in Foreign
    PROVE  /\ \A n \in Names(tag.Type) :
                 IsPrefix(n, tag.Data) /\ ~Bad(tag.Data) =>
                     tag.gives = IF Rest(tag.Data, Len(n)) = <<>> THEN <<EmptyMap>>
                                 ELSE Rest(tag.Data, Len(n))
           /\ Bad(tag.Data) => tag.gives = <<>>
           /\ (\A n \in Names(tag.Type) : ~IsPrefix(n, tag.Data)) => tag.gives = <<>>
<1>1. \A n \in Names(tag.Type) :
          IsPrefix(n, tag.Data) /\ ~Bad(tag.Data) =>
              tag.gives = IF SubSeq(tag.Data, Len(n) + 1, Len(tag.Data)) = <<>> THEN <<EmptyMap>>
                          ELSE SubSeq(tag.Data, Len(n) + 1, Len(tag.Data))
      BY ForeignAssumption, Zenon
<1>2. Bad(tag.Data) \/ (\A n \in Names(tag.Type) : ~IsPrefix(n, tag.Data)) => tag.gives = <<>>
      BY ForeignAssumption, Zenon
<1>3. \A n \in Names(tag.Type) :
          IsPrefix(n, tag.Data) /\ ~Bad(tag.Data) =>
              tag.gives = IF Rest(tag.Data, Len(n)) = <<>> THEN <<EmptyMap>>
                          ELSE Rest(tag.Data, Len(n))
      BY <1>1, Zenon DEF Rest
<1> QED  BY <1>2, <1>3, Zenon

\* The demuxer finds what the tag gives.
LEMMA GivesMetadata ==
    ASSUME NEW tag \in Foreign, tag.Type = TAG_AMF0 \/ tag.Type = TAG_AMF3
    PROVE  Vals(tag) \in Seq(Nat) /\ Metadata(Vals(tag)) = tag.gives
<1> DEFINE n1 == <<OnMetaData>>
           n2 == <<SetDataFrame, OnMetaData>>
           data == tag.Data
           zero == tag.Type = TAG_AMF3 /\ data # <<>> /\ data[1] = 0
<1>1. data \in Seq(Nat)
      BY ForeignFields
<1>2. TAG_AMF0 # TAG_AMF3
      OBVIOUS
<1>3. n1 \in Names(tag.Type) /\ n2 \in Names(tag.Type)
      BY <1>2 DEF Names
<1>4. \A n \in Names(tag.Type) :
          \/ n = n1 \/ n = n2
          \/ tag.Type = TAG_AMF3 /\ (n = <<0>> \o n1 \/ n = <<0>> \o n2)
      BY <1>2 DEF Names
<1>5. tag.Type = TAG_AMF3 => (<<0>> \o n1 \in Names(tag.Type) /\ <<0>> \o n2 \in Names(tag.Type))
      BY <1>2 DEF Names
<1>6. Len(n1) = 1 /\ Len(n2) = 2
      OBVIOUS
<1> DEFINE v == Vals(tag)  k == NamesIn(v)
<1>7. /\ IsPrefix(<<0>> \o n1, data) <=> data # <<>> /\ data[1] = 0 /\ IsPrefix(n1, Tail(data))
      /\ IsPrefix(<<0>> \o n2, data) <=> data # <<>> /\ data[1] = 0 /\ IsPrefix(n2, Tail(data))
      /\ Len(<<0>> \o n1) = 1 + 1 /\ Len(<<0>> \o n2) = 2 + 1
      /\ n1 \in Seq(Nat) /\ n2 \in Seq(Nat) /\ n1[1] # 0 /\ n2[1] # 0
  <2>1. n1 \in {n1, n2} /\ n2 \in {n1, n2}
        OBVIOUS
  <2> HIDE DEF data
  <2>2. /\ n1 \in Seq(Nat) /\ n1[1] # 0 /\ Len(<<0>> \o n1) = Len(n1) + 1
        /\ IsPrefix(<<0>> \o n1, data) <=> data # <<>> /\ data[1] = 0 /\ IsPrefix(n1, Tail(data))
        BY <1>1, <2>1, ZeroNames
  <2>3. /\ n2 \in Seq(Nat) /\ n2[1] # 0 /\ Len(<<0>> \o n2) = Len(n2) + 1
        /\ IsPrefix(<<0>> \o n2, data) <=> data # <<>> /\ data[1] = 0 /\ IsPrefix(n2, Tail(data))
        BY <1>1, <2>1, ZeroNames
  <2> QED  BY <1>6, <2>2, <2>3
<1>8. CASE ~zero
  <2>1. v = data
        BY <1>8 DEF Vals
  <2>2. (IsPrefix(n1, data) <=> k = 1) /\ (IsPrefix(n2, data) <=> k = 2) /\ k \in 0..2
        BY <1>1, <2>1, NamesOf, MetadataIs
  <2>3. tag.Type = TAG_AMF3 => ~IsPrefix(<<0>> \o n1, data) /\ ~IsPrefix(<<0>> \o n2, data)
        BY <1>7, <1>8
  <2> HIDE DEF n1, n2, zero, v, k
  <2>4. CASE Bad(data)
    <3>1. Metadata(v) = <<>> /\ tag.gives = <<>>
          BY <1>1, <2>1, <2>4, Gives, MetadataIs
    <3> QED  BY <1>1, <2>1, <3>1 DEF v
  <2>5. CASE ~Bad(data) /\ k = 0
    <3>1. Metadata(v) = <<>>
          BY <1>1, <2>1, <2>5, MetadataIs DEF k
    <3>2. \A n \in Names(tag.Type) : ~IsPrefix(n, data)
      <4>1. ~IsPrefix(n1, data) /\ ~IsPrefix(n2, data)
            BY <2>2, <2>5
      <4> HIDE DEF data
      <4> QED  BY <1>4, <2>3, <4>1, Zenon
    <3>3. tag.gives = <<>>
          BY <3>2, Gives
    <3> QED  BY <1>1, <2>1, <3>1, <3>3 DEF v
  <2>6. CASE ~Bad(data) /\ k = 1
    <3>1. Metadata(v) = IF Rest(v, k) = <<>> THEN <<EmptyMap>> ELSE Rest(v, k)
      <4>1. k # 0
            BY <2>6
      <4> QED  BY <1>1, <2>1, <2>6, <4>1, MetadataIs DEF k
    <3>2. tag.gives = IF Rest(data, Len(n1)) = <<>> THEN <<EmptyMap>> ELSE Rest(data, Len(n1))
      <4>1. IsPrefix(n1, data)
            BY <2>2, <2>6
      <4> QED  BY <1>3, <2>6, <4>1, Gives
    <3> QED  BY <1>1, <1>6, <2>1, <2>6, <3>1, <3>2 DEF v
  <2>7. CASE ~Bad(data) /\ k = 2
    <3>1. Metadata(v) = IF Rest(v, k) = <<>> THEN <<EmptyMap>> ELSE Rest(v, k)
      <4>1. k # 0
            BY <2>7
      <4> QED  BY <1>1, <2>1, <2>7, <4>1, MetadataIs DEF k
    <3>2. tag.gives = IF Rest(data, Len(n2)) = <<>> THEN <<EmptyMap>> ELSE Rest(data, Len(n2))
      <4>1. IsPrefix(n2, data)
            BY <2>2, <2>7
      <4> QED  BY <1>3, <2>7, <4>1, Gives
    <3> QED  BY <1>1, <1>6, <2>1, <2>7, <3>1, <3>2 DEF v
  <2> QED  BY <2>2, <2>4, <2>5, <2>6, <2>7
<1>9. CASE zero
  <2>0. data # <<>> /\ data[1] = 0 /\ tag.Type = TAG_AMF3
        BY <1>9
  <2>1. v = Tail(data) /\ Tail(data) = Rest(data, 1) /\ 1 <= Len(data) /\ 1 \in Nat
    <3>1. v = Tail(data)
          BY <1>9 DEF Vals
    <3>2. Len(data) \in Nat /\ Len(data) # 0
          BY <1>1, <2>0, EmptySeq
    <3>3. 1 <= Len(data) /\ 1 \in Nat
          BY <3>2
    <3> QED  BY <1>1, <2>0, <3>1, <3>3, TailIs
  <2>2. v \in Seq(Nat) /\ Len(v) = Len(data) - 1
        BY <1>1, <2>1, RestIs
  <2>3. Bad(v) <=> Bad(data)
    <3>1. \A i \in 1..1 : data[i] # Unparsable
          BY <2>0 DEF Unparsable
    <3> QED  BY <1>1, <2>1, <3>1, BadBehind
  <2>4. (IsPrefix(n1, v) <=> k = 1) /\ (IsPrefix(n2, v) <=> k = 2) /\ k \in 0..2 /\ k <= Len(v)
    <3> HIDE DEF v
    <3> QED  BY <2>2, NamesOf, MetadataIs
  <2>5. ~IsPrefix(n1, data) /\ ~IsPrefix(n2, data)
    <3> HIDE DEF data, n1, n2
    <3>1. ASSUME NEW n \in Seq(Nat), n[1] # 0, Len(n) \in 1..2
          PROVE  ~IsPrefix(n, data)
      <4>1. IsPrefix(n, data) => Len(n) <= Len(data) /\ \A i \in 1..Len(n) : n[i] = data[i]
            BY <1>1, PrefixIs
      <4>2. 1 \in 1..Len(n)
            BY <3>1
      <4> QED  BY <2>0, <3>1, <4>1, <4>2
    <3> QED  BY <1>6, <1>7, <3>1
  <2>6. (IsPrefix(<<0>> \o n1, data) <=> k = 1) /\ (IsPrefix(<<0>> \o n2, data) <=> k = 2)
        BY <1>7, <2>0, <2>1, <2>4
  <2>7. \A j \in 1..2 : j = k => Rest(data, j + 1) = Rest(v, j)
    <3> HIDE DEF v, k, data
    <3>1. SUFFICES ASSUME k \in 1..2
                   PROVE  Rest(data, k + 1) = Rest(v, k)
          OBVIOUS
    <3>2. k \in Nat /\ 1 + k = k + 1 /\ Len(data) \in Nat
          BY <1>1, <3>1
    <3>3. 1 + k <= Len(data)
          BY <2>2, <2>4, <3>2
    <3>4. Rest(Rest(data, 1), k) = Rest(data, 1 + k)
          BY <1>1, <3>2, <3>3, RestRest
    <3> QED  BY <2>1, <3>2, <3>4
  <2> HIDE DEF n1, n2, zero, v, k
  <2>8. CASE Bad(data)
    <3>1. Metadata(v) = <<>> /\ tag.gives = <<>>
          BY <2>2, <2>3, <2>8, Gives, MetadataIs
    <3> QED  BY <2>2, <3>1 DEF v
  <2>9. CASE ~Bad(data) /\ k = 0
    <3>1. Metadata(v) = <<>>
          BY <2>2, <2>9, MetadataIs DEF k
    <3>2. \A n \in Names(tag.Type) : ~IsPrefix(n, data)
      <4>1. ~IsPrefix(<<0>> \o n1, data) /\ ~IsPrefix(<<0>> \o n2, data)
            BY <2>6, <2>9
      <4> HIDE DEF data
      <4> QED  BY <1>4, <2>5, <4>1, Zenon
    <3>3. tag.gives = <<>>
          BY <3>2, Gives
    <3> QED  BY <2>2, <3>1, <3>3 DEF v
  <2>10. CASE ~Bad(data) /\ k = 1
    <3>1. Metadata(v) = IF Rest(v, k) = <<>> THEN <<EmptyMap>> ELSE Rest(v, k)
      <4>1. k # 0
            BY <2>10
      <4> QED  BY <2>2, <2>3, <2>10, <4>1, MetadataIs DEF k
    <3>2. tag.gives = IF Rest(data, Len(<<0>> \o n1)) = <<>> THEN <<EmptyMap>>
                      ELSE Rest(data, Len(<<0>> \o n1))
      <4>1. IsPrefix(<<0>> \o n1, data)
            BY <2>6, <2>10
      <4> QED  BY <1>5, <2>0, <2>10, <4>1, Gives
    <3>3. Rest(data, Len(<<0>> \o n1)) = Rest(v, k)
          BY <1>7, <2>7, <2>10
    <3> QED  BY <2>2, <3>1, <3>2, <3>3 DEF v
  <2>11. CASE ~Bad(data) /\ k = 2
    <3>1. Metadata(v) = IF Rest(v, k) = <<>> THEN <<EmptyMap>> ELSE Rest(v, k)
      <4>1. k # 0
            BY <2>11
      <4> QED  BY <2>2, <2>3, <2>11, <4>1, MetadataIs DEF k
    <3>2. tag.gives = IF Rest(data, Len(<<0>> \o n2)) = <<>> THEN <<EmptyMap>>
                      ELSE Rest(data, Len(<<0>> \o n2))
      <4>1. IsPrefix(<<0>> \o n2, data)
            BY <2>6, <2>11
      <4> QED  BY <1>5, <2>0, <2>11, <4>1, Gives
    <3>3. Rest(data, Len(<<0>> \o n2)) = Rest(v, k)
          BY <1>7, <2>7, <2>11
    <3> QED  BY <2>2, <3>1, <3>2, <3>3 DEF v
  <2> QED  BY <2>4, <2>8, <2>9, <2>10, <2>11
<1> QED  BY <1>8, <1>9

\* A tag that is too short for its own header.
Short(item) == item.foreign /\ Len(item.pkt.Data) < HeaderLen(item.pkt.Type, item.pkt.Data)

\* What is written of an item that makes a tag, and what reading it gives.
ReadsBack(item) ==
    LET w    == Writes(item)
        body == w[1].body \o w[2].body
        type == w[1].type
    IN  /\ w \in Seq(Writable) /\ Len(w) = 3
        /\ w[1].k = "header" /\ \A i \in 1..3 : w[i].k # "file"
        /\ Len(body) < HeaderLen(type, body) => Short(item)
        /\ ~(Len(body) < HeaderLen(type, body)) => FromTag(Parse(type, TagTime(w[1]), body)) = Returned(item)

LEMMA ForeignParsed ==
    ASSUME NEW tag \in Foreign, ~(Len(tag.Data) < HeaderLen(tag.Type, tag.Data))
    PROVE  FromTag(Parse(tag.Type, tag.Time, tag.Data)) = Returned([foreign |-> TRUE, pkt |-> tag])
<1> DEFINE d == tag.Data
           item == [foreign |-> TRUE, pkt |-> tag]
           parsed == Parse(tag.Type, tag.Time, d)
           n == HeaderLen(tag.Type, d)
<1>1. item.foreign = TRUE /\ item.pkt = tag
      OBVIOUS
<1>2. d \in Seq(Nat) /\ Len(d) \in Nat
      BY ForeignFields
<1> HIDE DEF item
<1>3. Returned(item) = IF tag.gives # <<>> THEN <<[Packet("Metadata", tag) EXCEPT !.Data = tag.gives]>>
                       ELSE <<>>
      BY <1>1, Zenon DEF Returned
<1>4. CASE tag.Type = TAG_AUDIO
  <2>1. tag.gives = <<>>
    <3>1. Names(tag.Type) = {}
          BY <1>4 DEF Names
    <3> QED  BY <3>1, Gives
  <2>2. parsed = [Type |-> TAG_AUDIO, Format |-> d[1], FrameType |-> 0,
                  PacketType |-> IF HeaderLen(TAG_AUDIO, d) = 2 THEN d[2] ELSE 0,
                  CTime |-> 0, Time |-> tag.Time,
                  Data |-> SubSeq(d, HeaderLen(TAG_AUDIO, d) + 1, Len(d))]
        BY <1>4, ParsedAudio
  <2>3. parsed.Type = TAG_AUDIO /\ parsed.Format = d[1]
        /\ parsed.PacketType = IF n = 2 THEN d[2] ELSE 0
        BY <1>4, <2>2
  <2>4. parsed.Format = SOUND_AAC => parsed.PacketType \notin {AAC_SEQHDR, AAC_RAW}
    <3> SUFFICES ASSUME d[1] = SOUND_AAC
                 PROVE  parsed.PacketType \notin {AAC_SEQHDR, AAC_RAW}
        BY <2>3
    <3>1. d # <<>>
      <4>1. d = <<>> => Len(d) = 0 /\ n = 1
            BY <1>4 DEF HeaderLen
      <4> QED  BY <4>1
    <3>2. n = 2
          BY <1>4, <3>1 DEF HeaderLen
    <3>3. Len(d) > 1
          BY <1>2, <3>2
    <3>4. d[2] \notin {AAC_SEQHDR, AAC_RAW}
          BY <1>4, <3>3, ForeignAssumption
    <3> QED  BY <2>3, <3>2, <3>4
  <2>5. TAG_AUDIO \notin {TAG_AMF0, TAG_AMF3} /\ TAG_AUDIO # TAG_VIDEO
        OBVIOUS
  <2> HIDE DEF parsed
  <2>6. FromTag(parsed) = <<>>
        BY <2>3, <2>4, <2>5 DEF FromTag
  <2> QED  BY <1>3, <2>1, <2>6 DEF parsed, item
<1>5. CASE tag.Type = TAG_VIDEO
  <2>1. tag.gives = <<>>
    <3>1. Names(tag.Type) = {}
          BY <1>5 DEF Names
    <3> QED  BY <3>1, Gives
  <2>2. parsed = [Type |-> TAG_VIDEO, Format |-> d[2], FrameType |-> d[1],
                  PacketType |-> IF HeaderLen(TAG_VIDEO, d) = 4 THEN d[3] ELSE 0,
                  CTime |-> IF HeaderLen(TAG_VIDEO, d) = 4 THEN I24(d[4]) ELSE 0, Time |-> tag.Time,
                  Data |-> SubSeq(d, HeaderLen(TAG_VIDEO, d) + 1, Len(d))]
        BY <1>5, ParsedVideo
  <2>3. parsed.Type = TAG_VIDEO /\ parsed.Format = d[2]
        /\ parsed.PacketType = IF n = 4 THEN d[3] ELSE 0
        BY <1>5, <2>2
  <2>4. parsed.Format = VIDEO_H264 => parsed.PacketType \notin {AVC_SEQHDR, AVC_NALU}
    <3> SUFFICES ASSUME d[2] = VIDEO_H264
                 PROVE  parsed.PacketType \notin {AVC_SEQHDR, AVC_NALU}
        BY <2>3
    <3>1. Len(d) > 1
      <4>1. ~(Len(d) > 1) => n = 2
            BY <1>5 DEF HeaderLen
      <4> QED  BY <1>2, <4>1
    <3>2. n = 4
          BY <1>5, <3>1 DEF HeaderLen
    <3>3. Len(d) > 3
          BY <1>2, <3>2
    <3>4. d[3] \notin {AVC_SEQHDR, AVC_NALU}
          BY <1>5, <3>3, ForeignAssumption
    <3> QED  BY <2>3, <3>2, <3>4
  <2>5. TAG_VIDEO \notin {TAG_AMF0, TAG_AMF3} /\ TAG_AUDIO # TAG_VIDEO
        OBVIOUS
  <2> HIDE DEF parsed
  <2>6. FromTag(parsed) = <<>>
        BY <2>3, <2>4, <2>5 DEF FromTag
  <2> QED  BY <1>3, <2>1, <2>6 DEF parsed, item
<1>6. CASE tag.Type = TAG_AMF0 \/ tag.Type = TAG_AMF3
  <2>1. tag.Type # TAG_AUDIO /\ tag.Type # TAG_VIDEO
        BY <1>6
  <2>2. parsed = [Type |-> tag.Type, Format |-> 0, FrameType |-> 0, PacketType |-> 0, CTime |-> 0,
                  Time |-> tag.Time, Data |-> d]
    <3>1. n = 0
          BY <2>1 DEF HeaderLen
    <3>2. SubSeq(d, n + 1, Len(d)) = d
      <4>1. n + 1 = 1
            BY <3>1
      <4>2. SubSeq(d, 1, Len(d)) = d
            BY <1>2, SubSeqFull
      <4> QED  BY <4>1, <4>2
    <3>3. parsed = [NoTag EXCEPT !.Type = tag.Type, !.Time = tag.Time, !.Data = SubSeq(d, n + 1, Len(d))]
          BY <2>1 DEF Parse
    <3>4. [NoTag EXCEPT !.Type = tag.Type, !.Time = tag.Time, !.Data = SubSeq(d, n + 1, Len(d))]
            = [Type |-> tag.Type, Format |-> 0, FrameType |-> 0, PacketType |-> 0, CTime |-> 0,
               Time |-> tag.Time, Data |-> SubSeq(d, n + 1, Len(d))]
          BY TagFields
    <3> QED  BY <3>2, <3>3, <3>4
  <2>3. parsed.Type = tag.Type /\ parsed.Time = tag.Time /\ parsed.Data = d
        BY <2>2
  <2> HIDE DEF parsed
  <2>4. Metadata(Vals(parsed)) = tag.gives
    <3>1. Vals(parsed) = Vals(tag)
          BY <2>3 DEF Vals
    <3> QED  BY <1>6, <3>1, GivesMetadata
  <2>5. Packet("Metadata", parsed) = [Type |-> "Metadata", IsKeyFrame |-> FALSE, Time |-> tag.Time,
                                      CTime |-> 0, Data |-> d]
        /\ Packet("Metadata", tag) = [Type |-> "Metadata", IsKeyFrame |-> FALSE, Time |-> tag.Time,
                                      CTime |-> 0, Data |-> d]
        BY <2>3 DEF Packet
  <2>6. Packet("Metadata", parsed) = Packet("Metadata", tag)
        BY <2>5
  <2>7. CASE tag.gives # <<>>
    <3>1. FromTag(parsed) = <<[Packet("Metadata", parsed) EXCEPT !.Data = Metadata(Vals(parsed))]>>
          BY <1>6, <2>1, <2>3, <2>4, <2>7 DEF FromTag
    <3> QED  BY <1>3, <2>4, <2>6, <2>7, <3>1 DEF parsed, item
  <2>8. CASE tag.gives = <<>>
    <3>1. FromTag(parsed) = <<>>
          BY <1>6, <2>1, <2>3, <2>4, <2>8 DEF FromTag
    <3> QED  BY <1>3, <2>8, <3>1 DEF parsed, item
  <2> QED  BY <2>7, <2>8
<1>7. tag.Type \in {TAG_AUDIO, TAG_VIDEO, TAG_AMF3, TAG_AMF0}
      BY ForeignFields
<1> QED  BY <1>4, <1>5, <1>6, <1>7

LEMMA ReturnsForeign ==
    ASSUME NEW tag \in Foreign
    PROVE  LET item == [foreign |-> TRUE, pkt |-> tag]
           IN  Returned(item) \in Seq(Pkts) /\ Len(Returned(item)) <= 1
<1> DEFINE item == [foreign |-> TRUE, pkt |-> tag]
           r == [Packet("Metadata", tag) EXCEPT !.Data = tag.gives]
           t == tag.Time  g == tag.gives
<1>1. item.foreign = TRUE /\ item.pkt = tag
      OBVIOUS
<1> HIDE DEF item
<1>2. Returned(item) = IF tag.gives # <<>> THEN <<r>> ELSE <<>>
      BY <1>1, Zenon DEF Returned
<1>3. t \in 0..TimeMod - 1 /\ g \in Seq(Nat)
      BY ForeignFields
<1>4. r \in Pkts
  <2> DEFINE p0 == Packet("Metadata", tag)
             b  == FALSE
             d  == tag.Data
  <2>1. p0 = [Type |-> "Metadata", IsKeyFrame |-> b, Time |-> t, CTime |-> 0, Data |-> d]
        BY DEF Packet
  <2> HIDE DEF p0, b, d, t, g
  <2>2. [p0 EXCEPT !.Data = g] = [Type |-> "Metadata", IsKeyFrame |-> b, Time |-> t, CTime |-> 0, Data |-> g]
        BY <2>1
  <2>3. [Type |-> "Metadata", IsKeyFrame |-> b, Time |-> t, CTime |-> 0, Data |-> g] \in Pkts
        BY <1>3 DEF b, Pkts, PacketTypes
  <2>4. r = [p0 EXCEPT !.Data = g]
        BY DEF p0, g
  <2> QED  BY <2>2, <2>3, <2>4
<1> HIDE DEF r
<1>5. /\ <<r>> \in Seq(Pkts) /\ Len(<<r>>) = 1
      /\ <<>> \in Seq(Pkts) /\ Len(<<>>) = 0
      BY <1>4
<1>6. Returned(item) \in Seq(Pkts) /\ Len(Returned(item)) <= 1
  <2>1. CASE tag.gives # <<>>
    <3>1. Returned(item) = <<r>>
          BY <1>2, <2>1
    <3> QED  BY <1>5, <3>1
  <2>2. CASE tag.gives = <<>>
    <3>1. Returned(item) = <<>>
          BY <1>2, <2>2
    <3> QED  BY <1>5, <3>1
  <2> QED  BY <2>1, <2>2
<1> QED  BY <1>6 DEF item

LEMMA ForeignReadsBack ==
    ASSUME NEW tag \in Foreign
    PROVE  ReadsBack([foreign |-> TRUE, pkt |-> tag])
<1> DEFINE item == [foreign |-> TRUE, pkt |-> tag]
           e == <<>>
           w == WriteTag(tag, e)
<1>1. item.foreign = TRUE /\ item.pkt = tag
      OBVIOUS
<1>2. FromTag(Parse(tag.Type, tag.Time, tag.Data)) = Returned(item) \/ Len(tag.Data) < HeaderLen(tag.Type, tag.Data)
      BY ForeignParsed
<1> HIDE DEF item
<1>3. Writes(item) = w
      BY <1>1 DEF Writes
<1>4. /\ tag.Time \in 0..TimeMod - 1 /\ tag.Type \in Nat /\ tag.Data \in Seq(Nat)
      /\ e \in Seq(Nat) /\ e \o tag.Data = tag.Data
  <2>1. tag.Time \in 0..TimeMod - 1 /\ tag.Type \in Nat /\ tag.Data \in Seq(Nat)
        BY ForeignFields
  <2>2. e \in Seq(Nat)
        OBVIOUS
  <2>3. e \o tag.Data = tag.Data
        BY <2>1, ConcatEmptySeq
  <2> QED  BY <2>1, <2>2, <2>3
<1> HIDE DEF e
<1>5. /\ w \in Seq(Writable) /\ Len(w) = 3
      /\ w[1].k = "header" /\ w[1].type = tag.Type /\ w[1].body = e /\ w[2].body = tag.Data
      /\ TagTime(w[1]) = tag.Time
      /\ \A i \in 1..3 : w[i].k # "file"
      BY <1>4, ThreeWrites
<1> HIDE DEF w
<1>6. w[1].body \o w[2].body = tag.Data
      BY <1>4, <1>5
<1>7. Short(item) <=> Len(tag.Data) < HeaderLen(tag.Type, tag.Data)
      BY <1>1 DEF Short
<1>8. ReadsBack(item)
      BY <1>2, <1>3, <1>5, <1>6, <1>7 DEF ReadsBack
<1> QED  BY <1>8 DEF item

\* The writes of a packet's tags, if it has one, and if it has none.
LEMMA OneTagWritten ==
    ASSUME NEW tag, WriteTag(tag, FillHeader(tag)) \in Seq(Writable)
    PROVE  FlattenSeq([i \in 1..Len(<<tag>>) |-> WriteTag(<<tag>>[i], FillHeader(<<tag>>[i]))])
                = WriteTag(tag, FillHeader(tag))
<1> DEFINE x == WriteTag(tag, FillHeader(tag))
           f == [i \in 1..Len(<<tag>>) |-> WriteTag(<<tag>>[i], FillHeader(<<tag>>[i]))]
<1>1. f = [i \in 1..1 |-> x]
  <2>1. Len(<<tag>>) = 1 /\ \A i \in 1..1 : <<tag>>[i] = tag
        OBVIOUS
  <2> QED  BY <2>1
<1> HIDE DEF f, x
<1>2. [i \in 1..1 |-> x] = <<x>>
      OBVIOUS
<1>3. FlattenSeq(<<x>>) = x
      BY FlattenOne DEF x
<1>4. FlattenSeq(f) = x
      BY <1>1, <1>2, <1>3
<1> QED  BY <1>4 DEF f, x

LEMMA NoTagWritten ==
    FlattenSeq([i \in 1..Len(<<>>) |-> WriteTag(<<>>[i], FillHeader(<<>>[i]))]) = <<>>
<1>1. [i \in 1..Len(<<>>) |-> WriteTag(<<>>[i], FillHeader(<<>>[i]))] = <<>>
      OBVIOUS
<1> QED  BY <1>1, FlattenEmpty

LEMMA PacketReadsBack ==
    ASSUME NEW p \in Packets, OneTag(p)
    PROVE  LET item == [foreign |-> FALSE, pkt |-> p]
           IN  ReadsBack(item) /\ Returned(item) \in Seq(Pkts) /\ Len(Returned(item)) = 1 /\ Tagged(item)
<1> DEFINE item == [foreign |-> FALSE, pkt |-> p]
<1>1. PICK tag \in MuxTags :
          /\ Tags(p) = <<tag>>
          /\ FromTag(tag) = Returned(item)
          /\ FromTag(tag) \in Seq(Pkts) /\ Len(FromTag(tag)) = 1
      BY DEF OneTag
<1>2. item.foreign = FALSE /\ item.pkt = p
      OBVIOUS
<1> HIDE DEF item
<1> DEFINE h == FillHeader(tag)
           body == h \o tag.Data
           w == WriteTag(tag, h)
<1>3. /\ h \in Seq(Nat) /\ tag.Type \in Nat /\ body \in Seq(Nat)
      /\ ~(Len(body) < HeaderLen(tag.Type, body))
      /\ Parse(tag.Type, tag.Time, body) = tag
      BY TagReadBack
<1>4. tag.Time \in 0..TimeMod - 1 /\ tag.Data \in Seq(Nat)
      BY DEF MuxTags
<1> HIDE DEF h, body
<1>5. /\ w \in Seq(Writable) /\ Len(w) = 3
      /\ w[1].k = "header" /\ w[1].type = tag.Type /\ w[1].body = h /\ w[2].body = tag.Data
      /\ TagTime(w[1]) = tag.Time
      /\ \A i \in 1..3 : w[i].k # "file"
      BY <1>3, <1>4, ThreeWrites
<1>6. Writes(item) = w
  <2>1. FlattenSeq([i \in 1..Len(<<tag>>) |-> WriteTag(<<tag>>[i], FillHeader(<<tag>>[i]))]) = w
        BY <1>5, OneTagWritten DEF h
  <2>2. Writes(item) = FlattenSeq([i \in 1..Len(<<tag>>) |-> WriteTag(<<tag>>[i], FillHeader(<<tag>>[i]))])
        BY <1>1, <1>2, Zenon DEF Writes
  <2> HIDE DEF w
  <2> QED  BY <2>1, <2>2
<1> HIDE DEF w
<1>7. w[1].body \o w[2].body = body
      BY <1>5 DEF body
<1>8. ReadsBack(item)
      BY <1>1, <1>3, <1>5, <1>6, <1>7 DEF ReadsBack
<1>9. Tagged(item)
      BY <1>1, <1>2 DEF Tagged
<1> QED  BY <1>1, <1>8, <1>9 DEF item

\* Every item: nothing is written and nothing returned, or it reads back.
LEMMA ItemReadsBack ==
    ASSUME NEW item \in Items
    PROVE  /\ Returned(item) \in Seq(Pkts) /\ Len(Returned(item)) <= 1
           /\ ~Tagged(item) => Writes(item) = <<>> /\ Returned(item) = <<>>
           /\ Tagged(item) => ReadsBack(item)
<1>1. CASE item.foreign = TRUE
  <2>1. item.pkt \in Foreign /\ item = [foreign |-> TRUE, pkt |-> item.pkt]
        BY <1>1 DEF Items
  <2> DEFINE tag == item.pkt  q == [foreign |-> TRUE, pkt |-> tag]
  <2>2. ReadsBack(q) /\ Returned(q) \in Seq(Pkts) /\ Len(Returned(q)) <= 1
    <3> HIDE DEF tag
    <3>1. tag \in Foreign
          BY <2>1 DEF tag
    <3> QED  BY <3>1, ForeignReadsBack, ReturnsForeign
  <2>3. Tagged(item)
        BY <1>1 DEF Tagged
  <2> HIDE DEF q
  <2>4. item = q
        BY <2>1 DEF q
  <2> QED  BY <2>2, <2>3, <2>4
<1>2. CASE item.foreign = FALSE
  <2> DEFINE p == item.pkt  q == [foreign |-> FALSE, pkt |-> p]
  <2>1. p \in Packets /\ item = q
        BY <1>2 DEF Items
  <2>2. q.foreign = FALSE /\ q.pkt = p
        OBVIOUS
  <2> HIDE DEF p, q
  <2>3. CASE OneTag(p)
    <3>1. ReadsBack(q) /\ Returned(q) \in Seq(Pkts) /\ Len(Returned(q)) = 1 /\ Tagged(q)
          BY <2>1, <2>3, PacketReadsBack DEF q
    <3> QED  BY <2>1, <3>1
  <2>4. CASE ~OneTag(p)
    <3>1. p.Type = "H264SPSPPSNALU" \/ (p.Type = "Metadata" /\ Bad(p.Data))
      <4>1. p.Type \in PacketTypes
            BY <2>1, PacketFields
      <4>2. p.Type # "AAC"
            BY <2>1, <2>4, RawAudio
      <4>3. p.Type # "AACDecoderConfig"
            BY <2>1, <2>4, AudioConfig
      <4>4. p.Type # "H264"
            BY <2>1, <2>4, Frames
      <4>5. p.Type # "H264DecoderConfig"
            BY <2>1, <2>4, VideoConfig
      <4>6. p.Type = "Metadata" => Bad(p.Data)
            BY <2>1, <2>4, MetadataTag
      <4> QED  BY <4>1, <4>2, <4>3, <4>4, <4>5, <4>6 DEF PacketTypes
    <3>2. Tags(p) = <<>>
          BY <3>1, Zenon DEF Tags
    <3>3. Returned(q) = <<>>
          BY <2>2, <3>1 DEF Returned
    <3>4. ~Tagged(q) /\ Writes(q) = <<>>
      <4>1. ~Tagged(q)
            BY <2>2, <3>2 DEF Tagged
      <4>2. Writes(q) = FlattenSeq([i \in 1..Len(<<>>) |-> WriteTag(<<>>[i], FillHeader(<<>>[i]))])
            BY <2>2, <3>2, Zenon DEF Writes
      <4> QED  BY <4>1, <4>2, NoTagWritten
    <3>5. <<>> \in Seq(Pkts) /\ Len(<<>>) <= 1
          OBVIOUS
    <3> QED  BY <2>1, <3>3, <3>4, <3>5
  <2> QED  BY <2>3, <2>4
<1>3. item.foreign \in BOOLEAN
      BY DEF Items
<1> QED  BY <1>1, <1>2, <1>3

-----------------------------------------------------------------------------
(* The file                                                                *)

\* All writes of the first k items, and all packets that come of them.
WritesOf(items) == [i \in 1..Len(items) |-> Writes(items[i])]
ReturnsOf(items) == [i \in 1..Len(items) |-> Returned(items[i])]
Written(items, k) == FlattenSeq(SubSeq(WritesOf(items), 1, k))
Given(items, k) == FlattenSeq(SubSeq(ReturnsOf(items), 1, k))

\* What the first k items are in a file.
Laid(items, k) == IF Written(items, k) = <<>> THEN <<>> ELSE <<FileHeader>> \o Written(items, k)

LEMMA PartsTyped ==
    ASSUME NEW s \in Seq(Items)
    PROVE  /\ WritesOf(s) \in Seq(Seq(Writable)) /\ Len(WritesOf(s)) = Len(s)
           /\ ReturnsOf(s) \in Seq(Seq(Pkts)) /\ Len(ReturnsOf(s)) = Len(s)
           /\ \A i \in 1..Len(s) : s[i] \in Items /\ WritesOf(s)[i] = Writes(s[i])
                                   /\ ReturnsOf(s)[i] = Returned(s[i])
<1> DEFINE n == Len(s)
<1>1. n \in Nat /\ \A i \in 1..n : s[i] \in Items
      BY ElementOfSeq
<1>2. \A i \in 1..n : Writes(s[i]) \in Seq(Writable) /\ Returned(s[i]) \in Seq(Pkts)
  <2> TAKE i \in 1..n
  <2> DEFINE x == s[i]
  <2>1. x \in Items
        BY <1>1
  <2> HIDE DEF x
  <2>2. Returned(x) \in Seq(Pkts)
        BY <2>1, ItemReadsBack
  <2>3. Writes(x) \in Seq(Writable)
    <3>1. CASE Tagged(x)
      <4>1. ReadsBack(x)
            BY <2>1, <3>1, ItemReadsBack
      <4> QED  BY <4>1 DEF ReadsBack
    <3>2. CASE ~Tagged(x)
      <4>1. Writes(x) = <<>>
            BY <2>1, <3>2, ItemReadsBack
      <4>2. <<>> \in Seq(Writable)
            OBVIOUS
      <4> QED  BY <4>1, <4>2
    <3> QED  BY <3>1, <3>2
  <2> QED  BY <2>2, <2>3 DEF x
<1> DEFINE A == Seq(Writable)  B == Seq(Pkts)
<1> HIDE DEF n, A, B
<1>3. [i \in 1..n |-> Writes(s[i])] \in Seq(A) /\ Len([i \in 1..n |-> Writes(s[i])]) = n
  <2>1. \A i \in 1..n : Writes(s[i]) \in A
        BY <1>2 DEF A
  <2> QED  BY <1>1, <2>1, IsASeq
<1>4. [i \in 1..n |-> Returned(s[i])] \in Seq(B) /\ Len([i \in 1..n |-> Returned(s[i])]) = n
  <2>1. \A i \in 1..n : Returned(s[i]) \in B
        BY <1>2 DEF B
  <2> QED  BY <1>1, <2>1, IsASeq
<1> QED  BY <1>1, <1>3, <1>4 DEF n, A, B, WritesOf, ReturnsOf

LEMMA WrittenTyped ==
    ASSUME NEW s \in Seq(Items), NEW k \in 0..Len(s)
    PROVE  Written(s, k) \in Seq(Writable) /\ Given(s, k) \in Seq(Pkts)
<1> DEFINE w == WritesOf(s)  g == ReturnsOf(s)
<1>1. w \in Seq(Seq(Writable)) /\ Len(w) = Len(s) /\ g \in Seq(Seq(Pkts)) /\ Len(g) = Len(s)
      BY PartsTyped
<1>2. k \in Nat /\ k <= k /\ k <= Len(s) /\ Len(s) \in Nat
      OBVIOUS
<1> HIDE DEF w, g
<1>3. FlattenSeq(SubSeq(w, 1, k)) \in Seq(Writable)
      BY <1>1, <1>2, FlattenUpTo
<1>4. FlattenSeq(SubSeq(g, 1, k)) \in Seq(Pkts)
      BY <1>1, <1>2, FlattenUpTo
<1> QED  BY <1>3, <1>4 DEF w, g, Written, Given

LEMMA NothingWritten ==
    ASSUME NEW s \in Seq(Items)
    PROVE  Written(s, 0) = <<>> /\ Given(s, 0) = <<>>
<1> DEFINE w == WritesOf(s)  g == ReturnsOf(s)
<1>1. w \in Seq(Seq(Writable)) /\ g \in Seq(Seq(Pkts))
      BY PartsTyped
<1> HIDE DEF w, g
<1>2. SubSeq(w, 1, 0) = <<>> /\ SubSeq(g, 1, 0) = <<>>
      BY <1>1, SubSeqEmpty
<1> QED  BY <1>2, FlattenEmpty DEF w, g, Written, Given

\* More items: their writes and packets follow, and nothing does if they make no tag.
LEMMA WrittenUpTo ==
    ASSUME NEW s \in Seq(Items), NEW a \in Nat, NEW b \in Nat, a <= b, b <= Len(s)
    PROVE  /\ \E t \in Seq(Writable) : Written(s, b) = Written(s, a) \o t
           /\ \E t \in Seq(Pkts) : Given(s, b) = Given(s, a) \o t
           /\ (\A i \in a + 1..b : ~Tagged(s[i])) =>
                  Written(s, b) = Written(s, a) /\ Given(s, b) = Given(s, a)
<1> DEFINE w == WritesOf(s)  g == ReturnsOf(s)
<1>1. w \in Seq(Seq(Writable)) /\ Len(w) = Len(s) /\ g \in Seq(Seq(Pkts)) /\ Len(g) = Len(s)
      BY PartsTyped
<1>2. \A i \in 1..Len(s) : s[i] \in Items /\ w[i] = Writes(s[i]) /\ g[i] = Returned(s[i])
      BY PartsTyped
<1>3. ASSUME \A i \in a + 1..b : ~Tagged(s[i])
      PROVE  \A i \in a + 1..b : w[i] = <<>> /\ g[i] = <<>>
  <2> HIDE DEF w, g
  <2> TAKE i \in a + 1..b
  <2> DEFINE x == s[i]
  <2>1. i \in 1..Len(s)
        OBVIOUS
  <2>2. x \in Items /\ w[i] = Writes(x) /\ g[i] = Returned(x) /\ ~Tagged(x)
        BY <1>2, <1>3, <2>1
  <2> HIDE DEF x
  <2> QED  BY <2>2, ItemReadsBack
<1> HIDE DEF w, g
<1>4. PICK t \in Seq(Writable) :
          /\ FlattenSeq(SubSeq(w, 1, b)) = FlattenSeq(SubSeq(w, 1, a)) \o t
          /\ (\A i \in a + 1..b : w[i] = <<>>) => t = <<>>
      BY <1>1, FlattenUpTo
<1>5. PICK u \in Seq(Pkts) :
          /\ FlattenSeq(SubSeq(g, 1, b)) = FlattenSeq(SubSeq(g, 1, a)) \o u
          /\ (\A i \in a + 1..b : g[i] = <<>>) => u = <<>>
      BY <1>1, FlattenUpTo
<1>6. Written(s, a) \in Seq(Writable) /\ Given(s, a) \in Seq(Pkts)
  <2>1. a \in 0..Len(s)
        OBVIOUS
  <2> QED  BY <2>1, WrittenTyped
<1>7. Written(s, b) = Written(s, a) \o t /\ Given(s, b) = Given(s, a) \o u
      BY <1>4, <1>5 DEF Written, Given, w, g
<1>8. ASSUME \A i \in a + 1..b : ~Tagged(s[i])
      PROVE  Written(s, b) = Written(s, a) /\ Given(s, b) = Given(s, a)
  <2>1. t = <<>> /\ u = <<>>
        BY <1>3, <1>4, <1>5, <1>8
  <2>2. Written(s, a) \o <<>> = Written(s, a) /\ Given(s, a) \o <<>> = Given(s, a)
        BY <1>6, ConcatEmptySeq
  <2> QED  BY <1>7, <2>1, <2>2
<1> QED  BY <1>7, <1>8

\* One item more.
LEMMA WrittenNext ==
    ASSUME NEW s \in Seq(Items), NEW k \in Nat, k + 1 <= Len(s)
    PROVE  /\ Written(s, k + 1) = Written(s, k) \o Writes(s[k + 1])
           /\ Given(s, k + 1) = Given(s, k) \o Returned(s[k + 1])
<1> DEFINE w == WritesOf(s)  g == ReturnsOf(s)  j == k + 1
<1>1. w \in Seq(Seq(Writable)) /\ Len(w) = Len(s) /\ g \in Seq(Seq(Pkts)) /\ Len(g) = Len(s)
      BY PartsTyped
<1>2. j \in 1..Len(s) /\ k \in 0..Len(s) /\ j - 1 = k /\ Len(s) \in Nat
      OBVIOUS
<1>3. w[j] = Writes(s[j]) /\ g[j] = Returned(s[j]) /\ s[j] \in Items
      BY <1>2, PartsTyped
<1> HIDE DEF w, g, j
<1>4. ASSUME NEW A, NEW q \in Seq(Seq(A)), Len(q) = Len(s)
      PROVE  FlattenSeq(SubSeq(q, 1, j)) = FlattenSeq(SubSeq(q, 1, k)) \o q[j]
  <2> DEFINE S == Seq(A)  h == SubSeq(q, 1, k)
  <2>1. q \in Seq(S) /\ q[j] \in S
        BY <1>2, <1>4, ElementOfSeq
  <2>2. SubSeq(q, 1, j) = Append(h, q[j]) /\ h \in Seq(S)
    <3> HIDE DEF S
    <3> DEFINE u == Append(h, q[j])  v == SubSeq(q, 1, j)
    <3>1. h \in Seq(S) /\ Len(h) = k /\ \A i \in 1..k : h[i] = q[i]
          BY <1>2, <1>4, <2>1, SubSeqProperties
    <3>2. v \in Seq(S) /\ Len(v) = j /\ \A i \in 1..j : v[i] = q[i]
          BY <1>2, <1>4, <2>1, SubSeqProperties
    <3> HIDE DEF h, v
    <3>3. u \in Seq(S) /\ Len(u) = Len(h) + 1 /\ (\A i \in 1..Len(h) : u[i] = h[i]) /\ u[Len(h) + 1] = q[j]
          BY <2>1, <3>1, AppendProperties
    <3>4. k + 1 = j /\ \A i \in 1..j : i \in 1..k \/ i = j
          BY <1>2
    <3> HIDE DEF u
    <3>5. Len(u) = Len(v) /\ \A i \in 1..Len(u) : u[i] = v[i]
          BY <3>1, <3>2, <3>3, <3>4
    <3>6. u = v
          BY <3>2, <3>3, <3>5, SeqEqual
    <3> QED  BY <3>1, <3>6 DEF u, v
  <2> HIDE DEF h
  <2>3. FlattenSeq(Append(h, q[j])) = FlattenSeq(h) \o q[j]
        BY <2>1, <2>2, FlattenAppend
  <2> QED  BY <2>2, <2>3 DEF h
<1>5. FlattenSeq(SubSeq(w, 1, j)) = FlattenSeq(SubSeq(w, 1, k)) \o w[j]
      BY <1>1, <1>4
<1>6. FlattenSeq(SubSeq(g, 1, j)) = FlattenSeq(SubSeq(g, 1, k)) \o g[j]
      BY <1>1, <1>4
<1>7. Written(s, j) = Written(s, k) \o Writes(s[j]) /\ Given(s, j) = Given(s, k) \o Returned(s[j])
      BY <1>3, <1>5, <1>6 DEF Written, Given, w, g
<1> QED  BY <1>7 DEF j

\* Behind the first a of b items there is another tag, or nothing to read.
LEMMA NextTag ==
    ASSUME NEW s \in Seq(Items), NEW a \in Nat, NEW b \in Nat, a <= b, b <= Len(s)
    PROVE  \/ Written(s, b) = Written(s, a) /\ Given(s, b) = Given(s, a)
           \/ \E j \in a + 1..b :
                 /\ Tagged(s[j])
                 /\ Given(s, j - 1) = Given(s, a)
                 /\ Given(s, j) = Given(s, a) \o Returned(s[j])
                 /\ Written(s, j) = Written(s, a) \o Writes(s[j])
<1> DEFINE T == {i \in a + 1..b : Tagged(s[i])}
<1>1. CASE T = {}
  <2>1. \A i \in a + 1..b : ~Tagged(s[i])
        BY <1>1
  <2> QED  BY <2>1, WrittenUpTo
<1>2. CASE T # {}
  <2>1. PICK j \in T : \A i \in T : j <= i
    <3>1. T \in SUBSET Nat
          OBVIOUS
    <3> HIDE DEF T
    <3> QED  BY <1>2, <3>1, LeastNat
  <2> DEFINE k == j - 1
  <2>2. j \in a + 1..b /\ Tagged(s[j]) /\ \A i \in a + 1..b : i < j => ~Tagged(s[i])
        BY <2>1
  <2>3. k \in Nat /\ a <= k /\ k <= Len(s) /\ k + 1 = j /\ k + 1 <= Len(s)
        BY <2>2
  <2>4. \A i \in a + 1..k : ~Tagged(s[i])
        BY <2>2
  <2> HIDE DEF k
  <2>5. Written(s, k) = Written(s, a) /\ Given(s, k) = Given(s, a)
        BY <2>3, <2>4, WrittenUpTo
  <2>6. Written(s, k + 1) = Written(s, k) \o Writes(s[k + 1])
        /\ Given(s, k + 1) = Given(s, k) \o Returned(s[k + 1])
        BY <2>3, WrittenNext
  <2>7. /\ Given(s, j - 1) = Given(s, a)
        /\ Given(s, j) = Given(s, a) \o Returned(s[j])
        /\ Written(s, j) = Written(s, a) \o Writes(s[j])
        BY <2>3, <2>5, <2>6 DEF k
  <2> QED  BY <2>2, <2>7
<1> QED  BY <1>1, <1>2

\* ReturnedOf, of the first items.
LEMMA GivenIs ==
    ASSUME NEW s \in Seq(Items), NEW k \in 0..Len(s)
    PROVE  ReturnedOf(SubSeq(s, 1, k)) = Given(s, k)
<1> DEFINE u == SubSeq(s, 1, k)
           f == [i \in 1..Len(u) |-> Returned(u[i])]
           g == ReturnsOf(s)
           h == SubSeq(g, 1, k)
           B == Seq(Pkts)
<1>1. u \in Seq(Items) /\ Len(u) = k /\ \A i \in 1..k : u[i] = s[i]
      BY SubSeqProperties
<1>2. g \in Seq(B) /\ Len(g) = Len(s) /\ \A i \in 1..Len(s) : g[i] = Returned(s[i])
      BY PartsTyped
<1>3. k \in Nat /\ k <= Len(s) /\ Len(s) \in Nat
      OBVIOUS
<1> HIDE DEF u, g, B
<1>4. h \in Seq(B) /\ Len(h) = k /\ \A i \in 1..k : h[i] = g[i]
      BY <1>2, <1>3, SubSeqProperties
<1> HIDE DEF h
<1>5. f \in Seq(B) /\ Len(f) = k /\ \A i \in 1..k : f[i] = g[i]
  <2>1. \A i \in 1..Len(u) : Returned(u[i]) = g[i] /\ g[i] \in B
    <3> TAKE i \in 1..Len(u)
    <3>1. i \in 1..k /\ i \in 1..Len(s)
          BY <1>1, <1>3
    <3> QED  BY <1>1, <1>2, <3>1, ElementOfSeq
  <2>2. Len(u) \in Nat
        BY <1>1
  <2>3. f \in Seq(B) /\ Len(f) = Len(u)
        BY <2>1, <2>2, IsASeq
  <2>4. \A i \in 1..k : f[i] = g[i]
        BY <1>1, <2>1
  <2> QED  BY <1>1, <2>3, <2>4
<1> HIDE DEF f
<1>6. f = h
      BY <1>4, <1>5, SeqEqual
<1> QED  BY <1>6 DEF ReturnedOf, Given, f, h, g, u

LEMMA GivenAll ==
    ASSUME NEW s \in Seq(Items)
    PROVE  ReturnedOf(s) = Given(s, Len(s))
<1>1. Len(s) \in 0..Len(s) /\ SubSeq(s, 1, Len(s)) = s
      BY SubSeqFull
<1>2. ReturnedOf(SubSeq(s, 1, Len(s))) = Given(s, Len(s))
      BY <1>1, GivenIs
<1> QED  BY <1>1, <1>2

\* Muxing changes nothing of what has been muxed.
LEMMA WrittenAppend ==
    ASSUME NEW s \in Seq(Items), NEW x \in Items
    PROVE  /\ Append(s, x) \in Seq(Items) /\ Len(Append(s, x)) = Len(s) + 1
           /\ \A k \in 0..Len(s) : /\ Written(Append(s, x), k) = Written(s, k)
                                   /\ Given(Append(s, x), k) = Given(s, k)
           /\ Written(Append(s, x), Len(s) + 1) = Written(s, Len(s)) \o Writes(x)
<1> DEFINE n == Len(s)  u == Append(s, x)
<1>1. /\ u \in Seq(Items) /\ Len(u) = n + 1 /\ (\A i \in 1..n : u[i] = s[i]) /\ u[n + 1] = x
      /\ n \in Nat
      BY AppendProperties
<1> HIDE DEF u
<1>2. /\ \A i \in 1..n : WritesOf(u)[i] = WritesOf(s)[i] /\ ReturnsOf(u)[i] = ReturnsOf(s)[i]
      /\ WritesOf(s) \in Seq(Seq(Writable)) /\ WritesOf(u) \in Seq(Seq(Writable))
      /\ ReturnsOf(s) \in Seq(Seq(Pkts)) /\ ReturnsOf(u) \in Seq(Seq(Pkts))
      /\ Len(WritesOf(s)) = n /\ Len(WritesOf(u)) = n + 1
      /\ Len(ReturnsOf(s)) = n /\ Len(ReturnsOf(u)) = n + 1
  <2>1. /\ WritesOf(s) \in Seq(Seq(Writable)) /\ Len(WritesOf(s)) = Len(s)
        /\ ReturnsOf(s) \in Seq(Seq(Pkts)) /\ Len(ReturnsOf(s)) = Len(s)
        /\ \A i \in 1..Len(s) : s[i] \in Items /\ WritesOf(s)[i] = Writes(s[i])
                                /\ ReturnsOf(s)[i] = Returned(s[i])
        BY PartsTyped
  <2>2. /\ WritesOf(u) \in Seq(Seq(Writable)) /\ Len(WritesOf(u)) = Len(u)
        /\ ReturnsOf(u) \in Seq(Seq(Pkts)) /\ Len(ReturnsOf(u)) = Len(u)
        /\ \A i \in 1..Len(u) : u[i] \in Items /\ WritesOf(u)[i] = Writes(u[i])
                                /\ ReturnsOf(u)[i] = Returned(u[i])
        BY <1>1, PartsTyped
  <2>3. \A i \in 1..n : i \in 1..n + 1
        BY <1>1
  <2> QED  BY <1>1, <2>1, <2>2, <2>3
<1> HIDE DEF n
<1>3. ASSUME NEW B, NEW q \in Seq(B), NEW r \in Seq(B), Len(q) = n, Len(r) = n + 1,
             \A i \in 1..n : r[i] = q[i], NEW k \in 0..n
      PROVE  SubSeq(r, 1, k) = SubSeq(q, 1, k)
  <2> DEFINE v == SubSeq(r, 1, k)  w == SubSeq(q, 1, k)
  <2>1. k \in Nat /\ k <= n /\ k <= n + 1
        BY <1>1
  <2>2. v \in Seq(B) /\ Len(v) = k /\ \A i \in 1..k : v[i] = r[i]
        BY <1>3, <2>1, SubSeqProperties
  <2>3. w \in Seq(B) /\ Len(w) = k /\ \A i \in 1..k : w[i] = q[i]
        BY <1>3, <2>1, SubSeqProperties
  <2> HIDE DEF v, w
  <2>4. \A i \in 1..k : v[i] = w[i]
    <3> TAKE i \in 1..k
    <3>1. i \in 1..n
          BY <1>1, <2>1
    <3> QED  BY <1>3, <2>2, <2>3, <3>1
  <2>5. v = w
        BY <2>2, <2>3, <2>4, SeqEqual
  <2> QED  BY <2>5 DEF v, w
<1>4. \A k \in 0..n : Written(u, k) = Written(s, k) /\ Given(u, k) = Given(s, k)
  <2> TAKE k \in 0..n
  <2> DEFINE wu == WritesOf(u)  ws == WritesOf(s)  gu == ReturnsOf(u)  gs == ReturnsOf(s)
             A == Seq(Writable)  B == Seq(Pkts)
  <2>1. /\ wu \in Seq(A) /\ ws \in Seq(A) /\ Len(ws) = n /\ Len(wu) = n + 1
        /\ \A i \in 1..n : wu[i] = ws[i]
        BY <1>2
  <2>2. /\ gu \in Seq(B) /\ gs \in Seq(B) /\ Len(gs) = n /\ Len(gu) = n + 1
        /\ \A i \in 1..n : gu[i] = gs[i]
        BY <1>2
  <2> HIDE DEF wu, ws, gu, gs, A, B
  <2>3. SubSeq(wu, 1, k) = SubSeq(ws, 1, k)
        BY <1>3, <2>1
  <2>4. SubSeq(gu, 1, k) = SubSeq(gs, 1, k)
        BY <1>3, <2>2
  <2> QED  BY <2>3, <2>4 DEF Written, Given, wu, ws, gu, gs
<1>5. Written(u, n + 1) = Written(s, n) \o Writes(x)
  <2>1. n \in Nat /\ n + 1 <= Len(u)
        BY <1>1
  <2>2. Written(u, n + 1) = Written(u, n) \o Writes(u[n + 1])
        BY <1>1, <2>1, WrittenNext
  <2>3. n \in 0..n
        BY <1>1
  <2> QED  BY <1>1, <1>4, <2>2, <2>3
<1> QED  BY <1>1, <1>4, <1>5 DEF u, n

-----------------------------------------------------------------------------
(* The invariant                                                           *)

Typed ==
    /\ sent \in Seq(Items) /\ Len(sent) <= MaxTags
    /\ file \in Seq(Writable) /\ pend \in Seq(Writable) /\ got \in Seq(Pkts)
    /\ filehdrwritten \in BOOLEAN /\ Publishing \in BOOLEAN /\ gotfilehdr \in BOOLEAN
    /\ err \in {"", "EOF", "short"} /\ pos \in 0..Len(file) /\ gopnr \in 0..Len(got)

\* The file is, with what is still to be written, all that was muxed, and it holds all items
\* but the last while something of that is still to be written.
Layout ==
    /\ file \o pend = Laid(sent, Len(sent))
    /\ pend # <<>> => sent # <<>> /\ Len(Laid(sent, Len(sent) - 1)) <= Len(file)
    /\ filehdrwritten <=> file # <<>>

\* The reader stands behind the tags of the first items, and has returned their packets.
Reading ==
    \E r \in 0..Len(sent) :
        /\ got = Given(sent, r)
        /\ IF gotfilehdr THEN pos = 1 + Len(Written(sent, r)) ELSE pos = 0 /\ r = 0

FlvInv == Typed /\ Layout /\ Reading

\* A file that begins with its header.
LEMMA HeaderIs == FileHeader \in Writable /\ FileHeader.k = "file"
<1> DEFINE e == <<>>
<1>1. FileHeader = [k |-> "file", type |-> 0, lo |-> 0, hi |-> 0, body |-> e]
      BY DEF FileHeader
<1>2. e \in Seq(Int)
      OBVIOUS
<1> HIDE DEF e
<1> QED  BY <1>1, <1>2 DEF Writable

LEMMA LaidIs ==
    ASSUME NEW s \in Seq(Items), NEW k \in 0..Len(s)
    PROVE  /\ Laid(s, k) \in Seq(Writable)
           /\ Laid(s, k) = <<>> <=> Written(s, k) = <<>>
           /\ Written(s, k) = <<>> => Len(Laid(s, k)) = 0
           /\ Written(s, k) # <<>> =>
                  /\ Laid(s, k) = <<FileHeader>> \o Written(s, k)
                  /\ Len(Laid(s, k)) = 1 + Len(Written(s, k))
                  /\ Laid(s, k)[1] = FileHeader
                  /\ \A i \in 1..Len(Written(s, k)) : Laid(s, k)[i + 1] = Written(s, k)[i]
<1> DEFINE w == Written(s, k)  h == <<FileHeader>>  l == h \o w
<1>1. w \in Seq(Writable)
      BY WrittenTyped
<1>2. h \in Seq(Writable) /\ Len(h) = 1 /\ h[1] = FileHeader
      BY HeaderIs
<1> HIDE DEF w, h
<1>3. l \in Seq(Writable) /\ Len(l) = Len(h) + Len(w)
      /\ \A i \in 1..Len(h) + Len(w) : l[i] = IF i <= Len(h) THEN h[i] ELSE w[i - Len(h)]
      BY <1>1, <1>2, ConcatProperties
<1>4. Len(w) \in Nat
      BY <1>1
<1> HIDE DEF l
<1>5. l \in Seq(Writable) /\ Len(l) = 1 + Len(w) /\ l[1] = FileHeader /\ l # <<>>
  <2>1. 1 \in 1..Len(h) + Len(w) /\ 1 <= Len(h)
        BY <1>2, <1>4
  <2>2. l[1] = h[1]
        BY <1>3, <2>1
  <2>3. Len(l) # 0
        BY <1>2, <1>3, <1>4
  <2>4. l # <<>>
        BY <1>3, <2>3, EmptySeq
  <2> QED  BY <1>2, <1>3, <2>2, <2>4
<1>6. \A i \in 1..Len(w) : l[i + 1] = w[i]
  <2> TAKE i \in 1..Len(w)
  <2>1. i + 1 \in 1..Len(h) + Len(w) /\ ~(i + 1 <= Len(h)) /\ (i + 1) - Len(h) = i
        BY <1>2, <1>4
  <2> QED  BY <1>3, <2>1
<1>7. Laid(s, k) = IF w = <<>> THEN <<>> ELSE l
      BY DEF Laid, w, l, h
<1>8. <<>> \in Seq(Writable) /\ Len(<<>>) = 0
      OBVIOUS
<1>9. CASE w = <<>>
  <2>1. Laid(s, k) = <<>>
        BY <1>7, <1>9
  <2> QED  BY <1>8, <1>9, <2>1 DEF w
<1>10. CASE w # <<>>
  <2>1. Laid(s, k) = l
        BY <1>7, <1>10
  <2> QED  BY <1>5, <1>6, <1>10, <2>1 DEF w, l, h
<1> QED  BY <1>9, <1>10

LEMMA InitInv == Init => FlvInv
<1> SUFFICES ASSUME Init
             PROVE  FlvInv
    OBVIOUS
<1> DEFINE e == <<>>
<1>1. /\ file = e /\ pend = e /\ filehdrwritten = FALSE /\ Publishing \in BOOLEAN /\ sent = e
      /\ gotfilehdr = FALSE /\ pos = 0 /\ err = "" /\ got = e /\ gopnr = 0
      BY DEF Init
<1>2. /\ e \in Seq(Items) /\ e \in Seq(Writable) /\ e \in Seq(Pkts) /\ Len(e) = 0
      OBVIOUS
<1>3. Written(e, 0) = e /\ Given(e, 0) = e
      BY <1>2, NothingWritten
<1>4. e \o e = e
      BY <1>2, ConcatEmptySeq
<1>5. Typed
  <2> HIDE DEF e
  <2>1. Len(sent) = 0 /\ Len(got) = 0 /\ Len(file) = 0
        BY <1>1, <1>2
  <2>2. Len(sent) <= MaxTags /\ pos \in 0..Len(file) /\ gopnr \in 0..Len(got)
    <3>1. MaxTags \in Nat
          BY FlvAssumption
    <3>2. 0 <= MaxTags /\ 0 \in 0..0
          BY <3>1
    <3> QED  BY <1>1, <2>1, <3>2
  <2>3. sent \in Seq(Items) /\ file \in Seq(Writable) /\ pend \in Seq(Writable) /\ got \in Seq(Pkts)
        BY <1>1, <1>2
  <2>4. filehdrwritten \in BOOLEAN /\ gotfilehdr \in BOOLEAN /\ err \in {"", "EOF", "short"}
        BY <1>1
  <2> QED  BY <1>1, <2>2, <2>3, <2>4 DEF Typed
<1>6. Layout
  <2>1. Laid(e, 0) = e
        BY <1>3 DEF Laid
  <2>2. file \o pend = Laid(sent, Len(sent))
    <3> HIDE DEF e
    <3> QED  BY <1>1, <1>2, <1>4, <2>1
  <2>3. pend = <<>> /\ file = <<>> /\ filehdrwritten = FALSE
        BY <1>1
  <2> QED  BY <2>2, <2>3 DEF Layout
<1>7. Reading
  <2> HIDE DEF e
  <2>1. 0 \in 0..Len(sent)
    <3>1. Len(sent) = 0
          BY <1>1, <1>2
    <3>2. 0 \in 0..0
          OBVIOUS
    <3> QED  BY <3>1, <3>2
  <2>2. got = Given(sent, 0) /\ IF gotfilehdr THEN pos = 1 + Len(Written(sent, 0)) ELSE pos = 0 /\ 0 = 0
        BY <1>1, <1>3
  <2> QED  BY <2>1, <2>2 DEF Reading
<1> QED  BY <1>5, <1>6, <1>7 DEF FlvInv

\* Publishing is set once, so what was muxed stays what it was.
LEMMA WrittenStays ==
    ASSUME Publishing' = Publishing
    PROVE  /\ \A x : Writes(x)' = Writes(x)
           /\ \A s, k : Written(s, k)' = Written(s, k) /\ Laid(s, k)' = Laid(s, k)
<1>1. \A x : Writes(x)' = Writes(x)
      BY DEF Writes, Tags
<1>2. \A s : WritesOf(s)' = WritesOf(s)
      BY <1>1 DEF WritesOf
<1>3. \A s, k : Written(s, k)' = Written(s, k)
      BY <1>2 DEF Written
<1>4. \A s, k : Laid(s, k)' = Laid(s, k)
      BY <1>3 DEF Laid
<1> QED  BY <1>1, <1>3, <1>4

LEMMA MuxInv ==
    ASSUME FlvInv, NEW item \in Items, Mux(item, Writes(item))
    PROVE  FlvInv'
<1> DEFINE n == Len(sent)
           w == Writes(item)
           h == IF FileHeaderDue(w) THEN <<FileHeader>> ELSE <<>>
<1>1. /\ pend = <<>> /\ n < MaxTags /\ sent' = Append(sent, item) /\ pend' = h \o w
      /\ file' = file /\ filehdrwritten' = filehdrwritten /\ Publishing' = Publishing
      /\ gotfilehdr' = gotfilehdr /\ pos' = pos /\ err' = err /\ got' = got /\ gopnr' = gopnr
      BY DEF Mux, readervars
<1>2. /\ sent \in Seq(Items)
      /\ file \in Seq(Writable) /\ pend \in Seq(Writable) /\ got \in Seq(Pkts)
      /\ filehdrwritten \in BOOLEAN /\ Publishing \in BOOLEAN /\ gotfilehdr \in BOOLEAN
      /\ err \in {"", "EOF", "short"} /\ pos \in 0..Len(file) /\ gopnr \in 0..Len(got)
      BY DEF FlvInv, Typed
<1>a. /\ n \in Nat /\ n <= MaxTags /\ n \in 0..n /\ n + 1 \in 0..n + 1 /\ n + 1 <= MaxTags
      /\ n + 1 # 0 /\ (n + 1) - 1 = n
  <2>1. n \in Nat
        BY <1>2, LenProperties
  <2>2. MaxTags \in Nat
        BY FlvAssumption
  <2> HIDE DEF n
  <2> QED  BY <1>1, <2>1, <2>2
<1>3. file \o pend = Laid(sent, n) /\ (filehdrwritten <=> file # <<>>)
      BY DEF FlvInv, Layout
<1>4. file = Laid(sent, n)
  <2>1. file \o <<>> = file
        BY <1>2, ConcatEmptySeq
  <2> QED  BY <1>1, <1>3, <2>1
<1>5. /\ sent' \in Seq(Items) /\ Len(sent') = n + 1
      /\ \A k \in 0..n : /\ Written(sent', k) = Written(sent, k)
                         /\ Given(sent', k) = Given(sent, k)
      /\ Written(sent', n + 1) = Written(sent, n) \o w
      BY <1>1, <1>2, WrittenAppend
<1>6. \A k : Written(sent, k)' = Written(sent', k) /\ Laid(sent, k)' = Laid(sent', k)
      BY <1>1, WrittenStays
<1>7. w \in Seq(Writable)
  <2>1. CASE Tagged(item)
    <3>1. ReadsBack(item)
          BY <2>1, ItemReadsBack
    <3> QED  BY <3>1 DEF ReadsBack
  <2>2. CASE ~Tagged(item)
    <3>1. Writes(item) = <<>>
          BY <2>2, ItemReadsBack
    <3>2. <<>> \in Seq(Writable)
          OBVIOUS
    <3> QED  BY <3>1, <3>2
  <2> QED  BY <2>1, <2>2
<1> HIDE DEF w, n
<1>8. Written(sent, n) \in Seq(Writable)
      BY <1>2, <1>a, WrittenTyped DEF n
<1>9. h \o w \in Seq(Writable) /\ file \o (h \o w) = Laid(sent', n + 1) /\ (w = <<>> => h \o w = <<>>)
  <2>0. <<>> \in Seq(Writable) /\ <<FileHeader>> \in Seq(Writable)
        BY HeaderIs
  <2>1. CASE w = <<>>
    <3>1. h = <<>>
          BY <2>1 DEF FileHeaderDue
    <3>2. h \o w = <<>> /\ file \o (h \o w) = file
      <4>1. <<>> \o <<>> = <<>> /\ file \o <<>> = file
            BY <1>2, <2>0, ConcatEmptySeq
      <4> QED  BY <2>1, <3>1, <4>1
    <3>3. Written(sent', n + 1) = Written(sent, n)
      <4>1. Written(sent, n) \o <<>> = Written(sent, n)
            BY <1>8, ConcatEmptySeq
      <4> QED  BY <1>5, <2>1, <4>1
    <3>4. Laid(sent', n + 1) = Laid(sent, n)
          BY <3>3 DEF Laid
    <3> QED  BY <1>4, <2>0, <3>2, <3>4
  <2>2. CASE w # <<>> /\ ~filehdrwritten
    <3>1. h = <<FileHeader>>
          BY <2>2 DEF FileHeaderDue
    <3>2. file = <<>> /\ Written(sent, n) = <<>>
      <4>1. file = <<>>
            BY <1>3, <2>2
      <4> QED  BY <1>2, <1>4, <1>a, <4>1, LaidIs DEF n
    <3> HIDE DEF h
    <3>3. Written(sent', n + 1) = w
      <4>1. <<>> \o w = w
            BY <1>7, ConcatEmptySeq
      <4> QED  BY <1>5, <3>2, <4>1
    <3>4. Laid(sent', n + 1) = h \o w
          BY <2>2, <3>1, <3>3 DEF Laid
    <3>5. h \o w \in Seq(Writable)
          BY <1>7, <2>0, <3>1, ConcatProperties
    <3>6. <<>> \o (h \o w) = h \o w
          BY <3>5, ConcatEmptySeq
    <3> QED  BY <2>2, <3>2, <3>4, <3>5, <3>6 DEF h
  <2>3. CASE w # <<>> /\ filehdrwritten
    <3>1. h = <<>>
          BY <2>3 DEF FileHeaderDue
    <3>2. h \o w = w
      <4>1. <<>> \o w = w
            BY <1>7, ConcatEmptySeq
      <4> QED  BY <3>1, <4>1
    <3> HIDE DEF h
    <3> DEFINE v == Written(sent, n)  f == <<FileHeader>>
    <3>3. v # <<>> /\ file = f \o v
      <4>1. file # <<>>
            BY <1>3, <2>3
      <4> QED  BY <1>2, <1>4, <1>a, <4>1, LaidIs DEF n
    <3> HIDE DEF v, f
    <3>4. v \in Seq(Writable) /\ f \in Seq(Writable) /\ w \in Seq(Writable)
          BY <1>7, <1>8, <2>0 DEF v, f
    <3>5. (f \o v) \o w = f \o (v \o w)
          BY <3>4, ConcatAssociative
    <3>6. v \o w # <<>>
      <4>1. v \o w = <<>> <=> v = <<>> /\ w = <<>>
            BY <3>4, ConcatEqualIffEmpty
      <4> QED  BY <2>3, <4>1
    <3>7. Laid(sent', n + 1) = f \o (v \o w)
          BY <1>5, <3>6 DEF Laid, v, f
    <3> QED  BY <1>7, <2>3, <3>2, <3>3, <3>5, <3>7 DEF h
  <2>4. filehdrwritten = TRUE \/ filehdrwritten = FALSE
        BY <1>2
  <2> QED  BY <2>1, <2>2, <2>3, <2>4
<1> HIDE DEF h
<1>10. Typed'
  <2>1. Len(sent') <= MaxTags
        BY <1>5, <1>a
  <2> QED  BY <1>1, <1>2, <1>5, <1>9, <2>1 DEF Typed
<1>11. Layout'
  <2>1. file' \o pend' = Laid(sent, Len(sent))'
        BY <1>1, <1>5, <1>6, <1>9
  <2>2. sent' # <<>> /\ Len(sent') - 1 = n
    <3>1. Len(sent') # 0
          BY <1>5, <1>a
    <3>2. sent' # <<>>
          BY <1>5, <3>1, EmptySeq
    <3> QED  BY <1>5, <1>a, <3>2
  <2>3. Len(Laid(sent, Len(sent) - 1)') = Len(file)
    <3>1. Laid(sent, Len(sent) - 1)' = Laid(sent', n)
          BY <1>6, <2>2
    <3>2. Laid(sent', n) = Laid(sent, n)
          BY <1>5, <1>a DEF Laid
    <3> QED  BY <1>4, <3>1, <3>2
  <2>4. Len(file) \in Nat
    <3>1. file \in Seq(Writable)
          BY <1>2
    <3> QED  BY <3>1, LenProperties
  <2> QED  BY <1>1, <1>3, <2>1, <2>2, <2>3, <2>4 DEF Layout
<1>12. Reading'
  <2>1. PICK r \in 0..Len(sent) :
            /\ got = Given(sent, r)
            /\ IF gotfilehdr THEN pos = 1 + Len(Written(sent, r)) ELSE pos = 0 /\ r = 0
        BY DEF FlvInv, Reading
  <2>2. r \in 0..n /\ r \in 0..Len(sent')
    <3>1. r \in 0..n
          BY DEF n
    <3>2. r \in 0..n + 1
          BY <1>a, <3>1
    <3> QED  BY <1>5, <3>1, <3>2
  <2>3. Given(sent, r)' = Given(sent, r) /\ Written(sent, r)' = Written(sent, r)
    <3>1. Given(sent, r)' = Given(sent', r)
          OBVIOUS
    <3> QED  BY <1>5, <1>6, <2>2, <3>1
  <2> QED  BY <1>1, <2>1, <2>2, <2>3 DEF Reading
<1> QED  BY <1>10, <1>11, <1>12 DEF FlvInv

LEMMA WriteInv ==
    ASSUME FlvInv, Write
    PROVE  FlvInv'
<1> DEFINE x == Head(pend)  q == Tail(pend)  l == Laid(sent, Len(sent))
<1>1. /\ pend # <<>> /\ file' = Append(file, x) /\ pend' = q
      /\ filehdrwritten' = (filehdrwritten \/ x.k = "file")
      /\ Publishing' = Publishing /\ sent' = sent
      /\ gotfilehdr' = gotfilehdr /\ pos' = pos /\ err' = err /\ got' = got /\ gopnr' = gopnr
      BY DEF Write, readervars
<1>2. /\ sent \in Seq(Items) /\ Len(sent) <= MaxTags
      /\ file \in Seq(Writable) /\ pend \in Seq(Writable) /\ got \in Seq(Pkts)
      /\ filehdrwritten \in BOOLEAN /\ Publishing \in BOOLEAN /\ gotfilehdr \in BOOLEAN
      /\ err \in {"", "EOF", "short"} /\ pos \in 0..Len(file) /\ gopnr \in 0..Len(got)
      BY DEF FlvInv, Typed
<1>3. /\ file \o pend = l /\ (filehdrwritten <=> file # <<>>)
      /\ sent # <<>> /\ Len(Laid(sent, Len(sent) - 1)) <= Len(file)
      BY <1>1 DEF FlvInv, Layout
<1>4. /\ x \in Writable /\ q \in Seq(Writable) /\ Len(q) = Len(pend) - 1
      /\ (\A i \in 1..Len(pend) - 1 : q[i] = pend[i + 1]) /\ x = pend[1]
      /\ Len(pend) \in Nat /\ Len(pend) >= 1 /\ Len(file) \in Nat
  <2>1. x \in Writable /\ q \in Seq(Writable) /\ Len(q) = Len(pend) - 1
        /\ \A i \in 1..Len(q) : q[i] = pend[i + 1]
        BY <1>1, <1>2, HeadTailProperties
  <2>2. Len(pend) \in Nat /\ Len(file) \in Nat /\ Len(pend) # 0
        BY <1>1, <1>2, LenProperties, EmptySeq
  <2>3. x = pend[1]
        OBVIOUS
  <2> HIDE DEF x, q
  <2>4. Len(pend) >= 1
        BY <2>2
  <2> QED  BY <2>1, <2>2, <2>3, <2>4
<1> HIDE DEF x, q, l
<1>5. /\ file' \in Seq(Writable) /\ Len(file') = Len(file) + 1 /\ file' # <<>>
      /\ (\A i \in 1..Len(file) : file'[i] = file[i]) /\ file'[Len(file) + 1] = x
  <2> DEFINE f == Append(file, x)
  <2>1. file \in Seq(Writable) /\ x \in Writable /\ Len(file) \in Nat
        BY <1>2, <1>4
  <2>2. /\ f \in Seq(Writable) /\ Len(f) = Len(file) + 1
        /\ (\A i \in 1..Len(file) : f[i] = file[i]) /\ f[Len(file) + 1] = x
        BY <2>1, AppendProperties
  <2>3. f # <<>>
    <3> HIDE DEF f
    <3>1. Len(f) # 0
          BY <2>1, <2>2
    <3> QED  BY <2>2, <3>1, EmptySeq
  <2>4. file' = f
        BY <1>1
  <2> HIDE DEF f
  <2> QED  BY <2>2, <2>3, <2>4
<1>6. file' \o q = file \o pend
  <2> DEFINE n == Len(file)  m == Len(pend)
             a == file' \o q  b == file \o pend
  <2>1. /\ a \in Seq(Writable) /\ Len(a) = Len(file') + Len(q)
        /\ \A i \in 1..Len(file') + Len(q) : a[i] = IF i <= Len(file') THEN file'[i] ELSE q[i - Len(file')]
        BY <1>4, <1>5, ConcatProperties
  <2>2. /\ b \in Seq(Writable) /\ Len(b) = n + m
        /\ \A i \in 1..n + m : b[i] = IF i <= n THEN file[i] ELSE pend[i - n]
        BY <1>2, ConcatProperties
  <2> HIDE DEF a, b
  <2>3. Len(a) = n + m /\ \A i \in 1..n + m : a[i] = IF i <= n + 1 THEN file'[i] ELSE q[i - (n + 1)]
    <3>1. Len(file') = n + 1 /\ (n + 1) + (m - 1) = n + m
          BY <1>4, <1>5
    <3> HIDE DEF n, m
    <3> QED  BY <1>4, <2>1, <3>1 DEF m
  <2>4. \A i \in 1..n + m : a[i] = b[i]
    <3> TAKE i \in 1..n + m
    <3>1. CASE i <= n
      <4>1. i \in 1..n /\ i <= n + 1
            BY <1>4, <3>1
      <4>2. a[i] = file'[i] /\ file'[i] = file[i] /\ b[i] = file[i]
            BY <1>5, <2>2, <2>3, <4>1
      <4> QED  BY <4>2
    <3>2. CASE i = n + 1
      <4>1. ~(i <= n) /\ i <= n + 1 /\ i - n = 1
            BY <1>4, <3>2
      <4>2. a[i] = file'[i] /\ file'[i] = x /\ b[i] = pend[1]
            BY <1>5, <2>2, <2>3, <3>2, <4>1
      <4> QED  BY <1>4, <4>2
    <3>3. CASE i > n + 1
      <4> DEFINE j == i - (n + 1)
      <4>1. ~(i <= n) /\ ~(i <= n + 1) /\ i - n = j + 1 /\ j \in 1..m - 1
            BY <1>4, <3>3
      <4> HIDE DEF n, m
      <4>2. a[i] = q[j] /\ b[i] = pend[j + 1]
            BY <2>2, <2>3, <4>1
      <4> HIDE DEF j
      <4>3. q[j] = pend[j + 1]
            BY <1>4, <4>1 DEF m
      <4> QED  BY <4>2, <4>3
    <3>4. n \in Nat /\ i \in Int
          BY <1>4
    <3> HIDE DEF n
    <3> QED  BY <3>1, <3>2, <3>3, <3>4
  <2>5. a = b
        BY <2>1, <2>2, <2>3, <2>4, SeqEqual
  <2> QED  BY <2>5 DEF a, b
<1>7. filehdrwritten' = TRUE
  <2>1. CASE filehdrwritten
        BY <1>1, <2>1
  <2>2. CASE ~filehdrwritten
    <3>1. file = <<>>
          BY <1>3, <2>2
    <3>2. pend = l
      <4>1. <<>> \o pend = pend
            BY <1>2, ConcatEmptySeq
      <4> QED  BY <1>3, <3>1, <4>1
    <3>3. l[1] = FileHeader
      <4>1. Len(sent) \in 0..Len(sent)
        <5>1. Len(sent) \in Nat
              BY <1>2, LenProperties
        <5> QED  BY <5>1
      <4>2. l # <<>>
            BY <1>1, <3>2
      <4> QED  BY <1>2, <4>1, <4>2, LaidIs DEF l
    <3>4. x = FileHeader
          BY <1>4, <3>2, <3>3
    <3> QED  BY <1>1, <3>4, HeaderIs
  <2> QED  BY <2>1, <2>2
<1>8. \A k : Written(sent, k)' = Written(sent, k) /\ Laid(sent, k)' = Laid(sent, k)
      BY <1>1, WrittenStays
<1>9. Typed'
  <2>1. pos \in 0..Len(file')
    <3>1. pos \in 0..Len(file)
          BY <1>2
    <3>2. Len(file) \in Nat
          BY <1>4
    <3>3. Len(file') = Len(file) + 1
          BY <1>5
    <3> QED  BY <3>1, <3>2, <3>3
  <2> QED  BY <1>1, <1>2, <1>4, <1>5, <1>7, <2>1 DEF Typed
<1>10. Layout'
  <2>1. file' \o pend' = Laid(sent, Len(sent))'
        BY <1>1, <1>3, <1>6, <1>8 DEF l
  <2>2. Len(Laid(sent, Len(sent) - 1)') <= Len(file')
    <3>1. Len(sent) \in Nat /\ Len(sent) # 0
          BY <1>2, <1>3, LenProperties, EmptySeq
    <3>2. Len(sent) - 1 \in 0..Len(sent)
          BY <3>1
    <3>3. Len(Laid(sent, Len(sent) - 1)) \in Nat
          BY <1>2, <3>2, LaidIs, LenProperties
    <3>4. Laid(sent, Len(sent) - 1)' = Laid(sent, Len(sent) - 1)
          BY <1>1, <1>8
    <3> QED  BY <1>3, <1>4, <1>5, <3>3, <3>4
  <2> QED  BY <1>1, <1>3, <1>5, <1>7, <2>1, <2>2 DEF Layout
<1>11. Reading'
  <2>1. PICK r \in 0..Len(sent) :
            /\ got = Given(sent, r)
            /\ IF gotfilehdr THEN pos = 1 + Len(Written(sent, r)) ELSE pos = 0 /\ r = 0
        BY DEF FlvInv, Reading
  <2>2. Given(sent, r)' = Given(sent, r) /\ Written(sent, r)' = Written(sent, r)
    <3>1. Given(sent, r)' = Given(sent', r)
          OBVIOUS
    <3> QED  BY <1>1, <1>8, <3>1
  <2> QED  BY <1>1, <2>1, <2>2 DEF Reading
<1> QED  BY <1>9, <1>10, <1>11 DEF FlvInv

-----------------------------------------------------------------------------
(* What the reader finds                                                   *)

\* There is nothing behind the tag the reader has read last, or there is the tag of item j,
\* of which something may be missing only if it is the last.
AtEnd == Len(file) = pos /\ pend = <<>> /\ got = Given(sent, Len(sent))

AtTag(j) ==
    /\ Given(sent, j - 1) = got
    /\ Given(sent, j) = got \o Returned(sent[j])
    /\ pos + 3 = 1 + Len(Written(sent, j))
    /\ \A q \in 1..3 : pos + q <= Len(file) => file[pos + q] = Writes(sent[j])[q]
    /\ pos + 3 > Len(file) => pend # <<>> /\ j = Len(sent)

\* What the reader finds at the places of a file that is laid out.
LEMMA PlacesIn ==
    ASSUME NEW R \in Seq(Writable), NEW x \in Seq(Writable), NEW t \in Seq(Writable), Len(x) = 3
    PROVE  /\ \A q \in 1..3 : /\ Len(R) + q \in 1..Len((R \o x) \o t)
                              /\ ((R \o x) \o t)[Len(R) + q] = x[q]
           /\ Len(R \o x) = Len(R) + 3 /\ Len((R \o x) \o t) >= Len(R) + 3
<1> DEFINE u == R \o x  v == u \o t  n == Len(R)
<1>1. n \in Nat /\ Len(t) \in Nat
      OBVIOUS
<1>a. ASSUME NEW a \in Seq(Writable), NEW b \in Seq(Writable)
      PROVE  a \o b \in Seq(Writable) /\ Len(a \o b) = Len(a) + Len(b)
             /\ \A i \in 1..Len(a) + Len(b) : (a \o b)[i] = IF i <= Len(a) THEN a[i] ELSE b[i - Len(a)]
      BY ConcatProperties
<1>2. u \in Seq(Writable) /\ Len(u) = n + 3 /\ \A i \in 1..n + 3 : u[i] = IF i <= n THEN R[i] ELSE x[i - n]
  <2>1. R \in Seq(Writable) /\ x \in Seq(Writable)
        OBVIOUS
  <2>2. u \in Seq(Writable) /\ Len(u) = n + Len(x)
        /\ \A i \in 1..n + Len(x) : u[i] = IF i <= n THEN R[i] ELSE x[i - n]
        BY <1>a, <2>1
  <2> QED  BY <2>2
<1> HIDE DEF u
<1>3. v \in Seq(Writable) /\ Len(v) = Len(u) + Len(t)
      /\ \A i \in 1..Len(u) + Len(t) : v[i] = IF i <= Len(u) THEN u[i] ELSE t[i - Len(u)]
      BY <1>2, <1>a
<1> HIDE DEF v, n
<1>4. \A q \in 1..3 : n + q \in 1..Len(v) /\ v[n + q] = x[q]
  <2> TAKE q \in 1..3
  <2>1. /\ n + q \in 1..n + 3 /\ n + q \in 1..Len(u) + Len(t) /\ n + q <= Len(u)
        /\ ~(n + q <= n) /\ (n + q) - n = q
        BY <1>1, <1>2
  <2>2. v[n + q] = u[n + q] /\ u[n + q] = x[(n + q) - n]
        BY <1>2, <1>3, <2>1
  <2> QED  BY <1>3, <2>1, <2>2
<1>5. Len(v) >= n + 3
      BY <1>1, <1>2, <1>3
<1> QED  BY <1>2, <1>4, <1>5 DEF u, v, n

\* Longer files hold more items.
LEMMA WrittenGrows ==
    ASSUME NEW s \in Seq(Items), NEW a \in Nat, NEW b \in Nat, a <= b, b <= Len(s)
    PROVE  Len(Written(s, a)) <= Len(Written(s, b)) /\ Len(Written(s, a)) \in Nat
<1>1. a \in 0..Len(s)
      OBVIOUS
<1>2. Written(s, a) \in Seq(Writable)
      BY <1>1, WrittenTyped
<1>3. PICK t \in Seq(Writable) : Written(s, b) = Written(s, a) \o t
      BY WrittenUpTo
<1>4. Len(Written(s, b)) = Len(Written(s, a)) + Len(t)
      BY <1>2, <1>3, ConcatProperties
<1>5. Len(t) \in Nat /\ Len(Written(s, a)) \in Nat
      BY <1>2, LenProperties
<1> QED  BY <1>4, <1>5

LEMMA Stands ==
    ASSUME FlvInv, gotfilehdr
    PROVE  AtEnd \/ \E j \in 1..Len(sent) : Tagged(sent[j]) /\ AtTag(j)
<1> DEFINE n == Len(sent)
           l == file \o pend
           W == Written(sent, n)
<1>1. /\ sent \in Seq(Items) /\ file \in Seq(Writable) /\ pend \in Seq(Writable)
      /\ pos \in 0..Len(file)
      BY DEF FlvInv, Typed
<1>2. n \in Nat /\ Len(file) \in Nat /\ Len(pend) \in Nat /\ n \in 0..n
  <2>1. n \in Nat /\ Len(file) \in Nat /\ Len(pend) \in Nat
        BY <1>1, LenProperties
  <2> HIDE DEF n
  <2> QED  BY <2>1
<1>3. l = Laid(sent, n) /\ (pend # <<>> => sent # <<>> /\ Len(Laid(sent, n - 1)) <= Len(file))
      BY DEF FlvInv, Layout
<1>4. PICK r \in 0..n : got = Given(sent, r) /\ pos = 1 + Len(Written(sent, r))
      BY DEF FlvInv, Reading
<1> DEFINE R == Written(sent, r)
<1>5. R \in Seq(Writable) /\ W \in Seq(Writable) /\ Len(R) \in Nat /\ Len(W) \in Nat
  <2>1. R \in Seq(Writable) /\ W \in Seq(Writable)
    <3> HIDE DEF n
    <3>1. r \in 0..Len(sent) /\ n \in 0..Len(sent)
          BY <1>2 DEF n
    <3> QED  BY <1>1, <3>1, WrittenTyped
  <2> HIDE DEF R, W
  <2> QED  BY <2>1, LenProperties
<1>6. /\ l \in Seq(Writable) /\ Len(l) = Len(file) + Len(pend)
      /\ \A i \in 1..Len(file) : l[i] = file[i]
  <2> HIDE DEF l
  <2>1. l \in Seq(Writable) /\ Len(l) = Len(file) + Len(pend)
        /\ \A i \in 1..Len(file) + Len(pend) : l[i] = IF i <= Len(file) THEN file[i] ELSE pend[i - Len(file)]
        BY <1>1, ConcatProperties DEF l
  <2>2. \A i \in 1..Len(file) : i \in 1..Len(file) + Len(pend) /\ i <= Len(file)
        BY <1>2
  <2> QED  BY <2>1, <2>2
<1> HIDE DEF l
<1>7. W # <<>>
  <2> SUFFICES ASSUME W = <<>>
               PROVE  FALSE
      OBVIOUS
  <2>1. Len(l) = 0
    <3> HIDE DEF n
    <3>1. n \in 0..Len(sent)
          BY <1>2 DEF n
    <3> QED  BY <1>1, <1>3, <3>1, LaidIs
  <2>2. pos >= 1 /\ pos <= Len(file)
    <3> HIDE DEF R
    <3>1. pos = 1 + Len(R)
          BY <1>4 DEF R
    <3>2. pos \in 0..Len(file)
          BY <1>1
    <3> QED  BY <1>2, <1>5, <3>1, <3>2
  <2>3. Len(file) + Len(pend) = 0
        BY <1>6, <2>1
  <2>4. pos \in 0..Len(file)
        BY <1>1
  <2> QED  BY <1>2, <2>2, <2>3, <2>4
<1>8. Len(l) = 1 + Len(W) /\ \A i \in 1..Len(W) : l[i + 1] = W[i]
  <2> HIDE DEF n
  <2>1. n \in 0..Len(sent)
        BY <1>2 DEF n
  <2> QED  BY <1>1, <1>3, <1>7, <2>1, LaidIs
<1> HIDE DEF n
<1>9. r \in Nat /\ r <= n /\ n <= n
      BY <1>2
<1>10. CASE W = R /\ Given(sent, n) = Given(sent, r)
  <2>1. Len(file) = pos /\ Len(pend) = 0
    <3>1. pos = 1 + Len(R) /\ Len(l) = 1 + Len(R)
          BY <1>4, <1>8, <1>10
    <3>2. pos \in 0..Len(file)
          BY <1>1
    <3>3. Len(l) = Len(file) + Len(pend)
          BY <1>6
    <3> QED  BY <1>2, <1>5, <3>1, <3>2, <3>3
  <2>2. pend = <<>>
        BY <1>1, <2>1, EmptySeq
  <2> QED  BY <1>4, <1>10, <2>1, <2>2 DEF AtEnd, n
<1>11. CASE \E j \in r + 1..n :
                 /\ Tagged(sent[j])
                 /\ Given(sent, j - 1) = Given(sent, r)
                 /\ Given(sent, j) = Given(sent, r) \o Returned(sent[j])
                 /\ Written(sent, j) = R \o Writes(sent[j])
  <2>1. PICK j \in r + 1..n :
                 /\ Tagged(sent[j])
                 /\ Given(sent, j - 1) = Given(sent, r)
                 /\ Given(sent, j) = Given(sent, r) \o Returned(sent[j])
                 /\ Written(sent, j) = R \o Writes(sent[j])
        BY <1>11
  <2> DEFINE item == sent[j]
             x == Writes(item)
             J == Written(sent, j)
  <2>2. j \in 1..n /\ j \in Nat /\ j <= n
        BY <1>9
  <2>3. x \in Seq(Writable) /\ Len(x) = 3
    <3>1. item \in Items
          BY <1>1, <2>2, ElementOfSeq DEF n
    <3>2. Tagged(item)
          BY <2>1
    <3> HIDE DEF item
    <3>3. ReadsBack(item)
          BY <3>1, <3>2, ItemReadsBack
    <3> QED  BY <3>3 DEF ReadsBack
  <2> HIDE DEF item, x, R, W, J
  <2>4. J = R \o x
        BY <2>1 DEF J, x, item
  <2>5. PICK t \in Seq(Writable) : W = J \o t
    <3>1. sent \in Seq(Items) /\ j \in Nat /\ n \in Nat /\ j <= n /\ n <= Len(sent)
          BY <1>1, <1>2, <2>2 DEF n
    <3>2. \E t \in Seq(Writable) : Written(sent, n) = Written(sent, j) \o t
          BY <3>1, WrittenUpTo
    <3> QED  BY <3>2 DEF W, J
  <2>6. /\ \A q \in 1..3 : Len(R) + q \in 1..Len(W) /\ W[Len(R) + q] = x[q]
        /\ Len(J) = Len(R) + 3 /\ Len(W) >= Len(R) + 3
    <3>1. /\ \A q \in 1..3 : /\ Len(R) + q \in 1..Len((R \o x) \o t)
                              /\ ((R \o x) \o t)[Len(R) + q] = x[q]
          /\ Len(R \o x) = Len(R) + 3 /\ Len((R \o x) \o t) >= Len(R) + 3
          BY <1>5, <2>3, PlacesIn
    <3>2. W = (R \o x) \o t
          BY <2>4, <2>5
    <3> QED  BY <2>4, <3>1, <3>2
  <2>7. pos = 1 + Len(R)
        BY <1>4 DEF R
  <2>8. \A q \in 1..3 : pos + q <= Len(file) => file[pos + q] = x[q]
    <3> SUFFICES ASSUME NEW q \in 1..3, pos + q <= Len(file)
                 PROVE  file[pos + q] = x[q]
        OBVIOUS
    <3>1. pos + q = (Len(R) + q) + 1 /\ pos + q \in 1..Len(file)
          BY <1>2, <1>5, <2>7
    <3>2. l[(Len(R) + q) + 1] = W[Len(R) + q] /\ W[Len(R) + q] = x[q]
          BY <1>8, <2>6
    <3>3. file[pos + q] = l[pos + q]
          BY <1>6, <3>1
    <3> QED  BY <3>1, <3>2, <3>3
  <2>9. pos + 3 = 1 + Len(J)
        BY <1>5, <2>6, <2>7
  <2>10. ASSUME pos + 3 > Len(file)
         PROVE  pend # <<>> /\ j = n
    <3>1. Len(l) >= pos + 3
          BY <1>5, <1>8, <2>6, <2>7
    <3>2. Len(pend) # 0
          BY <1>2, <1>6, <2>7, <1>5, <2>10, <3>1
    <3>3. pend # <<>>
          BY <3>2, EmptySeq
    <3>4. CASE j <= n - 1
      <4> DEFINE k == n - 1
      <4>1. k \in Nat /\ j <= k /\ k <= n /\ k \in 0..n
            BY <1>2, <2>2, <3>4
      <4> HIDE DEF k
      <4>2. Len(J) <= Len(Written(sent, k)) /\ Len(J) \in Nat
        <5>1. Len(Written(sent, j)) <= Len(Written(sent, k)) /\ Len(Written(sent, j)) \in Nat
              BY <1>1, <2>2, <4>1, WrittenGrows DEF n
        <5> QED  BY <5>1 DEF J
      <4>3. Written(sent, k) \in Seq(Writable) /\ Len(Written(sent, k)) \in Nat
        <5>1. Written(sent, k) \in Seq(Writable)
              BY <1>1, <4>1, WrittenTyped DEF n
        <5> QED  BY <5>1, LenProperties
      <4>4. Written(sent, k) # <<>>
        <5>1. Len(Written(sent, k)) # 0
              BY <1>5, <2>6, <4>2, <4>3
        <5> QED  BY <4>3, <5>1, EmptySeq
      <4>5. Len(Laid(sent, k)) = 1 + Len(Written(sent, k))
            BY <1>1, <4>1, <4>4, LaidIs DEF n
      <4>6. Len(Laid(sent, k)) <= Len(file)
            BY <1>3, <3>3 DEF k
      <4> QED  BY <1>2, <2>9, <2>10, <4>2, <4>3, <4>5, <4>6
    <3>5. j = n \/ j <= n - 1
          BY <1>2, <2>2
    <3> QED  BY <3>3, <3>4, <3>5
  <2>11. AtTag(j)
        BY <1>4, <2>1, <2>8, <2>9, <2>10 DEF AtTag, J, x, item, n
  <2> QED  BY <2>1, <2>2, <2>11 DEF n
<1>12. \/ Written(sent, n) = Written(sent, r) /\ Given(sent, n) = Given(sent, r)
       \/ \E j \in r + 1..n :
                 /\ Tagged(sent[j])
                 /\ Given(sent, j - 1) = Given(sent, r)
                 /\ Given(sent, j) = Given(sent, r) \o Returned(sent[j])
                 /\ Written(sent, j) = Written(sent, r) \o Writes(sent[j])
      BY <1>1, <1>2, <1>9, NextTag DEF n
<1> QED  BY <1>10, <1>11, <1>12

\* Where nothing is written, nothing is to be returned.
LEMMA NothingGiven ==
    ASSUME NEW s \in Seq(Items), NEW k \in 0..Len(s), Written(s, k) = <<>>
    PROVE  Given(s, k) = <<>>
<1>1. Written(s, 0) = <<>> /\ Given(s, 0) = <<>>
      BY NothingWritten
<1>2. 0 \in Nat /\ k \in Nat /\ 0 <= k /\ k <= Len(s)
      OBVIOUS
<1>3. ASSUME NEW j \in 0 + 1..k, Tagged(s[j]), Written(s, j) = Written(s, 0) \o Writes(s[j])
      PROVE  FALSE
  <2> DEFINE item == s[j]  x == Writes(item)
  <2>1. j \in 1..Len(s) /\ j \in Nat /\ j <= k /\ k \in Nat /\ k <= Len(s)
        OBVIOUS
  <2>2. x \in Seq(Writable) /\ Len(x) = 3
    <3>1. item \in Items
          BY <2>1, ElementOfSeq
    <3>2. Tagged(item)
          BY <1>3
    <3> HIDE DEF item
    <3>3. ReadsBack(item)
          BY <3>1, <3>2, ItemReadsBack
    <3> QED  BY <3>3 DEF ReadsBack
  <2> HIDE DEF x
  <2>3. <<>> \o x = x
        BY <2>2, ConcatEmptySeq
  <2>4. Written(s, j) = x
        BY <1>1, <1>3, <2>3 DEF x
  <2>5. Len(Written(s, j)) <= Len(Written(s, k))
        BY <2>1, WrittenGrows
  <2>6. Len(Written(s, k)) = 0
        OBVIOUS
  <2>7. Len(Written(s, j)) <= 0
        BY <2>5, <2>6
  <2>8. Len(Written(s, j)) = 3
        BY <2>2, <2>4
  <2> QED  BY <2>7, <2>8
<1>4. \/ Written(s, k) = Written(s, 0) /\ Given(s, k) = Given(s, 0)
      \/ \E j \in 0 + 1..k : /\ Tagged(s[j])
                             /\ Given(s, j - 1) = Given(s, 0)
                             /\ Given(s, j) = Given(s, 0) \o Returned(s[j])
                             /\ Written(s, j) = Written(s, 0) \o Writes(s[j])
      BY <1>2, NextTag
<1> QED  BY <1>1, <1>3, <1>4

\* The packets of the items that are in the file with all of their writes.
LEMMA CompleteGiven ==
    ASSUME FlvInv
    PROVE  /\ pend = <<>> => ReturnedOf(Complete) = Given(sent, Len(sent))
           /\ pend # <<>> => ReturnedOf(Complete) = Given(sent, Len(sent) - 1)
<1>1. sent \in Seq(Items)
      BY DEF FlvInv, Typed
<1>2. CASE pend = <<>>
  <2>1. ReturnedOf(sent) = Given(sent, Len(sent))
        BY <1>1, GivenAll
  <2> QED  BY <1>2, <2>1 DEF Complete
<1>3. CASE pend # <<>>
  <2>1. sent # <<>>
        BY <1>3 DEF FlvInv, Layout
  <2>2. Len(sent) \in Nat /\ Len(sent) # 0
        BY <1>1, <2>1, EmptySeq, LenProperties
  <2>3. Len(sent) - 1 \in 0..Len(sent)
        BY <2>2
  <2>4. ReturnedOf(SubSeq(sent, 1, Len(sent) - 1)) = Given(sent, Len(sent) - 1)
        BY <1>1, <2>3, GivenIs
  <2>5. Front(sent) = SubSeq(sent, 1, Len(sent) - 1)
        BY DEF Front
  <2> QED  BY <1>3, <2>4, <2>5 DEF Complete
<1> QED  BY <1>2, <1>3

LEMMA HeaderStep ==
    ASSUME FlvInv, ReadFileHeader
    PROVE  \/ Fail("EOF") /\ got = ReturnedOf(Complete)
           \/ /\ gotfilehdr' = TRUE /\ pos' = 1 /\ 1 <= Len(file) /\ got = Given(sent, 0)
              /\ UNCHANGED <<err, got, gopnr, out, writervars>>
<1> DEFINE n == Len(sent)  l == file \o pend
<1>1. /\ sent \in Seq(Items) /\ file \in Seq(Writable) /\ pend \in Seq(Writable)
      BY DEF FlvInv, Typed
<1>2. n \in Nat /\ Len(file) \in Nat /\ Len(pend) \in Nat
      BY <1>1, LenProperties
<1>3. l = Laid(sent, n) /\ (pend # <<>> => sent # <<>> /\ Len(Laid(sent, n - 1)) <= Len(file))
      BY DEF FlvInv, Layout
<1>4. pos = 0 /\ got = Given(sent, 0)
  <2>1. ~gotfilehdr
        BY DEF ReadFileHeader
  <2> QED  BY <2>1 DEF FlvInv, Reading
<1>5. Given(sent, 0) = <<>>
      BY <1>1, NothingWritten
<1> HIDE DEF n
<1>6. ASSUME NEW k \in 0..n, Len(Laid(sent, k)) = 0
      PROVE  Given(sent, k) = <<>>
  <2>1. k \in 0..Len(sent)
        BY DEF n
  <2>2. Written(sent, k) \in Seq(Writable) /\ Len(Written(sent, k)) \in Nat
    <3>1. Written(sent, k) \in Seq(Writable)
          BY <1>1, <2>1, WrittenTyped
    <3> QED  BY <3>1, LenProperties
  <2>3. Written(sent, k) # <<>> => Len(Laid(sent, k)) = 1 + Len(Written(sent, k))
        BY <1>1, <2>1, LaidIs
  <2>4. Written(sent, k) = <<>>
        BY <1>6, <2>2, <2>3
  <2> QED  BY <1>1, <2>1, <2>4, NothingGiven
<1>7. CASE Len(file) = 0
  <2>1. Fail("EOF")
        BY <1>4, <1>7 DEF ReadFileHeader
  <2>2. CASE pend = <<>>
    <3>1. Len(l) = 0
      <4>1. file = <<>>
            BY <1>1, <1>7, EmptySeq
      <4>2. <<>> \o pend = pend
            BY <1>1, ConcatEmptySeq
      <4>3. Len(<<>>) = 0
            OBVIOUS
      <4> QED  BY <2>2, <4>1, <4>2, <4>3
    <3>2. n \in 0..n
          BY <1>2
    <3>3. Given(sent, n) = <<>>
          BY <1>3, <1>6, <3>1, <3>2
    <3> QED  BY <1>4, <1>5, <2>1, <2>2, <3>3, CompleteGiven DEF n
  <2>3. CASE pend # <<>>
    <3>1. n # 0 /\ Len(Laid(sent, n - 1)) <= 0
          BY <1>1, <1>3, <1>7, <2>3, EmptySeq DEF n
    <3> DEFINE k == n - 1
    <3>2. k \in 0..n
          BY <1>2, <3>1
    <3>3. Len(Laid(sent, k)) <= 0
          BY <3>1
    <3> HIDE DEF k
    <3>4. Len(Laid(sent, k)) \in Nat
      <4>1. Laid(sent, k) \in Seq(Writable)
            BY <1>1, <3>2, LaidIs DEF n
      <4> QED  BY <4>1, LenProperties
    <3>5. Len(Laid(sent, k)) = 0
          BY <3>3, <3>4
    <3>6. Given(sent, k) = <<>>
          BY <1>6, <3>2, <3>5
    <3> QED  BY <1>4, <1>5, <2>1, <2>3, <3>6, CompleteGiven DEF k, n
  <2> QED  BY <2>2, <2>3
<1>8. CASE Len(file) # 0
  <2>1. 1 \in 1..Len(file) /\ 1 \in 1..Len(file) + Len(pend) /\ 1 <= Len(file) /\ Len(file) + Len(pend) # 0
        BY <1>2, <1>8
  <2>2. l \in Seq(Writable) /\ Len(l) = Len(file) + Len(pend) /\ l[1] = file[1]
    <3>1. l \in Seq(Writable) /\ Len(l) = Len(file) + Len(pend)
          /\ \A i \in 1..Len(file) + Len(pend) : l[i] = IF i <= Len(file) THEN file[i] ELSE pend[i - Len(file)]
          BY <1>1, ConcatProperties
    <3> HIDE DEF l
    <3> QED  BY <2>1, <3>1
  <2> HIDE DEF l
  <2>3. l # <<>>
        BY <2>1, <2>2, EmptySeq
  <2>4. l[1] = FileHeader
    <3>1. n \in 0..Len(sent)
          BY <1>2 DEF n
    <3> QED  BY <1>1, <1>3, <2>3, <3>1, LaidIs
  <2>5. pos + 1 = 1 /\ ~(pos = Len(file))
        BY <1>4, <1>8
  <2>6. Next1.k = "file"
        BY <2>2, <2>4, <2>5, HeaderIs DEF Next1
  <2>7. gotfilehdr' = TRUE /\ pos' = 1 /\ UNCHANGED <<err, got, gopnr, out, writervars>>
        BY <2>5, <2>6 DEF ReadFileHeader
  <2> QED  BY <1>4, <2>1, <2>7
<1> QED  BY <1>7, <1>8

LEMMA TagStep ==
    ASSUME FlvInv, ReadTag
    PROVE  \/ Fail("EOF") /\ got = ReturnedOf(Complete)
           \/ /\ Fail("short")
              /\ \E i \in 1..Len(sent) : Short(sent[i]) /\ got = ReturnedOf(SubSeq(sent, 1, i - 1))
           \/ /\ pos + 3 <= Len(file) /\ pos' = pos + 3
              /\ \E j \in 1..Len(sent) : AtTag(j) /\ SkipGop(Returned(sent[j]))
              /\ UNCHANGED <<gotfilehdr, err, writervars>>
<1>1. sent \in Seq(Items) /\ pos \in 0..Len(file) /\ Len(file) \in Nat /\ pos \in Nat
  <2>1. sent \in Seq(Items) /\ file \in Seq(Writable) /\ pos \in 0..Len(file)
        BY DEF FlvInv, Typed
  <2>2. Len(file) \in Nat
        BY <2>1, LenProperties
  <2>3. pos \in Nat
        BY <2>1, <2>2
  <2> QED  BY <2>1, <2>2, <2>3
<1>2. gotfilehdr
      BY DEF ReadTag
<1>3. CASE AtEnd
  <2>1. pos + 2 > Len(file)
        BY <1>1, <1>3 DEF AtEnd
  <2>2. Fail("EOF")
        BY <2>1 DEF ReadTag
  <2> QED  BY <1>3, <2>2, CompleteGiven DEF AtEnd
<1>4. ASSUME NEW j \in 1..Len(sent), Tagged(sent[j]), AtTag(j)
      PROVE  \/ Fail("EOF") /\ got = ReturnedOf(Complete)
             \/ /\ Fail("short")
                /\ \E i \in 1..Len(sent) : Short(sent[i]) /\ got = ReturnedOf(SubSeq(sent, 1, i - 1))
             \/ /\ pos + 3 <= Len(file) /\ pos' = pos + 3
                /\ AtTag(j) /\ SkipGop(Returned(sent[j]))
                /\ UNCHANGED <<gotfilehdr, err, writervars>>
  <2> DEFINE item == sent[j]  w == Writes(item)
             body == w[1].body \o w[2].body  type == w[1].type
  <2>1. ReadsBack(item)
    <3>1. item \in Items /\ Tagged(item)
          BY <1>1, <1>4, ElementOfSeq
    <3> HIDE DEF item
    <3> QED  BY <3>1, ItemReadsBack
  <2>2. /\ w[1].k = "header"
        /\ Len(body) < HeaderLen(type, body) => Short(item)
        /\ ~(Len(body) < HeaderLen(type, body)) => FromTag(Parse(type, TagTime(w[1]), body)) = Returned(item)
        BY <2>1 DEF ReadsBack
  <2>3. /\ Given(sent, j - 1) = got
        /\ \A q \in 1..3 : pos + q <= Len(file) => file[pos + q] = w[q]
        /\ pos + 3 > Len(file) => pend # <<>> /\ j = Len(sent)
        BY <1>4 DEF AtTag
  <2> HIDE DEF w, item
  <2>4. pos + 3 > Len(file) => got = ReturnedOf(Complete)
        BY <2>3, CompleteGiven
  <2>5. CASE pos + 2 > Len(file)
    <3>1. Fail("EOF")
          BY <2>5 DEF ReadTag
    <3>2. pos + 3 > Len(file)
          BY <1>1, <2>5
    <3> QED  BY <2>4, <3>1, <3>2
  <2>6. CASE ~(pos + 2 > Len(file))
    <3>1. file[pos + 1] = w[1] /\ file[pos + 2] = w[2]
      <4>1. pos + 1 <= Len(file) /\ pos + 2 <= Len(file) /\ 1 \in 1..3 /\ 2 \in 1..3
            BY <1>1, <2>6
      <4> QED  BY <2>3, <4>1
    <3>2. Next1 = w[1] /\ Next1.body \o file[pos + 2].body = body
          BY <3>1 DEF Next1
    <3> HIDE DEF body
    <3>3. IF Len(body) < HeaderLen(type, body) THEN Fail("short")
          ELSE IF ~TrailerThere THEN Fail("EOF")
          ELSE /\ pos' = pos + 3
               /\ SkipGop(FromTag(Parse(type, TagTime(w[1]), body)))
               /\ UNCHANGED <<gotfilehdr, err, writervars>>
          BY <2>2, <2>6, <3>2 DEF ReadTag
    <3>4. CASE Len(body) < HeaderLen(type, body)
      <4>1. Fail("short") /\ Short(item)
            BY <2>2, <3>3, <3>4 DEF body
      <4>2. j - 1 \in 0..Len(sent)
        <5>1. Len(sent) \in Nat
              BY <1>1, LenProperties
        <5> QED  BY <1>4, <5>1
      <4>3. ReturnedOf(SubSeq(sent, 1, j - 1)) = Given(sent, j - 1)
            BY <1>1, <4>2, GivenIs
      <4> QED  BY <1>4, <2>3, <4>1, <4>3 DEF item
    <3>5. CASE ~(Len(body) < HeaderLen(type, body)) /\ ~TrailerThere
      <4>1. Fail("EOF")
            BY <3>3, <3>5
      <4>2. pos + 3 > Len(file)
            BY <1>1, <3>5 DEF TrailerThere
      <4> QED  BY <2>4, <4>1, <4>2
    <3>6. CASE ~(Len(body) < HeaderLen(type, body)) /\ TrailerThere
      <4>1. /\ pos' = pos + 3
            /\ SkipGop(FromTag(Parse(type, TagTime(w[1]), body)))
            /\ UNCHANGED <<gotfilehdr, err, writervars>>
            BY <3>3, <3>6
      <4>2. FromTag(Parse(type, TagTime(w[1]), body)) = Returned(item)
            BY <2>2, <3>6 DEF body
      <4>3. pos + 3 <= Len(file)
            BY <3>6 DEF TrailerThere
      <4> HIDE DEF type
      <4> QED  BY <1>4, <4>1, <4>2, <4>3 DEF item
    <3> QED  BY <3>4, <3>5, <3>6
  <2> QED  BY <2>5, <2>6
<1>5. AtEnd \/ \E j \in 1..Len(sent) : Tagged(sent[j]) /\ AtTag(j)
      BY <1>2, Stands
<1> QED  BY <1>3, <1>4, <1>5

-----------------------------------------------------------------------------
(* Steps of the reader                                                     *)

\* A step of the reader that leaves the file, and what was muxed, alone.
LEMMA ReaderInv ==
    ASSUME FlvInv, UNCHANGED writervars,
           gotfilehdr' \in BOOLEAN, err' \in {"", "EOF", "short"},
           pos' \in 0..Len(file), got' \in Seq(Pkts), gopnr' \in 0..Len(got'),
           \E r \in 0..Len(sent) :
              /\ got' = Given(sent, r)
              /\ IF gotfilehdr' THEN pos' = 1 + Len(Written(sent, r)) ELSE pos' = 0 /\ r = 0
    PROVE  FlvInv'
<1>1. /\ file' = file /\ pend' = pend /\ filehdrwritten' = filehdrwritten
      /\ Publishing' = Publishing /\ sent' = sent
      BY DEF writervars
<1>2. \A s, k : Written(s, k)' = Written(s, k) /\ Laid(s, k)' = Laid(s, k)
      BY <1>1, WrittenStays
<1>3. \A s, k : Given(s, k)' = Given(s, k)
      OBVIOUS
<1>4. Typed'
      BY <1>1 DEF FlvInv, Typed
<1>5. Layout'
  <2>1. Laid(sent, Len(sent))' = Laid(sent, Len(sent))
        BY <1>1, <1>2
  <2>2. Laid(sent, Len(sent) - 1)' = Laid(sent, Len(sent) - 1)
        BY <1>1, <1>2
  <2> QED  BY <1>1, <2>1, <2>2 DEF FlvInv, Layout
<1>6. Reading'
  <2>1. PICK r \in 0..Len(sent) :
              /\ got' = Given(sent, r)
              /\ IF gotfilehdr' THEN pos' = 1 + Len(Written(sent, r)) ELSE pos' = 0 /\ r = 0
        OBVIOUS
  <2>2. Given(sent, r)' = Given(sent, r) /\ Written(sent, r)' = Written(sent, r)
    <3>1. Given(sent, r)' = Given(sent', r) /\ Written(sent, r)' = Written(sent, r)
          BY <1>1, <1>2
    <3> QED  BY <1>1, <3>1
  <2> QED  BY <1>1, <2>1, <2>2 DEF Reading
<1> QED  BY <1>4, <1>5, <1>6 DEF FlvInv

LEMMA FailInv ==
    ASSUME FlvInv, NEW e \in {"EOF", "short"}, Fail(e)
    PROVE  FlvInv'
<1>1. /\ err' = e /\ gotfilehdr' = gotfilehdr /\ pos' = pos /\ got' = got /\ gopnr' = gopnr
      /\ UNCHANGED writervars
      BY DEF Fail
<1>2. /\ got \in Seq(Pkts) /\ gotfilehdr \in BOOLEAN /\ pos \in 0..Len(file) /\ gopnr \in 0..Len(got)
      BY DEF FlvInv, Typed
<1>3. \E r \in 0..Len(sent) :
         /\ got = Given(sent, r)
         /\ IF gotfilehdr THEN pos = 1 + Len(Written(sent, r)) ELSE pos = 0 /\ r = 0
      BY DEF FlvInv, Reading
<1>4. /\ gotfilehdr' \in BOOLEAN /\ err' \in {"", "EOF", "short"}
      /\ pos' \in 0..Len(file) /\ got' \in Seq(Pkts) /\ gopnr' \in 0..Len(got')
      BY <1>1, <1>2
<1>5. \E r \in 0..Len(sent) :
              /\ got' = Given(sent, r)
              /\ IF gotfilehdr' THEN pos' = 1 + Len(Written(sent, r)) ELSE pos' = 0 /\ r = 0
      BY <1>1, <1>3
<1> QED  BY <1>1, <1>4, <1>5, ReaderInv

LEMMA ReadFileHeaderInv ==
    ASSUME FlvInv, ReadFileHeader
    PROVE  FlvInv'
<1>1. CASE Fail("EOF")
      BY <1>1, FailInv
<1>2. CASE /\ gotfilehdr' = TRUE /\ pos' = 1 /\ 1 <= Len(file) /\ got = Given(sent, 0)
           /\ UNCHANGED <<err, got, gopnr, out, writervars>>
  <2>1. /\ sent \in Seq(Items) /\ got \in Seq(Pkts) /\ err \in {"", "EOF", "short"}
        /\ gopnr \in 0..Len(got) /\ file \in Seq(Writable)
        BY DEF FlvInv, Typed
  <2>2. 0 \in 0..Len(sent) /\ 1 \in 0..Len(file)
    <3>1. Len(sent) \in Nat /\ Len(file) \in Nat
          BY <2>1, LenProperties
    <3> QED  BY <1>2, <3>1
  <2>3. 1 = 1 + Len(Written(sent, 0))
    <3>1. Written(sent, 0) = <<>>
          BY <2>1, NothingWritten
    <3>2. Len(<<>>) = 0
          OBVIOUS
    <3> QED  BY <3>1, <3>2
  <2>4. /\ gotfilehdr' \in BOOLEAN /\ err' \in {"", "EOF", "short"}
        /\ pos' \in 0..Len(file) /\ got' \in Seq(Pkts) /\ gopnr' \in 0..Len(got')
        BY <1>2, <2>1, <2>2
  <2>5. \E r \in 0..Len(sent) :
              /\ got' = Given(sent, r)
              /\ IF gotfilehdr' THEN pos' = 1 + Len(Written(sent, r)) ELSE pos' = 0 /\ r = 0
    <3>1. /\ got' = Given(sent, 0)
          /\ IF gotfilehdr' THEN pos' = 1 + Len(Written(sent, 0)) ELSE pos' = 0 /\ 0 = 0
          BY <1>2, <2>3
    <3> QED  BY <2>2, <3>1
  <2> QED  BY <1>2, <2>4, <2>5, ReaderInv
<1> QED  BY <1>1, <1>2, HeaderStep

LEMMA ReadTagInv ==
    ASSUME FlvInv, ReadTag
    PROVE  FlvInv'
<1>1. CASE Fail("EOF") \/ Fail("short")
      BY <1>1, FailInv
<1>2. ASSUME pos + 3 <= Len(file), pos' = pos + 3, UNCHANGED <<gotfilehdr, err, writervars>>,
             NEW j \in 1..Len(sent), AtTag(j), SkipGop(Returned(sent[j]))
      PROVE  FlvInv'
  <2> DEFINE x == Returned(sent[j])
  <2>1. /\ sent \in Seq(Items) /\ got \in Seq(Pkts) /\ err \in {"", "EOF", "short"}
        /\ gotfilehdr \in BOOLEAN /\ pos \in 0..Len(file) /\ gopnr \in 0..Len(got)
        /\ file \in Seq(Writable)
        BY DEF FlvInv, Typed
  <2>2. Len(sent) \in Nat /\ Len(file) \in Nat /\ Len(got) \in Nat
        BY <2>1, LenProperties
  <2>3. j \in 0..Len(sent) /\ pos + 3 \in 0..Len(file)
    <3>1. j \in 0..Len(sent)
          BY <2>2
    <3>2. pos \in 0..Len(file) /\ pos + 3 <= Len(file)
          BY <1>2, <2>1
    <3>3. pos + 3 \in 0..Len(file)
          BY <2>2, <3>2
    <3> QED  BY <3>1, <3>3
  <2>4. /\ Given(sent, j) = got \o x
        /\ pos + 3 = 1 + Len(Written(sent, j))
        BY <1>2 DEF AtTag
  <2>5. /\ got' = got \o x
        /\ gopnr' = gopnr + IF \E i \in 1..Len(x) : IsKey(x[i]) THEN 1 ELSE 0
        BY <1>2 DEF SkipGop
  <2>6. x \in Seq(Pkts)
    <3>1. sent[j] \in Items
          BY <2>1, ElementOfSeq
    <3> QED  BY <3>1, ItemReadsBack
  <2> HIDE DEF x
  <2>7. got' \in Seq(Pkts) /\ Len(got') = Len(got) + Len(x) /\ Len(x) \in Nat
    <3>1. got \o x \in Seq(Pkts) /\ Len(got \o x) = Len(got) + Len(x)
          BY <2>1, <2>6, ConcatProperties
    <3>2. Len(x) \in Nat
          BY <2>6, LenProperties
    <3> QED  BY <2>5, <3>1, <3>2
  <2>8. gopnr' \in 0..Len(got')
    <3>1. gopnr \in 0..Len(got)
          BY <2>1
    <3>2. CASE \E i \in 1..Len(x) : IsKey(x[i])
      <4>1. gopnr' = gopnr + 1
            BY <2>5, <3>2
      <4>2. Len(x) >= 1
            BY <2>7, <3>2
      <4> QED  BY <2>2, <2>7, <3>1, <4>1, <4>2
    <3>3. CASE ~ \E i \in 1..Len(x) : IsKey(x[i])
      <4>1. gopnr' = gopnr + 0
            BY <2>5, <3>3
      <4> QED  BY <2>2, <2>7, <3>1, <4>1
    <3> QED  BY <3>2, <3>3
  <2>9. gotfilehdr' = TRUE /\ UNCHANGED writervars /\ err' = err
        BY <1>2 DEF ReadTag
  <2>10. /\ gotfilehdr' \in BOOLEAN /\ err' \in {"", "EOF", "short"} /\ pos' \in 0..Len(file)
         BY <1>2, <2>1, <2>3, <2>9
  <2>11. \E r \in 0..Len(sent) :
              /\ got' = Given(sent, r)
              /\ IF gotfilehdr' THEN pos' = 1 + Len(Written(sent, r)) ELSE pos' = 0 /\ r = 0
    <3>1. /\ got' = Given(sent, j)
          /\ IF gotfilehdr' THEN pos' = 1 + Len(Written(sent, j)) ELSE pos' = 0 /\ j = 0
          BY <1>2, <2>4, <2>5, <2>9
    <3> QED  BY <2>3, <3>1
  <2> QED  BY <2>7, <2>8, <2>9, <2>10, <2>11, ReaderInv
<1>3. CASE /\ pos + 3 <= Len(file) /\ pos' = pos + 3
           /\ \E j \in 1..Len(sent) : AtTag(j) /\ SkipGop(Returned(sent[j]))
           /\ UNCHANGED <<gotfilehdr, err, writervars>>
      BY <1>2, <1>3
<1> QED  BY <1>1, <1>3, TagStep

LEMMA NextInv ==
    ASSUME FlvInv, [Next]_vars
    PROVE  FlvInv'
<1>1. ASSUME NEW p \in Packets, WritePacket(p)
      PROVE  FlvInv'
  <2> DEFINE item == [foreign |-> FALSE, pkt |-> p]
  <2>1. item \in Items
        BY DEF Items
  <2>2. item.foreign = FALSE /\ item.pkt = p
        OBVIOUS
  <2>3. Mux(item, FlattenSeq([i \in 1..Len(Tags(p)) |-> WriteTag(Tags(p)[i], FillHeader(Tags(p)[i]))]))
        BY <1>1 DEF WritePacket
  <2> HIDE DEF item
  <2>4. Writes(item) = FlattenSeq([i \in 1..Len(Tags(p)) |-> WriteTag(Tags(p)[i], FillHeader(Tags(p)[i]))])
        BY <2>2, Zenon DEF Writes
  <2>5. Mux(item, Writes(item))
        BY <2>3, <2>4
  <2> QED  BY <2>1, <2>5, MuxInv
<1>2. ASSUME NEW tag \in Foreign, WriteForeign(tag)
      PROVE  FlvInv'
  <2> DEFINE item == [foreign |-> TRUE, pkt |-> tag]
  <2>1. item \in Items
        BY DEF Items
  <2>2. item.foreign = TRUE /\ item.pkt = tag
        OBVIOUS
  <2>3. Mux(item, WriteTag(tag, <<>>))
        BY <1>2 DEF WriteForeign
  <2> HIDE DEF item
  <2>4. Writes(item) = WriteTag(tag, <<>>)
        BY <2>2, Zenon DEF Writes
  <2>5. Mux(item, Writes(item))
        BY <2>3, <2>4
  <2> QED  BY <2>1, <2>5, MuxInv
<1>3. ASSUME UNCHANGED vars
      PROVE  FlvInv'
  <2>1. /\ UNCHANGED writervars
        /\ err' = err /\ gotfilehdr' = gotfilehdr /\ pos' = pos /\ got' = got /\ gopnr' = gopnr
        BY <1>3 DEF vars, writervars, readervars
  <2>2. /\ got \in Seq(Pkts) /\ gotfilehdr \in BOOLEAN /\ pos \in 0..Len(file) /\ gopnr \in 0..Len(got)
        /\ err \in {"", "EOF", "short"}
        BY DEF FlvInv, Typed
  <2>3. \E r \in 0..Len(sent) :
         /\ got = Given(sent, r)
         /\ IF gotfilehdr THEN pos = 1 + Len(Written(sent, r)) ELSE pos = 0 /\ r = 0
        BY DEF FlvInv, Reading
  <2>4. /\ gotfilehdr' \in BOOLEAN /\ err' \in {"", "EOF", "short"}
        /\ pos' \in 0..Len(file) /\ got' \in Seq(Pkts) /\ gopnr' \in 0..Len(got')
        BY <2>1, <2>2
  <2>5. \E r \in 0..Len(sent) :
              /\ got' = Given(sent, r)
              /\ IF gotfilehdr' THEN pos' = 1 + Len(Written(sent, r)) ELSE pos' = 0 /\ r = 0
        BY <2>1, <2>3
  <2> QED  BY <2>1, <2>4, <2>5, ReaderInv
<1>4. Finished => UNCHANGED vars
      BY DEF Finished
<1>5. \/ \E p \in Packets : WritePacket(p)
      \/ \E tag \in Foreign : WriteForeign(tag)
      \/ Write \/ ReadFileHeader \/ ReadTag \/ UNCHANGED vars
      BY <1>4 DEF Next
<1> QED  BY <1>1, <1>2, <1>3, <1>5, WriteInv, ReadFileHeaderInv, ReadTagInv

\* The inductive invariant: the file is laid out as it was muxed, whatever of it is written,
\* and the reader stands before a tag and has returned the packets of those before it.
THEOREM FlvInvariant == Spec => []FlvInv
<1>1. FlvInv /\ [Next]_vars => FlvInv'
      BY NextInv
<1> QED  BY InitInv, <1>1, PTL DEF Spec

-----------------------------------------------------------------------------
(* What follows                                                            *)

LEMMA InvTypeOK == FlvInv => TypeOK
<1> SUFFICES ASSUME FlvInv
             PROVE  TypeOK
    OBVIOUS
<1>1. /\ filehdrwritten \in BOOLEAN /\ Publishing \in BOOLEAN /\ gotfilehdr \in BOOLEAN
      /\ err \in {"", "EOF", "short"}
      /\ Len(sent) <= MaxTags /\ pos \in 0..Len(file) /\ gopnr \in 0..Len(got)
      /\ got \in Seq(Pkts)
      BY DEF FlvInv, Typed
<1>2. \A i \in 1..Len(got) : got[i].Time \in 0..(TimeMod - 1)
  <2> SUFFICES ASSUME NEW i \in 1..Len(got)
               PROVE  got[i].Time \in 0..(TimeMod - 1)
      OBVIOUS
  <2>1. got[i] \in Pkts
        BY <1>1, ElementOfSeq
  <2> QED  BY <2>1 DEF Pkts
<1> QED  BY <1>1, <1>2 DEF TypeOK

LEMMA InvDemuxed == FlvInv => Demuxed
<1> SUFFICES ASSUME FlvInv
             PROVE  Demuxed
    OBVIOUS
<1>1. sent \in Seq(Items) /\ got \in Seq(Pkts)
      BY DEF FlvInv, Typed
<1>2. PICK r \in 0..Len(sent) : got = Given(sent, r)
      BY DEF FlvInv, Reading
<1>3. r \in Nat /\ r <= Len(sent) /\ Len(sent) \in Nat /\ Len(sent) <= Len(sent)
  <2>1. Len(sent) \in Nat
        BY <1>1, LenProperties
  <2> QED  BY <2>1
<1>4. PICK t \in Seq(Pkts) : Given(sent, Len(sent)) = Given(sent, r) \o t
      BY <1>1, <1>3, WrittenUpTo
<1>5. ReturnedOf(sent) = got \o t
      BY <1>1, <1>2, <1>4, GivenAll
<1>6. IsPrefix(got, got \o t)
      BY <1>1, PrefixConcat
<1> QED  BY <1>5, <1>6 DEF Demuxed

LEMMA EndsStep ==
    ASSUME FlvInv, [Next]_vars
    PROVE  [err # err' =>
          \/ err' = "EOF" /\ got = ReturnedOf(Complete)
          \/ err' = "short" /\ \E i \in 1..Len(sent) :
                /\ sent[i].foreign
                /\ Len(sent[i].pkt.Data) < HeaderLen(sent[i].pkt.Type, sent[i].pkt.Data)
                /\ got = ReturnedOf(SubSeq(sent, 1, i - 1)) ]_vars
<1> SUFFICES ASSUME err # err'
             PROVE  \/ err' = "EOF" /\ got = ReturnedOf(Complete)
                    \/ err' = "short" /\ \E i \in 1..Len(sent) :
                           Short(sent[i]) /\ got = ReturnedOf(SubSeq(sent, 1, i - 1))
    BY DEF Short
<1>1. ~(UNCHANGED vars)
      BY DEF vars, readervars
<1>2. ASSUME NEW item, NEW w
      PROVE  ~Mux(item, w)
      BY DEF Mux, readervars
<1>3. (\A p \in Packets : ~WritePacket(p)) /\ (\A tag \in Foreign : ~WriteForeign(tag))
      BY <1>2 DEF WritePacket, WriteForeign
<1>4. ~Write /\ ~Finished
      BY <1>1 DEF Write, readervars, Finished
<1>5. ReadFileHeader \/ ReadTag
      BY <1>1, <1>3, <1>4 DEF Next
<1>6. CASE ReadFileHeader
  <2>1. Fail("EOF") => err' = "EOF"
        BY DEF Fail
  <2> QED  BY <1>6, <2>1, HeaderStep
<1>7. CASE ReadTag
  <2>1. (Fail("EOF") => err' = "EOF") /\ (Fail("short") => err' = "short")
        BY DEF Fail
  <2> QED  BY <1>7, <2>1, TagStep
<1> QED  BY <1>5, <1>6, <1>7

-----------------------------------------------------------------------------
(* Groups of pictures                                                      *)

KeysIn(s, n) == Cardinality({i \in 1..n : IsKey(s[i])})
PartKept(s, i) == IF IsFrame(s[i]) /\ KeysIn(s, i) <= 2 THEN <<>> ELSE <<s[i]>>
PartsKept(s) == [i \in 1..Len(s) |-> PartKept(s, i)]

\* A packet more is one key frame more, or none, and leaves the earlier counts alone.
LEMMA KeysAppend ==
    ASSUME NEW s \in Seq(Pkts), NEW x \in Pkts
    PROVE  /\ KeysIn(s, Len(s)) \in Nat
           /\ KeysIn(Append(s, x), Len(s) + 1) = KeysIn(s, Len(s)) + (IF IsKey(x) THEN 1 ELSE 0)
           /\ \A n \in 1..Len(s) : KeysIn(Append(s, x), n) = KeysIn(s, n)
<1> DEFINE u == Append(s, x)  l == Len(s)  K(n) == {i \in 1..n : IsKey(s[i])}
           K1(n) == {i \in 1..n : IsKey(u[i])}
<1>1. l \in Nat /\ (\A i \in 1..l : u[i] = s[i]) /\ u[l + 1] = x
      BY AppendProperties, LenProperties
<1> HIDE DEF u, l
<1>2. \A n \in 1..l : K1(n) = K(n)
      BY <1>1
<1>3. K1(l) = K(l)
      BY <1>1
<1>4. IsFiniteSet(K(l)) /\ Cardinality(K(l)) \in Nat
  <2>1. IsFiniteSet(1..l)
        BY <1>1, FS_Interval
  <2>2. K(l) \subseteq 1..l
        OBVIOUS
  <2>3. IsFiniteSet(K(l))
        BY <2>1, <2>2, FS_Subset
  <2> QED  BY <2>3, FS_CardinalityType
<1>5. K1(l + 1) = IF IsKey(x) THEN K(l) \union {l + 1} ELSE K(l)
  <2>1. \A i : i \in 1..l + 1 <=> i \in 1..l \/ i = l + 1
        BY <1>1
  <2> QED  BY <1>1, <2>1
<1>6. Cardinality(K1(l + 1)) = Cardinality(K(l)) + (IF IsKey(x) THEN 1 ELSE 0)
  <2>1. l + 1 \notin K(l)
        BY <1>1
  <2> HIDE DEF K, K1
  <2>2. Cardinality(K(l) \union {l + 1}) = Cardinality(K(l)) + 1
        BY <1>4, <2>1, FS_AddElement
  <2> QED  BY <1>4, <1>5, <2>2
<1> QED  BY <1>2, <1>4, <1>6 DEF KeysIn, u, l

\* A packet more is a part more of what is kept.
LEMMA PartsAppend ==
    ASSUME NEW s \in Seq(Pkts), NEW x \in Pkts
    PROVE  /\ FlattenSeq(PartsKept(Append(s, x))) =
                  FlattenSeq(PartsKept(s)) \o PartKept(Append(s, x), Len(s) + 1)
           /\ PartKept(Append(s, x), Len(s) + 1) =
                  IF IsFrame(x) /\ KeysIn(Append(s, x), Len(s) + 1) <= 2 THEN <<>> ELSE <<x>>
<1> DEFINE u == Append(s, x)  l == Len(s)  S == Seq(Pkts)  f == PartsKept(s)  g == PartsKept(u)
           e == PartKept(u, l + 1)
<1>1. /\ l \in Nat /\ u \in Seq(Pkts) /\ Len(u) = l + 1
      /\ (\A i \in 1..l : u[i] = s[i]) /\ u[l + 1] = x
      BY AppendProperties, LenProperties
<1>2. \A n \in 1..l : KeysIn(u, n) = KeysIn(s, n)
      BY KeysAppend
<1> HIDE DEF u, l
<1>3. ASSUME NEW t \in Seq(Pkts), NEW i \in 1..Len(t)
      PROVE  PartKept(t, i) \in S
  <2>1. t[i] \in Pkts
        BY ElementOfSeq
  <2> QED  BY <2>1 DEF PartKept
<1>4. f \in Seq(S) /\ Len(f) = l /\ \A i \in 1..l : f[i] = PartKept(s, i)
  <2>1. \A i \in 1..l : PartKept(s, i) \in S
        BY <1>3 DEF l
  <2> HIDE DEF S
  <2> QED  BY <1>1, <2>1 DEF PartsKept, l
<1>5. g \in Seq(S) /\ Len(g) = l + 1 /\ (\A i \in 1..l + 1 : g[i] = PartKept(u, i)) /\ e \in S
  <2>1. \A i \in 1..l + 1 : PartKept(u, i) \in S
        BY <1>1, <1>3
  <2>2. l + 1 \in 1..l + 1 /\ l + 1 \in Nat
        BY <1>1
  <2> HIDE DEF S
  <2> QED  BY <1>1, <2>1, <2>2 DEF PartsKept
<1>6. \A i \in 1..l : PartKept(u, i) = PartKept(s, i)
      BY <1>1, <1>2 DEF PartKept
<1>7. g = Append(f, e)
  <2>1. \A i \in 1..l : g[i] = f[i]
    <3>1. \A i \in 1..l : i \in 1..l + 1
          BY <1>1
    <3> QED  BY <1>4, <1>5, <1>6, <3>1
  <2>2. g[l + 1] = e
        BY <1>1, <1>5
  <2> HIDE DEF S, f, g, e
  <2> QED  BY <1>4, <1>5, <2>1, <2>2, AppendIs
<1>8. FlattenSeq(g) = FlattenSeq(f) \o e
  <2> HIDE DEF f, g, e
  <2> QED  BY <1>4, <1>5, <1>7, FlattenAppend DEF S
<1>9. e = IF IsFrame(x) /\ KeysIn(u, l + 1) <= 2 THEN <<>> ELSE <<x>>
      BY <1>1 DEF PartKept
<1> QED  BY <1>8, <1>9 DEF u, l

\* ReadPacket returns at most one packet for a tag.
LEMMA ReturnsOne ==
    ASSUME NEW item \in Items
    PROVE  Returned(item) = <<>> \/ \E q \in Pkts : Returned(item) = <<q>>
<1>1. Returned(item) \in Seq(Pkts)
      BY ItemReadsBack
<1>2. Returned(item) = <<>> \/ \E q : Returned(item) = <<q>>
      BY Zenon DEF Returned
<1>3. ASSUME NEW q, Returned(item) = <<q>>
      PROVE  q \in Pkts
  <2>1. <<q>> \in Seq(Pkts)
        BY <1>1, <1>3
  <2> QED  BY <2>1
<1> QED  BY <1>2, <1>3

\* What skipgop has counted is the key frames read, what it has written are the parts kept of
\* what was read, and a key frame is among that as soon as frames are kept.
SkipInv ==
    /\ gopnr = KeysIn(got, Len(got))
    /\ out = FlattenSeq(PartsKept(got)) /\ out \in Seq(Pkts)
    /\ \A i \in 1..Len(out) : IsFrame(out[i]) => \E j \in 1..i : IsKey(out[j])
    /\ gopnr > 2 => \E j \in 1..Len(out) : IsKey(out[j])

LEMMA SkipInit == Init => SkipInv
<1> SUFFICES ASSUME Init
             PROVE  SkipInv
    OBVIOUS
<1>1. got = <<>> /\ gopnr = 0 /\ out = <<>>
      BY Zenon DEF Init
<1>e. Len(<<>>) = 0 /\ <<>> \in Seq(Pkts)
      OBVIOUS
<1>2. KeysIn(<<>>, 0) = 0
  <2>1. {i \in 1..0 : IsKey(<<>>[i])} = {}
        OBVIOUS
  <2> QED  BY <2>1, FS_EmptySet DEF KeysIn
<1>3. FlattenSeq(PartsKept(<<>>)) = <<>>
  <2>1. PartsKept(<<>>) = <<>>
        BY DEF PartsKept
  <2> QED  BY <2>1, FlattenEmpty
<1> QED  BY <1>1, <1>e, <1>2, <1>3 DEF SkipInv

\* A packet that doSkipGop's loop has to do with.
LEMMA SkipPacket ==
    ASSUME FlvInv, SkipInv, NEW q \in Pkts, SkipGop(<<q>>)
    PROVE  SkipInv'
<1> DEFINE u == Append(got, q)  l == Len(got)  k == gopnr + (IF IsKey(q) THEN 1 ELSE 0)
<1>1. /\ got \in Seq(Pkts) /\ out \in Seq(Pkts) /\ gopnr = KeysIn(got, l)
      /\ out = FlattenSeq(PartsKept(got))
      /\ \A i \in 1..Len(out) : IsFrame(out[i]) => \E j \in 1..i : IsKey(out[j])
      /\ gopnr > 2 => \E j \in 1..Len(out) : IsKey(out[j])
      BY DEF FlvInv, Typed, SkipInv
<1>2. <<q>> \in Seq(Pkts) /\ Len(<<q>>) = 1 /\ <<q>>[1] = q
      OBVIOUS
<1>3. \A s \in Seq(Pkts) : s \o <<q>> = Append(s, q)
      OBVIOUS
<1>4. got' = u /\ gopnr' = k
      BY <1>1, <1>2, <1>3 DEF SkipGop
<1>5. out' = IF Kept(q) THEN Append(out, q) ELSE out
  <2> DEFINE x == <<q>>
  <2>1. out' = IF \E i \in 1..Len(x) : Kept(x[i]) THEN out \o x ELSE out
        BY DEF SkipGop
  <2>2. Len(x) = 1 /\ x[1] = q /\ out \o x = Append(out, q)
        BY <1>1, <1>2, <1>3
  <2> HIDE DEF x
  <2>3. \A i : i \in 1..1 <=> i = 1
        OBVIOUS
  <2>4. (\E i \in 1..Len(x) : Kept(x[i])) <=> Kept(q)
        BY <2>2, <2>3, Zenon
  <2> QED  BY <2>1, <2>2, <2>4
<1>6. /\ KeysIn(got, l) \in Nat
      /\ KeysIn(u, l + 1) = KeysIn(got, l) + (IF IsKey(q) THEN 1 ELSE 0)
      /\ FlattenSeq(PartsKept(u)) = out \o PartKept(u, l + 1)
      /\ PartKept(u, l + 1) = IF IsFrame(q) /\ KeysIn(u, l + 1) <= 2 THEN <<>> ELSE <<q>>
      BY <1>1, KeysAppend, PartsAppend
<1>7. u \in Seq(Pkts) /\ Len(u) = l + 1
      BY <1>1, AppendProperties
<1> HIDE DEF u, l
<1>8. gopnr \in Nat /\ k = KeysIn(u, l + 1)
      BY <1>1, <1>6
<1>9. Kept(q) <=> ~IsFrame(q) \/ k > 2
      BY DEF Kept, IsKey
<1>10. CASE ~Kept(q)
  <2>1. IsFrame(q) /\ KeysIn(u, l + 1) <= 2 /\ out' = out
        BY <1>5, <1>8, <1>9, <1>6, <1>10
  <2>2. FlattenSeq(PartsKept(u)) = out'
    <3>1. out \o <<>> = out
          BY <1>1, ConcatEmptySeq
    <3> QED  BY <1>6, <2>1, <3>1
  <2>3. ~(gopnr' > 2)
        BY <1>4, <1>8, <1>9, <1>10
  <2>4. gopnr' = KeysIn(got', Len(got'))
        BY <1>4, <1>7, <1>8
  <2>5. \A i \in 1..Len(out') : IsFrame(out'[i]) => \E j \in 1..i : IsKey(out'[j])
        BY <1>1, <2>1
  <2> QED  BY <1>1, <1>4, <2>1, <2>2, <2>3, <2>4, <2>5 DEF SkipInv
<1>11. CASE Kept(q)
  <2> DEFINE v == Append(out, q)  m == Len(out)
  <2>1. out' = v /\ ~(IsFrame(q) /\ KeysIn(u, l + 1) <= 2)
        BY <1>5, <1>6, <1>8, <1>9, <1>11
  <2>2. FlattenSeq(PartsKept(u)) = v
        BY <1>1, <1>3, <1>6, <2>1
  <2>3. v \in Seq(Pkts) /\ Len(v) = m + 1 /\ m \in Nat /\ (\A i \in 1..m : v[i] = out[i]) /\ v[m + 1] = q
        BY <1>1, AppendProperties, LenProperties
  <2> HIDE DEF v, m
  <2>4. gopnr' = KeysIn(got', Len(got'))
        BY <1>4, <1>7, <1>8
  <2>5. ASSUME k > 2
        PROVE  \E j \in 1..m + 1 : IsKey(v[j])
    <3>1. CASE IsKey(q)
          BY <2>3, <3>1
    <3>2. CASE ~IsKey(q)
      <4>1. gopnr > 2
            BY <1>8, <2>5, <3>2
      <4>2. PICK j \in 1..m : IsKey(out[j])
            BY <1>1, <4>1 DEF m
      <4>3. j \in 1..m + 1
            BY <2>3
      <4> QED  BY <2>3, <4>2, <4>3
    <3> QED  BY <3>1, <3>2
  <2>6. ASSUME NEW i \in 1..m + 1, IsFrame(v[i])
        PROVE  \E j \in 1..i : IsKey(v[j])
    <3>1. CASE i = m + 1
      <4>1. k > 2
            BY <1>9, <1>11, <2>3, <2>6, <3>1
      <4> QED  BY <2>5, <3>1, <4>1
    <3>2. CASE i # m + 1
      <4>1. i \in 1..m /\ \A j \in 1..i : j \in 1..m
            BY <2>3, <3>2
      <4>2. PICK j \in 1..i : IsKey(out[j])
            BY <1>1, <2>3, <2>6, <4>1 DEF m
      <4> QED  BY <2>3, <4>1, <4>2
    <3> QED  BY <3>1, <3>2
  <2>7. SkipInv'
        BY <1>4, <2>1, <2>2, <2>3, <2>4, <2>5, <2>6 DEF SkipInv
  <2> QED  BY <2>7
<1> QED  BY <1>10, <1>11

LEMMA SkipStep ==
    ASSUME FlvInv, SkipInv, [Next]_vars
    PROVE  SkipInv'
<1>1. ASSUME got' = got, gopnr' = gopnr, out' = out
      PROVE  SkipInv'
      BY <1>1 DEF SkipInv
<1>2. ASSUME NEW e, Fail(e)
      PROVE  SkipInv'
      BY <1>1, <1>2 DEF Fail
<1>3. CASE ReadFileHeader
      BY <1>1, <1>2, <1>3 DEF ReadFileHeader
<1>4. CASE ReadTag
  <2>1. ASSUME NEW j \in 1..Len(sent), SkipGop(Returned(sent[j]))
        PROVE  SkipInv'
    <3> DEFINE x == Returned(sent[j])
    <3>1. x = <<>> \/ \E q \in Pkts : x = <<q>>
      <4>1. sent \in Seq(Items)
            BY DEF FlvInv, Typed
      <4>2. sent[j] \in Items
            BY <4>1, ElementOfSeq
      <4> QED  BY <4>2, ReturnsOne
    <3>2. SkipGop(x)
          BY <2>1
    <3> HIDE DEF x
    <3>3. CASE x = <<>>
      <4>1. got \in Seq(Pkts) /\ gopnr \in 0..Len(got) /\ Len(got) \in Nat /\ ~ \E i \in 1..Len(<<>>) : TRUE
        <5>1. got \in Seq(Pkts) /\ gopnr \in 0..Len(got)
              BY DEF FlvInv, Typed
        <5> QED  BY <5>1
      <4>2. got \o <<>> = got /\ gopnr + 0 = gopnr
            BY <4>1, ConcatEmptySeq
      <4> QED  BY <1>1, <3>2, <3>3, <4>1, <4>2 DEF SkipGop
    <3>4. CASE \E q \in Pkts : x = <<q>>
          BY <3>2, <3>4, SkipPacket
    <3> QED  BY <3>1, <3>3, <3>4
  <2> QED  BY <1>2, <1>4, <2>1, TagStep
<1>5. ASSUME UNCHANGED readervars
      PROVE  SkipInv'
      BY <1>1, <1>5 DEF readervars
<1>6. ASSUME NEW item, NEW w, Mux(item, w)
      PROVE  UNCHANGED readervars
      BY <1>6 DEF Mux
<1>7. CASE \/ \E p \in Packets : WritePacket(p)
           \/ \E tag \in Foreign : WriteForeign(tag)
      BY <1>5, <1>6, <1>7 DEF WritePacket, WriteForeign
<1>8. CASE Write \/ Finished \/ UNCHANGED vars
      BY <1>5, <1>8 DEF Write, Finished, vars
<1> QED  BY <1>3, <1>4, <1>7, <1>8 DEF Next

LEMMA InvSkips == SkipInv => SkipsTwoGops
<1> SUFFICES ASSUME SkipInv
             PROVE  SkipsTwoGops
    OBVIOUS
<1>1. PartsKept(got) = [i \in 1..Len(got) |->
                           IF IsFrame(got[i]) /\ KeysRead(i) <= 2 THEN <<>> ELSE <<got[i]>>]
      BY DEF PartsKept, PartKept, KeysIn, KeysRead
<1> QED  BY <1>1 DEF SkipInv, SkipsTwoGops

\* Every variable keeps its type, and the reader stays behind the writer.
THEOREM FlvTypes == Spec => []TypeOK
BY FlvInvariant, InvTypeOK, PTL

\* The reader returns the packets that were muxed, in order, none twice, unchanged up to the
\* width of their times, whatever tags of other programs stand between them
\* (Muxer.WritePacket against Demuxer.ReadPacket).
THEOREM DemuxesWhatWasMuxed == Spec => []Demuxed
BY FlvInvariant, InvDemuxed, PTL

\* Reading ends with io.EOF only after the packets of all complete tags, and otherwise only
\* at a tag that is too short for its header (ReadTag).
THEOREM ReadsToTheEnd == Spec => EndsAtTheEnd
BY FlvInvariant, EndsStep, PTL DEF Spec, EndsAtTheEnd

\* skipgop leaves out exactly the frames before the third key frame, moves nothing, and begins
\* with a key frame (doSkipGop).
THEOREM SkipsExactlyTwoGops == Spec => []SkipsTwoGops
<1>1. FlvInv /\ SkipInv /\ [Next]_vars => SkipInv'
      BY SkipStep
<1>2. Spec => []SkipInv
      BY FlvInvariant, SkipInit, <1>1, PTL DEF Spec
<1> QED  BY <1>2, InvSkips, PTL

-----------------------------------------------------------------------------
(* Loops                                                                   *)

\* Two loops that start alike and go on alike are alike.
GoAlike(f, g, n) == f[0] = g[0] /\ \A i \in 1..n : f[i - 1] = g[i - 1] => f[i] = g[i]
Alike(f, g, n) == \A i \in 0..n : f[i] = g[i]

LEMMA SameLoops ==
    ASSUME NEW n \in Nat, NEW f, NEW g, GoAlike(f, g, n)
    PROVE  Alike(f, g, n)
<1>0. f[0] = g[0] /\ \A i \in 1..n : f[i - 1] = g[i - 1] => f[i] = g[i]
      BY DEF GoAlike
<1> DEFINE P == {i \in Nat : i \in 0..n => f[i] = g[i]}
<1>1. 0 \in P
      BY <1>0
<1>2. ASSUME NEW i \in Nat, i \in P
      PROVE  i + 1 \in P
  <2> SUFFICES ASSUME i + 1 \in 0..n
               PROVE  f[i + 1] = g[i + 1]
      OBVIOUS
  <2>1. i \in 0..n /\ i + 1 \in 1..n /\ (i + 1) - 1 = i
        OBVIOUS
  <2> QED  BY <1>0, <1>2, <2>1
<1> HIDE DEF P
<1>3. Nat \subseteq P
      BY <1>1, <1>2, NatSet
<1> QED  BY <1>3 DEF P, Alike

\* A loop of n turns that starts with a and does step[<<i, x>>] in turn i.
Turns(f, n, S, a, step) ==
    /\ f \in [0..n -> S]
    /\ f[0] = a
    /\ \A i \in 1..n : f[i] = step[<<i, f[i - 1]>>]

LEMMA LoopExists ==
    ASSUME NEW S, NEW a \in S, NEW step \in [Nat \X S -> S], NEW n \in Nat
    PROVE  \E f : Turns(f, n, S, a, step)
<1> DEFINE next == [p \in Nat \X S |-> step[<<p[1] + 1, p[2]>>]]
<1>1. \A i \in Nat, x \in S : <<i, x>> \in Nat \X S /\ next[<<i, x>>] = step[<<i + 1, x>>]
      OBVIOUS
<1>2. next \in [Nat \X S -> S]
      OBVIOUS
<1> HIDE DEF next
<1>3. PICK f : Recursion(f, n, S, a, next)
      BY <1>2, RecursionExists
<1>4. /\ f \in [0..n -> S] /\ f[0] = a
      /\ \A i \in 0..n - 1 : f[i + 1] = next[<<i, f[i]>>]
      BY <1>3 DEF Recursion
<1>5. \A i \in 1..n : f[i] = step[<<i, f[i - 1]>>]
  <2> TAKE i \in 1..n
  <2>1. i - 1 \in 0..n - 1 /\ i - 1 \in 0..n /\ i - 1 \in Nat /\ (i - 1) + 1 = i
        OBVIOUS
  <2>2. f[i] = next[<<i - 1, f[i - 1]>>] /\ f[i - 1] \in S
        BY <1>4, <2>1
  <2> QED  BY <1>1, <2>1, <2>2
<1> QED  BY <1>4, <1>5 DEF Turns

-----------------------------------------------------------------------------
(* Integer fields                                                          *)

LEMMA Bytes == ByteMod \in Nat /\ ByteMod >= 4 /\ ByteMod % 2 = 0
BY FramingAssumption

\* Any loop that does what BE does has its result.
LEMMA BEIs ==
    ASSUME NEW b, Len(b) \in Nat, NEW v, \A i \in 1..Len(b) : v[i] = v[i - 1] * ByteMod + b[i]
    PROVE  BE(v[0], b) = v[Len(b)]
<1> DEFINE n == Len(b)  high == v[0]
           Eq(g) == g = [i \in 0..n |-> IF i = 0 THEN high ELSE g[i - 1] * ByteMod + b[i]]
           h == CHOOSE g : Eq(g)
           w == [i \in 0..n |-> v[i]]
<1>1. BE(high, b) = h[n]
      BY DEF BE
<1>n. n \in Nat
      OBVIOUS
<1> HIDE DEF n
<1>2. Eq(w)
  <2>1. \A i \in 0..n : w[i] = IF i = 0 THEN high ELSE w[i - 1] * ByteMod + b[i]
    <3> TAKE i \in 0..n
    <3>1. CASE i = 0
          BY <3>1
    <3>2. CASE i # 0
      <4>1. i - 1 \in 0..n /\ i \in 1..n
            BY <3>2, <1>n
      <4>2. w[i - 1] = v[i - 1] /\ w[i] = v[i]
            BY <4>1
      <4> QED  BY <4>1, <4>2, <3>2 DEF n
    <3> QED  BY <3>1, <3>2
  <2> QED  BY <2>1
<1>3. Eq(h)
  <2> HIDE DEF Eq, w
  <2> QED  BY <1>2
<1> HIDE DEF h
<1>4. h[0] = v[0] /\ \A i \in 1..n : h[i] = h[i - 1] * ByteMod + b[i]
  <2>1. \A i \in 0..n : h[i] = IF i = 0 THEN high ELSE h[i - 1] * ByteMod + b[i]
        BY <1>3
  <2>2. 0 \in 0..n /\ \A i \in 1..n : i \in 0..n /\ i # 0
        BY <1>n
  <2> QED  BY <2>1, <2>2
<1>5. \A i \in 1..n : h[i - 1] = v[i - 1] => h[i] = v[i]
      BY <1>4 DEF n
<1>6. \A i \in 0..n : h[i] = v[i]
  <2>1. h[0] = v[0]
        BY <1>4
  <2>2. GoAlike(h, v, n)
        BY <2>1, <1>5 DEF GoAlike
  <2> HIDE DEF h
  <2> QED  BY <2>2, <1>n, SameLoops DEF Alike
<1>7. h[n] = v[n]
      BY <1>6, <1>n
<1> QED  BY <1>1, <1>7 DEF n

\* The powers up to k.
Powers(p, k) == p \in [0..k -> Nat] /\ p[0] = 1 /\ \A i \in 1..k : p[i] = ByteMod * p[i - 1]

LEMMA PowersExist == ASSUME NEW k \in Nat PROVE \E p : Powers(p, k)
<1> DEFINE step == [q \in Nat \X Nat |-> ByteMod * q[2]]
<1>1. step \in [Nat \X Nat -> Nat] /\ \A i, x \in Nat : step[<<i, x>>] = ByteMod * x
  <2>1. \A x \in Nat : ByteMod * x \in Nat
        BY Bytes
  <2> QED  BY <2>1
<1> HIDE DEF step
<1>p. PICK p : Turns(p, k, Nat, 1, step)
  <2>1. 1 \in Nat /\ step \in [Nat \X Nat -> Nat]
        BY <1>1
  <2> QED  BY <2>1, LoopExists
<1>2. p \in [0..k -> Nat] /\ p[0] = 1 /\ \A i \in 1..k : p[i] = step[<<i, p[i - 1]>>]
      BY <1>p DEF Turns
<1>3. \A i \in 1..k : i \in Nat /\ i - 1 \in 0..k
      OBVIOUS
<1>4. \A i \in 1..k : p[i] = ByteMod * p[i - 1]
      BY <1>1, <1>2, <1>3
<1> QED  BY <1>2, <1>4 DEF Powers

LEMMA PowerIs ==
    ASSUME NEW k \in Nat, NEW p, Powers(p, k)
    PROVE  \A j \in 0..k : Power(j) = p[j]
<1> SUFFICES ASSUME NEW n \in 0..k
             PROVE  Power(n) = p[n]
    OBVIOUS
<1> DEFINE Eq(g) == g = [i \in 0..n |-> IF i = 0 THEN 1 ELSE ByteMod * g[i - 1]]
           h == CHOOSE g : Eq(g)
           w == [i \in 0..n |-> p[i]]
<1>1. Power(n) = h[n]
      BY DEF Power
<1>n. n \in Nat /\ p[0] = 1 /\ \A i \in 1..n : p[i] = ByteMod * p[i - 1]
      BY DEF Powers
<1>2. Eq(w)
  <2>1. \A i \in 0..n : w[i] = IF i = 0 THEN 1 ELSE ByteMod * w[i - 1]
    <3> TAKE i \in 0..n
    <3>1. CASE i = 0
          BY <3>1, <1>n
    <3>2. CASE i # 0
      <4>1. i - 1 \in 0..n /\ i \in 1..n
            BY <3>2, <1>n
      <4>2. w[i - 1] = p[i - 1] /\ w[i] = p[i]
            BY <4>1
      <4> QED  BY <4>1, <4>2, <3>2, <1>n
    <3> QED  BY <3>1, <3>2
  <2> QED  BY <2>1
<1>3. Eq(h)
  <2> HIDE DEF Eq, w
  <2> QED  BY <1>2
<1> HIDE DEF h
<1>4. h[0] = 1 /\ \A i \in 1..n : h[i] = ByteMod * h[i - 1]
  <2>1. \A i \in 0..n : h[i] = IF i = 0 THEN 1 ELSE ByteMod * h[i - 1]
        BY <1>3
  <2>2. 0 \in 0..n /\ \A i \in 1..n : i \in 0..n /\ i # 0
        BY <1>n
  <2> QED  BY <2>1, <2>2
<1>5. \A i \in 1..n : h[i - 1] = p[i - 1] => h[i] = p[i]
      BY <1>4, <1>n
<1>6. \A i \in 0..n : h[i] = p[i]
  <2>1. GoAlike(h, p, n)
        BY <1>4, <1>5, <1>n DEF GoAlike
  <2> QED  BY <2>1, <1>n, SameLoops DEF Alike
<1> QED  BY <1>1, <1>6, <1>n

LEMMA PowerStep ==
    ASSUME NEW k \in Nat
    PROVE  /\ Power(k) \in Nat /\ Power(k) >= 1
           /\ Power(0) = 1 /\ Power(k + 1) = ByteMod * Power(k)
<1>1. PICK p : Powers(p, k + 1)
      BY PowersExist
<1>2. /\ p \in [0..k + 1 -> Nat] /\ p[0] = 1
      /\ \A i \in 1..k + 1 : p[i] = ByteMod * p[i - 1]
      BY <1>1 DEF Powers
<1>3. \A j \in 0..k + 1 : Power(j) = p[j]
      BY <1>1, PowerIs
<1>4. 0 \in 0..k + 1 /\ k \in 0..k + 1 /\ k + 1 \in 1..k + 1 /\ k + 1 \in 0..k + 1 /\ (k + 1) - 1 = k
      OBVIOUS
<1> DEFINE P == {j \in Nat : j \in 0..k + 1 => p[j] >= 1}
<1>5. 0 \in P
      BY <1>2
<1>6. ASSUME NEW j \in Nat, j \in P
      PROVE  j + 1 \in P
  <2> SUFFICES ASSUME j + 1 \in 0..k + 1
               PROVE  p[j + 1] >= 1
      OBVIOUS
  <2>1. j \in 0..k + 1 /\ j + 1 \in 1..k + 1 /\ (j + 1) - 1 = j
        OBVIOUS
  <2>2. p[j] \in Nat /\ p[j] >= 1 /\ p[j + 1] = ByteMod * p[j]
        BY <1>2, <1>6, <2>1
  <2> QED  BY <2>2, Bytes
<1> HIDE DEF P
<1>7. k \in P
      BY <1>5, <1>6, NatSet
<1>8. p[k] >= 1
      BY <1>4, <1>7 DEF P
<1>9. p[k + 1] = ByteMod * p[k]
      BY <1>2, <1>4
<1> QED  BY <1>2, <1>3, <1>4, <1>8, <1>9

\* What is left of v after each of k bytes.
Shifts(f, v, k) == f \in [0..k -> Int] /\ f[0] = v /\ \A i \in 1..k : f[i] = f[i - 1] \div ByteMod

LEMMA ShiftsExist == ASSUME NEW v \in Int, NEW k \in Nat PROVE \E f : Shifts(f, v, k)
<1> DEFINE step == [q \in Nat \X Int |-> q[2] \div ByteMod]
<1>1. step \in [Nat \X Int -> Int] /\ \A i \in Nat, x \in Int : step[<<i, x>>] = x \div ByteMod
  <2>1. \A x \in Int : x \div ByteMod \in Int
        BY Bytes
  <2> QED  BY <2>1
<1> HIDE DEF step
<1>p. PICK f : Turns(f, k, Int, v, step)
  <2>1. step \in [Nat \X Int -> Int]
        BY <1>1
  <2> QED  BY <2>1, LoopExists
<1>2. f \in [0..k -> Int] /\ f[0] = v /\ \A i \in 1..k : f[i] = step[<<i, f[i - 1]>>]
      BY <1>p DEF Turns
<1>3. \A i \in 1..k : i \in Nat /\ i - 1 \in 0..k
      OBVIOUS
<1>4. \A i \in 1..k : f[i] = f[i - 1] \div ByteMod
      BY <1>1, <1>2, <1>3
<1> QED  BY <1>2, <1>4 DEF Shifts

LEMMA PutBEIs ==
    ASSUME NEW k \in Nat, NEW v \in Int, NEW f, Shifts(f, v, k)
    PROVE  /\ PutBE(v, k) = [i \in 1..k |-> f[k - i] % ByteMod]
           /\ PutBE(v, k) \in Seq(Byte) /\ Len(PutBE(v, k)) = k
           /\ \A i \in 1..k : k - i \in 0..k - 1 /\ PutBE(v, k)[i] = f[k - i] % ByteMod
<1> DEFINE Eq(g) == g = [i \in 0..k |-> IF i = 0 THEN v ELSE g[i - 1] \div ByteMod]
           h == CHOOSE g : Eq(g)
           w == [i \in 0..k |-> f[i]]
<1>1. PutBE(v, k) = [i \in 1..k |-> h[k - i] % ByteMod]
      BY DEF PutBE
<1>n. f \in [0..k -> Int] /\ f[0] = v /\ \A i \in 1..k : f[i] = f[i - 1] \div ByteMod
      BY DEF Shifts
<1>2. Eq(w)
  <2>1. \A i \in 0..k : w[i] = IF i = 0 THEN v ELSE w[i - 1] \div ByteMod
    <3> TAKE i \in 0..k
    <3>1. CASE i = 0
          BY <3>1, <1>n
    <3>2. CASE i # 0
      <4>1. i - 1 \in 0..k /\ i \in 1..k
            BY <3>2
      <4>2. w[i - 1] = f[i - 1] /\ w[i] = f[i]
            BY <4>1
      <4> QED  BY <4>1, <4>2, <3>2, <1>n
    <3> QED  BY <3>1, <3>2
  <2> QED  BY <2>1
<1>3. Eq(h)
  <2> HIDE DEF Eq, w
  <2> QED  BY <1>2
<1> HIDE DEF h
<1>4. h[0] = v /\ \A i \in 1..k : h[i] = h[i - 1] \div ByteMod
  <2>1. \A i \in 0..k : h[i] = IF i = 0 THEN v ELSE h[i - 1] \div ByteMod
        BY <1>3
  <2>2. 0 \in 0..k /\ \A i \in 1..k : i \in 0..k /\ i # 0
        OBVIOUS
  <2> QED  BY <2>1, <2>2
<1>6. \A i \in 0..k : h[i] = f[i]
  <2>1. GoAlike(h, f, k)
        BY <1>4, <1>n DEF GoAlike
  <2> QED  BY <2>1, SameLoops DEF Alike
<1>7. \A i \in 1..k : k - i \in 0..k /\ k - i \in 0..k - 1
      OBVIOUS
<1>8. PutBE(v, k) = [i \in 1..k |-> f[k - i] % ByteMod]
      BY <1>1, <1>6, <1>7
<1>9. \A i \in 1..k : f[k - i] % ByteMod \in Byte
  <2> TAKE i \in 1..k
  <2>1. f[k - i] \in Int
        BY <1>7, <1>n
  <2>2. \A x \in Int : x % ByteMod \in Byte
        BY Bytes DEF Byte
  <2> QED  BY <2>1, <2>2
<1> DEFINE u == [i \in 1..k |-> f[k - i] % ByteMod]
<1>10. u \in Seq(Byte) /\ Len(u) = k /\ \A i \in 1..k : u[i] = f[k - i] % ByteMod
      BY <1>9
<1> QED  BY <1>7, <1>8, <1>10

\* The low bytes of a number are a byte and the low bytes of what is left.
LEMMA ModSplit ==
    ASSUME NEW x \in Int, NEW m \in Nat \ {0}, NEW p \in Nat \ {0}
    PROVE  x % (m * p) = ((x \div m) % p) * m + (x % m)
<1> DEFINE y == x \div m  r == x % m  q == y \div p  t == y % p
<1>1. x = m * y + r /\ r \in 0..m - 1 /\ y \in Int
      OBVIOUS
<1>2. y = p * q + t /\ t \in 0..p - 1 /\ q \in Int
      BY <1>1
<1> HIDE DEF y, r, q, t
<1>3. m * p \in Nat \ {0}
      OBVIOUS
<1>4. x = (m * p) * q + (t * m + r)
      BY <1>1, <1>2
<1>5. t * m + r >= 0 /\ t * m + r < m * p
  <2>1. t + 1 <= p /\ r < m /\ t >= 0 /\ r >= 0
        BY <1>1, <1>2
  <2>2. (t + 1) * m <= p * m
        BY <2>1, <1>2
  <2>3. (t + 1) * m = t * m + m /\ t * m >= 0
        BY <2>1, <1>2
  <2> QED  BY <2>1, <2>2, <2>3, <1>1, <1>2
<1> DEFINE M == m * p  z == t * m + r
<1>6. M \in Nat \ {0} /\ x = M * q + z /\ z \in 0..M - 1 /\ q \in Int
      BY <1>1, <1>2, <1>3, <1>4, <1>5
<1> HIDE DEF M, z
<1>7. x % M = z
  <2>1. x = M * (x \div M) + (x % M) /\ x % M \in 0..M - 1 /\ x \div M \in Int
        BY <1>6, DivMod
  <2> DEFINE a == x \div M  c == x % M
  <2> HIDE DEF a, c
  <2>2. M * (a - q) = z - c /\ a \in Int /\ c \in 0..M - 1
        BY <2>1, <1>6 DEF a, c
  <2>3. a - q < 1
    <3> SUFFICES ASSUME a - q >= 1
                 PROVE  FALSE
        BY <2>2, <1>6
    <3>1. M * (a - q) >= M
          BY <2>2, <1>6
    <3> QED  BY <3>1, <2>2, <1>6
  <2>4. a - q > -1
    <3> SUFFICES ASSUME a - q <= -1
                 PROVE  FALSE
        BY <2>2, <1>6
    <3>1. M * (a - q) <= -M
          BY <2>2, <1>6
    <3> QED  BY <3>1, <2>2, <1>6
  <2>5. a = q
        BY <2>2, <2>3, <2>4, <1>6
  <2>6. z = c
        BY <2>1, <2>2, <2>5, <1>6 DEF a, c
  <2> QED  BY <2>6 DEF c
<1> QED  BY <1>7 DEF M, z, t, r, y

\* What is written of k bytes is read: the number up to the k bytes.
LEMMA UnsignedBack ==
    ASSUME NEW k \in Nat, NEW v \in Int
    PROVE  UBE(PutBE(v, k)) = v % Power(k)
<1> DEFINE b == PutBE(v, k)
<1>1. PICK f : Shifts(f, v, k)
      BY ShiftsExist
<1>2. f \in [0..k -> Int] /\ f[0] = v /\ \A i \in 1..k : f[i] = f[i - 1] \div ByteMod
      BY <1>1 DEF Shifts
<1>3. Len(b) = k /\ \A i \in 1..k : b[i] = f[k - i] % ByteMod
      BY <1>1, PutBEIs
<1> HIDE DEF b
<1> DEFINE w == [i \in 0..k |-> f[k - i] % Power(i)]
<1>4. \A i \in 1..k : w[i] = w[i - 1] * ByteMod + b[i]
  <2> TAKE i \in 1..k
  <2>1. /\ k - i \in 0..k /\ k - (i - 1) \in 1..k /\ i - 1 \in 0..k /\ i - 1 \in Nat
        /\ (i - 1) + 1 = i /\ (k - (i - 1)) - 1 = k - i
        OBVIOUS
  <2> DEFINE x == f[k - i]  y == f[k - (i - 1)]  p == Power(i - 1)  q == Power(i)
  <2>2. x \in Int /\ y = x \div ByteMod
        BY <1>2, <2>1
  <2>3. p \in Nat \ {0} /\ q = ByteMod * p
        BY <2>1, PowerStep
  <2>4. w[i] = x % q /\ w[i - 1] = y % p
        BY <2>1
  <2>5. b[i] = x % ByteMod
        BY <1>3
  <2> HIDE DEF x, y, p, q, w
  <2>6. ByteMod \in Nat \ {0}
        BY Bytes
  <2>7. x % (ByteMod * p) = ((x \div ByteMod) % p) * ByteMod + (x % ByteMod)
        BY <2>2, <2>3, <2>6, ModSplit
  <2> QED  BY <2>2, <2>3, <2>4, <2>5, <2>7
<1>5. w[0] = 0
  <2>1. w[0] = f[k] % 1 /\ f[k] \in Int
        BY <1>2, PowerStep
  <2>2. \A x \in Int : x % 1 = 0
        OBVIOUS
  <2> QED  BY <2>1, <2>2
<1>6. w[k] = v % Power(k)
      BY <1>2
<1> HIDE DEF w
<1>7. BE(w[0], b) = w[Len(b)]
  <2>1. Len(b) \in Nat /\ \A i \in 1..Len(b) : w[i] = w[i - 1] * ByteMod + b[i]
        BY <1>3, <1>4
  <2> QED  BY <2>1, BEIs
<1> QED  BY <1>3, <1>5, <1>6, <1>7 DEF UBE, b

LEMMA PowerEven == ASSUME NEW k \in Nat PROVE Power(k + 1) % 2 = 0
<1> DEFINE p == Power(k)
<1>1. p \in Nat /\ Power(k + 1) = ByteMod * p
      BY PowerStep
<1> HIDE DEF p
<1>2. PICK h \in Nat : ByteMod = 2 * h
  <2>1. ByteMod = 2 * (ByteMod \div 2) /\ ByteMod \div 2 \in Nat
        BY Bytes
  <2> QED  BY <2>1
<1>3. ByteMod * p = 2 * (h * p) /\ h * p \in Nat
      BY <1>1, <1>2
<1>4. \A x \in Nat : (2 * x) % 2 = 0
      OBVIOUS
<1> QED  BY <1>1, <1>3, <1>4

\* A signed number keeps its half of the range.
LEMMA HalfStep ==
    ASSUME NEW x \in Int, NEW m \in Nat \ {0}, NEW p \in Nat \ {0}, p % 2 = 0,
           -(m * p) <= 2 * x, 2 * x < m * p
    PROVE  -p <= 2 * (x \div m) /\ 2 * (x \div m) < p
<1> DEFINE y == x \div m  r == x % m
<1>1. x = m * y + r /\ r \in 0..m - 1 /\ y \in Int
      OBVIOUS
<1> HIDE DEF y, r
<1>2. PICK h \in Nat : p = 2 * h
  <2>1. p = 2 * (p \div 2) /\ p \div 2 \in Nat
        OBVIOUS
  <2> QED  BY <2>1
<1>3. -(m * h) <= x /\ x < m * h
  <2>1. m * p = 2 * (m * h) /\ m * h \in Int
        BY <1>2
  <2> QED  BY <2>1
<1>4. y < h
  <2> SUFFICES ASSUME y >= h
               PROVE  FALSE
      BY <1>1
  <2>1. m * y >= m * h
        BY <1>1
  <2> QED  BY <2>1, <1>1, <1>3
<1>5. y >= -h
  <2> SUFFICES ASSUME y + 1 <= -h
               PROVE  FALSE
      BY <1>1
  <2>1. m * (y + 1) <= m * (-h)
        BY <1>1
  <2>2. m * (y + 1) = m * y + m /\ m * (-h) = -(m * h)
        BY <1>1
  <2> QED  BY <2>1, <2>2, <1>1, <1>3
<1> QED  BY <1>1, <1>2, <1>4, <1>5 DEF y

\* A number that k bytes hold with its sign comes back with it.
LEMMA SignedBack ==
    ASSUME NEW k \in Nat \ {0}, NEW v \in Int, -Power(k) <= 2 * v, 2 * v < Power(k)
    PROVE  IBE(PutBE(v, k)) = v
<1> DEFINE b == PutBE(v, k)
<1>1. PICK f : Shifts(f, v, k)
      BY ShiftsExist
<1>2. f \in [0..k -> Int] /\ f[0] = v /\ \A i \in 1..k : f[i] = f[i - 1] \div ByteMod
      BY <1>1 DEF Shifts
<1>3. Len(b) = k /\ \A i \in 1..k : b[i] = f[k - i] % ByteMod
      BY <1>1, PutBEIs
<1> HIDE DEF b
<1> DEFINE Fits(j) == -Power(k - j) <= 2 * f[j] /\ 2 * f[j] < Power(k - j)
           P == {j \in Nat : j <= k - 1 => Fits(j)}
<1>4. 0 \in P
      BY <1>2
<1>5. ASSUME NEW j \in Nat, j \in P
      PROVE  j + 1 \in P
  <2> SUFFICES ASSUME j + 1 <= k - 1
               PROVE  Fits(j + 1)
      OBVIOUS
  <2>1. /\ j \in 0..k /\ j + 1 \in 1..k /\ j + 1 \in 0..k /\ (j + 1) - 1 = j /\ j <= k - 1
        /\ k - (j + 1) \in Nat /\ (k - (j + 1)) + 1 = k - j
        /\ k - (j + 1) - 1 \in Nat /\ (k - (j + 1) - 1) + 1 = k - (j + 1)
        OBVIOUS
  <2> DEFINE x == f[j]  p == Power(k - (j + 1))
  <2>2. x \in Int /\ f[j + 1] = x \div ByteMod
        BY <1>2, <2>1
  <2>3. p \in Nat \ {0} /\ Power(k - j) = ByteMod * p
    <3>1. /\ Power(k - (j + 1)) \in Nat /\ Power(k - (j + 1)) >= 1
          /\ Power((k - (j + 1)) + 1) = ByteMod * Power(k - (j + 1))
          BY <2>1, PowerStep
    <3> QED  BY <3>1, <2>1
  <2>4. p % 2 = 0
    <3>1. Power((k - (j + 1) - 1) + 1) % 2 = 0
          BY <2>1, PowerEven
    <3> QED  BY <3>1, <2>1
  <2>5. -(ByteMod * p) <= 2 * x /\ 2 * x < ByteMod * p
        BY <1>5, <2>1, <2>3
  <2> HIDE DEF x, p
  <2>6. ByteMod \in Nat \ {0}
        BY Bytes
  <2>7. -p <= 2 * (x \div ByteMod) /\ 2 * (x \div ByteMod) < p
        BY <2>2, <2>3, <2>4, <2>5, <2>6, HalfStep
  <2> QED  BY <2>2, <2>7 DEF p
<1> HIDE DEF P, Fits
<1>6. k - 1 \in P /\ k - 1 \in Nat
  <2>1. k - 1 \in Nat
        OBVIOUS
  <2> QED  BY <2>1, <1>4, <1>5, NatSet
<1> DEFINE x == f[k - 1]
<1>7. x \in Int /\ f[k] = x \div ByteMod /\ b[1] = x % ByteMod
  <2>1. k - 1 \in 0..k /\ k \in 1..k /\ 1 \in 1..k
        OBVIOUS
  <2> QED  BY <1>2, <1>3, <2>1
<1>8. -ByteMod <= 2 * x /\ 2 * x < ByteMod
  <2>1. Power(1) = ByteMod
    <3>1. Power(0) = 1 /\ Power(0 + 1) = ByteMod * Power(0)
          BY PowerStep
    <3> QED  BY <3>1, Bytes
  <2>2. k - (k - 1) = 1
        OBVIOUS
  <2> QED  BY <1>6, <2>1, <2>2 DEF P, Fits
<1> HIDE DEF x
<1>9. f[k] = IF b[1] < ByteMod \div 2 THEN 0 ELSE -1
  <2>1. PICK h \in Nat : ByteMod = 2 * h /\ ByteMod \div 2 = h /\ h >= 2
    <3>1. ByteMod = 2 * (ByteMod \div 2) /\ ByteMod \div 2 \in Nat /\ ByteMod \div 2 >= 2
          BY Bytes
    <3> QED  BY <3>1
  <2>2. x \in -h..h - 1
        BY <1>7, <1>8, <2>1
  <2>3. CASE x >= 0
    <3>1. x \div ByteMod = 0 /\ x % ByteMod = x
          BY <2>1, <2>2, <2>3
    <3> QED  BY <3>1, <2>1, <2>2, <1>7
  <2>4. CASE x < 0
    <3>1. x \div ByteMod = -1 /\ x % ByteMod = x + ByteMod
          BY <2>1, <2>2, <2>4
    <3> QED  BY <3>1, <2>1, <2>2, <1>7
  <2> QED  BY <2>2, <2>3, <2>4
<1> DEFINE w == [i \in 0..k |-> f[k - i]]
<1>10. \A i \in 1..k : w[i] = w[i - 1] * ByteMod + b[i]
  <2> TAKE i \in 1..k
  <2>1. /\ k - i \in 0..k /\ k - (i - 1) \in 1..k /\ i - 1 \in 0..k
        /\ (k - (i - 1)) - 1 = k - i
        OBVIOUS
  <2> DEFINE y == f[k - i]  z == f[k - (i - 1)]
  <2>2. y \in Int /\ z = y \div ByteMod
        BY <1>2, <2>1
  <2>3. w[i] = y /\ w[i - 1] = z
        BY <2>1
  <2>4. b[i] = y % ByteMod
        BY <1>3
  <2> HIDE DEF y, z, w
  <2>5. ByteMod \in Nat \ {0}
        BY Bytes
  <2>6. y = ByteMod * (y \div ByteMod) + (y % ByteMod) /\ y \div ByteMod \in Int
        BY <2>2, <2>5, DivMod
  <2> QED  BY <2>2, <2>3, <2>4, <2>5, <2>6
<1>11. w[0] = f[k] /\ w[k] = v
      BY <1>2
<1> HIDE DEF w
<1>12. BE(w[0], b) = w[Len(b)]
  <2>1. Len(b) \in Nat /\ \A i \in 1..Len(b) : w[i] = w[i - 1] * ByteMod + b[i]
        BY <1>3, <1>10
  <2> QED  BY <2>1, BEIs
<1> QED  BY <1>3, <1>9, <1>11, <1>12 DEF IBE, b

\* A byte behind a number is taken off it again.
LEMMA DivBack ==
    ASSUME NEW y \in Int, NEW m \in Nat \ {0}, NEW r \in 0..m - 1
    PROVE  (y * m + r) \div m = y /\ (y * m + r) % m = r
<1> DEFINE x == y * m + r  a == x \div m  c == x % m
<1>1. x \in Int
      OBVIOUS
<1>2. x = m * a + c /\ c \in 0..m - 1 /\ a \in Int
  <2> HIDE DEF x
  <2> QED  BY <1>1, DivMod
<1> HIDE DEF a, c
<1>3. m * (a - y) = r - c
      BY <1>2
<1>4. a - y < 1
  <2> SUFFICES ASSUME a - y >= 1
               PROVE  FALSE
      BY <1>2
  <2>1. m * (a - y) >= m
        BY <1>2
  <2> QED  BY <2>1, <1>2, <1>3
<1>5. a - y > -1
  <2> SUFFICES ASSUME a - y <= -1
               PROVE  FALSE
      BY <1>2
  <2>1. m * (a - y) <= -m
        BY <1>2
  <2> QED  BY <2>1, <1>2, <1>3
<1>6. a = y
      BY <1>2, <1>4, <1>5
<1>7. c = r
      BY <1>2, <1>3, <1>6
<1> QED  BY <1>6, <1>7 DEF a, c

LEMMA ByteOf ==
    ASSUME NEW b \in Seq(Byte)
    PROVE  Len(b) \in Nat /\ \A i \in 1..Len(b) : b[i] \in Byte /\ b[i] \in Nat /\ b[i] \in 0..ByteMod - 1
<1>1. Len(b) \in Nat /\ \A i \in 1..Len(b) : b[i] \in Byte
      BY ElementOfSeq, LenProperties
<1>2. \A x \in Byte : x \in Nat /\ x \in 0..ByteMod - 1
      BY Bytes DEF Byte
<1> QED  BY <1>1, <1>2

\* What is read of the first bytes of b.
Sums(v, b) == v \in [0..Len(b) -> Nat] /\ v[0] = 0 /\ \A i \in 1..Len(b) : v[i] = v[i - 1] * ByteMod + b[i]

LEMMA SumsExist == ASSUME NEW b \in Seq(Byte) PROVE \E v : Sums(v, b)
<1> DEFINE n == Len(b)
           step == [q \in Nat \X Nat |-> IF q[1] \in 1..n THEN q[2] * ByteMod + b[q[1]] ELSE 0]
<1>n. n \in Nat /\ \A i \in 1..n : b[i] \in Nat
  <2> HIDE DEF step
  <2> QED  BY ByteOf
<1> HIDE DEF n
<1>1. step \in [Nat \X Nat -> Nat] /\ \A i \in 1..n, x \in Nat : step[<<i, x>>] = x * ByteMod + b[i]
  <2>1. \A i \in 1..n, x \in Nat : x * ByteMod + b[i] \in Nat
        BY Bytes, <1>n
  <2>2. \A q \in Nat \X Nat : q[1] \in Nat /\ q[2] \in Nat /\ q = <<q[1], q[2]>>
        OBVIOUS
  <2>3. \A q \in Nat \X Nat : (IF q[1] \in 1..n THEN q[2] * ByteMod + b[q[1]] ELSE 0) \in Nat
        BY <2>1, <2>2
  <2>4. \A i \in 1..n, x \in Nat : <<i, x>> \in Nat \X Nat
        BY <1>n
  <2> QED  BY <2>3, <2>4
<1> HIDE DEF step
<1>p. PICK v : Turns(v, n, Nat, 0, step)
  <2>1. 0 \in Nat /\ step \in [Nat \X Nat -> Nat]
        BY <1>1
  <2> QED  BY <2>1, <1>n, LoopExists
<1>2. v \in [0..n -> Nat] /\ v[0] = 0 /\ \A i \in 1..n : v[i] = step[<<i, v[i - 1]>>]
      BY <1>p DEF Turns
<1>3. \A i \in 1..n : i - 1 \in 0..n
      BY <1>n
<1>4. \A i \in 1..n : v[i] = v[i - 1] * ByteMod + b[i]
      BY <1>1, <1>2, <1>3
<1> QED  BY <1>2, <1>4 DEF Sums, n

LEMMA UBEIs ==
    ASSUME NEW b \in Seq(Byte), NEW v, Sums(v, b)
    PROVE  UBE(b) = v[Len(b)] /\ UBE(b) \in Nat
<1>1. /\ v \in [0..Len(b) -> Nat] /\ v[0] = 0 /\ Len(b) \in Nat
      /\ \A i \in 1..Len(b) : v[i] = v[i - 1] * ByteMod + b[i]
      BY DEF Sums
<1>2. BE(v[0], b) = v[Len(b)]
      BY <1>1, BEIs
<1>3. v[Len(b)] \in Nat
      BY <1>1
<1> QED  BY <1>1, <1>2, <1>3 DEF UBE

\* What is read is written as it was.
LEMMA BytesBack ==
    ASSUME NEW b \in Seq(Byte)
    PROVE  PutBE(UBE(b), Len(b)) = b
<1> DEFINE k == Len(b)
<1>1. PICK v : Sums(v, b)
      BY SumsExist
<1>2. /\ v \in [0..k -> Nat] /\ v[0] = 0 /\ k \in Nat
      /\ \A i \in 1..k : v[i] = v[i - 1] * ByteMod + b[i]
      BY <1>1 DEF Sums
<1>3. UBE(b) = v[k] /\ UBE(b) \in Nat
      BY <1>1, UBEIs
<1>b. \A i \in 1..k : b[i] \in 0..ByteMod - 1
      BY ByteOf
<1>d. Len(b) = k
      OBVIOUS
<1> HIDE DEF k
<1> DEFINE f == [j \in 0..k |-> v[k - j]]
<1>4. \A i \in 1..k : v[i] \div ByteMod = v[i - 1] /\ v[i] % ByteMod = b[i]
  <2> TAKE i \in 1..k
  <2>1. v[i - 1] \in Int /\ b[i] \in 0..ByteMod - 1 /\ ByteMod \in Nat \ {0}
    <3>1. i - 1 \in 0..k
          BY <1>2
    <3> QED  BY <3>1, <1>2, <1>b, Bytes
  <2>2. /\ (v[i - 1] * ByteMod + b[i]) \div ByteMod = v[i - 1]
        /\ (v[i - 1] * ByteMod + b[i]) % ByteMod = b[i]
        BY <2>1, DivBack
  <2> QED  BY <2>2, <1>2
<1>5. Shifts(f, UBE(b), k)
  <2>1. f \in [0..k -> Int]
    <3>1. \A j \in 0..k : k - j \in 0..k
          BY <1>2
    <3>2. \A j \in 0..k : v[k - j] \in Int
          BY <3>1, <1>2
    <3> QED  BY <3>2
  <2>2. f[0] = UBE(b)
        BY <1>2, <1>3
  <2>3. \A j \in 1..k : f[j] = f[j - 1] \div ByteMod
    <3> TAKE j \in 1..k
    <3>1. /\ j \in 0..k /\ j - 1 \in 0..k /\ k - (j - 1) \in 1..k
          /\ (k - (j - 1)) - 1 = k - j
          BY <1>2
    <3>2. f[j] = v[k - j] /\ f[j - 1] = v[k - (j - 1)]
          BY <3>1
    <3> QED  BY <3>1, <3>2, <1>4
  <2> HIDE DEF f
  <2> QED  BY <2>1, <2>2, <2>3 DEF Shifts
<1>6. \A j \in 0..k : f[j] = v[k - j]
      OBVIOUS
<1> HIDE DEF f
<1> DEFINE u == PutBE(UBE(b), k)
<1>7. u \in Seq(Byte) /\ Len(u) = k /\ \A i \in 1..k : k - i \in 0..k - 1 /\ u[i] = f[k - i] % ByteMod
      BY <1>2, <1>3, <1>5, PutBEIs
<1> HIDE DEF u
<1>8. \A i \in 1..k : u[i] = b[i]
  <2> TAKE i \in 1..k
  <2>1. k - i \in 0..k /\ k - (k - i) = i
        BY <1>2
  <2>2. f[k - i] = v[i]
        BY <2>1, <1>6
  <2>3. u[i] = v[i] % ByteMod
        BY <2>2, <1>7
  <2> QED  BY <2>3, <1>4
<1>9. u = b
      BY <1>7, <1>8, <1>d, SeqEqual
<1> QED  BY <1>9 DEF u, k

\* Four bytes, written out.
LEMMA FourBytes ==
    ASSUME NEW b \in Seq(Byte), Len(b) = 4
    PROVE  /\ b[1] \in Byte /\ b[2] \in Byte /\ b[3] \in Byte /\ b[4] \in Byte
           /\ UBE(b) = ((b[1] * ByteMod + b[2]) * ByteMod + b[3]) * ByteMod + b[4]
           /\ UBE(b) \in Nat
<1>1. PICK v : Sums(v, b)
      BY SumsExist
<1>2. /\ v[0] = 0
      /\ \A i \in 1..4 : v[i] = v[i - 1] * ByteMod + b[i]
      BY <1>1 DEF Sums
<1>3. UBE(b) = v[4] /\ UBE(b) \in Nat
      BY <1>1, UBEIs
<1>4. v[1] = v[0] * ByteMod + b[1] /\ v[2] = v[1] * ByteMod + b[2]
      /\ v[3] = v[2] * ByteMod + b[3] /\ v[4] = v[3] * ByteMod + b[4]
      BY <1>2
<1>5. b[1] \in Byte /\ b[2] \in Byte /\ b[3] \in Byte /\ b[4] \in Byte
  <2>1. \A i \in 1..4 : b[i] \in Byte
        BY ByteOf
  <2> QED  BY <2>1
<1>6. v[1] = b[1]
  <2>1. b[1] \in Int /\ ByteMod \in Int /\ v[1] = 0 * ByteMod + b[1]
        BY <1>2, <1>4, <1>5, Bytes DEF Byte
  <2> QED  BY <2>1
<1> QED  BY <1>3, <1>4, <1>5, <1>6

LEMMA ReadIs ==
    ASSUME NEW b \in Seq(Byte), NEW n \in Nat, NEW k \in Nat
    PROVE  /\ Len(b) < n + k => Read(b, n, k) = Err /\ ReadU(b, n, k) = Err /\ ReadI(b, n, k) = Err
           /\ n + k <= Len(b) =>
                 /\ Read(b, n, k) = Ok(SubSeq(b, n + 1, n + k), n + k)
                 /\ ReadU(b, n, k) = Ok(UBE(SubSeq(b, n + 1, n + k)), n + k)
                 /\ ReadI(b, n, k) = Ok(IBE(SubSeq(b, n + 1, n + k)), n + k)
<1> DEFINE r == Read(b, n, k)  s == SubSeq(b, n + 1, n + k)
<1>1. CASE Len(b) < n + k
  <2>1. r = Err /\ ~r.ok
        BY <1>1 DEF Read, Err
  <2>2. ReadU(b, n, k) = r /\ ReadI(b, n, k) = r
        BY <2>1 DEF ReadU, ReadI, As
  <2> QED  BY <1>1, <2>1, <2>2
<1>2. CASE n + k <= Len(b)
  <2>1. ~(Len(b) < n + k)
        BY <1>2
  <2>2. r = Ok(s, n + k)
        BY <2>1 DEF Read
  <2>3. Ok(s, n + k).ok /\ Ok(s, n + k).v = s /\ Ok(s, n + k).n = n + k
    <3> HIDE DEF s
    <3> QED  BY DEF Ok
  <2> HIDE DEF s
  <2>4. r.ok /\ r.v = s /\ r.n = n + k
        BY <2>2, <2>3
  <2> HIDE DEF r
  <2>5. As(r, UBE) = Ok(UBE(s), n + k) /\ As(r, IBE) = Ok(IBE(s), n + k)
        BY <2>4 DEF As
  <2>6. ReadU(b, n, k) = Ok(UBE(s), n + k) /\ ReadI(b, n, k) = Ok(IBE(s), n + k)
        BY <2>5 DEF ReadU, ReadI, r
  <2> QED  BY <2>1, <2>2, <2>6 DEF s, r
<1>3. Len(b) < n + k \/ n + k <= Len(b)
      OBVIOUS
<1> QED  BY <1>1, <1>2, <1>3

LEMMA ReverseTwice ==
    ASSUME NEW A, NEW s \in Seq(A)
    PROVE  Reverse(Reverse(s)) = s
<1> DEFINE n == Len(s)  r == Reverse(s)  u == Reverse(r)
<1>1. n \in Nat /\ \A i \in 1..n : (n - i) + 1 \in 1..n
      OBVIOUS
<1>2. r \in Seq(A) /\ Len(r) = n /\ \A i \in 1..n : r[i] = s[(n - i) + 1]
  <2>1. \A i \in 1..n : s[(n - i) + 1] \in A
        BY <1>1, ElementOfSeq
  <2>2. r = [i \in 1..n |-> s[(n - i) + 1]]
        BY DEF Reverse
  <2> HIDE DEF n, r
  <2> QED  BY <1>1, <2>1, <2>2
<1> HIDE DEF r
<1>3. u = [i \in 1..n |-> r[(n - i) + 1]]
      BY <1>2 DEF Reverse
<1> HIDE DEF u, n
<1>4. \A i \in 1..n : r[(n - i) + 1] = s[i]
  <2> TAKE i \in 1..n
  <2>1. (n - i) + 1 \in 1..n /\ (n - ((n - i) + 1)) + 1 = i
        BY <1>1
  <2> QED  BY <1>2, <2>1
<1>5. u \in Seq(A) /\ Len(u) = n /\ \A i \in 1..n : u[i] = s[i]
  <2>1. \A i \in 1..n : s[i] \in A
        BY ElementOfSeq DEF n
  <2>2. u = [i \in 1..n |-> s[i]]
        BY <1>3, <1>4
  <2> QED  BY <1>1, <2>1, <2>2
<1>6. Len(s) = n
      BY DEF n
<1>7. u = s
      BY <1>5, <1>6, SeqEqual
<1> QED  BY <1>7 DEF u, r

\* What the calls return of an integer.
LEMMA IntegerIsKept ==
    ASSUME NEW v \in Int, NEW k \in 1..8, NEW n \in 0..2
    PROVE  IntegerKept(v, k, n, IntegerBack(v, k, n))
<1> DEFINE x == PutBE(v, k)  z == [i \in 1..n |-> 0]  b == z \o x  short == Front(b)  c == IntegerBack(v, k, n)
<1>1. k \in Nat \ {0} /\ n \in Nat /\ 0 \in Byte
      BY Bytes DEF Byte
<1>2. x \in Seq(Byte) /\ Len(x) = k
  <2>1. PICK f : Shifts(f, v, k)
        BY <1>1, ShiftsExist
  <2> QED  BY <1>1, <2>1, PutBEIs
<1>3. z \in Seq(Byte) /\ Len(z) = n
  <2> HIDE DEF x
  <2>1. \A i \in 1..n : 0 \in Byte
        BY <1>1
  <2> QED  BY <1>1, <2>1
<1> HIDE DEF x, z
<1>4. b \in Seq(Byte) /\ Len(b) = n + k /\ SubSeq(b, n + 1, n + k) = x
      BY ZenonT(40), <1>2, <1>3, ConcatParts
<1>c. c = [u |-> ReadU(b, n, k), i |-> ReadI(b, n, k), le |-> U32LE(PutU32LE(v)),
           short |-> ReadU(short, n, k).ok \/ ReadI(short, n, k).ok]
      BY DEF IntegerBack, b, short, x, z
<1> HIDE DEF b
<1>5. short \in Seq(Byte) /\ Len(short) = n + k - 1
  <2>1. n + k - 1 \in 0..Len(b) /\ Len(b) - 1 = n + k - 1
        BY <1>1, <1>4
  <2>2. SubSeq(b, 1, n + k - 1) \in Seq(Byte) /\ Len(SubSeq(b, 1, n + k - 1)) = n + k - 1
        BY <1>4, <2>1, FrontIs
  <2> QED  BY <2>1, <2>2 DEF Front
<1> HIDE DEF short, c
<1>6. ReadU(b, n, k) = Ok(UBE(x), n + k) /\ ReadI(b, n, k) = Ok(IBE(x), n + k)
  <2>1. n + k <= Len(b)
        BY <1>1, <1>4
  <2> QED  BY <1>1, <1>4, <2>1, ReadIs
<1>7. ReadU(short, n, k) = Err /\ ReadI(short, n, k) = Err
  <2>1. Len(short) < n + k
        BY <1>1, <1>5
  <2> QED  BY <1>1, <1>5, <2>1, ReadIs
<1>8. UBE(x) = v % Power(k)
      BY <1>1, UnsignedBack DEF x
<1>9. -Power(k) <= 2 * v /\ 2 * v < Power(k) => IBE(x) = v
      BY <1>1, SignedBack DEF x
<1>10. U32LE(PutU32LE(v)) = v % Power(4)
  <2> DEFINE y == PutBE(v, 4)
  <2>1. PICK f : Shifts(f, v, 4)
        BY ShiftsExist
  <2>2. y \in Seq(Byte)
        BY <2>1, PutBEIs
  <2> HIDE DEF y
  <2>3. Reverse(Reverse(y)) = y
        BY <2>2, ReverseTwice
  <2>4. UBE(y) = v % Power(4)
        BY UnsignedBack DEF y
  <2> QED  BY <2>3, <2>4 DEF U32LE, PutU32LE, y
<1>11. ~Err.ok /\ \A a, q : Ok(a, q).ok /\ Ok(a, q).v = a
      BY DEF Err, Ok
<1>12. c.u = Ok(v % Power(k), n + k) /\ c.i = Ok(IBE(x), n + k) /\ c.le = v % Power(4) /\ ~c.short
  <2> DEFINE u == ReadU(b, n, k)  i == ReadI(b, n, k)  le == U32LE(PutU32LE(v))
             t == ReadU(short, n, k).ok \/ ReadI(short, n, k).ok
  <2>1. ~t
        BY <1>7, <1>11
  <2>2. u = Ok(v % Power(k), n + k) /\ i = Ok(IBE(x), n + k) /\ le = v % Power(4)
        BY <1>6, <1>8, <1>10
  <2> HIDE DEF u, i, le, t
  <2>3. c = [u |-> u, i |-> i, le |-> le, short |-> t]
        BY <1>c DEF u, i, le, t
  <2>4. c.u = u /\ c.i = i /\ c.le = le /\ c.short = t
        BY <2>3
  <2> QED  BY <2>1, <2>2, <2>4
<1>13. c.i.ok /\ c.i.v = IBE(x)
      BY <1>11, <1>12
<1> QED  BY <1>9, <1>12, <1>13 DEF IntegerKept, c

-----------------------------------------------------------------------------
(* Parts of buffers                                                        *)

LEMMA PartIs ==
    ASSUME NEW A, NEW s \in Seq(A), NEW a \in Nat, NEW c \in Nat, a <= c, c <= Len(s)
    PROVE  /\ SubSeq(s, a + 1, c) \in Seq(A) /\ Len(SubSeq(s, a + 1, c)) = c - a
           /\ \A i \in 1..c - a : SubSeq(s, a + 1, c)[i] = s[a + i]
<1>1. Len(s) \in Nat
      BY LenProperties
<1> DEFINE n == c - a
<1>2. a \in 0..Len(s) /\ n \in 0..Len(s) - a /\ a + n = c
      BY <1>1
<1> HIDE DEF n
<1>3. /\ SubSeq(s, a + 1, a + n) \in Seq(A) /\ Len(SubSeq(s, a + 1, a + n)) = n
      /\ \A i \in 1..n : SubSeq(s, a + 1, a + n)[i] = s[a + i]
      BY <1>2, SliceIs
<1>4. /\ SubSeq(s, a + 1, c) \in Seq(A) /\ Len(SubSeq(s, a + 1, c)) = n
      /\ \A i \in 1..n : SubSeq(s, a + 1, c)[i] = s[a + i]
      BY <1>2, <1>3
<1> QED  BY <1>4 DEF n

LEMMA PartEmpty ==
    ASSUME NEW s, NEW a \in Int, NEW c \in Int, c <= a
    PROVE  SubSeq(s, a + 1, c) = <<>>
<1>1. a + 1 \in Int /\ c < a + 1
      OBVIOUS
<1> QED  BY <1>1, SubSeqEmpty

\* A part of a join that lies on its left, on its right, or on both.
LEMMA PartLeft ==
    ASSUME NEW A, NEW s \in Seq(A), NEW t \in Seq(A), NEW a \in Nat, NEW c \in Nat, a <= c, c <= Len(s)
    PROVE  SubSeq(s \o t, a + 1, c) = SubSeq(s, a + 1, c)
<1> DEFINE n == Len(s)  m == Len(t)  w == s \o t
<1>1. n \in Nat /\ m \in Nat
      BY LenProperties
<1>2. w \in Seq(A) /\ Len(w) = n + m /\ \A i \in 1..n + m : w[i] = IF i <= n THEN s[i] ELSE t[i - n]
      BY ConcatProperties
<1>l. c <= n
      OBVIOUS
<1> HIDE DEF w, m
<1>3. c <= Len(w)
      BY <1>1, <1>2, <1>l
<1> DEFINE x == SubSeq(w, a + 1, c)  y == SubSeq(s, a + 1, c)
<1>4. x \in Seq(A) /\ Len(x) = c - a /\ \A i \in 1..c - a : x[i] = w[a + i]
      BY <1>2, <1>3, PartIs
<1>5. y \in Seq(A) /\ Len(y) = c - a /\ \A i \in 1..c - a : y[i] = s[a + i]
      BY PartIs
<1> HIDE DEF x, y, n
<1>6. \A i \in 1..c - a : x[i] = y[i]
  <2> TAKE i \in 1..c - a
  <2>1. a + i \in 1..n + m /\ a + i <= n
        BY <1>1, <1>l
  <2> QED  BY <2>1, <1>2, <1>4, <1>5
<1>7. x = y
      BY <1>4, <1>5, <1>6, SeqEqual
<1> QED  BY <1>7 DEF x, y, w

LEMMA PartRight ==
    ASSUME NEW A, NEW s \in Seq(A), NEW t \in Seq(A), NEW a \in Nat, NEW c \in Nat, a <= c,
           Len(s) <= a, c <= Len(s) + Len(t)
    PROVE  SubSeq(s \o t, a + 1, c) = SubSeq(t, (a - Len(s)) + 1, c - Len(s))
<1> DEFINE n == Len(s)  m == Len(t)  w == s \o t
<1>1. n \in Nat /\ m \in Nat
      BY LenProperties
<1>2. w \in Seq(A) /\ Len(w) = n + m /\ \A i \in 1..n + m : w[i] = IF i <= n THEN s[i] ELSE t[i - n]
      BY ConcatProperties
<1>l. n <= a /\ c <= n + m
      OBVIOUS
<1> HIDE DEF w, n
<1>3. c <= Len(w) /\ a - n \in Nat /\ c - n \in Nat /\ a - n <= c - n /\ c - n <= m /\ (c - n) - (a - n) = c - a
      BY <1>1, <1>2, <1>l
<1> DEFINE x == SubSeq(w, a + 1, c)  y == SubSeq(t, (a - n) + 1, c - n)
<1>4. x \in Seq(A) /\ Len(x) = c - a /\ \A i \in 1..c - a : x[i] = w[a + i]
      BY <1>2, <1>3, PartIs
<1>5. y \in Seq(A) /\ Len(y) = c - a /\ \A i \in 1..c - a : y[i] = t[(a - n) + i]
  <2>1. /\ y \in Seq(A) /\ Len(y) = (c - n) - (a - n)
        /\ \A i \in 1..(c - n) - (a - n) : y[i] = t[(a - n) + i]
        BY SMTT(30), <1>3, PartIs
  <2> HIDE DEF y
  <2> QED  BY <2>1, <1>3
<1> HIDE DEF x, y, m
<1>6. \A i \in 1..c - a : x[i] = y[i]
  <2> TAKE i \in 1..c - a
  <2>1. a + i \in 1..n + m /\ ~(a + i <= n) /\ (a + i) - n = (a - n) + i
        BY <1>1, <1>l
  <2> QED  BY <2>1, <1>2, <1>4, <1>5
<1>7. x = y
      BY <1>4, <1>5, <1>6, SeqEqual
<1> QED  BY <1>7 DEF x, y, w, n

\* Two parts, one behind the other.
LEMMA PartSplit ==
    ASSUME NEW A, NEW s \in Seq(A), NEW a \in Nat, NEW k \in Nat, NEW c \in Nat,
           a <= k, k <= c, c <= Len(s)
    PROVE  SubSeq(s, a + 1, c) = SubSeq(s, a + 1, k) \o SubSeq(s, k + 1, c)
<1>1. Len(s) \in Nat
      BY LenProperties
<1> DEFINE x == SubSeq(s, a + 1, c)  y == SubSeq(s, a + 1, k)  z == SubSeq(s, k + 1, c)
<1>l. k <= Len(s) /\ a <= c
      BY <1>1
<1>2. x \in Seq(A) /\ Len(x) = c - a /\ \A i \in 1..c - a : x[i] = s[a + i]
      BY <1>l, PartIs
<1>3. y \in Seq(A) /\ Len(y) = k - a /\ \A i \in 1..k - a : y[i] = s[a + i]
      BY <1>l, PartIs
<1>4. z \in Seq(A) /\ Len(z) = c - k /\ \A i \in 1..c - k : z[i] = s[k + i]
      BY PartIs
<1> HIDE DEF x, y, z
<1>5. /\ y \o z \in Seq(A) /\ Len(y \o z) = (k - a) + (c - k)
      /\ \A i \in 1..(k - a) + (c - k) : (y \o z)[i] = IF i <= k - a THEN y[i] ELSE z[i - (k - a)]
  <2>1. /\ y \o z \in Seq(A) /\ Len(y \o z) = Len(y) + Len(z)
        /\ \A i \in 1..Len(y) + Len(z) : (y \o z)[i] = IF i <= Len(y) THEN y[i] ELSE z[i - Len(y)]
        BY <1>3, <1>4, ConcatProperties
  <2>2. Len(y) = k - a /\ Len(z) = c - k
        BY <1>3, <1>4
  <2> QED  BY <2>1, <2>2
<1>6. Len(x) = Len(y \o z)
      BY <1>2, <1>5
<1>7. \A i \in 1..Len(x) : x[i] = (y \o z)[i]
  <2> TAKE i \in 1..Len(x)
  <2>1. i \in 1..c - a /\ i \in 1..(k - a) + (c - k)
        BY <1>2
  <2>2. CASE i <= k - a
    <3>1. i \in 1..k - a
          BY <2>1, <2>2
    <3> QED  BY <1>2, <1>3, <1>5, <2>1, <2>2, <3>1
  <2>3. CASE ~(i <= k - a)
    <3>1. i - (k - a) \in 1..c - k /\ k + (i - (k - a)) = a + i
          BY <2>1, <2>3
    <3> QED  BY <1>2, <1>4, <1>5, <2>1, <2>3, <3>1
  <2> QED  BY <2>2, <2>3
<1>8. x = y \o z
      BY <1>2, <1>5, <1>6, <1>7, SeqEqual
<1> QED  BY <1>8 DEF x, y, z

-----------------------------------------------------------------------------
(* Slices of vectors                                                       *)

VecStates == [s : Nat, e : Int, out : Seq(Seq(Byte))]

\* How much of a slice is taken.
VecRead(st, b) == IF st.e > 0 /\ st.e < Len(b) - st.s THEN st.e ELSE Len(b) - st.s

VecOver(st, b, u) == u.s = st.s - Len(b) /\ u.e = st.e /\ u.out = st.out
VecDone(st, u) == u.s = 0 /\ u.e = 0 /\ u.out = st.out
VecTaken(st, b, u) ==
    /\ u.s = 0 /\ u.e = st.e - VecRead(st, b)
    /\ u.out = Append(st.out, SubSeq(b, st.s + 1, st.s + VecRead(st, b)))

LEMMA VecTurnIs ==
    ASSUME NEW st \in VecStates, NEW b \in Seq(Byte)
    PROVE  /\ VecTurn(st, b) \in VecStates
           /\ st.s > 0 /\ Len(b) <= st.s => VecOver(st, b, VecTurn(st, b))
           /\ ~(st.s > 0 /\ Len(b) <= st.s) /\ st.e = 0 => VecDone(st, VecTurn(st, b))
           /\ ~(st.s > 0 /\ Len(b) <= st.s) /\ st.e # 0 => VecTaken(st, b, VecTurn(st, b))
           /\ ~(st.s > 0 /\ Len(b) <= st.s) =>
                 VecRead(st, b) \in Nat /\ st.s + VecRead(st, b) <= Len(b)
<1> DEFINE l == Len(b)  r == VecRead(st, b)  x == SubSeq(b, st.s + 1, st.s + r)  S == Seq(Seq(Byte))
           u == VecTurn(st, b)
<1>1. l \in Nat /\ st.s \in Nat /\ st.e \in Int /\ st.out \in S
      BY LenProperties DEF VecStates
<1>2. u = IF st.s > 0 /\ l - st.s <= 0 THEN [st EXCEPT !.s = @ - l]
          ELSE IF st.e = 0 THEN [st EXCEPT !.s = 0]
          ELSE [s |-> 0, e |-> st.e - r, out |-> Append(st.out, x)]
      BY DEF VecTurn, VecRead
<1>3. l - st.s <= 0 <=> l <= st.s
      BY <1>1
<1>r. ~(st.s > 0 /\ l <= st.s) => r \in Nat /\ st.s + r <= l
      BY <1>1 DEF VecRead
<1>q. r = VecRead(st, b) /\ x = SubSeq(b, st.s + 1, st.s + VecRead(st, b)) /\ l = Len(b)
      OBVIOUS
<1>x. ~(st.s > 0 /\ l <= st.s) => x \in Seq(Byte)
  <2> SUFFICES ASSUME ~(st.s > 0 /\ l <= st.s)
               PROVE  x \in Seq(Byte)
      OBVIOUS
  <2>1. st.s \in Nat /\ st.s + r \in Nat /\ st.s <= st.s + r /\ st.s + r <= Len(b)
        BY <1>1, <1>r
  <2> DEFINE a == st.s  c == st.s + r
  <2>2. a \in Nat /\ c \in Nat /\ a <= c /\ c <= Len(b)
        BY <2>1
  <2> HIDE DEF a, c
  <2>3. SubSeq(b, a + 1, c) \in Seq(Byte)
        BY <2>2, PartIs
  <2> QED  BY <2>3 DEF a, c
<1> HIDE DEF l, r, x, S, u
<1>4. CASE st.s > 0 /\ l <= st.s
  <2>1. u = [st EXCEPT !.s = @ - l]
        BY <1>2, <1>3, <1>4
  <2>2. st = [s |-> st.s, e |-> st.e, out |-> st.out]
        BY DEF VecStates
  <2>3. u = [s |-> st.s - l, e |-> st.e, out |-> st.out]
        BY <2>1, <2>2
  <2>4. u.s = st.s - l /\ u.e = st.e /\ u.out = st.out
        BY <2>3
  <2>5. st.s - l \in Nat
        BY <1>1, <1>4
  <2>6. u \in VecStates
        BY <2>3, <2>5, <1>1 DEF VecStates, S
  <2> QED  BY <1>4, <2>4, <2>6, <1>q DEF VecOver, u
<1>5. CASE ~(st.s > 0 /\ l <= st.s) /\ st.e = 0
  <2>1. u = [st EXCEPT !.s = 0]
        BY <1>2, <1>3, <1>5
  <2>2. st = [s |-> st.s, e |-> st.e, out |-> st.out]
        BY DEF VecStates
  <2>3. u = [s |-> 0, e |-> st.e, out |-> st.out]
        BY <2>1, <2>2
  <2>4. u.s = 0 /\ u.e = 0 /\ u.out = st.out
        BY <2>3, <1>5
  <2>6. u \in VecStates
        BY <2>3, <1>1 DEF VecStates, S
  <2> QED  BY <1>5, <2>4, <2>6, <1>q, <1>r DEF VecDone, u
<1>6. CASE ~(st.s > 0 /\ l <= st.s) /\ st.e # 0
  <2>1. u = [s |-> 0, e |-> st.e - r, out |-> Append(st.out, x)]
        BY <1>2, <1>3, <1>6
  <2>2. Append(st.out, x) \in S /\ st.e - r \in Int
    <3>1. x \in Seq(Byte) /\ r \in Nat
          BY <1>x, <1>r, <1>6
    <3>2. \A o \in Seq(Seq(Byte)), y \in Seq(Byte) : Append(o, y) \in Seq(Seq(Byte))
          OBVIOUS
    <3> QED  BY <3>1, <3>2, <1>1 DEF S
  <2>4. u.s = 0 /\ u.e = st.e - r /\ u.out = Append(st.out, x)
        BY <2>1
  <2>6. u \in VecStates
        BY <2>1, <2>2 DEF VecStates, S
  <2> QED  BY <1>6, <2>4, <2>6, <1>q, <1>r DEF VecTaken, u
<1> QED  BY <1>4, <1>5, <1>6

VecStart(from, e) == [s |-> from, e |-> e - from, out |-> <<>>]

VecTurns(t, in, from, e) ==
    /\ t \in [0..Len(in) -> VecStates]
    /\ t[0] = VecStart(from, e)
    /\ \A i \in 1..Len(in) : t[i] = VecTurn(t[i - 1], in[i])

LEMMA VecTurnsExist ==
    ASSUME NEW in \in Seq(Seq(Byte)), NEW from \in Nat, NEW e \in Int
    PROVE  \E t : VecTurns(t, in, from, e)
<1> DEFINE n == Len(in)  a == VecStart(from, e)
           step == [q \in Nat \X VecStates |-> IF q[1] \in 1..n THEN VecTurn(q[2], in[q[1]]) ELSE q[2]]
<1>n. n \in Nat /\ \A i \in 1..n : in[i] \in Seq(Byte)
      BY ElementOfSeq, LenProperties
<1>a. a \in VecStates
  <2>1. e - from \in Int /\ <<>> \in Seq(Seq(Byte))
        OBVIOUS
  <2> QED  BY <2>1 DEF VecStates, VecStart
<1> HIDE DEF n, a
<1>1. step \in [Nat \X VecStates -> VecStates]
  <2> SUFFICES ASSUME NEW q \in Nat \X VecStates
               PROVE  (IF q[1] \in 1..n THEN VecTurn(q[2], in[q[1]]) ELSE q[2]) \in VecStates
      OBVIOUS
  <2>1. q[2] \in VecStates
        OBVIOUS
  <2>2. q[1] \in 1..n => VecTurn(q[2], in[q[1]]) \in VecStates
        BY <2>1, <1>n, VecTurnIs
  <2> QED  BY <2>1, <2>2
<1>2. \A i \in 1..n, x \in VecStates : step[<<i, x>>] = VecTurn(x, in[i])
  <2> TAKE i \in 1..n, x \in VecStates
  <2>1. <<i, x>> \in Nat \X VecStates /\ <<i, x>>[1] = i /\ <<i, x>>[2] = x
        BY <1>n
  <2> QED  BY <2>1
<1> HIDE DEF step
<1>3. PICK t : Turns(t, n, VecStates, a, step)
      BY <1>1, <1>n, <1>a, LoopExists
<1>4. t \in [0..n -> VecStates] /\ t[0] = a /\ \A i \in 1..n : t[i] = step[<<i, t[i - 1]>>]
      BY <1>3 DEF Turns
<1>5. \A i \in 1..n : i - 1 \in 0..n
      BY <1>n
<1>6. \A i \in 1..n : t[i] = VecTurn(t[i - 1], in[i])
      BY <1>2, <1>4, <1>5
<1> QED  BY <1>4, <1>6 DEF VecTurns, a, n

LEMMA VecSliceIs ==
    ASSUME NEW in \in Seq(Seq(Byte)), NEW s \in Int, NEW e \in Int, NEW from \in Nat,
           from = (IF s < 0 THEN 0 ELSE s), NEW t, VecTurns(t, in, from, e)
    PROVE  VecSliceTo(in, s, e) =
              IF (e >= 0 /\ e < from) \/ t[Len(in)].s > 0 \/ t[Len(in)].e > 0 THEN [panic |-> TRUE]
              ELSE [panic |-> FALSE, out |-> t[Len(in)].out]
<1> DEFINE n == Len(in)  a == VecStart(from, e)
           Eq(g) == g = [i \in 0..n |-> IF i = 0 THEN a ELSE VecTurn(g[i - 1], in[i])]
           h == CHOOSE g : Eq(g)
           w == [i \in 0..n |-> t[i]]
<1>1. VecSliceTo(in, s, e) =
         IF (e >= 0 /\ e < from) \/ h[n].s > 0 \/ h[n].e > 0 THEN [panic |-> TRUE]
         ELSE [panic |-> FALSE, out |-> h[n].out]
      BY DEF VecSliceTo, VecStart
<1>n. n \in Nat /\ t[0] = a /\ \A i \in 1..n : t[i] = VecTurn(t[i - 1], in[i])
      BY LenProperties DEF VecTurns
<1> HIDE DEF n, a
<1>2. Eq(w)
  <2>1. \A i \in 0..n : w[i] = IF i = 0 THEN a ELSE VecTurn(w[i - 1], in[i])
    <3> TAKE i \in 0..n
    <3>1. CASE i = 0
          BY <3>1, <1>n
    <3>2. CASE i # 0
      <4>1. i - 1 \in 0..n /\ i \in 1..n
            BY <3>2, <1>n
      <4>2. w[i - 1] = t[i - 1] /\ w[i] = t[i]
            BY <4>1
      <4> QED  BY <4>1, <4>2, <3>2, <1>n
    <3> QED  BY <3>1, <3>2
  <2> QED  BY <2>1
<1>3. Eq(h)
  <2> HIDE DEF Eq, w
  <2> QED  BY <1>2
<1> HIDE DEF h
<1>4. h[0] = a /\ \A i \in 1..n : h[i] = VecTurn(h[i - 1], in[i])
  <2>1. \A i \in 0..n : h[i] = IF i = 0 THEN a ELSE VecTurn(h[i - 1], in[i])
        BY <1>3
  <2>2. 0 \in 0..n /\ \A i \in 1..n : i \in 0..n /\ i # 0
        BY <1>n
  <2> QED  BY <2>1, <2>2
<1>6. h[n] = t[n]
  <2>1. GoAlike(h, t, n)
        BY <1>4, <1>n DEF GoAlike
  <2>2. Alike(h, t, n)
        BY <2>1, <1>n, SameLoops
  <2> QED  BY <2>2, <1>n DEF Alike
<1> QED  BY <1>1, <1>6 DEF n

\* Where a slice from byte from to byte e ends in the bytes g.
VecEnd(g, e) == IF e < 0 \/ Len(g) < e THEN Len(g) ELSE e

\* Behind the slices with the bytes g.
VecAt(st, g, from, e) ==
    /\ st.s = IF Len(g) < from THEN from - Len(g) ELSE 0
    /\ e < 0 => st.e < 0
    /\ e >= 0 => st.e = IF Len(g) <= from THEN e - from ELSE IF e <= Len(g) THEN 0 ELSE e - Len(g)
    /\ FlattenSeq(st.out) = SubSeq(g, from + 1, VecEnd(g, e))

LEMMA VecFirst ==
    ASSUME NEW from \in Nat, NEW e \in Int, e < 0 \/ from <= e
    PROVE  VecAt(VecStart(from, e), <<>>, from, e)
<1> DEFINE g == <<>>  st == VecStart(from, e)
<1>1. Len(g) = 0
      OBVIOUS
<1>2. st.s = from /\ st.e = e - from /\ st.out = g
      BY DEF VecStart
<1> HIDE DEF g, st
<1>3. VecEnd(g, e) = 0
      BY <1>1 DEF VecEnd
<1>4. SubSeq(g, from + 1, VecEnd(g, e)) = g
      BY <1>3, PartEmpty DEF g
<1>5. FlattenSeq(st.out) = g
      BY <1>2, FlattenEmpty DEF g
<1>6. st.s = (IF Len(g) < from THEN from - Len(g) ELSE 0) /\ (e < 0 => st.e < 0)
      /\ (e >= 0 => st.e = IF Len(g) <= from THEN e - from ELSE IF e <= Len(g) THEN 0 ELSE e - Len(g))
      BY <1>1, <1>2
<1> QED  BY <1>4, <1>5, <1>6 DEF VecAt, g, st

LEMMA VecEnds ==
    ASSUME NEW L \in Nat, NEW l \in Nat, NEW from \in Nat, NEW s \in Nat, NEW e \in Int, NEW q \in Int,
           NEW M, M = L + l, NEW To, To = (IF e < 0 \/ M < e THEN M ELSE e),
           NEW r, r = (IF q > 0 /\ q < l - s THEN q ELSE l - s),
           s = (IF L < from THEN from - L ELSE 0), from <= M, e < 0 => q < 0,
           e >= 0 => q = (IF L <= from THEN e - from ELSE IF e <= L THEN 0 ELSE e - L),
           e < 0 \/ (from < e /\ L < e)
    PROVE  /\ L < from => To \in Nat /\ from <= To /\ To <= M /\ To - L = s + r
           /\ from <= L => To \in Nat /\ L <= To /\ To <= M /\ s = 0 /\ To - L = r
<1>1. CASE e < 0
      BY <1>1
<1>2. CASE e >= 0
      BY <1>2
<1> QED  BY <1>1, <1>2

LEMMA VecNext ==
    ASSUME NEW st \in VecStates, NEW g \in Seq(Byte), NEW b \in Seq(Byte),
           NEW from \in Nat, NEW e \in Int, e < 0 \/ from <= e, VecAt(st, g, from, e)
    PROVE  VecAt(VecTurn(st, b), g \o b, from, e)
<1> DEFINE L == Len(g)  l == Len(b)  M == Len(g \o b)  u == VecTurn(st, b)  h == g \o b
           to == VecEnd(g, e)  To == VecEnd(h, e)  r == VecRead(st, b)
           x == SubSeq(b, st.s + 1, st.s + r)  F == FlattenSeq(st.out)
<1>1. L \in Nat /\ l \in Nat /\ h \in Seq(Byte) /\ M = L + l
      BY LenProperties, ConcatProperties
<1>2. st.s \in Nat /\ st.e \in Int /\ st.out \in Seq(Seq(Byte))
      BY DEF VecStates
<1>3. /\ st.s = IF L < from THEN from - L ELSE 0
      /\ e < 0 => st.e < 0
      /\ e >= 0 => st.e = IF L <= from THEN e - from ELSE IF e <= L THEN 0 ELSE e - L
      /\ F = SubSeq(g, from + 1, to)
      BY DEF VecAt
<1>4. /\ st.s > 0 /\ l <= st.s => VecOver(st, b, u)
      /\ ~(st.s > 0 /\ l <= st.s) /\ st.e = 0 => VecDone(st, u)
      /\ ~(st.s > 0 /\ l <= st.s) /\ st.e # 0 => VecTaken(st, b, u)
      /\ ~(st.s > 0 /\ l <= st.s) => r \in Nat /\ st.s + r <= l
      BY VecTurnIs
<1>5. to = (IF e < 0 \/ L < e THEN L ELSE e) /\ To = (IF e < 0 \/ M < e THEN M ELSE e)
      BY DEF VecEnd
<1>6. r = IF st.e > 0 /\ st.e < l - st.s THEN st.e ELSE l - st.s
      BY DEF VecRead
<1>g. g \in Seq(Byte) /\ b \in Seq(Byte) /\ L = Len(g) /\ l = Len(b) /\ h = g \o b
      OBVIOUS
<1>x. x = SubSeq(b, st.s + 1, st.s + r)
      OBVIOUS
<1>v. /\ u.s = (IF M < from THEN from - M ELSE 0) /\ (e < 0 => u.e < 0)
      /\ (e >= 0 => u.e = IF M <= from THEN e - from ELSE IF e <= M THEN 0 ELSE e - M)
      /\ FlattenSeq(u.out) = SubSeq(h, from + 1, To)
      => VecAt(u, h, from, e)
      BY DEF VecAt
<1>a. e < 0 \/ from <= e
      OBVIOUS
<1>c. (L < from \/ from <= L) /\ (L <= from \/ from < L)
      BY <1>1
<1>f. VecTaken(st, b, u) => (x \in Seq(Byte) => FlattenSeq(u.out) = F \o x)
  <2> SUFFICES ASSUME VecTaken(st, b, u), x \in Seq(Byte)
               PROVE  FlattenSeq(u.out) = F \o x
      OBVIOUS
  <2>1. u.out = Append(st.out, x)
        BY DEF VecTaken
  <2> HIDE DEF x
  <2>2. FlattenSeq(Append(st.out, x)) = FlattenSeq(st.out) \o x
        BY <1>2, FlattenAppend
  <2> QED  BY <2>1, <2>2
<1> HIDE DEF L, l, M, u, h, to, To, r, x, F
<1>7. CASE st.s > 0 /\ l <= st.s
  <2>1. u.s = st.s - l /\ u.e = st.e /\ u.out = st.out
        BY <1>4, <1>7 DEF VecOver, l
  <2>2. L < from /\ M <= from
        BY <1>1, <1>3, <1>7
  <2>3. to \in Int /\ To \in Int /\ to <= from /\ To <= from
        BY <1>1, <1>5, <2>2
  <2>4. SubSeq(g, from + 1, to) = <<>> /\ SubSeq(h, from + 1, To) = <<>>
        BY <2>3, PartEmpty
  <2>5. u.s = (IF M < from THEN from - M ELSE 0) /\ (e < 0 => u.e < 0)
        BY <1>1, <1>3, <2>1, <2>2
  <2>6. e >= 0 => u.e = IF M <= from THEN e - from ELSE IF e <= M THEN 0 ELSE e - M
        BY <1>1, <1>3, <2>1, <2>2
  <2>7. FlattenSeq(u.out) = SubSeq(h, from + 1, To)
        BY <1>3, <2>1, <2>4 DEF F
  <2> QED  BY <1>v, <2>5, <2>6, <2>7 DEF u, h
<1>8. CASE ~(st.s > 0 /\ l <= st.s)
  <2>1. from <= M /\ r \in Nat /\ st.s + r <= l
        BY <1>1, <1>3, <1>4, <1>8
  <2>2. CASE st.e = 0
    <3>1. u.s = 0 /\ u.e = 0 /\ u.out = st.out
          BY <1>4, <1>8, <2>2 DEF VecDone
    <3>2. e >= 0 /\ from <= e /\ (L <= from => e = from) /\ (from < L => e <= L)
          BY <1>1, <1>3, <1>a, <2>2
    <3>3. u.s = (IF M < from THEN from - M ELSE 0) /\ (e < 0 => u.e < 0)
          BY <1>1, <2>1, <3>1, <3>2
    <3>4. e >= 0 => u.e = IF M <= from THEN e - from ELSE IF e <= M THEN 0 ELSE e - M
          BY <1>1, <2>1, <3>1, <3>2
    <3>5. SubSeq(g, from + 1, to) = SubSeq(h, from + 1, To)
      <4>1. CASE L <= from
        <5>1. to \in Int /\ To \in Int /\ to <= from /\ To <= from
              BY <1>1, <1>5, <3>2, <4>1
        <5> QED  BY <5>1, PartEmpty
      <4>2. CASE from < L
        <5>1. to = e /\ To = e /\ e \in Nat /\ from <= e /\ e <= Len(g)
              BY <1>1, <1>5, <1>g, <3>2, <4>2
        <5>2. SubSeq(g \o b, from + 1, e) = SubSeq(g, from + 1, e)
              BY <5>1, <1>g, PartLeft
        <5> QED  BY <5>1, <5>2 DEF h
      <4> QED  BY <4>1, <4>2, <1>c
    <3>6. FlattenSeq(u.out) = SubSeq(h, from + 1, To)
          BY <1>3, <3>1, <3>5 DEF F
    <3> QED  BY <1>v, <3>3, <3>4, <3>6 DEF u, h
  <2>3. CASE st.e # 0
    <3>0. VecTaken(st, b, u)
          BY <1>4, <1>8, <2>3
    <3>1. u.s = 0 /\ u.e = st.e - r
          BY <3>0 DEF VecTaken, r
    <3>2. e < 0 \/ (from < e /\ L < e)
          BY <1>1, <1>3, <1>a, <2>3
    <3>e. /\ L < from => To \in Nat /\ from <= To /\ To <= M /\ To - L = st.s + r
          /\ from <= L => To \in Nat /\ L <= To /\ To <= M /\ st.s = 0 /\ To - L = r
      <4> DEFINE ss == st.s  q == st.e
      <4>1. /\ ss \in Nat /\ q \in Int /\ ss = (IF L < from THEN from - L ELSE 0) /\ (e < 0 => q < 0)
            /\ (e >= 0 => q = IF L <= from THEN e - from ELSE IF e <= L THEN 0 ELSE e - L)
            /\ r = IF q > 0 /\ q < l - ss THEN q ELSE l - ss
            BY <1>2, <1>3, <1>6
      <4> HIDE DEF ss, q
      <4>2. /\ L < from => To \in Nat /\ from <= To /\ To <= M /\ To - L = ss + r
            /\ from <= L => To \in Nat /\ L <= To /\ To <= M /\ ss = 0 /\ To - L = r
            BY <4>1, <1>1, <1>5, <2>1, <3>2, VecEnds
      <4> QED  BY <4>2 DEF ss, q
    <3>3. u.s = (IF M < from THEN from - M ELSE 0) /\ (e < 0 => u.e < 0)
          BY <1>1, <1>2, <1>3, <2>1, <3>1
    <3>4. e >= 0 => u.e = IF M <= from THEN e - from ELSE IF e <= M THEN 0 ELSE e - M
      <4> SUFFICES ASSUME e >= 0
                   PROVE  u.e = IF M <= from THEN e - from ELSE IF e <= M THEN 0 ELSE e - M
          OBVIOUS
      <4>1. CASE L < from
            BY SMTT(30), <1>1, <1>2, <1>3, <1>6, <2>1, <3>1, <3>2, <4>1
      <4>2. CASE from <= L
            BY SMTT(30), <1>1, <1>2, <1>3, <1>6, <2>1, <3>1, <3>2, <4>2
      <4> QED  BY <4>1, <4>2, <1>c
    <3>5. x \in Seq(Byte)
      <4> DEFINE a == st.s  c == st.s + r
      <4>1. a \in Nat /\ c \in Nat /\ a <= c /\ c <= Len(b)
            BY <1>2, <2>1, <1>g
      <4> HIDE DEF a, c
      <4>2. SubSeq(b, a + 1, c) \in Seq(Byte)
            BY <4>1, <1>g, PartIs
      <4> QED  BY <4>2 DEF a, c, x
    <3>6. SubSeq(h, from + 1, To) = F \o x
      <4>1. CASE L < from
        <5>1. /\ To \in Nat /\ from <= To /\ Len(g) <= from /\ To <= Len(g) + Len(b)
              /\ from - Len(g) = st.s /\ To - Len(g) = st.s + r
          BY <1>1, <1>3, <1>g, <3>e, <4>1
        <5>2. SubSeq(g \o b, from + 1, To) = SubSeq(b, (from - Len(g)) + 1, To - Len(g))
              BY <5>1, <1>g, PartRight
        <5>3. SubSeq(g \o b, from + 1, To) = x
              BY <5>1, <5>2 DEF x
        <5>4. to \in Int /\ to <= from
              BY <1>1, <1>5, <4>1
        <5>5. F = <<>>
              BY <5>4, <1>3, PartEmpty
        <5> QED  BY <5>3, <5>5, <3>5, ConcatEmptySeq DEF h
      <4>2. CASE from <= L
        <5>1. /\ To \in Nat /\ L <= To /\ To <= M /\ st.s = 0 /\ To - L = r /\ to = L
          BY <1>1, <1>5, <3>2, <3>e, <4>2
        <5>2. SubSeq(h, from + 1, To) = SubSeq(h, from + 1, L) \o SubSeq(h, L + 1, To)
          <6>1. To <= Len(h) /\ L \in Nat
                BY <5>1, <1>1 DEF M, h
          <6> QED  BY <5>1, <6>1, <1>1, <4>2, PartSplit
        <5>3. SubSeq(g \o b, from + 1, L) = SubSeq(g, from + 1, L)
              BY <1>1, <1>g, <4>2, PartLeft
        <5>4. SubSeq(g \o b, L + 1, To) = SubSeq(b, (L - L) + 1, To - L)
          <6>1. L \in Nat /\ To \in Nat /\ L <= To /\ Len(g) <= L /\ To <= Len(g) + Len(b)
                BY <1>1, <1>g, <5>1
          <6>2. SubSeq(g \o b, L + 1, To) = SubSeq(b, (L - Len(g)) + 1, To - Len(g))
                BY <6>1, <1>g, PartRight
          <6> QED  BY <6>2, <1>g
        <5>5. (L - L) + 1 = st.s + 1 /\ To - L = st.s + r
              BY <5>1, <1>1, <2>1
        <5> QED  BY <5>1, <5>2, <5>3, <5>4, <5>5, <1>3 DEF x, h
      <4> QED  BY <4>1, <4>2, <1>c
    <3>7. FlattenSeq(u.out) = SubSeq(h, from + 1, To)
          BY <1>f, <3>0, <3>5, <3>6
    <3> QED  BY <1>v, <3>3, <3>4, <3>7 DEF u, h
  <2> QED  BY <2>2, <2>3
<1> QED  BY <1>7, <1>8

\* The length of a vector is that of its bytes.
LEMMA VecLenIs ==
    ASSUME NEW in \in Seq(Seq(Byte))
    PROVE  VecLen(in) = Len(FlattenSeq(in)) /\ FlattenSeq(in) \in Seq(Byte)
<1> DEFINE n == Len(in)
           Eq(g) == g = [i \in 0..n |-> IF i = 0 THEN 0 ELSE g[i - 1] + Len(in[i])]
           h == CHOOSE g : Eq(g)
<1>1. VecLen(in) = h[n]
      BY DEF VecLen
<1>2. PICK f \in [0..n -> Seq(Byte)] : Concats(in, f)
      BY ConcatsExist
<1>3. n \in Nat /\ f[0] = <<>> /\ \A i \in 1..n : f[i] = f[i - 1] \o in[i] /\ in[i] \in Seq(Byte)
      BY <1>2, LenProperties, ElementOfSeq DEF Concats
<1>4. FlattenSeq(in) = f[n]
      BY <1>2, FlattenIs
<1> HIDE DEF n
<1> DEFINE w == [i \in 0..n |-> Len(f[i])]
<1>5. \A i \in 0..n : w[i] = IF i = 0 THEN 0 ELSE w[i - 1] + Len(in[i])
  <2> TAKE i \in 0..n
  <2>1. CASE i = 0
    <3>1. Len(f[0]) = 0
          BY <1>3
    <3> QED  BY <2>1, <3>1
  <2>2. CASE i # 0
    <3>1. i - 1 \in 0..n /\ i \in 1..n
          BY <2>2, <1>3
    <3>2. f[i - 1] \in Seq(Byte) /\ in[i] \in Seq(Byte) /\ f[i] = f[i - 1] \o in[i]
          BY <3>1, <1>2, <1>3
    <3>3. Len(f[i]) = Len(f[i - 1]) + Len(in[i])
          BY <3>2, ConcatProperties
    <3>4. w[i - 1] = Len(f[i - 1]) /\ w[i] = Len(f[i])
          BY <3>1
    <3> QED  BY <3>3, <3>4, <2>2
  <2> QED  BY <2>1, <2>2
<1>6. Eq(w)
      BY <1>5
<1>7. Eq(h)
  <2> HIDE DEF Eq, w
  <2> QED  BY <1>6
<1> HIDE DEF h
<1>8. h[0] = 0 /\ \A i \in 1..n : h[i] = h[i - 1] + Len(in[i])
  <2>1. \A i \in 0..n : h[i] = IF i = 0 THEN 0 ELSE h[i - 1] + Len(in[i])
        BY <1>7
  <2>2. 0 \in 0..n /\ \A i \in 1..n : i \in 0..n /\ i # 0
        BY <1>3
  <2> QED  BY <2>1, <2>2
<1>9. h[n] = Len(f[n])
  <2>0. w[0] = 0 /\ \A i \in 1..n : w[i] = w[i - 1] + Len(in[i])
    <3>1. 0 \in 0..n /\ \A i \in 1..n : i \in 0..n /\ i # 0
          BY <1>3
    <3> HIDE DEF w
    <3> QED  BY <3>1, <1>5
  <2>1. GoAlike(h, w, n)
    <3> HIDE DEF w
    <3> QED  BY <1>8, <2>0 DEF GoAlike
  <2>2. h[n] = w[n]
    <3>1. Alike(h, w, n)
      <4> HIDE DEF w
      <4> QED  BY <2>1, <1>3, SameLoops
    <3> HIDE DEF w
    <3> QED  BY <3>1, <1>3 DEF Alike
  <2> QED  BY <2>2, <1>3
<1>10. f[n] \in Seq(Byte)
       BY <1>2, <1>3
<1> QED  BY <1>1, <1>4, <1>9, <1>10

\* What VecSliceTo returns.
LEMMA SliceIsKept ==
    ASSUME NEW in \in Seq(Seq(Byte)), NEW s \in Int, NEW e \in Int
    PROVE  SliceKept(in, s, e, VecSliceTo(in, s, e))
<1> DEFINE n == Len(in)  from == IF s < 0 THEN 0 ELSE s  bytes == FlattenSeq(in)  L == Len(FlattenSeq(in))
           to == IF e < 0 THEN VecLen(in) ELSE e
           r == VecSliceTo(in, s, e)
<1>0. from \in Nat
      OBVIOUS
<1>f. from = (IF s < 0 THEN 0 ELSE s)
      OBVIOUS
<1>1. VecLen(in) = L /\ bytes \in Seq(Byte) /\ L \in Nat /\ L = Len(bytes)
      BY VecLenIs, LenProperties
<1>2. PICK f \in [0..n -> Seq(Byte)] : Concats(in, f)
      BY ConcatsExist
<1>3. n \in Nat /\ f[0] = <<>> /\ \A i \in 1..n : f[i] = f[i - 1] \o in[i] /\ in[i] \in Seq(Byte)
      BY <1>2, LenProperties, ElementOfSeq DEF Concats
<1>4. bytes = f[n]
      BY <1>2, FlattenIs
<1>to. to = IF e < 0 THEN L ELSE e
      BY <1>1
<1>k. (r.panic <=> from > to \/ to > L) /\ (~r.panic => FlattenSeq(r.out) = SubSeq(bytes, from + 1, to))
      => SliceKept(in, s, e, r)
      BY DEF SliceKept
<1> HIDE DEF from, bytes, L, to
<1>5. PICK t : VecTurns(t, in, from, e)
      BY <1>0, VecTurnsExist
<1>6. r = IF (e >= 0 /\ e < from) \/ t[n].s > 0 \/ t[n].e > 0 THEN [panic |-> TRUE]
          ELSE [panic |-> FALSE, out |-> t[n].out]
      BY <1>0, <1>5, <1>f, VecSliceIs
<1>7. t \in [0..n -> VecStates] /\ t[0] = VecStart(from, e) /\ \A i \in 1..n : t[i] = VecTurn(t[i - 1], in[i])
      BY <1>5 DEF VecTurns
<1> HIDE DEF n, r
<1>8. CASE e >= 0 /\ e < from
  <2>1. r = [panic |-> TRUE]
        BY <1>6, <1>8
  <2>2. r.panic
        BY <2>1
  <2>3. from > to
        BY <1>to, <1>8, <1>0
  <2> QED  BY <1>k, <2>2, <2>3 DEF r
<1>9. CASE e < 0 \/ from <= e
  <2> DEFINE P == {i \in Nat : i \in 0..n => VecAt(t[i], f[i], from, e)}
  <2>1. 0 \in P
    <3>1. VecAt(VecStart(from, e), <<>>, from, e)
          BY <1>0, <1>9, VecFirst
    <3> QED  BY <3>1, <1>3, <1>7
  <2>2. ASSUME NEW i \in Nat, i \in P
        PROVE  i + 1 \in P
    <3> SUFFICES ASSUME i + 1 \in 0..n
                 PROVE  VecAt(t[i + 1], f[i + 1], from, e)
        OBVIOUS
    <3>1. i \in 0..n /\ i + 1 \in 1..n /\ (i + 1) - 1 = i
          BY <1>3
    <3>2. t[i] \in VecStates /\ f[i] \in Seq(Byte) /\ in[i + 1] \in Seq(Byte)
          BY <3>1, <1>2, <1>3, <1>7
    <3>3. VecAt(t[i], f[i], from, e)
          BY <2>2, <3>1
    <3>4. VecAt(VecTurn(t[i], in[i + 1]), f[i] \o in[i + 1], from, e)
          BY <3>2, <3>3, <1>0, <1>9, VecNext
    <3>5. t[i + 1] = VecTurn(t[i], in[i + 1]) /\ f[i + 1] = f[i] \o in[i + 1]
          BY <3>1, <1>3, <1>7
    <3> QED  BY <3>4, <3>5
  <2> HIDE DEF P
  <2>3. n \in P
        BY <1>3, <2>1, <2>2, NatSet
  <2>4. VecAt(t[n], bytes, from, e) /\ t[n] \in VecStates
    <3>1. n \in 0..n
          BY <1>3
    <3> QED  BY <2>3, <3>1, <1>3, <1>4, <1>7 DEF P
  <2> DEFINE ss == t[n].s  q == t[n].e
  <2>5. /\ ss = IF L < from THEN from - L ELSE 0
        /\ e < 0 => q < 0
        /\ e >= 0 => q = IF L <= from THEN e - from ELSE IF e <= L THEN 0 ELSE e - L
        /\ FlattenSeq(t[n].out) = SubSeq(bytes, from + 1, VecEnd(bytes, e))
        /\ ss \in Nat /\ q \in Int
        BY <2>4, <1>1 DEF VecAt, VecStates
  <2>6. VecEnd(bytes, e) = IF e < 0 \/ L < e THEN L ELSE e
        BY <1>1 DEF VecEnd
  <2> HIDE DEF ss, q
  <2>7. ss > 0 \/ q > 0 <=> from > to \/ to > L
    <3>1. CASE e < 0
          BY <3>1, <2>5, <1>to, <1>0, <1>1
    <3>2. CASE e >= 0
          BY <3>2, <2>5, <1>to, <1>0, <1>1, <1>9
    <3> QED  BY <3>1, <3>2
  <2>8. CASE ss > 0 \/ q > 0
    <3>1. r = [panic |-> TRUE]
          BY <1>6, <2>8 DEF ss, q
    <3>2. r.panic
          BY <3>1
    <3> QED  BY <1>k, <2>7, <2>8, <3>2 DEF r
  <2>9. CASE ~(ss > 0 \/ q > 0)
    <3>0. ~(e >= 0 /\ e < from)
          BY <1>9, <1>0
    <3>1. r = [panic |-> FALSE, out |-> t[n].out]
          BY <1>6, <2>9, <3>0 DEF ss, q
    <3>2. ~r.panic /\ r.out = t[n].out
          BY <3>1
    <3>3. VecEnd(bytes, e) = to
          BY <2>6, <2>7, <2>9, <1>to, <1>0, <1>1
    <3> QED  BY <1>k, <2>5, <2>7, <2>9, <3>2, <3>3 DEF r
  <2> QED  BY <2>8, <2>9
<1> QED  BY <1>8, <1>9, <1>0

-----------------------------------------------------------------------------
(* NAL units behind lengths                                                *)

\* The length of the unit at position n.
LengthAt(b, n) == UBE(SubSeq(b, n + 1, n + 4))

\* A turn fails, or takes a length and a unit.
LEMMA TakeUnitIs ==
    ASSUME NEW b \in Seq(Byte), NEW v \in Seq(Seq(Byte)), NEW n \in Nat
    PROVE  /\ Len(b) < n + 4 => TakeUnit(b, Ok(v, n)) = Err
           /\ n + 4 <= Len(b) => LengthAt(b, n) \in Nat
           /\ n + 4 <= Len(b) /\ Len(b) < (n + 4) + LengthAt(b, n) => TakeUnit(b, Ok(v, n)) = Err
           /\ n + 4 <= Len(b) /\ (n + 4) + LengthAt(b, n) <= Len(b) =>
                 TakeUnit(b, Ok(v, n)) =
                    Ok(Append(v, SubSeq(b, (n + 4) + 1, (n + 4) + LengthAt(b, n))), (n + 4) + LengthAt(b, n))
<1> DEFINE len == LengthAt(b, n)  t == Ok(v, n)  x == SubSeq(b, n + 1, n + 4)
           r == ReadU(b, n, 4)  q == Read(b, n + 4, len)  p == n + 4
<1>t. t.v = v /\ t.n = n
      BY DEF Ok
<1>1. p \in Nat /\ 4 \in Nat
      OBVIOUS
<1>2. TakeUnit(b, t) = Then(r, LAMBDA l, i : Then(Read(b, i, l), LAMBDA nalu, j : Ok(Append(v, nalu), j)))
      BY <1>t DEF TakeUnit
<1>3. CASE Len(b) < p
  <2>1. r = Err /\ ~r.ok
        BY <1>3, ReadIs DEF Err
  <2> HIDE DEF r, t
  <2> QED  BY <1>2, <1>3, <2>1 DEF Then, t
<1>4. CASE p <= Len(b)
  <2>1. r = Ok(len, p)
        BY <1>4, ReadIs DEF LengthAt
  <2>2. r.ok /\ r.v = len /\ r.n = p
    <3> HIDE DEF r, len, p
    <3> QED  BY <2>1 DEF Ok
  <2>3. TakeUnit(b, t) = Then(q, LAMBDA nalu, j : Ok(Append(v, nalu), j))
    <3> HIDE DEF r, t, len
    <3> QED  BY <1>2, <2>2 DEF Then, q, p
  <2>4. len \in Nat
    <3>1. Len(b) \in Nat
          BY LenProperties
    <3>2. n \in 0..Len(b) /\ 4 \in 0..Len(b) - n
          BY <1>4, <3>1
    <3>3. x \in Seq(Byte)
          BY <3>2, SliceIs
    <3>4. PICK w : Sums(w, x)
          BY <3>3, SumsExist
    <3> QED  BY <3>3, <3>4, UBEIs DEF LengthAt
  <2>5. CASE Len(b) < p + len
    <3>0. q = Err
      <4>1. q = Read(b, p, len)
            OBVIOUS
      <4> HIDE DEF len, p, q
      <4> QED  BY <4>1, <2>4, <2>5, <1>1, ReadIs
    <3>1. q = Err /\ ~q.ok
      <4> HIDE DEF q
      <4> QED  BY <3>0 DEF Err
    <3> HIDE DEF q, t, len
    <3>2. Then(q, LAMBDA nalu, j : Ok(Append(v, nalu), j)) = q
          BY <3>1 DEF Then
    <3>3. TakeUnit(b, t) = Err /\ Len(b) \in Nat
          BY <3>1, <3>2, <2>3, LenProperties
    <3> QED  BY <3>3, <2>4, <2>5, <1>4 DEF t, len
  <2>6. CASE p + len <= Len(b)
    <3> DEFINE y == SubSeq(b, p + 1, p + len)
    <3>1. q = Ok(y, p + len)
      <4> HIDE DEF len, p
      <4> QED  BY <2>4, <2>6, <1>1, ReadIs DEF p
    <3>2. q.ok /\ q.v = y /\ q.n = p + len
      <4> HIDE DEF q, y, len, p
      <4> QED  BY <3>1 DEF Ok
    <3>3. TakeUnit(b, t) = Ok(Append(v, y), p + len)
      <4> HIDE DEF q, y, len, p, t
      <4> QED  BY <2>3, <3>2 DEF Then
    <3> HIDE DEF len
    <3> QED  BY <3>3, <2>4, <2>6, <1>4 DEF t, len
  <2> HIDE DEF len
  <2> QED  BY <2>4, <2>5, <2>6, LenProperties DEF len
<1> QED  BY <1>3, <1>4, LenProperties

AvccStates == {Err} \union [ok : {TRUE}, v : Seq(Seq(Byte)), n : Nat]

\* A turn of the loop, with its end.
AvccTurn(b, t) == IF t.ok /\ (t.v = <<>> \/ t.n # Len(b)) THEN TakeUnit(b, t) ELSE t

LEMMA OkIs ==
    ASSUME NEW v, NEW n
    PROVE  Ok(v, n).ok /\ Ok(v, n).v = v /\ Ok(v, n).n = n /\ Ok(v, n) # Err
           /\ (v \in Seq(Seq(Byte)) /\ n \in Nat => Ok(v, n) \in AvccStates)
<1>1. Ok(v, n).ok /\ Ok(v, n).v = v /\ Ok(v, n).n = n
      BY DEF Ok
<1>2. ~Err.ok
      BY DEF Err
<1> DEFINE S == Seq(Seq(Byte))
<1>3. v \in S /\ n \in Nat => Ok(v, n) \in AvccStates
  <2> HIDE DEF S
  <2> QED  BY DEF AvccStates, Ok, S
<1> QED  BY <1>1, <1>2, <1>3

LEMMA AvccStateIs ==
    ASSUME NEW t \in AvccStates
    PROVE  /\ t.ok => t.v \in Seq(Seq(Byte)) /\ t.n \in Nat /\ t = Ok(t.v, t.n)
           /\ ~t.ok => t = Err
<1> DEFINE S == Seq(Seq(Byte))
<1> HIDE DEF S
<1>1. t = Err \/ t \in [ok : {TRUE}, v : S, n : Nat]
      BY DEF AvccStates, S
<1>2. ~Err.ok
      BY DEF Err
<1>3. CASE t \in [ok : {TRUE}, v : S, n : Nat]
      BY <1>3 DEF Ok, S
<1> QED  BY <1>1, <1>2, <1>3

LEMMA AvccTurnIs ==
    ASSUME NEW b \in Seq(Byte), NEW t \in AvccStates
    PROVE  AvccTurn(b, t) \in AvccStates
<1>1. CASE t.ok /\ (t.v = <<>> \/ t.n # Len(b))
  <2> DEFINE n == t.n  v == t.v  len == LengthAt(b, n)
  <2>1. v \in Seq(Seq(Byte)) /\ n \in Nat /\ t = Ok(v, n)
        BY <1>1, AvccStateIs
  <2>2. AvccTurn(b, t) = TakeUnit(b, Ok(v, n))
        BY <1>1, <2>1 DEF AvccTurn
  <2>3. Err \in AvccStates
        BY DEF AvccStates
  <2> HIDE DEF n, v, len
  <2>4. CASE Len(b) < n + 4
        BY <2>1, <2>2, <2>3, <2>4, TakeUnitIs
  <2>5. CASE n + 4 <= Len(b)
    <3>1. len \in Nat /\ Len(b) \in Nat
          BY <2>5, <2>1, TakeUnitIs, LenProperties DEF len
    <3>2. CASE Len(b) < (n + 4) + len
          BY <2>1, <2>2, <2>3, <2>5, <3>2, TakeUnitIs DEF len
    <3>3. CASE (n + 4) + len <= Len(b)
      <4> DEFINE y == SubSeq(b, (n + 4) + 1, (n + 4) + len)
      <4>1. n + 4 \in 0..Len(b) /\ len \in 0..Len(b) - (n + 4)
            BY <3>1, <3>3, <2>1
      <4>2. y \in Seq(Byte)
            BY <4>1, SliceIs
      <4>3. AvccTurn(b, t) = Ok(Append(v, y), (n + 4) + len)
            BY <2>1, <2>2, <2>5, <3>3, TakeUnitIs DEF len
      <4> HIDE DEF y
      <4>4. Append(v, y) \in Seq(Seq(Byte)) /\ (n + 4) + len \in Nat
            BY <4>2, <2>1, <3>1
      <4>5. Ok(Append(v, y), (n + 4) + len) \in AvccStates
            BY <4>4, OkIs
      <4> QED  BY <4>3, <4>5
    <3> QED  BY <3>1, <3>2, <3>3, <2>1
  <2> QED  BY <2>1, <2>4, <2>5, LenProperties
<1>2. CASE ~(t.ok /\ (t.v = <<>> \/ t.n # Len(b)))
      BY <1>2 DEF AvccTurn
<1> QED  BY <1>1, <1>2

AvccTurns(f, b) ==
    /\ f \in [0..Len(b) + 1 -> AvccStates]
    /\ f[0] = Ok(<<>>, 0)
    /\ \A k \in 1..Len(b) + 1 : f[k] = AvccTurn(b, f[k - 1])

LEMMA AvccTurnsExist ==
    ASSUME NEW b \in Seq(Byte)
    PROVE  \E f : AvccTurns(f, b)
<1> DEFINE n == Len(b) + 1  a == Ok(<<>>, 0)
           step == [q \in Nat \X AvccStates |-> AvccTurn(b, q[2])]
<1>n. n \in Nat
      BY LenProperties
<1>a. a \in AvccStates
  <2>1. <<>> \in Seq(Seq(Byte)) /\ 0 \in Nat
        OBVIOUS
  <2> QED  BY <2>1, OkIs
<1> HIDE DEF n, a
<1>1. step \in [Nat \X AvccStates -> AvccStates]
  <2> SUFFICES ASSUME NEW q \in Nat \X AvccStates
               PROVE  AvccTurn(b, q[2]) \in AvccStates
      OBVIOUS
  <2>1. q[2] \in AvccStates
        OBVIOUS
  <2> QED  BY <2>1, AvccTurnIs
<1>2. \A i \in 1..n, x \in AvccStates : step[<<i, x>>] = AvccTurn(b, x)
  <2> TAKE i \in 1..n, x \in AvccStates
  <2>1. <<i, x>> \in Nat \X AvccStates /\ <<i, x>>[2] = x
        BY <1>n
  <2> QED  BY <2>1
<1> HIDE DEF step
<1>3. PICK f : Turns(f, n, AvccStates, a, step)
      BY <1>1, <1>n, <1>a, LoopExists
<1>4. f \in [0..n -> AvccStates] /\ f[0] = a /\ \A i \in 1..n : f[i] = step[<<i, f[i - 1]>>]
      BY <1>3 DEF Turns
<1>5. \A i \in 1..n : i - 1 \in 0..n
      BY <1>n
<1>6. \A i \in 1..n : f[i] = AvccTurn(b, f[i - 1])
      BY <1>2, <1>4, <1>5
<1> QED  BY <1>4, <1>6 DEF AvccTurns, a, n

LEMMA SplitAVCCIs ==
    ASSUME NEW b \in Seq(Byte), NEW f, AvccTurns(f, b)
    PROVE  SplitAVCC(b) = f[Len(b) + 1]
<1> DEFINE n == Len(b) + 1  a == Ok(<<>>, 0)
           Eq(g) == g = [k \in 0..n |-> IF k = 0 THEN a ELSE AvccTurn(b, g[k - 1])]
           h == CHOOSE g : Eq(g)
           w == [i \in 0..n |-> f[i]]
<1>1. SplitAVCC(b) = h[n]
      BY DEF SplitAVCC, AvccTurn
<1>n. n \in Nat /\ f[0] = a /\ \A i \in 1..n : f[i] = AvccTurn(b, f[i - 1])
      BY LenProperties DEF AvccTurns
<1> HIDE DEF n, a
<1>2. Eq(w)
  <2>1. \A i \in 0..n : w[i] = IF i = 0 THEN a ELSE AvccTurn(b, w[i - 1])
    <3> TAKE i \in 0..n
    <3>1. CASE i = 0
          BY <3>1, <1>n
    <3>2. CASE i # 0
      <4>1. i - 1 \in 0..n /\ i \in 1..n
            BY <3>2, <1>n
      <4>2. w[i - 1] = f[i - 1] /\ w[i] = f[i]
            BY <4>1
      <4> QED  BY <4>1, <4>2, <3>2, <1>n
    <3> QED  BY <3>1, <3>2
  <2> QED  BY <2>1
<1>3. Eq(h)
  <2> HIDE DEF Eq, w
  <2> QED  BY <1>2
<1> HIDE DEF h
<1>4. h[0] = a /\ \A i \in 1..n : h[i] = AvccTurn(b, h[i - 1])
  <2>1. \A i \in 0..n : h[i] = IF i = 0 THEN a ELSE AvccTurn(b, h[i - 1])
        BY <1>3
  <2>2. 0 \in 0..n /\ \A i \in 1..n : i \in 0..n /\ i # 0
        BY <1>n
  <2> QED  BY <2>1, <2>2
<1>6. h[n] = f[n]
  <2>1. GoAlike(h, f, n)
        BY <1>4, <1>n DEF GoAlike
  <2>2. Alike(h, f, n)
        BY <2>1, <1>n, SameLoops
  <2> QED  BY <2>2, <1>n DEF Alike
<1> QED  BY <1>1, <1>6 DEF n

\* A unit behind its length.
WithLength == [u \in Seq(Byte) |-> PutBE(Len(u), 4) \o u]

LEMMA LengthBytes ==
    ASSUME NEW v \in Int
    PROVE  PutBE(v, 4) \in Seq(Byte) /\ Len(PutBE(v, 4)) = 4
<1>1. 4 \in Nat
      OBVIOUS
<1>2. PICK f : Shifts(f, v, 4)
      BY <1>1, ShiftsExist
<1> QED  BY <1>1, <1>2, PutBEIs

LEMMA WithLengthIs ==
    /\ WithLength \in [Seq(Byte) -> Seq(Byte)]
    /\ \A u \in Seq(Byte) : WithLength[u] = PutBE(Len(u), 4) \o u /\ Len(WithLength[u]) = 4 + Len(u)
<1>1. \A u \in Seq(Byte) : PutBE(Len(u), 4) \o u \in Seq(Byte) /\ Len(PutBE(Len(u), 4) \o u) = 4 + Len(u)
  <2> TAKE u \in Seq(Byte)
  <2> DEFINE x == PutBE(Len(u), 4)
  <2>1. Len(u) \in Int
        BY LenProperties
  <2>2. x \in Seq(Byte) /\ Len(x) = 4
        BY <2>1, LengthBytes
  <2>3. x \o u \in Seq(Byte) /\ Len(x \o u) = 4 + Len(u)
    <3> HIDE DEF x
    <3> QED  BY SMTT(30), <2>2, ConcatParts
  <2> QED  BY <2>3
<1> QED  BY <1>1 DEF WithLength

LEMMA JoinAVCCIs ==
    ASSUME NEW ns \in Seq(Seq(Byte))
    PROVE  JoinAVCC(ns) = Joined(WithLength, ns)
<1>1. \A i \in 1..Len(ns) : ns[i] \in Seq(Byte)
      BY ElementOfSeq
<1>2. DOMAIN ns = 1..Len(ns)
      BY LenProperties
<1>3. \A i \in 1..Len(ns) : WithLength[ns[i]] = PutBE(Len(ns[i]), 4) \o ns[i]
      BY <1>1, WithLengthIs
<1> DEFINE s == [i \in DOMAIN ns |-> PutBE(Len(ns[i]), 4) \o ns[i]]
           t == [i \in 1..Len(ns) |-> WithLength[ns[i]]]
<1>4. s = t
      BY <1>2, <1>3
<1>5. JoinAVCC(ns) = FlattenSeq(s) /\ Joined(WithLength, ns) = FlattenSeq(t)
      BY DEF JoinAVCC, Joined
<1> HIDE DEF s, t
<1> QED  BY <1>4, <1>5

LEMMA JoinAVCCAppend ==
    ASSUME NEW v \in Seq(Seq(Byte)), NEW x \in Seq(Byte)
    PROVE  /\ JoinAVCC(<<>>) = <<>> /\ JoinAVCC(v) \in Seq(Byte)
           /\ JoinAVCC(Append(v, x)) = JoinAVCC(v) \o (PutBE(Len(x), 4) \o x)
<1> DEFINE S == Seq(Byte)  e == <<>>
<1>0. Append(v, x) \in Seq(S) /\ e \in Seq(S)
      OBVIOUS
<1>1. JoinAVCC(v) = Joined(WithLength, v) /\ JoinAVCC(Append(v, x)) = Joined(WithLength, Append(v, x))
  <2> HIDE DEF e
  <2> QED  BY <1>0, JoinAVCCIs
<1>2. WithLength \in [S -> Seq(Byte)] /\ WithLength[x] = PutBE(Len(x), 4) \o x
      BY WithLengthIs
<1>3. Joined(WithLength, Append(v, x)) = Joined(WithLength, v) \o WithLength[x] /\ Joined(WithLength, v) \in Seq(Byte)
  <2> HIDE DEF S
  <2> QED  BY <1>2, FlattenMap DEF S
<1>4. JoinAVCC(e) = <<>>
  <2>1. [i \in DOMAIN e |-> PutBE(Len(e[i]), 4) \o e[i]] = <<>>
        OBVIOUS
  <2> QED  BY <2>1, FlattenEmpty DEF JoinAVCC
<1> QED  BY <1>1, <1>2, <1>3, <1>4

\* Behind k turns; a turn that does not end the loop takes four bytes at least.
AvccAt(b, t, k) ==
    /\ t.n \in 0..Len(b) /\ JoinAVCC(t.v) = SubSeq(b, 1, t.n)
    /\ 4 * k <= t.n \/ (t.v # <<>> /\ t.n = Len(b))

LEMMA AvccNext ==
    ASSUME NEW b \in Seq(Byte), NEW t \in AvccStates, t.ok, NEW k \in Nat, AvccAt(b, t, k),
           AvccTurn(b, t).ok
    PROVE  AvccAt(b, AvccTurn(b, t), k + 1)
<1> DEFINE n == t.n  v == t.v  len == LengthAt(b, n)  L == Len(b)  u == AvccTurn(b, t)
<1>1. v \in Seq(Seq(Byte)) /\ n \in Nat /\ t = Ok(v, n)
      BY AvccStateIs
<1>2. n \in 0..L /\ JoinAVCC(v) = SubSeq(b, 1, n) /\ (4 * k <= n \/ (v # <<>> /\ n = L)) /\ L \in Nat
      BY LenProperties DEF AvccAt
<1>3. ~Err.ok
      BY DEF Err
<1>4. CASE ~(v = <<>> \/ n # L)
      BY <1>2, <1>4 DEF AvccTurn, AvccAt
<1>5. CASE v = <<>> \/ n # L
  <2>1. u = TakeUnit(b, Ok(v, n))
        BY <1>1, <1>5 DEF AvccTurn
  <2> HIDE DEF n, v, len, L
  <2>2. n + 4 <= L /\ len \in Nat /\ (n + 4) + len <= L
    <3>1. n + 4 <= L
          BY <2>1, <1>1, <1>2, <1>3, TakeUnitIs DEF L
    <3>2. len \in Nat
          BY <3>1, <1>1, TakeUnitIs DEF L, len
    <3>3. (n + 4) + len <= L
      <4>1. CASE L < (n + 4) + len
        <5>1. TakeUnit(b, Ok(v, n)) = Err
              BY <4>1, <3>1, <1>1, TakeUnitIs DEF L, len
        <5> QED  BY <5>1, <2>1, <1>3
      <4> QED  BY <4>1, <3>2, <1>1, <1>2
    <3> QED  BY <3>1, <3>2, <3>3
  <2> DEFINE y == SubSeq(b, (n + 4) + 1, (n + 4) + len)  x == SubSeq(b, n + 1, n + 4)
  <2>3. u = Ok(Append(v, y), (n + 4) + len)
        BY <2>1, <2>2, <1>1, TakeUnitIs DEF L, len
  <2>4. y \in Seq(Byte) /\ Len(y) = len /\ SubSeq(b, 1, n + 4) \o y = SubSeq(b, 1, (n + 4) + len)
    <3>1. n + 4 \in 0..L /\ len \in 0..L - (n + 4)
          BY <2>2, <1>1, <1>2
    <3> QED  BY <3>1, SliceIs, SliceJoin DEF L
  <2>5. x \in Seq(Byte) /\ Len(x) = 4 /\ SubSeq(b, 1, n) \o x = SubSeq(b, 1, n + 4)
    <3> DEFINE four == 4
    <3>1. n \in 0..L /\ four \in 0..L - n
          BY <2>2, <1>1, <1>2
    <3> HIDE DEF four
    <3>2. /\ SubSeq(b, n + 1, n + four) \in Seq(Byte) /\ Len(SubSeq(b, n + 1, n + four)) = four
          /\ SubSeq(b, 1, n) \o SubSeq(b, n + 1, n + four) = SubSeq(b, 1, n + four)
          BY <3>1, SliceIs, SliceJoin DEF L
    <3> QED  BY <3>2 DEF four
  <2>6. PutBE(len, 4) = x
    <3>1. PutBE(UBE(x), Len(x)) = x
          BY <2>5, BytesBack
    <3> QED  BY <3>1, <2>5 DEF len, LengthAt
  <2> DEFINE z == (n + 4) + len  w == Append(v, y)  j == JoinAVCC(v)
  <2>7. JoinAVCC(w) = j \o (x \o y) /\ j \in Seq(Byte)
    <3> HIDE DEF y, x
    <3> QED  BY <2>4, <2>6, <1>1, JoinAVCCAppend
  <2>8. JoinAVCC(w) = SubSeq(b, 1, z)
    <3>1. j \o (x \o y) = (j \o x) \o y
      <4>1. j \in Seq(Byte) /\ x \in Seq(Byte) /\ y \in Seq(Byte)
            BY <2>4, <2>5, <2>7
      <4>2. \A p, q, r \in Seq(Byte) : (p \o q) \o r = p \o (q \o r)
            BY ConcatAssociative
      <4> HIDE DEF j, x, y
      <4> QED  BY <4>1, <4>2
    <3> QED  BY <3>1, <2>4, <2>5, <2>7, <1>2
  <2>9. z \in 0..L /\ 4 * (k + 1) <= z
    <3>1. 4 * k <= n \/ (v # <<>> /\ n = L)
          BY <1>2
    <3>2. n + 4 <= z /\ z \in Nat /\ z <= L
          BY <2>2, <1>1
    <3> HIDE DEF z
    <3> QED  BY <3>1, <3>2, <1>1, <1>2, <1>5
  <2>10. u.n = z /\ u.v = w
    <3>1. u = Ok(w, z)
          BY <2>3
    <3> HIDE DEF z, w, u
    <3> QED  BY <3>1, OkIs
  <2> HIDE DEF z, w, u
  <2>11. AvccAt(b, u, k + 1)
        BY <2>8, <2>9, <2>10 DEF AvccAt, L
  <2> QED  BY <2>11 DEF u
<1> QED  BY <1>4, <1>5

\* What was well-formed behind a turn was so before it.
LEMMA AvccOk ==
    ASSUME NEW b \in Seq(Byte), NEW f, AvccTurns(f, b), NEW k \in 1..Len(b) + 1, f[k].ok
    PROVE  f[k - 1].ok /\ f[k - 1] \in AvccStates /\ f[k] = AvccTurn(b, f[k - 1])
<1>1. k - 1 \in 0..Len(b) + 1
      BY LenProperties
<1>2. f[k] = AvccTurn(b, f[k - 1]) /\ f[k - 1] \in AvccStates
      BY <1>1 DEF AvccTurns
<1>3. ~f[k - 1].ok => AvccTurn(b, f[k - 1]) = f[k - 1]
      BY DEF AvccTurn
<1> QED  BY <1>2, <1>3

LEMMA AvccAll ==
    ASSUME NEW b \in Seq(Byte), NEW f, AvccTurns(f, b), f[Len(b) + 1].ok
    PROVE  \A k \in 0..Len(b) + 1 : f[k].ok /\ f[k] \in AvccStates
<1> DEFINE n == Len(b) + 1  P == {j \in Nat : j \in 0..n => f[n - j].ok}
<1>1. n \in Nat /\ 0 \in P
      BY LenProperties
<1>2. ASSUME NEW j \in Nat, j \in P
      PROVE  j + 1 \in P
  <2> SUFFICES ASSUME j + 1 \in 0..n
               PROVE  f[n - (j + 1)].ok
      OBVIOUS
  <2>1. n - j \in 1..n /\ j \in 0..n /\ (n - j) - 1 = n - (j + 1)
        BY <1>1
  <2>2. f[n - j].ok
        BY <1>2, <2>1
  <2> DEFINE k == n - j
  <2>3. f[k - 1].ok
    <3> HIDE DEF k
    <3> QED  BY <2>1, <2>2, AvccOk DEF k
  <2> QED  BY <2>1, <2>3
<1> HIDE DEF P
<1>3. Nat \subseteq P
      BY <1>1, <1>2, NatSet
<1>4. \A k \in 0..n : f[k].ok
  <2> TAKE k \in 0..n
  <2>1. n - k \in Nat /\ n - k \in 0..n /\ n - (n - k) = k
        BY <1>1
  <2>2. n - k \in P
        BY <2>1, <1>3
  <2> QED  BY <2>1, <2>2 DEF P
<1>5. f \in [0..n -> AvccStates]
      BY DEF AvccTurns
<1> QED  BY <1>4, <1>5

\* What comes out joins to what went in.
LEMMA SplitAVCCBack ==
    ASSUME NEW b \in Seq(Byte), SplitAVCC(b).ok
    PROVE  SplitAVCC(b) \in AvccStates /\ JoinAVCC(SplitAVCC(b).v) = b
<1>1. PICK f : AvccTurns(f, b)
      BY AvccTurnsExist
<1> DEFINE L == Len(b)  n == Len(b) + 1
<1>2. SplitAVCC(b) = f[n] /\ L \in Nat
      BY <1>1, SplitAVCCIs, LenProperties
<1>3. \A k \in 0..n : f[k].ok /\ f[k] \in AvccStates
      BY <1>1, <1>2, AvccAll
<1>4. f[0] = Ok(<<>>, 0) /\ \A k \in 1..n : f[k] = AvccTurn(b, f[k - 1])
      BY <1>1 DEF AvccTurns
<1> DEFINE P == {k \in Nat : k \in 0..n => AvccAt(b, f[k], k)}
<1>5. 0 \in P
  <2> DEFINE e == <<>>
  <2>1. f[0].v = e /\ f[0].n = 0
        BY <1>4, OkIs
  <2>2. JoinAVCC(e) = e
    <3>1. e \in Seq(Seq(Byte)) /\ e \in Seq(Byte)
          OBVIOUS
    <3> QED  BY <3>1, JoinAVCCAppend
  <2>3. SubSeq(b, 1, 0) = e
        OBVIOUS
  <2>4. 0 \in 0..Len(b) /\ 4 * 0 <= 0
        BY <1>2
  <2> HIDE DEF e
  <2> QED  BY <2>1, <2>2, <2>3, <2>4 DEF AvccAt
<1>6. ASSUME NEW k \in Nat, k \in P
      PROVE  k + 1 \in P
  <2> SUFFICES ASSUME k + 1 \in 0..n
               PROVE  AvccAt(b, f[k + 1], k + 1)
      OBVIOUS
  <2>1. k \in 0..n /\ k + 1 \in 1..n /\ (k + 1) - 1 = k
        BY <1>2
  <2>2. AvccAt(b, f[k], k) /\ f[k].ok /\ f[k] \in AvccStates /\ f[k + 1] = AvccTurn(b, f[k]) /\ f[k + 1].ok
        BY <2>1, <1>3, <1>4, <1>6
  <2> HIDE DEF n, P
  <2> QED  BY <2>2, AvccNext
<1> HIDE DEF P
<1>7. n \in P
      BY <1>5, <1>6, <1>2, NatSet
<1>8. AvccAt(b, f[n], n)
  <2>1. n \in 0..n
        BY <1>2
  <2> QED  BY <1>7, <2>1 DEF P
<1>9. f[n].n = L /\ JoinAVCC(f[n].v) = SubSeq(b, 1, f[n].n)
      BY <1>8, <1>2 DEF AvccAt
<1>10. n \in 0..n
      BY <1>2
<1> QED  BY <1>2, <1>3, <1>9, <1>10, FrontAll

\* x stands in b behind its first o elements.
Placed(b, o, x) == o + Len(x) <= Len(b) /\ \A i \in 1..Len(x) : b[o + i] = x[i]

LEMMA PlacedSlice ==
    ASSUME NEW A, NEW b \in Seq(A), NEW x \in Seq(A), NEW o \in Nat, Placed(b, o, x)
    PROVE  SubSeq(b, o + 1, o + Len(x)) = x
<1> DEFINE l == Len(x)  y == SubSeq(b, o + 1, o + l)
<1>1. l \in Nat /\ Len(b) \in Nat /\ o + l <= Len(b) /\ \A i \in 1..l : b[o + i] = x[i]
      BY LenProperties DEF Placed
<1>l. l = Len(x)
      OBVIOUS
<1> HIDE DEF l
<1>2. o \in 0..Len(b) /\ l \in 0..Len(b) - o
      BY <1>1
<1>3. y \in Seq(A) /\ Len(y) = l /\ \A i \in 1..l : y[i] = b[o + i]
      BY <1>2, SliceIs
<1> HIDE DEF y
<1>4. y = x
      BY <1>1, <1>3, <1>l, SeqEqual
<1> QED  BY <1>4 DEF y, l

LEMMA PlacedParts ==
    ASSUME NEW A, NEW b \in Seq(A), NEW x \in Seq(A), NEW y \in Seq(A), NEW o \in Nat, Placed(b, o, x \o y)
    PROVE  Placed(b, o, x) /\ Placed(b, o + Len(x), y)
<1> DEFINE k == Len(x)  l == Len(y)  z == x \o y
<1>1. k \in Nat /\ l \in Nat /\ Len(b) \in Nat
      BY LenProperties
<1>2. Len(z) = k + l /\ \A i \in 1..k + l : z[i] = IF i <= k THEN x[i] ELSE y[i - k]
      BY ConcatProperties
<1>3. o + Len(z) <= Len(b) /\ \A i \in 1..Len(z) : b[o + i] = z[i]
      BY DEF Placed
<1>x. k = Len(x) /\ l = Len(y)
      OBVIOUS
<1> HIDE DEF z, k, l
<1>4. \A i \in 1..k : b[o + i] = x[i]
      BY <1>1, <1>2, <1>3
<1>5. \A i \in 1..l : b[(o + k) + i] = y[i]
  <2> TAKE i \in 1..l
  <2>1. k + i \in 1..k + l /\ ~(k + i <= k) /\ (k + i) - k = i /\ o + (k + i) = (o + k) + i
        BY <1>1
  <2> QED  BY <2>1, <1>2, <1>3
<1>6. o + k <= Len(b) /\ (o + k) + l <= Len(b)
      BY <1>1, <1>2, <1>3
<1> QED  BY <1>4, <1>5, <1>6, <1>x DEF Placed

\* Where the elements of s are when they are joined.
LEMMA ConcatAt ==
    ASSUME NEW A, NEW s \in Seq(Seq(A)), NEW f \in [0..Len(s) -> Seq(A)], Concats(s, f), NEW k \in 1..Len(s)
    PROVE  /\ f[k - 1] \in Seq(A) /\ f[k] \in Seq(A) /\ s[k] \in Seq(A) /\ FlattenSeq(s) \in Seq(A)
           /\ Len(f[k]) = Len(f[k - 1]) + Len(s[k])
           /\ Placed(FlattenSeq(s), Len(f[k - 1]), s[k])
<1> DEFINE n == Len(s)  o == Len(f[k - 1])  x == s[k]  c == f[k]  a == f[k - 1]
<1>1. n \in Nat /\ k - 1 \in 0..n /\ k \in 0..n /\ n \in 0..n /\ x \in Seq(A)
      BY LenProperties, ElementOfSeq
<1>2. \A i \in 1..n : f[i] = f[i - 1] \o s[i] /\ s[i] \in Seq(A)
      BY ElementOfSeq DEF Concats
<1>3. FlattenSeq(s) = f[n]
      BY FlattenIs
<1>4. f[k - 1] \in Seq(A) /\ f[k] \in Seq(A) /\ f[n] \in Seq(A) /\ o \in Nat /\ Len(x) \in Nat /\ f[k] = f[k - 1] \o x
      BY <1>1, <1>2, LenProperties
<1>5. Len(f[k]) = o + Len(x) /\ \A i \in 1..Len(x) : f[k][o + i] = x[i]
  <2>1. Len(a \o x) = Len(a) + Len(x) /\
        \A i \in 1..Len(a) + Len(x) : (a \o x)[i] = IF i <= Len(a) THEN a[i] ELSE x[i - Len(a)]
    <3> HIDE DEF a, x
    <3> QED  BY <1>1, <1>4, ConcatProperties DEF a
  <2> HIDE DEF x
  <2>2. ASSUME NEW i \in 1..Len(x)
        PROVE  c[o + i] = x[i]
    <3>1. o + i \in 1..o + Len(x) /\ ~(o + i <= o) /\ (o + i) - o = i
          BY <1>4
    <3> QED  BY <3>1, <2>1, <1>4
  <2> QED  BY <2>1, <2>2, <1>4
<1> DEFINE P == {j \in Nat : k + j <= n => Placed(f[k + j], 0, f[k])}
<1>6. 0 \in P
  <2>1. Len(f[k]) \in Nat
        BY <1>4, LenProperties
  <2>2. k + 0 = k /\ 0 + Len(f[k]) <= Len(f[k]) /\ \A i \in 1..Len(f[k]) : 0 + i = i
        BY <2>1, <1>1
  <2>3. Placed(c, 0, c)
    <3> HIDE DEF c
    <3> QED  BY <2>1, <2>2 DEF Placed, c
  <2> QED  BY <2>2, <2>3
<1>7. ASSUME NEW j \in Nat, j \in P
      PROVE  j + 1 \in P
  <2> SUFFICES ASSUME k + (j + 1) <= n
               PROVE  Placed(f[k + (j + 1)], 0, f[k])
      OBVIOUS
  <2> DEFINE i == k + j  p == f[k + j]  q == s[(k + j) + 1]  r == p \o q
  <2>1. i <= n /\ i \in 0..n /\ i + 1 \in 1..n /\ (i + 1) - 1 = i /\ i + 1 = k + (j + 1)
        BY <1>1
  <2>2. f[i + 1] = p \o q /\ p \in Seq(A) /\ q \in Seq(A)
        BY <1>2, <2>1
  <2>3. Placed(p, 0, c)
        BY <1>7, <2>1
  <2> HIDE DEF p, q
  <2>4. Len(p) \in Nat /\ Len(q) \in Nat /\ Len(r) = Len(p) + Len(q) /\ \A m \in 1..Len(p) : r[m] = p[m]
        BY <2>2, ConcatParts, LenProperties
  <2> HIDE DEF r, c
  <2>5. Len(c) \in Nat
        BY <1>4, LenProperties DEF c
  <2>6. Placed(r, 0, c)
        BY <2>3, <2>4, <2>5 DEF Placed
  <2> QED  BY <2>6, <2>2, <2>1 DEF r, c
<1> HIDE DEF P
<1>8. n - k \in P /\ n - k \in Nat /\ k + (n - k) = n
  <2>1. n - k \in Nat /\ k + (n - k) = n
        BY <1>1
  <2>2. Nat \subseteq P
        BY <1>6, <1>7, NatSet
  <2> QED  BY <2>1, <2>2
<1>9. Placed(f[n], 0, f[k])
      BY <1>8, <1>1 DEF P
<1>10. Placed(f[n], o, x)
  <2> HIDE DEF x, o, n
  <2>1. Len(f[k]) = o + Len(x) /\ Len(f[n]) \in Nat
        BY <1>4, <1>5, LenProperties
  <2>2. o + Len(x) <= Len(f[n]) /\ \A i \in 1..o + Len(x) : f[n][i] = f[k][i]
        BY <1>9, <2>1, <1>4 DEF Placed
  <2>3. ASSUME NEW i \in 1..Len(x)
        PROVE  f[n][o + i] = x[i]
    <3>1. o + i \in 1..o + Len(x)
          BY <1>4
    <3> QED  BY <3>1, <2>2, <1>5
  <2> QED  BY <2>2, <2>3 DEF Placed
<1> QED  BY <1>3, <1>4, <1>5, <1>10

LEMMA PowerFour == Power(4) = (ByteMod * ByteMod) * (ByteMod * ByteMod)
<1> DEFINE m == ByteMod
<1>1. m \in Nat
      BY Bytes
<1>2. Power(0) = 1 /\ Power(0 + 1) = m * Power(0) /\ Power(1 + 1) = m * Power(1)
      /\ Power(2 + 1) = m * Power(2) /\ Power(3 + 1) = m * Power(3)
      BY PowerStep
<1> HIDE DEF m
<1>3. Power(1) = m * 1 /\ Power(2) = m * Power(1) /\ Power(3) = m * Power(2) /\ Power(4) = m * Power(3)
      BY <1>2
<1>4. Power(1) = m
      BY <1>1, <1>3
<1>5. Power(4) = m * (m * (m * m))
      BY <1>3, <1>4
<1>6. m * (m * (m * m)) = (m * m) * (m * m)
      BY <1>1
<1> QED  BY <1>5, <1>6 DEF m

\* The length of a unit that is not longer than it may be.
LEMMA LengthBack ==
    ASSUME NEW l \in Nat, l < (ByteMod * ByteMod) * (ByteMod * ByteMod)
    PROVE  UBE(PutBE(l, 4)) = l
<1> DEFINE M == Power(4)
<1>1. UBE(PutBE(l, 4)) = l % M
  <2>1. 4 \in Nat /\ l \in Int
        OBVIOUS
  <2> QED  BY <2>1, UnsignedBack
<1>2. M \in Nat /\ M >= 1
  <2>1. 4 \in Nat
        OBVIOUS
  <2> QED  BY <2>1, PowerStep
<1>3. l < M
      BY PowerFour
<1> HIDE DEF M
<1> QED  BY <1>1, <1>2, <1>3

\* The first K elements of s are units of ns behind their lengths.
Lengths(s, ns, K) ==
    /\ K \in 0..Len(s) /\ Len(ns) = Len(s)
    /\ \A i \in 1..K : s[i] = WithLength[ns[i]] /\ Len(ns[i]) < (ByteMod * ByteMod) * (ByteMod * ByteMod)

\* Behind a unit with its length there is another one.
LEMMA AvccUnit ==
    ASSUME NEW b \in Seq(Byte), NEW v \in Seq(Seq(Byte)), NEW o \in Nat, NEW u \in Seq(Byte),
           Len(u) < (ByteMod * ByteMod) * (ByteMod * ByteMod), Placed(b, o, WithLength[u])
    PROVE  AvccTurn(b, Ok(v, o)) = Ok(Append(v, u), o + Len(WithLength[u]))
<1> DEFINE l == Len(u)  x == PutBE(l, 4)  t == Ok(v, o)
<1>1. l \in Nat /\ l \in Int /\ Len(b) \in Nat
      BY LenProperties
<1>2. x \in Seq(Byte) /\ Len(x) = 4
      BY <1>1, LengthBytes
<1>3. WithLength[u] = x \o u /\ Len(WithLength[u]) = 4 + l
      BY WithLengthIs
<1> HIDE DEF x, l
<1>4. Placed(b, o, x) /\ Placed(b, o + Len(x), u)
      BY <1>2, <1>3, PlacedParts
<1>5. SubSeq(b, o + 1, o + Len(x)) = x /\ o + Len(x) <= Len(b)
      BY <1>2, <1>4, PlacedSlice DEF Placed
<1>6. LengthAt(b, o) = l
  <2>1. UBE(x) = l
        BY <1>1, LengthBack DEF x, l
  <2> QED  BY <1>2, <1>5, <2>1 DEF LengthAt
<1> DEFINE p == o + 4
<1>7. SubSeq(b, p + 1, p + l) = u /\ p + l <= Len(b) /\ p \in Nat
  <2>1. p = o + Len(x) /\ p \in Nat
        BY <1>2
  <2> HIDE DEF p
  <2>2. Placed(b, p, u)
        BY <2>1, <1>4
  <2> QED  BY <2>1, <2>2, PlacedSlice DEF Placed, l
<1>8. p <= Len(b)
      BY <1>5, <1>2
<1>9. t.ok /\ t.v = v /\ t.n = o
      BY OkIs
<1>10. t.n # Len(b)
       BY <1>8, <1>9, <1>1
<1>11. AvccTurn(b, t) = TakeUnit(b, t)
  <2> HIDE DEF t
  <2> QED  BY <1>9, <1>10 DEF AvccTurn
<1>12. TakeUnit(b, t) = Ok(Append(v, SubSeq(b, p + 1, p + l)), p + l)
       BY <1>6, <1>7, <1>8, TakeUnitIs
<1>13. p + l = o + Len(WithLength[u])
       BY <1>3, <1>1
<1> HIDE DEF p, t
<1> QED  BY <1>7, <1>11, <1>12, <1>13 DEF t

\* The first K turns take the first K units.
Taken(f, ns, g, b, K) ==
    \A k \in 0..K : /\ 4 * k <= Len(g[k]) /\ Len(g[k]) <= Len(b)
                    /\ f[k] = Ok(SubSeq(ns, 1, k), Len(g[k]))

LEMMA AvccPrefix ==
    ASSUME NEW ns \in Seq(Seq(Byte)), NEW s \in Seq(Seq(Byte)), NEW K, Lengths(s, ns, K),
           NEW g \in [0..Len(s) -> Seq(Byte)], Concats(s, g),
           NEW b, b = FlattenSeq(s), NEW f, AvccTurns(f, b)
    PROVE  Taken(f, ns, g, b, K)
<1> DEFINE n == Len(s)  A == Seq(Byte)
<1>1. n \in Nat /\ K \in 0..n /\ K \in Nat /\ Len(ns) = n /\ g[0] = <<>>
      BY LenProperties DEF Lengths, Concats
<1>2. /\ \A k \in 1..K : s[k] = WithLength[ns[k]] /\ Len(ns[k]) < (ByteMod * ByteMod) * (ByteMod * ByteMod)
      /\ \A k \in 1..n : ns[k] \in Seq(Byte)
      BY <1>1, ElementOfSeq DEF Lengths
<1>b. b \in Seq(Byte) /\ Len(b) \in Nat
  <2>1. b = g[n]
        BY FlattenIs
  <2> QED  BY <2>1, <1>1, LenProperties
<1>3. f[0] = Ok(<<>>, 0) /\ \A k \in 1..Len(b) + 1 : f[k] = AvccTurn(b, f[k - 1])
      BY DEF AvccTurns
<1>a. \A i \in 1..n : /\ g[i] \in Seq(Byte) /\ Len(g[i]) = Len(g[i - 1]) + Len(s[i])
                       /\ Placed(b, Len(g[i - 1]), s[i])
  <2> TAKE i \in 1..n
  <2>1. /\ g[i - 1] \in Seq(Byte) /\ g[i] \in Seq(Byte) /\ s[i] \in Seq(Byte) /\ FlattenSeq(s) \in Seq(Byte)
        /\ Len(g[i]) = Len(g[i - 1]) + Len(s[i])
        /\ Placed(FlattenSeq(s), Len(g[i - 1]), s[i])
        BY ConcatAt
  <2> QED  BY <2>1
<1> DEFINE P == {k \in Nat : k \in 0..K =>
                    /\ 4 * k <= Len(g[k]) /\ Len(g[k]) <= Len(b)
                    /\ f[k] = Ok(SubSeq(ns, 1, k), Len(g[k]))}
<1>4. 0 \in P
  <2>1. Len(g[0]) = 0
        BY <1>1
  <2>2. SubSeq(ns, 1, 0) = <<>>
        OBVIOUS
  <2>3. f[0] = Ok(SubSeq(ns, 1, 0), Len(g[0]))
        BY <2>1, <2>2, <1>3
  <2>4. 4 * 0 <= Len(g[0]) /\ Len(g[0]) <= Len(b)
        BY <2>1, <1>b
  <2> QED  BY <2>3, <2>4
<1>5. ASSUME NEW k \in Nat, k \in P
      PROVE  k + 1 \in P
  <2> DEFINE j == k + 1  o == Len(g[k])  u == ns[j]  v == SubSeq(ns, 1, k)
  <2> SUFFICES ASSUME j \in 0..K
               PROVE  /\ 4 * j <= Len(g[j]) /\ Len(g[j]) <= Len(b)
                      /\ f[j] = Ok(SubSeq(ns, 1, j), Len(g[j]))
      OBVIOUS
  <2>1. j \in 1..K /\ j \in 1..n /\ j - 1 = k /\ k \in 0..K /\ k \in 0..n
        BY <1>1
  <2>2. 4 * k <= o /\ f[k] = Ok(v, o)
        BY <1>5, <2>1
  <2>3. /\ g[k] \in Seq(Byte) /\ g[j] \in Seq(Byte)
        /\ Len(g[j]) = o + Len(s[j]) /\ Placed(b, o, s[j])
    <3>1. g[j] \in Seq(Byte) /\ Len(g[j]) = Len(g[j - 1]) + Len(s[j]) /\ Placed(b, Len(g[j - 1]), s[j])
      <4> HIDE DEF j, P
      <4> QED  BY <2>1, <1>a
    <3> HIDE DEF j, P
    <3> QED  BY <2>1, <3>1
  <2>4. u \in Seq(Byte) /\ s[j] = WithLength[u] /\ Len(u) < (ByteMod * ByteMod) * (ByteMod * ByteMod)
        BY <2>1, <1>2
  <2>5. o \in Nat /\ Len(u) \in Nat /\ Len(s[j]) = 4 + Len(u) /\ Len(g[j]) <= Len(b) /\ Len(g[j]) \in Nat
    <3>1. o \in Nat /\ Len(u) \in Nat /\ Len(g[j]) \in Nat
          BY <2>3, <2>4, LenProperties
    <3>2. Len(s[j]) = 4 + Len(u)
          BY <2>4, WithLengthIs
    <3>3. o + Len(s[j]) <= Len(b)
          BY <2>3 DEF Placed
    <3> QED  BY <3>1, <3>2, <3>3, <2>3
  <2>6. 4 * j <= Len(g[j])
    <3> DEFINE c == Len(g[j])  d == Len(u)
    <3>1. c = o + (4 + d) /\ d \in Nat /\ o \in Nat
          BY <2>3, <2>5
    <3> HIDE DEF c, d, o
    <3> QED  BY <3>1, <2>2 DEF c
  <2>7. v \in Seq(A) /\ Append(v, u) = SubSeq(ns, 1, j)
    <3>1. k \in 0..Len(ns) /\ j \in 0..Len(ns)
          BY <2>1, <1>1
    <3> HIDE DEF A
    <3>2. v \in Seq(A) /\ Len(v) = k /\ SubSeq(ns, 1, j) \in Seq(A) /\ Len(SubSeq(ns, 1, j)) = j
      <4> HIDE DEF j
      <4> QED  BY <3>1, FrontIs DEF A
    <3>3. /\ \A i \in 1..k : v[i] = ns[i]
          /\ \A i \in 1..j : SubSeq(ns, 1, j)[i] = ns[i]
      <4> QED  BY <2>1, <1>1
    <3> DEFINE w == SubSeq(ns, 1, j)
    <3>4. w \in Seq(A) /\ Len(w) = Len(v) + 1 /\ (\A i \in 1..Len(v) : w[i] = v[i]) /\ w[Len(v) + 1] = u /\ u \in A
      <4>1. j \in 1..j /\ \A i \in 1..k : i \in 1..j
            BY <2>1
      <4> HIDE DEF w, v
      <4> QED  BY <4>1, <3>2, <3>3, <2>4 DEF w, A
    <3> HIDE DEF w, v, u
    <3>5. w = Append(v, u)
          BY <3>2, <3>4, AppendIs
    <3> QED  BY <3>2, <3>5 DEF w
  <2>8. j \in 1..Len(b) + 1
        BY <2>1, <2>5, <2>6, <1>b
  <2>9. f[j] = AvccTurn(b, Ok(v, o))
        BY <2>8, <2>1, <2>2, <1>3
  <2>10. f[j] = Ok(Append(v, u), o + Len(WithLength[u]))
    <3>1. v \in Seq(Seq(Byte)) /\ Placed(b, o, WithLength[u])
          BY <2>3, <2>4, <2>7
    <3>2. AvccTurn(b, Ok(v, o)) = Ok(Append(v, u), o + Len(WithLength[u]))
      <4> HIDE DEF v, o, u, j
      <4> QED  BY ZenonT(60), <3>1, <2>4, <2>5, <1>b, AvccUnit
    <3> QED  BY <3>2, <2>9
  <2>11. f[j] = Ok(SubSeq(ns, 1, j), Len(g[j]))
    <3> HIDE DEF v, o, u, j
    <3> QED  BY <2>3, <2>4, <2>7, <2>10
  <2> QED  BY <2>5, <2>6, <2>11
<1> HIDE DEF P
<1>6. Nat \subseteq P
      BY <1>4, <1>5, NatSet
<1>7. \A k \in 0..K : k \in P
      BY <1>6, <1>1
<1> QED  BY <1>7 DEF P, Taken

\* Units come back from behind their lengths.
LEMMA AvccUnitsBack ==
    ASSUME NEW ns \in Seq(Seq(Byte)), ns # <<>>,
           \A i \in 1..Len(ns) : Len(ns[i]) < (ByteMod * ByteMod) * (ByteMod * ByteMod)
    PROVE  SplitAVCC(JoinAVCC(ns)).ok /\ SplitAVCC(JoinAVCC(ns)).v = ns
<1> DEFINE n == Len(ns)  s == [i \in 1..n |-> WithLength[ns[i]]]  b == JoinAVCC(ns)
<1>1. n \in Nat /\ n > 0 /\ \A i \in 1..n : ns[i] \in Seq(Byte)
  <2>1. n \in Nat /\ \A i \in 1..n : ns[i] \in Seq(Byte)
        BY LenProperties, ElementOfSeq
  <2>2. n # 0
        BY EmptySeq
  <2> QED  BY <2>1, <2>2
<1>2. s \in Seq(Seq(Byte)) /\ Len(s) = n /\ \A i \in 1..n : s[i] = WithLength[ns[i]]
  <2>1. \A i \in 1..n : WithLength[ns[i]] \in Seq(Byte)
        BY <1>1, WithLengthIs
  <2> HIDE DEF n
  <2> QED  BY <2>1, <1>1
<1>3. b = FlattenSeq(s)
      BY JoinAVCCIs DEF Joined
<1> HIDE DEF s, b
<1>4. Lengths(s, ns, n)
      BY <1>1, <1>2 DEF Lengths
<1>5. PICK g \in [0..Len(s) -> Seq(Byte)] : Concats(s, g)
      BY <1>2, ConcatsExist
<1>6. b = g[n] /\ b \in Seq(Byte)
  <2>1. b = g[n]
        BY <1>2, <1>3, <1>5, FlattenIs
  <2>2. n \in 0..Len(s)
        BY <1>1, <1>2
  <2> QED  BY <2>1, <2>2, <1>5
<1>7. PICK f : AvccTurns(f, b)
      BY <1>6, AvccTurnsExist
<1>8. 4 * n <= Len(g[n]) /\ f[n] = Ok(SubSeq(ns, 1, n), Len(g[n]))
  <2>1. n \in 0..n
        BY <1>1
  <2> HIDE DEF n
  <2>2. Taken(f, ns, g, b, n)
        BY <1>2, <1>3, <1>4, <1>5, <1>7, AvccPrefix
  <2> QED  BY <2>1, <2>2 DEF Taken
<1> DEFINE L == Len(b)  t == Ok(ns, L)  m == L + 1
<1>9. f[n] = t /\ 4 * n <= L /\ L \in Nat
      BY <1>8, <1>6, FrontAll, LenProperties
<1>10. AvccTurn(b, t) = t
  <2>1. t.v = ns /\ t.n = L
        BY OkIs
  <2> HIDE DEF t
  <2> QED  BY <2>1 DEF AvccTurn
<1>11. \A k \in 1..m : f[k] = AvccTurn(b, f[k - 1])
       BY <1>7 DEF AvccTurns
<1> DEFINE P == {j \in Nat : n + j <= m => f[n + j] = t}
<1>12. 0 \in P
       BY <1>9, <1>1
<1>13. ASSUME NEW j \in Nat, j \in P
       PROVE  j + 1 \in P
  <2> SUFFICES ASSUME n + (j + 1) <= m
               PROVE  f[n + (j + 1)] = t
      OBVIOUS
  <2> DEFINE i == n + j
  <2>1. i + 1 \in 1..m /\ (i + 1) - 1 = i /\ i + 1 = n + (j + 1) /\ i <= m
        BY <1>1, <1>9
  <2>2. f[i] = t
        BY <2>1, <1>13
  <2> HIDE DEF i, t, m
  <2> QED  BY <2>1, <2>2, <1>10, <1>11
<1> HIDE DEF P, t
<1>14. m - n \in P /\ n + (m - n) = m
  <2>1. m - n \in Nat /\ n + (m - n) = m
        BY <1>1, <1>9
  <2>2. Nat \subseteq P
        BY <1>12, <1>13, NatSet
  <2> QED  BY <2>1, <2>2
<1>15. f[m] = t
       BY <1>14, <1>1, <1>9 DEF P
<1>16. SplitAVCC(b) = t
       BY <1>6, <1>7, <1>15, SplitAVCCIs
<1>17. t.ok /\ t.v = ns
       BY OkIs DEF t
<1> HIDE DEF L
<1> QED  BY <1>16, <1>17 DEF b

-----------------------------------------------------------------------------
(* NAL units between start codes                                           *)

\* Where a unit in front of a start code is cut: one zero goes with the code.
Before(b, i) == IF i > 3 /\ b[i - 3] = 0 THEN i - 4 ELSE i - 3

\* The bytes of b that splitAnnexb takes for a unit behind position i.
CutBehind(b, i) ==
    LET later == {j \in Ends(b) : j > i}
    IN  SubSeq(b, i + 1, IF later = {} THEN Len(b) ELSE Before(b, Min(later)))

\* That unit, if a start code or the buffer starts it and it is not empty.
AnnexbPart(b, i) == IF i \in Ends(b) \union {0} /\ CutBehind(b, i) # <<>> THEN <<CutBehind(b, i)>> ELSE <<>>
AnnexbParts(b) == [i \in 1..Len(b) + 1 |-> AnnexbPart(b, i - 1)]

\* What splitAnnexb makes of b.
CutUnits(b) == FlattenSeq(AnnexbParts(b))

\* The units that begin before position m.
UnitsUpTo(b, m) == FlattenSeq(SubSeq(AnnexbParts(b), 1, m))

\* The bytes behind position i up to position j, as a unit if there are any.
Piece(b, i, j) == IF i < j THEN <<SubSeq(b, i + 1, j)>> ELSE <<>>

\* Behind i there is no start code before position to.
NoEnds(b, i, to) == \A j \in Ends(b) : j > i => j >= to

LEMMA EndsAre ==
    ASSUME NEW b \in Seq(Byte), NEW i \in Ends(b)
    PROVE  /\ i \in 3..Len(b) /\ i \in Nat /\ b[i - 2] = 0 /\ b[i - 1] = 0 /\ b[i] = 1
           /\ Before(b, i) \in 0..i - 3
<1>1. i \in 3..Len(b) /\ b[i - 2] = 0 /\ b[i - 1] = 0 /\ b[i] = 1 /\ Len(b) \in Nat
      BY LenProperties DEF Ends
<1>2. Before(b, i) \in 0..i - 3
  <2>1. CASE i > 3 /\ b[i - 3] = 0
        BY <1>1, <2>1 DEF Before
  <2>2. CASE ~(i > 3 /\ b[i - 3] = 0)
        BY <1>1, <2>2 DEF Before
  <2> QED  BY <2>1, <2>2
<1> QED  BY <1>1, <1>2

LEMMA PieceIs ==
    ASSUME NEW b \in Seq(Byte), NEW i \in Nat, NEW j \in 0..Len(b), NEW x, x = SubSeq(b, i + 1, j)
    PROVE  /\ x \in Seq(Byte) /\ Piece(b, i, j) \in Seq(Seq(Byte))
           /\ Piece(b, i, j) = IF x # <<>> THEN <<x>> ELSE <<>>
<1> DEFINE n == j - i  y == SubSeq(b, i + 1, i + n)
<1>0. j \in Nat /\ Len(b) \in Nat /\ i + n = j
      BY LenProperties
<1>1. CASE i < j
  <2>1. i \in 0..Len(b) /\ n \in 0..Len(b) - i /\ n > 0
        BY <1>0, <1>1
  <2> HIDE DEF n
  <2>2. y \in Seq(Byte) /\ Len(y) = n
        BY <2>1, SliceIs
  <2>3. x = y
        BY <1>0
  <2>4. x # <<>>
        BY <2>1, <2>2, <2>3
  <2>5. Piece(b, i, j) = <<x>>
        BY <1>1 DEF Piece
  <2>6. <<x>> \in Seq(Seq(Byte))
        BY <2>2, <2>3
  <2> QED  BY <2>2, <2>3, <2>4, <2>5, <2>6
<1>2. CASE ~(i < j)
  <2>1. x = <<>>
        BY <1>0, <1>2
  <2>2. Piece(b, i, j) = <<>>
        BY <1>2 DEF Piece
  <2> QED  BY <2>1, <2>2
<1> QED  BY <1>1, <1>2

\* What is behind position i goes on to the next start code, or to the end.
LEMMA BehindIs ==
    ASSUME NEW b \in Seq(Byte), NEW i \in Ends(b) \union {0}, NEW to \in Nat, NEW end \in 0..Len(b),
           NoEnds(b, i, to), i < to,
           \/ to \in Ends(b) /\ end = Before(b, to)
           \/ to = Len(b) + 1 /\ end = Len(b)
    PROVE  AnnexbPart(b, i) = Piece(b, i, end) /\ CutBehind(b, i) = SubSeq(b, i + 1, end)
<1> DEFINE later == {j \in Ends(b) : j > i}  x == SubSeq(b, i + 1, end)
<1>1. i \in Nat /\ Len(b) \in Nat
      BY EndsAre, LenProperties
<1>2. CutBehind(b, i) = SubSeq(b, i + 1, IF later = {} THEN Len(b) ELSE Before(b, Min(later)))
      BY DEF CutBehind
<1>3. CutBehind(b, i) = x
  <2>1. CASE to \in Ends(b) /\ end = Before(b, to)
    <3>1. to \in later /\ \A j \in later : to <= j /\ j \in Nat
          BY <2>1, <1>1, EndsAre DEF NoEnds
    <3> HIDE DEF later
    <3>2. Min(later) = to
      <4>1. \A y \in later : (\A j \in later : y <= j) => y = to
            BY <3>1
      <4> QED  BY <3>1, <4>1 DEF Min
    <3> QED  BY <3>1, <3>2, <1>2, <2>1
  <2>2. CASE to = Len(b) + 1 /\ end = Len(b)
    <3>1. later = {}
      <4> SUFFICES ASSUME NEW j \in Ends(b), j > i
                   PROVE  FALSE
          OBVIOUS
      <4>1. j \in Nat /\ j <= Len(b) /\ j >= to
            BY EndsAre DEF NoEnds
      <4> QED  BY <4>1, <2>2, <1>1
    <3> QED  BY <3>1, <2>2, <1>2
  <2> QED  BY <2>1, <2>2
<1>4. Piece(b, i, end) = IF x # <<>> THEN <<x>> ELSE <<>>
  <2> HIDE DEF x
  <2> QED  BY <1>1, PieceIs DEF x
<1> HIDE DEF x
<1>5. AnnexbPart(b, i) = IF x # <<>> THEN <<x>> ELSE <<>>
      BY <1>3 DEF AnnexbPart
<1> QED  BY <1>3, <1>4, <1>5 DEF x

\* The first start code behind position i, if there is one.
LEMMA NextEnd ==
    ASSUME NEW b \in Seq(Byte), NEW i \in Nat
    PROVE  \/ \E to \in Ends(b) : i < to /\ NoEnds(b, i, to)
           \/ NoEnds(b, i, Len(b) + 1)
<1> DEFINE later == {j \in Ends(b) : j > i}
<1>1. later \in SUBSET Nat
      BY EndsAre
<1>2. CASE later # {}
  <2>1. PICK to \in later : \A j \in later : to <= j
        BY <1>1, <1>2, LeastNat
  <2>2. to \in Ends(b) /\ i < to /\ to \in Nat
        BY <2>1, <1>1
  <2>3. NoEnds(b, i, to)
        BY <2>1, <1>1 DEF NoEnds
  <2> QED  BY <2>2, <2>3
<1>3. CASE later = {}
      BY <1>3 DEF NoEnds
<1> QED  BY <1>2, <1>3

LEMMA AnnexbPartsAre ==
    ASSUME NEW b \in Seq(Byte)
    PROVE  /\ AnnexbParts(b) \in Seq(Seq(Seq(Byte))) /\ Len(AnnexbParts(b)) = Len(b) + 1
           /\ \A i \in 0..Len(b) : AnnexbParts(b)[i + 1] = AnnexbPart(b, i) /\ AnnexbPart(b, i) \in Seq(Seq(Byte))
           /\ CutUnits(b) = FlattenSeq(AnnexbParts(b))
<1> DEFINE S == Seq(Seq(Byte))  L == Len(b)  parts == AnnexbParts(b)
<1>1. L \in Nat /\ <<>> \in S
      BY LenProperties
<1>2. \A i \in 0..L : AnnexbPart(b, i) \in S
  <2> TAKE i \in 0..L
  <2>1. CASE i \in Ends(b) \union {0}
    <3>1. i \in Nat /\ L \in 0..L
          BY <1>1
    <3>2. PICK to \in Nat, end \in 0..L :
             /\ NoEnds(b, i, to) /\ i < to
             /\ (to \in Ends(b) /\ end = Before(b, to)) \/ (to = Len(b) + 1 /\ end = Len(b))
      <4>1. CASE \E to \in Ends(b) : i < to /\ NoEnds(b, i, to)
        <5>1. PICK to \in Ends(b) : i < to /\ NoEnds(b, i, to)
              BY <4>1
        <5>2. to \in Nat /\ Before(b, to) \in 0..L
              BY EndsAre, <1>1
        <5> QED  BY <5>1, <5>2
      <4>2. CASE NoEnds(b, i, L + 1)
        <5>1. L + 1 \in Nat /\ i < L + 1
              BY <1>1
        <5> QED  BY <5>1, <4>2, <3>1
      <4> QED  BY <4>1, <4>2, <3>1, NextEnd
    <3>3. AnnexbPart(b, i) = Piece(b, i, end)
          BY <2>1, <3>2, BehindIs
    <3>4. Piece(b, i, end) \in S
          BY <3>1, PieceIs
    <3> QED  BY <3>3, <3>4
  <2>2. CASE i \notin Ends(b) \union {0}
        BY <2>2, <1>1 DEF AnnexbPart
  <2> QED  BY <2>1, <2>2
<1> HIDE DEF S
<1>3. \A i \in 1..L + 1 : i - 1 \in 0..L
      BY <1>1
<1>4. parts = [i \in 1..L + 1 |-> AnnexbPart(b, i - 1)]
      BY DEF AnnexbParts
<1>5. parts \in Seq(S) /\ Len(parts) = L + 1
  <2>1. \A i \in 1..L + 1 : AnnexbPart(b, i - 1) \in S
        BY <1>2, <1>3
  <2>2. L + 1 \in Nat
        BY <1>1
  <2> HIDE DEF L, parts
  <2> QED  BY <2>1, <2>2, <1>4
<1>6. \A i \in 0..L : parts[i + 1] = AnnexbPart(b, i)
  <2> TAKE i \in 0..L
  <2>1. i + 1 \in 1..L + 1 /\ (i + 1) - 1 = i
        BY <1>1
  <2> HIDE DEF L, parts
  <2> QED  BY <2>1, <1>4
<1>7. CutUnits(b) = FlattenSeq(parts)
      BY DEF CutUnits
<1> QED  BY <1>2, <1>5, <1>6, <1>7 DEF S

\* Up to one element more.
LEMMA FlattenNext ==
    ASSUME NEW A, NEW s \in Seq(Seq(A)), NEW i \in Nat, i + 1 <= Len(s)
    PROVE  FlattenSeq(SubSeq(s, 1, i + 1)) = FlattenSeq(SubSeq(s, 1, i)) \o s[i + 1]
<1> DEFINE S == Seq(A)  v == SubSeq(s, 1, i)  w == SubSeq(s, 1, i + 1)  x == s[i + 1]
<1>1. Len(s) \in Nat /\ i \in 0..Len(s) /\ i + 1 \in 0..Len(s) /\ i + 1 \in 1..Len(s)
      BY LenProperties
<1>2. x \in S
      BY <1>1, ElementOfSeq
<1> HIDE DEF S
<1>3. v \in Seq(S) /\ Len(v) = i /\ w \in Seq(S) /\ Len(w) = i + 1
      BY <1>1, FrontIs DEF S
<1>4. (\A j \in 1..i : v[j] = s[j]) /\ \A j \in 1..i + 1 : w[j] = s[j]
      BY <1>1
<1>5. (\A j \in 1..Len(v) : w[j] = v[j]) /\ w[Len(v) + 1] = x /\ Len(w) = Len(v) + 1
  <2>1. i + 1 \in 1..i + 1 /\ \A j \in 1..i : j \in 1..i + 1
        BY <1>1
  <2> HIDE DEF v, w
  <2> QED  BY <2>1, <1>3, <1>4
<1> HIDE DEF v, w, x
<1>6. w = Append(v, x)
      BY <1>2, <1>3, <1>5, AppendIs
<1>7. FlattenSeq(Append(v, x)) = FlattenSeq(v) \o x
      BY <1>2, <1>3, FlattenAppend DEF S
<1> QED  BY <1>6, <1>7 DEF v, w, x

\* From one start code to the next there is one unit, if any.
LEMMA UnitsToNext ==
    ASSUME NEW b \in Seq(Byte), NEW i \in Ends(b) \union {0}, NEW to \in i + 1..Len(b) + 1, NoEnds(b, i, to)
    PROVE  UnitsUpTo(b, to) = UnitsUpTo(b, i) \o AnnexbPart(b, i) /\ UnitsUpTo(b, i) \in Seq(Seq(Byte))
<1> DEFINE parts == AnnexbParts(b)  L == Len(b)  n == Len(parts)  A == Seq(Byte)  j == i + 1
           F(k) == FlattenSeq(SubSeq(parts, 1, k))
<1>1. i \in 0..L /\ L \in Nat /\ i \in Nat /\ to \in Nat /\ j \in Nat /\ j <= to /\ to <= L + 1
      BY EndsAre, LenProperties
<1>2. /\ parts \in Seq(Seq(A)) /\ n = L + 1
      /\ \A k \in 0..L : parts[k + 1] = AnnexbPart(b, k)
      BY AnnexbPartsAre
<1>3. \A k \in j + 1..to : parts[k] = <<>>
  <2> TAKE k \in j + 1..to
  <2>1. k - 1 \in 0..L /\ (k - 1) + 1 = k /\ k - 1 > i /\ k - 1 < to /\ k - 1 # 0
        BY <1>1
  <2>2. k - 1 \notin Ends(b)
        BY <2>1, <1>1 DEF NoEnds
  <2> DEFINE h == k - 1
  <2>3. parts[h + 1] = AnnexbPart(b, h)
    <3> HIDE DEF h, parts
    <3> QED  BY <1>2, <2>1 DEF h
  <2>4. AnnexbPart(b, h) = <<>>
    <3> HIDE DEF h
    <3> QED  BY <2>1, <2>2 DEF AnnexbPart, h
  <2> HIDE DEF parts
  <2> QED  BY <2>1, <2>3, <2>4
<1> HIDE DEF parts, n, A
<1>4. F(j) = F(i) \o parts[i + 1]
  <2>1. i + 1 <= Len(parts)
        BY <1>1, <1>2 DEF n
  <2> QED  BY <2>1, <1>1, <1>2, FlattenNext DEF A
<1>5. /\ F(j) \in Seq(A)
      /\ \E t \in Seq(A) : F(to) = F(j) \o t /\ ((\A k \in j + 1..to : parts[k] = <<>>) => t = <<>>)
  <2>1. to <= Len(parts)
        BY <1>1, <1>2 DEF n
  <2> HIDE DEF j
  <2> QED  BY ZenonT(40), <2>1, <1>1, <1>2, FlattenUpTo
<1>6. F(to) = F(j)
  <2>1. PICK t \in Seq(A) : F(to) = F(j) \o t /\ ((\A k \in j + 1..to : parts[k] = <<>>) => t = <<>>)
        BY <1>5
  <2>2. t = <<>>
        BY <2>1, <1>3
  <2>3. \A x \in Seq(A) : x \o <<>> = x
        OBVIOUS
  <2> DEFINE x == F(j)  y == F(to)
  <2>4. x \in Seq(A) /\ y = x \o t
        BY <1>5, <2>1
  <2> HIDE DEF x, y
  <2>5. y = x
        BY <2>2, <2>3, <2>4
  <2> QED  BY <2>5 DEF x, y
<1>7. F(i) \in Seq(A)
  <2>1. i <= to /\ to <= Len(parts)
        BY <1>1, <1>2 DEF n
  <2> QED  BY <2>1, <1>1, <1>2, FlattenUpTo
<1>8. parts[i + 1] = AnnexbPart(b, i)
      BY <1>1, <1>2
<1> QED  BY <1>4, <1>6, <1>7, <1>8 DEF UnitsUpTo, parts, A

\* All of them.
LEMMA UnitsToEnd ==
    ASSUME NEW b \in Seq(Byte), NEW i \in Ends(b) \union {0}, NoEnds(b, i, Len(b) + 1)
    PROVE  CutUnits(b) = UnitsUpTo(b, i) \o Piece(b, i, Len(b))
<1> DEFINE m == Len(b) + 1  parts == AnnexbParts(b)
<1>1. Len(b) \in Nat /\ i \in Nat /\ i < m /\ m \in Nat /\ m \in i + 1..m /\ Len(b) \in 0..Len(b)
      BY EndsAre, LenProperties
<1>2. UnitsUpTo(b, m) = UnitsUpTo(b, i) \o AnnexbPart(b, i)
      BY <1>1, UnitsToNext
<1>3. AnnexbPart(b, i) = Piece(b, i, Len(b))
  <2> DEFINE end == Len(b)
  <2>1. end \in 0..Len(b) /\ m = Len(b) + 1 /\ end = Len(b)
        BY <1>1
  <2> HIDE DEF end, m
  <2>2. AnnexbPart(b, i) = Piece(b, i, end)
        BY <2>1, <1>1, BehindIs
  <2> QED  BY <2>1, <2>2
<1>4. UnitsUpTo(b, m) = CutUnits(b)
  <2>1. parts \in Seq(Seq(Seq(Byte))) /\ Len(parts) = m /\ CutUnits(b) = FlattenSeq(parts)
        BY AnnexbPartsAre
  <2> HIDE DEF parts, m
  <2>2. SubSeq(parts, 1, m) = parts
        BY <2>1, FrontAll
  <2> QED  BY <2>1, <2>2 DEF UnitsUpTo, parts
<1> QED  BY <1>2, <1>3, <1>4

-----------------------------------------------------------------------------
(* The loop that looks for start codes                                     *)

ScanStates == [s : 0..3, from : Nat, out : Seq(Seq(Byte))]

ScanStart == [s |-> 0, from |-> 0, out |-> <<>>]

LEMMA CutIs ==
    ASSUME NEW b \in Seq(Byte), NEW st, st.from \in Nat, st.out \in Seq(Seq(Byte)), NEW to \in Int, to <= Len(b)
    PROVE  /\ Cut(b, st, to) \in Seq(Seq(Byte))
           /\ Cut(b, st, to) = st.out \o Piece(b, st.from, to)
<1> DEFINE x == SubSeq(b, st.from + 1, to)  o == st.out  f == st.from
<1>1. CASE f < to
  <2>1. f \in Nat /\ to \in 0..Len(b)
        BY <1>1, LenProperties
  <2>2. x \in Seq(Byte)
    <3> HIDE DEF x, f
    <3> QED  BY <2>1, PieceIs DEF x, f
  <2>3. Cut(b, st, to) = Append(o, x) /\ Piece(b, f, to) = <<x>>
        BY <1>1 DEF Cut, Piece
  <2> HIDE DEF x, o
  <2>4. o \in Seq(Seq(Byte)) /\ Append(o, x) = o \o <<x>> /\ Append(o, x) \in Seq(Seq(Byte))
        BY <2>2 DEF o
  <2> QED  BY <2>3, <2>4 DEF o
<1>2. CASE ~(f < to)
  <2>1. Cut(b, st, to) = o /\ Piece(b, f, to) = <<>>
        BY <1>2 DEF Cut, Piece
  <2>2. o \in Seq(Seq(Byte)) /\ o \o <<>> = o
        OBVIOUS
  <2> QED  BY <2>1, <2>2
<1> QED  BY <1>1, <1>2

\* What a turn does, by the byte.
Scanned(b, st, i, u) ==
    /\ u \in ScanStates /\ st.s \in 0..3 /\ st.from \in Nat /\ st.out \in Seq(Seq(Byte))
    /\ b[i] = 0 => u.s = (IF st.s < 3 THEN st.s + 1 ELSE 3) /\ u.from = st.from /\ u.out = st.out
    /\ b[i] = 1 /\ st.s >= 2 =>
          u.s = 0 /\ u.from = i /\ u.out = st.out \o Piece(b, st.from, (i - 1) - st.s)
    /\ b[i] # 0 /\ ~(b[i] = 1 /\ st.s >= 2) => u.s = 0 /\ u.from = st.from /\ u.out = st.out

LEMMA ScanIs ==
    ASSUME NEW b \in Seq(Byte), NEW st \in ScanStates, NEW i \in 1..Len(b), NEW u, u = Scan(b, st, i)
    PROVE  Scanned(b, st, i, u)
<1> DEFINE S == Seq(Seq(Byte))  s == st.s  from == st.from  o == st.out  to == (i - 1) - s  c == Cut(b, st, to)
<1>1. s \in 0..3 /\ from \in Nat /\ o \in S /\ Len(b) \in Nat
      BY LenProperties DEF ScanStates
<1>2. to \in Int /\ to <= Len(b)
      BY <1>1
<1>3. c \in S /\ c = o \o Piece(b, from, to)
  <2> HIDE DEF to
  <2> QED  BY <1>1, <1>2, CutIs
<1>i. i \in Nat
      BY <1>1
<1>st. st \in [s : 0..3, from : Nat, out : S]
      BY DEF ScanStates
<1>4. CASE b[i] = 0
  <2>1. u = [st EXCEPT !.s = IF @ < 3 THEN @ + 1 ELSE @]
        BY <1>4 DEF Scan
  <2> DEFINE t == IF s < 3 THEN s + 1 ELSE s
  <2>2. t \in 0..3 /\ t = IF s < 3 THEN s + 1 ELSE 3
        BY <1>1
  <2>3. u = [st EXCEPT !.s = t]
        BY <2>1
  <2> HIDE DEF t, S
  <2>4. u \in [s : 0..3, from : Nat, out : S] /\ u.s = t /\ u.from = from /\ u.out = o
        BY <2>2, <2>3, <1>st
  <2> HIDE DEF s, from, o
  <2> QED  BY <2>2, <2>4, <1>1, <1>4 DEF Scanned, ScanStates, S, s, from, o
<1>5. CASE b[i] = 1 /\ s >= 2
  <2>1. b[i] # 0
        BY <1>5
  <2>2. u = [s |-> 0, from |-> i, out |-> c]
        BY <1>5, <2>1 DEF Scan
  <2>c. c \in S /\ 0 \in 0..3
        BY <1>3
  <2> HIDE DEF c, S
  <2>3. u \in [s : 0..3, from : Nat, out : S] /\ u.s = 0 /\ u.from = i /\ u.out = c
    <3> HIDE DEF s, from, o, to
    <3> QED  BY <2>2, <2>c, <1>i
  <2> HIDE DEF s, from, o
  <2> QED  BY <2>1, <2>3, <1>1, <1>3, <1>5 DEF Scanned, ScanStates, S, s, from, o
<1>6. CASE b[i] # 0 /\ ~(b[i] = 1 /\ s >= 2)
  <2>1. u = [st EXCEPT !.s = 0]
        BY <1>6 DEF Scan
  <2> HIDE DEF S
  <2>2. u \in [s : 0..3, from : Nat, out : S] /\ u.s = 0 /\ u.from = from /\ u.out = o
        BY <2>1, <1>st
  <2> HIDE DEF s, from, o
  <2> QED  BY <2>2, <1>1, <1>6 DEF Scanned, ScanStates, S, s, from, o
<1> QED  BY <1>4, <1>5, <1>6

\* s zeros, up to three, precede what comes behind position i.
Zeros(b, s, i) ==
    /\ s >= 1 => i >= 1 /\ b[i] = 0
    /\ s >= 2 => i >= 2 /\ b[i - 1] = 0
    /\ s >= 3 => i >= 3 /\ b[i - 2] = 0
    /\ s = 0 => i = 0 \/ b[i] # 0
    /\ s = 1 => i = 1 \/ b[i - 1] # 0
    /\ s = 2 => i = 2 \/ b[i - 2] # 0

\* Behind i bytes: the last start code, the units before it, the zeros.
ScanAt(b, st, i) ==
    /\ st.from \in Ends(b) \union {0} /\ st.from <= i /\ NoEnds(b, st.from, i + 1)
    /\ st.out = UnitsUpTo(b, st.from)
    /\ Zeros(b, st.s, i)

LEMMA ScanNext ==
    ASSUME NEW b \in Seq(Byte), NEW st \in ScanStates, NEW i \in Nat, i + 1 \in 1..Len(b), ScanAt(b, st, i)
    PROVE  ScanAt(b, Scan(b, st, i + 1), i + 1)
<1> DEFINE j == i + 1  L == Len(b)  u == Scan(b, st, i + 1)  s == st.s  from == st.from
<1>1. j \in 1..L /\ j \in Nat /\ L \in Nat /\ i = j - 1
      BY LenProperties
<1>2. /\ from \in Ends(b) \union {0} /\ from <= i /\ NoEnds(b, from, j)
      /\ st.out = UnitsUpTo(b, from) /\ Zeros(b, s, i)
      BY DEF ScanAt
<1>u. u = Scan(b, st, j)
      OBVIOUS
<1> HIDE DEF u, j
<1>3. /\ u \in ScanStates /\ s \in 0..3 /\ from \in Nat
      /\ b[j] = 0 => u.s = (IF s < 3 THEN s + 1 ELSE 3) /\ u.from = from /\ u.out = st.out
      /\ b[j] = 1 /\ s >= 2 => u.s = 0 /\ u.from = j /\ u.out = st.out \o Piece(b, from, (j - 1) - s)
      /\ b[j] # 0 /\ ~(b[j] = 1 /\ s >= 2) => u.s = 0 /\ u.from = from /\ u.out = st.out
  <2>1. Scanned(b, st, j, u)
        BY <1>1, <1>u, ScanIs
  <2> QED  BY <2>1 DEF Scanned
<1> HIDE DEF L, s, from
<1>4. ASSUME u.from = from, u.out = st.out, j \notin Ends(b), Zeros(b, u.s, j)
      PROVE  ScanAt(b, u, j)
  <2>1. NoEnds(b, from, j + 1)
    <3>1. \A k \in Ends(b) : k > from => k >= j /\ k # j /\ k \in Nat
          BY <1>2, <1>4, EndsAre DEF NoEnds
    <3>2. \A k \in Nat : k >= j /\ k # j => k >= j + 1
          BY <1>1
    <3> QED  BY <3>1, <3>2 DEF NoEnds
  <2>2. from <= j
        BY <1>1, <1>2, <1>3
  <2> QED  BY <2>1, <2>2, <1>2, <1>4 DEF ScanAt
<1>5. CASE b[j] = 0
  <2>1. Zeros(b, u.s, j)
    <3>1. j - 1 = i /\ j - 2 = i - 1 /\ j >= 1 /\ (j = 1 <=> i = 0) /\ (j = 2 <=> i = 1) /\ (i >= 1 => j >= 2) /\ (i >= 2 => j >= 3)
          BY <1>1
    <3>2. CASE s = 0
      <4>1. u.s = 1
            BY <3>2, <1>3, <1>5
      <4>2. i = 0 \/ b[i] # 0
            BY <3>2, <1>2 DEF Zeros
      <4> QED  BY <3>1, <4>1, <4>2, <1>5 DEF Zeros
    <3>3. CASE s = 1
      <4>1. u.s = 2
            BY <3>3, <1>3, <1>5
      <4>2. i >= 1 /\ b[i] = 0 /\ (i = 1 \/ b[i - 1] # 0)
            BY <3>3, <1>2 DEF Zeros
      <4> QED  BY <3>1, <4>1, <4>2, <1>5 DEF Zeros
    <3>4. CASE s = 2 \/ s = 3
      <4>1. u.s = 3
            BY <3>4, <1>3, <1>5
      <4>2. i >= 1 /\ b[i] = 0 /\ i >= 2 /\ b[i - 1] = 0
            BY <3>4, <1>2 DEF Zeros
      <4> QED  BY <3>1, <4>1, <4>2, <1>5 DEF Zeros
    <3> QED  BY <3>2, <3>3, <3>4, <1>3
  <2>2. j \notin Ends(b)
        BY <1>5, EndsAre
  <2> QED  BY <2>1, <2>2, <1>3, <1>4, <1>5 DEF j, u
<1>6. CASE b[j] = 1 /\ s >= 2
  <2>0. u.s = 0 /\ u.from = j /\ u.out = st.out \o Piece(b, from, (j - 1) - s)
        BY <1>3, <1>6
  <2>1. i >= 1 /\ b[i] = 0 /\ i >= 2 /\ b[i - 1] = 0
        BY <1>2, <1>3, <1>6 DEF Zeros
  <2>2. j \in Ends(b)
    <3>1. j \in 3..Len(b) /\ j - 2 = i - 1 /\ j - 1 = i
          BY <2>1, <1>1 DEF L
    <3> QED  BY <3>1, <2>1, <1>6 DEF Ends
  <2> DEFINE end == (j - 1) - s
  <2>3. end = Before(b, j)
    <3>1. j - 3 = i - 2 /\ (i >= 3 => j > 3) /\ (i = 2 => j = 3)
          BY <1>1
    <3>2. CASE s = 3
      <4>1. i >= 3 /\ b[i - 2] = 0
            BY <3>2, <1>2 DEF Zeros
      <4>2. j > 3 /\ b[j - 3] = 0
            BY <3>1, <4>1
      <4> QED  BY <4>2, <3>2, <1>1 DEF Before
    <3>3. CASE s = 2
      <4>1. i = 2 \/ b[i - 2] # 0
            BY <3>3, <1>2 DEF Zeros
      <4>2. ~(j > 3 /\ b[j - 3] = 0)
            BY <3>1, <4>1
      <4> QED  BY <4>2, <3>3, <1>1 DEF Before
    <3> QED  BY <3>2, <3>3, <1>3, <1>6
  <2>4. end \in 0..Len(b) /\ from < j
    <3>1. Before(b, j) \in 0..j - 3
          BY <2>2, EndsAre
    <3> HIDE DEF end
    <3> QED  BY <3>1, <2>3, <1>1, <1>2, <1>3 DEF L
  <2> HIDE DEF end
  <2>5. AnnexbPart(b, from) = Piece(b, from, end)
        BY <2>2, <2>3, <2>4, <1>1, <1>2, BehindIs
  <2>6. UnitsUpTo(b, j) = UnitsUpTo(b, from) \o AnnexbPart(b, from)
    <3>1. j \in from + 1..Len(b) + 1
          BY <2>4, <1>1, <1>3 DEF L
    <3> QED  BY <3>1, <1>2, UnitsToNext
  <2>7. u.out = UnitsUpTo(b, u.from)
        BY <2>0, <2>5, <2>6, <1>2 DEF end
  <2>8. Zeros(b, u.s, j)
        BY <2>0, <1>6 DEF Zeros
  <2>9. NoEnds(b, j, j + 1)
    <3>1. \A k \in Ends(b) : k \in Nat
          BY EndsAre
    <3>2. \A k \in Nat : k > j => k >= j + 1
          BY <1>1
    <3> QED  BY <3>1, <3>2 DEF NoEnds
  <2>10. ScanAt(b, u, j)
         BY <2>0, <2>2, <2>7, <2>8, <2>9, <1>1 DEF ScanAt
  <2> QED  BY <2>10 DEF j, u
<1>7. CASE b[j] # 0 /\ ~(b[j] = 1 /\ s >= 2)
  <2>1. u.s = 0 /\ u.from = from /\ u.out = st.out
        BY <1>3, <1>7
  <2>2. Zeros(b, u.s, j)
        BY <2>1, <1>7 DEF Zeros
  <2>3. ASSUME j \in Ends(b)
        PROVE  FALSE
    <3>1. j \in 3..Len(b) /\ b[j - 2] = 0 /\ b[j - 1] = 0 /\ b[j] = 1
          BY <2>3, EndsAre
    <3>2. i >= 2 /\ i # 0 /\ i # 1 /\ b[i - 1] = 0 /\ b[i] = 0
      <4>1. j - 2 = i - 1 /\ j - 1 = i /\ i >= 2 /\ i # 0 /\ i # 1
            BY <3>1, <1>1
      <4> QED  BY <3>1, <4>1
    <3>3. s # 0 /\ s # 1
          BY <3>2, <1>2 DEF Zeros
    <3> QED  BY <3>1, <3>3, <1>3, <1>7
  <2> QED  BY <2>1, <2>2, <2>3, <1>4 DEF j, u
<1> QED  BY <1>5, <1>6, <1>7

ScanTurns(g, b) ==
    /\ g \in [0..Len(b) -> ScanStates]
    /\ g[0] = ScanStart
    /\ \A i \in 1..Len(b) : g[i] = Scan(b, g[i - 1], i)

LEMMA ScanTurnsExist ==
    ASSUME NEW b \in Seq(Byte)
    PROVE  \E g : ScanTurns(g, b)
<1> DEFINE n == Len(b)  a == ScanStart
           step == [q \in Nat \X ScanStates |-> IF q[1] \in 1..n THEN Scan(b, q[2], q[1]) ELSE q[2]]
<1>n. n \in Nat
      BY LenProperties
<1>a. a \in ScanStates
  <2>1. <<>> \in Seq(Seq(Byte)) /\ 0 \in 0..3
        OBVIOUS
  <2> QED  BY <2>1 DEF ScanStates, ScanStart
<1>1. step \in [Nat \X ScanStates -> ScanStates]
  <2> SUFFICES ASSUME NEW q \in Nat \X ScanStates
               PROVE  (IF q[1] \in 1..n THEN Scan(b, q[2], q[1]) ELSE q[2]) \in ScanStates
      OBVIOUS
  <2>1. q[2] \in ScanStates
        OBVIOUS
  <2>2. q[1] \in 1..n => Scan(b, q[2], q[1]) \in ScanStates
        BY <2>1, ScanIs DEF Scanned
  <2> QED  BY <2>1, <2>2
<1> HIDE DEF n, a
<1>2. \A i \in 1..n, x \in ScanStates : step[<<i, x>>] = Scan(b, x, i)
  <2> TAKE i \in 1..n, x \in ScanStates
  <2>1. <<i, x>> \in Nat \X ScanStates /\ <<i, x>>[1] = i /\ <<i, x>>[2] = x
        BY <1>n
  <2> QED  BY <2>1
<1> HIDE DEF step
<1>3. PICK g : Turns(g, n, ScanStates, a, step)
      BY <1>1, <1>n, <1>a, LoopExists
<1>4. g \in [0..n -> ScanStates] /\ g[0] = a /\ \A i \in 1..n : g[i] = step[<<i, g[i - 1]>>]
      BY <1>3 DEF Turns
<1>5. \A i \in 1..n : i - 1 \in 0..n
      BY <1>n
<1>6. \A i \in 1..n : g[i] = Scan(b, g[i - 1], i)
      BY <1>2, <1>4, <1>5
<1> QED  BY <1>4, <1>6 DEF ScanTurns, a, n

LEMMA SplitAnnexbEnds ==
    ASSUME NEW b \in Seq(Byte), NEW g, ScanTurns(g, b)
    PROVE  SplitAnnexb(b) = IF g[Len(b)].from > 0 THEN Ok(Cut(b, g[Len(b)], Len(b)), Len(b)) ELSE Err
<1> DEFINE n == Len(b)  a == ScanStart
           Eq(f) == f = [i \in 0..n |-> IF i = 0 THEN a ELSE Scan(b, f[i - 1], i)]
           h == CHOOSE f : Eq(f)
           w == [i \in 0..n |-> g[i]]
<1>1. SplitAnnexb(b) = IF h[n].from > 0 THEN Ok(Cut(b, h[n], n), n) ELSE Err
      BY DEF SplitAnnexb, ScanStart
<1>n. n \in Nat /\ g[0] = a /\ \A i \in 1..n : g[i] = Scan(b, g[i - 1], i)
      BY LenProperties DEF ScanTurns
<1> HIDE DEF n, a
<1>2. Eq(w)
  <2>1. \A i \in 0..n : w[i] = IF i = 0 THEN a ELSE Scan(b, w[i - 1], i)
    <3> TAKE i \in 0..n
    <3>1. CASE i = 0
          BY <3>1, <1>n
    <3>2. CASE i # 0
      <4>1. i - 1 \in 0..n /\ i \in 1..n
            BY <3>2, <1>n
      <4>2. w[i - 1] = g[i - 1] /\ w[i] = g[i]
            BY <4>1
      <4> QED  BY <4>1, <4>2, <3>2, <1>n
    <3> QED  BY <3>1, <3>2
  <2> QED  BY <2>1
<1>3. Eq(h)
  <2> HIDE DEF Eq, w
  <2> QED  BY <1>2
<1> HIDE DEF h
<1>4. h[0] = a /\ \A i \in 1..n : h[i] = Scan(b, h[i - 1], i)
  <2>1. \A i \in 0..n : h[i] = IF i = 0 THEN a ELSE Scan(b, h[i - 1], i)
        BY <1>3
  <2>2. 0 \in 0..n /\ \A i \in 1..n : i \in 0..n /\ i # 0
        BY <1>n
  <2> QED  BY <2>1, <2>2
<1>6. h[n] = g[n]
  <2>1. GoAlike(h, g, n)
        BY <1>4, <1>n DEF GoAlike
  <2>2. Alike(h, g, n)
        BY <2>1, <1>n, SameLoops
  <2> QED  BY <2>2, <1>n DEF Alike
<1> QED  BY <1>1, <1>6 DEF n

\* What comes out, if there is a start code.
LEMMA SplitAnnexbIs ==
    ASSUME NEW b \in Seq(Byte)
    PROVE  /\ Ends(b) # {} => SplitAnnexb(b) = Ok(CutUnits(b), Len(b))
           /\ Ends(b) = {} => SplitAnnexb(b) = Err
<1>1. PICK g : ScanTurns(g, b)
      BY ScanTurnsExist
<1> DEFINE n == Len(b)  P == {i \in Nat : i \in 0..n => ScanAt(b, g[i], i)}
<1>2. /\ n \in Nat /\ g \in [0..n -> ScanStates] /\ g[0] = ScanStart
      /\ \A i \in 1..n : g[i] = Scan(b, g[i - 1], i)
      BY <1>1, LenProperties DEF ScanTurns
<1>3. 0 \in P
  <2> DEFINE st == g[0]  e == <<>>
  <2>1. st.s = 0 /\ st.from = 0 /\ st.out = e
        BY <1>2 DEF ScanStart
  <2>2. UnitsUpTo(b, 0) = e
    <3>1. SubSeq(AnnexbParts(b), 1, 0) = e
          OBVIOUS
    <3> QED  BY <3>1, FlattenEmpty DEF UnitsUpTo
  <2>3. NoEnds(b, 0, 0 + 1)
        BY EndsAre DEF NoEnds
  <2> HIDE DEF e, st
  <2>4. Zeros(b, st.s, 0)
        BY <2>1 DEF Zeros
  <2>5. ScanAt(b, st, 0)
        BY <2>1, <2>2, <2>3, <2>4 DEF ScanAt
  <2> QED  BY <2>5 DEF st
<1>4. ASSUME NEW i \in Nat, i \in P
      PROVE  i + 1 \in P
  <2> SUFFICES ASSUME i + 1 \in 0..n
               PROVE  ScanAt(b, g[i + 1], i + 1)
      OBVIOUS
  <2>1. i \in 0..n /\ i + 1 \in 1..n /\ (i + 1) - 1 = i
        BY <1>2
  <2>2. ScanAt(b, g[i], i) /\ g[i] \in ScanStates /\ g[i + 1] = Scan(b, g[i], i + 1)
        BY <2>1, <1>2, <1>4
  <2> HIDE DEF P
  <2> QED  BY <2>1, <2>2, ScanNext
<1> HIDE DEF P
<1> DEFINE st == g[n]  from == st.from
<1>5. n \in P /\ n \in 0..n
      BY <1>2, <1>3, <1>4, NatSet
<1>6. ScanAt(b, st, n) /\ st \in ScanStates
      BY <1>2, <1>5 DEF P
<1>7. /\ from \in Ends(b) \union {0} /\ NoEnds(b, from, n + 1) /\ st.out = UnitsUpTo(b, from)
      /\ from \in Nat /\ st.out \in Seq(Seq(Byte))
      BY <1>6 DEF ScanAt, ScanStates
<1>8. SplitAnnexb(b) = IF from > 0 THEN Ok(Cut(b, st, n), n) ELSE Err
      BY <1>1, SplitAnnexbEnds
<1>9. Cut(b, st, n) = CutUnits(b) /\ CutUnits(b) = st.out \o Piece(b, from, n)
  <2>1. CutUnits(b) = UnitsUpTo(b, from) \o Piece(b, from, n)
        BY <1>7, UnitsToEnd
  <2>2. n \in Int /\ n <= Len(b)
        BY <1>2
  <2> HIDE DEF st, n
  <2>3. Cut(b, st, n) = st.out \o Piece(b, from, n)
        BY <2>2, <1>7, CutIs
  <2> QED  BY <2>1, <2>3, <1>7
<1>10. CASE Ends(b) # {}
  <2>1. PICK j \in Ends(b) : TRUE
        BY <1>10
  <2>2. j \in Nat /\ j > 0 /\ j <= n
        BY EndsAre
  <2>3. from > 0
    <3> SUFFICES ASSUME ~(from > 0)
                 PROVE  FALSE
        OBVIOUS
    <3>1. from = 0
          BY <1>7
    <3>2. j >= n + 1
          BY <2>2, <3>1, <1>7 DEF NoEnds
    <3> QED  BY <2>2, <3>2, <1>2
  <2> QED  BY <2>3, <1>8, <1>9, <1>10
<1>11. CASE Ends(b) = {}
  <2>1. from = 0
        BY <1>7, <1>11
  <2> QED  BY <2>1, <1>8, <1>11
<1> QED  BY <1>10, <1>11

-----------------------------------------------------------------------------
(* Units without the zeros between them                                    *)

\* What Trim may leave of a unit.
Trims == {SubSeq(u, 1, Max({k \in 1..Len(u) : u[k] # 0})) : u \in Seq(Byte)}

TrimFun == [u \in Seq(Byte) |-> Trim(u)]

LEMMA TrimOK == TrimFun \in [Seq(Byte) -> Seq(Trims)]
<1> SUFFICES ASSUME NEW u \in Seq(Byte)
             PROVE  Trim(u) \in Seq(Trims)
    BY DEF TrimFun
<1> DEFINE nonzero == {k \in 1..Len(u) : u[k] # 0}  x == SubSeq(u, 1, Max(nonzero))
<1>1. Trim(u) = IF nonzero = {} THEN <<>> ELSE <<x>>
      BY DEF Trim
<1>2. x \in Trims
      BY DEF Trims
<1> HIDE DEF x, nonzero
<1>3. <<>> \in Seq(Trims) /\ <<x>> \in Seq(Trims)
      BY <1>2
<1> QED  BY <1>1, <1>3

LEMMA TrimEmpty == Trim(<<>>) = <<>>
BY DEF Trim

\* The last of some positions.
LEMMA LastOf ==
    ASSUME NEW n \in Nat, NEW T \in SUBSET (1..n), T # {}
    PROVE  Max(T) \in T
<1> DEFINE R == {n - k : k \in T}
<1>0. \A k \in T : n - k \in Nat
      OBVIOUS
<1>1. R \in SUBSET Nat /\ R # {}
      BY <1>0
<1>2. PICK x \in R : \A y \in R : x <= y
      BY <1>1, LeastNat
<1>3. PICK k \in T : x = n - k
      BY <1>2
<1>4. \A j \in T : k >= j
  <2> TAKE j \in T
  <2>1. n - j \in R
        OBVIOUS
  <2>2. n - k <= n - j
        BY <2>1, <1>2, <1>3
  <2> QED  BY <2>2
<1>5. \E m \in T : \A j \in T : m >= j
      BY <1>4
<1> QED  BY <1>5 DEF Max

\* A zero more makes no difference.
LEMMA TrimZero ==
    ASSUME NEW u \in Seq(Byte)
    PROVE  Trim(Append(u, 0)) = Trim(u)
<1> DEFINE n == Len(u)  w == Append(u, 0)  nonzero == {k \in 1..Len(u) : u[k] # 0}  more == {k \in 1..Len(w) : w[k] # 0}
           m == Max(nonzero)
<1>1. n \in Nat /\ 0 \in Byte
      BY FramingAssumption, LenProperties DEF Byte
<1>2. w \in Seq(Byte) /\ Len(w) = n + 1 /\ (\A i \in 1..n : w[i] = u[i]) /\ w[n + 1] = 0
      BY <1>1, AppendProperties
<1> HIDE DEF w
<1>3. more = nonzero
      BY <1>1, <1>2
<1>4. Trim(w) = IF nonzero = {} THEN <<>> ELSE <<SubSeq(w, 1, m)>>
      BY <1>3 DEF Trim
<1>5. Trim(u) = IF nonzero = {} THEN <<>> ELSE <<SubSeq(u, 1, m)>>
      BY DEF Trim
<1>6. CASE nonzero # {}
  <2>1. m \in 1..n
    <3>1. nonzero \in SUBSET (1..n)
          OBVIOUS
    <3> HIDE DEF nonzero
    <3>2. m \in nonzero
          BY <3>1, <1>1, <1>6, LastOf
    <3> QED  BY <3>1, <3>2
  <2> DEFINE a == SubSeq(w, 1, m)  c == SubSeq(u, 1, m)
  <2>2. a \in Seq(Byte) /\ Len(a) = m /\ c \in Seq(Byte) /\ Len(c) = m
    <3>1. m \in 0..Len(u) /\ m \in 0..Len(w)
          BY <2>1, <1>1, <1>2
    <3> HIDE DEF m
    <3> QED  BY <3>1, <1>2, FrontIs
  <2>3. \A i \in 1..m : a[i] = c[i]
    <3> HIDE DEF m
    <3>1. \A i \in 1..m : a[i] = w[i] /\ c[i] = u[i] /\ i \in 1..n
          BY <2>1, <1>1, <1>2
    <3> QED  BY <3>1, <1>2
  <2> HIDE DEF a, c, m
  <2>4. a = c
        BY <2>2, <2>3, SeqEqual
  <2>5. Trim(w) = <<a>> /\ Trim(u) = <<c>>
    <3> HIDE DEF nonzero
    <3> QED  BY <1>4, <1>5, <1>6 DEF a, c
  <2>6. Trim(w) = Trim(u)
        BY <2>4, <2>5
  <2> QED  BY <2>6 DEF w
<1>7. CASE nonzero = {}
      BY <1>4, <1>5, <1>7 DEF w
<1> QED  BY <1>6, <1>7

\* Where splitAnnexb cuts, it leaves zeros at most of what Annex B gives to no unit.
LEMMA CutTrimmed ==
    ASSUME NEW b \in Seq(Byte), NEW i \in Ends(b) \union {0}
    PROVE  /\ CutBehind(b, i) \in Seq(Byte)
           /\ Trim(CutBehind(b, i)) = Trim(Behind(b, i))
<1> DEFINE later == {j \in Ends(b) : j > i}  to == Min(later)
<1>1. i \in 0..Len(b) /\ i \in Nat /\ Len(b) \in Nat
      BY EndsAre, LenProperties
<1>2. CutBehind(b, i) = SubSeq(b, i + 1, IF later = {} THEN Len(b) ELSE Before(b, to))
      BY DEF CutBehind
<1>3. Behind(b, i) = SubSeq(b, i + 1, IF later = {} THEN Len(b) ELSE to - 3)
      BY DEF Behind
<1>4. CASE later = {}
  <2>1. CutBehind(b, i) = Behind(b, i) /\ CutBehind(b, i) = SubSeq(b, i + 1, Len(b))
        BY <1>2, <1>3, <1>4
  <2>2. SubSeq(b, i + 1, Len(b)) \in Seq(Byte)
    <3>1. Len(b) \in 0..Len(b)
          BY <1>1
    <3> QED  BY <3>1, <1>1, PieceIs
  <2> QED  BY <2>1, <2>2
<1>5. CASE later # {}
  <2>1. to \in Ends(b) /\ to \in Nat /\ to >= 3 /\ to <= Len(b)
    <3>1. later \in SUBSET Nat /\ later \subseteq Ends(b)
          BY EndsAre
    <3> HIDE DEF later
    <3>2. \E x \in later : \A y \in later : x <= y
          BY <3>1, <1>5, LeastNat
    <3>3. to \in later
          BY <3>2 DEF Min
    <3>4. to \in Ends(b)
          BY <3>1, <3>3
    <3>5. to \in 3..Len(b) /\ to \in Nat
          BY <3>4, EndsAre
    <3> HIDE DEF to
    <3> QED  BY <3>4, <3>5, <1>1
  <2> DEFINE end == Before(b, to)  x == SubSeq(b, i + 1, end)  h == to - 3  y == SubSeq(b, i + 1, h)
  <2>2. CutBehind(b, i) = x /\ Behind(b, i) = y
        BY <1>2, <1>3, <1>5
  <2> HIDE DEF to, later
  <2>3. h \in Nat /\ h \in 0..Len(b)
        BY <2>1, <1>1
  <2>4. end = h \/ (end = h - 1 /\ h > 0 /\ b[h] = 0)
    <3>1. to - 4 = h - 1 /\ (to > 3 => h > 0)
          BY <2>1
    <3> QED  BY <3>1 DEF Before
  <2> HIDE DEF h
  <2>5. end \in 0..Len(b)
    <3> HIDE DEF end
    <3> QED  BY <2>3, <2>4, <1>1
  <2> HIDE DEF end
  <2>6. x \in Seq(Byte)
        BY <2>5, <1>1, PieceIs
  <2>7. Trim(x) = Trim(y)
    <3>1. CASE end = h
          BY <3>1
    <3>2. CASE end # h /\ i < h
      <4>1. h - 1 = end /\ b[h] = 0 /\ i <= end /\ end + 1 = h
            BY <3>2, <2>3, <2>4, <1>1
      <4> DEFINE n == end - i
      <4>2. n \in Nat /\ n \in 0..Len(b) - i /\ n + 1 \in 0..Len(b) - i /\ i + n = end /\ i + (n + 1) = h
            BY <4>1, <2>3, <2>5, <1>1
      <4> HIDE DEF n
      <4>3. /\ Len(x) = n /\ \A k \in 1..n : x[k] = b[i + k]
            BY <4>2, <1>1, SliceIs
      <4> DEFINE m == n + 1
      <4>m. m \in 0..Len(b) - i /\ i + m = h /\ m = n + 1
            BY <4>2
      <4> HIDE DEF m
      <4>4. /\ y \in Seq(Byte) /\ Len(y) = m /\ \A k \in 1..m : y[k] = b[i + k]
            BY <4>m, <1>1, SliceIs
      <4>5. m \in 1..m /\ (\A k \in 1..n : k \in 1..m)
            BY <4>m, <4>2
      <4> HIDE DEF x, y
      <4>6. /\ \A k \in 1..Len(x) : y[k] = x[k]
            /\ Len(y) = Len(x) + 1 /\ y[Len(x) + 1] = 0
        <5>1. y[m] = b[h]
              BY <4>4, <4>5, <4>m
        <5> QED  BY <5>1, <4>1, <4>3, <4>4, <4>5, <4>m
      <4>7. 0 \in Byte
            BY FramingAssumption DEF Byte
      <4>8. y = Append(x, 0)
            BY <4>4, <4>6, <4>7, <2>6, AppendIs
      <4> QED  BY <4>8, <2>6, TrimZero
    <3>3. CASE end # h /\ ~(i < h)
      <4>1. i + 1 > h /\ i + 1 > end /\ end \in Int /\ h \in Int /\ i + 1 \in Int
            BY <3>3, <2>3, <2>4, <2>5, <1>1
      <4> HIDE DEF x, y
      <4>2. x = <<>> /\ y = <<>>
            BY <4>1 DEF x, y
      <4> QED  BY <4>2
    <3> QED  BY <3>1, <3>2, <3>3
  <2> QED  BY <2>2, <2>6, <2>7
<1> QED  BY <1>4, <1>5

\* A unit more, if it is one.
LEMMA TrimmedNext ==
    ASSUME NEW ns \in Seq(Seq(Byte)), NEW u \in Seq(Byte), NEW p, p = IF u # <<>> THEN <<u>> ELSE <<>>
    PROVE  /\ Trimmed(ns) \in Seq(Trims) /\ Trim(u) \in Seq(Trims)
           /\ Trimmed(ns \o p) = Trimmed(ns) \o Trim(u)
<1> DEFINE D == Seq(Byte)  S == Seq(Trims)  F == TrimFun
<1>1. F \in [D -> S] /\ F[u] = Trim(u) /\ Trim(u) \in S
      BY TrimOK DEF TrimFun
<1>2. \A v \in Seq(D) : Trimmed(v) = Joined(F, v)
  <2> TAKE v \in Seq(D)
  <2>1. \A i \in 1..Len(v) : Trim(v[i]) = F[v[i]]
        BY ElementOfSeq DEF TrimFun
  <2> QED  BY <2>1 DEF Trimmed, Joined
<1> HIDE DEF F
<1>3. Joined(F, Append(ns, u)) = Joined(F, ns) \o F[u] /\ Joined(F, ns) \in S
      BY <1>1, FlattenMap
<1> HIDE DEF D, S
<1>4. Append(ns, u) \in Seq(D) /\ ns \in Seq(D) /\ ns \o <<u>> = Append(ns, u)
      BY DEF D
<1>5. CASE u # <<>>
      BY <1>1, <1>2, <1>3, <1>4, <1>5 DEF S
<1>6. CASE u = <<>>
  <2>1. ns \o p = ns
        BY <1>6
  <2>2. Trim(u) = <<>>
        BY <1>6, TrimEmpty
  <2>3. Trimmed(ns) \in S
        BY <1>2, <1>3, <1>4
  <2>4. \A t \in Seq(Trims) : t \o <<>> = t
        OBVIOUS
  <2> QED  BY <2>1, <2>2, <2>3, <2>4, <1>1 DEF S
<1> QED  BY <1>5, <1>6

\* The unit behind position i, if a start code ends there.
TrimPart(b, i) == IF i \in Ends(b) THEN Trim(Behind(b, i)) ELSE <<>>
TrimParts(b) == [i \in 1..Len(b) |-> TrimPart(b, i)]

\* Without their zeros the units that splitAnnexb makes are those of Annex B.
LEMMA CutUnitsTrimmed ==
    ASSUME NEW b \in Seq(Byte)
    PROVE  Trimmed(CutUnits(b)) = Trim(Behind(b, 0)) \o AnnexbUnits(b)
<1> DEFINE S == Seq(Trims)  L == Len(b)  cuts == AnnexbParts(b)  parts == TrimParts(b)  first == Trim(Behind(b, 0))
           C(i) == FlattenSeq(SubSeq(cuts, 1, i))  U(i) == FlattenSeq(SubSeq(parts, 1, i))
           P == {i \in Nat : i <= L => Trimmed(C(i + 1)) = first \o U(i)}
<1>1. L \in Nat /\ <<>> \in S
      BY LenProperties
<1>2. /\ cuts \in Seq(Seq(Seq(Byte))) /\ Len(cuts) = L + 1
      /\ \A i \in 0..L : cuts[i + 1] = AnnexbPart(b, i)
      /\ CutUnits(b) = FlattenSeq(cuts)
      BY AnnexbPartsAre
<1>3. \A i \in Ends(b) \union {0}, ns \in Seq(Seq(Byte)) :
         Trim(Behind(b, i)) \in S /\ Trimmed(ns \o AnnexbPart(b, i)) = Trimmed(ns) \o Trim(Behind(b, i)) /\ Trimmed(ns) \in S
  <2> TAKE i \in Ends(b) \union {0}, ns \in Seq(Seq(Byte))
  <2> DEFINE u == CutBehind(b, i)  p == AnnexbPart(b, i)
  <2>1. u \in Seq(Byte) /\ Trim(u) = Trim(Behind(b, i))
        BY CutTrimmed
  <2>2. p = IF u # <<>> THEN <<u>> ELSE <<>>
        BY DEF AnnexbPart
  <2> HIDE DEF u, p
  <2>3. Trimmed(ns) \in S /\ Trim(u) \in S /\ Trimmed(ns \o p) = Trimmed(ns) \o Trim(u)
        BY <2>1, <2>2, TrimmedNext
  <2> QED  BY <2>1, <2>3 DEF p
<1>4. parts \in Seq(S) /\ Len(parts) = L /\ \A i \in 1..L : parts[i] = TrimPart(b, i) /\ parts[i] \in S
  <2>1. \A i \in 1..L : TrimPart(b, i) \in S
    <3>1. <<>> \in Seq(Seq(Byte))
          OBVIOUS
    <3> HIDE DEF S
    <3> QED  BY <3>1, <1>1, <1>3 DEF TrimPart
  <2> HIDE DEF S, L
  <2> QED  BY <2>1, <1>1 DEF TrimParts, L
<1>5. AnnexbUnits(b) = FlattenSeq(parts)
      BY DEF AnnexbUnits, TrimParts, TrimPart
<1>6. first \in S
  <2>1. <<>> \in Seq(Seq(Byte)) /\ 0 \in Ends(b) \union {0}
        OBVIOUS
  <2> HIDE DEF S
  <2> QED  BY <2>1, <1>3
<1> HIDE DEF first, cuts, parts, L
<1>c. \A i \in Nat : i <= L + 1 => C(i) \in Seq(Seq(Byte))
  <2> SUFFICES ASSUME NEW i \in Nat, i <= L + 1
               PROVE  C(i) \in Seq(Seq(Byte))
      OBVIOUS
  <2> QED  BY <1>2, FlattenUpTo
<1>u. \A i \in Nat : i <= L => U(i) \in S
  <2> SUFFICES ASSUME NEW i \in Nat, i <= L
               PROVE  U(i) \in S
      OBVIOUS
  <2> QED  BY <1>4, FlattenUpTo
<1>7. C(0) = <<>> /\ U(0) = <<>>
  <2>1. SubSeq(cuts, 1, 0) = <<>> /\ SubSeq(parts, 1, 0) = <<>>
        OBVIOUS
  <2> QED  BY <2>1, FlattenEmpty
<1>e. Trimmed(<<>>) = <<>>
  <2>1. [i \in 1..Len(<<>>) |-> Trim(<<>>[i])] = <<>>
        OBVIOUS
  <2> QED  BY <2>1, FlattenEmpty DEF Trimmed
<1>8. 0 \in P
  <2>1. C(0 + 1) = C(0) \o cuts[0 + 1]
    <3>1. 0 + 1 <= Len(cuts) /\ 0 \in Nat
          BY <1>1, <1>2
    <3> QED  BY <3>1, <1>2, FlattenNext
  <2>2. cuts[0 + 1] = AnnexbPart(b, 0)
        BY <1>1, <1>2
  <2> DEFINE e == C(0)
  <2>e. e = <<>>
        BY <1>7
  <2> HIDE DEF e
  <2>3. e \in Seq(Seq(Byte)) /\ Trimmed(e) = <<>>
        BY <2>e, <1>e
  <2>4. Trimmed(e \o AnnexbPart(b, 0)) = Trimmed(e) \o first
    <3>1. 0 \in Ends(b) \union {0}
          OBVIOUS
    <3> QED  BY <3>1, <2>3, <1>3 DEF first
  <2>5. <<>> \o first = first /\ first \o <<>> = first
        BY <1>6
  <2>6. Trimmed(C(0 + 1)) = first
        BY <2>1, <2>2, <2>3, <2>4, <2>5 DEF e
  <2>7. U(0) = <<>>
        BY <1>7
  <2> QED  BY <2>5, <2>6, <2>7
<1>9. ASSUME NEW i \in Nat, i \in P
      PROVE  i + 1 \in P
  <2> DEFINE j == i + 1
  <2> SUFFICES ASSUME j <= L
               PROVE  Trimmed(C(j + 1)) = first \o U(j)
      OBVIOUS
  <2>1. j \in Nat /\ j \in 1..L /\ j \in 0..L /\ i <= L /\ i + 1 <= L /\ j + 1 <= L + 1 /\ j <= L + 1 /\ j # 0
        BY <1>1
  <2>2. Trimmed(C(j)) = first \o U(i)
        BY <2>1, <1>9
  <2>3. U(j) = U(i) \o parts[j]
        BY <2>1, <1>4, FlattenNext
  <2> HIDE DEF j, P
  <2>4. C(j + 1) = C(j) \o AnnexbPart(b, j)
    <3>1. C(j + 1) = C(j) \o cuts[j + 1]
          BY <2>1, <1>2, FlattenNext
    <3>2. cuts[j + 1] = AnnexbPart(b, j)
          BY <2>1, <1>2
    <3> QED  BY <3>1, <3>2
  <2>5. C(j) \in Seq(Seq(Byte)) /\ U(i) \in S /\ parts[j] = TrimPart(b, j) /\ parts[j] \in S
        BY <2>1, <1>c, <1>u, <1>4
  <2> DEFINE c == C(j)  u == U(i)  p == parts[j]
  <2> HIDE DEF c, u, p
  <2>6. Trimmed(c \o AnnexbPart(b, j)) = Trimmed(c) \o p
    <3>1. CASE j \in Ends(b)
      <4>1. p = Trim(Behind(b, j))
            BY <3>1, <2>5 DEF TrimPart, p
      <4> QED  BY <4>1, <3>1, <2>5, <1>3 DEF c
    <3>2. CASE j \notin Ends(b)
      <4>1. p = <<>> /\ AnnexbPart(b, j) = <<>>
            BY <3>2, <2>1, <2>5 DEF TrimPart, AnnexbPart, p
      <4>2. c \in Seq(Seq(Byte)) /\ c \o <<>> = c
            BY <2>5 DEF c
      <4>3. Trimmed(c) \in S
        <5>1. 0 \in Ends(b) \union {0}
              OBVIOUS
        <5> QED  BY <5>1, <4>2, <1>3
      <4> HIDE DEF S
      <4>4. \A t \in Seq(Trims) : t \o <<>> = t
            OBVIOUS
      <4> QED  BY <4>1, <4>2, <4>3, <4>4 DEF S
    <3> QED  BY <3>1, <3>2
  <2>7. (first \o u) \o p = first \o (u \o p)
    <3>1. u \in Seq(Trims) /\ p \in Seq(Trims) /\ first \in Seq(Trims)
          BY <2>5, <1>6 DEF u, p
    <3> HIDE DEF first
    <3> QED  BY <3>1, ConcatAssociative
  <2> QED  BY <2>2, <2>3, <2>4, <2>6, <2>7 DEF c, u, p
<1> HIDE DEF P
<1>10. L \in P
       BY <1>1, <1>8, <1>9, NatSet
<1>11. C(L + 1) = CutUnits(b) /\ U(L) = AnnexbUnits(b)
  <2>1. SubSeq(cuts, 1, Len(cuts)) = cuts /\ SubSeq(parts, 1, Len(parts)) = parts
        BY <1>2, <1>4, FrontAll
  <2> QED  BY <2>1, <1>2, <1>4, <1>5
<1>12. Trimmed(C(L + 1)) = first \o U(L)
       BY <1>1, <1>10 DEF P
<1> QED  BY <1>11, <1>12 DEF first

-----------------------------------------------------------------------------
(* Byte streams                                                            *)

\* Unit k is behind at[k - 1] bytes and a start code of c, and at[k] bytes end with it.
StreamAt(b, ns, at, c) ==
    /\ c \in {3, 4} /\ at \in [0..Len(ns) -> Nat] /\ at[0] = 0 /\ at[Len(ns)] = Len(b)
    /\ \A k \in 1..Len(ns) :
          /\ at[k] = (at[k - 1] + c) + Len(ns[k]) /\ at[k] <= Len(b)
          /\ (\A i \in 1..c - 1 : b[at[k - 1] + i] = 0) /\ b[at[k - 1] + c] = 1
          /\ Placed(b, at[k - 1] + c, ns[k])

ProperUnits(ns) == \A k \in 1..Len(ns) : ProperUnit(ns[k])

LEMMA ProperUnitIs ==
    ASSUME NEW u \in Seq(Byte), ProperUnit(u)
    PROVE  /\ Len(u) \in Nat /\ Len(u) >= 1 /\ u[Len(u)] # 0
           /\ \A i \in 1..Len(u) - 2 : u[i] = 0 /\ u[i + 1] = 0 => u[i + 2] > 2
<1>1. Len(u) \in Nat /\ Len(u) # 0
      BY LenProperties, EmptySeq DEF ProperUnit
<1>2. u[Len(u)] # 0 /\ \A i \in 1..Len(u) - 2 : u[i] = 0 /\ u[i + 1] = 0 => u[i + 2] > 2
      BY DEF ProperUnit, Last
<1> QED  BY <1>1, <1>2

\* A unit and its start code have one end of a start code.
LEMMA StreamEnd ==
    ASSUME NEW b \in Seq(Byte), NEW ns \in Seq(Seq(Byte)), NEW at, NEW c, StreamAt(b, ns, at, c), ProperUnits(ns),
           NEW k \in 1..Len(ns)
    PROVE  /\ at[k - 1] + c \in Ends(b)
           /\ \A j \in Ends(b) : at[k - 1] < j /\ j <= at[k] => j = at[k - 1] + c
<1> DEFINE o == at[k - 1]  u == ns[k]  l == Len(u)  e == o + c
<1>1. o \in Nat /\ c \in {3, 4} /\ Len(b) \in Nat /\ u \in Seq(Byte)
  <2>1. k - 1 \in 0..Len(ns)
        BY LenProperties
  <2> QED  BY <2>1, LenProperties, ElementOfSeq DEF StreamAt
<1>2. /\ at[k] = e + l /\ at[k] <= Len(b)
      /\ (\A i \in 1..c - 1 : b[o + i] = 0) /\ b[e] = 1
      /\ Placed(b, e, u)
      BY DEF StreamAt
<1>3. /\ l \in Nat /\ l >= 1
      /\ \A i \in 1..l - 2 : u[i] = 0 /\ u[i + 1] = 0 => u[i + 2] > 2
      BY <1>1, ProperUnitIs DEF ProperUnits
<1>4. \A i \in 1..l : b[e + i] = u[i]
      BY <1>2 DEF Placed
<1> HIDE DEF o, l
<1>5. e \in Ends(b)
  <2>1. e - 2 = o + (c - 2) /\ e - 1 = o + (c - 1) /\ c - 2 \in 1..c - 1 /\ c - 1 \in 1..c - 1 /\ e \in 3..Len(b)
        BY <1>1, <1>2, <1>3
  <2>2. b[e - 2] = 0 /\ b[e - 1] = 0
        BY <2>1, <1>2
  <2> QED  BY <2>1, <2>2, <1>2 DEF Ends
<1>6. ASSUME NEW j \in Ends(b), o < j, j <= at[k]
      PROVE  j = e
  <2>1. j \in Nat /\ b[j - 2] = 0 /\ b[j - 1] = 0 /\ b[j] = 1
        BY EndsAre
  <2>2. CASE j < e
    <3>1. j - o \in 1..c - 1 /\ o + (j - o) = j
          BY <2>1, <2>2, <1>1, <1>6
    <3>2. b[j] = 0
          BY <3>1, <1>2
    <3> QED  BY <3>2, <2>1
  <2>3. CASE e < j
    <3> DEFINE m == j - e
    <3>0. e \in Nat /\ j <= e + l
          BY <1>1, <1>2, <1>6
    <3>1. m \in 1..l /\ e + m = j /\ e \in Nat /\ m \in Nat
      <4> HIDE DEF e
      <4> QED  BY <3>0, <2>1, <2>3, <1>3
    <3> HIDE DEF m, e
    <3>2. u[m] = 1
          BY <3>1, <1>4, <2>1
    <3>3. CASE m = 1
      <4>1. j - 1 = e
            BY <3>1, <3>3
      <4> QED  BY <4>1, <2>1, <1>2
    <3>4. CASE m = 2
      <4>1. j - 2 = e
            BY <3>1, <3>4
      <4> QED  BY <4>1, <2>1, <1>2
    <3>5. CASE m >= 3
      <4>1. m - 2 \in 1..l - 2 /\ (m - 2) + 1 = m - 1 /\ (m - 2) + 2 = m /\ m - 2 \in 1..l /\ m - 1 \in 1..l
            /\ e + (m - 2) = j - 2 /\ e + (m - 1) = j - 1
            BY <3>1, <3>5, <1>3
      <4>2. u[m - 2] = 0 /\ u[m - 1] = 0
            BY <4>1, <1>4, <2>1
      <4>3. u[m] > 2
            BY <4>1, <4>2, <1>3
      <4> QED  BY <4>3, <3>2
    <3> QED  BY <3>1, <3>3, <3>4, <3>5
  <2> QED  BY <2>1, <2>2, <2>3, <1>1
<1> QED  BY <1>5, <1>6 DEF o

\* The units end where the zeros of the start codes begin.
LEMMA StreamBefore ==
    ASSUME NEW b \in Seq(Byte), NEW ns \in Seq(Seq(Byte)), NEW at, NEW c, StreamAt(b, ns, at, c), ProperUnits(ns),
           NEW k \in 1..Len(ns)
    PROVE  Before(b, at[k - 1] + c) = at[k - 1]
<1> DEFINE o == at[k - 1]  e == o + c
<1>0. k - 1 \in 0..Len(ns) /\ Len(ns) \in Nat
      BY LenProperties
<1>1. o \in Nat /\ c \in {3, 4} /\ \A i \in 1..c - 1 : b[o + i] = 0
      BY <1>0 DEF StreamAt
<1>2. CASE c = 4
  <2>0. o \in Nat /\ e = o + 4 /\ c - 1 = 3
        BY <1>1, <1>2
  <2>1. e > 3 /\ e - 3 = o + 1 /\ 1 \in 1..c - 1 /\ e - 4 = o
    <3> HIDE DEF o, e
    <3> QED  BY <2>0
  <2>2. b[e - 3] = 0
        BY <2>1, <1>1
  <2> HIDE DEF e, o
  <2>3. Before(b, e) = o
        BY <2>1, <2>2 DEF Before
  <2> QED  BY <2>3 DEF e, o
<1>3. CASE c = 3
  <2>1. e - 3 = o
        BY <1>1, <1>3
  <2>2. o = 0 \/ b[o] # 0
    <3>1. CASE k = 1
          BY <3>1 DEF StreamAt
    <3>2. CASE k # 1
      <4> DEFINE h == k - 1  u == ns[h]  d == at[h - 1] + c
      <4>1. h \in 1..Len(ns) /\ h - 1 \in 0..Len(ns)
            BY <3>2, <1>0
      <4>2. u \in Seq(Byte) /\ ProperUnit(u)
            BY <4>1, ElementOfSeq DEF ProperUnits
      <4>3. Len(u) \in Nat /\ Len(u) >= 1 /\ u[Len(u)] # 0
        <5> HIDE DEF u
        <5> QED  BY <4>2, ProperUnitIs
      <4>4. at[h] = d + Len(u) /\ Placed(b, d, u)
        <5> HIDE DEF h
        <5> QED  BY <4>1 DEF StreamAt
      <4> HIDE DEF d, u
      <4>5. b[d + Len(u)] = u[Len(u)]
            BY <4>3, <4>4 DEF Placed
      <4> QED  BY <4>3, <4>4, <4>5
    <3> QED  BY <3>1, <3>2
  <2>3. e > 3 => o # 0
        BY <1>1, <1>3
  <2> HIDE DEF e, o
  <2>4. ~(e > 3 /\ b[e - 3] = 0)
        BY <2>1, <2>2, <2>3
  <2>5. Before(b, e) = o
        BY SMTT(40), <2>1, <2>4 DEF Before
  <2> QED  BY <2>5 DEF e, o
<1> QED  BY <1>1, <1>2, <1>3

\* The units between the start codes are those that were joined.
LEMMA StreamUnits ==
    ASSUME NEW b \in Seq(Byte), NEW ns \in Seq(Seq(Byte)), ns # <<>>,
           NEW at, NEW c, StreamAt(b, ns, at, c), ProperUnits(ns)
    PROVE  CutUnits(b) = ns /\ Ends(b) # {}
<1> DEFINE n == Len(ns)  E(k) == at[k - 1] + c  S == Seq(Byte)
<1>1. n \in Nat /\ n >= 1 /\ Len(b) \in Nat
  <2>1. n \in Nat /\ n # 0 /\ Len(b) \in Nat
        BY LenProperties, EmptySeq
  <2> QED  BY <2>1
<1>2. c \in {3, 4} /\ at[0] = 0 /\ at[n] = Len(b) /\ \A k \in 0..n : at[k] \in Nat
      BY DEF StreamAt
<1>3. \A k \in 1..n : /\ E(k) \in Ends(b) /\ E(k) \in Nat /\ at[k - 1] < E(k) /\ E(k) < at[k]
                      /\ at[k] <= Len(b) /\ at[k] \in Nat /\ at[k - 1] \in Nat
                      /\ \A j \in Ends(b) : at[k - 1] < j /\ j <= at[k] => j = E(k)
  <2> TAKE k \in 1..n
  <2>1. E(k) \in Ends(b) /\ \A j \in Ends(b) : at[k - 1] < j /\ j <= at[k] => j = E(k)
        BY StreamEnd
  <2>2. at[k - 1] \in Nat /\ at[k] \in Nat
    <3>1. k - 1 \in 0..n /\ k \in 0..n
          BY <1>1
    <3> QED  BY <3>1, <1>2
  <2>3. ns[k] \in S /\ ProperUnit(ns[k])
        BY ElementOfSeq DEF ProperUnits
  <2>4. Len(ns[k]) \in Nat /\ Len(ns[k]) >= 1
        BY <2>3, ProperUnitIs
  <2>5. at[k] = E(k) + Len(ns[k]) /\ at[k] <= Len(b)
        BY DEF StreamAt
  <2> DEFINE e == E(k)  l == Len(ns[k])  o == at[k - 1]
  <2>6. e \in Nat /\ o < e /\ e < at[k]
    <3>1. e = o + c
          OBVIOUS
    <3> HIDE DEF e, l, o
    <3> QED  BY SMTT(30), <3>1, <2>2, <2>4, <2>5, <1>2 DEF l, o, e
  <2> QED  BY <2>1, <2>2, <2>5, <2>6
<1>4. \A k \in 1..n : Piece(b, E(k), at[k]) = <<ns[k]>>
  <2> TAKE k \in 1..n
  <2> DEFINE u == ns[k]  e == E(k)
  <2>1. u \in S
        BY ElementOfSeq
  <2>2. Placed(b, e, u) /\ at[k] = e + Len(u)
        BY DEF StreamAt
  <2>3. e \in Nat /\ e < at[k]
        BY <1>3
  <2> HIDE DEF e, u
  <2>4. SubSeq(b, e + 1, e + Len(u)) = u
        BY <2>1, <2>2, <2>3, PlacedSlice
  <2>5. Piece(b, e, at[k]) = <<u>>
        BY <2>2, <2>3, <2>4 DEF Piece
  <2> QED  BY <2>5 DEF e, u
<1>5. \A k \in 1..n : Before(b, E(k)) = at[k - 1]
      BY StreamBefore
<1> HIDE DEF E
\* From one start code, or the beginning, to the next.
<1>6. ASSUME NEW i \in Ends(b) \union {0}, NEW k \in 1..n, NoEnds(b, i, E(k)), i < E(k)
      PROVE  UnitsUpTo(b, E(k)) = UnitsUpTo(b, i) \o Piece(b, i, at[k - 1])
  <2> DEFINE to == E(k)  end == at[k - 1]
  <2>1. to \in Ends(b) /\ to \in Nat /\ end = Before(b, to) /\ end \in Nat /\ end < to /\ to <= Len(b)
    <3>1. to \in Ends(b) /\ to \in Nat /\ end < to /\ to < at[k] /\ at[k] <= Len(b) /\ at[k] \in Nat /\ end \in Nat
          BY <1>3
    <3>2. end = Before(b, to)
          BY <1>5
    <3> HIDE DEF to, end
    <3> QED  BY <3>1, <3>2, <1>1
  <2>2. i \in Nat
        BY EndsAre
  <2>3. end \in 0..Len(b) /\ to \in i + 1..Len(b) + 1
        BY <2>1, <2>2, <1>1, <1>6
  <2> HIDE DEF end
  <2>4. AnnexbPart(b, i) = Piece(b, i, end)
    <3> HIDE DEF to
    <3> QED  BY <2>1, <2>3, <1>6, BehindIs DEF to
  <2>5. UnitsUpTo(b, to) = UnitsUpTo(b, i) \o AnnexbPart(b, i)
    <3> HIDE DEF to
    <3> QED  BY <2>3, <1>6, UnitsToNext DEF to
  <2> QED  BY <2>4, <2>5 DEF end
<1> DEFINE P == {k \in Nat : k + 1 \in 1..n => UnitsUpTo(b, E(k + 1)) = SubSeq(ns, 1, k)}
<1>7. 0 \in P
  <2> DEFINE e == <<>>
  <2>1. 0 + 1 \in 1..n /\ (0 + 1) - 1 = 0 /\ 0 + 1 = 1 /\ 1 \in 1..n /\ 1 - 1 = 0
        BY <1>1
  <2>2. NoEnds(b, 0, E(1)) /\ 0 < E(1)
    <3> DEFINE one == 1
    <3>o. one \in 1..n /\ one - 1 = 0
          BY <2>1
    <3> HIDE DEF one
    <3>0. /\ E(one) \in Nat /\ E(one) < at[one] /\ at[one] \in Nat
          /\ \A j \in Ends(b) : 0 < j /\ j <= at[one] => j = E(one)
          BY <3>o, <1>2, <1>3
    <3>1. ASSUME NEW j \in Ends(b), j > 0
          PROVE  j >= E(1)
      <4>1. j \in Nat /\ 0 < j
            BY <3>1, EndsAre
      <4>2. CASE j <= at[one]
        <5>1. j = E(one)
              BY <4>1, <4>2, <3>0
        <5> QED  BY <5>1, <4>1 DEF one
      <4>3. CASE ~(j <= at[one])
        <5>1. j >= E(one)
              BY <4>1, <4>3, <3>0
        <5> QED  BY <5>1 DEF one
      <4> QED  BY <4>2, <4>3
    <3>2. 0 < E(1)
          BY <2>1, <1>2, <1>3
    <3> QED  BY <3>1, <3>2 DEF NoEnds
  <2>3. UnitsUpTo(b, E(1)) = UnitsUpTo(b, 0) \o Piece(b, 0, 0)
        BY <2>1, <2>2, <1>2, <1>6
  <2>4. UnitsUpTo(b, 0) = e
    <3>1. SubSeq(AnnexbParts(b), 1, 0) = e
          OBVIOUS
    <3> QED  BY <3>1, FlattenEmpty DEF UnitsUpTo
  <2>5. Piece(b, 0, 0) = e /\ e \o e = e
    <3>1. Piece(b, 0, 0) = <<>>
          BY DEF Piece
    <3> QED  BY <3>1
  <2>6. SubSeq(ns, 1, 0) = e
        OBVIOUS
  <2> HIDE DEF e
  <2>7. UnitsUpTo(b, E(0 + 1)) = SubSeq(ns, 1, 0)
        BY SMTT(40), <2>1, <2>3, <2>4, <2>5, <2>6
  <2> QED  BY <2>7
<1>8. ASSUME NEW k \in 0..n, k >= 1
      PROVE  /\ SubSeq(ns, 1, k) = SubSeq(ns, 1, k - 1) \o <<ns[k]>>
             /\ k = n => SubSeq(ns, 1, k) = ns
  <2> DEFINE j == k - 1
  <2>1. j \in 0..n /\ 1 \in 0..n - j /\ j + 1 = k /\ k \in 1..n /\ ns \in Seq(S)
        BY <1>1, <1>8
  <2> DEFINE one == 1
  <2>2. SubSeq(ns, 1, j) \o SubSeq(ns, j + 1, j + one) = SubSeq(ns, 1, j + one)
    <3> HIDE DEF j, S, n
    <3>1. j \in 0..Len(ns) /\ one \in 0..Len(ns) - j
          BY <2>1 DEF n
    <3> HIDE DEF one
    <3> QED  BY <3>1, <2>1, SliceJoin
  <2>3. SubSeq(ns, k, k) = <<ns[k]>>
    <3> DEFINE x == ns[k]  y == <<x>>
    <3>1. x \in S
          BY <2>1, ElementOfSeq
    <3> HIDE DEF x, S
    <3>2. y \in Seq(S) /\ Len(y) = 1 /\ y[1] = x
          BY <3>1
    <3> HIDE DEF y, j
    <3>3. Placed(ns, j, y)
      <4>1. j + 1 = k /\ k <= Len(ns)
            BY <2>1
      <4>2. \A i \in 1..1 : i = 1
            OBVIOUS
      <4> QED  BY <4>1, <4>2, <3>2 DEF Placed, x
    <3>4. SubSeq(ns, j + 1, j + Len(y)) = y
      <4>1. j \in Nat /\ ns \in Seq(S)
            BY <2>1
      <4> HIDE DEF n, E
      <4> QED  BY <4>1, <3>2, <3>3, PlacedSlice
    <3> QED  BY <3>2, <3>4, <2>1 DEF y, x
  <2>4. SubSeq(ns, 1, n) = ns
        BY FrontAll
  <2> QED  BY Zenon, <2>1, <2>2, <2>3, <2>4
<1>9. ASSUME NEW k \in Nat, k \in P
      PROVE  k + 1 \in P
  <2> SUFFICES ASSUME (k + 1) + 1 \in 1..n
               PROVE  UnitsUpTo(b, E((k + 1) + 1)) = SubSeq(ns, 1, k + 1)
      OBVIOUS
  <2> DEFINE h == k + 1  m == h + 1
  <2>1. h \in 1..n /\ m \in 1..n /\ m - 1 = h /\ h \in 0..n /\ h >= 1 /\ h - 1 = k
        BY <1>1
  <2>2. UnitsUpTo(b, E(h)) = SubSeq(ns, 1, k)
        BY <2>1, <1>9
  <2> HIDE DEF h, m, P
  <2>3. E(h) \in Ends(b) /\ E(h) < E(m) /\ NoEnds(b, E(h), E(m))
    <3>1. /\ E(h) \in Ends(b) /\ E(h) \in Nat /\ at[h - 1] < E(h) /\ E(h) < at[h] /\ at[h] \in Nat /\ at[h - 1] \in Nat
          /\ \A j \in Ends(b) : at[h - 1] < j /\ j <= at[h] => j = E(h)
          BY <2>1, <1>3
    <3>2. /\ E(m) \in Nat /\ at[h] < E(m) /\ E(m) < at[m] /\ at[m] \in Nat
          /\ \A j \in Ends(b) : at[h] < j /\ j <= at[m] => j = E(m)
          BY <2>1, <1>3
    <3>3. ASSUME NEW j \in Ends(b), j > E(h)
          PROVE  j >= E(m)
      <4>1. j \in Nat
            BY EndsAre
      <4>2. CASE j <= at[h]
        <5>1. at[h - 1] < j
              BY <4>1, <3>1, <3>3
        <5>2. j = E(h)
              BY <5>1, <4>2, <3>1
        <5> QED  BY <5>2, <4>1, <3>3
      <4>3. CASE at[h] < j /\ j <= at[m]
            BY <4>3, <3>2
      <4>4. CASE at[m] < j
            BY <4>1, <4>4, <3>2
      <4> QED  BY SMTT(30), <4>1, <4>2, <4>3, <4>4, <3>1, <3>2
    <3> QED  BY <3>1, <3>2, <3>3 DEF NoEnds
  <2>4. UnitsUpTo(b, E(m)) = UnitsUpTo(b, E(h)) \o Piece(b, E(h), at[m - 1])
        BY <2>1, <2>3, <1>6
  <2>5. Piece(b, E(h), at[h]) = <<ns[h]>>
        BY <2>1, <1>4
  <2>6. SubSeq(ns, 1, h) = SubSeq(ns, 1, h - 1) \o <<ns[h]>>
        BY <2>1, <1>8
  <2>7. UnitsUpTo(b, E(m)) = SubSeq(ns, 1, h)
        BY <2>1, <2>2, <2>4, <2>5, <2>6
  <2> QED  BY <2>7 DEF m, h
<1> HIDE DEF P
<1>10. UnitsUpTo(b, E(n)) = SubSeq(ns, 1, n - 1)
  <2>1. n - 1 \in Nat /\ (n - 1) + 1 = n /\ n \in 1..n
        BY <1>1
  <2>2. n - 1 \in P
    <3>1. Nat \subseteq P
          BY <1>7, <1>9, NatSet
    <3> QED  BY <3>1, <2>1
  <2> QED  BY <2>1, <2>2 DEF P
<1>11. n \in 1..n /\ n \in 0..n
       BY <1>1
<1>12. E(n) \in Ends(b) /\ NoEnds(b, E(n), Len(b) + 1)
  <2>1. /\ E(n) \in Ends(b) /\ E(n) \in Nat /\ at[n - 1] < E(n) /\ at[n - 1] \in Nat
        /\ \A j \in Ends(b) : at[n - 1] < j /\ j <= at[n] => j = E(n)
        BY <1>3, <1>11
  <2>2. ASSUME NEW j \in Ends(b), j > E(n)
        PROVE  FALSE
    <3>1. j \in Nat /\ j <= Len(b)
          BY EndsAre
    <3>2. at[n - 1] < j
          BY <3>1, <2>1, <2>2
    <3>3. j = E(n)
          BY <3>1, <3>2, <2>1, <1>2
    <3> QED  BY <3>1, <3>3, <2>2
  <2> QED  BY <2>1, <2>2 DEF NoEnds
<1>13. CutUnits(b) = UnitsUpTo(b, E(n)) \o Piece(b, E(n), Len(b))
       BY <1>12, UnitsToEnd
<1>14. Piece(b, E(n), Len(b)) = <<ns[n]>>
       BY SMTT(40), <1>2, <1>4, <1>11
<1>15. ns = SubSeq(ns, 1, n - 1) \o <<ns[n]>>
  <2>1. SubSeq(ns, 1, n) = SubSeq(ns, 1, n - 1) \o <<ns[n]>> /\ SubSeq(ns, 1, n) = ns
        BY <1>1, <1>8, <1>11
  <2> QED  BY Zenon, <2>1
<1> QED  BY Zenon, <1>10, <1>12, <1>13, <1>14, <1>15

StartCode(long) == IF long THEN <<0, 0, 0, 1>> ELSE StartCodeBytes

\* What is joined in a byte stream.
Framed(ns, long, s) ==
    /\ s \in Seq(Seq(Byte)) /\ Len(s) = Len(ns)
    /\ \A k \in 1..Len(ns) : s[k] = StartCode(long) \o ns[k]

LEMMA StartCodeIs ==
    ASSUME NEW long \in BOOLEAN, NEW x, x = StartCode(long)
    PROVE  /\ x \in Seq(Byte) /\ Len(x) = IF long THEN 4 ELSE 3
           /\ (\A i \in 1..Len(x) - 1 : x[i] = 0) /\ x[Len(x)] = 1
<1>0. 0 \in Byte /\ 1 \in Byte
      BY Bytes DEF Byte
<1>1. CASE long
  <2>1. x = <<0, 0, 0, 1>>
        BY <1>1 DEF StartCode
  <2>2. x \in Seq(Byte) /\ Len(x) = 4 /\ x[1] = 0 /\ x[2] = 0 /\ x[3] = 0 /\ x[4] = 1
        BY <1>0, <2>1
  <2>3. \A i \in 1..4 - 1 : i = 1 \/ i = 2 \/ i = 3
        OBVIOUS
  <2> QED  BY <1>1, <2>2, <2>3
<1>2. CASE ~long
  <2>1. x = <<0, 0, 1>>
        BY <1>2 DEF StartCode, StartCodeBytes
  <2>2. x \in Seq(Byte) /\ Len(x) = 3 /\ x[1] = 0 /\ x[2] = 0 /\ x[3] = 1
        BY <1>0, <2>1
  <2>3. \A i \in 1..3 - 1 : i = 1 \/ i = 2
        OBVIOUS
  <2> QED  BY <1>2, <2>2, <2>3
<1> QED  BY <1>1, <1>2

LEMMA StreamFramed ==
    ASSUME NEW ns \in Seq(Seq(Byte)), NEW long \in BOOLEAN
    PROVE  \E s : Framed(ns, long, s) /\ ByteStream(ns, long) = FlattenSeq(s)
<1> DEFINE n == Len(ns)  x == StartCode(long)  s == [i \in DOMAIN ns |-> x \o ns[i]]
<1>1. n \in Nat /\ DOMAIN ns = 1..n /\ (\A k \in 1..n : ns[k] \in Seq(Byte)) /\ x \in Seq(Byte)
      BY LenProperties, ElementOfSeq, StartCodeIs
<1>2. ByteStream(ns, long) = FlattenSeq(s)
  <2>1. CASE long
    <3>1. x = <<0, 0, 0, 1>>
          BY <2>1 DEF StartCode
    <3> QED  BY <3>1, <2>1 DEF ByteStream
  <2>2. CASE ~long
    <3>1. x = StartCodeBytes
          BY <2>2 DEF StartCode
    <3> QED  BY <3>1, <2>2 DEF ByteStream, JoinAnnexb
  <2> QED  BY <2>1, <2>2
<1>3. \A k \in 1..n : x \o ns[k] \in Seq(Byte)
  <2> HIDE DEF x
  <2> QED  BY <1>1, ConcatParts
<1> HIDE DEF x, n
<1>4. s \in Seq(Seq(Byte)) /\ Len(s) = n /\ \A k \in 1..n : s[k] = x \o ns[k]
      BY <1>1, <1>3
<1> HIDE DEF s
<1>5. Framed(ns, long, s)
      BY <1>4 DEF Framed, x, n
<1> QED  BY <1>2, <1>5

\* Where the units of a byte stream are.
LEMMA StreamIs ==
    ASSUME NEW ns \in Seq(Seq(Byte)), NEW long \in BOOLEAN, NEW s, Framed(ns, long, s),
           NEW g \in [0..Len(s) -> Seq(Byte)], Concats(s, g), NEW b, b = FlattenSeq(s)
    PROVE  /\ b \in Seq(Byte)
           /\ StreamAt(b, ns, [k \in 0..Len(ns) |-> Len(g[k])], Len(StartCode(long)))
           /\ \A k \in 1..Len(ns) : Placed(b, Len(g[k - 1]), StartCode(long))
<1> DEFINE n == Len(ns)  x == StartCode(long)  c == Len(x)  at == [k \in 0..n |-> Len(g[k])]
<1>1. n \in Nat /\ s \in Seq(Seq(Byte)) /\ Len(s) = n /\ \A k \in 1..n : s[k] = x \o ns[k] /\ ns[k] \in Seq(Byte)
      BY LenProperties, ElementOfSeq DEF Framed
<1>2. x \in Seq(Byte) /\ c \in {3, 4} /\ (\A i \in 1..c - 1 : x[i] = 0) /\ x[c] = 1
      BY StartCodeIs
<1>3. g[0] = <<>> /\ b = g[n]
      BY <1>1, FlattenIs DEF Concats
<1>4. b \in Seq(Byte) /\ \A k \in 0..n : g[k] \in Seq(Byte) /\ Len(g[k]) \in Nat
  <2>1. n \in 0..n
        BY <1>1
  <2> QED  BY <2>1, <1>1, <1>3, LenProperties
<1> HIDE DEF n, x
<1>5. ASSUME NEW k \in 1..n
      PROVE  /\ Len(g[k]) = (Len(g[k - 1]) + c) + Len(ns[k]) /\ Len(g[k]) <= Len(b)
             /\ Placed(b, Len(g[k - 1]), x) /\ Placed(b, Len(g[k - 1]) + c, ns[k])
  <2> DEFINE o == Len(g[k - 1])  u == ns[k]
  <2>1. /\ g[k - 1] \in Seq(Byte) /\ g[k] \in Seq(Byte) /\ s[k] \in Seq(Byte) /\ FlattenSeq(s) \in Seq(Byte)
        /\ Len(g[k]) = Len(g[k - 1]) + Len(s[k])
        /\ Placed(FlattenSeq(s), Len(g[k - 1]), s[k])
        BY <1>1, ConcatAt
  <2>2. u \in Seq(Byte) /\ s[k] = x \o u /\ o \in Nat
        BY <1>1, <2>1, LenProperties
  <2>3. Len(s[k]) = c + Len(u) /\ Len(u) \in Nat
    <3> HIDE DEF u
    <3> QED  BY <2>2, <1>2, ConcatParts, LenProperties
  <2>4. Placed(b, o, x \o u) /\ o + Len(s[k]) <= Len(b)
        BY <2>1, <2>2 DEF Placed
  <2> HIDE DEF o, u
  <2>5. Placed(b, o, x) /\ Placed(b, o + c, u)
        BY <2>2, <2>4, <1>2, <1>4, PlacedParts
  <2>6. Len(g[k]) = (o + c) + Len(u) /\ Len(g[k]) <= Len(b)
    <3>1. Len(g[k]) = o + Len(s[k])
          BY <2>1 DEF o
    <3> QED  BY <3>1, <2>2, <2>3, <2>4, <1>2
  <2> QED  BY <2>5, <2>6 DEF o, u
<1> HIDE DEF c
<1>6. \A k \in 0..n : at[k] = Len(g[k])
      OBVIOUS
<1>7. at \in [0..n -> Nat] /\ at[0] = 0 /\ at[n] = Len(b)
  <2>1. at \in [0..n -> Nat]
        BY <1>4
  <2>2. 0 \in 0..n /\ n \in 0..n /\ Len(g[0]) = 0
        BY <1>1, <1>3
  <2> HIDE DEF at
  <2> QED  BY <2>1, <2>2, <1>3, <1>6
<1>8. ASSUME NEW k \in 1..n
      PROVE  /\ at[k] = (at[k - 1] + c) + Len(ns[k]) /\ at[k] <= Len(b)
             /\ (\A i \in 1..c - 1 : b[at[k - 1] + i] = 0) /\ b[at[k - 1] + c] = 1
             /\ Placed(b, at[k - 1] + c, ns[k])
  <2>1. k - 1 \in 0..n /\ k \in 0..n
        BY <1>1
  <2>2. at[k] = Len(g[k]) /\ at[k - 1] = Len(g[k - 1])
        BY <2>1, <1>6
  <2>3. Placed(b, at[k - 1], x)
        BY <2>2, <1>5
  <2>4. \A i \in 1..c : b[at[k - 1] + i] = x[i]
        BY <2>3 DEF Placed, c
  <2>5. (\A i \in 1..c - 1 : i \in 1..c) /\ c \in 1..c
        BY <1>2
  <2> HIDE DEF at
  <2> QED  BY <2>2, <2>4, <2>5, <1>2, <1>5
<1> HIDE DEF at
<1>9. StreamAt(b, ns, at, c)
      BY <1>2, <1>7, <1>8 DEF StreamAt, n
<1>10. \A k \in 1..n : Placed(b, Len(g[k - 1]), x)
      BY <1>5
<1> QED  BY <1>4, <1>9, <1>10 DEF n, x, c, at

-----------------------------------------------------------------------------
(* Byte streams taken for lengths                                          *)

\* The least that a length of four bytes is.
LEMMA LongLength ==
    ASSUME NEW m \in Nat, m >= 4, NEW x1 \in Nat, NEW x2 \in Nat, NEW x3 \in Nat, NEW x4 \in Nat,
           x1 >= 1 \/ x2 >= 1 \/ x3 >= 3
    PROVE  ((x1 * m + x2) * m + x3) * m + x4 >= 3 * m
<1> DEFINE y == x1 * m + x2  z == y * m + x3
<1>1. y \in Nat /\ (x1 >= 1 \/ x2 >= 1 => y >= 1)
  <2>1. x1 * m \in Nat
        OBVIOUS
  <2>2. x1 >= 1 => x1 * m >= 1
    <3>1. x1 >= 1 => (x1 - 1) \in Nat /\ (x1 - 1) * m \in Nat /\ x1 * m = (x1 - 1) * m + m
          OBVIOUS
    <3> QED  BY <3>1
  <2> DEFINE p == x1 * m
  <2>3. p \in Nat /\ (x1 >= 1 => p >= 1)
        BY <2>1, <2>2
  <2> HIDE DEF p
  <2>4. p + x2 \in Nat /\ (x1 >= 1 \/ x2 >= 1 => p + x2 >= 1)
        BY <2>3
  <2> QED  BY <2>4 DEF p
<1> HIDE DEF y
<1>2. z \in Nat /\ z >= 3
  <2>1. y * m \in Nat
        BY <1>1
  <2>2. y >= 1 => y * m >= 3
    <3>1. y >= 1 => (y - 1) \in Nat /\ (y - 1) * m \in Nat /\ y * m = (y - 1) * m + m
          BY <1>1
    <3> QED  BY <3>1
  <2> DEFINE p == y * m
  <2>3. p \in Nat /\ (y >= 1 => p >= 3)
        BY <2>1, <2>2
  <2> HIDE DEF p
  <2>4. p + x3 \in Nat /\ p + x3 >= 3
        BY <2>3, <1>1
  <2> QED  BY <2>4 DEF p
<1> HIDE DEF z
<1>3. (z - 3) \in Nat /\ (z - 3) * m \in Nat /\ z * m = (z - 3) * m + 3 * m
      BY <1>2
<1> DEFINE p == (z - 3) * m  q == z * m  r == 3 * m
<1>4. p \in Nat /\ q = p + r /\ r \in Nat
      BY <1>3
<1> HIDE DEF p, q, r
<1>5. q + x4 >= r
      BY <1>4
<1> QED  BY <1>5 DEF q, r, z, y

\* Four bytes in b.
LEMMA LengthAtIs ==
    ASSUME NEW b \in Seq(Byte), NEW n \in Nat, n + 4 <= Len(b)
    PROVE  /\ b[n + 1] \in Nat /\ b[n + 2] \in Nat /\ b[n + 3] \in Nat /\ b[n + 4] \in Nat
           /\ LengthAt(b, n) = ((b[n + 1] * ByteMod + b[n + 2]) * ByteMod + b[n + 3]) * ByteMod + b[n + 4]
           /\ LengthAt(b, n) \in Nat
<1> DEFINE four == 4  x == SubSeq(b, n + 1, n + four)
<1>1. n \in 0..Len(b) /\ four \in 0..Len(b) - n
      BY LenProperties
<1> HIDE DEF four
<1>2. x \in Seq(Byte) /\ Len(x) = four /\ \A i \in 1..four : x[i] = b[n + i]
      BY <1>1, SliceIs
<1>3. x = SubSeq(b, n + 1, n + 4)
      BY DEF four
<1> HIDE DEF x
<1>4. x[1] = b[n + 1] /\ x[2] = b[n + 2] /\ x[3] = b[n + 3] /\ x[4] = b[n + 4] /\ Len(x) = 4
      BY <1>2 DEF four
<1>5. /\ x[1] \in Byte /\ x[2] \in Byte /\ x[3] \in Byte /\ x[4] \in Byte
      /\ UBE(x) = ((x[1] * ByteMod + x[2]) * ByteMod + x[3]) * ByteMod + x[4]
      /\ UBE(x) \in Nat
      BY <1>2, <1>4, FourBytes
<1>6. x[1] \in Nat /\ x[2] \in Nat /\ x[3] \in Nat /\ x[4] \in Nat
      BY <1>5, Bytes DEF Byte
<1>7. LengthAt(b, n) = UBE(x)
      BY <1>3 DEF LengthAt
<1> QED  BY <1>4, <1>5, <1>6, <1>7

\* There is room for a length and a unit, and a turn takes them.
Room(b, v, n) ==
    /\ n + 4 <= Len(b) /\ LengthAt(b, n) \in Nat /\ (n + 4) + LengthAt(b, n) <= Len(b)
    /\ AvccTurn(b, Ok(v, n)) =
          Ok(Append(v, SubSeq(b, (n + 4) + 1, (n + 4) + LengthAt(b, n))), (n + 4) + LengthAt(b, n))

\* A turn that goes well had it.
LEMMA AvccRoom ==
    ASSUME NEW b \in Seq(Byte), NEW v \in Seq(Seq(Byte)), NEW n \in Nat, v = <<>> \/ n # Len(b),
           AvccTurn(b, Ok(v, n)).ok
    PROVE  Room(b, v, n)
<1> DEFINE t == Ok(v, n)  len == LengthAt(b, n)  u == AvccTurn(b, t)  p == n + 4
<1>1. t.ok /\ t.v = v /\ t.n = n
      BY OkIs
<1>2. u = TakeUnit(b, t)
  <2> HIDE DEF t
  <2> QED  BY <1>1 DEF AvccTurn
<1>3. u # Err
      BY DEF Err
<1>4. Len(b) \in Nat /\ p \in Nat
      BY LenProperties
<1>5. p <= Len(b)
  <2> SUFFICES ASSUME Len(b) < p
               PROVE  FALSE
      BY <1>4
  <2>1. TakeUnit(b, t) = Err
        BY TakeUnitIs
  <2> QED  BY <2>1, <1>2, <1>3
<1>6. len \in Nat
      BY <1>5, TakeUnitIs
<1>7. p + len <= Len(b)
  <2> SUFFICES ASSUME Len(b) < p + len
               PROVE  FALSE
    <3> HIDE DEF len, p
    <3> QED  BY <1>4, <1>6
  <2>1. TakeUnit(b, t) = Err
        BY <1>5, TakeUnitIs
  <2> QED  BY <2>1, <1>2, <1>3
<1>8. TakeUnit(b, t) = Ok(Append(v, SubSeq(b, p + 1, p + len)), p + len)
      BY <1>5, <1>7, TakeUnitIs
<1> HIDE DEF len
<1> QED  BY <1>2, <1>5, <1>6, <1>7, <1>8 DEF len, Room

\* One is the length that a long start code is.
LEMMA LengthOne == PutBE(1, 4) = StartCode(TRUE) /\ Len(StartCode(TRUE)) = 4
<1> DEFINE x == StartCode(TRUE)
<1>1. x \in Seq(Byte) /\ Len(x) = 4 /\ x[1] = 0 /\ x[2] = 0 /\ x[3] = 0 /\ x[4] = 1
  <2>1. x = <<0, 0, 0, 1>>
        BY DEF StartCode
  <2>2. 0 \in Byte /\ 1 \in Byte
        BY Bytes DEF Byte
  <2> HIDE DEF x
  <2> QED  BY <2>1, <2>2
<1> HIDE DEF x
<1>2. UBE(x) = ((x[1] * ByteMod + x[2]) * ByteMod + x[3]) * ByteMod + x[4]
      BY <1>1, FourBytes
<1>3. UBE(x) = 1
  <2>1. ByteMod \in Int
        BY Bytes
  <2>2. UBE(x) = ((0 * ByteMod + 0) * ByteMod + 0) * ByteMod + 1
        BY <1>1, <1>2
  <2> QED  BY <2>1, <2>2
<1>4. PutBE(UBE(x), Len(x)) = x
      BY <1>1, BytesBack
<1> QED  BY <1>1, <1>3, <1>4 DEF x

\* A stream with short start codes that is well-formed the other way.
LEMMA ShortStream ==
    ASSUME NEW ns \in Seq(Seq(Byte)), ns # <<>>, ProperUnits(ns), NEW b, b = ByteStream(ns, FALSE), SplitAVCC(b).ok
    PROVE  ~Unmistakable(ns, FALSE)
<1> DEFINE u == ns[1]  v == <<>>  long == FALSE
<1>1. 1 \in 1..Len(ns) /\ u \in Seq(Byte) /\ long \in BOOLEAN
  <2>1. Len(ns) \in Nat /\ Len(ns) # 0
        BY LenProperties, EmptySeq
  <2>2. 1 \in 1..Len(ns)
        BY <2>1
  <2> QED  BY <2>2, ElementOfSeq
<1>2. Len(u) \in Nat /\ Len(u) >= 1
  <2>1. ProperUnit(u)
        BY <1>1 DEF ProperUnits
  <2> HIDE DEF u
  <2> QED  BY <1>1, <2>1, ProperUnitIs
<1>l. long = FALSE
      OBVIOUS
<1> HIDE DEF long
<1>3. PICK s : Framed(ns, long, s) /\ b = FlattenSeq(s)
  <2>1. \E s : Framed(ns, long, s) /\ ByteStream(ns, long) = FlattenSeq(s)
        BY <1>1, StreamFramed
  <2> QED  BY <2>1, <1>l
<1>4. PICK g \in [0..Len(s) -> Seq(Byte)] : Concats(s, g)
  <2>1. s \in Seq(Seq(Byte))
        BY <1>3 DEF Framed
  <2> QED  BY <2>1, ConcatsExist
<1> DEFINE at == [k \in 0..Len(ns) |-> Len(g[k])]  c == Len(StartCode(long))
<1>5. b \in Seq(Byte) /\ StreamAt(b, ns, at, c)
      BY <1>1, <1>3, <1>4, StreamIs
<1>6. c = 3
  <2>1. StartCode(long) = <<0, 0, 1>>
        BY <1>l DEF StartCode, StartCodeBytes
  <2> QED  BY <2>1
<1> HIDE DEF at, c, v, u
<1>7. /\ at[0] = 0 /\ at[1] = (at[1 - 1] + c) + Len(u) /\ at[1] <= Len(b)
      /\ (\A i \in 1..c - 1 : b[at[1 - 1] + i] = 0) /\ b[at[1 - 1] + c] = 1
      /\ Placed(b, at[1 - 1] + c, u)
      BY <1>1, <1>5 DEF StreamAt, u
<1>8. Len(b) \in Nat /\ 3 + Len(u) <= Len(b) /\ b[1] = 0 /\ b[2] = 0 /\ b[3] = 1 /\ Placed(b, 3, u)
  <2>1. at[1 - 1] + c = 3 /\ 1 \in 1..c - 1 /\ 2 \in 1..c - 1 /\ at[1 - 1] + 1 = 1 /\ at[1 - 1] + 2 = 2
        BY <1>6, <1>7
  <2>2. b[at[1 - 1] + 1] = 0 /\ b[at[1 - 1] + 2] = 0
        BY <2>1, <1>7
  <2>3. Len(b) \in Nat
        BY <1>5, LenProperties
  <2> QED  BY <2>1, <2>2, <2>3, <1>7
<1>9. b[4] = u[1]
  <2>1. \A i \in 1..Len(u) : b[3 + i] = u[i]
        BY <1>8 DEF Placed
  <2>2. 1 \in 1..Len(u) /\ 3 + 1 = 4
        BY <1>2
  <2> QED  BY <2>1, <2>2
<1>10. PICK f : AvccTurns(f, b)
       BY <1>5, AvccTurnsExist
<1>11. \A k \in 0..Len(b) + 1 : f[k].ok /\ f[k] \in AvccStates
       BY ZenonT(60), <1>5, <1>10, AvccAll, SplitAVCCIs
<1>12. AvccTurn(b, Ok(v, 0)).ok
  <2>1. f[0] = Ok(v, 0) /\ \A k \in 1..Len(b) + 1 : f[k] = AvccTurn(b, f[k - 1])
        BY <1>10 DEF AvccTurns, v
  <2>2. 1 \in 1..Len(b) + 1 /\ 1 \in 0..Len(b) + 1 /\ 1 - 1 = 0
    <3> DEFINE L == Len(b)
    <3>1. L \in Nat
          BY <1>5, LenProperties
    <3> HIDE DEF L
    <3>2. 1 \in 1..L + 1 /\ 1 \in 0..L + 1 /\ 1 - 1 = 0
          BY <3>1
    <3> QED  BY <3>2 DEF L
  <2>3. f[1] = AvccTurn(b, f[1 - 1]) /\ f[1].ok
        BY <2>1, <2>2, <1>11
  <2> QED  BY <2>1, <2>2, <2>3
<1> DEFINE z == 0  len == LengthAt(b, z)
<1>13. z + 4 <= Len(b) /\ len \in Nat /\ (z + 4) + len <= Len(b)
  <2>1. v \in Seq(Seq(Byte)) /\ z \in Nat /\ v = <<>>
        BY DEF v
  <2>2. AvccTurn(b, Ok(v, z)).ok
        BY <1>12
  <2> HIDE DEF z
  <2> QED  BY <2>1, <2>2, <1>5, AvccRoom DEF Room
<1>14. b[z + 1] \in Nat /\ b[z + 2] \in Nat /\ b[z + 3] \in Nat /\ b[z + 4] \in Nat
       /\ len = ((b[z + 1] * ByteMod + b[z + 2]) * ByteMod + b[z + 3]) * ByteMod + b[z + 4]
       /\ len \in Nat
  <2>1. z \in Nat
        OBVIOUS
  <2> HIDE DEF z
  <2> QED  BY <2>1, <1>5, <1>13, LengthAtIs
<1>15. b[z + 1] = 0 /\ b[z + 2] = 0 /\ b[z + 3] = 1 /\ b[z + 4] = u[1] /\ z + 4 = 4
  <2>1. z + 1 = 1 /\ z + 2 = 2 /\ z + 3 = 3 /\ z + 4 = 4
        OBVIOUS
  <2> HIDE DEF z
  <2>2. b[1] = 0 /\ b[2] = 0 /\ b[3] = 1 /\ b[4] = u[1]
        BY <1>8, <1>9
  <2> QED  BY <2>1, <2>2
<1> HIDE DEF len, z
<1>16. len = ByteMod + u[1] /\ u[1] \in Nat
  <2> DEFINE x == u[1]  m == ByteMod
  <2>1. m \in Nat /\ x \in Nat /\ len = ((0 * m + 0) * m + 1) * m + x
        BY <1>14, <1>15, Bytes
  <2> HIDE DEF x, m
  <2> QED  BY <2>1 DEF x, m
<1>17. 4 + (ByteMod + u[1]) <= Len(b)
  <2>1. 4 + len <= Len(b)
        BY <1>13, <1>15
  <2> QED  BY <2>1, <1>16
<1>18. ~(Len(b) < (4 + ByteMod) + u[1])
  <2> DEFINE x == u[1]  m == ByteMod
  <2> DEFINE L == Len(b)
  <2>1. m \in Nat /\ x \in Nat /\ 4 + (m + x) <= L /\ L \in Nat
        BY <1>5, <1>16, <1>17, Bytes, LenProperties
  <2> HIDE DEF x, m, L
  <2>2. ~(L < (4 + m) + x)
        BY <2>1
  <2> QED  BY <2>2 DEF x, m, L
<1> QED  BY <1>18 DEF Unmistakable, u

LEMMA ByteBig == 1 < (ByteMod * ByteMod) * (ByteMod * ByteMod)
<1> DEFINE m == ByteMod  q == m * m
<1>1. m \in Nat /\ m >= 4
      BY Bytes
<1> HIDE DEF m
<1>2. q \in Nat /\ q >= 4
  <2>1. (m - 1) \in Nat /\ (m - 1) * m \in Nat /\ m * m = (m - 1) * m + m
        BY <1>1
  <2> QED  BY <1>1, <2>1
<1> HIDE DEF q
<1>3. 1 < q * q
  <2>1. (q - 1) \in Nat /\ (q - 1) * q \in Nat /\ q * q = (q - 1) * q + q
        BY <1>2
  <2> QED  BY <1>2, <2>1
<1> QED  BY <1>3 DEF q, m

\* A stream of units of one byte, with long start codes, is one of lengths.
LEMMA ShortUnits ==
    ASSUME NEW ns \in Seq(Seq(Byte)), ns # <<>>, \A k \in 1..Len(ns) : Len(ns[k]) = 1
    PROVE  SplitAVCC(ByteStream(ns, TRUE)).v = ns
<1>1. DOMAIN ns = 1..Len(ns)
      BY LenProperties
<1> DEFINE s == [i \in DOMAIN ns |-> PutBE(Len(ns[i]), 4) \o ns[i]]
           t == [i \in DOMAIN ns |-> <<0, 0, 0, 1>> \o ns[i]]
<1>2. s = t
  <2>1. PutBE(1, 4) = <<0, 0, 0, 1>>
        BY LengthOne DEF StartCode
  <2>2. \A i \in DOMAIN ns : PutBE(Len(ns[i]), 4) \o ns[i] = <<0, 0, 0, 1>> \o ns[i]
    <3> TAKE i \in DOMAIN ns
    <3>1. Len(ns[i]) = 1
          BY <1>1
    <3> QED  BY <2>1, <3>1
  <2> QED  BY <2>2
<1>3. JoinAVCC(ns) = FlattenSeq(s) /\ ByteStream(ns, TRUE) = FlattenSeq(t)
      BY DEF JoinAVCC, ByteStream
<1> HIDE DEF s, t
<1>4. ByteStream(ns, TRUE) = JoinAVCC(ns)
      BY <1>2, <1>3
<1>6. \A i \in 1..Len(ns) : Len(ns[i]) < (ByteMod * ByteMod) * (ByteMod * ByteMod)
      BY ByteBig
<1>7. SplitAVCC(JoinAVCC(ns)).v = ns
      BY <1>6, AvccUnitsBack
<1> QED  BY <1>4, <1>7

\* A unit that is longer: four of its bytes are taken for a length.
LEMMA LongStream ==
    ASSUME NEW ns \in Seq(Seq(Byte)), ProperUnits(ns), NEW b, b = ByteStream(ns, TRUE), SplitAVCC(b).ok,
           NEW k \in 1..Len(ns), Len(ns[k]) # 1, \A j \in 1..k - 1 : Len(ns[j]) = 1
    PROVE  ~Unmistakable(ns, TRUE)
<1> DEFINE n == Len(ns)  K == k - 1  u == ns[k]  l == Len(u)  L == Len(b)  long == TRUE  m == ByteMod
<1>1. n \in Nat /\ K \in 0..n /\ K \in Nat /\ k \in Nat /\ K + 1 = k /\ u \in Seq(Byte) /\ long \in BOOLEAN
      BY LenProperties, ElementOfSeq
<1>2. /\ l \in Nat /\ l >= 2 /\ u[l] # 0
      /\ \A i \in 1..l - 2 : u[i] = 0 /\ u[i + 1] = 0 => u[i + 2] > 2
  <2>1. ProperUnit(u)
        BY DEF ProperUnits
  <2> HIDE DEF u
  <2>2. /\ l \in Nat /\ l >= 1 /\ u[l] # 0
        /\ \A i \in 1..l - 2 : u[i] = 0 /\ u[i + 1] = 0 => u[i + 2] > 2
        BY <1>1, <2>1, ProperUnitIs
  <2>3. l # 1
        BY DEF u
  <2> HIDE DEF l
  <2> QED  BY <2>2, <2>3
<1>l. long = TRUE
      OBVIOUS
<1> HIDE DEF long
<1>3. PICK s : Framed(ns, long, s) /\ b = FlattenSeq(s)
  <2>1. \E s : Framed(ns, long, s) /\ ByteStream(ns, long) = FlattenSeq(s)
        BY <1>1, StreamFramed
  <2> QED  BY <2>1, <1>l
<1>s. s \in Seq(Seq(Byte)) /\ Len(s) = n /\ \A j \in 1..n : s[j] = StartCode(long) \o ns[j]
      BY <1>3 DEF Framed
<1>4. PICK g \in [0..Len(s) -> Seq(Byte)] : Concats(s, g)
      BY <1>s, ConcatsExist
<1> DEFINE at == [j \in 0..n |-> Len(g[j])]  c == Len(StartCode(long))  o == Len(g[K])
<1>5. /\ b \in Seq(Byte) /\ StreamAt(b, ns, at, c)
      /\ \A j \in 1..n : Placed(b, Len(g[j - 1]), StartCode(long))
      BY <1>1, <1>3, <1>4, StreamIs
<1>6. c = 4 /\ PutBE(1, 4) = StartCode(long)
      BY <1>l, LengthOne
<1>7. o \in Nat /\ L \in Nat /\ (o + 4) + l <= L /\ Placed(b, o + 4, u) /\ Placed(b, o, StartCode(long))
  <2>1. at[k - 1] = o
        BY <1>1
  <2>2. at[k] = (at[k - 1] + c) + l /\ at[k] <= L /\ Placed(b, at[k - 1] + c, u)
    <3> HIDE DEF at, c, n
    <3> QED  BY <1>5 DEF StreamAt, n
  <2>3. Placed(b, Len(g[k - 1]), StartCode(long))
        BY <1>5
  <2>4. o \in Nat /\ L \in Nat
    <3>1. g[K] \in Seq(Byte)
          BY <1>1, <1>s, <1>4
    <3> QED  BY <3>1, <1>5, LenProperties
  <2> HIDE DEF at, c, u, l
  <2> QED  BY <2>1, <2>2, <2>3, <2>4, <1>6
<1>8. \A i \in 1..l : b[(o + 4) + i] = u[i]
      BY <1>7 DEF Placed
<1>9. Lengths(s, ns, K)
  <2>1. ASSUME NEW j \in 1..K
        PROVE  s[j] = WithLength[ns[j]] /\ Len(ns[j]) < (ByteMod * ByteMod) * (ByteMod * ByteMod)
    <3>1. j \in 1..n /\ Len(ns[j]) = 1 /\ ns[j] \in Seq(Byte)
      <4>1. j \in 1..n
            BY <1>1
      <4> QED  BY <4>1, ElementOfSeq
    <3>2. WithLength[ns[j]] = PutBE(Len(ns[j]), 4) \o ns[j]
          BY <3>1, WithLengthIs
    <3>3. s[j] = WithLength[ns[j]]
          BY <3>1, <3>2, <1>s, <1>6
    <3> QED  BY <3>1, <3>3, ByteBig
  <2> HIDE DEF K, n
  <2> QED  BY <2>1, <1>1, <1>s DEF Lengths, n
<1>10. PICK f : AvccTurns(f, b)
       BY <1>5, AvccTurnsExist
<1>11. \A j \in 0..L + 1 : f[j].ok /\ f[j] \in AvccStates
       BY ZenonT(60), <1>5, <1>10, AvccAll, SplitAVCCIs
<1>12. \A j \in 1..L + 1 : f[j] = AvccTurn(b, f[j - 1])
       BY <1>10 DEF AvccTurns
<1> DEFINE v == SubSeq(ns, 1, K)  p == o + 5
<1>13. 4 * K <= o /\ f[K] = Ok(v, o) /\ v \in Seq(Seq(Byte))
  <2>1. Taken(f, ns, g, b, K)
    <3> HIDE DEF K
    <3> QED  BY <1>s, <1>9, <1>3, <1>4, <1>10, AvccPrefix
  <2>2. K \in 0..K
        BY <1>1
  <2>3. v \in Seq(Seq(Byte))
        BY <1>1, FrontIs
  <2> HIDE DEF K
  <2> QED  BY <2>1, <2>2, <2>3 DEF Taken
<1>14. K + 1 \in 1..L + 1 /\ (K + 1) - 1 = K /\ K + 2 \in 1..L + 1 /\ (K + 2) - 1 = K + 1
       /\ K + 1 \in 0..L + 1 /\ K + 2 \in 0..L + 1 /\ o # L /\ p # L /\ p \in Nat
  <2>1. 4 * K <= o /\ (o + 4) + l <= L /\ K \in Nat
        BY <1>1, <1>7, <1>13
  <2> HIDE DEF K, o, l, L
  <2> QED  BY <2>1, <1>2, <1>7
<1>15. f[K + 1] = AvccTurn(b, Ok(v, o)) /\ f[K + 1].ok /\ f[K + 2] = AvccTurn(b, f[K + 1]) /\ f[K + 2].ok
  <2> DEFINE i == K + 1  j == K + 2
  <2>1. /\ i \in 1..L + 1 /\ i - 1 = K /\ i \in 0..L + 1
        /\ j \in 1..L + 1 /\ j - 1 = i /\ j \in 0..L + 1
        BY <1>14
  <2> HIDE DEF K, i, j, v, o, L
  <2>2. f[i] = AvccTurn(b, f[i - 1]) /\ f[i].ok
        BY <2>1, <1>11, <1>12
  <2>3. f[j] = AvccTurn(b, f[j - 1]) /\ f[j].ok
        BY <2>1, <1>11, <1>12
  <2>4. f[i] = AvccTurn(b, Ok(v, o)) /\ f[i].ok /\ f[j] = AvccTurn(b, f[i]) /\ f[j].ok
        BY <2>1, <2>2, <2>3, <1>13
  <2> QED  BY <2>4 DEF i, j
<1> HIDE DEF K, u, l, at, c, v, o
\* The first byte of the unit is taken for a unit.
<1>16. /\ o + 4 <= L /\ LengthAt(b, o) \in Nat /\ (o + 4) + LengthAt(b, o) <= L
       /\ AvccTurn(b, Ok(v, o)) =
             Ok(Append(v, SubSeq(b, (o + 4) + 1, (o + 4) + LengthAt(b, o))), (o + 4) + LengthAt(b, o))
  <2>1. v \in Seq(Seq(Byte)) /\ o \in Nat /\ o # Len(b) /\ AvccTurn(b, Ok(v, o)).ok
        BY <1>7, <1>13, <1>14, <1>15
  <2>2. Room(b, v, o)
        BY <2>1, <1>5, AvccRoom
  <2> QED  BY <2>2 DEF Room
<1>17. LengthAt(b, o) = 1
  <2> DEFINE x == StartCode(long)
  <2>1. x \in Seq(Byte) /\ Len(x) = 4
        BY <1>1, <1>6, StartCodeIs DEF c
  <2> HIDE DEF x
  <2>2. SubSeq(b, o + 1, o + Len(x)) = x
        BY <2>1, <1>5, <1>7, PlacedSlice DEF x
  <2>3. SubSeq(b, o + 1, o + 4) = PutBE(1, 4)
        BY <2>1, <2>2, <1>6 DEF x
  <2>4. UBE(PutBE(1, 4)) = 1
    <3>1. 1 \in Nat
          OBVIOUS
    <3> QED  BY <3>1, ByteBig, LengthBack
  <2> QED  BY <2>3, <2>4 DEF LengthAt
<1> DEFINE w == Append(v, SubSeq(b, (o + 4) + 1, (o + 4) + 1))
<1>18. f[K + 1] = Ok(w, p) /\ w \in Seq(Seq(Byte))
  <2>1. (o + 4) + LengthAt(b, o) = p /\ (o + 4) + 1 = p
    <3> DEFINE a == LengthAt(b, o)
    <3>1. a = 1 /\ o \in Nat
          BY <1>17, <1>7
    <3> HIDE DEF a
    <3>2. (o + 4) + a = o + 5 /\ (o + 4) + 1 = o + 5
          BY <3>1
    <3> QED  BY <3>2 DEF a
  <2> HIDE DEF p
  <2>2. f[K + 1] = Ok(w, p)
        BY <2>1, <1>15, <1>16, <1>17
  <2>3. SubSeq(b, (o + 4) + 1, (o + 4) + 1) \in Seq(Byte)
    <3> DEFINE q == o + 4  one == 1
    <3>1. q \in 0..Len(b) /\ one \in 0..Len(b) - q
      <4>1. o \in Nat /\ l \in Nat /\ l >= 2 /\ (o + 4) + l <= L /\ L \in Nat
            BY <1>2, <1>7
      <4> HIDE DEF L
      <4>2. q \in 0..L /\ one \in 0..L - q
            BY <4>1
      <4> QED  BY <4>2 DEF L
    <3> HIDE DEF q, one
    <3>2. SubSeq(b, q + 1, q + one) \in Seq(Byte)
          BY <3>1, <1>5, SliceIs
    <3> QED  BY <3>2 DEF q, one
  <2> DEFINE y == SubSeq(b, (o + 4) + 1, (o + 4) + 1)
  <2>4. y \in Seq(Byte)
        BY <2>3
  <2> HIDE DEF y
  <2>5. Append(v, y) \in Seq(Seq(Byte))
        BY <2>4, <1>13
  <2> QED  BY <2>2, <2>5 DEF y
<1> HIDE DEF w, p
\* The next four bytes are taken for a length.
<1> DEFINE len == LengthAt(b, p)
<1>19. p + 4 <= L /\ len \in Nat /\ (p + 4) + len <= L
  <2>1. AvccTurn(b, Ok(w, p)).ok
        BY <1>15, <1>18
  <2>2. p \in Nat /\ p # Len(b)
        BY <1>14
  <2>3. Room(b, w, p)
        BY <2>1, <2>2, <1>5, <1>18, AvccRoom
  <2> QED  BY <2>3 DEF Room
<1>20. /\ b[p + 1] \in Nat /\ b[p + 2] \in Nat /\ b[p + 3] \in Nat /\ b[p + 4] \in Nat
       /\ len = ((b[p + 1] * m + b[p + 2]) * m + b[p + 3]) * m + b[p + 4]
       /\ len \in Nat
       BY <1>5, <1>14, <1>19, LengthAtIs
<1>21. \A i \in 2..l : b[p + (i - 1)] = u[i]
  <2> TAKE i \in 2..l
  <2>1. i \in 1..l /\ p + (i - 1) = (o + 4) + i
        BY <1>2, <1>7 DEF p
  <2> QED  BY <2>1, <1>8
<1> DEFINE y1 == b[p + 1]  y2 == b[p + 2]  y3 == b[p + 3]
<1>n. y1 \in Nat /\ y2 \in Nat /\ y3 \in Nat
      BY <1>20
<1>22. y1 >= 1 \/ y2 >= 1 \/ y3 >= 3
  <2>1. l >= 2 => y1 = u[2]
    <3>1. l >= 2 => 2 \in 2..l /\ 2 - 1 = 1
          BY <1>2
    <3> QED  BY <3>1, <1>21
  <2>2. l >= 3 => y2 = u[3]
    <3>1. l >= 3 => 3 \in 2..l /\ 3 - 1 = 2
          BY <1>2
    <3> QED  BY <3>1, <1>21
  <2>3. l >= 4 => y3 = u[4]
    <3>1. l >= 4 => 4 \in 2..l /\ 4 - 1 = 3
          BY <1>2
    <3> QED  BY <3>1, <1>21
  <2> HIDE DEF y1, y2, y3
  <2>4. CASE l = 2
    <3>1. y1 # 0
      <4>1. u[2] # 0 /\ l >= 2
            BY <2>4, <1>2
      <4> QED  BY <4>1, <2>1
    <3> QED  BY <3>1, <1>n
  <2>5. CASE l = 3
    <3>1. y2 # 0
      <4>1. u[3] # 0 /\ l >= 3
            BY <2>5, <1>2
      <4> QED  BY <4>1, <2>2
    <3> QED  BY <3>1, <1>n
  <2>6. CASE l >= 4
    <3>1. 2 \in 1..l - 2 /\ 2 + 1 = 3 /\ 2 + 2 = 4
          BY <1>2, <2>6
    <3>2. u[2] = 0 /\ u[3] = 0 => u[4] > 2
          BY <3>1, <1>2
    <3>3. l >= 2 /\ l >= 3
          BY <2>6, <1>2
    <3>4. y1 = 0 /\ y2 = 0 => y3 > 2
          BY <3>2, <3>3, <2>1, <2>2, <2>3, <2>6
    <3> QED  BY <3>4, <1>n
  <2>7. l = 2 \/ l = 3 \/ l >= 4
    <3>1. l \in Nat /\ l >= 2
          BY <1>2
    <3> QED  BY <3>1
  <2> QED  BY <2>4, <2>5, <2>6, <2>7
<1>23. len >= 3 * m
  <2>1. m \in Nat /\ m >= 4
        BY Bytes
  <2> HIDE DEF m, len
  <2> QED  BY ZenonT(60), <2>1, <1>20, <1>22, LongLength
<1>24. ~(L < 9 + 3 * m)
  <2> DEFINE r == 3 * m
  <2>1. r \in Nat /\ len >= r
    <3>1. r \in Nat
          BY Bytes
    <3> HIDE DEF len
    <3> QED  BY <3>1, <1>23
  <2>2. p = o + 5
        BY DEF p
  <2> HIDE DEF r, L, len, m
  <2>3. ~(L < 9 + r)
        BY <2>1, <2>2, <1>7, <1>19
  <2> QED  BY <2>3 DEF r
<1> QED  BY <1>24 DEF Unmistakable

\* A stream that is taken for lengths has the same units, or is long for it.
LEMMA StreamGuess ==
    ASSUME NEW ns \in Seq(Seq(Byte)), ns # <<>>, ProperUnits(ns), NEW long \in BOOLEAN,
           SplitAVCC(ByteStream(ns, long)).ok
    PROVE  SplitAVCC(ByteStream(ns, long)).v = ns \/ ~Unmistakable(ns, long)
<1>1. CASE ~long
  <2>1. long = FALSE
        BY <1>1
  <2> QED  BY <2>1, ShortStream
<1>2. CASE long
  <2>1. long = TRUE
        BY <1>2
  <2>2. CASE \A k \in 1..Len(ns) : Len(ns[k]) = 1
        BY <2>1, <2>2, ShortUnits
  <2>3. CASE ~\A k \in 1..Len(ns) : Len(ns[k]) = 1
    <3> DEFINE T == {k \in 1..Len(ns) : Len(ns[k]) # 1}
    <3>1. T \in SUBSET Nat /\ T # {}
          BY <2>3, LenProperties
    <3>2. PICK k \in T : \A j \in T : k <= j
          BY <3>1, LeastNat
    <3>3. k \in 1..Len(ns) /\ Len(ns[k]) # 1 /\ Len(ns) \in Nat /\ k \in Nat
          BY <3>2, LenProperties
    <3>4. ASSUME NEW j \in 1..k - 1
          PROVE  Len(ns[j]) = 1
      <4>1. j \in 1..Len(ns) /\ ~(k <= j)
            BY <3>3
      <4> QED  BY <4>1, <3>2
    <3>5. \A j \in 1..k - 1 : Len(ns[j]) = 1
          BY <3>4
    <3> HIDE DEF T
    <3>6. ~Unmistakable(ns, TRUE)
          BY <2>1, <3>3, <3>5, LongStream
    <3> QED  BY <3>6, <2>1
  <2> QED  BY <2>2, <2>3
<1> QED  BY <1>1, <1>2

\* The results of SplitNALUs.
LEMMA SplitNALUsIs ==
    ASSUME NEW b \in Seq(Byte), NEW r, r = SplitNALUs(b)
    PROVE  \/ SplitAVCC(b).ok /\ r.nalus = SplitAVCC(b).v /\ r.typ = "AVCC"
           \/ ~SplitAVCC(b).ok /\ Ends(b) # {} /\ r.nalus = CutUnits(b) /\ r.typ = "ANNEXB"
           \/ ~SplitAVCC(b).ok /\ Ends(b) = {} /\ r.nalus = <<b>> /\ r.typ = "RAW"
<1> DEFINE avcc == SplitAVCC(b)  annexb == SplitAnnexb(b)  x == CutUnits(b)
<1>1. r = IF avcc.ok THEN Units(avcc.v, "AVCC")
          ELSE IF annexb.ok THEN Units(annexb.v, "ANNEXB") ELSE Units(<<b>>, "RAW")
      BY DEF SplitNALUs
<1>2. \A v, typ : Units(v, typ).nalus = v /\ Units(v, typ).typ = typ
      BY DEF Units
<1>3. Ends(b) # {} => annexb = Ok(x, Len(b))
      BY SplitAnnexbIs
<1>4. Ends(b) = {} => annexb = Err
      BY SplitAnnexbIs
<1>5. Ok(x, Len(b)).ok /\ Ok(x, Len(b)).v = x
      BY OkIs
<1>6. ~Err.ok
      BY DEF Err
<1> HIDE DEF avcc, annexb, x
<1>7. CASE avcc.ok
  <2>1. r = Units(avcc.v, "AVCC")
        BY <1>1, <1>7
  <2>2. r.nalus = avcc.v /\ r.typ = "AVCC"
        BY <2>1, <1>2
  <2> QED  BY <2>2, <1>7 DEF avcc
<1>8. CASE ~avcc.ok /\ Ends(b) # {}
  <2>1. annexb.ok /\ annexb.v = x
        BY <1>3, <1>5, <1>8
  <2>2. r = Units(x, "ANNEXB")
        BY <2>1, <1>1, <1>8
  <2>3. r.nalus = x /\ r.typ = "ANNEXB"
        BY <2>2, <1>2
  <2> QED  BY <2>3, <1>8 DEF avcc, x
<1>9. CASE ~avcc.ok /\ Ends(b) = {}
  <2>1. ~annexb.ok
        BY <1>4, <1>6, <1>9
  <2>2. r = Units(<<b>>, "RAW")
        BY <2>1, <1>1, <1>9
  <2>3. r.nalus = <<b>> /\ r.typ = "RAW"
        BY <2>2, <1>2
  <2> QED  BY <2>3, <1>4, <1>9 DEF avcc, x
<1> QED  BY <1>7, <1>8, <1>9

LEMMA SplitIsKept ==
    ASSUME NEW b \in Seq(Byte)
    PROVE  SplitKept(b, SplitNALUs(b))
<1> DEFINE r == SplitNALUs(b)
<1>1. \/ SplitAVCC(b).ok /\ r.nalus = SplitAVCC(b).v /\ r.typ = "AVCC"
      \/ ~SplitAVCC(b).ok /\ Ends(b) # {} /\ r.nalus = CutUnits(b) /\ r.typ = "ANNEXB"
      \/ ~SplitAVCC(b).ok /\ Ends(b) = {} /\ r.nalus = <<b>> /\ r.typ = "RAW"
      BY SplitNALUsIs
<1> HIDE DEF r
<1>2. SplitAVCC(b).ok => JoinAVCC(SplitAVCC(b).v) = b
      BY SplitAVCCBack
<1>t. Trimmed(CutUnits(b)) = Trim(Behind(b, 0)) \o AnnexbUnits(b)
      BY CutUnitsTrimmed
<1>3. SplitKept(b, r)
      BY <1>1, <1>2, <1>t DEF SplitKept
<1> QED  BY <1>3 DEF r

LEMMA StreamIsKept ==
    ASSUME NEW ns \in Seq(Seq(Byte)), ns # <<>>, NEW long \in BOOLEAN
    PROVE  StreamKept(ns, long, SplitNALUs(ByteStream(ns, long)))
<1> DEFINE b == ByteStream(ns, long)  r == SplitNALUs(b)
<1> HIDE DEF r
<1> SUFFICES ASSUME \A i \in DOMAIN ns : ProperUnit(ns[i])
             PROVE  r.nalus = ns \/ (r.typ = "AVCC" /\ ~Unmistakable(ns, long))
    BY DEF StreamKept, r
<1>1. ProperUnits(ns)
      BY LenProperties DEF ProperUnits
<1> DEFINE c == Len(StartCode(long))
<1>2. b \in Seq(Byte) /\ \E at : StreamAt(b, ns, at, c)
  <2>1. PICK s : Framed(ns, long, s) /\ b = FlattenSeq(s)
        BY StreamFramed
  <2>2. s \in Seq(Seq(Byte))
        BY <2>1 DEF Framed
  <2>3. PICK g \in [0..Len(s) -> Seq(Byte)] : Concats(s, g)
        BY <2>2, ConcatsExist
  <2> DEFINE at == [k \in 0..Len(ns) |-> Len(g[k])]
  <2>4. b \in Seq(Byte) /\ StreamAt(b, ns, at, c)
    <3> HIDE DEF b
    <3> QED  BY <2>1, <2>3, StreamIs
  <2> HIDE DEF at, b, c
  <2> QED  BY <2>4
<1>3. SplitAVCC(b).ok => SplitAVCC(b).v = ns \/ ~Unmistakable(ns, long)
      BY <1>1, StreamGuess
<1> HIDE DEF b, c
<1>4. CutUnits(b) = ns /\ Ends(b) # {}
      BY <1>1, <1>2, StreamUnits
<1>5. \/ SplitAVCC(b).ok /\ r.nalus = SplitAVCC(b).v /\ r.typ = "AVCC"
      \/ ~SplitAVCC(b).ok /\ Ends(b) # {} /\ r.nalus = CutUnits(b) /\ r.typ = "ANNEXB"
      \/ ~SplitAVCC(b).ok /\ Ends(b) = {} /\ r.nalus = <<b>> /\ r.typ = "RAW"
      BY <1>2, SplitNALUsIs DEF r
<1> QED  BY <1>3, <1>4, <1>5

LEMMA AvccIsKept ==
    ASSUME NEW ns \in UnitLists
    PROVE  SplitNALUs(JoinAVCC(ns)) = Units(ns, "AVCC")
<1>1. /\ ns \in Seq(Seq(Byte)) /\ ns # <<>>
      /\ \A i \in 1..Len(ns) : Len(ns[i]) < (ByteMod * ByteMod) * (ByteMod * ByteMod)
      BY FramingAssumption
<1>2. SplitAVCC(JoinAVCC(ns)).ok /\ SplitAVCC(JoinAVCC(ns)).v = ns
      BY <1>1, AvccUnitsBack
<1> QED  BY <1>2 DEF SplitNALUs

-----------------------------------------------------------------------------
(* The theorems about calls                                                *)

\* What a call leaves.
LEMMA CallIs ==
    ASSUME NEW fn, NEW arg, NEW res, Call(fn, arg, res)
    PROVE  call'.fn = fn /\ call'.arg = arg /\ call'.res = res
BY DEF Call

\* Integers are read as they were written, and slices are those of the bytes.
THEOREM FieldsTheorem == FramingSpec => []FieldsSurvive
<1>1. FramingInit => FieldsSurvive
      BY DEF FramingInit, Idle, FieldsSurvive
<1>2. FieldsSurvive /\ [FramingNext]_call => FieldsSurvive'
  <2> SUFFICES ASSUME FieldsSurvive, [FramingNext]_call
               PROVE  FieldsSurvive'
      OBVIOUS
  <2>1. CASE CallSplitNALUs
    <3>1. call'.fn = "SplitNALUs"
          BY <2>1, CallIs DEF CallSplitNALUs
    <3> QED  BY <3>1 DEF FieldsSurvive
  <2>2. CASE CallJoinAVCC
    <3>1. call'.fn = "JoinNALUsAVCC"
          BY <2>2, CallIs DEF CallJoinAVCC
    <3> QED  BY <3>1 DEF FieldsSurvive
  <2>3. CASE CallJoinAnnexb
    <3>1. call'.fn = "JoinNALUsAnnexb"
          BY <2>3, CallIs DEF CallJoinAnnexb
    <3> QED  BY <3>1 DEF FieldsSurvive
  <2>4. CASE CallIntegers
    <3>1. PICK v \in Ints, k \in 1..8, n \in 0..2 :
              Call("Integers", <<v, k, n>>, IntegerBack(v, k, n))
          BY <2>4 DEF CallIntegers
    <3>2. v \in Int /\ IntegerKept(v, k, n, IntegerBack(v, k, n))
          BY FramingAssumption, IntegerIsKept
    <3> DEFINE r == IntegerBack(v, k, n)
    <3> HIDE DEF r
    <3>3. call'.fn = "Integers" /\ call'.arg = <<v, k, n>> /\ call'.res = r
          BY <3>1, CallIs DEF r
    <3>4. IntegerKept(call'.arg[1], call'.arg[2], call'.arg[3], call'.res)
          BY <3>2, <3>3 DEF r
    <3> QED  BY <3>3, <3>4 DEF FieldsSurvive
  <2>5. CASE CallVecSliceTo
    <3>1. PICK in \in Vectors, s \in Offsets, e \in Offsets :
              Call("VecSliceTo", <<in, s, e>>, VecSliceTo(in, s, e))
          BY <2>5 DEF CallVecSliceTo
    <3>2. SliceKept(in, s, e, VecSliceTo(in, s, e))
          BY FramingAssumption, SliceIsKept
    <3> DEFINE r == VecSliceTo(in, s, e)
    <3> HIDE DEF r
    <3>3. call'.fn = "VecSliceTo" /\ call'.arg = <<in, s, e>> /\ call'.res = r
          BY <3>1, CallIs DEF r
    <3>4. SliceKept(call'.arg[1], call'.arg[2], call'.arg[3], call'.res)
          BY <3>2, <3>3 DEF r
    <3> QED  BY <3>3, <3>4 DEF FieldsSurvive
  <2>6. CASE Return
        BY <2>6 DEF Return, Idle, FieldsSurvive
  <2>7. CASE UNCHANGED call
        BY <2>7 DEF FieldsSurvive
  <2> QED  BY <2>1, <2>2, <2>3, <2>4, <2>5, <2>6, <2>7 DEF FramingNext, FramingCalls
<1> QED  BY <1>1, <1>2, PTL DEF FramingSpec

\* Units come back whole and in order from behind lengths, always, and from
\* between start codes, unless the stream is long enough to be well-formed the
\* other way.  What is split joins to what it was, or is what Annex B says, up to
\* zeros that trail a unit or precede the first start code, or has no start code.
THEOREM NALUsTheorem == FramingSpec => []NALUsSurvive
<1>1. FramingInit => NALUsSurvive
      BY DEF FramingInit, Idle, NALUsSurvive
<1>2. NALUsSurvive /\ [FramingNext]_call => NALUsSurvive'
  <2> SUFFICES ASSUME NALUsSurvive, [FramingNext]_call
               PROVE  NALUsSurvive'
      OBVIOUS
  <2>1. CASE CallSplitNALUs
    <3>1. PICK b \in Buffers : Call("SplitNALUs", b, SplitNALUs(b))
          BY <2>1 DEF CallSplitNALUs
    <3>2. SplitKept(b, SplitNALUs(b))
          BY FramingAssumption, SplitIsKept
    <3> DEFINE r == SplitNALUs(b)
    <3> HIDE DEF r
    <3>3. call'.fn = "SplitNALUs" /\ call'.arg = b /\ call'.res = r
          BY <3>1, CallIs DEF r
    <3>4. SplitKept(call'.arg, call'.res)
          BY <3>2, <3>3 DEF r
    <3> QED  BY <3>3, <3>4 DEF NALUsSurvive
  <2>2. CASE CallJoinAVCC
    <3>1. PICK ns \in UnitLists : Call("JoinNALUsAVCC", ns, SplitNALUs(JoinAVCC(ns)))
          BY <2>2 DEF CallJoinAVCC
    <3> DEFINE r == SplitNALUs(JoinAVCC(ns))
    <3> HIDE DEF r
    <3>2. r = Units(ns, "AVCC")
          BY AvccIsKept DEF r
    <3>3. call'.fn = "JoinNALUsAVCC" /\ call'.arg = ns /\ call'.res = r
          BY <3>1, CallIs DEF r
    <3>4. call'.res = Units(call'.arg, "AVCC")
          BY <3>2, <3>3
    <3> QED  BY <3>3, <3>4 DEF NALUsSurvive
  <2>3. CASE CallJoinAnnexb
    <3>1. PICK ns \in UnitLists, long \in BOOLEAN :
              Call("JoinNALUsAnnexb", [ns |-> ns, long |-> long], SplitNALUs(ByteStream(ns, long)))
          BY <2>3 DEF CallJoinAnnexb
    <3>2. StreamKept(ns, long, SplitNALUs(ByteStream(ns, long)))
          BY FramingAssumption, StreamIsKept
    <3> DEFINE r == SplitNALUs(ByteStream(ns, long))  a == [ns |-> ns, long |-> long]
    <3>3. a.ns = ns /\ a.long = long
          OBVIOUS
    <3> HIDE DEF r, a
    <3>4. call'.fn = "JoinNALUsAnnexb" /\ call'.arg = a /\ call'.res = r
          BY <3>1, CallIs DEF r, a
    <3>5. StreamKept(call'.arg.ns, call'.arg.long, call'.res)
          BY <3>2, <3>3, <3>4 DEF r
    <3> QED  BY <3>4, <3>5 DEF NALUsSurvive
  <2>4. CASE CallIntegers
    <3>1. call'.fn = "Integers"
          BY <2>4, CallIs DEF CallIntegers
    <3> QED  BY <3>1 DEF NALUsSurvive
  <2>5. CASE CallVecSliceTo
    <3>1. call'.fn = "VecSliceTo"
          BY <2>5, CallIs DEF CallVecSliceTo
    <3> QED  BY <3>1 DEF NALUsSurvive
  <2>6. CASE Return
        BY <2>6 DEF Return, Idle, NALUsSurvive
  <2>7. CASE UNCHANGED call
        BY <2>7 DEF NALUsSurvive
  <2> QED  BY <2>1, <2>2, <2>3, <2>4, <2>5, <2>6, <2>7 DEF FramingNext, FramingCalls
<1> QED  BY <1>1, <1>2, PTL DEF FramingSpec

==============================================================================
