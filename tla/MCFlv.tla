------------------------------- MODULE MCFlv -------------------------------
(* An instance of Flv for TLC: every kind of packet, times at the limits of their fields. *)
EXTENDS Flv

Pkt(type, time, data) == [Type |-> type, IsKeyFrame |-> FALSE, Time |-> time, CTime |-> 0,
                          Data |-> data]

MCPackets ==
    { [Pkt("H264", LoMod, <<1>>) EXCEPT !.IsKeyFrame = TRUE, !.CTime = -2],
      [Pkt("H264", TimeMod, <<2>>) EXCEPT !.CTime = 1],
      Pkt("AAC", TimeMod - 1, <<>>), Pkt("AACDecoderConfig", 1, <<3>>),
      Pkt("H264DecoderConfig", 1, <<4>>), Pkt("H264SPSPPSNALU", 1, <<5>>),
      Pkt("Metadata", LoMod + 1, <<6, 7>>), Pkt("Metadata", 1, <<>>),
      Pkt("Metadata", 1, <<Unparsable>>) }

\* gives: the metadata the tag stands for, if any.  Metadata in AMF0, with one name or
\* two and with or without values, is among what joy5 writes.
Tg(type, data, gives) == [Type |-> type, Time |-> 1, Data |-> data, gives |-> gives]

MCForeign ==
    { Tg(TAG_AUDIO, <<2, 8>>, <<>>),                       \* mp3
      Tg(TAG_AUDIO, <<SOUND_AAC>>, <<>>),                  \* too short
      Tg(TAG_VIDEO, <<FRAME_KEY, VIDEO_H264, 2, 0>>, <<>>),  \* end of sequence
      Tg(TAG_VIDEO, <<FRAME_KEY, VIDEO_H265, AVC_NALU, 0, 8>>, <<>>),
      Tg(TAG_AMF3, <<0, OnMetaData, 8>>, <<8>>),
      Tg(TAG_AMF0, <<SetDataFrame>>, <<>>) }
=============================================================================
