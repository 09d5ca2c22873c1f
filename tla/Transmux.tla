------------------------------ MODULE Transmux ------------------------------
(***************************************************************************)
(* The loops of avtool that rewrite H.264 packets: seqhdr.go moves the     *)
(* parameter sets into the key frames, avcc2annexb.go wraps every packet's *)
(* byte stream as one unit.                                                *)
(***************************************************************************)
EXTENDS H264

CONSTANTS ConfigSets, \* sequences of parameter sets, with ids of their own, of a configuration
          FrameUnits, \* sequences of units that a packet may have
          Nil         \* no *h264.Codec, no packet

VARIABLES cmd,     \* the command that runs
          seqhdr,  \* h264seqhdr
          pkt,     \* the packet read last, with the units it was made of
          out,     \* what was written for it
          sets     \* the parameter sets of the last configuration

cmdvars == <<cmd, seqhdr, pkt, out, sets>>

TransmuxInit == cmd = "none" /\ seqhdr = Nil /\ pkt = Nil /\ out = Nil /\ sets = <<>>

Loops == {"moveh264seqhdrtokeyframe", "avcc2annexb"}

Start(c) == cmd = "none" /\ cmd' = c /\ UNCHANGED <<seqhdr, pkt, out, sets>>

\* The end of the file: the command returns.
EndOfFile ==
    /\ cmd \in Loops
    /\ cmd' = "none" /\ seqhdr' = Nil /\ pkt' = Nil /\ out' = Nil /\ sets' = <<>>

\* A packet of units, as one of the two forms of a frame, or as it is.
Frame(key, units, form) ==
    [key |-> key, units |-> units,
     data |-> IF form = "AVCC" THEN Nalu256!JoinAVCC(units) ELSE Nalu256!JoinAnnexb(units)]

\* What is read of a configuration with these parameter sets.
Configs ==
    [nalus \in ConfigSets |->
        LET c == AddAll(NewCodec, nalus)
            sps == Map2arr(c.SPS)
        IN  FromDecoderConfig(ToConfig(c, IF sps = <<>> THEN <<>> ELSE sps[1]))]

\* case av.H264DecoderConfig: it is remembered and not written.
ReadSeqhdr(nalus) ==
    /\ cmd = "moveh264seqhdrtokeyframe"
    /\ Configs[nalus].ok
    /\ seqhdr' = Configs[nalus].v
    /\ sets' = nalus
    /\ pkt' = Nil /\ out' = Nil
    /\ UNCHANGED cmd

\* case av.H264 of doMoveH264SeqhdrToKeyFrame.
Moved(p) ==
    Nalu256!JoinAnnexb((IF p.key THEN Map2arr(seqhdr.SPS) \o Map2arr(seqhdr.PPS) ELSE <<>>)
                 \o Nalu256!SplitNALUs(p.data).nalus)

ReadFrameMove(p) ==
    /\ cmd = "moveh264seqhdrtokeyframe"
    /\ ~p.key \/ seqhdr # Nil
    /\ pkt' = p
    /\ out' = Moved(p)
    /\ UNCHANGED <<cmd, seqhdr, sets>>

\* h264seqhdr is followed and nil: a key frame came before any configuration.
ReadFrameCrash(p) ==
    /\ cmd = "moveh264seqhdrtokeyframe"
    /\ p.key /\ seqhdr = Nil
    /\ cmd' = "crashed"
    /\ UNCHANGED <<seqhdr, pkt, out, sets>>

\* doAvcc2Annexb
ReadFrameWrap(p) ==
    /\ cmd = "avcc2annexb"
    /\ pkt' = p
    /\ out' = Nalu256!JoinAVCC(<<Nalu256!JoinAnnexb(Nalu256!SplitNALUs(p.data).nalus)>>)
    /\ UNCHANGED <<cmd, seqhdr, sets>>

TransmuxNext ==
    \/ \E c \in Loops : Start(c)
    \/ EndOfFile
    \/ \E s \in ConfigSets : ReadSeqhdr(s)
    \/ \E key \in BOOLEAN, units \in FrameUnits, form \in {"AVCC", "ANNEXB"} :
          LET p == Frame(key, units, form)
          IN  ReadFrameMove(p) \/ ReadFrameCrash(p) \/ ReadFrameWrap(p)

\* Whatever form a frame has, the units it was made of are in what is written,
\* in their order; in a key frame behind the parameter sets announced last, each
\* SPS before each PPS.
FramesKeepUnits ==
    out # Nil =>
        LET units == Nalu256!SplitNALUs(out).nalus
            k == IF pkt.key THEN Len(sets) ELSE 0
            moved == SubSeq(units, 1, k)
        IN  IF cmd = "avcc2annexb"
            THEN Len(units) = 1 /\ Nalu256!SplitNALUs(units[1]).nalus = pkt.units
            ELSE /\ SubSeq(units, k + 1, Len(units)) = pkt.units
                 /\ ToSet(moved) = (IF pkt.key THEN ToSet(sets) ELSE {})
                 /\ \A i, j \in 1..k : i < j => NALUType(moved[i]) <= NALUType(moved[j])
=============================================================================
