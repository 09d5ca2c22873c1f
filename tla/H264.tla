-------------------------------- MODULE H264 --------------------------------
(***************************************************************************)
(* Parameter sets and the decoder configuration of H.264 (codec/h264).     *)
(* A byte has 8 bits here.                                                 *)
(***************************************************************************)
EXTENDS Bits, FiniteSets, TLC

Nalu256 == INSTANCE Nalu WITH ByteMod <- 256

NaluSPS == 7
NaluPPS == 8

NALUType(b) == IF b = <<>> THEN 0 ELSE b[1] % 32

\* Deviation: a 3 is removed behind any zero.
RECURSIVE RemoveEmulationAny(_)
RemoveEmulationAny(b) ==
    IF Len(b) < 2 THEN b
    ELSE IF b[1] = 0 /\ b[2] = 3 THEN <<0>> \o RemoveEmulationAny(SubSeq(b, 3, Len(b)))
    ELSE <<b[1]>> \o RemoveEmulationAny(Tail(b))

\* RemoveH264orH265EmulationBytes: 0 0 3 becomes 0 0.
RECURSIVE RemoveEmulation(_)
RemoveEmulation(b) ==
    IF Len(b) < 3 THEN b
    ELSE IF SubSeq(b, 1, 3) = <<0, 0, 3>> THEN <<0, 0>> \o RemoveEmulation(SubSeq(b, 4, Len(b)))
    ELSE <<b[1]>> \o RemoveEmulation(Tail(b))

-----------------------------------------------------------------------------
(* ParseSPS as a grammar: fields in the order they are read, fields that   *)
(* are read if an earlier one has a value in a set, and fields read as     *)
(* many times as an earlier one says.                                      *)

U(n, name) == [kind |-> "u", n |-> n, name |-> name]
Flag(name) == U(1, name)
UE(name) == [kind |-> "ue", name |-> name]
SE(name) == [kind |-> "se", name |-> name]
ScalingList(n) == [kind |-> "list", n |-> n, name |-> "list"]
If(name, S, fields) == [kind |-> "if", name |-> name, in |-> S, then |-> fields]
Times(name, field) == [kind |-> "times", name |-> name, field |-> field]

HighProfiles == {100, 110, 122, 244, 44, 83, 86, 118}

ScalingLists ==
    FlattenSeq([i \in 1..8 |-> <<Flag("list_present"),
                                 If("list_present", {1}, <<ScalingList(IF i <= 6 THEN 16 ELSE 64)>>)>>])

HighFields ==
    <<UE("chroma_format_idc"), If("chroma_format_idc", {3}, <<Flag("residual_colour")>>),
      UE("bit_depth_luma"), UE("bit_depth_chroma"), Flag("qpprime"),
      Flag("scaling_matrix"), If("scaling_matrix", {1}, ScalingLists)>>

OrderCountFields ==
    <<UE("pic_order_cnt_type"),
      If("pic_order_cnt_type", {0}, <<UE("log2_max_lsb")>>),
      If("pic_order_cnt_type", {1},
         <<Flag("delta_always_zero"), SE("offset_non_ref"), SE("offset_top_bottom"),
           UE("num_ref_frames_in_cycle"), Times("num_ref_frames_in_cycle", SE("offset_ref"))>>)>>

VUIFields ==
    <<Flag("aspect"), If("aspect", {1},
           <<U(8, "aspect_idc"), If("aspect_idc", {255}, <<U(16, "sar_width"), U(16, "sar_height")>>)>>),
      Flag("overscan"), If("overscan", {1}, <<Flag("overscan_appropriate")>>),
      Flag("signal"), If("signal", {1}, <<U(3, "format"), Flag("full_range"), Flag("colour"),
           If("colour", {1}, <<U(8, "primaries"), U(8, "transfer"), U(8, "matrix")>>)>>),
      Flag("chroma_loc"), If("chroma_loc", {1}, <<SE("top"), SE("bottom")>>),
      Flag("timing"), If("timing", {1}, <<U(32, "num_units"), U(32, "time_scale"), Flag("fixed")>>)>>

PictureFields ==
    <<UE("max_num_ref_frames"), Flag("gaps"), UE("MbWidth"), UE("MbHeight"),
      Flag("frame_mbs_only"), If("frame_mbs_only", {0}, <<Flag("adaptive")>>), Flag("direct"),
      Flag("crop"),
      If("crop", {1}, <<UE("CropLeft"), UE("CropRight"), UE("CropTop"), UE("CropBottom")>>)>>

SPSFields ==
    <<U(8, "header"), U(8, "ProfileIdc"), U(8, "constraints"), U(8, "LevelIdc"), UE("Id"),
      If("ProfileIdc", HighProfiles, HighFields), UE("log2_max_frame_num")>>
    \o OrderCountFields \o PictureFields
    \o <<Flag("vui"), If("vui", {1}, VUIFields)>>

PPSFields == <<U(8, "header"), UE("Id"), UE("SPSId")>>

\* A scaling list ends early when the next scale is 0.
RECURSIVE GList(_, _, _, _)
GList(g, n, last, next) ==
    IF n = 0 \/ next = 0 THEN Ok(next, g)
    ELSE Then(GSE(g), LAMBDA delta, h :
        LET scale == (last + delta + 256) % 256
        IN  GList(h, n - 1, IF scale = 0 THEN last ELSE scale, scale))

GField(g, f) ==
    CASE f.kind = "u" -> GBits(g, f.n)
      [] f.kind = "ue" -> GUE(g)
      [] f.kind = "se" -> GSE(g)
      [] f.kind = "list" -> GList(g, f.n, 8, 8)

\* Reads the fields; env has the values so far, the cropping is 0 by default.
RECURSIVE GParse(_, _, _)
GParse(g, fields, env) ==
    LET f == Head(fields)
        more == Tail(fields)
    IN  IF fields = <<>> THEN Ok(env, g)
        ELSE CASE f.kind = "if" ->
                    GParse(g, (IF env[f.name] \in f.in THEN f.then ELSE <<>>) \o more, env)
               [] f.kind = "times" ->
                    GParse(g, [i \in 1..env[f.name] |-> f.field] \o more, env)
               [] OTHER ->
                    Then(GField(g, f), LAMBDA x, h : GParse(h, more, (f.name :> x) @@ env))

NoCropping == [name \in {"CropLeft", "CropRight", "CropTop", "CropBottom"} |-> 0]

\* SPSInfo, as far as anybody uses it.
SPSInfo(e) ==
    [Id |-> e["Id"],
     Width |-> (e["MbWidth"] + 1) * 16 - e["CropLeft"] * 2 - e["CropRight"] * 2,
     Height |-> (2 - e["frame_mbs_only"]) * (e["MbHeight"] + 1) * 16
                    - e["CropTop"] * 2 - e["CropBottom"] * 2,
     FPS |-> IF e["vui"] = 1 /\ e["timing"] = 1
             THEN e["time_scale"] \div (2 * e["num_units"]) ELSE 0]

ParseSPS(b) == As(GParse(NewGolomb(RemoveEmulation(b)), SPSFields, NoCropping), SPSInfo)

\* ParseSPSId
ParseSPSId(b) == GParse(NewGolomb(RemoveEmulation(b)), SubSeq(SPSFields, 1, 5), NoCropping)

ParsePPS(b) == GParse(NewGolomb(b), PPSFields, NoCropping)

-----------------------------------------------------------------------------
(* Codec: parameter sets by their ids.  Its hash stands for the two maps.  *)

NewCodec == [SPS |-> <<>>, PPS |-> <<>>, W |-> 0, H |-> 0]

AddSPS(c, b, sps) ==
    IF sps.ok THEN [c EXCEPT !.SPS = (sps.v.Id :> b) @@ @, !.W = sps.v.Width, !.H = sps.v.Height]
    ELSE c

AddPPS(c, b, pps) == IF pps.ok THEN [c EXCEPT !.PPS = (pps.v["Id"] :> b) @@ @] ELSE c

\* What is neither, or cannot be read, is ignored.
AddSPSPPS(c, b) ==
    CASE NALUType(b) = NaluSPS -> AddSPS(c, b, ParseSPS(b))
      [] NALUType(b) = NaluPPS -> AddPPS(c, b, ParsePPS(b))
      [] OTHER -> c

AddAll(c, nalus) == FoldLeft(AddSPSPPS, c, nalus)

\* Map2arr, with the ids in their order.
Map2arr(m) ==
    [i \in 1..Cardinality(DOMAIN m) |->
        m[CHOOSE id \in DOMAIN m : Cardinality({k \in DOMAIN m : k < id}) = i - 1]]

\* The parameter sets of a map in a record, each behind its length.
PutSets(m) ==
    FlattenSeq([i \in DOMAIN Map2arr(m) |-> Nalu256!PutBE(Len(Map2arr(m)[i]), 2) \o Map2arr(m)[i]])

\* ToConfig; first is the SPS that a range over the map yields first.
ToConfig(c, first) ==
    <<1>> \o [i \in 1..3 |-> IF i < Len(first) THEN first[i + 1] ELSE 0]
    \o <<255, 224 + (Cardinality(DOMAIN c.SPS) % 32)>> \o PutSets(c.SPS)
    \o <<Cardinality(DOMAIN c.PPS)>> \o PutSets(c.PPS)

\* Some parameter sets, each behind its length, are added to c.
RECURSIVE AddSets(_, _, _, _)
AddSets(c, b, n, count) ==
    IF count = 0 THEN Ok(c, n)
    ELSE Then(Nalu256!ReadU(b, n, 2), LAMBDA len, p :
        Then(Nalu256!Read(b, p, len), LAMBDA set, q : AddSets(AddSPSPPS(c, set), b, q, count - 1)))

FromDecoderConfig(b) ==
    Then(Nalu256!ReadU(b, 5, 1), LAMBDA spscount, p :
        Then(AddSets(NewCodec, b, p, spscount % 32), LAMBDA c, q :
            Then(Nalu256!ReadU(b, q, 1), LAMBDA ppscount, r : AddSets(c, b, r, ppscount))))

\* FromOld, with the maps in the order of their ids.
FromOld(c) == AddAll(AddAll(NewCodec, Map2arr(c.SPS)), Map2arr(c.PPS))
=============================================================================
