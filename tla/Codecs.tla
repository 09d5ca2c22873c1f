------------------------------- MODULE Codecs -------------------------------
(***************************************************************************)
(* Callers of the codecs: what one function writes is given to the         *)
(* function that reads it, or to the reader what another program writes    *)
(* (CodecRef).  The callers of NAL units, integers and slices are those of *)
(* Framing.  The loops of Transmux run while nobody calls.                 *)
(*                                                                         *)
(* Limits of the formats that lie at powers of the byte's size are met     *)
(* with small bytes: of ByteMod = 4 values in Framing, of 18 for AMF (a    *)
(* byte must hold its markers), of 2 bits, 4 to a word, for bit fields.    *)
(***************************************************************************)
EXTENDS Framing, Transmux, Aac, CodecRef

CONSTANTS SPSs,         \* sequence parameter sets, as CodecRef has them
          SetLists,     \* sequences of <<"sps", s>>, <<"pps", id>>, <<"other", unit>>
          AudioConfigs, \* audio configurations; idx and ch may be 0 for "by rate, by layout"
          Payloads,     \* lengths of ADTS payloads
          Vals,         \* AMF values
          ValLists,     \* sequences of them
          FieldGroups,  \* sequences of groups of fields <<width, value>>
          Tails,        \* sequences of bytes
          Codes         \* sequences of <<"ue", v>> and <<"se", v>>

\* The configuration that is meant: an index of 0 gives way to what is in the
\* table for the rate or the layout.
Meant(c) ==
    /\ c.rate \in ToSet(sampleRateTable) /\ c.layout \in ToSet(chanConfigTable)
    /\ c.idx = 0 \/ sampleRateTable[c.idx + 1] = c.rate
    /\ c.ch = 0 \/ chanConfigTable[c.ch + 1] = c.layout

ASSUME CodecsAssumption == \A c \in AudioConfigs : Meant(c)

Amf18 == INSTANCE Amf WITH ByteMod <- 18
Bits2 == INSTANCE Bits WITH ByteBits <- 2, Word <- 8

-----------------------------------------------------------------------------
(* Bit fields                                                               *)

\* A group of fields is written, with bytes behind it, and flushed.
WriteGroup(w, g, tail) ==
    Bits2!FlushBits(Bits2!WriteBytes(FoldLeft(LAMBDA u, f : Bits2!WriteBits(u, f[2], f[1]), w, g),
                                     tail))

\* It is read again: the values so far, and the reader.
ReadGroup(acc, widths) ==
    FoldLeft(LAMBDA a, n : LET x == Bits2!ReadBits(a.r, n)
                           IN  IF x.ok THEN [v |-> Append(a.v, x.v), r |-> x.n] ELSE a,
             acc, widths)

Widths(g) == [i \in DOMAIN g |-> g[i][1]]
Values(g) == [i \in DOMAIN g |-> g[i][2]]

Total(g) == FoldLeft(LAMBDA sum, f : sum + f[1], 0, g)

\* What fills up the last byte is read as one more field.
Pad(g) == IF Total(g) % 2 = 0 THEN g ELSE Append(g, <<1, 0>>)

CallBits ==
    \E gs \in FieldGroups, tail \in Tails :
        LET last == gs[Len(gs)]
            w == WriteGroup(FoldLeft(LAMBDA u, g : WriteGroup(u, g, <<>>), Bits2!NewWriter, Front(gs)),
                            last, tail)
            got == ReadGroup(FoldLeft(LAMBDA a, g : ReadGroup(a, Widths(Pad(g))),
                                      [v |-> <<>>, r |-> Bits2!NewReader(w.out)], Front(gs)),
                             Widths(last))
        IN  /\ Total(last) + 2 * Len(tail) <= 8
            /\ Call("Bits", <<gs, tail>>,
                    [out |-> w.out, v |-> got.v, tail |-> Bits2!ReadBytes(got.r, Len(tail)),
                     more |-> Bits2!ReadBytes(got.r, Len(tail) + 1).ok])

CallReadBytes ==
    \E b \in Tails, k \in 0..8 : Call("Read", <<b, k>>, Bits2!ReadBytes(Bits2!NewReader(b), k))

\* Codes are read in their order; nothing is behind them but what fills the byte.
ReadCodes(g, codes) ==
    FoldLeft(LAMBDA a, c : LET x == IF c[1] = "ue" THEN GUE(a.g) ELSE GSE(a.g)
                           IN  IF x.ok THEN [v |-> Append(a.v, x.v), g |-> x.n] ELSE a,
             [v |-> <<>>, g |-> g], codes)

CallGolomb ==
    \E codes \in Codes :
        LET bits == Concat(codes, LAMBDA c : IF c[1] = "ue" THEN UEBits(c[2]) ELSE SEBits(c[2]))
            got == ReadCodes(NewGolomb(Packed(bits, 8)), codes)
        IN  Call("Golomb", codes, [v |-> got.v, more |-> GUE(got.g).ok])

\* Bit fields that fit the word come back from any position in it, with whole
\* bytes behind them, and again after a flush, which fills up the last byte; so
\* do Golomb codes (of the signed ones the low bits).  Nothing is read past the end.
BitFieldsSurvive ==
    /\ call.fn = "Bits" =>
          LET gs == call.arg[1]
              tail == call.arg[2]
              bits == Concat(gs, LAMBDA g : Concat(g, LAMBDA f : BitsOf(f[2], f[1])))
              padded == Concat(Front(gs), LAMBDA g : Concat(Pad(g), LAMBDA f : BitsOf(f[2], f[1])))
              lastbits == Concat(Last(gs), LAMBDA f : BitsOf(f[2], f[1]))
          IN  /\ call.res.out = Packed(padded \o lastbits \o Concat(tail, LAMBDA x : BitsOf(x, 2)), 2)
              /\ call.res.v = Concat(Front(gs), LAMBDA g : Values(Pad(g))) \o Values(Last(gs))
              /\ call.res.tail.ok /\ call.res.tail.v = tail
              /\ ~call.res.more
    /\ call.fn = "Read" =>
          /\ call.res.ok <=> call.arg[2] <= Len(call.arg[1])
          /\ call.res.ok => call.res.v = SubSeq(call.arg[1], 1, call.arg[2])
    /\ call.fn = "Golomb" =>
          /\ Len(call.res.v) = Len(call.arg)
          /\ \A i \in DOMAIN call.arg : call.res.v[i] % 256 = call.arg[i][2] % 256
          /\ ~call.res.more

-----------------------------------------------------------------------------
(* Parameter sets, configurations and headers                              *)

CallParseSPS ==
    \E s \in SPSs :
        LET u == Unit(SPSBits(s)) IN Call("ParseSPS", s, <<ParseSPS(u), ParseSPSId(u)>>)

SetUnit(set) ==
    CASE set[1] = "sps" -> Unit(SPSBits(set[2]))
      [] set[1] = "pps" -> Unit(PPSBits(set[2], 0))
      [] OTHER -> set[2]

\* Any of the SPS may come first in a range over their map.
CallToConfig ==
    \E l \in SetLists :
        LET c == AddAll(NewCodec, [i \in DOMAIN l |-> SetUnit(l[i])])
        IN  \E id \in DOMAIN c.SPS :
                Call("ToConfig", l, <<FromDecoderConfig(ToConfig(c, c.SPS[id])), FromOld(c)>>)

\* What a list of sets leaves: the last one of each id.
Sets(l, typ, Id(_)) ==
    LET at == {i \in DOMAIN l : l[i][1] = typ}
        ids == {Id(l[i][2]) : i \in at}
    IN  [id \in ids |-> LET last == CHOOSE i \in at : /\ Id(l[i][2]) = id
                                                      /\ \A j \in at : Id(l[j][2]) = id => j <= i
                        IN  SetUnit(l[last])]

SPSMap(l) == Sets(l, "sps", LAMBDA s : s.id)
PPSMap(l) == Sets(l, "pps", LAMBDA id : id)

CallAudioConfig == \E c \in AudioConfigs : Call("WriteMPEG4AudioConfig", c, ParseConfig(WriteConfig(c)))

CallADTS ==
    \E c \in AudioConfigs, k \in 1..4, payload \in Payloads :
        Call("FillADTSHeader", [c |-> c, samples |-> 1024 * k, payload |-> payload],
             ParseADTSHeader(FillADTSHeader(c, 1024 * k, payload)))

\* What a stream says of itself survives the form it travels in: the size and
\* the rate in an SPS of whatever optional parts (but croppings count otherwise
\* in fields, and in 4:4:4); the parameter sets, the last of each id, in a
\* decoder configuration of less than 32 SPS; an audio configuration that has
\* its rate by index or by value, and one in every ADTS header, with its length.
\* So do the bit fields it is made of; and what the commands write has the sets
\* announced last, and the units of what they read.
ConfigsSurvive ==
    /\ BitFieldsSurvive
    /\ FramesKeepUnits
    /\ call.fn = "ParseSPS" =>
          LET s == call.arg
              r == call.res[1].v
          IN  /\ call.res[1].ok /\ r.Id = s.id /\ r.FPS = s.fps
              /\ call.res[2].ok /\ call.res[2].v["Id"] = s.id
              /\ s.chroma # 3 \/ s.crop = <<>> => r.Width = SPSWidth(s)
              /\ (s.chroma # 3 /\ s.frames) \/ s.crop = <<>> => r.Height = SPSHeight(s)
    /\ call.fn = "ToConfig" =>
          /\ <<call.res[2].SPS, call.res[2].PPS>> = <<SPSMap(call.arg), PPSMap(call.arg)>>
          /\ Cardinality(DOMAIN SPSMap(call.arg)) < 32 =>
                /\ call.res[1].ok
                /\ <<call.res[1].v.SPS, call.res[1].v.PPS>> = <<SPSMap(call.arg), PPSMap(call.arg)>>
    /\ call.fn = "WriteMPEG4AudioConfig" =>
          /\ call.res.ok
          /\ <<call.res.v.ot, call.res.v.rate, call.res.v.layout>>
                 = <<call.arg.ot, call.arg.rate, call.arg.layout>>
    /\ call.fn = "FillADTSHeader" /\ call.arg.c.ch # 0 /\ call.arg.c.ot <= 4
          /\ sampleRateTable[call.arg.c.idx + 1] = call.arg.c.rate =>
          /\ call.res.ok
          /\ call.res.v = [config |-> call.arg.c, hdrlen |-> 7,
                           framelen |-> call.arg.payload + 7, samples |-> call.arg.samples]

-----------------------------------------------------------------------------
(* AMF values                                                              *)

\* The lengths at which a parser takes the beginning of a value for a value.
Mistaken(b, amf3) == {i \in 1..(Len(b) - 1) : Amf18!ParseVals(SubSeq(b, 1, i), amf3).ok}

\* As AMF0, or behind a zero as what claims to be AMF3.
CallFillAMF0 ==
    \E vs \in ValLists, zero \in {<<>>, <<0>>} :
        Call("FillAMF0Vals", vs, Amf18!ParseVals(zero \o Amf18!FillVals(vs), zero # <<>>))

CallFillAMF0Prefix == \E v \in Vals : Call("Prefix", v, Mistaken(Amf18!Fill0(v), FALSE))

\* An ECMA array of another program: its keys have lengths, its count is a hint.
EcmaBytes(kvs, hint) ==
    <<8>> \o Amf18!PutBE(hint, 4)
    \o Concat(kvs, LAMBDA kv : Amf18!PutBE(Len(kv.k), 2) \o kv.k \o Amf18!Fill0(kv.v))
    \o Amf18!ObjectEnd

CallParseECMA ==
    \E v \in Vals, hint \in {0, 2} :
        /\ v[1] = "map"
        /\ Call("ECMAArray", v, Amf18!ParseVals(EcmaBytes(v[2], hint), FALSE))

\* What joy5 reads of AMF3: no booleans, no arrays without names.
RECURSIVE InAMF3(_)
InAMF3(v) ==
    /\ v[1] \in {"num", "str", "date", "bytes", "nil", "map"}
    /\ v[1] = "map" => \A i \in DOMAIN v[2] : v[2][i].k # <<>> /\ InAMF3(v[2][i].v)

CallParseAMF3 ==
    \E v \in Vals, form \in {"array", "dynamic", "class"} :
        /\ InAMF3(v)
        /\ LET b == Amf3(v, form, 18)
           IN  Call("AMF3", v, <<Amf18!ParseVals(b, TRUE), Mistaken(b, TRUE)>>)

\* What is written of a value: not the members of a map without a name.
RECURSIVE Written(_)
Written(v) ==
    LET Val(kv) == [kv EXCEPT !.v = Written(@)]
        named == SelectSeq(v[2], LAMBDA kv : kv.k # <<>>)
    IN  CASE v[1] = "map" -> Amf18!AMFMap([i \in DOMAIN named |-> Val(named[i])])
          [] v[1] = "arr" -> Amf18!AMFArray([i \in DOMAIN v[2] |-> Written(v[2][i])])
          [] OTHER -> v

\* Values come back as they were filled in, nested ones and long strings as
\* well, one behind the other; a beginning of a value is an error and never a
\* shorter value.  So does what other programs write, in AMF3 or as ECMA arrays.
ValuesSurvive ==
    /\ call.fn = "FillAMF0Vals" =>
          call.res.ok /\ call.res.v = [i \in DOMAIN call.arg |-> Written(call.arg[i])]
    /\ call.fn = "Prefix" => call.res = {}
    /\ call.fn = "ECMAArray" /\ Written(call.arg) = call.arg =>
          call.res.ok /\ call.res.v = <<call.arg>>
    /\ call.fn = "AMF3" =>
          /\ call.res[1].ok /\ call.res[1].v = <<call.arg>>
          /\ call.res[2] = {}

-----------------------------------------------------------------------------
CodecsInit == TransmuxInit /\ call = Idle

CodecCalls ==
    \/ CallParseSPS \/ CallToConfig \/ CallAudioConfig \/ CallADTS
    \/ CallFillAMF0 \/ CallFillAMF0Prefix \/ CallParseECMA \/ CallParseAMF3
    \/ CallBits \/ CallReadBytes \/ CallGolomb

CodecsNext ==
    \/ call = Idle /\ cmd = "none" /\ (FramingCalls \/ CodecCalls) /\ UNCHANGED cmdvars
    \/ Return /\ UNCHANGED cmdvars
    \/ call = Idle /\ TransmuxNext /\ UNCHANGED call
    \/ cmd = "crashed" /\ UNCHANGED <<cmdvars, call>>

CodecsSpec == CodecsInit /\ [][CodecsNext]_<<cmdvars, call>>
=============================================================================
