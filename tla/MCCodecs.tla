------------------------------ MODULE MCCodecs ------------------------------
(* An instance of Codecs for TLC. *)
EXTENDS Codecs

\* Units of bytes of 4 values, and all buffers of them.
MCBuffers == UNION {[1..n -> 0..3] : n \in 0..6} \union {<<0, 0, 0>> \o b : b \in [1..5 -> 0..3]}
             \union {<<0, 0, 1>> \o b : b \in [1..5 -> {0, 1, 3}]}

Units4 == UNION {[1..n -> 0..3] : n \in 0..3}

MCUnitLists == {<<u>> : u \in Units4 \union [1..4 -> {0, 1, 3}]}
               \union {<<u, v>> : u \in Units4, v \in {<<0, 3, 1>>, <<2, 0, 1>>, <<0, 0, 3>>, <<3>>, <<0, 1>>}}
               \union {<<<<1, 2>>, <<3>>, <<0, 0, 3, 2>>>>}

-----------------------------------------------------------------------------
Full16 == [i \in 1..16 |-> 16 + i]
Full64 == [i \in 1..64 |-> 16]

\* Eight scaling lists: full, with an end, with only a default.
SomeLists == <<Full16, <<>>, <<8, 20, 0>>, <<0>>, <<>>, <<200, 3, 0>>, Full64, <<7, 0>>>>

Timing == <<<<1, 1>>, <<0, 16>>, <<1, 16>>, <<0, 16>>, <<50, 16>>, <<1, 1>>>>

\* Aspect ratio, overscan, signal, chroma locations and timing; or only timing.
VUIs == { <<>>,
          <<<<0, 4>>>> \o Timing,
          <<<<1, 1>>, <<255, 8>>, <<4, 16>>, <<3, 16>>, <<3, 2>>, <<1, 1>>, <<5, 3>>, <<3, 2>>,
            <<1, 8>>, <<13, 8>>, <<0, 8>>, <<1, 1>>, <<3, 2>>>> \o Timing,
          <<<<1, 1>>, <<1, 8>>, <<0, 4>>>> }

SPS(profile, id, chroma, lists, poc, w, frames, crop, vui) ==
    [profile |-> profile, id |-> id, chroma |-> chroma, lists |-> lists, poc |-> poc,
     cycle |-> <<-4, 0, 7>>, w |-> w, h |-> 68, frames |-> frames, crop |-> crop, vui |-> vui,
     fps |-> IF Len(vui) > 5 THEN 25 ELSE 0]

MCSPSs ==
    {SPS(p[1], 0, p[2], p[3], poc, 120, frames, crop, vui) :
        p \in { <<66, 1, <<>>>>, <<100, 1, <<>>>>, <<100, 3, <<>>>>, <<100, 1, SomeLists>> },
        poc \in 0..2, frames \in BOOLEAN, crop \in {<<>>, <<0, 1, 0, 4>>}, vui \in VUIs}
    \union {SPS(66, id, 1, <<>>, 0, 1, TRUE, <<>>, <<>>) : id \in {1, 31}}

Small(id, w) == <<"sps", SPS(66, id, 1, <<>>, 2, w, TRUE, <<>>, <<>>)>>

MCSetLists ==
    { <<Small(0, 4), <<"pps", 0>>>>,
      <<<<"pps", 255>>, Small(3, 4), Small(1, 5), <<"other", <<>>>>, <<"pps", 0>>>>,
      <<Small(0, 4), <<"pps", 1>>, <<"other", <<6, 1>>>>, Small(0, 5), <<"pps", 1>>>>,
      <<Small(2, 9), <<"other", <<103>>>>, Small(2, 8), Small(2, 7)>> }
    \union { [i \in 1..n |-> Small(i - 1, 2)] \o <<<<"pps", 127>>>> : n \in {31, 32} }

Config(ot, idx, ch, rate, layout) ==
    [ot |-> ot, idx |-> idx, ch |-> ch, rate |-> rate, layout |-> layout]

\* By index and by value.
MCAudioConfigs ==
    UNION {{Config(ot, idx, ch, sampleRateTable[t[1]], chanConfigTable[t[2]]) :
                ot \in {1, 2, 4, 5, 31}, idx \in {0, t[1] - 1}, ch \in {0, t[2] - 1}} :
           t \in ({1, 4, 13} \X (1..8)) \union ((1..13) \X {3})}

MCPayloads == {0, 1, 249, 2041, 8184}

-----------------------------------------------------------------------------
Leaves == { <<"num", 0>>, <<"num", -3>>, <<"num", 80>>, <<"num", 81>>, <<"num", 729>>, <<"num", 13121>>,
            <<"bool", TRUE>>, <<"str", <<>>>>, <<"str", <<0, 0, 9>>>>, <<"date", -5>>, <<"nil">> }

Long == <<"str", [i \in 1..324 |-> i % 6]>>

Pair(k, v) == [k |-> k, v |-> v]

Flat ==
    {<<"map", <<Pair(k, v)>>>> : k \in {<<>>, <<9>>}, v \in Leaves}
    \union {<<"map", <<Pair(<<9>>, v), Pair(<<0, 9>>, w)>>>> : v, w \in {<<"num", -3>>, <<"str", <<>>>>, <<"nil">>}}
    \union {<<"map", <<>>>>, <<"arr", <<>>>>, <<"map", <<Pair(<<9>>, Long)>>>>}
    \union {<<"arr", <<v, <<"str", <<9>>>>>>>> : v \in Leaves}

MCVals ==
    {<<"bytes", <<4, 9>>>>} \union Leaves \union Flat \union {Long}
    \union {<<"map", <<Pair(<<5>>, v), Pair(<<6, 0>>, <<"num", 2>>)>>>> : v \in Flat}
    \union {<<"arr", <<v, <<"bool", FALSE>>>>>> : v \in Flat}

MCValLists ==
    {<<v>> : v \in {w \in MCVals : w[1] # "bytes"}} \union {<<>>, <<Long, Long>>}
    \union {<<v, w>> : v \in {<<"num", 1>>, <<"str", <<2, 3>>>>, <<"map", <<Pair(<<9>>, <<"nil">>)>>>>}, w \in Leaves \union Flat}
    \union {<<v, <<"str", <<2, 3>>>>, <<"nil">>>> : v \in Flat}

-----------------------------------------------------------------------------
\* All ones, every other bit.
Field(n) == {<<n, 2^n - 1>>, <<n, 2^n \div 3>>}

\* Groups of one field, of two, and of three.
Ones(W) == UNION {{<<f>> : f \in Field(n)} : n \in W}
Twos == {g \in {<<f, h>> : f, h \in UNION {Field(n) : n \in 1..7} \union {<<4, 0>>}} : g[1][1] + g[2][1] <= 8}
Threes == {<<f, h, i>> : f \in Field(1) \union Field(3), h \in Field(2) \union Field(3), i \in Field(1) \union Field(2)}

MCFieldGroups ==
    {<<g>> : g \in Ones(1..8) \union Twos \union Threes}
    \union {<<g, h>> : g \in Ones({1, 3, 8}), h \in Ones(1..8) \union Twos \union Threes}

MCTails == {<<>>, <<3>>, <<2, 1>>, <<1, 0, 3>>, <<1, 2, 3, 0>>, <<3, 0, 1, 2, 2>>, [i \in 1..8 |-> i % 4]}

Code == {<<"ue", v>> : v \in 0..17} \union {<<"se", v>> : v \in -9..9} \union {<<"ue", 255>>, <<"se", -130>>}

MCCodes == {<<c>> : c \in Code} \union {<<c, d>> : c, d \in Code}

MCInts == {0, 1, 2, 3, 7, 8, 31, 32, 127, 128, 254, -1, -2, -3, -8, -9, -32, -128, 65535, 65536, -32769, 300000}

MCOffsets == -1..7

Slices == {<<>>, <<1>>, <<2, 3>>}

MCVectors == UNION {[1..n -> Slices] : n \in 0..3}

-----------------------------------------------------------------------------
MCConfigSets ==
    { <<Unit(SPSBits(Small(0, 4)[2])), Unit(PPSBits(0, 0))>>,
      <<Unit(PPSBits(2, 0)), Unit(SPSBits(Small(1, 6)[2])), Unit(PPSBits(1, 0)), Unit(SPSBits(Small(0, 9)[2]))>>,
      <<>> }

MCFrameUnits ==
    { <<<<101, 136>>>>, <<<<65, 0, 0, 3, 1>>, <<6, 5, 0, 1>>>>, <<<<9, 240>>, <<65, 154>>, <<1, 0, 3>>>> }
=============================================================================
