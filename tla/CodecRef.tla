------------------------------ MODULE CodecRef ------------------------------
(***************************************************************************)
(* What the codecs are measured by: the formats as their standards define  *)
(* them, written from the side joy5 does not have (an encoder for what it  *)
(* only parses) or without its loops.                                      *)
(***************************************************************************)
EXTENDS Integers, Sequences, SequencesExt

BitsOf(v, n) == [i \in 1..n |-> (v \div 2^(n - i)) % 2]

Zeros(n) == [i \in 1..n |-> 0]

Concat(s, F(_)) == FlattenSeq([i \in DOMAIN s |-> F(s[i])])

\* Bits as bytes of n bits, filled up with zeros.
Packed(bits, n) ==
    LET all == bits \o Zeros((-Len(bits)) % n)
    IN  [i \in 1..(Len(all) \div n) |->
            FoldLeft(LAMBDA v, x : 2 * v + x, 0, SubSeq(all, n * (i - 1) + 1, n * i))]

-----------------------------------------------------------------------------
(* H.264: Exp-Golomb codes (9.1), emulation prevention (7.4.1), sequence   *)
(* and picture parameter sets (7.3.2).                                     *)

UEBits(v) ==
    LET k == CHOOSE k \in 0..24 : 2^k <= v + 1 /\ v + 1 < 2^(k + 1)
    IN  Zeros(k) \o BitsOf(v + 1, k + 1)

SEBits(v) == UEBits(IF v > 0 THEN 2 * v - 1 ELSE -2 * v)

\* A parameter set's bits in a NAL unit.
Unit(bits) ==
    LET raw == Packed(Append(bits, 1), 8)
        Put(e, x) == IF e.zeros = 2 /\ x <= 3
                     THEN [out |-> e.out \o <<3, x>>, zeros |-> IF x = 0 THEN 1 ELSE 0]
                     ELSE [out |-> Append(e.out, x), zeros |-> IF x = 0 THEN e.zeros + 1 ELSE 0]
    IN  FoldLeft(Put, [out |-> <<>>, zeros |-> 0], raw).out

\* The differences of a scaling list, which ends with a 0 or is full.
ListBits(list) ==
    Concat([i \in DOMAIN list |-> list[i] - (IF i = 1 THEN 8 ELSE list[i - 1])],
           LAMBDA d : SEBits(IF d > 127 THEN d - 256 ELSE IF d < -128 THEN d + 256 ELSE d))

SPSBits(s) ==
    BitsOf(103, 8) \o BitsOf(s.profile, 8) \o Zeros(8) \o BitsOf(31, 8) \o UEBits(s.id)
    \o (IF s.profile = 66 THEN <<>>
        ELSE UEBits(s.chroma) \o (IF s.chroma = 3 THEN <<0>> ELSE <<>>) \o UEBits(0) \o UEBits(2)
             \o <<1>>
             \o (IF s.lists = <<>> THEN <<0>>
                 ELSE <<1>> \o Concat(s.lists, LAMBDA l : IF l = <<>> THEN <<0>>
                                                          ELSE <<1>> \o ListBits(l))))
    \o UEBits(12) \o UEBits(s.poc)
    \o (CASE s.poc = 0 -> UEBits(4)
          [] s.poc = 1 -> <<0>> \o SEBits(-3) \o SEBits(5) \o UEBits(Len(s.cycle))
                          \o Concat(s.cycle, SEBits)
          [] OTHER -> <<>>)
    \o UEBits(4) \o <<1>> \o UEBits(s.w - 1) \o UEBits(s.h - 1)
    \o (IF s.frames THEN <<1>> ELSE <<0, 1>>) \o <<0>>
    \o (IF s.crop = <<>> THEN <<0>> ELSE <<1>> \o Concat(s.crop, UEBits))
    \o (IF s.vui = <<>> THEN <<0>> ELSE <<1>> \o Concat(s.vui, LAMBDA f : BitsOf(f[1], f[2])))

\* Frame rate and size.  Croppings count in units of 2 for 4:2:0, in fields of 4.
SPSWidth(s) == 16 * s.w - (IF s.crop = <<>> THEN 0 ELSE 2 * (s.crop[1] + s.crop[2]))

SPSHeight(s) == (IF s.frames THEN 16 ELSE 32) * s.h
                    - (IF s.crop = <<>> THEN 0 ELSE (IF s.frames THEN 2 ELSE 4) * (s.crop[3] + s.crop[4]))

PPSBits(id, spsid) == BitsOf(104, 8) \o UEBits(id) \o UEBits(spsid) \o <<1, 0, 1>>

-----------------------------------------------------------------------------
(* AMF3, for bytes of m values.                                            *)

U29Bytes(v, m) ==
    LET h == m \div 2
        high == v \div m
    IN  IF v < h THEN <<v>>
        ELSE IF v < h^2 THEN <<h + v \div h, v % h>>
        ELSE IF v < h^3 THEN <<h + v \div h^2, h + ((v \div h) % h), v % h>>
        ELSE <<h + high \div h^2, h + ((high \div h) % h), h + (high % h), v % m>>

Text3(s, m) == U29Bytes(2 * Len(s) + 1, m) \o s

\* Eight bytes of an integer that stands for a float.
Double(v, m) == [i \in 1..8 |-> (v \div m^(8 - i)) % m]

\* A map is an array with names, or an object with or without a class; only
\* numbers from 0 on are integers.
RECURSIVE Amf3(_, _, _)
Amf3(val, form, m) ==
    LET v == val[2]
        Sub(x) == Amf3(x, form, m)
        Pair(kv) == Text3(kv.k, m) \o Sub(kv.v)
        name == <<9>>
    IN  CASE val[1] = "num" -> IF v < 0 THEN <<5>> \o Double(v, m) ELSE <<4>> \o U29Bytes(v, m)
          [] val[1] = "str" -> <<6>> \o Text3(v, m)
          [] val[1] = "date" -> <<8, 1>> \o Double(v, m)
          [] val[1] = "bytes" -> <<12>> \o Text3(v, m)
          [] val[1] = "nil" -> <<1>>
          [] val[1] = "map" ->
                CASE form = "array" -> <<9, 1>> \o Concat(v, Pair) \o <<1>>
                  [] form = "dynamic" -> <<10>> \o U29Bytes(11, m) \o <<1>> \o Concat(v, Pair) \o <<1>>
                  [] form = "class" ->
                        <<10>> \o U29Bytes(3 + 16 * Len(v), m) \o Text3(name, m)
                        \o Concat(v, LAMBDA kv : Text3(kv.k, m)) \o Concat(v, LAMBDA kv : Sub(kv.v))
=============================================================================
