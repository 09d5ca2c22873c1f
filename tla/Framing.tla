------------------------------ MODULE Framing ------------------------------
(***************************************************************************)
(* Callers of what puts bytes into buffers and takes them out again: NAL   *)
(* units (Nalu), integer fields and vectors of slices (Pio).  What one     *)
(* function writes is given to the function that reads it, or to the       *)
(* reader what the standard allows.  A call is one step, its result stays  *)
(* until Return.                                                           *)
(***************************************************************************)
EXTENDS Nalu

CONSTANTS Buffers,    \* what may be a sequence of NAL units, or nothing
          UnitLists,  \* sequences of units
          Ints,       \* integers
          Offsets,    \* integers, and the bounds of slices
          Vectors     \* sequences of slices

Byte == 0..ByteMod - 1

\* A byte has some bits, at least two; a unit has less bytes than a length has values.
ASSUME FramingAssumption ==
    /\ ByteMod \in Nat /\ ByteMod >= 4 /\ ByteMod % 2 = 0
    /\ \A b \in Buffers : b \in Seq(Byte)
    /\ \A ns \in UnitLists :
          /\ ns \in Seq(Seq(Byte)) /\ ns # <<>>
          /\ \A i \in 1..Len(ns) : Len(ns[i]) < (ByteMod * ByteMod) * (ByteMod * ByteMod)
    /\ Ints \subseteq Int /\ Offsets \subseteq Int
    /\ \A vec \in Vectors : vec \in Seq(Seq(Byte))

VARIABLE call

Idle == [fn |-> "none"]

Call(fn, arg, res) == call' = [fn |-> fn, arg |-> arg, res |-> res]

Return == call # Idle /\ call' = Idle

-----------------------------------------------------------------------------
(* NAL units                                                               *)

CallSplitNALUs == \E b \in Buffers : Call("SplitNALUs", b, SplitNALUs(b))

CallJoinAVCC == \E ns \in UnitLists : Call("JoinNALUsAVCC", ns, SplitNALUs(JoinAVCC(ns)))

\* With start codes of three bytes as joy5 writes them, or of four.
ByteStream(ns, long) ==
    IF long THEN FlattenSeq([i \in DOMAIN ns |-> <<0, 0, 0, 1>> \o ns[i]]) ELSE JoinAnnexb(ns)

CallJoinAnnexb ==
    \E ns \in UnitLists, long \in BOOLEAN :
        Call("JoinNALUsAnnexb", [ns |-> ns, long |-> long], SplitNALUs(ByteStream(ns, long)))

\* The positions where start code prefixes end (Annex B of the standard).
Ends(b) == {i \in 3..Len(b) : b[i - 2] = 0 /\ b[i - 1] = 0 /\ b[i] = 1}

\* From i on to the next start code prefix.
Behind(b, i) ==
    LET later == {j \in Ends(b) : j > i}
    IN  SubSeq(b, i + 1, IF later = {} THEN Len(b) ELSE Min(later) - 3)

\* The unit in u, if there is one: a unit does not end with a zero.
Trim(u) ==
    LET nonzero == {k \in 1..Len(u) : u[k] # 0}
    IN  IF nonzero = {} THEN <<>> ELSE <<SubSeq(u, 1, Max(nonzero))>>

Trimmed(nalus) == FlattenSeq([i \in 1..Len(nalus) |-> Trim(nalus[i])])

\* The units of a byte stream lie behind start code prefixes; the zeros before
\* these (leading_zero_8bits, zero_byte, trailing_zero_8bits) belong to none.
AnnexbUnits(b) ==
    FlattenSeq([i \in 1..Len(b) |-> IF i \in Ends(b) THEN Trim(Behind(b, i)) ELSE <<>>])

\* What may stand in a byte stream and come out of it as it was (7.4.1).
ProperUnit(u) ==
    /\ u # <<>> /\ Last(u) # 0
    /\ \A i \in 1..Len(u) - 2 : u[i] = 0 /\ u[i + 1] = 0 => u[i + 2] > 2

\* A byte stream is told from lengths if it is shorter than the first length it
\* would have: a start code and the first byte of a unit, or, behind units of one
\* byte and start codes of four, the least that four bytes of a unit can be.
Unmistakable(ns, long) ==
    Len(ByteStream(ns, long)) < (IF long THEN 9 + 3 * ByteMod ELSE 4 + ByteMod + ns[1][1])

StreamKept(ns, long, res) ==
    (\A i \in DOMAIN ns : ProperUnit(ns[i])) =>
        \/ res.nalus = ns
        \/ res.typ = "AVCC" /\ ~Unmistakable(ns, long)

\* Between start codes, SplitNALUs leaves trailing zeros on the units, and takes
\* what precedes the first start code for one; in a byte stream those are zeros.
SplitKept(b, res) ==
    CASE res.typ = "AVCC" -> JoinAVCC(res.nalus) = b
      [] res.typ = "ANNEXB" -> Trimmed(res.nalus) = Trim(Behind(b, 0)) \o AnnexbUnits(b)
      [] OTHER -> Ends(b) = {} /\ res.nalus = <<b>>

\* Units that are joined come back whole and in their order, behind lengths
\* always; between start codes unless the stream happens to be well-formed the
\* other way, which it must be long for.  What is split joins to what it was, or
\* is what Annex B says, up to zeros that trail a unit or precede the first start
\* code, or has no start code (JoinNALUsAVCC, JoinNALUsAnnexb, SplitNALUs).
NALUsSurvive ==
    /\ call.fn = "JoinNALUsAVCC" => call.res = Units(call.arg, "AVCC")
    /\ call.fn = "JoinNALUsAnnexb" => StreamKept(call.arg.ns, call.arg.long, call.res)
    /\ call.fn = "SplitNALUs" => SplitKept(call.arg, call.res)

-----------------------------------------------------------------------------
(* Integers and slices                                                     *)

\* Behind n other bytes, and with the last one cut off.
IntegerBack(v, k, n) ==
    LET b == [i \in 1..n |-> 0] \o PutBE(v, k)
        short == Front(b)
    IN  [u |-> ReadU(b, n, k), i |-> ReadI(b, n, k), le |-> U32LE(PutU32LE(v)),
         short |-> ReadU(short, n, k).ok \/ ReadI(short, n, k).ok]

CallIntegers ==
    \E v \in Ints, k \in 1..8, n \in 0..2 : Call("Integers", <<v, k, n>>, IntegerBack(v, k, n))

CallVecSliceTo ==
    \E in \in Vectors, s, e \in Offsets : Call("VecSliceTo", <<in, s, e>>, VecSliceTo(in, s, e))

\* What k bytes can be.
Power(k) ==
    LET p[i \in 0..k] == IF i = 0 THEN 1 ELSE ByteMod * p[i - 1]
    IN  p[k]

IntegerKept(v, k, n, r) ==
    /\ r.u = Ok(v % Power(k), n + k)
    /\ r.i.ok /\ (-Power(k) <= 2 * v /\ 2 * v < Power(k) => r.i.v = v)
    /\ r.le = v % Power(4)
    /\ ~r.short

SliceKept(vec, s, e, r) ==
    LET bytes == FlattenSeq(vec)
        from == IF s < 0 THEN 0 ELSE s
        to == IF e < 0 THEN VecLen(vec) ELSE e
    IN  /\ r.panic <=> from > to \/ to > Len(bytes)
        /\ ~r.panic => FlattenSeq(r.out) = SubSeq(bytes, from + 1, to)

\* Integers come back, of those that do not fit the low bytes: signed or not,
\* from either end.  Nothing is read past the end.  A slice of a vector is the one
\* of its bytes, and panics if they have none (reader.go, writer.go, vec.go).
FieldsSurvive ==
    /\ call.fn = "Integers" => IntegerKept(call.arg[1], call.arg[2], call.arg[3], call.res)
    /\ call.fn = "VecSliceTo" => SliceKept(call.arg[1], call.arg[2], call.arg[3], call.res)

-----------------------------------------------------------------------------
FramingInit == call = Idle

FramingCalls ==
    \/ CallSplitNALUs \/ CallJoinAVCC \/ CallJoinAnnexb
    \/ CallIntegers \/ CallVecSliceTo

FramingNext == (call = Idle /\ FramingCalls) \/ Return

FramingSpec == FramingInit /\ [][FramingNext]_call
=============================================================================
