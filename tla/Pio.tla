-------------------------------- MODULE Pio --------------------------------
(***************************************************************************)
(* Integer fields and vectors of slices (utils/bits/pio).  A byte has      *)
(* ByteMod values; a buffer is a sequence of bytes.  Loops are recursive   *)
(* functions of the turn.                                                  *)
(***************************************************************************)
EXTENDS Integers, Sequences, SequencesExt, Reads

CONSTANT ByteMod   \* even

\* The bytes b behind the higher part of a number.
BE(high, b) ==
    LET v[i \in 0..Len(b)] == IF i = 0 THEN high ELSE v[i - 1] * ByteMod + b[i]
    IN  v[Len(b)]

\* U8, U16BE ... U64BE.
UBE(b) == BE(0, b)

\* Deviation: the sign is dropped.
IBEUnsigned(b) == UBE(b)

\* I16BE, I24BE, I32BE, I64BE: the first byte has the sign.
IBE(b) == BE(IF b[1] < ByteMod \div 2 THEN 0 ELSE -1, b)

U32LE(b) == UBE(Reverse(b))

\* The Put functions: the low k bytes of v, which may be negative.
PutBE(v, k) ==
    LET shifted[i \in 0..k] == IF i = 0 THEN v ELSE shifted[i - 1] \div ByteMod
    IN  [i \in 1..k |-> shifted[k - i] % ByteMod]

PutU32LE(v) == Reverse(PutBE(v, 4))

-----------------------------------------------------------------------------
(* The Read functions of reader.go, from position n on.                    *)

\* ReadBytes, ReadString.
Read(b, n, k) == IF Len(b) < n + k THEN Err ELSE Ok(SubSeq(b, n + 1, n + k), n + k)

\* ReadU8 ... ReadU64BE.
ReadU(b, n, k) == As(Read(b, n, k), UBE)

\* ReadI24BE, ReadI32BE, ReadI64BE.
ReadI(b, n, k) == As(Read(b, n, k), IBE)

-----------------------------------------------------------------------------
(* vec.go                                                                  *)

VecLen(vec) ==
    LET n[i \in 0..Len(vec)] == IF i = 0 THEN 0 ELSE n[i - 1] + Len(vec[i])
    IN  n[Len(vec)]

\* What both loops of VecSliceTo do with a slice b: s bytes are passed over, the
\* others taken until there are e of them; a negative e takes all.
VecTurn(st, b) ==
    LET left == Len(b) - st.s
        read == IF st.e > 0 /\ st.e < left THEN st.e ELSE left
    IN  IF st.s > 0 /\ left <= 0 THEN [st EXCEPT !.s = @ - Len(b)]
        ELSE IF st.e = 0 THEN [st EXCEPT !.s = 0]
        ELSE [s |-> 0, e |-> st.e - read, out |-> Append(st.out, SubSeq(b, st.s + 1, st.s + read))]

\* The slices of in from byte s to byte e, or a panic.
VecSliceTo(in, s, e) ==
    LET from == IF s < 0 THEN 0 ELSE s
        turn[i \in 0..Len(in)] == IF i = 0 THEN [s |-> from, e |-> e - from, out |-> <<>>]
                                  ELSE VecTurn(turn[i - 1], in[i])
        end == turn[Len(in)]
    IN  IF (e >= 0 /\ e < from) \/ end.s > 0 \/ end.e > 0 THEN [panic |-> TRUE]
        ELSE [panic |-> FALSE, out |-> end.out]
=============================================================================
