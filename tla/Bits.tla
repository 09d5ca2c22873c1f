-------------------------------- MODULE Bits --------------------------------
(***************************************************************************)
(* Bit fields (utils/bits).  The reader and the writer of bits.go keep     *)
(* bits of a stream of bytes in one word; golomb_reader.go reads bit by    *)
(* bit.  A byte has ByteBits bits, the word Word of them.                  *)
(***************************************************************************)
EXTENDS Integers, Sequences, SequencesExt, Bitwise, Reads

CONSTANTS ByteBits, \* 8
          Word      \* 64

Shl(x, k) == (x * 2^k) % 2^Word

Shr(x, k) == x \div 2^k

BytesFor(n) == (n + ByteBits - 1) \div ByteBits

-----------------------------------------------------------------------------
(* Reader: src is what io.Reader still has.                                *)

NewReader(src) == [src |-> src, n |-> 0, bits |-> 0]

\* The bytes that are missing for n bits are shifted in.
Fill(r, n) ==
    LET want == BytesFor(n - r.n)
    IN  IF r.n >= n THEN r
        ELSE [src |-> SubSeq(r.src, want + 1, Len(r.src)),
              n |-> r.n + want * ByteBits,
              bits |-> FoldLeft(LAMBDA v, x : Shl(v, ByteBits) + x, r.bits, SubSeq(r.src, 1, want))]

\* The upper n of the bits that are there are taken out.
Take(r, n) == Ok(Shr(r.bits, r.n - n), [r EXCEPT !.bits = @ % 2^(r.n - n), !.n = @ - n])

\* ReadBits64, or "bits: EOF".
ReadBits(r, n) ==
    IF r.n < n /\ Len(r.src) < BytesFor(n - r.n) THEN Err ELSE Take(Fill(r, n), n)

\* Read: up to a word at a time is read as one field.
RECURSIVE ReadBytes(_, _)
ReadBytes(r, n) ==
    LET want == IF n < Word \div ByteBits THEN n ELSE Word \div ByteBits
        Split(x) == [i \in 1..want |-> Shr(x, (want - i) * ByteBits) % 2^ByteBits]
    IN  IF n = 0 THEN Ok(<<>>, r)
        ELSE Then(ReadBits(r, want * ByteBits),
                  LAMBDA x, rest : As(ReadBytes(rest, n - want), LAMBDA more : Split(x) \o more))

-----------------------------------------------------------------------------
(* Writer: out is what io.Writer was given.                                *)

NewWriter == [out |-> <<>>, n |-> 0, bits |-> 0]

\* Deviation: the last byte is not filled up.
FlushBitsUnpadded(w) ==
    LET want == BytesFor(w.n)
    IN  [w EXCEPT !.out = @ \o [i \in 1..want |-> Shr(w.bits, (want - i) * ByteBits) % 2^ByteBits],
                  !.n = 0]

\* The last byte is filled up with zeros.  The word keeps its bits.
FlushBits(w) ==
    LET want == BytesFor(w.n)
        bits == Shl(w.bits, want * ByteBits - w.n)
    IN  [w EXCEPT !.out = @ \o [i \in 1..want |-> Shr(bits, (want - i) * ByteBits) % 2^ByteBits],
                  !.n = 0]

\* WriteBits64.  What does not fit the word is meant to be written after a
\* flush; mask should be bits >> (n - move).
WriteBits(w, bits, n) ==
    LET move == Word - w.n
        mask == Shr(bits, move)
        full == FlushBits([w EXCEPT !.bits = (Shl(@, move)) | mask, !.n = Word])
    IN  IF w.n + n > Word
        THEN [full EXCEPT !.bits = Shl(@, n - move) | (bits ^^ Shl(mask, move)), !.n = n - move]
        ELSE [w EXCEPT !.bits = Shl(@, n) | bits, !.n = @ + n]

\* Write
WriteBytes(w, p) == FoldLeft(LAMBDA u, x : WriteBits(u, x, ByteBits), w, p)

-----------------------------------------------------------------------------
(* GolombBitReader: buf and left are the position p in the bits of src.    *)

NewGolomb(src) == [src |-> src, p |-> 0]

Left(g) == Len(g.src) * ByteBits - g.p

BitAt(src, p) == Shr(src[p \div ByteBits + 1], ByteBits - 1 - (p % ByteBits)) % 2

\* ReadBit, n times, as GolombBitReader.ReadBits does.
GBits(g, n) ==
    IF n > Left(g) THEN Err
    ELSE Ok(FoldLeft(LAMBDA v, i : 2 * v + BitAt(g.src, g.p + i - 1), 0, [i \in 1..n |-> i]),
            [g EXCEPT !.p = @ + n])

\* The zeros before the first one; no more than 32 are counted.
RECURSIVE GZeros(_, _)
GZeros(g, i) ==
    Then(GBits(g, 1), LAMBDA bit, h : IF bit = 0 /\ i < 32 THEN GZeros(h, i + 1) ELSE Ok(i, h))

\* ReadExponentialGolombCode
GUE(g) == Then(GZeros(g, 0), LAMBDA z, h : As(GBits(h, z), LAMBDA x : x + 2^z - 1))

\* ReadSE.  The result is unsigned: -res/2 is (2^64 - res)/2, which is right
\* below the highest bits only.
UintMod == 2^20

GSE(g) ==
    As(GUE(g), LAMBDA u : IF u % 2 # 0 THEN (u + 1) \div 2 ELSE ((UintMod - u) % UintMod) \div 2)
=============================================================================
