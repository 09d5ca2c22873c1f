-------------------------------- MODULE Aac --------------------------------
(***************************************************************************)
(* Audio configurations and ADTS headers (codec/aac).  A configuration has *)
(* an object type ot, the index idx of a sample rate, the number ch of a   *)
(* channel configuration, and what the indices stand for: rate and layout. *)
(***************************************************************************)
EXTENDS Bits

sampleRateTable ==
    <<96000, 88200, 64000, 48000, 44100, 32000, 24000, 22050, 16000, 12000, 11025, 8000, 7350>>

chanConfigTable ==
    << {}, {"FC"}, {"FL", "FR"}, {"FC", "FL", "FR"}, {"FC", "FL", "FR", "BC"},
       {"FC", "FL", "FR", "BL", "BR"}, {"FC", "FL", "FR", "BL", "BR", "LFE"},
       {"FC", "FL", "FR", "SL", "SR", "BL", "BR", "LFE"} >>

\* iota does not restart where the numbering of the list does: the constant is
\* 46 and not 31, and does not fit its five bits.
AotEscape == 46

\* complete: the rate and the layout of the indices, which must be known.
Complete(ot, idx, ch) ==
    IF idx < Len(sampleRateTable) /\ ch < Len(chanConfigTable)
    THEN Ok([ot |-> ot, idx |-> idx, ch |-> ch, rate |-> sampleRateTable[idx + 1],
             layout |-> chanConfigTable[ch + 1]], <<>>)
    ELSE Err

\* A field of n bits; if it has the value escape, the value is base and
\* another field of more bits.
ReadEscaped(r, n, escape, base, more) ==
    Then(ReadBits(r, n), LAMBDA x, rest :
        IF x = escape THEN As(ReadBits(rest, more), LAMBDA y : y + base) ELSE Ok(x, rest))

ReadObjectType(r) == ReadEscaped(r, 5, AotEscape, 32, 6)

ReadSampleRateIndex(r) == ReadEscaped(r, 4, 15, 0, 24)

WriteObjectType(w, ot) ==
    IF ot >= 32 THEN WriteBits(WriteBits(w, AotEscape, 5), ot - 32, 6) ELSE WriteBits(w, ot, 5)

WriteSampleRateIndex(w, idx) ==
    IF idx >= 15 THEN WriteBits(WriteBits(w, 15, 4), idx, 24) ELSE WriteBits(w, idx, 4)

\* ParseMPEG4AudioConfigBytes
ParseConfig(b) ==
    Then(ReadObjectType(NewReader(b)), LAMBDA ot, r :
        Then(ReadSampleRateIndex(r), LAMBDA idx, s :
            Then(ReadBits(s, 4), LAMBDA ch, t : Complete(ot, idx, ch))))

\* The index of what a table has of v, if idx is 0 and it has it.
IndexOr(table, v, idx) ==
    IF idx = 0 /\ v \in ToSet(table) THEN (CHOOSE i \in DOMAIN table : table[i] = v) - 1 ELSE idx

\* WriteMPEG4AudioConfig
WriteConfig(c) ==
    LET idx == IndexOr(sampleRateTable, c.rate, c.idx)
        w == WriteSampleRateIndex(WriteObjectType(NewWriter, c.ot), idx)
    IN  FlushBits(WriteBits(w, IndexOr(chanConfigTable, c.layout, c.ch), 4)).out

-----------------------------------------------------------------------------
(* ADTS: a header of seven bytes, bit fields that cross byte boundaries.   *)

\* FillADTSHeader, for up to four frames of 1024 samples.
FillADTSHeader(c, samples, payload) ==
    LET ot == IF c.ot >= 5 THEN 2 ELSE c.ot
        length == payload + 7
    IN  <<255, 241,
          ((ot - 1) % 4) * 64 + (c.idx % 16) * 4 + ((c.ch \div 4) % 2),
          (c.ch % 4) * 64 + ((length \div 2048) % 4),
          (length \div 8) % 256,
          31 + (length % 8) * 32,
          204 + samples \div 1024 - 1>>

ParseADTSHeader(b) ==
    LET ch == (b[3] % 2) * 4 + b[4] \div 64
        framelen == (b[4] % 4) * 2048 + b[5] * 8 + b[6] \div 32
        hdrlen == IF b[2] % 2 = 0 THEN 9 ELSE 7
    IN  IF b[1] # 255 \/ b[2] \notin {240, 241, 248, 249} \/ ch = 0 \/ framelen < hdrlen THEN Err
        ELSE As(Complete(b[3] \div 64 + 1, (b[3] \div 4) % 16, ch),
                LAMBDA c : [config |-> c, hdrlen |-> hdrlen, framelen |-> framelen,
                            samples |-> ((b[7] % 4) + 1) * 1024])
=============================================================================
