-------------------------------- MODULE Nalu --------------------------------
(***************************************************************************)
(* NAL units in a buffer (codec/h264): behind lengths (AVCC) or between    *)
(* start codes (Annex B), and the guess which of them a buffer has.        *)
(***************************************************************************)
EXTENDS Pio

StartCodeBytes == <<0, 0, 1>>

Units(nalus, typ) == [nalus |-> nalus, typ |-> typ]

\* A turn of the loop of splitAVCC, behind the units t.v: a length, a unit.
TakeUnit(b, t) ==
    Then(ReadU(b, t.n, 4), LAMBDA len, p :
        Then(Read(b, p, len), LAMBDA nalu, q : Ok(Append(t.v, nalu), q)))

\* It returns behind an error, or when a unit ends where the buffer does.
SplitAVCC(b) ==
    LET turn[k \in 0..Len(b) + 1] ==
            IF k = 0 THEN Ok(<<>>, 0)
            ELSE LET t == turn[k - 1]
                 IN  IF t.ok /\ (t.v = <<>> \/ t.n # Len(b)) THEN TakeUnit(b, t) ELSE t
    IN  turn[Len(b) + 1]

\* cut: the unit that ends before byte to (counted from 0), if it is not empty.
Cut(b, scan, to) ==
    IF scan.from < to THEN Append(scan.out, SubSeq(b, scan.from + 1, to)) ELSE scan.out

\* Deviation: a zero that precedes the start code is left to the unit.
ScanNoZeroByte(b, scan, i) ==
    IF b[i] = 0 THEN [scan EXCEPT !.s = IF @ < 2 THEN @ + 1 ELSE @]
    ELSE IF b[i] = 1 /\ scan.s = 2
    THEN [s |-> 0, from |-> i, out |-> Cut(b, scan, i - 3)]
    ELSE [scan EXCEPT !.s = 0]

\* The loop of splitAnnexb: s counts the zeros before byte i, up to three.
Scan(b, scan, i) ==
    IF b[i] = 0 THEN [scan EXCEPT !.s = IF @ < 3 THEN @ + 1 ELSE @]
    ELSE IF b[i] = 1 /\ scan.s >= 2
    THEN [s |-> 0, from |-> i, out |-> Cut(b, scan, i - 1 - scan.s)]
    ELSE [scan EXCEPT !.s = 0]

SplitAnnexb(b) ==
    LET scan[i \in 0..Len(b)] == IF i = 0 THEN [s |-> 0, from |-> 0, out |-> <<>>]
                                 ELSE Scan(b, scan[i - 1], i)
        end == scan[Len(b)]
    IN  IF end.from > 0 THEN Ok(Cut(b, end, Len(b)), Len(b)) ELSE Err

\* SplitNALUs: lengths are tried first.
SplitNALUs(b) ==
    LET avcc == SplitAVCC(b)
        annexb == SplitAnnexb(b)
    IN  IF avcc.ok THEN Units(avcc.v, "AVCC")
        ELSE IF annexb.ok THEN Units(annexb.v, "ANNEXB")
        ELSE Units(<<b>>, "RAW")

\* JoinNALUsAVCC, FillNALUsAVCC.
JoinAVCC(nalus) ==
    FlattenSeq([i \in DOMAIN nalus |-> PutBE(Len(nalus[i]), 4) \o nalus[i]])

\* JoinNALUsAnnexb, FillNALUsAnnexb.
JoinAnnexb(nalus) == FlattenSeq([i \in DOMAIN nalus |-> StartCodeBytes \o nalus[i]])
=============================================================================
