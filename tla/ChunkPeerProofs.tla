-------------------------- MODULE ChunkPeerProofs --------------------------
(***************************************************************************)
(* Proofs about ChunkPeer, for any chunk streams, times, lengths, chunk    *)
(* sizes, aggregates and number of messages: what the peer writes leads    *)
(* joy5's reader to the messages it sent, up to a header that breaks the   *)
(* rules or begins a message over the limit, which the reader refuses.     *)
(***************************************************************************)
EXTENDS ChunkPeer, ChunkReaderProofs

-----------------------------------------------------------------------------
(* What the peer remembers, and what the reader knows of it                *)

\* An encoder, field by field.
Enc(used, fmt, msg, off, delta, ext) ==
    [used |-> used, fmt |-> fmt, msg |-> msg, off |-> off, delta |-> delta, ext |-> ext]

\* A message that the peer may send.
Proper(m) ==
    /\ m \in Messages /\ m.time \in Moment
    /\ m.type \in Controls => m.data # <<>> /\ m.data[1][1] \in Sizes

EncOK(e) ==
    /\ e = Enc(e.used, e.fmt, e.msg, e.off, e.delta, e.ext)
    /\ e.used \in BOOLEAN /\ e.fmt \in 0..2 /\ Proper(e.msg) /\ e.off \in 0..Len(e.msg.data)
    /\ e.delta \in Moment /\ e.ext \in Moment
    /\ e.fmt # 0 /\ e.ext # 0 => e.ext = e.delta
    /\ ~e.used => e = NoEnc

\* The chunk stream of the reader that has read all that e has written; x is the
\* last extended timestamp.
Mirror(e, x) ==
    Rec(e.fmt, e.msg.time, e.delta, e.ext # 0, x, e.msg.sid, e.msg.type, Len(e.msg.data),
        Len(e.msg.data) - e.off, SubSeq(e.msg.data, 1, e.off))
LastExt(e, x) == x \in Moment /\ (e.ext # 0 => x = e.ext)

LEMMA EncFields ==
    ASSUME NEW u, NEW f, NEW m, NEW o, NEW d, NEW x
    PROVE  LET e == Enc(u, f, m, o, d, x)
           IN  e.used = u /\ e.fmt = f /\ e.msg = m /\ e.off = o /\ e.delta = d /\ e.ext = x
BY DEF Enc

LEMMA ProperFields ==
    ASSUME NEW m, Proper(m)
    PROVE  /\ m.type \in Kinds /\ m.time \in Moment /\ m.time \in Nat /\ m.sid \in Nat
           /\ m.data \in Seq(Payloads) /\ Len(m.data) \in Nat
           /\ m = Message(m.type, m.time, m.sid, m.data)
<1>1. m \in Messages /\ m.time \in Moment
      BY DEF Proper
<1>2. /\ m.type \in Kinds /\ m.time \in Nat /\ m.sid \in Nat /\ m.data \in Seq(Payloads)
      /\ m = Message(m.type, m.time, m.sid, m.data)
      BY <1>1, MessageFields
<1> QED  BY <1>1, <1>2, LenProperties

LEMMA EncIs ==
    ASSUME NEW u \in BOOLEAN, NEW f \in 0..2, NEW m, Proper(m), NEW o \in 0..Len(m.data),
           NEW d \in Moment, NEW x \in Moment, (f # 0 /\ x # 0) => x = d, u,
           NEW e, e = Enc(u, f, m, o, d, x)
    PROVE  EncOK(e)
<1>1. e.used = u /\ e.fmt = f /\ e.msg = m /\ e.off = o /\ e.delta = d /\ e.ext = x
      BY DEF Enc
<1>2. (f # 0 /\ x # 0) => x = d
      OBVIOUS
<1>3. e = Enc(e.used, e.fmt, e.msg, e.off, e.delta, e.ext)
      BY <1>1, Zenon
<1> HIDE DEF Moment
<1> QED  BY <1>1, <1>2, <1>3 DEF EncOK

LEMMA MirrorIs ==
    ASSUME NEW e, EncOK(e), NEW x, LastExt(e, x)
    PROVE  IsCs(Mirror(e, x))
<1> DEFINE m == e.msg  b == (e.ext # 0)  t == m.time  s == m.sid  y == m.type
           l == Len(m.data)  n == Len(m.data) - e.off  d == SubSeq(m.data, 1, e.off)
<1>1. Mirror(e, x) = Rec(e.fmt, t, e.delta, b, x, s, y, l, n, d)
      BY DEF Mirror
<1>2. Proper(m) /\ e.fmt \in 0..2 /\ e.delta \in Moment /\ e.off \in 0..l /\ x \in Moment /\ (b => x # 0)
      BY DEF EncOK, LastExt
<1>3. y \in Kinds /\ t \in Moment /\ s \in Nat /\ m.data \in Seq(Payloads) /\ l \in Nat
  <2> HIDE DEF m
  <2> QED  BY <1>2, ProperFields
<1>4. d \in Seq(Payloads) /\ Len(d) = e.off
  <2> DEFINE q == m.data  k == e.off
  <2>1. q \in Seq(Payloads) /\ k \in 0..Len(q)
        BY <1>2, <1>3
  <2> HIDE DEF q, k, Payloads
  <2>2. SubSeq(q, 1, k) \in Seq(Payloads) /\ Len(SubSeq(q, 1, k)) = k
        BY <2>1, FrontIs
  <2> QED  BY <2>2 DEF q, k
<1>5. n \in Nat /\ n <= l /\ Len(d) = l - n /\ b \in BOOLEAN
      BY <1>2, <1>3, <1>4
<1> HIDE DEF b, t, s, y, l, n, d, Payloads, Kinds, Moment
<1> QED  BY <1>1, <1>2, <1>3, <1>4, <1>5, CsIs

\* e has written n units more.
Ahead(e, n) == [e EXCEPT !.off = @ + n]

\* The payload of the chunk.
Vals(e, n) == SubSeq(e.msg.data, e.off + 1, e.off + n)

LEMMA AheadIs ==
    ASSUME NEW e, EncOK(e), NEW n \in 0..Len(e.msg.data) - e.off
    PROVE  /\ Ahead(e, n) = Enc(e.used, e.fmt, e.msg, e.off + n, e.delta, e.ext)
           /\ e.off + n \in 0..Len(e.msg.data)
           /\ e.used => EncOK(Ahead(e, n))
<1> DEFINE k == e.off + n  a == Ahead(e, n)
<1>1. e = Enc(e.used, e.fmt, e.msg, e.off, e.delta, e.ext) /\ e.off \in 0..Len(e.msg.data) /\ Proper(e.msg)
      BY DEF EncOK
<1>2. a = Enc(e.used, e.fmt, e.msg, k, e.delta, e.ext)
  <2> HIDE DEF k
  <2>1. a = [e EXCEPT !.off = k]
        BY Zenon DEF Ahead, k
  <2> QED  BY <1>1, <2>1 DEF Enc
<1>3. k \in 0..Len(e.msg.data)
  <2>1. Len(e.msg.data) \in Nat
    <3> DEFINE m == e.msg
    <3>1. Proper(m)
          BY <1>1
    <3> HIDE DEF m
    <3>2. Len(m.data) \in Nat
          BY <3>1, ProperFields
    <3> QED  BY <3>2 DEF m
  <2> QED  BY <1>1, <2>1
<1>4. ASSUME e.used
      PROVE  EncOK(a)
  <2> DEFINE u == e.used  f == e.fmt  m == e.msg  d == e.delta  x == e.ext
  <2>1. /\ u \in BOOLEAN /\ u /\ f \in 0..2 /\ Proper(m) /\ k \in 0..Len(m.data) /\ d \in Moment
        /\ x \in Moment /\ ((f # 0 /\ x # 0) => x = d) /\ a = Enc(u, f, m, k, d, x)
        BY <1>2, <1>3, <1>4 DEF EncOK
  <2> HIDE DEF u, f, m, d, x, k, a, Moment
  <2> QED  BY <2>1, EncIs
<1> QED  BY <1>2, <1>3, <1>4

\* What the chunk makes of the reader's chunk stream.
Written(e, n, x) ==
    /\ Vals(e, n) \in Seq(Payloads) /\ Len(Vals(e, n)) = n
    /\ [i \in 1..n |-> DataToken(e.msg.data[e.off + i])] = Data(Vals(e, n))
    /\ After(Mirror(e, x), Vals(e, n)) = Mirror(Ahead(e, n), x)

LEMMA WrittenIs ==
    ASSUME NEW e, EncOK(e), NEW n \in 0..Len(e.msg.data) - e.off, NEW x
    PROVE  Written(e, n, x)
<1> DEFINE s == e.msg.data  k == e.off  vals == Vals(e, n)  m == e.msg
<1>1. s \in Seq(Payloads) /\ Len(s) \in Nat /\ k \in 0..Len(s) /\ n \in 0..Len(s) - k
  <2>1. Proper(m) /\ k \in 0..Len(m.data)
        BY DEF EncOK
  <2> HIDE DEF m
  <2>2. m.data \in Seq(Payloads) /\ Len(m.data) \in Nat
        BY <2>1, ProperFields
  <2> QED  BY <2>1, <2>2 DEF m
<1>2. vals = SubSeq(s, k + 1, k + n)
      BY DEF Vals
<1> HIDE DEF vals
<1>3. /\ vals \in Seq(Payloads) /\ Len(vals) = n /\ SubSeq(s, 1, k) \o vals = SubSeq(s, 1, k + n)
      /\ \A i \in 1..n : vals[i] = s[k + i]
  <2> HIDE DEF s, k, Payloads
  <2> QED  BY <1>1, <1>2, SliceIs, SliceJoin
<1>4. [i \in 1..n |-> DataToken(s[k + i])] = Data(vals)
      BY <1>3 DEF Data
<1>5. Ahead(e, n) = Enc(e.used, e.fmt, e.msg, k + n, e.delta, e.ext)
      BY AheadIs
<1> DEFINE a == Ahead(e, n)
<1> HIDE DEF a
<1>6. a.fmt = e.fmt /\ a.msg = e.msg /\ a.off = k + n /\ a.delta = e.delta /\ a.ext = e.ext
  <2> DEFINE o == k + n
  <2>1. a = Enc(e.used, e.fmt, e.msg, o, e.delta, e.ext)
        BY <1>5 DEF a
  <2> HIDE DEF o
  <2>2. a.fmt = e.fmt /\ a.msg = e.msg /\ a.off = o /\ a.delta = e.delta /\ a.ext = e.ext
        BY <2>1, EncFields
  <2> QED  BY <2>2 DEF o
<1> DEFINE b == (e.ext # 0)  l == Len(s)  left == Len(s) - k  d == SubSeq(s, 1, k)
           t == m.time  y == m.type  c == m.sid
<1>7. Mirror(e, x) = Rec(e.fmt, t, e.delta, b, x, c, y, l, left, d)
      BY DEF Mirror
<1>8. Mirror(a, x) = Rec(e.fmt, t, e.delta, b, x, c, y, l, Len(s) - (k + n), SubSeq(s, 1, k + n))
      BY <1>6 DEF Mirror
<1>9. left - n = Len(s) - (k + n)
      BY <1>1
<1> HIDE DEF b, l, left, d, t, y, c, s, k
<1>10. After(Mirror(e, x), vals) = Rec(e.fmt, t, e.delta, b, x, c, y, l, left - Len(vals), d \o vals)
       BY <1>7, AfterIs
<1>11. After(Mirror(e, x), vals) = Mirror(a, x)
       BY <1>3, <1>8, <1>9, <1>10 DEF d
<1> QED  BY <1>3, <1>4, <1>11 DEF Written, vals, a, s, k

\* A message that has been written.
LEMMA MirrorFull ==
    ASSUME NEW e, EncOK(e), NEW x
    PROVE  LET p == Mirror(e, x)
           IN  /\ p.msgtypeid = e.msg.type /\ p.msgdataleft = Len(e.msg.data) - e.off
               /\ p.hastimeext = (e.ext # 0) /\ p.timeext = x /\ p.timedelta = e.delta
               /\ (Full(p) <=> e.off = Len(e.msg.data))
               /\ Full(p) => p.msgdata = e.msg.data /\ Gives(p) = Seen(e.msg)
<1> DEFINE m == e.msg  k == e.off  s == m.data  p == Mirror(e, x)
           b == (e.ext # 0)  l == Len(s)  left == Len(s) - k  d == SubSeq(s, 1, k)
<1>1. Proper(m) /\ k \in 0..Len(s)
      BY DEF EncOK
<1> HIDE DEF m
<1>2. s \in Seq(Payloads) /\ Len(s) \in Nat /\ m = Message(m.type, m.time, m.sid, s)
      BY <1>1, ProperFields
<1>3. p = Rec(e.fmt, m.time, e.delta, b, x, m.sid, m.type, l, left, d)
      BY DEF Mirror, m
<1> HIDE DEF p, b, l, left, d
<1>4. /\ p.timenow = m.time /\ p.timedelta = e.delta /\ p.hastimeext = b /\ p.timeext = x
      /\ p.msgsid = m.sid /\ p.msgtypeid = m.type /\ p.msgdataleft = left /\ p.msgdata = d
      BY <1>3, RecFields
<1>5. Full(p) <=> k = Len(s)
  <2>1. left = 0 <=> k = Len(s)
        BY <1>1, <1>2 DEF left
  <2> QED  BY <1>4, <2>1 DEF Full
<1>6. ASSUME Full(p)
      PROVE  p.msgdata = s /\ Gives(p) = Seen(m)
  <2>1. d = s
    <3>1. k = Len(s)
          BY <1>5, <1>6
    <3> HIDE DEF s, Payloads
    <3>2. SubSeq(s, 1, Len(s)) = s
          BY <1>2, FrontAll
    <3> QED  BY <3>1, <3>2 DEF d
  <2>2. p.msgdata = s
        BY <1>4, <2>1
  <2>3. CASE m.type # "Aggregate"
        BY <1>2, <1>4, <2>2, <2>3 DEF Gives, Seen
  <2>4. CASE m.type = "Aggregate"
    <3> DEFINE g == [time |-> m.time, parts |-> s, first |-> 0, idx |-> 0]
    <3>1. Gives(p) = Unpack(g)
          BY <1>4, <2>2, <2>4 DEF Gives
    <3>2. g.idx = 0 /\ g.parts = s /\ g.time = m.time
          OBVIOUS
    <3> HIDE DEF g
    <3>3. Unpack(g) = Unpacked(m)
          BY <3>2 DEF Unpack, Unpacked, AggTime
    <3> QED  BY <2>2, <2>4, <3>1, <3>3 DEF Seen
  <2> QED  BY <2>2, <2>3, <2>4
<1> QED  BY <1>4, <1>5, <1>6 DEF p, m, left, b

-----------------------------------------------------------------------------
(* A message that starts                                                   *)

\* What StartMsg makes of the encoder e of its chunk stream.
DeltaOf(e, m) == (m.time - e.msg.time) % TimeMod
TsOf(e, fmt, m) ==
    IF fmt = 0 THEN m.time
    ELSE IF fmt = 3 THEN (IF e.fmt = 0 THEN m.time ELSE e.delta)
    ELSE DeltaOf(e, m)
HasExtOf(e, fmt, m) == IF fmt = 3 THEN e.ext # 0 ELSE TsOf(e, fmt, m) >= Ext
HdrOf(e, c, fmt, m) ==
    HdrToken(fmt, c,
             IF fmt = 3 THEN 0 ELSE IF HasExtOf(e, fmt, m) THEN Ext ELSE TsOf(e, fmt, m),
             IF fmt \in {0, 1} THEN Len(m.data) ELSE 0,
             IF fmt \in {0, 1} THEN m.type ELSE "",
             IF fmt = 0 THEN m.sid ELSE 0)
EncOf(e, fmt, m) ==
    Enc(TRUE, IF fmt = 3 THEN e.fmt ELSE fmt, m, 0,
        IF fmt \in {1, 2} THEN DeltaOf(e, m) ELSE e.delta,
        IF HasExtOf(e, fmt, m) THEN TsOf(e, fmt, m) ELSE 0)
AllowedOf(e, fmt, m) ==
    CASE fmt = 0 -> TRUE
      [] fmt = 1 -> e.used /\ m.sid = e.msg.sid
      [] fmt = 2 -> /\ e.used /\ m.sid = e.msg.sid
                    /\ m.type = e.msg.type /\ Len(m.data) = Len(e.msg.data)
      [] fmt = 3 -> /\ e.used /\ m.sid = e.msg.sid
                    /\ m.type = e.msg.type /\ Len(m.data) = Len(e.msg.data)
                    /\ IF e.fmt # 0 THEN m.time = (e.msg.time + e.delta) % TimeMod
                       ELSE IF e.ext # 0 THEN m.time >= Ext ELSE m.time = e.msg.time

\* A header, field by field.
IsHdr(h, fmt, c, ts, len, type, sid) ==
    /\ h \in Tokens /\ h.k = "hdr" /\ h.fmt = fmt /\ h.csid = c /\ h.ts = ts
    /\ h.len = len /\ h.type = type /\ h.sid = sid

LEMMA HdrIs ==
    ASSUME NEW fmt \in 0..3, NEW c \in Nat, NEW ts \in Nat, NEW len \in Nat, NEW type \in Kinds,
           NEW sid \in Nat
    PROVE  IsHdr(HdrToken(fmt, c, ts, len, type, sid), fmt, c, ts, len, type, sid)
<1> DEFINE k == "hdr"  z == <<0, 0>>  h == HdrToken(fmt, c, ts, len, type, sid)
<1>1. h = Tok(k, fmt, c, ts, len, type, sid, z)
      BY HdrTokenIs
<1>2. k \in {"hdr", "ext", "data"} /\ z \in Payloads
      BY DEF Payloads
<1> HIDE DEF h, z, Payloads, Kinds
<1>3. h \in Tokens
  <2> HIDE DEF Tokens
  <2> QED  BY <1>1, <1>2, TokIn
<1> HIDE DEF k
<1>4. /\ h.k = k /\ h.fmt = fmt /\ h.csid = c /\ h.ts = ts
      /\ h.len = len /\ h.type = type /\ h.sid = sid
      BY <1>1, TokFields
<1> QED  BY <1>3, <1>4 DEF IsHdr, h, k

\* The difference of two times, added to the first, is the second.
LEMMA DeltaIs ==
    ASSUME NEW t \in Moment, NEW l \in Moment
    PROVE  (t - l) % TimeMod \in Moment /\ (l + ((t - l) % TimeMod)) % TimeMod = t
<1>1. TimeMod \in Nat \ {0} /\ t \in Nat /\ l \in Nat /\ t < TimeMod /\ l < TimeMod
      BY ChunkAssumption DEF Moment
<1>2. CASE t >= l
  <2>1. (t - l) % TimeMod = t - l
        BY <1>1, <1>2
  <2>2. l + (t - l) = t /\ t % TimeMod = t
        BY <1>1
  <2> QED  BY <1>1, <1>2, <2>1, <2>2 DEF Moment
<1>3. CASE t < l
  <2> DEFINE d == t - l + TimeMod
  <2>1. d \in 0..TimeMod - 1 /\ t - l = d - TimeMod
        BY <1>1, <1>3
  <2>2. (t - l) % TimeMod = d
    <3> HIDE DEF d
    <3> QED  BY <1>1, <2>1
  <2>3. (l + d) % TimeMod = t
    <3>1. l + d = t + TimeMod
          BY <1>1
    <3> HIDE DEF d
    <3>2. (t + TimeMod) % TimeMod = t
          BY <1>1
    <3> QED  BY <3>1, <3>2
  <2> QED  BY <2>1, <2>2, <2>3 DEF Moment
<1> QED  BY <1>1, <1>2, <1>3

\* The times and the header of a message that starts.
Starts(e, c, fmt, m) ==
    LET h == HdrOf(e, c, fmt, m)  b == HasExtOf(e, fmt, m)  ts == TsOf(e, fmt, m)
    IN  /\ ts \in Moment /\ DeltaOf(e, m) \in Moment
        /\ (e.msg.time + DeltaOf(e, m)) % TimeMod = m.time
        /\ b \in BOOLEAN /\ (b => ts # 0)
        /\ h \in Tokens /\ h.k = "hdr" /\ h.fmt = fmt /\ h.csid = c
        /\ fmt # 3 => (HasExt(h) <=> b) /\ (~b => h.ts = ts)
        /\ fmt \in {0, 1} => h.len = Len(m.data) /\ h.type = m.type
        /\ fmt = 0 => h.sid = m.sid

LEMMA StartsIs ==
    ASSUME NEW e, EncOK(e), NEW c \in Nat, NEW fmt \in 0..3, NEW m, Proper(m), AllowedOf(e, fmt, m)
    PROVE  Starts(e, c, fmt, m)
<1> DEFINE h == HdrOf(e, c, fmt, m)  b == HasExtOf(e, fmt, m)  ts == TsOf(e, fmt, m)  d == DeltaOf(e, m)
           x == IF fmt = 3 THEN 0 ELSE IF b THEN Ext ELSE ts
           l == IF fmt \in {0, 1} THEN Len(m.data) ELSE 0
           y == IF fmt \in {0, 1} THEN m.type ELSE ""
           s == IF fmt = 0 THEN m.sid ELSE 0
           p == e.msg.time
<1>1. m.type \in Kinds /\ m.time \in Moment /\ m.sid \in Nat /\ Len(m.data) \in Nat
      BY ProperFields
<1>2. e.delta \in Moment /\ e.ext \in Moment /\ (e.fmt # 0 /\ e.ext # 0 => e.ext = e.delta) /\ p \in Moment
  <2> DEFINE q == e.msg
  <2>1. Proper(q)
        BY DEF EncOK
  <2> HIDE DEF q
  <2>2. q.time \in Moment
        BY <2>1, ProperFields
  <2> QED  BY <2>2 DEF EncOK, q
<1>3. d \in Moment /\ (p + d) % TimeMod = m.time
  <2> HIDE DEF p, Moment
  <2>1. (m.time - p) % TimeMod \in Moment /\ (p + ((m.time - p) % TimeMod)) % TimeMod = m.time
        BY <1>1, <1>2, DeltaIs
  <2> QED  BY <2>1 DEF DeltaOf, p
<1> HIDE DEF p, d
<1>4. ts \in Moment
      BY <1>1, <1>2, <1>3 DEF TsOf, d
<1>5. b \in BOOLEAN /\ (b => ts # 0)
  <2>1. Ext \in Nat \ {0} /\ ts \in Nat /\ b \in BOOLEAN
    <3>1. b \in BOOLEAN
      <4>1. CASE fmt = 3
        <5>1. b = (e.ext # 0)
              BY <4>1 DEF HasExtOf
        <5> QED  BY <5>1
      <4>2. CASE fmt # 3
        <5>1. b = (TsOf(e, fmt, m) >= Ext)
              BY <4>2 DEF HasExtOf
        <5> QED  BY <5>1
      <4> QED  BY <4>1, <4>2
    <3> HIDE DEF b, ts, x, l, y, s
    <3> QED  BY <1>4, <3>1, ChunkAssumption DEF Moment
  <2>2. CASE fmt # 3
    <3>1. b => ts >= Ext
          BY <2>2 DEF HasExtOf
    <3> HIDE DEF b, ts
    <3> QED  BY <2>1, <3>1
  <2>3. CASE fmt = 3 /\ e.fmt = 0
    <3>1. b => m.time >= Ext /\ ts = m.time
          BY <2>3 DEF HasExtOf, TsOf, AllowedOf
    <3> HIDE DEF b, ts
    <3> QED  BY <2>1, <3>1
  <2>4. CASE fmt = 3 /\ e.fmt # 0
    <3>1. b => e.ext # 0 /\ ts = e.delta
          BY <2>4 DEF HasExtOf, TsOf
    <3> HIDE DEF b, ts
    <3> QED  BY <1>2, <2>1, <2>4, <3>1
  <2> QED  BY <2>2, <2>3, <2>4
<1>6. x \in Nat /\ l \in Nat /\ y \in Kinds /\ s \in Nat
  <2>1. ts \in Nat /\ Ext \in Nat
        BY <1>4, ChunkAssumption DEF Moment
  <2>2. "" \in Kinds
        BY DEF Kinds
  <2> HIDE DEF b, ts, Kinds
  <2> QED  BY <1>1, <2>1, <2>2
<1>7. h = HdrToken(fmt, c, x, l, y, s)
      BY DEF HdrOf
<1>8. fmt # 3 => (x = Ext <=> b) /\ (~b => x = ts)
  <2>1. fmt # 3 => (b <=> ts >= Ext)
        BY DEF HasExtOf
  <2>2. ts \in Nat /\ Ext \in Nat
        BY <1>4, ChunkAssumption DEF Moment
  <2> HIDE DEF b, ts
  <2> QED  BY <2>1, <2>2
<1> DEFINE X == x  L == l  Y == y  S == s
<1>9. /\ fmt \in {0, 1} => L = Len(m.data) /\ Y = m.type
      /\ fmt = 0 => S = m.sid
      OBVIOUS
<1>10. X = x /\ X \in Nat /\ L \in Nat /\ Y \in Kinds /\ S \in Nat /\ h = HdrToken(fmt, c, X, L, Y, S)
       BY <1>6, <1>7
<1> HIDE DEF h, X, L, Y, S
<1>11. /\ h \in Tokens /\ h.k = "hdr" /\ h.fmt = fmt /\ h.csid = c /\ h.ts = X
       /\ h.len = L /\ h.type = Y /\ h.sid = S
  <2> HIDE DEF Tokens, Kinds, x, l, y, s
  <2>1. X \in Nat /\ L \in Nat /\ Y \in Kinds /\ S \in Nat /\ h = HdrToken(fmt, c, X, L, Y, S)
        BY <1>10
  <2>2. IsHdr(h, fmt, c, X, L, Y, S)
        BY <2>1, HdrIs
  <2> QED  BY <2>2 DEF IsHdr
<1>12. fmt # 3 => (HasExt(h) <=> b) /\ (~b => h.ts = ts)
  <2>1. HasExt(h) <=> X = Ext
        BY <1>11 DEF HasExt
  <2> HIDE DEF x, b, ts
  <2> QED  BY <1>8, <1>10, <1>11, <2>1
<1> HIDE DEF b, ts, Tokens, Moment
<1> QED  BY <1>3, <1>4, <1>5, <1>9, <1>11, <1>12 DEF Starts, h, b, ts, d, p

\* The encoder behind the header.
EncStarts(e, fmt, m) ==
    LET n == EncOf(e, fmt, m)
    IN  /\ EncOK(n) /\ n.used /\ n.msg = m /\ n.off = 0
        /\ n.fmt = (IF fmt = 3 THEN e.fmt ELSE fmt)
        /\ n.delta = (IF fmt \in {1, 2} THEN DeltaOf(e, m) ELSE e.delta)
        /\ n.ext = (IF HasExtOf(e, fmt, m) THEN TsOf(e, fmt, m) ELSE 0)
        /\ (n.ext # 0) = HasExtOf(e, fmt, m)

LEMMA EncOfIs ==
    ASSUME NEW e, EncOK(e), NEW c \in Nat, NEW fmt \in 0..3, NEW m, Proper(m), AllowedOf(e, fmt, m)
    PROVE  EncStarts(e, fmt, m)
<1> DEFINE b == HasExtOf(e, fmt, m)  ts == TsOf(e, fmt, m)  dm == DeltaOf(e, m)
           f == IF fmt = 3 THEN e.fmt ELSE fmt
           d == IF fmt \in {1, 2} THEN dm ELSE e.delta
           x == IF b THEN ts ELSE 0
           u == TRUE  o == 0  n == EncOf(e, fmt, m)
<1>1. ts \in Moment /\ dm \in Moment /\ b \in BOOLEAN /\ (b => ts # 0)
      BY StartsIs DEF Starts
<1>2. e.fmt \in 0..2 /\ e.delta \in Moment /\ (e.fmt # 0 /\ e.ext # 0 => e.ext = e.delta)
      BY DEF EncOK
<1>3. Len(m.data) \in Nat
      BY ProperFields
<1>4. n = Enc(u, f, m, o, d, x)
      BY DEF EncOf
<1>5. fmt \in {1, 2} => ts = dm
      BY DEF TsOf
<1>6. fmt = 3 /\ e.fmt # 0 => ts = e.delta
      BY DEF TsOf
<1> HIDE DEF b, ts, dm, n
<1>7. f \in 0..2 /\ d \in Moment
      BY <1>1, <1>2
<1>8. x \in Moment /\ (x # 0) = b
  <2>1. 0 \in Moment
        BY ChunkAssumption DEF Moment
  <2> HIDE DEF Moment
  <2> QED  BY <1>1, <2>1
<1>9. (f # 0 /\ x # 0) => x = d
  <2> SUFFICES ASSUME f # 0, x # 0
               PROVE  x = d
      OBVIOUS
  <2>1. x = ts
        OBVIOUS
  <2>2. CASE fmt \in {1, 2}
        BY <1>5, <2>1, <2>2
  <2>3. CASE fmt = 3
        BY <1>6, <2>1, <2>3
  <2> QED  BY <2>2, <2>3
<1>10. u \in BOOLEAN /\ o \in 0..Len(m.data) /\ u
       BY <1>3
<1> DEFINE f1 == f  d1 == d  x1 == x
<1>11. f1 = f /\ d1 = d /\ x1 = x /\ u = TRUE /\ o = 0
       OBVIOUS
<1>12. /\ f1 \in 0..2 /\ d1 \in Moment /\ x1 \in Moment /\ ((f1 # 0 /\ x1 # 0) => x1 = d1)
       /\ n = Enc(u, f1, m, o, d1, x1)
       BY <1>4, <1>7, <1>8, <1>9
<1>13. (x1 # 0) = b
       BY <1>8
<1> HIDE DEF u, o, f1, d1, x1, Moment
<1>14. EncOK(n)
       BY <1>10, <1>12, EncIs
<1>15. n.used = u /\ n.fmt = f1 /\ n.msg = m /\ n.off = o /\ n.delta = d1 /\ n.ext = x1
       BY <1>12, EncFields
<1>16. n.used /\ n.off = 0
       BY <1>10, <1>11, <1>15
<1>17. (n.ext # 0) = b
       BY <1>13, <1>15
<1>18. n.fmt = f /\ n.delta = d /\ n.ext = x
       BY <1>11, <1>15
<1> QED  BY <1>14, <1>15, <1>16, <1>17, <1>18 DEF EncStarts, n, b, ts, dm

\* The last extended timestamp, and the time that the reader takes from the header.
ExtAfter(e, fmt, m, x) == IF HasExtOf(e, fmt, m) THEN TsOf(e, fmt, m) ELSE x
TsRead(e, fmt, m) == IF fmt = 3 /\ ~HasExtOf(e, fmt, m) THEN e.delta ELSE TsOf(e, fmt, m)

\* The reader that has read all that e has written completes the header of m to what
\* the encoder has in mind.
LEMMA StartMirror ==
    ASSUME NEW e, EncOK(e), e.off = Len(e.msg.data), NEW x, LastExt(e, x), NEW c \in Nat,
           NEW fmt \in 0..3, NEW m, Proper(m), AllowedOf(e, fmt, m)
    PROVE  /\ LastExt(EncOf(e, fmt, m), ExtAfter(e, fmt, m, x))
           /\ Began(Mirror(e, x), HdrOf(e, c, fmt, m), TsRead(e, fmt, m))
                = Mirror(EncOf(e, fmt, m), ExtAfter(e, fmt, m, x))
<1> DEFINE h == HdrOf(e, c, fmt, m)  b == HasExtOf(e, fmt, m)  ts == TsOf(e, fmt, m)
           dm == DeltaOf(e, m)  tt == TsRead(e, fmt, m)  n == EncOf(e, fmt, m)
           y == ExtAfter(e, fmt, m, x)  cs == Mirror(e, x)  p == e.msg
           has == (e.ext # 0)  l == Len(m.data)
           pl == Len(p.data)  left == Len(p.data) - e.off  pd == SubSeq(p.data, 1, e.off)
<1>1. /\ ts \in Moment /\ dm \in Moment /\ (p.time + dm) % TimeMod = m.time
      /\ b \in BOOLEAN /\ (b => ts # 0)
      /\ h \in Tokens /\ h.k = "hdr" /\ h.fmt = fmt /\ h.csid = c
      /\ fmt # 3 => (HasExt(h) <=> b) /\ (~b => h.ts = ts)
      /\ fmt \in {0, 1} => h.len = l /\ h.type = m.type
      /\ fmt = 0 => h.sid = m.sid
      BY StartsIs DEF Starts
<1>2. EncStarts(e, fmt, m)
      BY EncOfIs
<1>3. /\ n.msg = m /\ n.off = 0
      /\ n.fmt = (IF fmt = 3 THEN e.fmt ELSE fmt)
      /\ n.delta = (IF fmt \in {1, 2} THEN dm ELSE e.delta)
      /\ n.ext = (IF b THEN ts ELSE 0)
      /\ (n.ext # 0) = b
      BY <1>2 DEF EncStarts
<1>4. cs = Rec(e.fmt, p.time, e.delta, has, x, p.sid, p.type, pl, left, pd)
      BY DEF Mirror
<1>5. m.data \in Seq(Payloads) /\ l \in Nat /\ m.time \in Moment
      BY ProperFields
<1>6. SubSeq(m.data, 1, 0) = <<>> /\ l - 0 = l
  <2> DEFINE s == m.data  v == SubSeq(s, 1, 0)
  <2>1. v \in Seq(Payloads) /\ Len(v) = 0
    <3>1. s \in Seq(Payloads) /\ 0 \in 0..Len(s)
          BY <1>5
    <3> HIDE DEF s, Payloads
    <3> QED  BY <3>1, FrontIs
  <2> HIDE DEF v
  <2>2. v = <<>>
        BY <2>1, EmptySeq
  <2> QED  BY <1>5, <2>2 DEF v
<1>7. Mirror(n, y) = Rec(n.fmt, m.time, n.delta, b, y, m.sid, m.type, l, l, <<>>)
  <2> HIDE DEF n, b, y
  <2> QED  BY <1>3, <1>6 DEF Mirror
<1>8. left = 0
  <2> DEFINE q == e.msg
  <2>1. Proper(q)
        BY DEF EncOK
  <2> HIDE DEF q
  <2>2. Len(q.data) \in Nat
        BY <2>1, ProperFields
  <2> QED  BY <2>2 DEF q
<1>9. x \in Moment /\ (has => x = e.ext) /\ (e.fmt # 0 /\ has => e.ext = e.delta) /\ e.delta \in Moment
      BY DEF LastExt, EncOK
<1>10. LastExt(n, y)
  <2>1. y = IF b THEN ts ELSE x
        BY DEF ExtAfter
  <2> HIDE DEF n, b, ts, y, has
  <2> QED  BY <1>1, <1>3, <1>9, <2>1 DEF LastExt
<1>11. y = IF b THEN ts ELSE x
       BY DEF ExtAfter
<1>12. tt = IF fmt = 3 /\ ~b THEN e.delta ELSE ts
       BY DEF TsRead
<1>13. /\ fmt = 0 => ts = m.time
       /\ fmt \in {1, 2} => ts = dm
       /\ fmt = 3 => ts = (IF e.fmt = 0 THEN m.time ELSE e.delta) /\ b = has
       BY DEF TsOf, HasExtOf
<1>14. /\ fmt # 0 => m.sid = p.sid
       /\ fmt \in {2, 3} => m.type = p.type /\ l = pl
       /\ fmt = 3 => IF e.fmt # 0 THEN m.time = (p.time + e.delta) % TimeMod
                     ELSE ~has => m.time = p.time
  <2>1. CASE fmt = 0
        BY <2>1
  <2>2. CASE fmt = 1
    <3>1. m.sid = p.sid
          BY <2>2 DEF AllowedOf
    <3> HIDE DEF p, l, pl, has
    <3> QED  BY <2>2, <3>1
  <2>3. CASE fmt = 2
    <3>1. m.sid = p.sid /\ m.type = p.type /\ l = pl
          BY <2>3 DEF AllowedOf
    <3> HIDE DEF p, l, pl, has
    <3> QED  BY <2>3, <3>1
  <2>4. CASE fmt = 3
    <3>1. /\ m.sid = p.sid /\ m.type = p.type /\ l = pl
          /\ IF e.fmt # 0 THEN m.time = (p.time + e.delta) % TimeMod
             ELSE ~has => m.time = p.time
          BY <2>4 DEF AllowedOf
    <3> HIDE DEF p, l, pl, has
    <3> QED  BY <2>4, <3>1
  <2> QED  BY <2>1, <2>2, <2>3, <2>4
<1>15. cs.msgdataleft = left
  <2> HIDE DEF cs, has, pl, left, pd
  <2> QED  BY <1>4, RecFields
<1> HIDE DEF h, b, ts, dm, tt, n, y, cs, has, l, pl, left, pd, p, Tokens, Moment
<1> SUFFICES Began(cs, h, tt) = Mirror(n, y)
    BY <1>10 DEF h, tt, n, y, cs
\* What is to be shown of every type: the chunk stream before the buffer is a new one.
<1>16. ASSUME NEW r, NEW len, NEW dt,
              r = Rec(n.fmt, m.time, n.delta, b, y, m.sid, m.type, l, len, dt),
              Began(cs, h, tt) = Start(r)
       PROVE  Began(cs, h, tt) = Mirror(n, y)
  <2>1. Start(r) = Rec(n.fmt, m.time, n.delta, b, y, m.sid, m.type, l, l, <<>>)
        BY <1>16, StartIs
  <2> QED  BY <1>7, <1>16, <2>1
<1>17. CASE fmt = 0
  <2> DEFINE r == Header0(cs, h, tt)  o == 0  hx == HasExt(h)  z == IF hx THEN tt ELSE x
  <2>1. r = Rec(o, tt, e.delta, hx, z, h.sid, h.type, h.len, left, pd)
        BY <1>4, Header0Is
  <2>2. Began(cs, h, tt) = Start(r)
        BY <1>1, <1>17 DEF Began
  <2>3. hx = b /\ z = y /\ tt = m.time /\ h.sid = m.sid /\ h.type = m.type /\ h.len = l /\ n.fmt = o
        /\ n.delta = e.delta
    <3>1. hx = b
          BY <1>1, <1>17 DEF HasExt
    <3>2. tt = m.time /\ n.fmt = o /\ n.delta = e.delta
          BY <1>3, <1>12, <1>13, <1>17
    <3>3. z = y
          BY <1>11, <1>13, <1>17, <3>1, <3>2
    <3> QED  BY <1>1, <1>17, <3>1, <3>2, <3>3
  <2> HIDE DEF r, o, hx, z
  <2>4. r = Rec(n.fmt, m.time, n.delta, b, y, m.sid, m.type, l, left, pd)
        BY <2>1, <2>3
  <2> QED  BY <1>16, <2>2, <2>4
<1>18. CASE fmt \in {1, 2}
  <2> DEFINE r == Header12(cs, h, tt)  hx == HasExt(h)  z == IF hx THEN tt ELSE x
             w == (p.time + tt) % TimeMod
             ty == IF h.fmt = 1 THEN h.type ELSE p.type
             le == IF h.fmt = 1 THEN h.len ELSE pl
  <2>1. r = Rec(h.fmt, w, tt, hx, z, p.sid, ty, le, left, pd)
        BY <1>4, Header12Is
  <2>2. Began(cs, h, tt) = Start(r)
        BY <1>1, <1>18 DEF Began
  <2>3. /\ hx = b /\ z = y /\ tt = dm /\ w = m.time /\ p.sid = m.sid /\ ty = m.type /\ le = l
        /\ n.fmt = h.fmt /\ n.delta = dm
    <3>1. hx = b
          BY <1>1, <1>18 DEF HasExt
    <3>2. tt = ts /\ ts = dm /\ n.fmt = h.fmt /\ n.delta = dm
          BY <1>1, <1>3, <1>12, <1>13, <1>18
    <3>3. z = y
          BY <1>11, <3>1, <3>2
    <3>4. w = m.time
          BY <1>1, <3>2
    <3>5. ty = m.type /\ le = l /\ p.sid = m.sid
          BY <1>1, <1>14, <1>18
    <3> QED  BY <3>1, <3>2, <3>3, <3>4, <3>5
  <2> HIDE DEF r, hx, z, w, ty, le
  <2>4. r = Rec(n.fmt, m.time, n.delta, b, y, m.sid, m.type, l, left, pd)
        BY <2>1, <2>3
  <2> QED  BY <1>16, <2>2, <2>4
<1>19. CASE fmt = 3
  <2> DEFINE r == Header3(cs, tt)  z == IF e.fmt = 0 /\ has THEN tt ELSE x
             w == IF e.fmt # 0 THEN (p.time + tt) % TimeMod ELSE IF has THEN tt ELSE p.time
  <2>1. r = Rec(e.fmt, w, e.delta, has, z, p.sid, p.type, pl, left, pd)
        BY <1>4, Header3Is
  <2>2. Began(cs, h, tt) = Start(r)
        BY <1>1, <1>8, <1>15, <1>19 DEF Began
  <2>3. /\ has = b /\ n.fmt = e.fmt /\ n.delta = e.delta /\ p.sid = m.sid /\ p.type = m.type /\ pl = l
        BY <1>3, <1>13, <1>14, <1>19
  <2>4. tt = IF b THEN (IF e.fmt = 0 THEN m.time ELSE e.delta) ELSE e.delta
        BY <1>12, <1>13, <1>19
  <2>5. w = m.time
        BY <1>14, <1>19, <2>3, <2>4
  <2>6. z = y
        BY <1>9, <1>11, <1>13, <1>19, <2>3, <2>4
  <2> HIDE DEF r, z, w
  <2>7. r = Rec(n.fmt, m.time, n.delta, b, y, m.sid, m.type, l, left, pd)
        BY <2>1, <2>3, <2>5, <2>6
  <2> QED  BY <1>16, <2>2, <2>7
<1> QED  BY <1>17, <1>18, <1>19

-----------------------------------------------------------------------------
(* A chunk that the reader understands                                     *)

\* The reader in state S takes the header h, with the time ts, for what it is.
HeadFits(S, h, ext, ts) ==
    LET cs == CsOf(S, h.csid)
    IN  /\ h.k = "hdr"
        /\ h.fmt # 0 => h.csid \in DOMAIN S.map
        /\ h.fmt # 3 => cs.msgdataleft = 0 /\ (ext <=> HasExt(h)) /\ (~ext => ts = h.ts)
        /\ h.fmt = 3 /\ cs.msgdataleft = 0 =>
              (ext <=> cs.hastimeext) /\ (~ext => ts = cs.timedelta)
        /\ h.fmt = 3 /\ cs.msgdataleft # 0 => (ext => cs.hastimeext /\ ts = cs.timeext)
        /\ ext => ts # 0

\* The reader in state T has read all that e has written to chunk stream c.
Follows(T, c, e, x) ==
    /\ LastExt(e, x) /\ CsOf(T, c) = Mirror(e, x)
    /\ c \in DOMAIN T.map <=> e.used

\* The header makes the reader in state T follow e, before the payload.
Understood(T, c, e, x, h, ext, ts) ==
    /\ EncOK(e) /\ e.used /\ LastExt(e, x)
    /\ h \in Tokens /\ ext \in BOOLEAN /\ ts \in Moment /\ h.csid = c
    /\ HeadFits(T, h, ext, ts)
    /\ Began(CsOf(T, c), h, ts) = Mirror(e, x)

LEMMA StartUnderstood ==
    ASSUME NEW T, NEW c \in Nat, NEW e, EncOK(e), e.off = Len(e.msg.data), NEW x, Follows(T, c, e, x),
           NEW fmt \in 0..3, NEW m, Proper(m), AllowedOf(e, fmt, m)
    PROVE  /\ Understood(T, c, EncOf(e, fmt, m), ExtAfter(e, fmt, m, x), HdrOf(e, c, fmt, m),
                         HasExtOf(e, fmt, m), TsRead(e, fmt, m))
           /\ ChunkHead(HdrOf(e, c, fmt, m), HasExtOf(e, fmt, m), TsRead(e, fmt, m))
                = ChunkHead(HdrOf(e, c, fmt, m), HasExtOf(e, fmt, m), TsOf(e, fmt, m))
<1> DEFINE h == HdrOf(e, c, fmt, m)  b == HasExtOf(e, fmt, m)  ts == TsOf(e, fmt, m)
           tt == TsRead(e, fmt, m)  n == EncOf(e, fmt, m)  y == ExtAfter(e, fmt, m, x)
           cs == Mirror(e, x)
<1>1. /\ ts \in Moment /\ b \in BOOLEAN /\ (b => ts # 0)
      /\ h \in Tokens /\ h.k = "hdr" /\ h.fmt = fmt /\ h.csid = c
      /\ fmt # 3 => (HasExt(h) <=> b) /\ (~b => h.ts = ts)
      BY StartsIs DEF Starts
<1>2. EncOK(n) /\ n.used
      BY EncOfIs DEF EncStarts
<1>3. LastExt(e, x) /\ CsOf(T, c) = cs /\ (c \in DOMAIN T.map <=> e.used)
      BY DEF Follows
<1>4. LastExt(n, y) /\ Began(cs, h, tt) = Mirror(n, y)
      BY <1>3, StartMirror
<1>5. cs.msgdataleft = Len(e.msg.data) - e.off /\ cs.hastimeext = (e.ext # 0) /\ cs.timedelta = e.delta
      BY MirrorFull
<1>6. cs.msgdataleft = 0
  <2> DEFINE q == e.msg
  <2>1. Proper(q)
        BY DEF EncOK
  <2> HIDE DEF q
  <2>2. Len(q.data) \in Nat
        BY <2>1, ProperFields
  <2> HIDE DEF cs
  <2> QED  BY <1>5, <2>2 DEF q
<1>7. tt = IF fmt = 3 /\ ~b THEN e.delta ELSE ts
      BY DEF TsRead
<1>8. fmt = 3 => b = (e.ext # 0)
      BY DEF HasExtOf
<1>9. fmt # 0 => e.used
  <2>1. CASE fmt = 1
        BY <2>1 DEF AllowedOf
  <2>2. CASE fmt = 2
        BY <2>2 DEF AllowedOf
  <2>3. CASE fmt = 3
        BY <2>3 DEF AllowedOf
  <2> QED  BY <2>1, <2>2, <2>3
<1>10. e.delta \in Moment
       BY DEF EncOK
<1> HIDE DEF h, b, ts, tt, n, y, cs, Tokens, Moment
<1>11. tt \in Moment /\ (b => tt = ts)
       BY <1>1, <1>7, <1>10
<1>12. HeadFits(T, h, b, tt)
  <2>1. CsOf(T, h.csid) = cs /\ (h.fmt # 0 => h.csid \in DOMAIN T.map)
        BY <1>1, <1>3, <1>9
  <2>2. h.fmt # 3 => (b <=> HasExt(h)) /\ (~b => tt = h.ts)
        BY <1>1, <1>7
  <2>3. h.fmt = 3 => (b <=> cs.hastimeext) /\ (~b => tt = cs.timedelta)
    <3>1. fmt = 3 => (b <=> cs.hastimeext)
          BY <1>5, <1>8
    <3> QED  BY <1>1, <1>5, <1>7, <3>1
  <2>4. b => tt # 0
        BY <1>1, <1>11
  <2> QED  BY <1>1, <1>6, <2>1, <2>2, <2>3, <2>4 DEF HeadFits
<1>13. Understood(T, c, n, y, h, b, tt)
       BY <1>1, <1>2, <1>3, <1>4, <1>11, <1>12 DEF Understood
<1>14. ChunkHead(h, b, tt) = ChunkHead(h, b, ts)
       BY <1>11 DEF ChunkHead
<1> QED  BY <1>13, <1>14 DEF h, b, ts, tt, n, y

LEMMA MoreUnderstood ==
    ASSUME NEW T, NEW c \in Nat, NEW e, EncOK(e), e.off # Len(e.msg.data), e.used,
           NEW x, Follows(T, c, e, x), NEW rep \in BOOLEAN
    PROVE  Understood(T, c, e, x, HdrToken(3, c, 0, 0, "", 0), rep /\ e.ext # 0, e.ext)
<1> DEFINE h == HdrToken(3, c, 0, 0, "", 0)  b == (rep /\ e.ext # 0)  cs == Mirror(e, x)
           f == 3  o == 0  y == ""
<1>1. f \in 0..3 /\ o \in Nat /\ y \in Kinds /\ h = HdrToken(f, c, o, o, y, o)
      BY DEF Kinds
<1> HIDE DEF h, f, o, y, Kinds
<1>2. h \in Tokens /\ h.k = "hdr" /\ h.fmt = 3 /\ h.csid = c
  <2>1. IsHdr(h, f, c, o, o, y, o)
        BY <1>1, HdrIs
  <2> QED  BY <2>1 DEF IsHdr, f
<1>3. LastExt(e, x) /\ CsOf(T, c) = cs /\ c \in DOMAIN T.map
      BY DEF Follows
<1>4. /\ cs.msgdataleft = Len(e.msg.data) - e.off /\ cs.hastimeext = (e.ext # 0) /\ cs.timeext = x
      BY MirrorFull
<1>5. cs.msgdataleft # 0
  <2> DEFINE q == e.msg
  <2>1. Proper(q) /\ e.off \in 0..Len(q.data)
        BY DEF EncOK
  <2> HIDE DEF q
  <2>2. Len(q.data) \in Nat
        BY <2>1, ProperFields
  <2> HIDE DEF cs
  <2> QED  BY <1>4, <2>1, <2>2 DEF q
<1>6. e.ext \in Moment /\ b \in BOOLEAN
      BY DEF EncOK
<1>7. b => e.ext # 0 /\ e.ext = x
      BY <1>3 DEF LastExt
<1> HIDE DEF b, cs, Tokens, Moment
<1>8. Began(cs, h, e.ext) = cs
      BY <1>2, <1>5 DEF Began
<1>9. HeadFits(T, h, b, e.ext)
  <2>1. b => cs.hastimeext /\ e.ext = cs.timeext
        BY <1>4, <1>7
  <2> QED  BY <1>2, <1>3, <1>5, <1>7, <2>1 DEF HeadFits
<1> QED  BY <1>2, <1>3, <1>6, <1>8, <1>9 DEF Understood, h, b, cs

\* A message over the limit, and where the first one begins, in a reader that has
\* come to know outs.
Long(m) == Len(m.data) > MaxMsgSize
OverAt(over0, m, outs) == IF over0 = 0 /\ Long(m) THEN Len(outs) + 1 ELSE over0

LEMMA MirrorBig ==
    ASSUME NEW e, NEW x
    PROVE  TooBig(Mirror(e, x)) <=> Long(e.msg)
<1> DEFINE b == (e.ext # 0)  l == Len(e.msg.data)  n == Len(e.msg.data) - e.off
           d == SubSeq(e.msg.data, 1, e.off)  p == Mirror(e, x)
<1>1. p = Rec(e.fmt, e.msg.time, e.delta, b, x, e.msg.sid, e.msg.type, l, n, d)
      BY DEF Mirror
<1> HIDE DEF b, l, n, d, p
<1>2. p.msgdatalen = l
      BY <1>1, RecFields
<1>3. TooBig(p) <=> Long(e.msg)
      BY <1>2 DEF TooBig, Long, l
<1> QED  BY <1>3 DEF p

\* A chunk of n units behind w, and what the reader has read then.
Chunked(S, w, T, c, e, x, h, ext, ts, n) ==
    LET T2   == Landed(T, c, Mirror(Ahead(e, n), x))
        left == Len(e.msg.data) - e.off
    IN  /\ T2 \in States
        /\ Leads(S, (w \o ChunkHead(h, ext, ts)) \o Data(Vals(e, n)), T2)
        /\ T2.outs = IF n = left THEN T.outs \o Seen(e.msg) ELSE T.outs
        /\ T2.max = IF n = left /\ e.msg.type = "SetChunkSize" THEN e.msg.data[1][1] ELSE T.max
        /\ T2.cut = OverAt(T.cut, e.msg, T.outs)

LEMMA ChunkLeads ==
    ASSUME NEW S \in States, NEW T \in States, NEW w \in Seq(Tokens), Leads(S, w, T),
           NEW c, NEW e, NEW x, NEW h, NEW ext, NEW ts, Understood(T, c, e, x, h, ext, ts),
           NEW n, n = IF Len(e.msg.data) - e.off > T.max THEN T.max ELSE Len(e.msg.data) - e.off
    PROVE  Chunked(S, w, T, c, e, x, h, ext, ts, n)
<1> DEFINE left == Len(e.msg.data) - e.off  vals == Vals(e, n)  a == Ahead(e, n)
           cs == Mirror(e, x)  aft == Mirror(a, x)  T2 == Landed(T, c, aft)
           v == Toks(h, ext, ts, vals)  hd == ChunkHead(h, ext, ts)  d == Data(vals)
<1>1. /\ EncOK(e) /\ e.used /\ LastExt(e, x)
      /\ h \in Tokens /\ ext \in BOOLEAN /\ ts \in Moment /\ h.csid = c
      /\ HeadFits(T, h, ext, ts)
      /\ Began(CsOf(T, c), h, ts) = cs
      BY DEF Understood
<1>2. T.max \in Nat \ {0}
      BY StateOf DEF IsState
<1>3. left \in Nat /\ n \in 0..left /\ Proper(e.msg)
  <2> DEFINE q == e.msg
  <2>1. Proper(q) /\ e.off \in 0..Len(q.data)
        BY <1>1 DEF EncOK
  <2> HIDE DEF q
  <2>2. Len(q.data) \in Nat
        BY <2>1, ProperFields
  <2>3. left \in Nat
        BY <2>1, <2>2 DEF q
  <2> HIDE DEF left
  <2>4. n = IF left > T.max THEN T.max ELSE left
        BY DEF left
  <2> QED  BY <1>2, <2>1, <2>3, <2>4 DEF q
<1>4. vals \in Seq(Payloads) /\ Len(vals) = n /\ After(cs, vals) = aft
      BY <1>1, <1>3, WrittenIs DEF Written
<1>5. /\ EncOK(a) /\ a.msg = e.msg /\ a.off = e.off + n /\ a.ext = e.ext
  <2>1. a = Enc(e.used, e.fmt, e.msg, e.off + n, e.delta, e.ext) /\ EncOK(a)
        BY <1>1, <1>3, AheadIs
  <2> DEFINE o == e.off + n
  <2> HIDE DEF a, o
  <2>2. a = Enc(e.used, e.fmt, e.msg, o, e.delta, e.ext)
        BY <2>1 DEF o
  <2>3. a.msg = e.msg /\ a.off = o /\ a.ext = e.ext
        BY <2>2, EncFields
  <2> QED  BY <2>1, <2>3 DEF o
<1>6. /\ aft.msgtypeid = e.msg.type
      /\ Full(aft) <=> n = left
      /\ Full(aft) => aft.msgdata = e.msg.data /\ Gives(aft) = Seen(e.msg)
  <2> HIDE DEF a
  <2>1. /\ aft.msgtypeid = a.msg.type
        /\ Full(aft) <=> a.off = Len(a.msg.data)
        /\ Full(aft) => aft.msgdata = a.msg.data /\ Gives(aft) = Seen(a.msg)
        BY <1>5, MirrorFull
  <2>2. e.off + n = Len(e.msg.data) <=> n = left
    <3>1. e.off \in Nat /\ Len(e.msg.data) \in Nat /\ n \in Nat
      <4> DEFINE q == e.msg
      <4>1. Proper(q) /\ e.off \in 0..Len(q.data)
            BY <1>1 DEF EncOK
      <4> HIDE DEF q
      <4>2. Len(q.data) \in Nat
            BY <4>1, ProperFields
      <4> QED  BY <1>3, <4>1, <4>2 DEF q
    <3> QED  BY <3>1
  <2> HIDE DEF aft, left
  <2> QED  BY <1>5, <2>1, <2>2
<1>7. cs.msgdataleft = left
      BY <1>1, MirrorFull
<1>22. TooBig(aft) <=> Long(e.msg)
       BY <1>5, MirrorBig
<1>8. Full(aft) /\ aft.msgtypeid \in Controls => aft.msgdata # <<>> /\ aft.msgdata[1][1] # 0
  <2>1. Proper(e.msg)
        BY <1>3
  <2>2. e.msg.type \in Controls => e.msg.data # <<>> /\ e.msg.data[1][1] # 0
        BY <2>1, PeerAssumption DEF Proper
  <2> HIDE DEF aft
  <2> QED  BY <1>6, <2>2
<1> HIDE DEF left, vals, a, cs, aft, States, Tokens, Moment, Payloads, Messages
<1>9. Fits(T, h, ext, ts, vals)
  <2>1. Len(vals) = Portion(cs, T.max)
        BY <1>4, <1>7 DEF Portion, left
  <2> QED  BY <1>1, <1>4, <1>8, <2>1 DEF Fits, HeadFits
<1>10. Taken(T, h, ts, vals) = T2
       BY <1>1, <1>4 DEF Taken
<1> HIDE DEF T2
<1>11. v \in Seq(Tokens)
       BY <1>1, <1>4, ToksIn
<1> DEFINE z == <<>>
<1>12. z \in Seq(Tokens) /\ v \o z = v
  <2> HIDE DEF v
  <2>1. v \o <<>> = v
        BY <1>11, ConcatEmptySeq
  <2> QED  BY <2>1
<1> HIDE DEF z
<1>13. Link(T, v, T2, z)
  <2>1. v = Toks(h, ext, ts, vals) \o z
        BY <1>12
  <2> HIDE DEF v
  <2>2. Link(T, v, Taken(T, h, ts, vals), z)
        BY <1>1, <1>4, <1>9, <2>1, LinkIs
  <2> QED  BY <1>10, <2>2
<1> HIDE DEF v
<1>14. T2 \in States
       BY <1>13, TakenIn
<1>15. Leads(S, w \o v, T2)
  <2>1. Leads(T2, z, T2)
        BY LeadsNone DEF z
  <2>2. Leads(T, v, T2)
        BY <1>11, <1>12, <1>13, <1>14, <2>1, LeadsStep
  <2> QED  BY <1>11, <1>14, <2>2, LeadsJoin
<1>16. w \o v = (w \o hd) \o d
  <2>1. hd \in Seq(Tokens)
    <3>1. ts \in Nat
          BY <1>1, ChunkAssumption DEF Moment
    <3> QED  BY <1>1, <3>1, HeadIs
  <2>2. d \in Seq(Tokens)
        BY <1>4, DataIs
  <2>3. v = hd \o d
        BY DEF v, Toks
  <2> HIDE DEF hd, d
  <2>4. (w \o hd) \o d = w \o (hd \o d)
        BY <2>1, <2>2, ConcatAssociative
  <2> QED  BY <2>3, <2>4
<1>17. /\ T2.max = IF Full(aft) /\ aft.msgtypeid = "SetChunkSize" THEN aft.msgdata[1][1] ELSE T.max
       /\ T2.outs = (IF Full(aft) THEN T.outs \o Gives(aft) ELSE T.outs)
       /\ T2.cut = CutAt(T, aft)
  <2>1. LandsIn(T, c, aft, T2)
        BY LandedFields DEF T2
  <2> QED  BY <2>1 DEF LandsIn
<1>21. T2.cut = OverAt(T.cut, e.msg, T.outs)
       BY <1>17, <1>22 DEF CutAt, OverAt
<1>18. T2.outs = IF n = left THEN T.outs \o Seen(e.msg) ELSE T.outs
       BY <1>6, <1>17
<1>19. T2.max = IF n = left /\ e.msg.type = "SetChunkSize" THEN e.msg.data[1][1] ELSE T.max
       BY <1>6, <1>17
<1>20. Leads(S, (w \o hd) \o d, T2)
       BY <1>15, <1>16
<1> QED  BY <1>14, <1>18, <1>19, <1>20, <1>21 DEF Chunked, T2, aft, a, left, vals

-----------------------------------------------------------------------------
(* The connection                                                          *)

\* The peer's encoders, and the chunk streams it has used.
EncsOK(E) == E = [c \in Csids |-> E[c]] /\ \A c \in Csids : EncOK(E[c])
Used(E) == {c \in Csids : E[c].used}

\* The reader that has read all of the peer's chunks.
Follower(T, E) ==
    /\ T \in States /\ DOMAIN T.map \subseteq Csids
    /\ \A c \in Csids : \E x : Follows(T, c, E[c], x)

\* The header with which a rude peer has broken a rule.
Bad(E, t) ==
    \E c \in Csids, fmt \in 0..3 :
        /\ t = <<HdrToken(fmt, c, 0, 0, "Video", 0)>>
        /\ (fmt # 0 /\ ~E[c].used) \/ (fmt # 3 /\ E[c].off # Len(E[c].msg.data))

\* The wire leads the reader to where the peer is; but for what breaks a rule.
InTune(T, E, front, t) ==
    /\ Follower(T, E) /\ T.outs = sent /\ T.max = size /\ T.cut = over
    /\ front \in Seq(Tokens) /\ Leads(Reader, front, T) /\ wire = front \o t
    /\ broke => Bad(E, t)
    /\ ~broke => t = <<>>

\* What the reader that has given up was still to see.
Coming(u) == u \in Seq(Messages) /\ sent = Reader.outs \o u

\* Why it has given up with the error e.
Excuse(E, e) ==
    \/ e = "MsgDataTooBig" /\ over # 0 /\ Len(out) = over - 1
    \/ e = "TooManyCsid" /\ Cardinality(Used(E)) > MaxCsid
    \/ e \in {"TooManyCsid", "NoPrevChunk", "MsgDataLeft"} /\ broke

\* No message over the limit was started before over is set.
OverOK(E) == over \in Nat /\ (over = 0 => \A c \in Csids : ~Long(E[c].msg))

PeerSound(E) ==
    /\ enc = E /\ EncsOK(E) /\ ReaderOK
    /\ size \in Sizes \union {ChunkSize} /\ repeat \in BOOLEAN /\ started \in Nat
    /\ sent \in Seq(Messages) /\ broke \in BOOLEAN /\ (broke => Rude)
    /\ OverOK(E)

\* The inductive invariant.
PeerOK ==
    \E E : /\ PeerSound(E)
           /\ Fine => \E T, front, t : InTune(T, E, front, t)
           /\ ~Fine => Excuse(E, err) /\ \E u : Coming(u)

\* An encoder that has written nothing.
LEMMA NoEncIs == EncOK(NoEnc) /\ Mirror(NoEnc, 0) = NewCs /\ LastExt(NoEnc, 0) /\ ~NoEnc.used
<1> DEFINE y == ""  o == 0  s == <<>>  b == FALSE  m == Message(y, o, o, s)  e == Enc(b, o, m, o, o, o)
<1>1. NoEnc = e
      BY DEF NoEnc, NoMsg, Enc
<1>2. y \in Kinds /\ o \in Nat /\ s \in Seq(Payloads) /\ o \in Moment /\ o \in 0..2 /\ b \in BOOLEAN
      /\ y \notin Controls /\ Len(s) = 0 /\ o \in 0..Len(s)
      BY ChunkAssumption DEF Kinds, Moment, Controls
<1>3. SubSeq(s, 1, o) = s /\ Len(s) - o = o /\ Len(s) = o
  <2>1. SubSeq(s, 1, Len(s)) = s
    <3> HIDE DEF s, Payloads
    <3> QED  BY <1>2, FrontAll
  <2>2. Len(s) = o /\ Len(s) - o = o
        OBVIOUS
  <2> HIDE DEF o, s
  <2>3. SubSeq(s, 1, o) = s
        BY <2>1, <2>2
  <2> QED  BY <2>2, <2>3
<1>4. (o # 0) = b /\ ~b /\ o = 0
      OBVIOUS
<1> HIDE DEF y, o, s, b, m, e
<1>5. m.type = y /\ m.time = o /\ m.sid = o /\ m.data = s
      BY DEF Message, m
<1>6. Proper(m)
  <2>1. m \in Messages
    <3> HIDE DEF Messages, Payloads, Kinds
    <3> QED  BY <1>2, MessageIn DEF m
  <2> HIDE DEF Messages, Moment
  <2> QED  BY <1>2, <1>5, <2>1 DEF Proper
<1>7. /\ e.used = b /\ e.fmt = o /\ e.msg = m /\ e.off = o /\ e.delta = o /\ e.ext = o
      BY EncFields DEF e
<1>8. EncOK(e)
  <2>1. e = Enc(e.used, e.fmt, e.msg, e.off, e.delta, e.ext)
        BY <1>7 DEF e
  <2> HIDE DEF Moment
  <2> QED  BY <1>1, <1>2, <1>5, <1>6, <1>7, <2>1 DEF EncOK
<1>9. Mirror(e, o) = Rec(o, o, o, b, o, o, y, o, o, s)
      BY <1>3, <1>4, <1>5, <1>7 DEF Mirror
<1>10. NewCs = Rec(o, o, o, b, o, o, y, o, o, s)
       BY NewCsIs DEF o, b, y, s
<1>11. LastExt(e, o)
       BY <1>2, <1>4, <1>7 DEF LastExt
<1> QED  BY <1>1, <1>4, <1>7, <1>8, <1>9, <1>10, <1>11

LEMMA PeerInit == Init => PeerOK
<1> SUFFICES ASSUME Init
             PROVE  PeerOK
    OBVIOUS
<1> DEFINE e == <<>>  E == [c \in Csids |-> NoEnc]  no == NoEnc
<1>1. /\ wire = e /\ enc = E /\ size = ChunkSize /\ repeat \in BOOLEAN /\ started = 0 /\ sent = e
      /\ over = 0 /\ broke = FALSE /\ ReaderInit
      BY DEF Init
<1>2. ReaderOK /\ Fine /\ Reader = State(e, ChunkSize, e, 0) /\ Reader \in States
      BY <1>1, ReaderStarts
<1>3. e \in Seq(Messages) /\ e \in Seq(Tokens) /\ e \o e = e /\ DOMAIN e = {}
      BY EmptySeq
<1>4. EncOK(no) /\ Mirror(no, 0) = NewCs /\ LastExt(no, 0) /\ ~no.used
      BY NoEncIs
<1>5. EncsOK(E)
  <2> HIDE DEF no
  <2>1. EncOK(no)
        BY <1>4
  <2>2. E = [c \in Csids |-> no]
        BY DEF no
  <2> HIDE DEF E
  <2> QED  BY <2>1, <2>2 DEF EncsOK
<1>6. PeerSound(E)
  <2>1. ~Long(no.msg)
    <3>1. no.msg.data = <<>>
          BY DEF NoEnc, NoMsg, Message
    <3>2. Len(no.msg.data) = 0
          BY <3>1
    <3> QED  BY <3>2, ChunkAssumption DEF Long
  <2>2. OverOK(E)
        BY <1>1, <2>1 DEF OverOK
  <2> HIDE DEF e, E, Messages
  <2> QED  BY <1>1, <1>2, <1>3, <1>5, <2>2 DEF PeerSound
<1>7. Reader.map = e /\ Reader.max = ChunkSize /\ Reader.outs = e /\ Reader.cut = 0
      BY <1>2, StateFields
<1>8. Follower(Reader, E)
  <2>1. ASSUME NEW c \in Csids
        PROVE  Follows(Reader, c, E[c], 0)
    <3>1. E[c] = no
          BY DEF no
    <3>2. c \notin DOMAIN Reader.map
          BY <1>3, <1>7
    <3>3. CsOf(Reader, c) = NewCs
          BY <3>2 DEF CsOf
    <3> HIDE DEF E, no
    <3> QED  BY <1>4, <3>1, <3>2, <3>3 DEF Follows
  <2>2. DOMAIN Reader.map \subseteq Csids
        BY <1>3, <1>7
  <2> HIDE DEF E, States
  <2> QED  BY <1>2, <2>1, <2>2 DEF Follower
<1>9. InTune(Reader, E, e, e)
  <2>1. Leads(Reader, e, Reader)
        BY LeadsNone
  <2>2. ~broke => e = <<>>
        OBVIOUS
  <2> HIDE DEF e, E, Tokens
  <2> QED  BY <1>1, <1>3, <1>7, <1>8, <2>1, <2>2 DEF InTune
<1> HIDE DEF e, E
<1> QED  BY <1>2, <1>6, <1>9 DEF PeerOK

\* The chunk of c makes the reader follow the peer in all chunk streams.
LEMMA LandFollows ==
    ASSUME NEW T \in States, NEW E, Follower(T, E), NEW c \in Csids, NEW e, NEW x,
           NEW T2 \in States, T2 = Landed(T, c, Mirror(e, x)), LastExt(e, x), e.used,
           NEW E2, E2 = [E EXCEPT ![c] = e], EncsOK(E)
    PROVE  Follower(T2, E2)
<1> DEFINE cs == Mirror(e, x)
<1>1. T2.map = [d \in DOMAIN T.map \union {c} |-> IF d = c THEN cs ELSE T.map[d]]
  <2>1. LandsIn(T, c, cs, T2)
        BY LandedFields
  <2> HIDE DEF cs
  <2> QED  BY <2>1 DEF LandsIn
<1>2. DOMAIN T2.map = DOMAIN T.map \union {c} /\ DOMAIN T.map \subseteq Csids
      BY <1>1 DEF Follower
<1>3. ASSUME NEW d \in Csids
      PROVE  \E y : Follows(T2, d, E2[d], y)
  <2>1. d \in DOMAIN E
        BY DEF EncsOK
  <2>2. CASE d = c
    <3>1. E2[d] = e
          BY <2>1, <2>2
    <3>2. CsOf(T2, d) = cs /\ d \in DOMAIN T2.map
          BY <1>1, <1>2, <2>2 DEF CsOf
    <3>3. Follows(T2, d, E2[d], x)
          BY <3>1, <3>2 DEF Follows
    <3> QED  BY <3>3
  <2>3. CASE d # c
    <3>1. E2[d] = E[d]
          BY <2>1, <2>3
    <3>2. CsOf(T2, d) = CsOf(T, d) /\ (d \in DOMAIN T2.map <=> d \in DOMAIN T.map)
      <4> HIDE DEF cs
      <4> QED  BY <1>1, <1>2, <2>3 DEF CsOf
    <3>3. PICK y : Follows(T, d, E[d], y)
          BY DEF Follower
    <3>4. Follows(T2, d, E2[d], y)
          BY <3>1, <3>2, <3>3 DEF Follows
    <3> QED  BY <3>4
  <2> QED  BY <2>2, <2>3
<1> HIDE DEF States
<1> QED  BY <1>2, <1>3 DEF Follower

\* What is seen of a message is a sequence of messages.
LEMMA SeenIs ==
    ASSUME NEW e, EncOK(e)
    PROVE  Seen(e.msg) \in Seq(Messages)
<1> DEFINE m == e.msg  u == TRUE  l == Len(m.data)  f == e.fmt  d == e.delta  x == e.ext
           b == Enc(u, f, m, l, d, x)
<1>1. Proper(m) /\ l \in 0..Len(m.data)
  <2>1. Proper(m)
        BY DEF EncOK
  <2> HIDE DEF m
  <2>2. Len(m.data) \in Nat
        BY <2>1, ProperFields
  <2> QED  BY <2>1, <2>2
<1>2. /\ u \in BOOLEAN /\ u /\ f \in 0..2 /\ d \in Moment /\ x \in Moment
      /\ (f # 0 /\ x # 0 => x = d)
      BY DEF EncOK
<1>3. Len(m.data) = l
      OBVIOUS
<1> HIDE DEF u, l, f, d, x, m, b, Moment
<1>4. EncOK(b)
      BY <1>1, <1>2, EncIs DEF b
<1>5. b.msg = m /\ b.off = l /\ b.ext = x
      BY EncFields DEF b
<1>6. LastExt(b, x)
      BY <1>2, <1>5 DEF LastExt
<1> DEFINE cs == Mirror(b, x)
<1>7. IsCs(cs)
      BY <1>4, <1>6, MirrorIs
<1>8. /\ Full(cs) => Gives(cs) = Seen(b.msg)
      /\ Full(cs) <=> b.off = Len(b.msg.data)
      BY <1>4, MirrorFull
<1> HIDE DEF cs
<1>9. Gives(cs) = Seen(m)
      BY <1>3, <1>5, <1>8
<1>10. Gives(cs) \in Seq(Messages)
       BY <1>7, GivesOK
<1> QED  BY <1>9, <1>10 DEF m

\* A chunk of e is written to c, behind the header h.
LEMMA WriteTurn ==
    ASSUME PeerOK, ~broke, NEW c \in Csids, NEW e, EncOK(e), e.used,
           NEW h \in Tokens, NEW ext \in BOOLEAN, NEW ts \in Moment,
           \A T, x : Follows(T, c, enc[c], x) => \E y : Understood(T, c, e, y, h, ext, ts),
           Emit(c, e, ChunkHead(h, ext, ts)), started' \in Nat, over' = OverAt(over, e.msg, sent),
           UNCHANGED <<repeat, broke, readervars>>
    PROVE  PeerOK'
<1> DEFINE left == Len(e.msg.data) - e.off
<1>0. PICK n : n = IF left > size THEN size ELSE left
      OBVIOUS
<1> DEFINE a == Ahead(e, n)  hd == ChunkHead(h, ext, ts)  d == Data(Vals(e, n))
<1>1. PICK E : /\ PeerSound(E)
               /\ Fine => \E T, front, t : InTune(T, E, front, t)
               /\ ~Fine => Excuse(E, err) /\ \E u : Coming(u)
      BY DEF PeerOK
<1>2. /\ enc = E /\ EncsOK(E) /\ ReaderOK
      /\ size \in Sizes \union {ChunkSize} /\ repeat \in BOOLEAN
      /\ sent \in Seq(Messages) /\ broke \in BOOLEAN /\ (broke => Rude) /\ OverOK(E)
      BY <1>1 DEF PeerSound
<1>3. size \in Nat \ {0}
      BY <1>2, PeerAssumption, ChunkAssumption
<1>4. left \in Nat /\ n \in 0..left /\ Proper(e.msg)
  <2> DEFINE q == e.msg
  <2>1. Proper(q) /\ e.off \in 0..Len(q.data)
        BY DEF EncOK
  <2> HIDE DEF q
  <2>2. Len(q.data) \in Nat
        BY <2>1, ProperFields
  <2>3. left \in Nat
        BY <2>1, <2>2 DEF q
  <2> HIDE DEF left
  <2> QED  BY <1>0, <1>3, <2>1, <2>3 DEF q
<1>5. /\ EncOK(a) /\ a.used /\ a.ext = e.ext /\ a.msg = e.msg
  <2>1. a = Enc(e.used, e.fmt, e.msg, e.off + n, e.delta, e.ext) /\ EncOK(a)
        BY <1>4, AheadIs
  <2> DEFINE o == e.off + n
  <2> HIDE DEF a, o
  <2>2. a = Enc(e.used, e.fmt, e.msg, o, e.delta, e.ext)
        BY <2>1 DEF o
  <2>3. a.used = e.used /\ a.ext = e.ext /\ a.msg = e.msg
        BY <2>2 DEF Enc
  <2> QED  BY <2>1, <2>3
<1>6. d \in Seq(Tokens) /\ hd \in Seq(Tokens)
      /\ [i \in 1..n |-> DataToken(e.msg.data[e.off + i])] = d
  <2>1. Written(e, n, e.ext)
        BY <1>4, WrittenIs
  <2>2. ts \in Nat
        BY ChunkAssumption DEF Moment
  <2> HIDE DEF Tokens, Payloads
  <2>3. d \in Seq(Tokens)
        BY <2>1, DataIs DEF Written
  <2>4. hd \in Seq(Tokens)
        BY <2>2, HeadIs
  <2> QED  BY <2>1, <2>3, <2>4 DEF Written
<1> DEFINE E2 == [E EXCEPT ![c] = a]
<1>7. /\ wire' = (wire \o hd) \o d /\ enc' = E2
      /\ sent' = IF n = left THEN sent \o Seen(e.msg) ELSE sent
      /\ size' = IF n = left /\ e.msg.type = "SetChunkSize" THEN e.msg.data[1][1] ELSE size
  <2> HIDE DEF hd, d
  <2>1. /\ wire' = wire \o hd \o [i \in 1..n |-> DataToken(e.msg.data[e.off + i])]
        /\ enc' = [enc EXCEPT ![c] = [e EXCEPT !.off = @ + n]]
        /\ sent' = IF n = left THEN sent \o Seen(e.msg) ELSE sent
        /\ size' = IF n = left /\ e.msg.type = "SetChunkSize" THEN e.msg.data[1][1] ELSE size
        BY <1>0, Zenon DEF Emit, hd
  <2>2. [e EXCEPT !.off = @ + n] = a
        BY Zenon DEF Ahead
  <2> HIDE DEF a
  <2> QED  BY <1>2, <1>6, <2>1, <2>2
<1> HIDE DEF left, a, hd, d, States, Tokens, Moment, Messages
<1>8. EncsOK(E2)
  <2>1. E = [b \in Csids |-> E[b]] /\ \A b \in Csids : EncOK(E[b])
        BY <1>2 DEF EncsOK
  <2>2. \A b \in Csids : E2[b] = IF b = c THEN a ELSE E[b]
        BY <2>1
  <2>3. E2 = [b \in Csids |-> E2[b]]
        BY <2>1
  <2> HIDE DEF E2
  <2> QED  BY <1>5, <2>1, <2>2, <2>3 DEF EncsOK
<1>9. wire' \in Seq(Tokens)
  <2>1. wire \in Seq(Tokens)
        BY <1>2 DEF ReaderOK
  <2>2. wire \o hd \in Seq(Tokens)
        BY <1>6, <2>1, ConcatProperties
  <2> DEFINE w == wire \o hd
  <2> HIDE DEF w
  <2>3. w \o d \in Seq(Tokens)
        BY <1>6, <2>2, ConcatProperties DEF w
  <2> QED  BY <1>7, <2>3 DEF w
<1>10. ReaderOK' /\ Reader' = Reader /\ (Fine' <=> Fine)
       BY <1>2, <1>9, ReaderRests
<1>11. Seen(e.msg) \in Seq(Messages)
       BY SeenIs
<1>12. sent' \in Seq(Messages) /\ \E u \in Seq(Messages) : sent' = sent \o u
  <2>1. CASE n = left
    <3>1. sent' = sent \o Seen(e.msg)
          BY <1>7, <2>1
    <3>2. sent \o Seen(e.msg) \in Seq(Messages)
          BY <1>2, <1>11, ConcatProperties
    <3> QED  BY <1>11, <3>1, <3>2
  <2>2. CASE n # left
    <3> DEFINE z == <<>>
    <3>1. z \in Seq(Messages) /\ sent \o z = sent
      <4>1. sent \o <<>> = sent
            BY <1>2, ConcatEmptySeq
      <4> QED  BY <4>1
    <3> HIDE DEF z
    <3> QED  BY <1>2, <1>7, <2>2, <3>1
  <2> QED  BY <2>1, <2>2
<1>13. size' \in Sizes \union {ChunkSize}
  <2>1. e.msg.type = "SetChunkSize" => e.msg.data[1][1] \in Sizes
    <3>1. Proper(e.msg)
          BY <1>4
    <3> QED  BY <3>1 DEF Proper, Controls
  <2> QED  BY <1>2, <1>7, <2>1
<1>17. Len(sent) \in Nat /\ over \in Nat /\ (over = 0 => \A b \in Csids : ~Long(E[b].msg))
       BY <1>2, LenProperties DEF OverOK
<1>18. OverOK(E2)'
  <2>1. over' \in Nat
        BY <1>17 DEF OverAt
  <2>2. ASSUME over' = 0, NEW b \in Csids
        PROVE  ~Long(E2[b].msg)
    <3>1. over = 0 /\ ~Long(e.msg)
          BY <1>17, <2>2 DEF OverAt
    <3>2. b \in DOMAIN E
          BY <1>2 DEF EncsOK
    <3>3. E2[b] = IF b = c THEN a ELSE E[b]
          BY <3>2
    <3> QED  BY <1>5, <1>17, <3>1, <3>3
  <2> HIDE DEF E2
  <2> QED  BY <2>1, <2>2 DEF OverOK
<1>14. PeerSound(E2)'
  <2>1. enc' = E2 /\ repeat' = repeat /\ broke' = broke
        BY <1>7
  <2> HIDE DEF E2
  <2> QED  BY <1>2, <1>8, <1>10, <1>12, <1>13, <1>18, <2>1 DEF PeerSound
<1>15. ASSUME Fine
       PROVE  \E T, front, t : InTune(T, E2, front, t)'
  <2>1. PICK T, front, t : InTune(T, E, front, t)
        BY <1>1, <1>15
  <2>2. /\ Follower(T, E) /\ T.outs = sent /\ T.max = size /\ T.cut = over
        /\ front \in Seq(Tokens) /\ Leads(Reader, front, T) /\ wire = front \o t /\ t = <<>>
        BY <2>1 DEF InTune
  <2>3. wire = front
    <3>1. front \o <<>> = front
          BY <2>2, ConcatEmptySeq
    <3> QED  BY <2>2, <3>1
  <2>4. PICK x : Follows(T, c, E[c], x)
        BY <2>2 DEF Follower
  <2>5. PICK y : Understood(T, c, e, y, h, ext, ts)
        BY <1>2, <2>4
  <2> DEFINE T2 == Landed(T, c, Mirror(a, y))
  <2>6. T \in States /\ Reader \in States
        BY <1>2, <2>2, StateIn DEF Follower, ReaderOK
  <2>7. Chunked(Reader, wire, T, c, e, y, h, ext, ts, n)
    <3>1. Leads(Reader, wire, T) /\ wire \in Seq(Tokens)
          BY <2>2, <2>3
    <3>2. n = IF Len(e.msg.data) - e.off > T.max THEN T.max ELSE Len(e.msg.data) - e.off
          BY <1>0, <2>2 DEF left
    <3> DEFINE S == Reader  w == wire
    <3>3. S \in States /\ w \in Seq(Tokens) /\ Leads(S, w, T)
          BY <2>6, <3>1
    <3> HIDE DEF S, w
    <3>4. Chunked(S, w, T, c, e, y, h, ext, ts, n)
          BY <2>5, <2>6, <3>2, <3>3, ChunkLeads
    <3> QED  BY <3>4 DEF S, w
  <2>8. /\ T2 \in States /\ Leads(Reader, (wire \o hd) \o d, T2)
        /\ T2.outs = IF n = left THEN T.outs \o Seen(e.msg) ELSE T.outs
        /\ T2.max = (IF n = left /\ e.msg.type = "SetChunkSize" THEN e.msg.data[1][1] ELSE T.max)
        /\ T2.cut = OverAt(T.cut, e.msg, T.outs)
        BY <2>7 DEF Chunked, a, hd, d, left
  <2> HIDE DEF T2
  <2>9. T2.outs = sent' /\ T2.max = size' /\ T2.cut = over'
        BY <1>7, <2>2, <2>8
  <2>10. Follower(T2, E2)
    <3>1. LastExt(a, y)
          BY <1>5, <2>5 DEF Understood, LastExt
    <3> HIDE DEF E2
    <3> QED  BY <1>2, <1>5, <2>2, <2>6, <2>8, <3>1, LandFollows DEF T2, E2
  <2>11. Leads(Reader', wire', T2)
         BY <1>7, <1>10, <2>8
  <2> DEFINE z == <<>>
  <2>12. wire' = wire' \o z /\ z = <<>>
    <3>1. wire' \o <<>> = wire'
          BY <1>9, ConcatEmptySeq
    <3> QED  BY <3>1
  <2> HIDE DEF z, E2
  <2>13. PICK w : w = wire'
        OBVIOUS
  <2>14. w \in Seq(Tokens) /\ wire' = w \o z /\ Leads(Reader', w, T2)
         BY <1>9, <2>13, <2>11, <2>12
  <2>15. broke' = broke
         OBVIOUS
  <2>16. InTune(T2, E2, w, z)'
         BY <2>9, <2>10, <2>12, <2>14, <2>15 DEF InTune
  <2> QED  BY <2>16
<1>16. ASSUME ~Fine
       PROVE  Excuse(E2, err)' /\ \E u : Coming(u)'
  <2>1. \/ err = "MsgDataTooBig" /\ over # 0 /\ Len(out) = over - 1
        \/ err = "TooManyCsid" /\ Cardinality(Used(E)) > MaxCsid
        BY <1>1, <1>16 DEF Excuse
  <2>2. Used(E) \subseteq Used(E2) /\ Used(E2) \subseteq Csids
        BY <1>2, <1>5 DEF Used, EncsOK
  <2>3. IsFiniteSet(Used(E2)) /\ IsFiniteSet(Used(E)) /\ Cardinality(Used(E)) <= Cardinality(Used(E2))
        BY <2>2, PeerAssumption, FS_Subset
  <2>4. Cardinality(Used(E)) \in Nat /\ Cardinality(Used(E2)) \in Nat
        BY <2>3, FS_CardinalityType
  <2>5. ASSUME Cardinality(Used(E)) > MaxCsid
        PROVE  Cardinality(Used(E2)) > MaxCsid
    <3> DEFINE i == Cardinality(Used(E))  j == Cardinality(Used(E2))
    <3>1. i \in Nat /\ j \in Nat /\ i <= j /\ i > MaxCsid /\ MaxCsid \in Nat
          BY <2>3, <2>4, <2>5, ChunkAssumption
    <3> HIDE DEF i, j
    <3>2. j > MaxCsid
          BY <3>1
    <3> QED  BY <3>2 DEF j
  <2>6. PICK u : Coming(u)
        BY <1>1, <1>16
  <2>7. PICK v \in Seq(Messages) : sent' = sent \o v
        BY <1>12
  <2>8. Coming(u \o v)'
    <3> DEFINE o == Reader.outs  w == u \o v
    <3>1. u \in Seq(Messages) /\ sent = o \o u
          BY <2>6 DEF Coming
    <3>2. o \in Seq(Messages)
          BY <1>2 DEF ReaderOK, IsState
    <3> HIDE DEF o
    <3>3. (o \o u) \o v = o \o w
          BY <3>1, <3>2, ConcatAssociative
    <3>4. w \in Seq(Messages)
          BY <3>1, ConcatProperties
    <3> HIDE DEF w
    <3>5. Coming(w)'
      <4>1. sent' = Reader'.outs \o w
            BY <1>10, <2>7, <3>1, <3>3 DEF o
      <4> QED  BY <3>4, <4>1 DEF Coming
    <3> QED  BY <3>5 DEF w
  <2>9. over # 0 => over' = over
        BY DEF OverAt
  <2>10. err' = err /\ out' = out
         BY DEF readervars
  <2>11. Excuse(E2, err)'
    <3> HIDE DEF E2
    <3>1. CASE err = "MsgDataTooBig" /\ over # 0 /\ Len(out) = over - 1
          BY <2>9, <2>10, <3>1 DEF Excuse
    <3>2. CASE err = "TooManyCsid" /\ Cardinality(Used(E)) > MaxCsid
          BY <2>5, <2>10, <3>2 DEF Excuse
    <3> QED  BY <2>1, <3>1, <3>2
  <2> QED  BY <2>8, <2>11
<1> HIDE DEF E2
<1> QED  BY <1>10, <1>14, <1>15, <1>16 DEF PeerOK

-----------------------------------------------------------------------------
(* The steps of the peer                                                   *)

LEMMA StartTurn ==
    ASSUME PeerOK, NEW c \in Csids, NEW fmt \in 0..3, NEW m, Proper(m), StartMsg(c, fmt, m)
    PROVE  PeerOK'
<1>1. PICK E : PeerSound(E)
      BY DEF PeerOK
<1>2. enc = E /\ EncsOK(E) /\ started \in Nat
      BY <1>1 DEF PeerSound
<1>3. PICK e : e = E[c]
      OBVIOUS
<1>4. EncOK(e) /\ e = enc[c] /\ c \in Nat
      BY <1>2, <1>3, PeerAssumption DEF EncsOK
<1> DEFINE n == EncOf(e, fmt, m)  h == HdrOf(e, c, fmt, m)  b == HasExtOf(e, fmt, m)
           ts == TsOf(e, fmt, m)  tt == TsRead(e, fmt, m)
<1>5. /\ started' = started + 1 /\ ~broke /\ Rest(c) = 0 /\ Allowed(c, fmt, m)
      /\ Emit(c, n, ChunkHead(h, b, ts)) /\ over' = OverAt(over, m, sent)
      /\ UNCHANGED <<repeat, broke, readervars>>
  <2>1. /\ started' = started + 1 /\ ~broke /\ Rest(c) = 0 /\ Allowed(c, fmt, m)
        /\ over' = OverAt(over, m, sent) /\ UNCHANGED <<repeat, broke, readervars>>
        BY DEF StartMsg, OverAt, Long
  <2>2. Emit(c, n, ChunkHead(h, b, ts))
        BY <1>4, Zenon DEF StartMsg, EncOf, HdrOf, HasExtOf, TsOf, DeltaOf, Enc, ChunkHead
  <2> QED  BY <2>1, <2>2
<1>6. AllowedOf(e, fmt, m)
      BY <1>4, <1>5, Zenon DEF Allowed, AllowedOf
<1>7. e.off = Len(e.msg.data)
  <2> DEFINE q == e.msg
  <2>1. Proper(q) /\ e.off \in 0..Len(q.data)
        BY <1>4 DEF EncOK
  <2> HIDE DEF q
  <2>2. Len(q.data) \in Nat
        BY <2>1, ProperFields
  <2>3. Len(q.data) - e.off = 0
        BY <1>4, <1>5 DEF Rest, q
  <2> QED  BY <2>1, <2>2, <2>3 DEF q
<1>8. Starts(e, c, fmt, m) /\ EncStarts(e, fmt, m)
      BY <1>4, <1>6, StartsIs, EncOfIs
<1>9. /\ ts \in Moment /\ b \in BOOLEAN /\ h \in Tokens /\ EncOK(n) /\ n.used
      BY <1>8 DEF Starts, EncStarts
<1>15. n.msg = m
       BY DEF EncOf, Enc
<1>10. tt \in Moment
       BY <1>4, <1>9 DEF TsRead, EncOK
<1> DEFINE y(x) == ExtAfter(e, fmt, m, x)
<1>11. ASSUME NEW T, NEW x, Follows(T, c, enc[c], x)
       PROVE  Understood(T, c, n, y(x), h, b, tt)
  <2>1. Follows(T, c, e, x)
        BY <1>4, <1>11
  <2> QED  BY <1>4, <1>6, <1>7, <2>1, StartUnderstood
<1>12. ChunkHead(h, b, tt) = ChunkHead(h, b, ts)
  <2>1. b => tt = ts
        BY DEF TsRead
  <2> HIDE DEF b, tt, ts, h
  <2> QED  BY <1>9, <2>1 DEF ChunkHead
<1> HIDE DEF n, h, b, ts, tt, Tokens, Moment, y
<1>13. Emit(c, n, ChunkHead(h, b, tt)) /\ started' \in Nat
       BY <1>2, <1>5, <1>12
<1>14. \A T, x : Follows(T, c, enc[c], x) => \E z : Understood(T, c, n, z, h, b, tt)
       BY <1>11
<1>16. over' = OverAt(over, n.msg, sent)
       BY <1>5, <1>15
<1> QED  BY <1>5, <1>9, <1>10, <1>13, <1>14, <1>16, WriteTurn

LEMMA ContinueTurn ==
    ASSUME PeerOK, NEW c \in Csids, ContinueMsg(c)
    PROVE  PeerOK'
<1>1. PICK E : PeerSound(E)
      BY DEF PeerOK
<1>2. enc = E /\ EncsOK(E) /\ started \in Nat /\ repeat \in BOOLEAN /\ OverOK(E)
      BY <1>1 DEF PeerSound
<1>3. PICK e, rep : e = E[c] /\ rep = repeat
      OBVIOUS
<1>4. EncOK(e) /\ e = enc[c] /\ c \in Nat /\ rep \in BOOLEAN
      BY <1>2, <1>3, PeerAssumption DEF EncsOK
<1> DEFINE h == HdrToken(3, c, 0, 0, "", 0)  b == (rep /\ e.ext # 0)  ts == e.ext
<1>5. /\ started' = started /\ ~broke /\ Rest(c) > 0
      /\ Emit(c, e, ChunkHead(h, b, ts))
      /\ UNCHANGED <<repeat, broke, readervars>>
  <2>1. /\ started' = started /\ ~broke /\ Rest(c) > 0
        /\ UNCHANGED <<repeat, broke, readervars>>
        BY DEF ContinueMsg
  <2>2. Emit(c, e, ChunkHead(h, b, ts))
        BY <1>3, <1>4, Zenon DEF ContinueMsg, ChunkHead
  <2> QED  BY <2>1, <2>2
<1>13. over' = OverAt(over, e.msg, sent)
  <2>1. over' = over
        BY DEF ContinueMsg
  <2>2. over = 0 => ~Long(e.msg)
        BY <1>2, <1>3 DEF OverOK
  <2> QED  BY <2>1, <2>2 DEF OverAt
<1>6. e.off # Len(e.msg.data)
  <2> DEFINE q == e.msg
  <2>1. Proper(q) /\ e.off \in 0..Len(q.data)
        BY <1>4 DEF EncOK
  <2> HIDE DEF q
  <2>2. Len(q.data) \in Nat
        BY <2>1, ProperFields
  <2>3. Len(q.data) - e.off > 0
        BY <1>4, <1>5 DEF Rest, q
  <2> QED  BY <2>1, <2>2, <2>3 DEF q
<1>7. e.used
  <2> SUFFICES ASSUME ~e.used
               PROVE  FALSE
      OBVIOUS
  <2>1. e = NoEnc
        BY <1>4 DEF EncOK
  <2>2. e.off = 0 /\ e.msg.data = <<>>
        BY <2>1 DEF NoEnc, NoMsg, Message
  <2>3. Len(e.msg.data) = 0
        BY <2>2
  <2> QED  BY <1>6, <2>2, <2>3
<1>8. b \in BOOLEAN /\ ts \in Moment
      BY <1>4 DEF EncOK
<1>9. ASSUME NEW T, NEW x, Follows(T, c, enc[c], x)
      PROVE  Understood(T, c, e, x, h, b, ts)
  <2>1. Follows(T, c, e, x)
        BY <1>4, <1>9
  <2> QED  BY <1>4, <1>6, <1>7, <2>1, MoreUnderstood
<1>10. h \in Tokens
  <2> DEFINE f == 3  o == 0  y == ""
  <2>1. f \in 0..3 /\ o \in Nat /\ y \in Kinds /\ h = HdrToken(f, c, o, o, y, o)
        BY DEF Kinds
  <2> HIDE DEF h, f, o, y, Kinds
  <2>2. IsHdr(h, f, c, o, o, y, o)
        BY <1>4, <2>1, HdrIs
  <2> QED  BY <2>2 DEF IsHdr
<1> HIDE DEF h, b, ts, Tokens, Moment
<1>11. \A T, x : Follows(T, c, enc[c], x) => \E z : Understood(T, c, e, z, h, b, ts)
       BY <1>9
<1>12. started' \in Nat
       BY <1>2, <1>5
<1> QED  BY <1>4, <1>5, <1>7, <1>8, <1>10, <1>11, <1>12, <1>13, WriteTurn

LEMMA BreakTurn ==
    ASSUME PeerOK, NEW c \in Csids, NEW fmt \in 0..3, BreakRule(c, fmt)
    PROVE  PeerOK'
<1>1. PICK E : /\ PeerSound(E)
               /\ Fine => \E T, front, t : InTune(T, E, front, t)
               /\ ~Fine => Excuse(E, err) /\ \E u : Coming(u)
      BY DEF PeerOK
<1>2. /\ enc = E /\ EncsOK(E) /\ ReaderOK
      /\ size \in Sizes \union {ChunkSize} /\ repeat \in BOOLEAN /\ started \in Nat
      /\ sent \in Seq(Messages) /\ broke \in BOOLEAN /\ (broke => Rude) /\ OverOK(E)
      BY <1>1 DEF PeerSound
<1> DEFINE h == HdrToken(fmt, c, 0, 0, "Video", 0)  t == <<h>>
<1>3. /\ Rude /\ ~broke /\ broke' /\ wire' = Append(wire, h)
      /\ (fmt # 0 /\ ~enc[c].used) \/ (fmt # 3 /\ Rest(c) > 0)
      /\ enc' = enc /\ size' = size /\ repeat' = repeat /\ started' = started /\ sent' = sent
      /\ over' = over /\ UNCHANGED readervars /\ broke' \in BOOLEAN
      BY DEF BreakRule
<1>4. h \in Tokens
  <2> DEFINE o == 0  y == "Video"
  <2>1. o \in Nat /\ y \in Kinds /\ h = HdrToken(fmt, c, o, o, y, o) /\ c \in Nat
        BY PeerAssumption DEF Kinds
  <2> HIDE DEF h, o, y, Kinds
  <2>2. IsHdr(h, fmt, c, o, o, y, o)
        BY <2>1, HdrIs
  <2> QED  BY <2>2 DEF IsHdr
<1>5. wire \in Seq(Tokens)
      BY <1>2 DEF ReaderOK
<1>6. Bad(E, t)
  <2>1. Rest(c) > 0 => E[c].off # Len(E[c].msg.data)
    <3> DEFINE q == E[c].msg  k == E[c].off
    <3>1. EncOK(E[c])
          BY <1>2 DEF EncsOK
    <3>2. Proper(q) /\ k \in 0..Len(q.data)
          BY <3>1 DEF EncOK
    <3>3. Rest(c) = Len(q.data) - k
          BY <1>2 DEF Rest
    <3> HIDE DEF q, k
    <3>4. Len(q.data) \in Nat
          BY <3>2, ProperFields
    <3>5. Rest(c) > 0 => k # Len(q.data)
          BY <3>2, <3>3, <3>4
    <3> QED  BY <3>5 DEF q, k
  <2> HIDE DEF h
  <2> QED  BY <1>2, <1>3, <2>1 DEF Bad, h
<1> HIDE DEF h, Tokens, Messages
<1>7. wire' = wire \o t /\ wire' \in Seq(Tokens) /\ t \in Seq(Tokens)
      BY <1>3, <1>4, <1>5, AppendIsConcat
<1>8. ReaderOK' /\ Reader' = Reader /\ (Fine' <=> Fine)
      BY <1>2, <1>3, <1>7, ReaderRests
<1>9. PeerSound(E)'
  <2>1. OverOK(E)'
        BY <1>2, <1>3 DEF OverOK
  <2> QED  BY <1>2, <1>3, <1>8, <2>1 DEF PeerSound
<1>10. ASSUME Fine
       PROVE  \E T, front, z : InTune(T, E, front, z)'
  <2>1. PICK T, front, z : InTune(T, E, front, z)
        BY <1>1, <1>10
  <2>2. /\ Follower(T, E) /\ T.outs = sent /\ T.max = size /\ T.cut = over
        /\ front \in Seq(Tokens) /\ Leads(Reader, front, T) /\ wire = front \o z /\ z = <<>>
        BY <1>3, <2>1 DEF InTune
  <2>3. wire = front
    <3>1. front \o <<>> = front
          BY <2>2, ConcatEmptySeq
    <3> QED  BY <2>2, <3>1
  <2>4. wire' = front \o t /\ Leads(Reader', front, T)
        BY <1>7, <1>8, <2>2, <2>3
  <2>5. T.outs = sent' /\ T.max = size' /\ T.cut = over'
        BY <1>3, <2>2
  <2> HIDE DEF t
  <2>6. InTune(T, E, front, t)'
        BY <1>3, <1>6, <2>2, <2>4, <2>5 DEF InTune
  <2> QED  BY <2>6
<1>12. ASSUME ~Fine
       PROVE  Excuse(E, err)'
  <2>1. Excuse(E, err) /\ err' = err /\ out' = out
        BY <1>1, <1>12 DEF BreakRule, readervars
  <2> QED  BY <1>3, <2>1 DEF Excuse
<1>11. ASSUME ~Fine
       PROVE  \E u : Coming(u)'
  <2>1. PICK u : Coming(u)
        BY <1>1, <1>11
  <2>2. Coming(u)'
    <3>1. sent' = Reader'.outs \o u
          BY <1>3, <1>8, <2>1 DEF Coming
    <3> QED  BY <2>1, <3>1 DEF Coming
  <2> QED  BY <2>2
<1> QED  BY <1>8, <1>9, <1>10, <1>11, <1>12 DEF PeerOK

-----------------------------------------------------------------------------
(* The messages of the peer                                                *)

LEMMA TimesFit == Times \subseteq Moment /\ \A t \in Times : t \in Nat
BY PeerAssumption, ChunkAssumption DEF Moment

\* A message that is not about the connection.
LEMMA OtherProper ==
    ASSUME NEW type \in Kinds, type \notin Controls, NEW t \in Times, NEW d \in Seq(Payloads)
    PROVE  Proper(Message(type, t, 1, d))
<1> DEFINE o == 1  m == Message(type, t, o, d)
<1>1. o \in Nat /\ t \in Nat /\ t \in Moment
      BY TimesFit
<1> HIDE DEF o
<1>2. m \in Messages
  <2> HIDE DEF Kinds, Payloads, Messages
  <2> QED  BY <1>1, MessageIn
<1>3. m.type = type /\ m.time = t
      BY DEF Message
<1> HIDE DEF m, Messages, Controls, Moment
<1>4. Proper(m)
      BY <1>1, <1>2, <1>3 DEF Proper
<1> QED  BY <1>4 DEF m, o

LEMMA MediaProper ==
    ASSUME started \in Nat, NEW m \in MediaMsgs
    PROVE  Proper(m)
<1>1. PICK t \in Times, len \in Lens : m = Media(t, len)
      BY DEF MediaMsgs
<1> DEFINE d == [i \in 1..len |-> <<started + 1, i>>]  y == "Video"
<1>2. d \in Seq(Payloads)
  <2>1. len \in Nat
        BY PeerAssumption
  <2>2. \A i \in 1..len : <<started + 1, i>> \in Payloads
        BY DEF Payloads
  <2>3. d \in [1..len -> Payloads]
        BY <2>2
  <2> HIDE DEF Payloads, d
  <2> QED  BY <2>1, <2>3
<1>3. y \in Kinds /\ y \notin Controls
      BY DEF Kinds, Controls
<1>4. m = Message(y, t, 1, d)
      BY <1>1 DEF Media
<1> HIDE DEF d, y, Kinds, Controls, Payloads
<1> QED  BY <1>2, <1>3, <1>4, OtherProper

LEMMA AggProper ==
    ASSUME NEW m \in AggMsgs
    PROVE  Proper(m)
<1>1. PICK t \in Times, p \in Parts : m = Message("Aggregate", t, 1, p)
      BY DEF AggMsgs
<1> DEFINE y == "Aggregate"
<1>2. p \in Seq(Payloads)
      BY PeerAssumption DEF Payloads
<1>3. y \in Kinds /\ y \notin Controls
      BY DEF Kinds, Controls
<1>4. m = Message(y, t, 1, p)
      BY <1>1
<1> HIDE DEF y, Kinds, Controls, Payloads
<1> QED  BY <1>2, <1>3, <1>4, OtherProper

LEMMA ControlProper ==
    ASSUME NEW m \in ControlMsgs
    PROVE  Proper(m)
<1>1. PICK y \in {"SetChunkSize", "WindowAckSize", "PingRequest"}, n \in Sizes : m = Control(y, n)
      BY DEF ControlMsgs
<1> DEFINE o == 0  d == <<<<n, 0>>>>
<1>2. y \in Kinds /\ o \in Nat /\ o \in Moment
  <2>1. y \in Kinds
        BY Zenon DEF Kinds
  <2>2. 0 \in Nat /\ 0 \in Moment
        BY ChunkAssumption DEF Moment
  <2> QED  BY <2>1, <2>2
<1>3. d \in Seq(Payloads) /\ d # <<>> /\ d[1][1] = n
  <2> DEFINE p == <<n, 0>>
  <2>1. p \in Payloads /\ p[1] = n
        BY PeerAssumption DEF Payloads
  <2> HIDE DEF p, Payloads
  <2>2. <<p>> \in Seq(Payloads) /\ <<p>> # <<>> /\ <<p>>[1] = p
        BY <2>1
  <2> QED  BY <2>1, <2>2 DEF p
<1>4. m = Message(y, o, o, d)
      BY <1>1 DEF Control
<1> HIDE DEF o, d
<1>5. m \in Messages
  <2> HIDE DEF Kinds, Payloads, Messages
  <2> QED  BY <1>2, <1>3, <1>4, MessageIn
<1>6. m.data = d /\ m.time = o
      BY <1>4 DEF Message
<1> HIDE DEF Messages, Moment, Kinds, Controls
<1> QED  BY <1>2, <1>3, <1>5, <1>6 DEF Proper

-----------------------------------------------------------------------------
(* The reader's steps                                                      *)

\* What the reader needs for a step.
LEMMA ReadNeeds ==
    ASSUME ReaderNext
    PROVE  Fine /\ (aggmsg.parts # <<>> => NextAggPart) /\ (aggmsg.parts = <<>> => wire # <<>>)
BY Zenon DEF ReaderNext, ReaderStep, ReadChunkError, ReadChunk0, ReadChunk12, ReadChunk3New,
             ReadChunk3More, NextAggPart, Chunk, Fine

\* The reader gives up.
LEMMA ReaderFails ==
    ASSUME ReaderOK, NEW e, e # "", Fail(e)
    PROVE  /\ ReaderOK' /\ Reader' = Reader /\ ~Fine' /\ wire' = wire
           /\ err' = e /\ out' = out
<1>1. /\ wire' = wire /\ readcsmap' = readcsmap /\ out' = out /\ aggmsg' = aggmsg /\ err' = e
      /\ readAckSize' = readAckSize /\ ackn' = ackn /\ lastackn' = lastackn
      /\ ReadMaxChunkSize' = ReadMaxChunkSize
      BY Zenon DEF Fail
<1>2. wire' \in Seq(Tokens)
      BY <1>1 DEF ReaderOK
<1>5. ~Fine'
      BY <1>1, Zenon DEF Fine
<1> HIDE DEF Tokens, Messages
<1>6. ReaderOK' /\ Reader' = Reader
      BY <1>1, <1>2, ReaderSame
<1> QED  BY <1>1, <1>5, <1>6

\* The reader in front of a header that breaks a rule gives up.
LEMMA BadRefused ==
    ASSUME NEW E, EncsOK(E), Follower(Reader, E), Bad(E, wire), aggmsg.parts = <<>>, ReaderNext
    PROVE  \E e \in {"TooManyCsid", "NoPrevChunk", "MsgDataLeft"} : Fail(e)
<1>1. PICK c \in Csids, fmt \in 0..3 :
          /\ wire = <<HdrToken(fmt, c, 0, 0, "Video", 0)>>
          /\ (fmt # 0 /\ ~E[c].used) \/ (fmt # 3 /\ E[c].off # Len(E[c].msg.data))
      BY DEF Bad
<1>2. wire[1].fmt = fmt /\ wire[1].csid = c
  <2> DEFINE o == 0  y == "Video"  h == HdrToken(fmt, c, o, o, y, o)
  <2>1. o \in Nat /\ y \in Kinds /\ c \in Nat
        BY PeerAssumption DEF Kinds
  <2>2. wire = <<h>> /\ wire[1] = h
        BY <1>1
  <2> HIDE DEF o, y
  <2>3. IsHdr(h, fmt, c, o, o, y, o)
        BY <2>1, HdrIs
  <2> QED  BY <2>2, <2>3 DEF IsHdr
<1>3. PICK x : Follows(Reader, c, E[c], x)
      BY DEF Follower
<1>4. /\ Cs(c) = Mirror(E[c], x) /\ (Known(c) <=> E[c].used)
      BY <1>3, ReaderFields DEF Follows, CsOf, Cs, Known
<1>5. Cs(c).msgdataleft = 0 <=> E[c].off = Len(E[c].msg.data)
  <2>1. EncOK(E[c])
        BY DEF EncsOK
  <2> DEFINE p == Mirror(E[c], x)
  <2>2. Full(p) <=> E[c].off = Len(E[c].msg.data)
        BY <2>1, MirrorFull
  <2> HIDE DEF p
  <2>3. p.msgdataleft = 0 <=> Full(p)
        BY DEF Full
  <2> QED  BY <1>4, <2>2, <2>3 DEF p
<1>6. ~(Known(c) /\ Cs(c).msgdataleft = 0) /\ ~(fmt = 3 /\ Known(c)) /\ ~(fmt = 0 /\ Cs(c).msgdataleft = 0)
      BY <1>1, <1>4, <1>5
<1>7. ~ReadChunk0
  <2>1. ReadChunk0 => wire[1].fmt = 0 /\ Cs(wire[1].csid).msgdataleft = 0
        BY Zenon DEF ReadChunk0, Chunk
  <2> QED  BY <1>2, <1>6, <2>1
<1>8. \A f \in {1, 2} : ~ReadChunk12(f)
  <2>1. \A f \in {1, 2} : ReadChunk12(f) => Known(wire[1].csid) /\ Cs(wire[1].csid).msgdataleft = 0
        BY Zenon DEF ReadChunk12
  <2> QED  BY <1>2, <1>6, <2>1
<1>9. ~ReadChunk3New /\ ~ReadChunk3More
  <2>1. ReadChunk3New \/ ReadChunk3More => wire[1].fmt = 3 /\ Known(wire[1].csid)
        BY Zenon DEF ReadChunk3New, ReadChunk3More, Chunk
  <2> QED  BY <1>2, <1>6, <2>1
<1>10. ReadChunkError
  <2>1. ~NextAggPart
        BY DEF NextAggPart
  <2> QED  BY <1>7, <1>8, <1>9, <2>1, Zenon DEF ReaderNext, ReaderStep
<1>11. Fail("TooManyCsid") \/ Fail("NoPrevChunk") \/ Fail("MsgDataLeft")
       BY <1>10, Zenon DEF ReadChunkError
<1> QED  BY <1>11, Zenon

\* A reader that gives up has a reason to, and what it has seen was sent.
LEMMA FailTurn ==
    ASSUME NEW E, PeerSound(E), Fine, NEW T, NEW front, NEW t, InTune(T, E, front, t),
           NEW e, e # "", Fail(e), Excuse(E, e),
           UNCHANGED <<enc, size, repeat, started, sent, over, broke>>
    PROVE  PeerOK'
<1>1. /\ ReaderOK' /\ Reader' = Reader /\ ~Fine' /\ wire' = wire
      /\ err' = e /\ out' = out
      BY ReaderFails DEF PeerSound
<1>2. PeerSound(E)'
  <2>1. OverOK(E)'
        BY DEF PeerSound, OverOK
  <2> QED  BY <1>1, <2>1 DEF PeerSound
<1>3. PICK u \in Seq(Messages) : sent = Reader.outs \o u
  <2>1. Reader \in States /\ T \in States /\ front \in Seq(Tokens) /\ Leads(Reader, front, T) /\ T.outs = sent
        BY StateIn DEF PeerSound, ReaderOK, InTune, Follower
  <2> DEFINE R == Reader
  <2>2. R \in States /\ Leads(R, front, T)
        BY <2>1
  <2> HIDE DEF R, States, Tokens, Messages
  <2>3. Grown(R, T)
        BY <2>1, <2>2, LeadsGrows
  <2> QED  BY <2>1, <2>3 DEF Grown, R
<1>4. Coming(u)'
  <2> HIDE DEF Messages
  <2>1. sent' = Reader'.outs \o u
        BY <1>1, <1>3
  <2> QED  BY <2>1 DEF Coming
<1>5. Excuse(E, err)'
      BY <1>1 DEF Excuse
<1> QED  BY <1>1, <1>2, <1>4, <1>5 DEF PeerOK

\* The chunk streams of the follower are those that the peer has used.
LEMMA FollowerKnows ==
    ASSUME NEW T, NEW E, Follower(T, E)
    PROVE  DOMAIN T.map = Used(E) /\ IsFiniteSet(DOMAIN T.map)
<1>1. DOMAIN T.map \subseteq Csids /\ \A c \in Csids : \E x : Follows(T, c, E[c], x)
      BY DEF Follower
<1>2. \A c \in Csids : c \in DOMAIN T.map <=> E[c].used
      BY <1>1 DEF Follows
<1>3. IsFiniteSet(DOMAIN T.map)
      BY <1>1, PeerAssumption, FS_Subset
<1> QED  BY <1>1, <1>2, <1>3 DEF Used

\* What breaks a rule is a header.
LEMMA BadIn ==
    ASSUME NEW E, NEW t, Bad(E, t)
    PROVE  t \in Seq(Tokens) /\ t # <<>>
<1>1. PICK c \in Csids, fmt \in 0..3 : t = <<HdrToken(fmt, c, 0, 0, "Video", 0)>>
      BY DEF Bad
<1> DEFINE o == 0  y == "Video"  h == HdrToken(fmt, c, o, o, y, o)
<1>2. o \in Nat /\ y \in Kinds /\ c \in Nat /\ t = <<h>>
      BY <1>1, PeerAssumption DEF Kinds
<1> HIDE DEF o, y, h
<1>3. IsHdr(h, fmt, c, o, o, y, o)
      BY <1>2, HdrIs DEF h
<1>4. h \in Tokens
      BY <1>3 DEF IsHdr
<1> HIDE DEF Tokens
<1> QED  BY <1>2, <1>4

\* What a step of the reader makes of its count of tokens.
Counted ==
    UNCHANGED <<ackn, lastackn, read>> \/ \E k \in 1..2 + ReadMaxChunkSize : Counts(k)

LEMMA ReadTurn ==
    ASSUME PeerOK, Read
    PROVE  PeerOK' /\ Counted
<1>1. PICK E : /\ PeerSound(E)
               /\ Fine => \E T, front, t : InTune(T, E, front, t)
      BY DEF PeerOK
<1>2. ReaderNext /\ UNCHANGED <<enc, size, repeat, started, sent, over, broke>>
      BY DEF Read
<1>3. Fine /\ (aggmsg.parts # <<>> => NextAggPart) /\ (aggmsg.parts = <<>> => wire # <<>>)
      BY <1>2, ReadNeeds
<1>4. PICK T, front, t : InTune(T, E, front, t)
      BY <1>1, <1>3
<1>5. /\ Follower(T, E) /\ T.outs = sent /\ T.max = size /\ T.cut = over
      /\ front \in Seq(Tokens) /\ Leads(Reader, front, T) /\ wire = front \o t
      /\ (broke => Bad(E, t)) /\ (~broke => t = <<>>)
      BY <1>4 DEF InTune
<1>6. enc = E /\ EncsOK(E) /\ ReaderOK
      BY <1>1 DEF PeerSound
<1>7. /\ T \in States /\ Reader \in States /\ IsFiniteSet(DOMAIN T.map)
      /\ DOMAIN T.map = Used(E)
      BY <1>5, <1>6, StateIn, FollowerKnows DEF Follower, ReaderOK
<1>8. t \in Seq(Tokens)
  <2>1. <<>> \in Seq(Tokens)
        BY EmptySeq
  <2> QED  BY <1>5, <2>1, BadIn
<1> HIDE DEF States, Tokens, Messages
<1>9. ASSUME ReaderOK', Fine', NEW f \in Seq(Tokens), wire' = f \o t, Leads(Reader', f, T)
      PROVE  PeerOK'
  <2>3. OverOK(E)'
        BY <1>1, <1>2 DEF PeerSound, OverOK
  <2>1. PeerSound(E)'
        BY <1>1, <1>2, <1>9, <2>3 DEF PeerSound
  <2>2. InTune(T, E, f, t)'
        BY <1>2, <1>5, <1>9 DEF InTune
  <2> QED  BY <1>9, <2>1, <2>2 DEF PeerOK
<1>10. ASSUME NEW e, e # "", Fail(e), Excuse(E, e)
       PROVE  PeerOK' /\ Counted
  <2>1. PeerOK'
        BY <1>1, <1>2, <1>3, <1>4, <1>10, FailTurn
  <2>2. Counted
        BY <1>10, Zenon DEF Fail, Counted
  <2> QED  BY <2>1, <2>2
<1>11. CASE aggmsg.parts # <<>>
  <2>1. ReaderOK' /\ Reader' = Reader /\ wire' = wire /\ err' = err
        BY <1>3, <1>6, <1>11, AggTurn
  <2>2. Fine'
        BY <1>3, <2>1, Zenon DEF Fine
  <2>3. Counted
        BY <1>3, <1>11, Zenon DEF NextAggPart, Counted
  <2> QED  BY <1>5, <1>9, <2>1, <2>2, <2>3
<1>12. CASE aggmsg.parts = <<>> /\ front # <<>>
  <2>1. \/ Fail("TooManyCsid") /\ Cardinality(DOMAIN T.map) > MaxCsid
        \/ Fail("MsgDataTooBig") /\ T.cut = Len(out) + 1
        \/ /\ ReaderOK' /\ Fine' /\ DOMAIN readcsmap' \subseteq DOMAIN T.map
           /\ \E f \in Seq(Tokens) : wire' = f \o t /\ Leads(Reader', f, T)
           /\ \E k \in 1..2 + ReadMaxChunkSize : Counts(k)
        BY <1>2, <1>3, <1>5, <1>6, <1>7, <1>8, <1>12, ChunkTurn
  <2>2. CASE Fail("MsgDataTooBig") /\ T.cut = Len(out) + 1
    <3> DEFINE e == "MsgDataTooBig"
    <3>1. Len(out) \in Nat
          BY <1>6, LenProperties DEF ReaderOK
    <3>2. over = Len(out) + 1
          BY <1>5, <2>2
    <3>3. over # 0 /\ Len(out) = over - 1
          BY <3>1, <3>2
    <3>4. Excuse(E, e) /\ e # "" /\ Fail(e)
          BY <2>2, <3>3 DEF Excuse
    <3> HIDE DEF e
    <3> QED  BY <1>10, <3>4
  <2>3. CASE Fail("TooManyCsid") /\ Cardinality(DOMAIN T.map) > MaxCsid
    <3> DEFINE e == "TooManyCsid"
    <3>1. Excuse(E, e) /\ e # "" /\ Fail(e)
          BY <1>7, <2>3 DEF Excuse
    <3> HIDE DEF e
    <3> QED  BY <1>10, <3>1
  <2>4. CASE /\ ReaderOK' /\ Fine'
             /\ \E f \in Seq(Tokens) : wire' = f \o t /\ Leads(Reader', f, T)
             /\ \E k \in 1..2 + ReadMaxChunkSize : Counts(k)
    <3>1. PeerOK'
          BY <1>9, <2>4
    <3>2. Counted
          BY <2>4 DEF Counted
    <3> QED  BY <3>1, <3>2
  <2> QED  BY <2>1, <2>2, <2>3, <2>4
<1>13. CASE aggmsg.parts = <<>> /\ front = <<>>
  <2>1. Reader = T
        BY <1>5, <1>7, <1>13, LeadsNowhere
  <2>2. wire = t
    <3>1. <<>> \o t = t
          BY <1>8, ConcatEmptySeq
    <3> QED  BY <1>5, <1>13, <3>1
  <2>3. broke /\ Bad(E, wire)
        BY <1>3, <1>5, <1>13, <2>2
  <2>4. Follower(Reader, E)
        BY <1>5, <2>1
  <2>5. PICK e \in {"TooManyCsid", "NoPrevChunk", "MsgDataLeft"} : Fail(e)
        BY <1>2, <1>6, <1>13, <2>3, <2>4, BadRefused
  <2>6. Excuse(E, e) /\ e # ""
        BY <2>3 DEF Excuse
  <2> QED  BY <1>10, <2>5, <2>6
<1> QED  BY <1>11, <1>12, <1>13

LEMMA RestTurn ==
    ASSUME PeerOK, UNCHANGED vars
    PROVE  PeerOK'
<1>1. PICK E : /\ PeerSound(E)
               /\ Fine => \E T, front, t : InTune(T, E, front, t)
               /\ ~Fine => Excuse(E, err) /\ \E u : Coming(u)
      BY DEF PeerOK
<1>2. /\ UNCHANGED <<wire, enc, size, repeat, started, sent, broke, over>>
    /\ UNCHANGED readervars
      BY DEF vars
<1>3. ReaderOK' /\ Reader' = Reader /\ (Fine' <=> Fine)
  <2>1. ReaderOK /\ wire' \in Seq(Tokens)
        BY <1>1, <1>2 DEF PeerSound, ReaderOK
  <2> HIDE DEF Tokens
  <2> QED  BY <1>2, <2>1, ReaderRests
<1> HIDE DEF States, Tokens, Messages
<1>4. PeerSound(E)'
  <2>1. OverOK(E)'
        BY <1>1, <1>2 DEF PeerSound, OverOK
  <2> QED  BY <1>1, <1>2, <1>3, <2>1 DEF PeerSound
<1>5. ASSUME NEW T, NEW front, NEW t, InTune(T, E, front, t)
      PROVE  InTune(T, E, front, t)'
  <2>1. Leads(Reader', front, T)
        BY <1>3, <1>5 DEF InTune
  <2> QED  BY <1>2, <1>5, <2>1 DEF InTune
<1>6. ASSUME NEW u, Coming(u)
      PROVE  Coming(u)'
  <2>1. sent' = Reader'.outs \o u
        BY <1>2, <1>3, <1>6 DEF Coming
  <2> QED  BY <1>6, <2>1 DEF Coming
<1>7. Excuse(E, err) => Excuse(E, err)'
  <2>1. broke' = broke /\ over' = over /\ err' = err /\ out' = out
        BY <1>2 DEF readervars
  <2> QED  BY <2>1 DEF Excuse
<1> QED  BY <1>1, <1>3, <1>4, <1>5, <1>6, <1>7 DEF PeerOK

\* The inductive invariant: while the reader is fine, the chunks on the wire lead it to
\* where the peer is, up to what breaks a rule; when it is not, there is a reason.
THEOREM PeerInvariant == Spec => []PeerOK
<1>1. PeerOK /\ [Next]_vars => PeerOK'
  <2> SUFFICES ASSUME PeerOK, [Next]_vars
               PROVE  PeerOK'
      OBVIOUS
  <2>1. ASSUME NEW c \in Csids \ {2}, NEW fmt \in 0..3, NEW m \in MediaMsgs \union AggMsgs,
               StartMsg(c, fmt, m)
        PROVE  PeerOK'
    <3>1. started \in Nat
          BY DEF PeerOK, PeerSound
    <3>2. Proper(m)
          BY <3>1, MediaProper, AggProper
    <3> QED  BY <2>1, <3>2, StartTurn
  <2>2. ASSUME 2 \in Csids, NEW m \in ControlMsgs, StartMsg(2, 0, m)
        PROVE  PeerOK'
    <3> DEFINE c == 2  fmt == 0
    <3>1. c \in Csids /\ fmt \in 0..3 /\ StartMsg(c, fmt, m) /\ Proper(m)
          BY <2>2, ControlProper
    <3> HIDE DEF c, fmt
    <3> QED  BY <3>1, StartTurn
  <2>3. ASSUME NEW c \in Csids, ContinueMsg(c)
        PROVE  PeerOK'
        BY <2>3, ContinueTurn
  <2>4. ASSUME NEW c \in Csids, NEW fmt \in 0..3, BreakRule(c, fmt)
        PROVE  PeerOK'
        BY <2>4, BreakTurn
  <2>5. CASE Read
        BY <2>5, ReadTurn
  <2>6. CASE UNCHANGED vars
        BY <2>6, RestTurn
  <2>7. CASE Finished
        BY <2>7, RestTurn DEF Finished
  <2> QED  BY <2>1, <2>2, <2>3, <2>4, <2>5, <2>6, <2>7 DEF Next, PeerStep
<1> QED  BY <1>1, PeerInit, PTL DEF Spec

-----------------------------------------------------------------------------
(* What follows from it                                                    *)

\* What the reader has seen, and is to unpack, was sent before the rest.
LEMMA SentFirst ==
    ASSUME PeerOK
    PROVE  \E u \in Seq(Messages) : sent = Reader.outs \o u
<1>1. PICK E : /\ PeerSound(E)
               /\ Fine => \E T, front, t : InTune(T, E, front, t)
               /\ ~Fine => \E u : Coming(u)
      BY DEF PeerOK
<1>2. CASE ~Fine
  <2>1. PICK u : Coming(u)
        BY <1>1, <1>2
  <2> QED  BY <2>1 DEF Coming
<1>3. CASE Fine
  <2>1. PICK T, front, t : InTune(T, E, front, t)
        BY <1>1, <1>3
  <2>2. Reader \in States /\ T \in States /\ front \in Seq(Tokens) /\ Leads(Reader, front, T) /\ T.outs = sent
        BY <1>1, <2>1, StateIn DEF PeerSound, ReaderOK, InTune, Follower
  <2> DEFINE R == Reader
  <2>3. R \in States /\ Leads(R, front, T)
        BY <2>2
  <2> HIDE DEF R, States, Tokens, Messages
  <2>4. Grown(R, T)
        BY <2>2, <2>3, LeadsGrows
  <2> QED  BY <2>2, <2>4 DEF Grown, R
<1> QED  BY <1>2, <1>3

LEMMA OutFirst ==
    ASSUME PeerOK
    PROVE  out \in Seq(Messages) /\ sent \in Seq(Messages) /\ \E u \in Seq(Messages) : sent = out \o u
<1>1. PICK u \in Seq(Messages) : sent = Reader.outs \o u
      BY SentFirst
<1>2. out \in Seq(Messages) /\ IsAgg(aggmsg) /\ sent \in Seq(Messages)
      BY DEF PeerOK, PeerSound, ReaderOK
<1> DEFINE p == Unpack(aggmsg)
<1>3. p \in Seq(Messages)
      BY <1>2, UnpackOK
<1>4. Reader.outs = out \o p
  <2> DEFINE o == out \o p
  <2> HIDE DEF o
  <2>1. Reader = State(readcsmap, ReadMaxChunkSize, o, 0)
        BY DEF Reader, o
  <2>2. Reader.outs = o
        BY <2>1, StateFields
  <2> QED  BY <2>2 DEF o
<1> HIDE DEF p, Messages
<1>5. (out \o p) \o u = out \o (p \o u) /\ p \o u \in Seq(Messages)
      BY <1>2, <1>3, ConcatAssociative, ConcatProperties
<1> QED  BY <1>1, <1>2, <1>4, <1>5

\* Reassembled: the messages of a peer that interleaves chunk streams, compresses headers,
\* changes its chunk size and sends aggregates come out of readMsg in order, with their own
\* time, type, stream and payload, up to the first error.
THEOREM PeerReassembled == Spec => []Reassembled
<1>1. PeerOK => Reassembled
  <2> SUFFICES ASSUME PeerOK
               PROVE  Reassembled
      OBVIOUS
  <2>1. out \in Seq(Messages)
        BY OutFirst
  <2>2. PICK u \in Seq(Messages) : sent = out \o u
        BY OutFirst
  <2> HIDE DEF Messages
  <2>3. IsPrefix(out, out \o u)
        BY <2>1, PrefixConcat
  <2> QED  BY <2>2, <2>3 DEF Reassembled
<1> QED  BY <1>1, PeerInvariant, PTL

\* Complete: a reader that has emptied the wire, and unpacked the aggregate, has seen all
\* that was sent.
THEOREM PeerComplete == Spec => []Complete
<1>1. PeerOK => Complete
  <2> SUFFICES ASSUME PeerOK, wire = <<>>, Fine, aggmsg.parts = <<>>
               PROVE  out = sent
      BY Zenon DEF Complete, Fine
  <2>1. PICK E, T, front, t : PeerSound(E) /\ InTune(T, E, front, t)
        BY DEF PeerOK
  <2>2. /\ Reader \in States /\ T \in States /\ front \in Seq(Tokens) /\ Leads(Reader, front, T)
        /\ T.outs = sent /\ wire = front \o t
        BY <2>1, StateIn DEF PeerSound, ReaderOK, InTune, Follower
  <2>3. t \in Seq(Tokens)
    <3>1. <<>> \in Seq(Tokens)
          BY EmptySeq
    <3> QED  BY <2>1, <3>1, BadIn DEF InTune
  <2>4. front = <<>>
    <3> HIDE DEF Tokens
    <3>1. Len(front \o t) = Len(front) + Len(t) /\ Len(front) \in Nat /\ Len(t) \in Nat
          BY <2>2, <2>3, ConcatProperties, LenProperties
    <3>2. Len(front \o t) = 0
          BY <2>2
    <3>3. Len(front) = 0
          BY <3>1, <3>2
    <3> QED  BY <2>2, <3>3, EmptySeq
  <2>5. Reader = T
    <3> HIDE DEF States, Tokens
    <3> QED  BY <2>2, <2>4, LeadsNowhere
  <2>6. Unpack(aggmsg) = <<>> /\ out \in Seq(Messages)
    <3>1. IsAgg(aggmsg) /\ out \in Seq(Messages)
          BY <2>1 DEF PeerSound, ReaderOK
    <3>2. Unpack(aggmsg) \in Seq(Messages) /\ Len(Unpack(aggmsg)) = Len(aggmsg.parts)
          BY <3>1, UnpackOK
    <3> HIDE DEF Messages
    <3>3. Len(Unpack(aggmsg)) = 0
          BY <3>2
    <3> QED  BY <3>1, <3>2, <3>3, EmptySeq
  <2>7. Reader.outs = out \o <<>>
        BY <2>6, StateFields DEF Reader
  <2>8. out \o <<>> = out
    <3> HIDE DEF Messages
    <3> QED  BY <2>6, ConcatEmptySeq
  <2> QED  BY <2>2, <2>5, <2>7, <2>8
<1> QED  BY <1>1, PeerInvariant, PTL

\* RefusesOnlyRude: readChunk returns an error only to a peer that broke a rule, uses more
\* chunk streams than it keeps or sends a message over message.Start's limit, to the last
\* at that message; and always to one that broke a rule or sent such a message.
THEOREM RudeRefused == Spec => []RefusesOnlyRude
<1>1. PeerOK => RefusesOnlyRude
  <2> SUFFICES ASSUME PeerOK
               PROVE  RefusesOnlyRude
      OBVIOUS
  <2>1. PICK E : /\ PeerSound(E)
                 /\ Fine => \E T, front, t : InTune(T, E, front, t)
                 /\ ~Fine => Excuse(E, err)
        BY DEF PeerOK
  <2>2. Used(E) = {c \in Csids : enc[c].used}
        BY <2>1 DEF Used, PeerSound
  <2>3. /\ err = "MsgDataTooBig" => over # 0 /\ Len(out) = over - 1
        /\ err = "TooManyCsid" => broke \/ Cardinality(Used(E)) > MaxCsid
        /\ err \notin {"", "MsgDataTooBig", "TooManyCsid"} => broke
        BY <2>1 DEF Excuse, Fine
  <2>4. ASSUME broke, wire = <<>>, Fine
        PROVE  FALSE
    <3>1. PICK T, front, t : InTune(T, E, front, t)
          BY <2>1, <2>4
    <3>2. front \in Seq(Tokens) /\ wire = front \o t /\ Bad(E, t)
          BY <2>4, <3>1 DEF InTune
    <3>3. t \in Seq(Tokens) /\ t # <<>>
          BY <3>2, BadIn
    <3> HIDE DEF Tokens
    <3>4. Len(front \o t) = Len(front) + Len(t) /\ Len(front) \in Nat /\ Len(t) \in Nat
          BY <3>2, <3>3, ConcatProperties, LenProperties
    <3>5. Len(front \o t) = 0
          BY <2>4, <3>2
    <3>6. Len(t) = 0
          BY <3>4, <3>5
    <3> QED  BY <3>3, <3>6, EmptySeq
  <2>5. ASSUME ~broke, over # 0, wire = <<>>, Fine
        PROVE  FALSE
    <3>1. PICK T, front, t : InTune(T, E, front, t)
          BY <2>1, <2>5
    <3>2. /\ front \in Seq(Tokens) /\ wire = front \o t /\ t = <<>> /\ Leads(Reader, front, T)
          /\ T.cut = over /\ T \in States /\ Reader \in States
          BY <2>1, <2>5, <3>1, StateIn DEF InTune, Follower, PeerSound, ReaderOK
    <3> HIDE DEF Tokens, States
    <3>3. front = <<>>
      <4>1. front \o <<>> = front
            BY <3>2, ConcatEmptySeq
      <4> QED  BY <2>5, <3>2, <4>1
    <3>4. Reader = T
          BY <3>2, <3>3, LeadsNowhere
    <3> QED  BY <2>5, <3>2, <3>4, ReaderFields
  <2> QED  BY <2>2, <2>3, <2>4, <2>5, Zenon DEF RefusesOnlyRude, Fine
<1> QED  BY <1>1, PeerInvariant, PTL

\* InStep: to a peer that keeps to the rules and uses no more chunk streams than the reader
\* keeps, the reader returns an error at the first message over its limit and no other, and
\* until then it is never out of step with the chunks.
THEOREM PeerInStep ==
    ASSUME ~Rude, Cardinality(Csids) <= MaxCsid
    PROVE  Spec => []InStep
<1>1. PeerOK => InStep
  <2> SUFFICES ASSUME PeerOK
               PROVE  InStep
      OBVIOUS
  <2>1. PICK E : /\ PeerSound(E)
                 /\ Fine => \E T, front, t : InTune(T, E, front, t)
                 /\ ~Fine => Excuse(E, err)
        BY DEF PeerOK
  <2>2. ~broke
        BY <2>1 DEF PeerSound
  <2>3. ~Fine => err = "MsgDataTooBig" /\ over # 0 /\ Len(out) = over - 1
    <3>1. Cardinality(Used(E)) <= Cardinality(Csids) /\ IsFiniteSet(Used(E))
          BY PeerAssumption, FS_Subset DEF Used
    <3>2. Cardinality(Used(E)) \in Nat /\ Cardinality(Csids) \in Nat
          BY <3>1, PeerAssumption, FS_CardinalityType
    <3> DEFINE a == Cardinality(Used(E))  b == Cardinality(Csids)
    <3>3. a \in Nat /\ b \in Nat /\ a <= b /\ b <= MaxCsid /\ MaxCsid \in Nat
          BY <3>1, <3>2, ChunkAssumption
    <3> HIDE DEF a, b
    <3>4. ~(a > MaxCsid)
          BY <3>3
    <3> QED  BY <2>1, <2>2, <3>4 DEF a, Excuse
  <2>8. SUFFICES ASSUME Fine
                 PROVE  AtHeader
        BY <2>3, Zenon DEF InStep, Fine
  <2>4. PICK T, front, t : InTune(T, E, front, t)
        BY <2>1, <2>8
  <2>5. /\ Reader \in States /\ T \in States /\ front \in Seq(Tokens) /\ Leads(Reader, front, T)
        /\ wire = front \o t /\ t = <<>>
        BY <2>1, <2>2, <2>4, StateIn DEF PeerSound, ReaderOK, InTune, Follower
  <2>6. wire = front
    <3> HIDE DEF Tokens
    <3>1. front \o <<>> = front
          BY <2>5, ConcatEmptySeq
    <3> QED  BY <2>5, <3>1
  <2>7. ASSUME front # <<>>
        PROVE  front[1].k = "hdr"
    <3> HIDE DEF States, Tokens
    <3>1. PICK S1 \in States, w1 \in Seq(Tokens) : Link(Reader, front, S1, w1)
          BY <2>5, <2>7, LeadsFirst
    <3> DEFINE R == Reader
    <3>2. Link(R, front, S1, w1)
          BY <3>1
    <3> HIDE DEF R
    <3> QED  BY <3>2, LinkFirst
  <2> QED  BY <2>6, <2>7, Zenon DEF AtHeader
<1> QED  BY <1>1, PeerInvariant, PTL

-----------------------------------------------------------------------------
(* Acknowledgements                                                        *)

Windows == Sizes \union {AckSize}
ChunkSizes == Sizes \union {ChunkSize}

\* What control messages announce is a size.
Orders(s) == \A i \in 1..Len(s) : s[i].type \in Controls => s[i].data[1][1] \in Sizes

LEMMA OrdersJoin ==
    ASSUME NEW s \in Seq(Messages), NEW t \in Seq(Messages), Orders(s), Orders(t)
    PROVE  Orders(s \o t)
<1> DEFINE u == s \o t
<1> HIDE DEF Messages
<1>1. /\ Len(u) = Len(s) + Len(t) /\ Len(s) \in Nat /\ Len(t) \in Nat
      /\ \A i \in 1..Len(s) + Len(t) : u[i] = IF i <= Len(s) THEN s[i] ELSE t[i - Len(s)]
      BY ConcatProperties, LenProperties
<1> HIDE DEF u
<1>2. ASSUME NEW i \in 1..Len(u)
      PROVE  (\E j \in 1..Len(s) : u[i] = s[j]) \/ (\E j \in 1..Len(t) : u[i] = t[j])
  <2>1. CASE i <= Len(s)
    <3>1. i \in 1..Len(s) /\ i \in 1..Len(s) + Len(t)
          BY <1>1, <2>1
    <3> QED  BY <1>1, <2>1, <3>1
  <2>2. CASE ~(i <= Len(s))
    <3>1. i - Len(s) \in 1..Len(t) /\ i \in 1..Len(s) + Len(t)
          BY <1>1, <2>2
    <3> QED  BY <1>1, <2>2, <3>1
  <2> QED  BY <2>1, <2>2
<1>3. Orders(u)
      BY <1>2 DEF Orders
<1> QED  BY <1>3 DEF u

LEMMA OrdersSeen ==
    ASSUME NEW m, Proper(m)
    PROVE  Seen(m) \in Seq(Messages) /\ Orders(Seen(m))
<1>1. Seen(m) \in Seq(Messages)
  <2> DEFINE u == TRUE  o == 0  e == Enc(u, o, m, o, o, o)
  <2>1. u \in BOOLEAN /\ u /\ o \in 0..2 /\ o \in 0..Len(m.data) /\ o \in Moment /\ (o # 0 => o = o)
    <3>1. Len(m.data) \in Nat
          BY ProperFields
    <3> QED  BY <3>1, ChunkAssumption DEF Moment
  <2> HIDE DEF u, o
  <2>2. EncOK(e)
    <3> HIDE DEF e, Moment
    <3> QED  BY <2>1, EncIs DEF e
  <2>3. e.msg = m
        BY EncFields
  <2> HIDE DEF e
  <2> QED  BY <2>2, <2>3, SeenIs
<1>2. CASE m.type = "Aggregate"
  <2> DEFINE s == Unpacked(m)
  <2>1. Len(s) = Len(m.data) /\ \A i \in 1..Len(m.data) : s[i].type = "Video"
    <3>1. Len(m.data) \in Nat
          BY ProperFields
    <3> QED  BY <3>1 DEF Unpacked, Message
  <2> HIDE DEF s
  <2>2. Orders(s)
        BY <2>1 DEF Orders, Controls
  <2> QED  BY <1>1, <1>2, <2>2 DEF Seen, s
<1>3. CASE m.type # "Aggregate"
  <2> DEFINE s == <<m>>
  <2>1. Len(s) = 1 /\ s[1] = m
        OBVIOUS
  <2> HIDE DEF s
  <2>2. Orders(s)
    <3> SUFFICES ASSUME NEW i \in 1..Len(s), s[i].type \in Controls
                 PROVE  s[i].data[1][1] \in Sizes
        BY DEF Orders
    <3>1. s[i] = m
          BY <2>1
    <3> QED  BY <3>1 DEF Proper
  <2> QED  BY <1>1, <1>3, <2>2 DEF Seen, s
<1> QED  BY <1>2, <1>3

\* The reader takes a size from a message it delivers.
Told(type, new) == \E m : out' = Append(out, m) /\ m.type = type /\ new = m.data[1][1]
Hears ==
    /\ readAckSize' = readAckSize \/ Told("WindowAckSize", readAckSize')
    /\ \/ ReadMaxChunkSize' = ReadMaxChunkSize
       \/ Told("SetChunkSize", ReadMaxChunkSize')

LEMMA ReaderHears == ReaderNext => Hears
<1>1. ASSUME NEW m, NEW acks, HandleEvent(m, acks)
      PROVE  Hears
  <2>1. CASE m.type = "WindowAckSize"
        BY <1>1, <2>1 DEF HandleEvent, Hears, Told
  <2>2. CASE m.type = "SetChunkSize"
        BY <1>1, <2>2 DEF HandleEvent, Hears, Told
  <2>3. CASE m.type \notin {"WindowAckSize", "SetChunkSize"}
        BY <1>1, <2>3 DEF HandleEvent, Hears, Told
  <2> QED  BY <2>1, <2>2, <2>3
<1>2. ASSUME NEW cs, NEW acks, Deliver(cs, acks)
      PROVE  Hears
      BY <1>1, <1>2 DEF Deliver, Hears
<1>3. ASSUME NEW c, NEW cs, NEW rest, Payload(c, cs, rest)
      PROVE  Hears
      BY <1>2, <1>3, Zenon DEF Payload, Hears
<1>4. ASSUME NEW e, Fail(e)
      PROVE  Hears
      BY <1>4, Zenon DEF Fail, Hears
<1>5. NextAggPart => Hears
      BY Zenon DEF NextAggPart, Hears
<1>6. ReaderNext => \/ \E c, cs, rest : Payload(c, cs, rest)
                    \/ \E e : Fail(e)
                    \/ NextAggPart
      BY Zenon DEF ReaderNext, ReaderStep, ReadChunk0, ReadChunk12, ReadChunk3New, ReadChunk3More,
                   ReadChunkError, Begin
<1> QED  BY <1>3, <1>4, <1>5, <1>6


LEMMA ModNear ==
    ASSUME NEW M \in Nat \ {0}, NEW x \in Int
    PROVE  /\ x \in 0..M - 1 => x % M = x
           /\ x + M \in 0..M - 1 => x % M = x + M
           /\ x - M \in 0..M - 1 => x % M = x - M
<1>1. x = M * (x \div M) + (x % M) /\ x % M \in 0..M - 1 /\ x \div M \in Int
      OBVIOUS
<1> DEFINE q == x \div M  r == x % M
<1>2. q \in Int /\ r \in 0..M - 1 /\ x = M * q + r
      BY <1>1
<1> HIDE DEF q, r
<1>3. x \in 0..M - 1 => r = x
      BY <1>2
<1>4. x + M \in 0..M - 1 => r = x + M
      BY <1>2
<1>5. x - M \in 0..M - 1 => r = x - M
      BY <1>2
<1> QED  BY <1>3, <1>4, <1>5 DEF r

\* The distance of two counts grows by what was counted, across a wrap.
LEMMA Distance ==
    ASSUME NEW M \in Nat \ {0}, NEW a \in 0..M - 1, NEW b \in 0..M - 1, NEW k \in Nat,
           NEW d, (a - b) % M = d, d + k < M
    PROVE  (((a + k) % M) - b) % M = d + k
<1>1. CASE a >= b
  <2>1. a - b \in Int /\ a - b \in 0..M - 1
        BY <1>1
  <2>2. d = a - b
        BY <2>1, ModNear
  <2>3. a + k \in Int /\ a + k - b \in Int /\ a + k - b \in 0..M - 1 /\ d + k = a + k - b
        BY <1>1, <2>2
  <2>4. (a + k - b) % M = a + k - b
        BY <2>3, ModNear
  <2>5. CASE a + k < M
    <3>1. a + k \in 0..M - 1
          BY <2>5
    <3>2. (a + k) % M = a + k
          BY <2>3, <3>1, ModNear
    <3>3. (((a + k) % M) - b) % M = (a + k - b) % M
          BY <3>2
    <3> QED  BY <2>3, <2>4, <3>3
  <2>6. CASE a + k >= M
    <3> DEFINE y == a + k
    <3>1. y \in Int /\ y - M \in 0..M - 1
          BY <2>3, <2>6
    <3> HIDE DEF y
    <3>2. y % M = y - M
          BY <3>1, ModNear
    <3> USE DEF y
    <3> DEFINE x == a + k - M - b
    <3>3. x \in Int /\ x + M \in 0..M - 1 /\ x + M = d + k
          BY <2>3
    <3> HIDE DEF x
    <3>4. x % M = d + k
          BY <3>3, ModNear
    <3>5. ((y % M) - b) % M = x % M
          BY <3>2 DEF x
    <3> QED  BY <3>4, <3>5
  <2> QED  BY <2>5, <2>6
<1>2. CASE a < b
  <2>1. a - b \in Int /\ a - b + M \in 0..M - 1
        BY <1>2
  <2>2. d = a - b + M
        BY <2>1, ModNear
  <2>3. a + k \in Int /\ a + k \in 0..M - 1
        BY <1>2, <2>2
  <2>4. (a + k) % M = a + k
        BY <2>3, ModNear
  <2> DEFINE x == a + k - b
  <2>5. x \in Int /\ x + M \in 0..M - 1 /\ x + M = d + k
        BY <1>2, <2>2, <2>3
  <2> HIDE DEF x
  <2>6. x % M = d + k
        BY <2>5, ModNear
  <2> QED  BY <2>4, <2>6 DEF x
<1> QED  BY <1>1, <1>2

\* Windows and chunks are small before the numbers that are counted modulo.
SmallWindows == AckSize # 0 /\ \A w \in Windows, n \in ChunkSizes : w + n + 2 < AckMod

\* read is what was read since the last acknowledgement, and no more than a window.
AckOK ==
    /\ Orders(sent) /\ readAckSize \in Windows /\ ReadMaxChunkSize \in ChunkSizes
    /\ read \in Nat /\ (ackn - lastackn) % AckMod = read /\ \E w \in Windows : read <= w

LEMMA AckCounts ==
    ASSUME SmallWindows, PeerOK, AckOK, Counted
    PROVE  /\ read' \in Nat /\ (ackn' - lastackn') % AckMod = read' /\ \E w \in Windows : read' <= w
           /\ ackn' # ackn => read' <= readAckSize
<1>1. /\ ackn \in 0..AckMod - 1 /\ lastackn \in 0..AckMod - 1 /\ AckMod \in Nat \ {0}
      /\ readAckSize \in Nat \ {0} /\ ReadMaxChunkSize \in Nat /\ read \in Nat
      /\ (ackn - lastackn) % AckMod = read /\ Windows \subseteq Nat
      BY ChunkAssumption, PeerAssumption DEF PeerOK, PeerSound, ReaderOK, SmallWindows, Windows, ChunkSizes, AckOK
<1>2. CASE UNCHANGED <<ackn, lastackn, read>>
      BY <1>1, <1>2 DEF AckOK
<1>3. ASSUME NEW k \in 1..2 + ReadMaxChunkSize, Counts(k)
      PROVE  /\ read' \in Nat /\ (ackn' - lastackn') % AckMod = read' /\ \E w \in Windows : read' <= w
             /\ read' <= readAckSize
  <2>1. PICK w \in Windows : read <= w
        BY DEF AckOK
  <2>2. k \in Nat /\ read + k < AckMod
    <3>1. w + ReadMaxChunkSize + 2 < AckMod /\ w \in Nat
          BY <1>1, <2>1 DEF SmallWindows, AckOK
    <3> QED  BY <1>1, <2>1, <3>1
  <2> DEFINE n == (ackn + k) % AckMod
  <2>3. (n - lastackn) % AckMod = read + k
        BY <1>1, <2>2, Distance
  <2>4. n \in 0..AckMod - 1
        BY <1>1, <2>2
  <2> HIDE DEF n
  <2>5. /\ ackn' = n /\ lastackn' = IF AckDue(n) THEN n ELSE lastackn
        /\ read' = IF AckDue(n) THEN 0 ELSE read + k
        BY <1>1, <1>3 DEF Counts, n
  <2>6. CASE AckDue(n)
    <3>1. n - n = 0 /\ 0 % AckMod = 0
          BY <1>1, <2>4
    <3>2. ackn' = n /\ lastackn' = n /\ read' = 0
          BY <2>5, <2>6
    <3> QED  BY <1>1, <2>1, <3>1, <3>2
  <2>7. CASE ~AckDue(n)
    <3>1. read + k <= readAckSize
          BY <1>1, <2>2, <2>3, <2>7 DEF AckDue
    <3>2. ackn' = n /\ lastackn' = lastackn /\ read' = read + k
          BY <2>5, <2>7
    <3> QED  BY <1>1, <2>2, <2>3, <3>1, <3>2 DEF AckOK
  <2> QED  BY <2>6, <2>7
<1> QED  BY <1>2, <1>3 DEF Counted


LEMMA OrdersKept ==
    ASSUME PeerOK, Orders(sent), Next
    PROVE  Orders(sent)'
<1>1. PICK E : PeerSound(E)
      BY DEF PeerOK
<1>2. enc = E /\ EncsOK(E) /\ started \in Nat /\ sent \in Seq(Messages)
      BY <1>1 DEF PeerSound
<1>3. ASSUME NEW m, Proper(m), sent' = sent \/ sent' = sent \o Seen(m)
      PROVE  Orders(sent')
  <2> HIDE DEF Messages
  <2> QED  BY <1>2, <1>3, OrdersSeen, OrdersJoin
<1>4. ASSUME NEW c \in Csids, NEW fmt \in 0..3, NEW m, Proper(m), StartMsg(c, fmt, m)
      PROVE  Orders(sent')
  <2>1. sent' = sent \/ sent' = sent \o Seen(m)
        BY <1>4 DEF StartMsg, Emit
  <2> QED  BY <1>3, <1>4, <2>1
<1>5. ASSUME NEW c \in Csids, ContinueMsg(c)
      PROVE  Orders(sent')
  <2>1. sent' = sent \/ sent' = sent \o Seen(enc[c].msg)
        BY <1>5 DEF ContinueMsg, Emit
  <2>2. Proper(enc[c].msg)
        BY <1>2 DEF EncsOK, EncOK
  <2> QED  BY <1>3, <2>1, <2>2
<1>6. CASE sent' = sent
      BY <1>6
<1>7. Orders(sent')
  <2>1. ASSUME NEW c \in Csids \ {2}, NEW fmt \in 0..3, NEW m \in MediaMsgs \union AggMsgs,
               StartMsg(c, fmt, m)
        PROVE  Orders(sent')
    <3>1. Proper(m)
          BY <1>2, MediaProper, AggProper
    <3> QED  BY <1>4, <2>1, <3>1
  <2>2. ASSUME 2 \in Csids, NEW m \in ControlMsgs, StartMsg(2, 0, m)
        PROVE  Orders(sent')
    <3>1. Proper(m) /\ 0 \in 0..3
          BY ControlProper
    <3> QED  BY <1>4, <2>2, <3>1
  <2>3. ASSUME NEW c \in Csids, NEW fmt \in 0..3, BreakRule(c, fmt)
        PROVE  Orders(sent')
        BY <1>6, <2>3 DEF BreakRule
  <2>4. CASE Read \/ Finished
        BY <1>6, <2>4 DEF Read, Finished, vars
  <2> QED  BY <1>5, <2>1, <2>2, <2>3, <2>4 DEF Next, PeerStep
<1> QED  BY <1>7 DEF Orders

LEMMA OrdersHold == Spec => [](Orders(sent) /\ PeerOK)
<1>1. Init => Orders(sent)
      BY DEF Init, Orders
<1>2. PeerOK /\ Orders(sent) /\ [Next]_vars => Orders(sent)'
  <2>1. PeerOK /\ Orders(sent) /\ Next => Orders(sent)'
        BY OrdersKept
  <2>2. Orders(sent) /\ UNCHANGED vars => Orders(sent)'
        BY DEF vars, Orders
  <2> QED  BY <2>1, <2>2
<1> QED  BY <1>1, <1>2, PeerInvariant, PTL DEF Spec

\* What the reader is told is what the peer sent.
LEMMA OrdersOut ==
    ASSUME PeerOK, Orders(sent)
    PROVE  out \in Seq(Messages) /\ Orders(out)
<1>1. PICK u \in Seq(Messages) : sent = out \o u
      BY OutFirst
<1>2. out \in Seq(Messages)
      BY OutFirst
<1> HIDE DEF Messages
<1>3. /\ Len(sent) = Len(out) + Len(u) /\ Len(out) \in Nat /\ Len(u) \in Nat
      /\ \A i \in 1..Len(out) + Len(u) : sent[i] = IF i <= Len(out) THEN out[i] ELSE u[i - Len(out)]
      BY <1>1, <1>2, ConcatProperties, LenProperties
<1>4. \A i \in 1..Len(out) : i \in 1..Len(sent) /\ sent[i] = out[i]
  <2> TAKE i \in 1..Len(out)
  <2>1. i \in 1..Len(out) + Len(u) /\ i <= Len(out)
        BY <1>3
  <2> QED  BY <1>3, <2>1
<1> QED  BY <1>2, <1>4 DEF Orders

LEMMA ToldSize ==
    ASSUME out \in Seq(Messages), out' \in Seq(Messages), Orders(out)', NEW type \in Controls, NEW n,
           Told(type, n)
    PROVE  n \in Sizes
<1>1. PICK m : out' = Append(out, m) /\ m.type = type /\ n = m.data[1][1]
      BY DEF Told
<1> HIDE DEF Messages
<1> DEFINE o == Append(out, m)  l == Len(out) + 1
<1>2. l \in 1..Len(o) /\ o[l] = m
      BY LenProperties
<1> HIDE DEF o, l
<1>3. out' = o
      BY <1>1 DEF o
<1>4. Orders(out')
      BY DEF Orders
<1>5. Orders(o)
      BY <1>3, <1>4
<1> QED  BY <1>1, <1>2, <1>5 DEF Orders

LEMMA AckInit == SmallWindows /\ Init => AckOK
<1> SUFFICES ASSUME SmallWindows, Init
             PROVE  AckOK
    OBVIOUS
<1>1. sent = <<>> /\ readAckSize = AckSize /\ ReadMaxChunkSize = ChunkSize /\ read = 0
      /\ ackn = 0 /\ lastackn = 0
      BY DEF Init, ReaderInit
<1>2. 0 % AckMod = 0 /\ AckSize \in Windows /\ AckSize \in Nat /\ ChunkSize \in ChunkSizes
      BY ChunkAssumption DEF Windows, ChunkSizes
<1>3. Orders(sent)
      BY <1>1 DEF Orders
<1> QED  BY <1>1, <1>2, <1>3 DEF AckOK

LEMMA ReadOrRest ==
    ASSUME [Next]_vars
    PROVE  Read \/ UNCHANGED readervars
<1>1. PeerStep => UNCHANGED readervars
  <2>1. ASSUME NEW c, NEW fmt, NEW m, StartMsg(c, fmt, m)
        PROVE  UNCHANGED readervars
        BY <2>1, Zenon DEF StartMsg
  <2>2. ASSUME NEW c, ContinueMsg(c)
        PROVE  UNCHANGED readervars
        BY <2>2, Zenon DEF ContinueMsg
  <2>3. ASSUME NEW c, NEW fmt, BreakRule(c, fmt)
        PROVE  UNCHANGED readervars
        BY <2>3, Zenon DEF BreakRule
  <2> QED  BY <2>1, <2>2, <2>3, Zenon DEF PeerStep
<1>2. UNCHANGED vars => UNCHANGED readervars
      BY DEF vars
<1>3. Finished => UNCHANGED vars
      BY Zenon DEF Finished
<1> QED  BY <1>1, <1>2, <1>3, Zenon DEF Next

LEMMA AckStep ==
    ASSUME SmallWindows, PeerOK, Orders(sent), Orders(sent)', Orders(out)', out' \in Seq(Messages),
           AckOK, [Next]_vars
    PROVE  /\ AckOK'
           /\ ackn' # ackn => read' <= readAckSize
<1>1. CASE Read
  <2>1. /\ read' \in Nat /\ (ackn' - lastackn') % AckMod = read' /\ \E w \in Windows : read' <= w
        /\ ackn' # ackn => read' <= readAckSize
        BY <1>1, ReadTurn, AckCounts
  <2>2. Hears
        BY <1>1, ReaderHears DEF Read
  <2>3. out \in Seq(Messages)
        BY OrdersOut
  <2>4. readAckSize' \in Windows
    <3>1. Told("WindowAckSize", readAckSize') => readAckSize' \in Sizes
          BY <2>3, ToldSize DEF Controls
    <3> QED  BY <2>2, <3>1 DEF Hears, Windows, AckOK
  <2>5. ReadMaxChunkSize' \in ChunkSizes
    <3>1. Told("SetChunkSize", ReadMaxChunkSize') => ReadMaxChunkSize' \in Sizes
          BY <2>3, ToldSize DEF Controls
    <3> QED  BY <2>2, <3>1 DEF Hears, ChunkSizes, AckOK
  <2> QED  BY <2>1, <2>4, <2>5 DEF AckOK
<1>2. CASE UNCHANGED readervars
      BY <1>2 DEF readervars, AckOK
<1>3. Read \/ UNCHANGED readervars
      BY ReadOrRest
<1> QED  BY <1>1, <1>2, <1>3

\* AckInTime: after every chunk no more than the window is unacknowledged, for windows
\* that are announced at any time, while the counts wrap.
THEOREM PeerAcked ==
    ASSUME SmallWindows
    PROVE  Spec => AckInTime
<1> DEFINE Facts == out \in Seq(Messages) /\ Orders(out) /\ Orders(sent) /\ PeerOK
           Timely == ackn' # ackn /\ readAckSize # 0 => read' <= readAckSize
<1>1. Init => AckOK
      BY AckInit
<1>2. Orders(sent) /\ PeerOK => Facts
      BY OrdersOut
<1>3. Facts /\ Facts' /\ AckOK /\ [Next]_vars => AckOK' /\ [Timely]_<<wire, readervars>>
      BY AckStep
<1> QED  BY <1>1, <1>2, <1>3, OrdersHold, PTL DEF Spec, AckInTime

-----------------------------------------------------------------------------
(* Pings                                                                   *)

Replies == {"Ack", "PingResponse"} \X Nat

\* The messages of which the time is one, if they are pings.
Heard == {m \in Messages : PingTime(m) \in Seq(Nat)}

LEMMA PingTimesAppend ==
    ASSUME NEW s \in Seq(Heard), NEW m \in Heard
    PROVE  PingTimes(Append(s, m)) = PingTimes(s) \o PingTime(m)
<1> DEFINE F == [h \in Heard |-> PingTime(h)]
<1>1. F \in [Heard -> Seq(Nat)] /\ \A h \in Heard : F[h] = PingTime(h)
      BY DEF Heard
<1> HIDE DEF F, Heard
<1>2. Joined(F, Append(s, m)) = Joined(F, s) \o F[m] /\ Joined(F, s) \in Seq(Nat)
      BY <1>1, FlattenMap
<1>3. ASSUME NEW t \in Seq(Heard)
      PROVE  PingTimes(t) = Joined(F, t)
  <2>1. \A i \in 1..Len(t) : F[t[i]] = PingTime(t[i])
        BY <1>1, ElementOfSeq
  <2> QED  BY <2>1 DEF PingTimes, Joined
<1>4. Append(s, m) \in Seq(Heard)
      BY AppendProperties
<1> QED  BY <1>1, <1>2, <1>3, <1>4

LEMMA AnswerTimesAppend ==
    ASSUME NEW s \in Seq(Replies), NEW r \in Replies
    PROVE  /\ AnswerTimes(Append(s, r)) = AnswerTimes(s) \o AnswerTime(r)
           /\ AnswerTimes(s) \in Seq(Nat)
<1> DEFINE F == [h \in Replies |-> AnswerTime(h)]
<1>1. ASSUME NEW h \in Replies
      PROVE  AnswerTime(h) \in Seq(Nat)
  <2>1. h[2] \in Nat
        BY DEF Replies
  <2> DEFINE n == h[2]
  <2> HIDE DEF n
  <2>2. <<n>> \in Seq(Nat) /\ <<>> \in Seq(Nat)
        BY <2>1, EmptySeq DEF n
  <2> QED  BY <2>2 DEF AnswerTime, n
<1>2. F \in [Replies -> Seq(Nat)] /\ \A h \in Replies : F[h] = AnswerTime(h)
      BY <1>1
<1> HIDE DEF F, Replies
<1>3. Joined(F, Append(s, r)) = Joined(F, s) \o F[r] /\ Joined(F, s) \in Seq(Nat)
      BY <1>2, FlattenMap
<1>4. ASSUME NEW t \in Seq(Replies)
      PROVE  AnswerTimes(t) = Joined(F, t)
  <2>1. \A i \in 1..Len(t) : F[t[i]] = AnswerTime(t[i])
        BY <1>2, ElementOfSeq
  <2> QED  BY <2>1 DEF AnswerTimes, Joined
<1>5. Append(s, r) \in Seq(Replies)
      BY AppendProperties
<1> QED  BY <1>2, <1>3, <1>4, <1>5

\* What the reader writes with what it delivers.
Replied ==
    \E acks : /\ acks = replies \/ acks = Append(replies, <<"Ack", ackn'>>)
              /\ \/ out' = out /\ replies' = acks
                 \/ \E m : out' = Append(out, m) /\ replies' = Answer(m, acks)

LEMMA ReaderReplies == ReaderNext => Replied
<1>1. ASSUME NEW cs, NEW acks, Deliver(cs, acks)
      PROVE  \/ out' = out /\ replies' = acks
             \/ \E m : out' = Append(out, m) /\ replies' = Answer(m, acks)
      BY <1>1, Zenon DEF Deliver, HandleEvent
<1>2. ASSUME NEW c, NEW cs, NEW rest, Payload(c, cs, rest)
      PROVE  Replied
  <2> DEFINE n == (ackn + Len(wire) - Len(rest) + Size(cs)) % AckMod
             acks == IF AckDue(n) THEN Append(replies, <<"Ack", n>>) ELSE replies
  <2>1. ackn' = n
        BY <1>2, Zenon DEF Payload
  <2>2. acks = replies \/ acks = Append(replies, <<"Ack", ackn'>>)
        BY <2>1, Zenon
  <2>3. \/ out' = out /\ replies' = acks
        \/ \E cs2 : Deliver(cs2, acks)
        BY <1>2, Zenon DEF Payload
  <2> HIDE DEF acks
  <2> QED  BY <1>1, <2>2, <2>3, Zenon DEF Replied
<1>3. ASSUME NEW e, Fail(e)
      PROVE  Replied
      BY <1>3, Zenon DEF Fail, Replied
<1>4. ASSUME NextAggPart
      PROVE  Replied
  <2>1. PICK t, p : out' = Append(out, Message("Video", t, 0, <<p>>)) /\ replies' = replies
        BY <1>4, Zenon DEF NextAggPart
  <2> DEFINE m == Message("Video", t, 0, <<p>>)
  <2>2. Answer(m, replies) = replies
        BY DEF Answer, Message
  <2> HIDE DEF m
  <2>3. out' = Append(out, m) /\ replies' = Answer(m, replies)
        BY <2>1, <2>2 DEF m
  <2> QED  BY <2>3 DEF Replied
<1>5. ReaderNext => \/ \E c, cs, rest : Payload(c, cs, rest)
                    \/ \E e : Fail(e)
                    \/ NextAggPart
      BY Zenon DEF ReaderNext, ReaderStep, ReadChunk0, ReadChunk12, ReadChunk3New, ReadChunk3More,
                   ReadChunkError, Begin
<1> QED  BY <1>2, <1>3, <1>4, <1>5


\* The answers that were written are those to the messages that were delivered.
PingOK == replies \in Seq(Replies) /\ PingsAnswered

LEMMA OutHeard ==
    ASSUME out \in Seq(Messages), Orders(out)
    PROVE  out \in Seq(Heard)
<1>1. ASSUME NEW i \in 1..Len(out)
      PROVE  out[i] \in Heard
  <2> DEFINE m == out[i]  t == m.data[1][1]
  <2> HIDE DEF Messages
  <2>1. m \in Messages
        BY ElementOfSeq
  <2>2. m.type = "PingRequest" => t \in Nat
        BY <1>1, PeerAssumption DEF Orders, Controls
  <2> HIDE DEF m, t
  <2>3. t \in Nat => <<t>> \in Seq(Nat)
        OBVIOUS
  <2>4. PingTime(m) \in Seq(Nat)
        BY <2>2, <2>3, EmptySeq DEF PingTime, t
  <2> QED  BY <2>1, <2>4 DEF Heard, m
<1> HIDE DEF Messages, Heard
<1>2. out = [i \in 1..Len(out) |-> out[i]] /\ Len(out) \in Nat
      BY LenProperties
<1> QED  BY <1>1, <1>2

LEMMA PingStep ==
    ASSUME PingOK, Replied, ackn' \in Nat, out \in Seq(Heard), out' \in Seq(Heard)
    PROVE  PingOK'
<1>1. PICK acks : /\ acks = replies \/ acks = Append(replies, <<"Ack", ackn'>>)
                  /\ \/ out' = out /\ replies' = acks
                     \/ \E m : out' = Append(out, m) /\ replies' = Answer(m, acks)
      BY DEF Replied
<1>2. replies \in Seq(Replies) /\ AnswerTimes(replies) = PingTimes(out)
      BY DEF PingOK, PingsAnswered
<1>3. acks \in Seq(Replies) /\ AnswerTimes(acks) = PingTimes(out)
  <2> DEFINE r == <<"Ack", ackn'>>
  <2>1. r \in Replies /\ AnswerTime(r) = <<>>
        BY DEF Replies, AnswerTime
  <2> HIDE DEF r, Replies
  <2>2. /\ AnswerTimes(Append(replies, r)) = AnswerTimes(replies) \o AnswerTime(r)
        /\ AnswerTimes(replies) \in Seq(Nat)
        BY <1>2, <2>1, AnswerTimesAppend
  <2>3. AnswerTimes(replies) \o <<>> = AnswerTimes(replies)
        BY <2>2, ConcatEmptySeq
  <2>4. AnswerTimes(Append(replies, r)) = AnswerTimes(replies)
        BY <2>1, <2>2, <2>3
  <2>5. Append(replies, r) \in Seq(Replies)
        BY <1>2, <2>1, AppendProperties
  <2> QED  BY <1>1, <1>2, <2>4, <2>5 DEF r
<1>4. CASE out' = out /\ replies' = acks
      BY <1>3, <1>4 DEF PingOK, PingsAnswered
<1>5. ASSUME NEW m, out' = Append(out, m), replies' = Answer(m, acks)
      PROVE  PingOK'
  <2> DEFINE o == Append(out, m)  a == Answer(m, acks)
  <2>1. m \in Heard
    <3> HIDE DEF Heard
    <3>1. o[Len(out) + 1] = m /\ Len(out) + 1 \in 1..Len(o)
          BY LenProperties
    <3>2. o \in Seq(Heard)
          BY <1>5
    <3> HIDE DEF o
    <3> QED  BY <3>1, <3>2, ElementOfSeq
  <2>2. PingTimes(o) = PingTimes(out) \o PingTime(m)
    <3> HIDE DEF Heard
    <3> QED  BY <2>1, PingTimesAppend
  <2>3. CASE m.type = "PingRequest"
    <3> DEFINE t == m.data[1][1]  r == <<"PingResponse", t>>
    <3>1. t \in Nat
      <4>1. PingTime(m) = <<t>> /\ PingTime(m) \in Seq(Nat)
            BY <2>1, <2>3 DEF PingTime, Heard
      <4> HIDE DEF t
      <4>2. Len(<<t>>) = 1 /\ <<t>>[1] = t
            OBVIOUS
      <4> QED  BY <4>1, <4>2, ElementOfSeq
    <3>2. r \in Replies
          BY <3>1 DEF Replies
    <3>3. a = Append(acks, r) /\ PingTime(m) = <<t>> /\ AnswerTime(r) = <<t>>
          BY <2>3 DEF Answer, PingTime, AnswerTime
    <3> HIDE DEF r, a, o, Replies
    <3>4. a \in Seq(Replies) /\ AnswerTimes(a) = AnswerTimes(acks) \o AnswerTime(r)
          BY <1>3, <3>2, <3>3, AnswerTimesAppend, AppendProperties
    <3>5. AnswerTimes(a) = PingTimes(o)
          BY <1>3, <2>2, <3>3, <3>4
    <3> QED  BY <1>5, <3>4, <3>5 DEF PingOK, PingsAnswered, a, o
  <2>4. CASE m.type # "PingRequest"
    <3>1. a = acks /\ PingTime(m) = <<>>
          BY <2>4 DEF Answer, PingTime
    <3>2. PingTimes(out) \in Seq(Nat)
      <4>1. AnswerTimes(acks) \in Seq(Nat)
        <5>1. <<"Ack", 0>> \in Replies
              BY DEF Replies
        <5> HIDE DEF Replies
        <5> QED  BY <1>3, <5>1, AnswerTimesAppend
      <4> QED  BY <1>3, <4>1
    <3>3. PingTimes(out) \o <<>> = PingTimes(out)
          BY <3>2, ConcatEmptySeq
    <3> HIDE DEF a, o
    <3>4. PingTimes(o) = PingTimes(out)
          BY <2>2, <3>1, <3>3
    <3> QED  BY <1>3, <1>5, <3>1, <3>4 DEF PingOK, PingsAnswered, a, o
  <2> QED  BY <2>3, <2>4
<1> QED  BY <1>1, <1>4, <1>5

\* PingsAnswered: the reader answers every ping that readMsg delivers, in order, with the time
\* that it carried, and nothing else.
THEOREM PeerPingsAnswered == Spec => []PingsAnswered
<1> DEFINE Facts == out \in Seq(Heard) /\ ackn \in Nat
<1>1. Init => PingOK
  <2> SUFFICES ASSUME Init
               PROVE  PingOK
      OBVIOUS
  <2>1. out = <<>> /\ replies = <<>>
        BY DEF Init, ReaderInit
  <2>2. AnswerTimes(<<>>) = <<>> /\ PingTimes(<<>>) = <<>>
    <3>1. [i \in 1..Len(<<>>) |-> AnswerTime(<<>>[i])] = <<>>
          OBVIOUS
    <3>2. [i \in 1..Len(<<>>) |-> PingTime(<<>>[i])] = <<>>
          OBVIOUS
    <3> QED  BY <3>1, <3>2, FlattenEmpty DEF AnswerTimes, PingTimes
  <2> QED  BY <2>1, <2>2, EmptySeq DEF PingOK, PingsAnswered
<1>2. Orders(sent) /\ PeerOK => Facts
  <2>1. PeerOK => ackn \in Nat
        BY ChunkAssumption DEF PeerOK, PeerSound, ReaderOK
  <2> QED  BY <2>1, OrdersOut, OutHeard
<1>3. Facts /\ Facts' /\ PingOK /\ [Next]_vars => PingOK'
  <2> SUFFICES ASSUME Facts, Facts', PingOK, [Next]_vars
               PROVE  PingOK'
      OBVIOUS
  <2>1. CASE Read
        BY <2>1, ReaderReplies, PingStep DEF Read
  <2>2. CASE UNCHANGED readervars
        BY <2>2 DEF readervars, PingOK, PingsAnswered
  <2>3. Read \/ UNCHANGED readervars
        BY ReadOrRest
  <2> QED  BY <2>1, <2>2, <2>3
<1>4. PingOK => PingsAnswered
      BY DEF PingOK
<1> QED  BY <1>1, <1>2, <1>3, <1>4, OrdersHold, PTL DEF Spec

=============================================================================
