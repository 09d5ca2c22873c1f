------------------------- MODULE ChunkStreamProofs -------------------------
(***************************************************************************)
(* Proofs about ChunkStream, for any chunk sizes, chunk streams, times     *)
(* lengths and number of messages: what joy5 writes leads its reader to    *)
(* the messages that were written (WriteLeads), so that the reader is in   *)
(* step and reassembles them, up to the first message that is over its     *)
(* limit, if there is one.                                                 *)
(***************************************************************************)
EXTENDS ChunkStream, ChunkReaderProofs

-----------------------------------------------------------------------------
(* A message on the wire                                                   *)

\* The chunk stream of which the first k units of m have been read.
Part(m, delta, ext, k) ==
    Rec(0, m.time, delta, m.time >= Ext, ext, m.sid, m.type, Len(m.data), Len(m.data) - k,
        SubSeq(m.data, 1, k))

\* A message that writeMsg may be called with.
Sound(m) ==
    /\ m \in Messages /\ m.time \in Moment
    /\ m.type # "Aggregate"
    /\ m.type \in Controls => m.data # <<>> /\ m.data[1][1] # 0

\* Extended timestamps: of the writer and of what the reader keeps.
ExtOf(m, ext) == ext \in Moment /\ (m.time >= Ext => ext = m.time)

\* The units of a message are the payload of a chunk.
LEMMA UnitsAre ==
    ASSUME NEW m, m.data \in Seq(Payloads), NEW k \in 0..Len(m.data), NEW n \in 0..Len(m.data) - k
    PROVE  Units(m, k + 1, n) = Data(SubSeq(m.data, k + 1, k + n))
<1> DEFINE s == m.data  u == SubSeq(s, k + 1, k + n)
<1>1. Len(u) = n /\ \A i \in 1..n : u[i] = s[k + i]
  <2>1. s \in Seq(Payloads) /\ k \in 0..Len(s) /\ n \in 0..Len(s) - k
        OBVIOUS
  <2> HIDE DEF s, Payloads
  <2> QED  BY <2>1, SliceIs
<1>2. \A i \in 1..n : (k + 1) + i - 1 = k + i
      BY LenProperties
<1> HIDE DEF u
<1>3. Data(u) = [i \in 1..n |-> DataToken(s[k + i])]
      BY <1>1 DEF Data
<1>4. Units(m, k + 1, n) = [i \in 1..n |-> DataToken(s[k + i])]
      BY <1>2 DEF Units
<1> QED  BY <1>3, <1>4 DEF u

LEMMA Header3Token ==
    ASSUME NEW c \in Nat, NEW m, m.time \in Nat
    PROVE  /\ ChunkHeader3(c, m) = ChunkHead(HdrToken(3, c, 0, 0, "", 0), m.time >= Ext, m.time)
           /\ HdrToken(3, c, 0, 0, "", 0) \in Tokens
           /\ HdrToken(3, c, 0, 0, "", 0).k = "hdr" /\ HdrToken(3, c, 0, 0, "", 0).fmt = 3
           /\ HdrToken(3, c, 0, 0, "", 0).csid = c
<1> DEFINE h == HdrToken(3, c, 0, 0, "", 0)  k == "hdr"  f == 3  o == 0  e == ""  z == <<0, 0>>
<1>1. h = Tok(k, f, c, o, o, e, o, z)
      BY HdrTokenIs
<1>2. k \in {"hdr", "ext", "data"} /\ f \in 0..3 /\ o \in Nat /\ e \in Kinds /\ z \in Payloads
      BY DEF Kinds, Payloads
<1> HIDE DEF h, f, o, e, z, Payloads
<1>3. Tok(k, f, c, o, o, e, o, z) \in Tokens
      BY <1>2, TokIn
<1>4. h \in Tokens /\ h.k = k /\ h.fmt = f /\ h.csid = c
  <2> HIDE DEF k, Tokens
  <2> QED  BY <1>1, <1>3 DEF Tok
<1>5. ChunkHeader3(c, m) = ChunkHead(h, m.time >= Ext, m.time)
  <2> HIDE DEF Tokens
  <2>1. CASE m.time >= Ext
    <3> DEFINE x == ExtToken(m.time)
    <3> HIDE DEF x
    <3>1. <<h>> \o <<x>> = <<h, x>>
          BY PairIs
    <3> QED  BY <2>1, <3>1 DEF ChunkHeader3, ChunkHead, h, o, e, f, x
  <2>2. CASE ~(m.time >= Ext)
    <3>1. <<h>> \o <<>> = <<h>>
          OBVIOUS
    <3> QED  BY <2>2, <3>1 DEF ChunkHeader3, ChunkHead, h, o, e, f
  <2> QED  BY <2>1, <2>2
<1> QED  BY <1>4, <1>5 DEF h, f, o, e, k

\* The first header of m: its timestamp, or the one that announces an extended one.
First(c, m) ==
    HdrToken(0, c, IF m.time >= Ext THEN Ext ELSE m.time, Len(m.data), m.type, m.sid)

LEMMA Header0Token ==
    ASSUME NEW c \in Nat, NEW m, Sound(m)
    PROVE  LET h == First(c, m)
           IN  /\ ChunkHeader0(c, m) = ChunkHead(h, m.time >= Ext, m.time)
               /\ h \in Tokens /\ h.k = "hdr" /\ h.fmt = 0 /\ h.csid = c /\ h.len = Len(m.data)
               /\ h.type = m.type /\ h.sid = m.sid /\ h.ts = IF m.time >= Ext THEN Ext ELSE m.time
<1> DEFINE ts == IF m.time >= Ext THEN Ext ELSE m.time
           l == Len(m.data)  y == m.type  s == m.sid
           h == First(c, m)  k == "hdr"  o == 0  z == <<0, 0>>
           g == HdrToken(o, c, o, l, y, s)
<1>1. h = Tok(k, o, c, ts, l, y, s, z)
      BY HdrTokenIs DEF First
<1>2. m \in Messages
      BY DEF Sound
<1>3. y \in Kinds /\ m.time \in Nat /\ s \in Nat /\ l \in Nat
  <2>1. y \in Kinds /\ m.time \in Nat /\ s \in Nat /\ m.data \in Seq(Payloads)
        BY <1>2, MessageFields
  <2> QED  BY <2>1, LenProperties
<1>4. k \in {"hdr", "ext", "data"} /\ o \in 0..3 /\ z \in Payloads /\ ts \in Nat
      BY <1>3, ChunkAssumption DEF Payloads
<1>5. g = Tok(k, o, c, o, l, y, s, z)
      BY HdrTokenIs
<1> HIDE DEF h, o, z, ts, l, y, s, g, Payloads, Kinds
<1>6. Tok(k, o, c, ts, l, y, s, z) \in Tokens
      BY <1>3, <1>4, TokIn
<1>7. /\ h \in Tokens /\ h.k = k /\ h.fmt = o /\ h.csid = c /\ h.len = l /\ h.type = y /\ h.sid = s
      /\ h.ts = ts
  <2> HIDE DEF k, Tokens
  <2> QED  BY <1>1, <1>6 DEF Tok
<1> DEFINE r == [g EXCEPT !.ts = ts]
<1>8. r = h
  <2> HIDE DEF k
  <2>1. r = Tok(k, o, c, ts, l, y, s, z)
        BY <1>5 DEF Tok
  <2> HIDE DEF r
  <2> QED  BY <1>1, <2>1
<1>9. ChunkHeader0(c, m) = ChunkHead(h, m.time >= Ext, m.time)
  <2>1. ChunkHeader0(c, m) = IF m.time >= Ext THEN <<[g EXCEPT !.ts = Ext], ExtToken(m.time)>>
                             ELSE <<[g EXCEPT !.ts = m.time]>>
        BY Zenon DEF ChunkHeader0, WithExt, g, o, l, y, s
  <2>2. CASE m.time >= Ext
    <3>1. ts = Ext /\ [g EXCEPT !.ts = Ext] = h
          BY <1>8, <2>2 DEF ts
    <3> QED  BY <2>1, <2>2, <3>1 DEF ChunkHead
  <2>3. CASE ~(m.time >= Ext)
    <3>1. [g EXCEPT !.ts = m.time] = h
          BY <1>8, <2>3 DEF ts
    <3> QED  BY <2>1, <2>3, <3>1 DEF ChunkHead
  <2> QED  BY <2>2, <2>3
<1> QED  BY <1>7, <1>9 DEF h, k, o, l, y, s, ts

-----------------------------------------------------------------------------
(* What the reader makes of its chunks                                     *)

LEMMA SoundFields ==
    ASSUME NEW m, Sound(m)
    PROVE  /\ m.type \in Kinds /\ m.time \in Moment /\ m.time \in Nat /\ m.sid \in Nat
           /\ m.data \in Seq(Payloads) /\ Len(m.data) \in Nat
           /\ m = Message(m.type, m.time, m.sid, m.data)
<1>1. m \in Messages /\ m.time \in Moment
      BY DEF Sound
<1>2. /\ m.type \in Kinds /\ m.time \in Nat /\ m.sid \in Nat /\ m.data \in Seq(Payloads)
      /\ m = Message(m.type, m.time, m.sid, m.data)
      BY <1>1, MessageFields
<1> QED  BY <1>1, <1>2, LenProperties

LEMMA PartFields ==
    ASSUME NEW m, NEW delta, NEW ext, NEW k
    PROVE  LET p == Part(m, delta, ext, k)
           IN  /\ p.msghdrtype = 0 /\ p.timenow = m.time /\ p.timedelta = delta
               /\ p.hastimeext = (m.time >= Ext) /\ p.timeext = ext /\ p.msgsid = m.sid
               /\ p.msgtypeid = m.type /\ p.msgdatalen = Len(m.data)
               /\ p.msgdataleft = Len(m.data) - k /\ p.msgdata = SubSeq(m.data, 1, k)
<1> DEFINE o == 0  b == (m.time >= Ext)  l == Len(m.data)  n == Len(m.data) - k  d == SubSeq(m.data, 1, k)
<1>1. Part(m, delta, ext, k) = Rec(o, m.time, delta, b, ext, m.sid, m.type, l, n, d)
      BY DEF Part
<1> HIDE DEF o, b, l, n, d
<1>2. LET p == Part(m, delta, ext, k)
      IN  /\ p.msghdrtype = o /\ p.timenow = m.time /\ p.timedelta = delta
          /\ p.hastimeext = b /\ p.timeext = ext /\ p.msgsid = m.sid
          /\ p.msgtypeid = m.type /\ p.msgdatalen = l /\ p.msgdataleft = n /\ p.msgdata = d
      BY <1>1, RecFields
<1> QED  BY <1>2 DEF o, b, l, n, d

LEMMA PartIs ==
    ASSUME NEW m, Sound(m), NEW delta \in Moment, NEW ext, ExtOf(m, ext), NEW k \in 0..Len(m.data)
    PROVE  IsCs(Part(m, delta, ext, k))
<1> DEFINE o == 0  b == (m.time >= Ext)  t == m.time  s == m.sid  y == m.type
           l == Len(m.data)  n == Len(m.data) - k  d == SubSeq(m.data, 1, k)
<1>1. Part(m, delta, ext, k) = Rec(o, t, delta, b, ext, s, y, l, n, d)
      BY DEF Part
<1>2. /\ y \in Kinds /\ t \in Moment /\ t \in Nat /\ s \in Nat /\ m.data \in Seq(Payloads) /\ l \in Nat
      BY SoundFields
<1>3. o \in 0..2 /\ b \in BOOLEAN /\ ext \in Moment /\ (b => ext # 0)
  <2>1. ext \in Moment /\ (b => ext = t)
        BY DEF ExtOf
  <2>2. b => t # 0
        BY <1>2, ChunkAssumption
  <2>3. b \in BOOLEAN /\ o \in 0..2
        OBVIOUS
  <2> QED  BY <2>1, <2>2, <2>3
<1>4. d \in Seq(Payloads) /\ Len(d) = k
  <2> HIDE DEF Payloads
  <2> QED  BY <1>2, FrontIs
<1>5. n \in Nat /\ n <= l /\ Len(d) = l - n
      BY <1>2, <1>4
<1> HIDE DEF o, b, t, s, y, l, n, d, Payloads, Kinds, Moment
<1> QED  BY <1>1, <1>2, <1>3, <1>4, <1>5, CsIs

\* The units of m from k + 1 on are n more.
More(m, delta, ext, k, n) ==
    LET vals == SubSeq(m.data, k + 1, k + n)
    IN  /\ vals \in Seq(Payloads) /\ Len(vals) = n
        /\ After(Part(m, delta, ext, k), vals) = Part(m, delta, ext, k + n)

LEMMA PartNext ==
    ASSUME NEW m, Sound(m), NEW delta, NEW ext, NEW k \in 0..Len(m.data), NEW n \in 0..Len(m.data) - k
    PROVE  More(m, delta, ext, k, n)
<1> DEFINE s == m.data  vals == SubSeq(s, k + 1, k + n)
           o == 0  b == (m.time >= Ext)  l == Len(s)  left == Len(s) - k  d == SubSeq(s, 1, k)
           p == Part(m, delta, ext, k)
<1>1. s \in Seq(Payloads) /\ Len(s) \in Nat /\ k \in 0..Len(s) /\ n \in 0..Len(s) - k
      BY SoundFields
<1>2. p = Rec(o, m.time, delta, b, ext, m.sid, m.type, l, left, d)
      BY DEF Part
<1>3. vals \in Seq(Payloads) /\ Len(vals) = n /\ d \o vals = SubSeq(s, 1, k + n)
  <2> HIDE DEF s, Payloads
  <2> QED  BY <1>1, SliceIs, SliceJoin
<1>4. left - n = Len(s) - (k + n)
      BY <1>1
<1> HIDE DEF vals, o, b, l, left, d, p
<1>5. After(p, vals) = Rec(o, m.time, delta, b, ext, m.sid, m.type, l, left - Len(vals), d \o vals)
      BY <1>2, AfterIs
<1>6. After(p, vals) = Part(m, delta, ext, k + n)
      BY <1>3, <1>4, <1>5 DEF Part, o, b, l
<1> QED  BY <1>3, <1>6 DEF vals, p, More

LEMMA PartStart ==
    ASSUME NEW m, Sound(m), NEW cs, IsCs(cs), NEW c \in Nat
    PROVE  /\ Start(Header0(cs, First(c, m), m.time))
                 = Part(m, cs.timedelta, IF m.time >= Ext THEN m.time ELSE cs.timeext, 0)
           /\ (m.time >= Ext <=> HasExt(First(c, m)))
           /\ (~(m.time >= Ext) => m.time = First(c, m).ts)
<1> DEFINE h == First(c, m)  t == m.time  o == 0  b == HasExt(h)  g == (m.time >= Ext)
           x == IF b THEN t ELSE cs.timeext  y == IF g THEN t ELSE cs.timeext
           r == Header0(cs, h, t)  l == Len(m.data)  e == <<>>
<1>1. h.len = l /\ h.type = m.type /\ h.sid = m.sid /\ h.ts = IF g THEN Ext ELSE t
  <2> HIDE DEF h
  <2> QED  BY Header0Token DEF h
<1>2. t \in Nat /\ m.data \in Seq(Payloads) /\ l \in Nat
      BY SoundFields
<1>3. b <=> g
  <2>1. b <=> h.ts = Ext
        BY DEF HasExt
  <2> HIDE DEF b, h
  <2> QED  BY <1>1, <1>2, <2>1, ChunkAssumption
<1>4. ~g => t = h.ts
  <2> HIDE DEF h, b
  <2> QED  BY <1>1
<1>5. x = y
      BY <1>3
<1>6. cs = Rec(cs.msghdrtype, cs.timenow, cs.timedelta, cs.hastimeext, cs.timeext, cs.msgsid,
               cs.msgtypeid, cs.msgdatalen, cs.msgdataleft, cs.msgdata)
      BY DEF IsCs
<1>7. r = Rec(o, t, cs.timedelta, b, x, h.sid, h.type, h.len, cs.msgdataleft, cs.msgdata)
      BY <1>6, Header0Is
<1> HIDE DEF h, t, o, b, x, r, l, e, y
<1>8. r = Rec(o, t, cs.timedelta, b, y, m.sid, m.type, l, cs.msgdataleft, cs.msgdata)
      BY <1>1, <1>5, <1>7
<1>9. Start(r) = Rec(o, t, cs.timedelta, b, y, m.sid, m.type, l, l, <<>>)
      BY <1>8, StartIs
<1>10. Part(m, cs.timedelta, y, 0) = Rec(o, t, cs.timedelta, g, y, m.sid, m.type, l, l, <<>>)
  <2>1. Len(m.data) - 0 = l /\ SubSeq(m.data, 1, 0) = <<>>
    <3>1. SubSeq(m.data, 1, 0) \in Seq(Payloads) /\ Len(SubSeq(m.data, 1, 0)) = 0
      <4> HIDE DEF Payloads
      <4>1. 0 \in 0..Len(m.data)
            BY <1>2 DEF l
      <4> QED  BY <1>2, <4>1, FrontIs
    <3> DEFINE u == SubSeq(m.data, 1, 0)
    <3> HIDE DEF u
    <3>2. u = <<>>
          BY <3>1, EmptySeq DEF u
    <3> QED  BY <1>2, <3>2 DEF l, u
  <2> QED  BY <2>1 DEF Part, o, t, l
<1>11. Start(r) = Part(m, cs.timedelta, y, 0)
  <2>1. b = g
        BY <1>3 DEF b, HasExt
  <2> QED  BY <1>9, <1>10, <2>1
<1> QED  BY <1>3, <1>4, <1>11 DEF r, h, t, y, b

LEMMA LandedTwice ==
    ASSUME NEW S, NEW c, NEW cs, ~Full(cs), NEW cs2, TooBig(cs) <=> TooBig(cs2)
    PROVE  Landed(Landed(S, c, cs), c, cs2) = Landed(S, c, cs2)
<1> DEFINE T == Landed(S, c, cs)
           map2 == [d \in DOMAIN T.map \union {c} |-> IF d = c THEN cs2 ELSE T.map[d]]
           map1 == [d \in DOMAIN S.map \union {c} |-> IF d = c THEN cs2 ELSE S.map[d]]
<1>1. /\ T.map = [d \in DOMAIN S.map \union {c} |-> IF d = c THEN cs ELSE S.map[d]]
      /\ T.max = S.max /\ T.outs = S.outs /\ T.cut = CutAt(S, cs)
  <2>1. LandsIn(S, c, cs, T)
        BY LandedFields
  <2> HIDE DEF T
  <2> QED  BY <2>1 DEF LandsIn
<1> HIDE DEF T
<1>5. CutAt(T, cs2) = CutAt(S, cs2)
      BY <1>1 DEF CutAt
<1>2. map2 = map1
  <2>1. DOMAIN T.map = DOMAIN S.map \union {c}
        BY <1>1
  <2>2. \A d \in DOMAIN S.map \union {c} :
            (IF d = c THEN cs2 ELSE T.map[d]) = (IF d = c THEN cs2 ELSE S.map[d])
        BY <1>1
  <2> QED  BY <2>1, <2>2
<1>3. Landed(T, c, cs2)
        = State(map2,
                IF Full(cs2) /\ cs2.msgtypeid = "SetChunkSize" THEN cs2.msgdata[1][1] ELSE T.max,
                IF Full(cs2) THEN T.outs \o Gives(cs2) ELSE T.outs, CutAt(T, cs2))
  <2> HIDE DEF map2
  <2> QED  BY DEF Landed, map2
<1>4. Landed(S, c, cs2)
        = State(map1,
                IF Full(cs2) /\ cs2.msgtypeid = "SetChunkSize" THEN cs2.msgdata[1][1] ELSE S.max,
                IF Full(cs2) THEN S.outs \o Gives(cs2) ELSE S.outs, CutAt(S, cs2))
  <2> HIDE DEF map1
  <2> QED  BY DEF Landed, map1
<1> HIDE DEF map1, map2
<1> QED  BY <1>1, <1>2, <1>3, <1>4, <1>5 DEF T

\* Whatever part of a message was read, the limit is for the whole.
LEMMA PartBig ==
    ASSUME NEW m, NEW delta, NEW ext, NEW k
    PROVE  TooBig(Part(m, delta, ext, k)) <=> TooLong(m)
<1> DEFINE p == Part(m, delta, ext, k)
<1>1. p.msgdatalen = Len(m.data)
      BY PartFields
<1> HIDE DEF p
<1>2. TooBig(p) <=> TooLong(m)
      BY <1>1 DEF TooBig, TooLong
<1> QED  BY <1>2 DEF p

\* A message that is complete.
LEMMA PartDone ==
    ASSUME NEW m, Sound(m), NEW delta, NEW ext
    PROVE  LET p == Part(m, delta, ext, Len(m.data))
           IN  Full(p) /\ p.msgdata = m.data /\ p.msgtypeid = m.type /\ Gives(p) = <<m>>
<1> DEFINE s == m.data  n == Len(s)  p == Part(m, delta, ext, n)
<1>1. s \in Seq(Payloads) /\ n \in Nat /\ m = Message(m.type, m.time, m.sid, s) /\ m.type # "Aggregate"
      BY SoundFields DEF Sound
<1>2. /\ p.timenow = m.time /\ p.msgsid = m.sid /\ p.msgtypeid = m.type
      /\ p.msgdataleft = n - n /\ p.msgdata = SubSeq(s, 1, n)
  <2> HIDE DEF n
  <2> QED  BY PartFields DEF n
<1> HIDE DEF p
<1>3. SubSeq(s, 1, n) = s
  <2> HIDE DEF s, Payloads
  <2> QED  BY <1>1, FrontAll
<1>4. p.msgdata = s /\ Full(p)
      BY <1>1, <1>2, <1>3 DEF Full
<1>5. Gives(p) = <<m>>
      BY <1>1, <1>2, <1>4 DEF Gives
<1> QED  BY <1>2, <1>4, <1>5 DEF p

\* A chunk of a message under way.
LEMMA LinkMore ==
    ASSUME NEW S \in States, NEW c \in DOMAIN S.map, NEW m, Sound(m), NEW delta \in Moment,
           NEW ext, ExtOf(m, ext), NEW k \in 0..Len(m.data), k # Len(m.data),
           S.map[c] = Part(m, delta, ext, k),
           NEW n, n = IF Len(m.data) - k > S.max THEN S.max ELSE Len(m.data) - k,
           NEW w1
    PROVE  /\ Link(S, (ChunkHeader3(c, m) \o Units(m, k + 1, n)) \o w1,
                   Landed(S, c, Part(m, delta, ext, k + n)), w1)
           /\ n \in 1..Len(m.data) - k /\ c \in Nat
<1> DEFINE s == m.data  vals == SubSeq(s, k + 1, k + n)
           h == HdrToken(3, c, 0, 0, "", 0)  g == (m.time >= Ext)  t == m.time
           cs == Part(m, delta, ext, k)  aft == Part(m, delta, ext, k + n)
<1>1. IsState(S) /\ S.max \in Nat \ {0} /\ c \in Nat
      BY StateOf DEF IsState
<1>2. s \in Seq(Payloads) /\ Len(s) \in Nat /\ t \in Moment /\ t \in Nat
      BY SoundFields
<1>3. n \in 1..Len(s) - k /\ n \in 0..Len(s) - k
      BY <1>1, <1>2
<1>4. /\ ChunkHeader3(c, m) = ChunkHead(h, g, t) /\ h \in Tokens
      /\ h.k = "hdr" /\ h.fmt = 3 /\ h.csid = c
  <2> HIDE DEF h, Tokens
  <2> QED  BY <1>1, <1>2, Header3Token DEF h
<1> HIDE DEF h
<1>5. Units(m, k + 1, n) = Data(vals)
      BY <1>2, <1>3, UnitsAre
<1>6. vals \in Seq(Payloads) /\ Len(vals) = n /\ After(cs, vals) = aft
  <2> HIDE DEF Payloads
  <2>1. n \in 0..Len(m.data) - k
        BY <1>3
  <2>2. More(m, delta, ext, k, n)
        BY <2>1, PartNext
  <2> QED  BY <2>2 DEF More
<1> HIDE DEF vals, aft
<1>7. /\ cs.msgdataleft = Len(s) - k /\ cs.msgdataleft # 0 /\ cs.hastimeext = g /\ cs.timeext = ext
  <2> HIDE DEF cs
  <2>1. cs.msgdataleft = Len(m.data) - k /\ cs.hastimeext = (m.time >= Ext) /\ cs.timeext = ext
        BY PartFields DEF cs
  <2> QED  BY <1>2, <2>1
<1>8. CsOf(S, c) = cs
      BY DEF CsOf
<1> HIDE DEF cs
<1>9. Began(cs, h, t) = cs
      BY <1>4, <1>7 DEF Began
<1>10. /\ aft.msgtypeid = m.type
       /\ (Full(aft) => aft.msgdata = s)
  <2>1. aft.msgtypeid = m.type /\ aft.msgdataleft = Len(s) - (k + n) /\ aft.msgdata = SubSeq(s, 1, k + n)
        BY PartFields DEF aft
  <2>2. ASSUME Full(aft)
        PROVE  aft.msgdata = s
    <3>1. k + n = Len(s)
          BY <1>2, <1>3, <2>1, <2>2 DEF Full
    <3> HIDE DEF s, Payloads
    <3>2. SubSeq(s, 1, Len(s)) = s
          BY <1>2, FrontAll
    <3> QED  BY <2>1, <3>1, <3>2
  <2> QED  BY <2>1, <2>2
<1>11. g => ext = t /\ t # 0
  <2>1. g => t # 0
        BY <1>2, ChunkAssumption
  <2> QED  BY <2>1 DEF ExtOf
<1>12. Fits(S, h, g, t, vals)
  <2>1. Len(vals) = Portion(cs, S.max)
        BY <1>6, <1>7 DEF Portion
  <2>2. Full(aft) /\ aft.msgtypeid \in Controls => aft.msgdata # <<>> /\ aft.msgdata[1][1] # 0
        BY <1>10 DEF Sound
  <2> HIDE DEF g, t, s
  <2> QED  BY <1>4, <1>6, <1>7, <1>8, <1>9, <1>11, <2>1, <2>2 DEF Fits
<1>13. Taken(S, h, t, vals) = Landed(S, c, aft)
       BY <1>4, <1>6, <1>8, <1>9 DEF Taken
<1> DEFINE w == (ChunkHeader3(c, m) \o Units(m, k + 1, n)) \o w1
<1>14. w = Toks(h, g, t, vals) \o w1
       BY <1>4, <1>5 DEF Toks
<1>15. Link(S, w, Taken(S, h, t, vals), w1)
  <2>1. g \in BOOLEAN
        OBVIOUS
  <2> HIDE DEF w, g, t, Tokens, Payloads, Moment
  <2> QED  BY <1>2, <1>4, <1>6, <1>12, <1>14, <2>1, LinkIs
<1> QED  BY <1>1, <1>3, <1>13, <1>15 DEF aft

-----------------------------------------------------------------------------
(* The loop of writeMsg2                                                   *)

\* The function that is empty at 0, and at any other argument its row and itself at
\* the argument that the loop goes on with.
Turns(f, N, row, back) ==
    f = [left \in 0..N |-> IF left = 0 THEN <<>> ELSE row[left] \o f[back[left]]]

LEMMA TurnsExist ==
    ASSUME NEW N \in Nat, NEW row, NEW back, \A left \in 1..N : back[left] \in 0..left - 1
    PROVE  \E f : Turns(f, N, row, back)
<1> DEFINE P == {k \in Nat : k <= N => \E f : Turns(f, k, row, back)}
<1>1. 0 \in P
  <2> DEFINE f == [left \in 0..0 |-> <<>>]
  <2>1. Turns(f, 0, row, back)
    <3>1. \A left \in 0..0 : left = 0
          OBVIOUS
    <3> QED  BY <3>1 DEF Turns
  <2> HIDE DEF f
  <2> QED  BY <2>1
<1>2. ASSUME NEW k \in Nat, k \in P
      PROVE  k + 1 \in P
  <2> SUFFICES ASSUME k + 1 <= N
               PROVE  \E f : Turns(f, k + 1, row, back)
      OBVIOUS
  <2>1. PICK f : Turns(f, k, row, back)
        BY <1>2
  <2>2. \A left \in 0..k : f[left] = IF left = 0 THEN <<>> ELSE row[left] \o f[back[left]]
    <3> DEFINE g == [left \in 0..k |-> IF left = 0 THEN <<>> ELSE row[left] \o f[back[left]]]
    <3>1. f = g
          BY <2>1 DEF Turns
    <3>2. \A left \in 0..k : g[left] = IF left = 0 THEN <<>> ELSE row[left] \o f[back[left]]
          OBVIOUS
    <3> HIDE DEF g
    <3> QED  BY <3>1, <3>2
  <2> DEFINE g == [left \in 0..k + 1 |-> IF left <= k THEN f[left] ELSE row[left] \o f[back[left]]]
  <2>3. \A left \in 0..k : g[left] = f[left]
    <3> TAKE left \in 0..k
    <3>1. left \in 0..k + 1 /\ left <= k
          OBVIOUS
    <3> QED  BY <3>1
  <2>4. \A left \in 0..k + 1 : g[left] = IF left = 0 THEN <<>> ELSE row[left] \o g[back[left]]
    <3> TAKE left \in 0..k + 1
    <3>1. CASE left <= k
      <4>1. left \in 0..k /\ (left # 0 => left \in 1..N)
            BY <3>1
      <4>2. left # 0 => back[left] \in 0..k
            BY <4>1
      <4>3. left # 0 => g[back[left]] = f[back[left]]
            BY <2>3, <4>2
      <4>4. g[left] = f[left]
            BY <2>3, <4>1
      <4> HIDE DEF g
      <4> QED  BY <2>2, <4>1, <4>3, <4>4
    <3>2. CASE ~(left <= k)
      <4>1. left \in 1..N /\ left - 1 = k /\ left # 0
            BY <3>2
      <4>2. back[left] \in 0..k
            BY <4>1
      <4>3. g[back[left]] = f[back[left]]
            BY <2>3, <4>2
      <4>4. g[left] = row[left] \o f[back[left]]
            BY <3>2
      <4> HIDE DEF g
      <4> QED  BY <4>1, <4>3, <4>4
    <3> QED  BY <3>1, <3>2
  <2>5. Turns(g, k + 1, row, back)
    <3>1. g = [left \in 0..k + 1 |-> g[left]]
          OBVIOUS
    <3> HIDE DEF g
    <3> QED  BY <2>4, <3>1 DEF Turns
  <2> HIDE DEF g
  <2> QED  BY <2>5
<1> HIDE DEF P
<1>3. N \in P
      BY <1>1, <1>2, NatSet
<1> QED  BY <1>3 DEF P

\* Units in the next chunk, and the tokens of it.
Next3(max, left) == IF left > max THEN max ELSE left
Row(c, m, max, left) ==
    ChunkHeader3(c, m) \o Units(m, Len(m.data) - left + 1, Next3(max, left))

LEMMA LoopIs ==
    ASSUME NEW c, NEW m, Len(m.data) \in Nat, NEW max \in Nat \ {0}
    PROVE  /\ Loop(c, m, max)[0] = <<>>
           /\ \A left \in 1..Len(m.data) :
                 Loop(c, m, max)[left]
                   = Row(c, m, max, left) \o Loop(c, m, max)[left - Next3(max, left)]
<1> DEFINE N == Len(m.data)
           row == [left \in 1..N |-> Row(c, m, max, left)]
           back == [left \in 1..N |-> left - Next3(max, left)]
           Eq(f) == f = [left \in 0..N |->
                            IF left = 0 THEN <<>>
                            ELSE Row(c, m, max, left) \o f[left - Next3(max, left)]]
           h == CHOOSE f : Eq(f)
<1>1. Loop(c, m, max) = h
      BY Zenon DEF Loop, Row, Next3
<1>2. \A left \in 1..N : back[left] \in 0..left - 1
      BY DEF Next3
<1>3. PICK f : Turns(f, N, row, back)
  <2> HIDE DEF row, back
  <2> QED  BY <1>2, TurnsExist
<1>4. Eq(f)
  <2>1. f = [left \in 0..N |-> IF left = 0 THEN <<>> ELSE row[left] \o f[back[left]]]
        BY <1>3 DEF Turns
  <2>2. \A left \in 0..N :
            (IF left = 0 THEN <<>> ELSE row[left] \o f[back[left]])
              = (IF left = 0 THEN <<>> ELSE Row(c, m, max, left) \o f[left - Next3(max, left)])
    <3> TAKE left \in 0..N
    <3>1. left = 0 \/ left \in 1..N
          OBVIOUS
    <3> QED  BY <3>1
  <2> HIDE DEF row, back, N
  <2> QED  BY <2>1, <2>2
<1>5. Eq(h)
  <2> HIDE DEF Eq
  <2> QED  BY <1>4
<1> HIDE DEF h
<1>6. h[0] = <<>>
      BY <1>5
<1>7. \A left \in 1..N : h[left] = Row(c, m, max, left) \o h[left - Next3(max, left)]
  <2> TAKE left \in 1..N
  <2>1. left \in 0..N /\ left # 0
        OBVIOUS
  <2> HIDE DEF N
  <2> QED  BY <1>5, <2>1
<1> QED  BY <1>1, <1>6, <1>7 DEF N

\* The chunk behind a header, as tokens.
LEMMA RowIn ==
    ASSUME NEW c \in Nat, NEW m, Sound(m), NEW max \in Nat \ {0}, NEW left \in 1..Len(m.data)
    PROVE  Row(c, m, max, left) \in Seq(Tokens) /\ Next3(max, left) \in 1..left
<1> DEFINE N == Len(m.data)  k == N - left  n == Next3(max, left)
           h == HdrToken(3, c, 0, 0, "", 0)  g == (m.time >= Ext)  t == m.time
           vals == SubSeq(m.data, k + 1, k + n)
<1>1. m.data \in Seq(Payloads) /\ N \in Nat /\ t \in Moment /\ t \in Nat
      BY SoundFields
<1>2. n \in 1..left /\ k \in 0..N /\ n \in 0..N - k
      BY <1>1 DEF Next3
<1>3. ChunkHeader3(c, m) = ChunkHead(h, g, t) /\ h \in Tokens
  <2> HIDE DEF h, Tokens
  <2> QED  BY <1>1, Header3Token DEF h
<1>4. Units(m, k + 1, n) = Data(vals)
  <2> HIDE DEF n, k
  <2> QED  BY <1>1, <1>2, UnitsAre
<1>5. vals \in Seq(Payloads)
  <2>1. More(m, k, k, k, n)
    <3> HIDE DEF n, k
    <3> QED  BY <1>2, PartNext
  <2> QED  BY <2>1 DEF More
<1>6. Row(c, m, max, left) = Toks(h, g, t, vals)
      BY <1>3, <1>4 DEF Row, Toks
<1> HIDE DEF h, t, vals, n, k, Tokens, Payloads, Moment
<1>7. g \in BOOLEAN
      OBVIOUS
<1> HIDE DEF g
<1>8. Toks(h, g, t, vals) \in Seq(Tokens)
      BY <1>1, <1>3, <1>5, <1>7, ToksIn
<1> QED  BY <1>2, <1>6, <1>8 DEF n

LEMMA LoopIn ==
    ASSUME NEW c \in Nat, NEW m, Sound(m), NEW max \in Nat \ {0}
    PROVE  \A left \in 0..Len(m.data) : Loop(c, m, max)[left] \in Seq(Tokens)
<1> DEFINE N == Len(m.data)  L == Loop(c, m, max)
           P == {k \in Nat : \A left \in 0..N : left <= k => L[left] \in Seq(Tokens)}
<1>1. N \in Nat
      BY SoundFields
<1>2. L[0] = <<>> /\ \A left \in 1..N : L[left] = Row(c, m, max, left) \o L[left - Next3(max, left)]
      BY <1>1, LoopIs
<1> HIDE DEF L
<1>3. 0 \in P
  <2>1. L[0] \in Seq(Tokens)
        BY <1>2, EmptySeq
  <2>2. \A left \in 0..N : left <= 0 => left = 0
        OBVIOUS
  <2> HIDE DEF Tokens
  <2> QED  BY <2>1, <2>2
<1>4. ASSUME NEW k \in Nat, k \in P
      PROVE  k + 1 \in P
  <2> HIDE DEF Tokens
  <2> SUFFICES ASSUME NEW left \in 0..N, left <= k + 1
               PROVE  L[left] \in Seq(Tokens)
      OBVIOUS
  <2>1. CASE left <= k
        BY <1>4, <2>1
  <2>2. CASE left = k + 1
    <3> DEFINE n == Next3(max, left)  r == Row(c, m, max, left)
    <3>1. left \in 1..N
          BY <2>2
    <3>2. r \in Seq(Tokens) /\ n \in 1..left
          BY <3>1, RowIn
    <3>3. L[left] = r \o L[left - n]
          BY <1>2, <3>1
    <3> HIDE DEF r, n
    <3>4. left - n \in 0..N /\ left - n <= k
          BY <1>1, <2>2, <3>1, <3>2
    <3>5. L[left - n] \in Seq(Tokens)
          BY <1>4, <3>4
    <3> DEFINE w == L[left - n]
    <3> HIDE DEF w
    <3>6. r \o w \in Seq(Tokens)
          BY <3>2, <3>5, ConcatProperties DEF w
    <3> QED  BY <3>3, <3>6 DEF w
  <2> QED  BY <2>1, <2>2
<1>5. N \in P
  <2> HIDE DEF P
  <2> QED  BY <1>1, <1>3, <1>4, NatSet
<1> SUFFICES ASSUME NEW left \in 0..N
             PROVE  L[left] \in Seq(Tokens)
    BY DEF L
<1>6. left <= N
      BY <1>1
<1> HIDE DEF Tokens
<1> QED  BY <1>5, <1>6

\* The turns that are left of a message complete it.
LEMMA LoopLeads ==
    ASSUME NEW c \in Nat, NEW m, Sound(m), NEW max \in Nat \ {0}, NEW delta \in Moment,
           NEW ext, ExtOf(m, ext)
    PROVE  \A left \in 1..Len(m.data), S \in States :
              /\ S.max = max /\ c \in DOMAIN S.map
              /\ S.map[c] = Part(m, delta, ext, Len(m.data) - left)
              => Leads(S, Loop(c, m, max)[left], Landed(S, c, Part(m, delta, ext, Len(m.data))))
<1> DEFINE N == Len(m.data)  L == Loop(c, m, max)
           At(S, left) == /\ S.max = max /\ c \in DOMAIN S.map
                          /\ S.map[c] = Part(m, delta, ext, N - left)
           Done(S) == Landed(S, c, Part(m, delta, ext, N))
           Q(left) == \A S \in States : At(S, left) => Leads(S, L[left], Done(S))
           P == {k \in Nat : \A left \in 1..N : left <= k => Q(left)}
<1>1. N \in Nat
      BY SoundFields
<1>2. L[0] = <<>> /\ \A left \in 1..N : L[left] = Row(c, m, max, left) \o L[left - Next3(max, left)]
      BY <1>1, LoopIs
<1>3. \A left \in 0..N : L[left] \in Seq(Tokens)
      BY LoopIn
<1> HIDE DEF L
<1>4. 0 \in P
  <2> HIDE DEF Q
  <2> QED  OBVIOUS
<1>5. ASSUME NEW k \in Nat, k \in P
      PROVE  k + 1 \in P
  <2>1. ASSUME NEW left \in 1..N, left <= k + 1, NEW S \in States, At(S, left)
        PROVE  Leads(S, L[left], Done(S))
    <3>1. CASE left <= k
      <4>1. Q(left)
        <5> HIDE DEF Q
        <5> QED  BY <1>5, <3>1
      <4> QED  BY <2>1, <4>1
    <3>2. CASE left = k + 1
      <4> DEFINE n == Next3(max, left)  k0 == N - left  rest == left - n  w1 == L[rest]
                 p == Part(m, delta, ext, k0 + n)
                 S1 == Landed(S, c, p)
                 w == Row(c, m, max, left) \o w1
      <4>1. S.max = max /\ c \in DOMAIN S.map /\ S.map[c] = Part(m, delta, ext, k0)
            BY <2>1
      <4>2. n \in 1..left
            BY <1>1 DEF Next3
      <4>3. /\ k0 \in 0..N /\ k0 # N /\ N - k0 = left /\ rest \in 0..N /\ rest <= k
            /\ n = IF N - k0 > S.max THEN S.max ELSE N - k0
        <5>1. k0 \in 0..N /\ k0 # N /\ N - k0 = left
              BY <1>1
        <5>2. rest \in 0..N /\ rest <= k
              BY <1>1, <3>2, <4>2
        <5> QED  BY <4>1, <5>1, <5>2 DEF Next3
      <4>4. L[left] = w /\ w = (ChunkHeader3(c, m) \o Units(m, k0 + 1, n)) \o w1
            BY <1>2 DEF Row
      <4> HIDE DEF w, n, k0
      <4>5. Link(S, w, S1, w1)
        <5> HIDE DEF w1, rest
        <5>1. Link(S, (ChunkHeader3(c, m) \o Units(m, k0 + 1, n)) \o w1, Landed(S, c, p), w1)
              BY <4>1, <4>3, LinkMore
        <5> QED  BY <4>4, <5>1
      <4>6. w1 \in Seq(Tokens) /\ w \in Seq(Tokens)
        <5> HIDE DEF Tokens
        <5>1. w1 \in Seq(Tokens)
              BY <1>3, <4>3
        <5>2. left \in 0..N
              BY <1>1
        <5>3. L[left] \in Seq(Tokens)
              BY <1>3, <5>2
        <5> QED  BY <4>4, <5>1, <5>3
      <4> HIDE DEF w1, rest
      <4>7. S1 \in States
            BY <4>5, TakenIn
      <4>8. Leads(S1, w1, Done(S))
        <5>1. CASE rest = 0
          <6>1. w1 = <<>>
                BY <1>2, <5>1 DEF w1
          <6>2. k0 + n = N
                BY <1>1, <4>2, <4>3, <5>1 DEF rest, k0
          <6>3. Done(S) = S1
                BY <6>2
          <6> HIDE DEF Done, S1, N
          <6> QED  BY <6>1, <6>3, LeadsNone
        <5>2. CASE rest # 0
          <6>1. rest \in 1..N /\ k0 + n = N - rest /\ N - (k0 + n) = rest
                BY <1>1, <4>2, <4>3, <5>2 DEF rest, k0
          <6>2. ~Full(p)
            <7>1. p.msgdataleft = N - (k0 + n)
              <8> HIDE DEF N
              <8> QED  BY PartFields DEF N
            <7> QED  BY <5>2, <6>1, <7>1 DEF Full
          <6>3. S1.max = max /\ c \in DOMAIN S1.map /\ S1.map[c] = p
            <7>1. LandsIn(S, c, p, S1)
                  BY LandedFields
            <7> HIDE DEF S1, p
            <7> QED  BY <4>1, <6>2, <7>1 DEF LandsIn
          <6>4. At(S1, rest)
                BY <6>1, <6>3
          <6>5. Q(rest)
            <7> HIDE DEF Q
            <7> QED  BY <1>5, <4>3, <6>1
          <6>6. Leads(S1, L[rest], Done(S1))
            <7> HIDE DEF At, Done, S1
            <7> QED  BY <4>7, <6>4, <6>5
          <6>7. Done(S1) = Done(S)
            <7> DEFINE q == Part(m, delta, ext, N)
            <7>2. TooBig(p) <=> TooBig(q)
                  BY PartBig
            <7> HIDE DEF p, q
            <7>1. Landed(Landed(S, c, p), c, q) = Landed(S, c, q)
                  BY <6>2, <7>2, LandedTwice
            <7> QED  BY <7>1 DEF q
          <6> HIDE DEF Done, S1
          <6> QED  BY <6>6, <6>7 DEF w1
        <5> QED  BY <5>1, <5>2
      <4>9. Done(S) \in States
        <5>1. IsCs(Part(m, delta, ext, N))
          <6>1. N \in 0..Len(m.data)
                BY <1>1
          <6> HIDE DEF N
          <6> QED  BY <6>1, PartIs
        <5>2. Full(Part(m, delta, ext, N)) /\ Part(m, delta, ext, N).msgdata = m.data
              /\ Part(m, delta, ext, N).msgtypeid = m.type
              BY PartDone
        <5> DEFINE q == Part(m, delta, ext, N)
        <5>3. Full(q) /\ q.msgtypeid \in Controls => q.msgdata # <<>> /\ q.msgdata[1][1] # 0
              BY <5>2 DEF Sound
        <5>4. IsCs(q)
              BY <5>1
        <5> HIDE DEF q
        <5>5. IsState(Landed(S, c, q))
              BY <5>3, <5>4, StateOf, LandedOK
        <5> QED  BY <5>5, StateIn DEF q
      <4> HIDE DEF S1, Done, States, Tokens
      <4>10. Leads(S, w, Done(S))
             BY <2>1, <4>5, <4>6, <4>7, <4>8, LeadsStep
      <4> QED  BY <4>4, <4>10
    <3> QED  BY <2>1, <3>1, <3>2
  <2>2. \A left \in 1..N : left <= k + 1 => Q(left)
    <3> HIDE DEF At, Done, States
    <3> QED  BY <2>1
  <2> HIDE DEF Q
  <2> QED  BY <2>2
<1>6. N \in P
  <2> HIDE DEF P
  <2> QED  BY <1>1, <1>4, <1>5, NatSet
<1>7. \A left \in 1..N : Q(left)
  <2> TAKE left \in 1..N
  <2>1. left <= N
        BY <1>1
  <2> HIDE DEF Q
  <2> QED  BY <1>6, <2>1
<1> QED  BY <1>7 DEF L, N
-----------------------------------------------------------------------------
(* A message that is written leads the reader to have read it              *)

\* What the first chunk carries, tag header and all.
Room(m, max) == IF Len(m.data) > max THEN max ELSE Len(m.data)

LEMMA UnitsJoin ==
    ASSUME NEW m, m.data \in Seq(Payloads), NEW k \in 0..Len(m.data), NEW n \in 0..Len(m.data) - k
    PROVE  Units(m, 1, k) \o Units(m, k + 1, n) = Units(m, 1, k + n)
<1> DEFINE N == Len(m.data)  u == Units(m, 1, k)  v == Units(m, k + 1, n)  w == Units(m, 1, k + n)
           l == k + n
<1>1. N \in Nat /\ 0 \in 0..N /\ k \in 0..N - 0 /\ l \in 0..N - 0 /\ 0 + 1 = 1
      BY LenProperties
<1>2. ASSUME NEW a \in 0..N, NEW b \in 0..N - a
      PROVE  Units(m, a + 1, b) \in Seq(Tokens) /\ Len(Units(m, a + 1, b)) = b
  <2>1. SubSeq(m.data, a + 1, a + b) \in Seq(Payloads) /\ Len(SubSeq(m.data, a + 1, a + b)) = b
    <3> HIDE DEF Payloads
    <3> QED  BY <1>2, SliceIs
  <2>2. Units(m, a + 1, b) = Data(SubSeq(m.data, a + 1, a + b))
        BY <1>2, UnitsAre
  <2> DEFINE vals == SubSeq(m.data, a + 1, a + b)
  <2> HIDE DEF vals, Tokens, Payloads
  <2> QED  BY <2>1, <2>2, DataIs DEF vals
<1>3. u \in Seq(Tokens) /\ Len(u) = k
  <2> HIDE DEF Tokens
  <2> QED  BY <1>1, <1>2
<1>4. v \in Seq(Tokens) /\ Len(v) = n
  <2> HIDE DEF Tokens
  <2> QED  BY <1>1, <1>2
<1>5. w \in Seq(Tokens) /\ Len(w) = k + n
  <2> HIDE DEF Tokens, l
  <2>1. Units(m, 0 + 1, l) \in Seq(Tokens) /\ Len(Units(m, 0 + 1, l)) = l
        BY <1>1, <1>2
  <2> QED  BY <1>1, <2>1 DEF l
<1>6. /\ \A i \in 1..k : u[i] = DataToken(m.data[1 + i - 1])
      /\ \A i \in 1..n : v[i] = DataToken(m.data[(k + 1) + i - 1])
      /\ \A i \in 1..k + n : w[i] = DataToken(m.data[1 + i - 1])
      BY DEF Units
<1> HIDE DEF u, v, w, Tokens
<1>7. /\ u \o v \in Seq(Tokens) /\ Len(u \o v) = k + n
      /\ \A i \in 1..k + n : (u \o v)[i] = IF i <= k THEN u[i] ELSE v[i - k]
      BY <1>3, <1>4, ConcatProperties
<1>8. \A i \in 1..k + n : (u \o v)[i] = w[i]
  <2> TAKE i \in 1..k + n
  <2>1. CASE i <= k
    <3>1. i \in 1..k
          BY <2>1
    <3> QED  BY <1>6, <1>7, <2>1, <3>1
  <2>2. CASE ~(i <= k)
    <3>1. i - k \in 1..n /\ (k + 1) + (i - k) - 1 = 1 + i - 1
          BY <1>1, <2>2
    <3> QED  BY <1>6, <1>7, <2>2, <3>1
  <2> QED  BY <2>1, <2>2
<1>9. u \o v = w
      BY <1>5, <1>7, <1>8, SeqEqual
<1> QED  BY <1>9 DEF u, v, w

LEMMA BodyIs ==
    ASSUME NEW c \in Nat, NEW m, Sound(m), NEW max \in Nat \ {0}, NEW taghdr \in 0..Len(m.data),
           taghdr <= max
    PROVE  /\ Room(m, max) \in 0..Len(m.data)
           /\ Body(c, m, max, taghdr)
                = Data(SubSeq(m.data, 1, Room(m, max))) \o Loop(c, m, max)[Len(m.data) - Room(m, max)]
<1> DEFINE N == Len(m.data)  left == N - taghdr  room == max - taghdr
           n == IF left > room THEN room ELSE left
           k == Room(m, max)
<1>1. N \in Nat /\ m.data \in Seq(Payloads)
      BY SoundFields
<1>2. n \in 0..N - taghdr /\ taghdr + n = k /\ left - n = N - k /\ k \in 0..N /\ k \in 0..N - 0
  <2>1. k = (IF N > max THEN max ELSE N) /\ taghdr \in 0..N
        BY DEF Room
  <2> HIDE DEF N, k
  <2>2. CASE N > max
    <3>1. n = max - taghdr /\ k = max
          BY <1>1, <2>1, <2>2
    <3> HIDE DEF n
    <3> QED  BY <1>1, <2>1, <2>2, <3>1
  <2>3. CASE ~(N > max)
    <3>1. n = N - taghdr /\ k = N
          BY <1>1, <2>1, <2>3
    <3> HIDE DEF n
    <3> QED  BY <1>1, <2>1, <2>3, <3>1
  <2> QED  BY <2>2, <2>3
<1>3. Body(c, m, max, taghdr)
        = Units(m, 1, taghdr) \o Units(m, taghdr + 1, n) \o Loop(c, m, max)[left - n]
      BY DEF Body, FirstLeft
<1> HIDE DEF n, left, k
<1>4. Units(m, 1, taghdr) \o Units(m, taghdr + 1, n) = Units(m, 1, k)
  <2>1. Units(m, 1, taghdr) \o Units(m, taghdr + 1, n) = Units(m, 1, taghdr + n)
        BY <1>1, <1>2, UnitsJoin
  <2> QED  BY <1>2, <2>1
<1>5. Units(m, 1, k) = Data(SubSeq(m.data, 1, k))
  <2>1. Units(m, 0 + 1, k) = Data(SubSeq(m.data, 0 + 1, 0 + k))
        BY <1>1, <1>2, UnitsAre
  <2>2. 0 + 1 = 1 /\ 0 + k = k
        BY <1>1, <1>2
  <2> QED  BY <2>1, <2>2
<1> QED  BY <1>2, <1>3, <1>4, <1>5 DEF k

\* Of no chunk stream is a message under way.
Idle(S) == \A c \in DOMAIN S.map : S.map[c].msgdataleft = 0

\* The tokens w of message m on chunk stream c lead from S to T.
Wrote(S, c, m, w, T) ==
    /\ T \in States /\ w \in Seq(Tokens) /\ Leads(S, w, T) /\ Idle(T)
    /\ T.outs = Append(S.outs, m)
    /\ DOMAIN T.map = DOMAIN S.map \union {c}
    /\ T.max = IF m.type = "SetChunkSize" THEN m.data[1][1] ELSE S.max
    /\ T.cut = IF S.cut # 0 \/ ~TooLong(m) THEN S.cut ELSE Len(S.outs) + 1

LEMMA WroteIs ==
    ASSUME NEW S \in States, Idle(S), NEW c \in Nat, NEW m, Sound(m), NEW delta, NEW ext,
           NEW T \in States, T = Landed(S, c, Part(m, delta, ext, Len(m.data))),
           NEW w \in Seq(Tokens), Leads(S, w, T)
    PROVE  Wrote(S, c, m, w, T)
<1> DEFINE q == Part(m, delta, ext, Len(m.data))
<1>1. Full(q) /\ q.msgdata = m.data /\ q.msgtypeid = m.type /\ Gives(q) = <<m>>
      BY PartDone
<1>2. T = Landed(S, c, q) /\ (TooBig(q) <=> TooLong(m))
      BY PartBig
<1> HIDE DEF q
<1>3. /\ T.map = [d \in DOMAIN S.map \union {c} |-> IF d = c THEN q ELSE S.map[d]]
      /\ T.max = (IF m.type = "SetChunkSize" THEN m.data[1][1] ELSE S.max)
      /\ T.outs = S.outs \o <<m>>
      /\ T.cut = IF S.cut # 0 \/ ~TooLong(m) THEN S.cut ELSE Len(S.outs) + 1
  <2>1. LandsIn(S, c, q, T)
        BY <1>2, LandedFields
  <2>2. T.cut = IF S.cut # 0 \/ ~TooLong(m) THEN S.cut ELSE Len(S.outs) + 1
        BY <1>2, <2>1 DEF LandsIn, CutAt
  <2> QED  BY <1>1, <2>1, <2>2 DEF LandsIn
<1>4. q.msgdataleft = 0
      BY <1>1 DEF Full
<1>5. DOMAIN T.map = DOMAIN S.map \union {c}
      BY <1>3
<1>6. Idle(T)
  <2> SUFFICES ASSUME NEW d \in DOMAIN T.map
               PROVE  T.map[d].msgdataleft = 0
      BY DEF Idle
  <2>1. T.map[d] = IF d = c THEN q ELSE S.map[d]
        BY <1>3, <1>5
  <2>2. d # c => d \in DOMAIN S.map
        BY <1>5
  <2> QED  BY <1>4, <2>1, <2>2 DEF Idle
<1>7. T.outs = Append(S.outs, m)
  <2>1. S.outs \in Seq(Messages)
        BY StateOf DEF IsState
  <2>2. m \in Messages
        BY DEF Sound
  <2> HIDE DEF Messages
  <2>3. Append(S.outs, m) = S.outs \o <<m>>
        BY <2>1, <2>2, AppendIsConcat
  <2> QED  BY <1>3, <2>3
<1> HIDE DEF States, Tokens
<1> QED  BY <1>3, <1>5, <1>6, <1>7 DEF Wrote

LEMMA WriteLeads ==
    ASSUME NEW S \in States, Idle(S), NEW c \in Nat, NEW m, Sound(m), NEW max \in Nat \ {0},
           S.max = max \/ Len(m.data) <= 1,
           NEW taghdr \in 0..Len(m.data), taghdr <= max
    PROVE  \E T : Wrote(S, c, m, Chunks(c, m, max, taghdr), T)
<1> DEFINE N == Len(m.data)  k == Room(m, max)  vals == SubSeq(m.data, 1, k)
           cs == CsOf(S, c)  delta == cs.timedelta  g == (m.time >= Ext)  t == m.time
           ext == IF g THEN t ELSE cs.timeext  h == First(c, m)
           bg == Part(m, delta, ext, 0)  p == Part(m, delta, ext, k)  q == Part(m, delta, ext, N)
           T == Landed(S, c, q)  S1 == Landed(S, c, p)  w1 == Loop(c, m, max)[N - k]
           w == Chunks(c, m, max, taghdr)
<1>1. IsState(S) /\ S.max \in Nat \ {0}
      BY StateOf DEF IsState
<1>2. m.data \in Seq(Payloads) /\ N \in Nat /\ t \in Moment /\ t \in Nat
      BY SoundFields
<1>3. k \in 0..N /\ (k # N => S.max = max) /\ k = IF N > S.max THEN S.max ELSE N
  <2>1. k = IF N > max THEN max ELSE N
        BY DEF Room
  <2>2. CASE S.max = max
    <3> HIDE DEF N, k
    <3> QED  BY <1>1, <1>2, <2>1, <2>2
  <2>3. CASE N <= 1
    <3>1. ~(N > max) /\ ~(N > S.max)
      <4> HIDE DEF N
      <4> QED  BY <1>1, <1>2, <2>3
    <3>2. k = N
          BY <2>1, <3>1
    <3> HIDE DEF N, k
    <3> QED  BY <1>1, <1>2, <3>1, <3>2
  <2> QED  BY <2>2, <2>3
<1>4. IsCs(cs) /\ cs.msgdataleft = 0
  <2>1. c \in DOMAIN S.map => S.map[c].msgdataleft = 0
        BY DEF Idle
  <2>2. NewCs.msgdataleft = 0
        BY DEF NewCs
  <2> QED  BY <1>1, <2>1, <2>2, CsOfOK DEF CsOf
<1>5. delta \in Moment /\ ExtOf(m, ext)
  <2>1. delta \in Moment /\ cs.timeext \in Moment
        BY <1>4 DEF IsCs
  <2> HIDE DEF cs, Moment
  <2> QED  BY <1>2, <2>1 DEF ExtOf
<1>6. /\ ChunkHeader0(c, m) = ChunkHead(h, g, t) /\ h \in Tokens
      /\ h.k = "hdr" /\ h.fmt = 0 /\ h.csid = c
      BY Header0Token
<1>7. Start(Header0(cs, h, t)) = bg /\ (g <=> HasExt(h)) /\ (~g => t = h.ts)
  <2> HIDE DEF cs
  <2> QED  BY <1>4, PartStart
<1>8. w = ChunkHeader0(c, m) \o (Data(vals) \o w1)
  <2>1. Body(c, m, max, taghdr) = Data(vals) \o w1
        BY BodyIs
  <2> QED  BY <2>1 DEF Chunks
<1>9. w1 \in Seq(Tokens)
  <2>1. N - k \in 0..N
        BY <1>2, <1>3
  <2> HIDE DEF k, N, Tokens
  <2> QED  BY <2>1, LoopIn DEF N
<1>10. vals \in Seq(Payloads) /\ Len(vals) = k /\ After(bg, vals) = p
  <2>1. 0 \in 0..N /\ k \in 0..N - 0 /\ 0 + 1 = 1 /\ 0 + k = k
        BY <1>2, <1>3
  <2>2. More(m, delta, ext, 0, k)
    <3> HIDE DEF k, delta, ext, cs
    <3> QED  BY <2>1, PartNext
  <2> DEFINE v == SubSeq(m.data, 0 + 1, 0 + k)
  <2>3. v \in Seq(Payloads) /\ Len(v) = k /\ After(bg, v) = Part(m, delta, ext, 0 + k)
        BY <2>2 DEF More
  <2>4. v = vals /\ Part(m, delta, ext, 0 + k) = p
        BY <2>1
  <2> HIDE DEF v, vals, k, p, bg, Payloads
  <2> QED  BY <2>3, <2>4
<1>11. bg.msgdataleft = N
  <2>1. bg.msgdataleft = N - 0
        BY PartFields
  <2> HIDE DEF bg
  <2> QED  BY <1>2, <2>1
<1>12. p.msgtypeid = m.type /\ (Full(p) => p.msgdata = m.data) /\ (k # N => ~Full(p))
  <2>1. p.msgtypeid = m.type /\ p.msgdataleft = N - k /\ p.msgdata = vals
        BY PartFields
  <2> HIDE DEF p, k
  <2>2. Full(p) => k = N
        BY <1>2, <1>3, <2>1 DEF Full
  <2>3. k = N => vals = m.data
    <3> HIDE DEF Payloads
    <3> QED  BY <1>2, FrontAll
  <2> QED  BY <2>1, <2>2, <2>3
<1>13. Began(cs, h, t) = bg
  <2> HIDE DEF cs, h, t, bg
  <2> QED  BY <1>6, <1>7 DEF Began
<1>14. g => t # 0
       BY <1>2, ChunkAssumption
<1>15. Full(p) /\ p.msgtypeid \in Controls => p.msgdata # <<>> /\ p.msgdata[1][1] # 0
       BY <1>12 DEF Sound
<1>16. Len(vals) = Portion(bg, S.max)
       BY <1>3, <1>10, <1>11 DEF Portion
<1> HIDE DEF h, bg, p, vals, k
<1>17. Fits(S, h, g, t, vals)
  <2>1. CsOf(S, h.csid) = cs
        BY <1>6
  <2> HIDE DEF cs, g, t
  <2> QED  BY <1>4, <1>6, <1>7, <1>10, <1>13, <1>14, <1>15, <1>16, <2>1 DEF Fits
<1>18. Taken(S, h, t, vals) = S1
       BY <1>6, <1>10, <1>13 DEF Taken
<1>19. Toks(h, g, t, vals) \in Seq(Tokens) /\ w = Toks(h, g, t, vals) \o w1 /\ w \in Seq(Tokens)
  <2> DEFINE hd == ChunkHead(h, g, t)  d == Data(vals)
  <2>1. g \in BOOLEAN
        OBVIOUS
  <2> HIDE DEF g, t, w, w1, Tokens, Payloads, Moment
  <2>2. hd \in Seq(Tokens)
        BY <1>2, <1>6, <2>1, HeadIs
  <2>3. d \in Seq(Tokens)
        BY <1>10, DataIs
  <2>4. w = hd \o (d \o w1)
        BY <1>6, <1>8
  <2> HIDE DEF hd, d
  <2>5. w = (hd \o d) \o w1 /\ hd \o d \in Seq(Tokens)
    <3>1. hd \o (d \o w1) = (hd \o d) \o w1
          BY <1>9, <2>2, <2>3, ConcatAssociative
    <3>2. hd \o d \in Seq(Tokens)
          BY <2>2, <2>3, ConcatProperties
    <3> QED  BY <2>4, <3>1, <3>2
  <2>6. (hd \o d) \o w1 \in Seq(Tokens)
        BY <1>9, <2>5, ConcatProperties
  <2> QED  BY <2>5, <2>6 DEF Toks, hd, d
<1>20. Link(S, w, S1, w1)
  <2>1. g \in BOOLEAN
        OBVIOUS
  <2> HIDE DEF w, w1, g, t, Tokens, Payloads, Moment, S1
  <2>2. Link(S, w, Taken(S, h, t, vals), w1)
        BY <1>2, <1>6, <1>10, <1>17, <1>19, <2>1, LinkIs
  <2> QED  BY <1>18, <2>2
<1>21. S1 \in States
  <2> HIDE DEF w, w1, S1, States
  <2> QED  BY <1>20, TakenIn
<1>22. T \in States
  <2>1. Full(q) /\ q.msgdata = m.data /\ q.msgtypeid = m.type
        BY PartDone
  <2>2. IsCs(q)
    <3>1. N \in 0..Len(m.data)
          BY <1>2
    <3> HIDE DEF N, delta, ext
    <3> QED  BY <1>5, <3>1, PartIs
  <2> HIDE DEF q
  <2>3. Full(q) /\ q.msgtypeid \in Controls => q.msgdata # <<>> /\ q.msgdata[1][1] # 0
        BY <2>1 DEF Sound
  <2>4. IsState(Landed(S, c, q))
        BY <1>1, <2>2, <2>3, LandedOK
  <2> QED  BY <2>4, StateIn
<1>23. Leads(S1, w1, T)
  <2>1. CASE k = N
    <3>1. N - k = 0
          BY <1>2, <2>1
    <3>2. w1 = <<>>
      <4>1. Loop(c, m, max)[0] = <<>>
            BY <1>2, LoopIs
      <4> QED  BY <3>1, <4>1
    <3>3. T = S1
          BY <2>1 DEF p
    <3> HIDE DEF T, S1, w1
    <3> QED  BY <3>2, <3>3, LeadsNone
  <2>2. CASE k # N
    <3> DEFINE left == N - k
    <3>1. left \in 1..N /\ N - left = k
          BY <1>2, <1>3, <2>2
    <3>2. S1.max = max /\ c \in DOMAIN S1.map /\ S1.map[c] = p
      <4>1. LandsIn(S, c, p, S1)
            BY LandedFields
      <4> HIDE DEF S1
      <4> QED  BY <1>3, <1>12, <2>2, <4>1 DEF LandsIn
    <3>3. S1.map[c] = Part(m, delta, ext, N - left)
          BY <3>1, <3>2 DEF p
    <3>4. Leads(S1, Loop(c, m, max)[left], Landed(S1, c, q))
      <4>1. \A l \in 1..N, Z \in States :
              /\ Z.max = max /\ c \in DOMAIN Z.map
              /\ Z.map[c] = Part(m, delta, ext, N - l)
              => Leads(Z, Loop(c, m, max)[l], Landed(Z, c, q))
        <5> HIDE DEF delta, ext
        <5> QED  BY <1>5, LoopLeads
      <4> HIDE DEF left, S1, q, States, N, delta, ext
      <4> QED  BY <1>21, <3>1, <3>2, <3>3, <4>1
    <3>5. Landed(S1, c, q) = T
      <4>1. TooBig(p) <=> TooBig(q)
            BY PartBig DEF p
      <4> HIDE DEF q
      <4> QED  BY <1>12, <2>2, <4>1, LandedTwice
    <3> QED  BY <3>4, <3>5
  <2> QED  BY <2>1, <2>2
<1>24. Leads(S, w, T)
  <2> HIDE DEF w, w1, S1, T, States, Tokens
  <2> QED  BY <1>9, <1>19, <1>20, <1>21, <1>23, LeadsStep
<1>25. Wrote(S, c, m, w, T)
  <2> HIDE DEF w, delta, ext, States, Tokens
  <2> QED  BY <1>19, <1>22, <1>24, WroteIs
<1> QED  BY <1>25

-----------------------------------------------------------------------------
(* The connection                                                          *)

\* The first message of ms over the limit is the one at cut; if that is 0, none is.
FirstLong(cut, ms) ==
    /\ cut \in 0..Len(ms) /\ (cut # 0 => TooLong(ms[cut]))
    /\ \A i \in 1..Len(ms) : TooLong(ms[i]) => cut # 0 /\ cut <= i

\* The reader goes on, or it has refused the message at cut.
Refuses(cut) == Fine \/ (err = "MsgDataTooBig" /\ cut = Len(out) + 1)

\* The wire leads the reader to T, which has seen all that was written; short of the
\* first message over the limit it does not stop.
Holds(T) ==
    /\ T \in States /\ Leads(Reader, wire, T) /\ Idle(T)
    /\ T.outs = sent /\ T.max = writeMaxChunkSize
    /\ DOMAIN T.map \subseteq Csids \union {2}
    /\ FirstLong(T.cut, sent) /\ Refuses(T.cut)

\* No message that was written is a part of an aggregate.
Whole == \A i \in 1..Len(sent) : sent[i].type = "Video" => sent[i].sid # 0

\* The inductive invariant: whatever is on the wire completes the messages sent.
StreamOK ==
    /\ ReaderOK /\ Whole /\ writeMaxChunkSize \in Sizes \union {ChunkSize}
    /\ \E T : Holds(T)

LEMMA CsidsFinite ==
    ASSUME NEW T, DOMAIN T.map \subseteq Csids \union {2}
    PROVE  IsFiniteSet(DOMAIN T.map) /\ ~(Cardinality(DOMAIN T.map) > MaxCsid)
<1> DEFINE D == DOMAIN T.map  C == Csids \union {2}
<1>1. IsFiniteSet(C) /\ Cardinality(C) <= MaxCsid
  <2>1. IsFiniteSet({2})
        BY FS_Singleton
  <2> QED  BY <2>1, StreamAssumption, FS_Union
<1> HIDE DEF D, C
<1>2. IsFiniteSet(D) /\ Cardinality(D) <= Cardinality(C)
      BY <1>1, FS_Subset DEF D, C
<1>3. Cardinality(D) \in Nat /\ Cardinality(C) \in Nat
      BY <1>1, <1>2, FS_CardinalityType
<1> DEFINE a == Cardinality(D)  b == Cardinality(C)
<1>4. a \in Nat /\ b \in Nat /\ MaxCsid \in Nat /\ a <= b /\ b <= MaxCsid
      BY <1>1, <1>2, <1>3, ChunkAssumption
<1> HIDE DEF a, b
<1>5. ~(a > MaxCsid)
      BY <1>4
<1> QED  BY <1>2, <1>5 DEF a, D

LEMMA StreamInit == Init => StreamOK
<1> SUFFICES ASSUME Init
             PROVE  StreamOK
    OBVIOUS
<1> DEFINE e == <<>>
<1>1. /\ wire = e /\ writeMaxChunkSize = ChunkSize /\ sent = e /\ ReaderInit
      BY DEF Init
<1>2. ReaderOK /\ Fine /\ Reader = State(e, ChunkSize, e, 0) /\ Reader \in States
      BY <1>1, ReaderStarts
<1>3. DOMAIN e = {} /\ Len(e) = 0
      OBVIOUS
<1> HIDE DEF e
<1>4. Whole
      BY <1>1, <1>3 DEF Whole
<1>5. Holds(Reader)
  <2>1. Leads(Reader, wire, Reader)
        BY <1>1, LeadsNone DEF e
  <2>2. Reader.map = e /\ Reader.max = ChunkSize /\ Reader.outs = e /\ Reader.cut = 0
        BY <1>2, StateFields
  <2>3. Idle(Reader)
        BY <1>3, <2>2 DEF Idle
  <2>4. DOMAIN Reader.map \subseteq Csids \union {2}
        BY <1>3, <2>2
  <2>5. FirstLong(Reader.cut, sent)
        BY <1>1, <1>3, <2>2 DEF FirstLong
  <2>6. Refuses(Reader.cut)
        BY <1>2 DEF Refuses
  <2> HIDE DEF States
  <2> QED  BY <1>1, <1>2, <2>1, <2>2, <2>3, <2>4, <2>5, <2>6 DEF Holds
<1> QED  BY <1>1, <1>2, <1>4, <1>5 DEF StreamOK

\* What the reader has come to know is the first of what was sent; and none of that
\* is an aggregate, so that there is none to unpack.
Knows(u) == u \in Seq(Messages) /\ sent = out \o u

LEMMA NoneToUnpack ==
    ASSUME StreamOK
    PROVE  aggmsg.parts = <<>> /\ Unpack(aggmsg) = <<>> /\ \E u : Knows(u)
<1>1. ReaderOK /\ Whole
      BY DEF StreamOK
<1>2. PICK T : Holds(T)
      BY DEF StreamOK
<1>3. Reader \in States
      BY <1>1, StateIn DEF ReaderOK
<1>4. wire \in Seq(Tokens) /\ out \in Seq(Messages) /\ IsAgg(aggmsg)
      BY <1>1 DEF ReaderOK
<1>5. T \in States /\ Leads(Reader, wire, T) /\ T.outs = sent
      BY <1>2 DEF Holds
<1> DEFINE p == Unpack(aggmsg)
<1>6. p \in Seq(Messages) /\ Len(p) = Len(aggmsg.parts)
      BY <1>4, UnpackOK
<1>7. Reader.outs = out \o p
  <2> DEFINE o == out \o p
  <2>1. Reader = State(readcsmap, ReadMaxChunkSize, o, 0)
        BY DEF Reader
  <2> HIDE DEF o
  <2>2. Reader.outs = o
        BY <2>1, StateFields
  <2> QED  BY <2>2 DEF o
<1>8. Grown(Reader, T)
  <2> HIDE DEF States, Tokens
  <2> QED  BY <1>3, <1>4, <1>5, LeadsGrows
<1>9. PICK u \in Seq(Messages) : sent = (out \o p) \o u
      BY <1>5, <1>7, <1>8 DEF Grown
<1>10. aggmsg.parts = <<>>
  <2> SUFFICES ASSUME aggmsg.parts # <<>>
               PROVE  FALSE
      OBVIOUS
  <2>1. aggmsg.parts \in Seq(Payloads)
        BY <1>4 DEF IsAgg
  <2>2. Len(aggmsg.parts) \in Nat /\ Len(aggmsg.parts) # 0
        BY <2>1, EmptySeq
  <2>3. Len(p) \in Nat /\ 1 \in 1..Len(p)
    <3> HIDE DEF p
    <3> QED  BY <1>6, <2>2
  <2>4. p[1].type = "Video" /\ p[1].sid = 0
    <3> DEFINE first == IF aggmsg.idx = 0 THEN aggmsg.parts[1][1] ELSE aggmsg.first
               i == 1
    <3>1. i \in 1..Len(aggmsg.parts)
          BY <2>2
    <3>2. p[i] = Message("Video", AggTime(aggmsg, first, aggmsg.parts[i][1]), 0, <<aggmsg.parts[i]>>)
      <4> HIDE DEF i
      <4> QED  BY <3>1 DEF Unpack
    <3> HIDE DEF p
    <3> QED  BY <3>2 DEF Message
  <2> DEFINE j == Len(out) + 1  op == out \o p
  <2> HIDE DEF p, Messages
  <2>5. Len(out) \in Nat
        BY <1>4, LenProperties
  <2>6. op \in Seq(Messages) /\ Len(op) = Len(out) + Len(p)
        /\ \A i \in 1..Len(out) + Len(p) : op[i] = IF i <= Len(out) THEN out[i] ELSE p[i - Len(out)]
        BY <1>4, <1>6, ConcatProperties
  <2>7. j \in 1..Len(out) + Len(p) /\ ~(j <= Len(out)) /\ j - Len(out) = 1
        BY <2>3, <2>5
  <2> HIDE DEF j, op
  <2>8. op[j] = p[1] /\ j \in 1..Len(op)
        BY <2>6, <2>7
  <2>9. Len(u) \in Nat /\ Len(op) \in Nat
        BY <2>6, LenProperties
  <2>10. Len(sent) = Len(op) + Len(u)
         /\ \A i \in 1..Len(op) + Len(u) : sent[i] = IF i <= Len(op) THEN op[i] ELSE u[i - Len(op)]
    <3>1. sent = op \o u
          BY <1>9 DEF op
    <3> QED  BY <2>6, <3>1, ConcatProperties
  <2>11. j \in 1..Len(op) + Len(u) /\ j <= Len(op)
         BY <2>8, <2>9
  <2>12. sent[j] = p[1] /\ j \in 1..Len(sent)
         BY <2>8, <2>10, <2>11
  <2> QED  BY <1>1, <2>4, <2>12 DEF Whole
<1>11. p = <<>>
       BY <1>10, UnpackNothing
<1>12. sent = out \o u
  <2>1. out \o <<>> = out
    <3> HIDE DEF Messages
    <3> QED  BY <1>4, ConcatEmptySeq
  <2> QED  BY <1>9, <1>11, <2>1
<1> QED  BY <1>10, <1>11, <1>12 DEF Knows

LEMMA FirstLongNext ==
    ASSUME NEW ms \in Seq(Messages), NEW m \in Messages, NEW cut, FirstLong(cut, ms),
           NEW cut2, cut2 = IF cut # 0 \/ ~TooLong(m) THEN cut ELSE Len(ms) + 1
    PROVE  FirstLong(cut2, Append(ms, m))
<1> DEFINE n == Len(ms)  ns == Append(ms, m)
<1> HIDE DEF Messages
<1>1. n \in Nat /\ Len(ns) = n + 1 /\ ns[n + 1] = m /\ \A i \in 1..n : ns[i] = ms[i]
      BY AppendProperties, LenProperties
<1>2. /\ cut \in 0..n /\ (cut # 0 => TooLong(ms[cut]))
      /\ \A i \in 1..n : TooLong(ms[i]) => cut # 0 /\ cut <= i
      BY DEF FirstLong
<1>3. cut2 = IF cut # 0 \/ ~TooLong(m) THEN cut ELSE n + 1
      OBVIOUS
<1> HIDE DEF n, ns
<1>4. cut2 \in 0..n + 1 /\ (cut2 # 0 => TooLong(ns[cut2]))
  <2>1. CASE cut # 0
    <3>1. cut \in 1..n /\ cut2 = cut
          BY <1>1, <1>2, <1>3, <2>1
    <3> QED  BY <1>1, <1>2, <2>1, <3>1
  <2>2. CASE cut = 0 /\ ~TooLong(m)
        BY <1>1, <1>3, <2>2
  <2>3. CASE cut = 0 /\ TooLong(m)
        BY <1>1, <1>3, <2>3
  <2> QED  BY <2>1, <2>2, <2>3
<1>5. ASSUME NEW i \in 1..n + 1, TooLong(ns[i])
      PROVE  cut2 # 0 /\ cut2 <= i
  <2>1. CASE i = n + 1
    <3>1. TooLong(m)
          BY <1>1, <1>5, <2>1
    <3> QED  BY <1>1, <1>2, <1>3, <2>1, <3>1
  <2>2. CASE i # n + 1
    <3>1. i \in 1..n
          BY <1>1, <2>2
    <3>2. TooLong(ms[i])
          BY <1>1, <1>5, <3>1
    <3>3. cut # 0 /\ cut <= i
          BY <1>2, <3>1, <3>2
    <3> QED  BY <1>3, <3>3
  <2> QED  BY <2>1, <2>2
<1>6. FirstLong(cut2, ns)
      BY <1>1, <1>4, <1>5 DEF FirstLong
<1> QED  BY <1>6 DEF ns

\* A message is written: the wire leads to the state that has seen it too.
LEMMA Writes ==
    ASSUME StreamOK, NEW c \in Csids \union {2}, NEW m, Sound(m), m.type = "Video" => m.sid # 0,
           NEW max \in Nat \ {0}, NEW taghdr \in 0..Len(m.data), taghdr <= max,
           max = writeMaxChunkSize \/ Len(m.data) <= 1,
           wire' = wire \o Chunks(c, m, max, taghdr), sent' = Append(sent, m),
           writeMaxChunkSize' \in Sizes \union {ChunkSize},
           writeMaxChunkSize' = IF m.type = "SetChunkSize" THEN m.data[1][1] ELSE writeMaxChunkSize,
           UNCHANGED readervars
    PROVE  StreamOK'
<1> DEFINE w == Chunks(c, m, max, taghdr)
<1>1. ReaderOK /\ Whole
      BY DEF StreamOK
<1>2. PICK T : Holds(T)
      BY DEF StreamOK
<1>3. /\ T \in States /\ Leads(Reader, wire, T) /\ Idle(T) /\ T.outs = sent
      /\ T.max = writeMaxChunkSize /\ DOMAIN T.map \subseteq Csids \union {2}
      /\ FirstLong(T.cut, sent) /\ Refuses(T.cut)
      BY <1>2 DEF Holds
<1>4. c \in Nat /\ c \in Csids \union {2}
      BY StreamAssumption
<1>5. PICK T2 : Wrote(T, c, m, w, T2)
  <2>1. T.max = max \/ Len(m.data) <= 1
        BY <1>3
  <2> HIDE DEF States
  <2> QED  BY <1>3, <1>4, <2>1, WriteLeads
<1> HIDE DEF w
<1>6. /\ T2 \in States /\ w \in Seq(Tokens) /\ Leads(T, w, T2) /\ Idle(T2)
      /\ T2.outs = Append(T.outs, m) /\ DOMAIN T2.map = DOMAIN T.map \union {c}
      /\ T2.max = (IF m.type = "SetChunkSize" THEN m.data[1][1] ELSE T.max)
      /\ T2.cut = IF T.cut # 0 \/ ~TooLong(m) THEN T.cut ELSE Len(T.outs) + 1
      BY <1>5 DEF Wrote
<1>7. wire \in Seq(Tokens) /\ Reader \in States
      BY <1>1, StateIn DEF ReaderOK
<1>8. Leads(Reader, wire \o w, T2) /\ wire \o w \in Seq(Tokens)
  <2> HIDE DEF States, Tokens
  <2>1. Leads(Reader, wire \o w, T2)
        BY <1>3, <1>6, <1>7, LeadsJoin
  <2>2. wire \o w \in Seq(Tokens)
        BY <1>6, <1>7, ConcatProperties
  <2> QED  BY <2>1, <2>2
<1>9. wire' = wire \o w
      BY DEF w
<1>10. ReaderOK' /\ Reader' = Reader /\ (Fine' <=> Fine)
  <2>1. wire' \in Seq(Tokens)
        BY <1>8, <1>9
  <2> HIDE DEF Tokens
  <2> QED  BY <1>1, <2>1, ReaderRests
<1>12. Leads(Reader', wire', T2)
       BY <1>8, <1>9, <1>10
<1>15. FirstLong(T2.cut, sent')
  <2>1. sent \in Seq(Messages) /\ m \in Messages
        BY <1>3, StateOf DEF IsState, Sound
  <2> HIDE DEF Messages
  <2> QED  BY <1>3, <1>6, <2>1, FirstLongNext
<1>16. Refuses(T2.cut)'
  <2>1. out' = out /\ err' = err
        BY DEF readervars
  <2>2. T.cut # 0 => T2.cut = T.cut
        BY <1>6
  <2>3. T.cut = Len(out) + 1 => T.cut # 0
    <3>1. Len(out) \in Nat
          BY <1>1, LenProperties DEF ReaderOK
    <3> QED  BY <3>1
  <2> QED  BY <1>3, <2>1, <2>2, <2>3 DEF Refuses, Fine
<1>13. Holds(T2)'
  <2>1. T2.outs = sent' /\ T2.max = writeMaxChunkSize' /\ DOMAIN T2.map \subseteq Csids \union {2}
        BY <1>3, <1>4, <1>6
  <2> HIDE DEF States
  <2> QED  BY <1>6, <1>12, <1>15, <1>16, <2>1 DEF Holds
<1>14. Whole'
  <2>1. sent \in Seq(Messages) /\ m \in Messages
        BY <1>3, StateOf DEF IsState, Sound
  <2>2. /\ Len(sent) \in Nat /\ Len(sent') = Len(sent) + 1 /\ sent'[Len(sent) + 1] = m
        /\ \A i \in 1..Len(sent) : sent'[i] = sent[i]
    <3> HIDE DEF Messages
    <3>1. Len(sent) \in Nat
          BY <2>1, LenProperties
    <3> QED  BY <2>1, <3>1, AppendProperties
  <2> SUFFICES ASSUME NEW i \in 1..Len(sent')
               PROVE  sent'[i].type = "Video" => sent'[i].sid # 0
      BY DEF Whole
  <2>3. i \in 1..Len(sent) \/ i = Len(sent) + 1
        BY <2>2
  <2> QED  BY <1>1, <2>2, <2>3 DEF Whole
<1> QED  BY <1>10, <1>13, <1>14 DEF StreamOK

LEMMA ContentIs ==
    ASSUME NEW n \in Nat, NEW len \in Nat
    PROVE  Content(n, len) \in Seq(Payloads) /\ Len(Content(n, len)) = len
<1> DEFINE d == Content(n, len)
<1>1. \A i \in 1..len : <<n, i>> \in Payloads
      BY DEF Payloads
<1>2. d = [i \in 1..len |-> <<n, i>>]
      BY DEF Content
<1> HIDE DEF d
<1>3. d \in [1..len -> Payloads]
      BY <1>1, <1>2
<1> HIDE DEF Payloads
<1> QED  BY <1>3 DEF d

LEMMA WriteMsgTurn ==
    ASSUME StreamOK, NEW c \in Csids, NEW ts \in Times, NEW len \in Lens, NEW h \in TagHdrs,
           WriteMsg(c, ts, len, h)
    PROVE  StreamOK'
<1> DEFINE y == "Video"  d == Content(Len(sent) + 1, len)  m == Message(y, ts, 1, d)
<1>1. PICK T : Holds(T)
      BY DEF StreamOK
<1>2. Len(sent) + 1 \in Nat
  <2>1. sent \in Seq(Messages)
        BY <1>1, StateOf DEF Holds, IsState
  <2>2. Len(sent) \in Nat
        BY <2>1, LenProperties
  <2> QED  BY <2>2
<1>3. d \in Seq(Payloads) /\ Len(d) = len /\ len \in Nat
  <2>1. len \in Nat
        BY StreamAssumption
  <2> DEFINE n == Len(sent) + 1
  <2> HIDE DEF n, Payloads
  <2> QED  BY <1>2, <2>1, ContentIs DEF n
<1>4. /\ h <= len /\ wire' = wire \o Chunks(c, m, writeMaxChunkSize, h)
      /\ sent' = Append(sent, m) /\ UNCHANGED <<writeMaxChunkSize, readervars>>
      BY DEF WriteMsg
<1> HIDE DEF d
<1>5. m.type = y /\ m.time = ts /\ m.sid = 1 /\ m.data = d
  <2> DEFINE o == 1
  <2>1. m = Message(y, ts, o, d)
        OBVIOUS
  <2> HIDE DEF m, y, o
  <2>2. m.type = y /\ m.time = ts /\ m.sid = o /\ m.data = d
        BY <2>1 DEF Message
  <2> QED  BY <2>2 DEF o
<1>6. ts \in Moment /\ ts \in Nat
      BY StreamAssumption, ChunkAssumption DEF Moment
<1>7. Sound(m)
  <2>1. m \in Messages
    <3> DEFINE o == 1
    <3>1. y \in Kinds /\ o \in Nat
          BY DEF Kinds
    <3> HIDE DEF y, o, Kinds, Payloads
    <3>2. Message(y, ts, o, d) \in Messages
          BY <1>3, <1>6, <3>1, MessageIn
    <3> QED  BY <3>2 DEF o
  <2> HIDE DEF m
  <2>2. m.type # "Aggregate" /\ m.type \notin Controls
        BY <1>5 DEF Controls
  <2> QED  BY <1>5, <1>6, <2>1, <2>2 DEF Sound
<1>8. /\ writeMaxChunkSize \in Nat \ {0} /\ h \in Nat /\ h <= writeMaxChunkSize
      /\ writeMaxChunkSize \in Sizes \union {ChunkSize}
  <2>1. writeMaxChunkSize \in Sizes \union {ChunkSize}
        BY DEF StreamOK
  <2> QED  BY <2>1, StreamAssumption, ChunkAssumption
<1> HIDE DEF m
<1>9. h \in 0..Len(m.data)
      BY <1>3, <1>4, <1>5, <1>8
<1>10. m.type # "SetChunkSize" /\ m.sid # 0 /\ writeMaxChunkSize' = writeMaxChunkSize
       BY <1>4, <1>5
<1> DEFINE max == writeMaxChunkSize
<1>11. max = writeMaxChunkSize /\ wire' = wire \o Chunks(c, m, max, h) /\ c \in Csids \union {2}
       BY <1>4
<1>12. max \in Nat \ {0} /\ h <= max
       BY <1>8
<1>13. UNCHANGED readervars
       BY <1>4
<1> HIDE DEF max
<1> QED  BY <1>4, <1>7, <1>8, <1>9, <1>10, <1>11, <1>12, <1>13, Writes

LEMMA SetSizeTurn ==
    ASSUME StreamOK, NEW size \in Sizes, SetAndWriteChunkSize(size)
    PROVE  StreamOK'
<1> DEFINE y == "SetChunkSize"  o == 0  d == <<<<size, 0>>>>  m == Message(y, o, o, d)
<1>1. m = Event(y, size)
      BY DEF Event
<1>2. /\ writeMaxChunkSize' = size /\ wire' = wire \o Chunks(2, m, size, 0)
      /\ sent' = Append(sent, m) /\ UNCHANGED readervars
      BY <1>1 DEF SetAndWriteChunkSize
<1>3. d \in Seq(Payloads) /\ Len(d) = 1 /\ d # <<>> /\ d[1][1] = size
  <2> DEFINE p == <<size, 0>>
  <2>1. p \in Payloads /\ p[1] = size
        BY StreamAssumption DEF Payloads
  <2> HIDE DEF p, Payloads
  <2>2. <<p>> \in Seq(Payloads) /\ Len(<<p>>) = 1 /\ <<p>> # <<>> /\ <<p>>[1] = p
        BY <2>1
  <2> QED  BY <2>1, <2>2 DEF p
<1>4. size \in Nat \ {0} /\ o \in Moment /\ o \in Nat
      BY StreamAssumption, ChunkAssumption DEF Moment
<1> HIDE DEF d
<1>5. m.type = y /\ m.time = o /\ m.sid = o /\ m.data = d
  <2> HIDE DEF y, o
  <2> QED  BY DEF Message
<1>6. Sound(m)
  <2>1. m \in Messages
    <3>1. y \in Kinds
          BY DEF Kinds
    <3> HIDE DEF y, o, Kinds, Payloads
    <3> QED  BY <1>3, <1>4, <3>1, MessageIn
  <2> HIDE DEF m, o
  <2>2. m.type # "Aggregate"
        BY <1>5
  <2> QED  BY <1>3, <1>4, <1>5, <2>1, <2>2 DEF Sound
<1> HIDE DEF m
<1>7. /\ m.type = "SetChunkSize" /\ m.type # "Video" /\ m.data[1][1] = size
      /\ Len(m.data) <= 1 /\ 0 \in 0..Len(m.data) /\ 0 <= size /\ 2 \in Csids \union {2}
  <2>1. m.type = "SetChunkSize" /\ m.type # "Video"
        BY <1>5
  <2>2. m.data[1][1] = size /\ Len(m.data) = 1
        BY <1>3, <1>5
  <2>3. 0 <= size
        BY <1>4
  <2> HIDE DEF y
  <2> QED  BY <2>1, <2>2, <2>3
<1>8. size \in Sizes \union {ChunkSize}
      OBVIOUS
<1> QED  BY <1>2, <1>4, <1>6, <1>7, <1>8, Writes

LEMMA ReadTurn ==
    ASSUME StreamOK, Read
    PROVE  StreamOK'
<1>1. ReaderOK /\ Whole /\ writeMaxChunkSize \in Sizes \union {ChunkSize}
      BY DEF StreamOK
<1>2. PICK T : Holds(T)
      BY DEF StreamOK
<1>3. /\ T \in States /\ Leads(Reader, wire, T) /\ Idle(T) /\ T.outs = sent
      /\ T.max = writeMaxChunkSize /\ DOMAIN T.map \subseteq Csids \union {2}
      /\ FirstLong(T.cut, sent) /\ Refuses(T.cut)
      BY <1>2 DEF Holds
<1>4. ReaderNext /\ writeMaxChunkSize' = writeMaxChunkSize /\ sent' = sent
      BY DEF Read
<1>5. aggmsg.parts = <<>>
      BY NoneToUnpack
<1>6. wire # <<>> /\ Fine
      BY <1>4, <1>5 DEF ReaderNext, ReaderStep, ReadChunkError, ReadChunk0, ReadChunk12, ReadChunk3New,
                       ReadChunk3More, NextAggPart, Chunk, Fine
<1> DEFINE e == <<>>
<1>7. wire \in Seq(Tokens) /\ e \in Seq(Tokens) /\ wire \o e = wire
  <2>1. wire \in Seq(Tokens)
        BY <1>1 DEF ReaderOK
  <2> HIDE DEF Tokens
  <2> QED  BY <2>1, EmptySeq, ConcatEmptySeq
<1>8. IsFiniteSet(DOMAIN T.map) /\ ~(Cardinality(DOMAIN T.map) > MaxCsid)
      BY <1>3, CsidsFinite
<1> HIDE DEF e
<1>9. \/ Fail("MsgDataTooBig") /\ T.cut = Len(out) + 1
      \/ ReaderOK' /\ Fine' /\ \E f \in Seq(Tokens) : wire' = f \o e /\ Leads(Reader', f, T)
  <2> DEFINE front == wire
  <2>1. front \in Seq(Tokens) /\ wire = front \o e /\ front # <<>> /\ Leads(Reader, front, T)
        BY <1>3, <1>6, <1>7
  <2> HIDE DEF front, States, Tokens
  <2>2. \/ Fail("TooManyCsid") /\ Cardinality(DOMAIN T.map) > MaxCsid
        \/ Fail("MsgDataTooBig") /\ T.cut = Len(out) + 1
        \/ /\ ReaderOK' /\ Fine' /\ DOMAIN readcsmap' \subseteq DOMAIN T.map
           /\ \E f \in Seq(Tokens) : wire' = f \o e /\ Leads(Reader', f, T)
        BY <1>1, <1>3, <1>4, <1>5, <1>6, <1>7, <1>8, <2>1, ChunkTurn
  <2> QED  BY <1>8, <2>2
<1>10. ReaderOK' /\ Leads(Reader', wire', T) /\ Refuses(T.cut)'
  <2>1. CASE Fail("MsgDataTooBig") /\ T.cut = Len(out) + 1
    <3>1. /\ wire' = wire /\ readcsmap' = readcsmap /\ out' = out /\ aggmsg' = aggmsg
          /\ readAckSize' = readAckSize /\ ackn' = ackn /\ lastackn' = lastackn
          /\ ReadMaxChunkSize' = ReadMaxChunkSize /\ err' = "MsgDataTooBig"
          BY <2>1 DEF Fail
    <3>2. ReaderOK' /\ Reader' = Reader
      <4>1. wire' \in Seq(Tokens)
            BY <1>7, <3>1
      <4> HIDE DEF Tokens
      <4> QED  BY <1>1, <3>1, <4>1, ReaderSame
    <3> HIDE DEF States
    <3> QED  BY <1>3, <2>1, <3>1, <3>2 DEF Refuses
  <2>2. CASE ReaderOK' /\ Fine' /\ \E f \in Seq(Tokens) : wire' = f \o e /\ Leads(Reader', f, T)
    <3>1. PICK f \in Seq(Tokens) : wire' = f \o e /\ Leads(Reader', f, T)
          BY <2>2
    <3>2. wire' = f
      <4>1. f \o <<>> = f
        <5> HIDE DEF Tokens
        <5> QED  BY ConcatEmptySeq
      <4> QED  BY <3>1, <4>1 DEF e
    <3>3. Refuses(T.cut)'
          BY <2>2 DEF Refuses
    <3> QED  BY <2>2, <3>1, <3>2, <3>3
  <2> QED  BY <1>9, <2>1, <2>2
<1>13. Holds(T)'
  <2> HIDE DEF States
  <2> QED  BY <1>3, <1>4, <1>10 DEF Holds
<1>14. Whole'
       BY <1>1, <1>4 DEF Whole
<1> QED  BY <1>1, <1>4, <1>10, <1>13, <1>14 DEF StreamOK

LEMMA RestTurn ==
    ASSUME StreamOK, UNCHANGED vars
    PROVE  StreamOK'
<1>1. /\ wire' = wire /\ writeMaxChunkSize' = writeMaxChunkSize /\ sent' = sent
      /\ UNCHANGED readervars
      BY DEF vars
<1>2. PICK T : Holds(T)
      BY DEF StreamOK
<1>3. ReaderOK /\ Whole /\ writeMaxChunkSize \in Sizes \union {ChunkSize}
      BY DEF StreamOK
<1>4. ReaderOK' /\ Reader' = Reader /\ (Fine' <=> Fine)
  <2>1. wire' \in Seq(Tokens)
        BY <1>1, <1>3 DEF ReaderOK
  <2> HIDE DEF Tokens
  <2> QED  BY <1>1, <1>3, <2>1, ReaderRests
<1>5. Holds(T)'
  <2>1. Leads(Reader', wire', T)
        BY <1>1, <1>2, <1>4 DEF Holds
  <2>2. Refuses(T.cut)'
        BY <1>1, <1>2 DEF Holds, Refuses, Fine, readervars
  <2> HIDE DEF States
  <2> QED  BY <1>1, <1>2, <2>1, <2>2 DEF Holds
<1>6. Whole'
      BY <1>1, <1>3 DEF Whole
<1> QED  BY <1>1, <1>3, <1>4, <1>5, <1>6 DEF StreamOK

\* The inductive invariant: the chunks on the wire are ones that the reader
\* understands in the state it is in, and reading them completes exactly the messages
\* that were written.
THEOREM StreamInvariant == Spec => []StreamOK
<1>1. StreamOK /\ [Next]_vars => StreamOK'
  <2> SUFFICES ASSUME StreamOK, [Next]_vars
               PROVE  StreamOK'
      OBVIOUS
  <2>1. ASSUME NEW c \in Csids, NEW ts \in Times, NEW len \in Lens, NEW h \in TagHdrs,
               WriteMsg(c, ts, len, h)
        PROVE  StreamOK'
        BY <2>1, WriteMsgTurn
  <2>2. ASSUME NEW size \in Sizes, SetAndWriteChunkSize(size)
        PROVE  StreamOK'
        BY <2>2, SetSizeTurn
  <2>3. CASE Read
        BY <2>3, ReadTurn
  <2>4. CASE UNCHANGED vars
        BY <2>4, RestTurn
  <2>5. CASE Finished
        BY <2>5, RestTurn DEF Finished
  <2> QED  BY <2>1, <2>2, <2>3, <2>4, <2>5 DEF Next, WriterStep
<1> QED  BY <1>1, StreamInit, PTL DEF Spec

\* TypeOK: the reader's buffers have their fill, at both ends of the connection, after
\* any number of messages and changes of the chunk size.
THEOREM StreamTypes == Spec => []TypeOK
<1>1. StreamOK => TypeOK
      BY OKImplies DEF StreamOK, TypeOK
<1> QED  BY <1>1, StreamInvariant, PTL

\* InStep: readChunk takes what writeMsg2 and setAndWriteChunkSize wrote for chunks,
\* whatever the sizes, timestamps and chunk streams, and returns an error for the first
\* message that is over message.Start's limit and for nothing else.
THEOREM ReaderInStep == Spec => []InStep
<1>1. StreamOK => InStep
  <2> SUFFICES ASSUME StreamOK
               PROVE  InStep
      OBVIOUS
  <2>1. ReaderOK
        BY DEF StreamOK
  <2>2. PICK T : Holds(T)
        BY DEF StreamOK
  <2>3. wire \in Seq(Tokens) /\ Reader \in States /\ T \in States /\ Leads(Reader, wire, T)
        BY <2>1, <2>2, StateIn DEF ReaderOK, Holds
  <2>4. ASSUME wire # <<>>
        PROVE  wire[1].k = "hdr"
    <3> HIDE DEF States, Tokens
    <3>1. PICK S1 \in States, w1 \in Seq(Tokens) : Link(Reader, wire, S1, w1)
          BY <2>3, <2>4, LeadsFirst
    <3> DEFINE R == Reader  w == wire
    <3>2. Link(R, w, S1, w1)
          BY <3>1
    <3> HIDE DEF R, w
    <3>3. w[1].k = "hdr"
          BY <3>2, LinkFirst
    <3> QED  BY <3>3 DEF w
  <2>5. FirstLong(T.cut, sent) /\ Refuses(T.cut) /\ Len(out) \in Nat /\ Len(sent) \in Nat
    <3>1. sent \in Seq(Messages) /\ out \in Seq(Messages)
          BY <2>1, <2>2, StateOf DEF Holds, IsState, ReaderOK
    <3> QED  BY <2>2, <3>1, LenProperties DEF Holds
  <2>6. ASSUME err # ""
        PROVE  err = "MsgDataTooBig" /\ Len(out) < Len(sent) /\ TooLong(sent[Len(out) + 1])
    <3>1. err = "MsgDataTooBig" /\ T.cut = Len(out) + 1
          BY <2>5, <2>6 DEF Refuses, Fine
    <3>2. T.cut \in 0..Len(sent) /\ T.cut # 0 /\ TooLong(sent[T.cut])
          BY <2>5, <3>1 DEF FirstLong
    <3> QED  BY <2>5, <3>1, <3>2
  <2>7. \A i \in 1..Len(out) : ~TooLong(sent[i])
    <3>1. PICK u : Knows(u)
          BY NoneToUnpack
    <3>2. Unpack(aggmsg) = <<>>
          BY NoneToUnpack
    <3>3. Len(out) <= Len(sent)
      <4>1. out \in Seq(Messages) /\ u \in Seq(Messages) /\ sent = out \o u
            BY <2>1, <3>1 DEF ReaderOK, Knows
      <4> HIDE DEF Messages
      <4>2. Len(sent) = Len(out) + Len(u) /\ Len(u) \in Nat
            BY <4>1, ConcatProperties, LenProperties
      <4> QED  BY <2>5, <4>2
    <3>4. T.cut = 0 \/ T.cut > Len(out)
      <4>1. Cuts(Reader, T)
        <5> HIDE DEF States, Tokens
        <5> QED  BY <2>3, LeadsGrows DEF Grown
      <4>2. Reader.cut = 0 /\ Reader.outs = out
        <5>1. out \o <<>> = out
          <6>1. out \in Seq(Messages)
                BY <2>1 DEF ReaderOK
          <6> HIDE DEF Messages
          <6> QED  BY <6>1, ConcatEmptySeq
        <5> QED  BY <3>2, <5>1, StateFields DEF Reader
      <4> QED  BY <4>1, <4>2 DEF Cuts
    <3> SUFFICES ASSUME NEW i \in 1..Len(out), TooLong(sent[i])
                 PROVE  FALSE
        OBVIOUS
    <3>5. i \in 1..Len(sent)
          BY <2>5, <3>3
    <3>6. T.cut # 0 /\ T.cut <= i /\ T.cut \in 0..Len(sent)
          BY <2>5, <3>5 DEF FirstLong
    <3> QED  BY <2>5, <3>4, <3>6
  <2> QED  BY <2>4, <2>6, <2>7 DEF InStep, AtHeader
<1> QED  BY <1>1, StreamInvariant, PTL

\* Reassembled: the messages that come out of readMsg are the first of those that went
\* into writeMsg, in order and with their type, time, stream and payload.
THEOREM MessagesReassembled == Spec => []Reassembled
<1>1. StreamOK => Reassembled
  <2> SUFFICES ASSUME StreamOK
               PROVE  Reassembled
      OBVIOUS
  <2>1. PICK u : Knows(u)
        BY NoneToUnpack
  <2>2. out \in Seq(Messages) /\ u \in Seq(Messages) /\ sent = out \o u
        BY <2>1 DEF StreamOK, ReaderOK, Knows
  <2> HIDE DEF Messages
  <2>3. IsPrefix(out, out \o u)
        BY <2>2, PrefixConcat
  <2> QED  BY <2>2, <2>3 DEF Reassembled
<1> QED  BY <1>1, StreamInvariant, PTL

\* Complete: a reader that has emptied the wire without an error has seen every message
\* that was written.
THEOREM NothingMissing == Spec => []Complete
<1>1. StreamOK => Complete
  <2> SUFFICES ASSUME StreamOK, wire = <<>>
               PROVE  out = sent
      BY DEF Complete
  <2>1. PICK T : Holds(T)
        BY DEF StreamOK
  <2>2. Reader \in States /\ T \in States /\ Leads(Reader, <<>>, T) /\ T.outs = sent
        BY <2>1, StateIn DEF StreamOK, ReaderOK, Holds
  <2>3. Reader = T
    <3> HIDE DEF States
    <3> QED  BY <2>2, LeadsNowhere
  <2>4. Unpack(aggmsg) = <<>> /\ out \in Seq(Messages)
        BY NoneToUnpack DEF StreamOK, ReaderOK
  <2>5. Reader.outs = out \o <<>>
        BY <2>4, StateFields DEF Reader
  <2>6. out \o <<>> = out
    <3> HIDE DEF Messages
    <3> QED  BY <2>4, ConcatEmptySeq
  <2> QED  BY <2>2, <2>3, <2>5, <2>6
<1> QED  BY <1>1, StreamInvariant, PTL
=============================================================================
