------------------------- MODULE ChunkReaderProofs -------------------------
(***************************************************************************)
(* Lemmas on what the reader of chunks makes of a wire, whoever writes it. *)
(*                                                                         *)
(* A reader is in a state (what it knows of the chunk streams, the size of *)
(* chunks, the messages it has come to know).  A chunk fits a state if the *)
(* reader understands it there; then it leads to the next state (Link),    *)
(* and a wire of such chunks to a last one (Leads).  Leads is an invariant *)
(* of reading (ChunkTurn) and composes with what is written behind         *)
(* (LeadsJoin).  It is not said by recursion over the wire: Leads is the   *)
(* least relation that is closed under its chunks.                         *)
(***************************************************************************)
EXTENDS ChunkReader, FiniteSetTheorems, SeqFacts

-----------------------------------------------------------------------------
(* Records                                                                 *)

\* A token, a chunk stream, field by field.
Tok(k, fmt, csid, ts, len, type, sid, val) ==
    [k |-> k, fmt |-> fmt, csid |-> csid, ts |-> ts, len |-> len, type |-> type, sid |-> sid,
     val |-> val]
Rec(ht, now, delta, has, ext, sid, type, len, left, data) ==
    [msghdrtype |-> ht, timenow |-> now, timedelta |-> delta, hastimeext |-> has, timeext |-> ext,
     msgsid |-> sid, msgtypeid |-> type, msgdatalen |-> len, msgdataleft |-> left, msgdata |-> data]

LEMMA TokFields ==
    ASSUME NEW k, NEW fmt, NEW csid, NEW ts, NEW len, NEW type, NEW sid, NEW val
    PROVE  LET t == Tok(k, fmt, csid, ts, len, type, sid, val)
           IN  /\ t.k = k /\ t.fmt = fmt /\ t.csid = csid /\ t.ts = ts /\ t.len = len
               /\ t.type = type /\ t.sid = sid /\ t.val = val
BY DEF Tok

LEMMA TokenIs == ASSUME NEW k PROVE Token(k) = Tok(k, 0, 0, 0, 0, "", 0, <<0, 0>>)
BY DEF Token, Tok

LEMMA ExtTokenIs == ASSUME NEW ts PROVE ExtToken(ts) = Tok("ext", 0, 0, ts, 0, "", 0, <<0, 0>>)
<1> DEFINE k == "ext"  o == 0  e == ""  z == <<0, 0>>  t == Token(k)
<1>1. t = Tok(k, o, o, o, o, e, o, z)
      BY TokenIs
<1> HIDE DEF k, o, e, z, t
<1>2. [t EXCEPT !.ts = ts] = Tok(k, o, o, ts, o, e, o, z)
      BY <1>1 DEF Tok
<1> QED  BY <1>2 DEF ExtToken, k, o, e, z, t

LEMMA DataTokenIs == ASSUME NEW v PROVE DataToken(v) = Tok("data", 0, 0, 0, 0, "", 0, v)
<1> DEFINE k == "data"  o == 0  e == ""  z == <<0, 0>>  t == Token(k)
<1>1. t = Tok(k, o, o, o, o, e, o, z)
      BY TokenIs
<1> HIDE DEF k, o, e, z, t
<1>2. [t EXCEPT !.val = v] = Tok(k, o, o, o, o, e, o, v)
      BY <1>1 DEF Tok
<1> QED  BY <1>2 DEF DataToken, k, o, e, z, t

LEMMA HdrTokenIs ==
    ASSUME NEW fmt, NEW csid, NEW ts, NEW len, NEW type, NEW sid
    PROVE  HdrToken(fmt, csid, ts, len, type, sid) = Tok("hdr", fmt, csid, ts, len, type, sid, <<0, 0>>)
<1> DEFINE k  == "hdr"  o == 0  e == ""  z == <<0, 0>>
           t0 == Token(k)
           t1 == [t0 EXCEPT !.fmt = fmt]
           t2 == [t1 EXCEPT !.csid = csid]
           t3 == [t2 EXCEPT !.ts = ts]
           t4 == [t3 EXCEPT !.len = len]
           t5 == [t4 EXCEPT !.type = type]
           t6 == [t5 EXCEPT !.sid = sid]
<1>1. HdrToken(fmt, csid, ts, len, type, sid) = t6
      BY Zenon DEF HdrToken
<1>2. t0 = Tok(k, o, o, o, o, e, o, z)
      BY TokenIs
<1> HIDE DEF k, o, e, z, t0
<1>3. t1 = Tok(k, fmt, o, o, o, e, o, z)
      BY <1>2 DEF Tok
<1> HIDE DEF t1
<1>4. t2 = Tok(k, fmt, csid, o, o, e, o, z)
      BY <1>3 DEF Tok
<1> HIDE DEF t2
<1>5. t3 = Tok(k, fmt, csid, ts, o, e, o, z)
      BY <1>4 DEF Tok
<1> HIDE DEF t3
<1>6. t4 = Tok(k, fmt, csid, ts, len, e, o, z)
      BY <1>5 DEF Tok
<1> HIDE DEF t4
<1>7. t5 = Tok(k, fmt, csid, ts, len, type, o, z)
      BY <1>6 DEF Tok
<1> HIDE DEF t5
<1>8. t6 = Tok(k, fmt, csid, ts, len, type, sid, z)
      BY <1>7 DEF Tok
<1> HIDE DEF t6
<1> QED  BY <1>1, <1>8 DEF k, z

LEMMA RecFields ==
    ASSUME NEW ht, NEW now, NEW delta, NEW has, NEW ext, NEW sid, NEW type, NEW len, NEW left, NEW data
    PROVE  LET r == Rec(ht, now, delta, has, ext, sid, type, len, left, data)
           IN  /\ r.msghdrtype = ht /\ r.timenow = now /\ r.timedelta = delta /\ r.hastimeext = has
               /\ r.timeext = ext /\ r.msgsid = sid /\ r.msgtypeid = type /\ r.msgdatalen = len
               /\ r.msgdataleft = left /\ r.msgdata = data
BY DEF Rec

-----------------------------------------------------------------------------
(* What a chunk makes of its chunk stream                                  *)

\* A header of type 0; of type 1 or 2; of type 3 that starts a message.
Header0(cs, h, ts) ==
    [cs EXCEPT !.msghdrtype = 0, !.msgdatalen = h.len, !.msgtypeid = h.type, !.msgsid = h.sid,
               !.hastimeext = HasExt(h), !.timeext = IF HasExt(h) THEN ts ELSE @, !.timenow = ts]
Header12(cs, h, ts) ==
    [cs EXCEPT !.msghdrtype = h.fmt, !.msgdatalen = IF h.fmt = 1 THEN h.len ELSE @,
               !.msgtypeid = IF h.fmt = 1 THEN h.type ELSE @, !.hastimeext = HasExt(h),
               !.timeext = IF HasExt(h) THEN ts ELSE @, !.timedelta = ts,
               !.timenow = (@ + ts) % TimeMod]
Header3(cs, ts) ==
    IF cs.msghdrtype = 0
    THEN IF cs.hastimeext THEN [cs EXCEPT !.timenow = ts, !.timeext = ts] ELSE cs
    ELSE [cs EXCEPT !.timenow = (@ + ts) % TimeMod]

LEMMA StartIs ==
    ASSUME NEW ht, NEW now, NEW delta, NEW has, NEW ext, NEW sid, NEW type, NEW len, NEW left, NEW data,
           NEW cs, cs = Rec(ht, now, delta, has, ext, sid, type, len, left, data)
    PROVE  Start(cs) = Rec(ht, now, delta, has, ext, sid, type, len, len, <<>>)
<1> DEFINE e  == <<>>
           r1 == [cs EXCEPT !.msgdataleft = len]
           r2 == [r1 EXCEPT !.msgdata = e]
<1>1. cs.msgdatalen = len
      BY RecFields
<1>2. Start(cs) = r2
      BY <1>1, Zenon DEF Start
<1>3. r1 = Rec(ht, now, delta, has, ext, sid, type, len, len, data)
      BY DEF Rec
<1> HIDE DEF r1, e
<1>4. r2 = Rec(ht, now, delta, has, ext, sid, type, len, len, e)
      BY <1>3 DEF Rec
<1> HIDE DEF r2
<1> QED  BY <1>2, <1>4 DEF e

LEMMA Header0Is ==
    ASSUME NEW ht, NEW now, NEW delta, NEW has, NEW ext, NEW sid, NEW type, NEW len, NEW left, NEW data,
           NEW cs, cs = Rec(ht, now, delta, has, ext, sid, type, len, left, data),
           NEW h, NEW ts
    PROVE  Header0(cs, h, ts)
                = Rec(0, ts, delta, HasExt(h), IF HasExt(h) THEN ts ELSE ext, h.sid, h.type, h.len, left,
                      data)
<1> DEFINE o  == 0  b == HasExt(h)  s == h.sid  y == h.type  l == h.len
           x  == IF b THEN ts ELSE ext
           r1 == [cs EXCEPT !.msghdrtype = o]
           r2 == [r1 EXCEPT !.msgdatalen = l]
           r3 == [r2 EXCEPT !.msgtypeid = y]
           r4 == [r3 EXCEPT !.msgsid = s]
           r5 == [r4 EXCEPT !.hastimeext = b]
           r6 == [r5 EXCEPT !.timeext = x]
           r7 == [r6 EXCEPT !.timenow = ts]
<1>1. cs.timeext = ext
      BY RecFields
<1>2. Header0(cs, h, ts) = r7
      BY <1>1, Zenon DEF Header0
<1> HIDE DEF o, b, s, y, l, x
<1>3. r1 = Rec(o, now, delta, has, ext, sid, type, len, left, data)
      BY DEF Rec
<1> HIDE DEF r1
<1>4. r2 = Rec(o, now, delta, has, ext, sid, type, l, left, data)
      BY <1>3 DEF Rec
<1> HIDE DEF r2
<1>5. r3 = Rec(o, now, delta, has, ext, sid, y, l, left, data)
      BY <1>4 DEF Rec
<1> HIDE DEF r3
<1>6. r4 = Rec(o, now, delta, has, ext, s, y, l, left, data)
      BY <1>5 DEF Rec
<1> HIDE DEF r4
<1>7. r5 = Rec(o, now, delta, b, ext, s, y, l, left, data)
      BY <1>6 DEF Rec
<1> HIDE DEF r5
<1>8. r6 = Rec(o, now, delta, b, x, s, y, l, left, data)
      BY <1>7 DEF Rec
<1> HIDE DEF r6
<1>9. r7 = Rec(o, ts, delta, b, x, s, y, l, left, data)
      BY <1>8 DEF Rec
<1> HIDE DEF r7
<1> QED  BY <1>2, <1>9 DEF o, b, s, y, l, x

LEMMA Header12Is ==
    ASSUME NEW ht, NEW now, NEW delta, NEW has, NEW ext, NEW sid, NEW type, NEW len, NEW left, NEW data,
           NEW cs, cs = Rec(ht, now, delta, has, ext, sid, type, len, left, data),
           NEW h, NEW ts
    PROVE  Header12(cs, h, ts)
                = Rec(h.fmt, (now + ts) % TimeMod, ts, HasExt(h), IF HasExt(h) THEN ts ELSE ext, sid,
                      IF h.fmt = 1 THEN h.type ELSE type, IF h.fmt = 1 THEN h.len ELSE len, left, data)
<1> DEFINE f  == h.fmt  b == HasExt(h)
           x  == IF b THEN ts ELSE ext
           y  == IF f = 1 THEN h.type ELSE type
           l  == IF f = 1 THEN h.len ELSE len
           w  == (now + ts) % TimeMod
           r1 == [cs EXCEPT !.msghdrtype = f]
           r2 == [r1 EXCEPT !.msgdatalen = l]
           r3 == [r2 EXCEPT !.msgtypeid = y]
           r4 == [r3 EXCEPT !.hastimeext = b]
           r5 == [r4 EXCEPT !.timeext = x]
           r6 == [r5 EXCEPT !.timedelta = ts]
           r7 == [r6 EXCEPT !.timenow = w]
<1>1. cs.timeext = ext /\ cs.msgdatalen = len /\ cs.msgtypeid = type /\ cs.timenow = now
      BY RecFields
<1>2. Header12(cs, h, ts) = r7
      BY <1>1, Zenon DEF Header12
<1> HIDE DEF f, b, x, y, l, w
<1>3. r1 = Rec(f, now, delta, has, ext, sid, type, len, left, data)
      BY DEF Rec
<1> HIDE DEF r1
<1>4. r2 = Rec(f, now, delta, has, ext, sid, type, l, left, data)
      BY <1>3 DEF Rec
<1> HIDE DEF r2
<1>5. r3 = Rec(f, now, delta, has, ext, sid, y, l, left, data)
      BY <1>4 DEF Rec
<1> HIDE DEF r3
<1>6. r4 = Rec(f, now, delta, b, ext, sid, y, l, left, data)
      BY <1>5 DEF Rec
<1> HIDE DEF r4
<1>7. r5 = Rec(f, now, delta, b, x, sid, y, l, left, data)
      BY <1>6 DEF Rec
<1> HIDE DEF r5
<1>8. r6 = Rec(f, now, ts, b, x, sid, y, l, left, data)
      BY <1>7 DEF Rec
<1> HIDE DEF r6
<1>9. r7 = Rec(f, w, ts, b, x, sid, y, l, left, data)
      BY <1>8 DEF Rec
<1> HIDE DEF r7
<1> QED  BY <1>2, <1>9 DEF f, b, x, y, l, w

LEMMA Header3Is ==
    ASSUME NEW ht, NEW now, NEW delta, NEW has, NEW ext, NEW sid, NEW type, NEW len, NEW left, NEW data,
           NEW cs, cs = Rec(ht, now, delta, has, ext, sid, type, len, left, data),
           NEW ts
    PROVE  Header3(cs, ts)
                = Rec(ht, IF ht # 0 THEN (now + ts) % TimeMod ELSE IF has THEN ts ELSE now, delta, has,
                      IF ht = 0 /\ has THEN ts ELSE ext, sid, type, len, left, data)
<1> DEFINE w  == (now + ts) % TimeMod
           r1 == [cs EXCEPT !.timenow = ts]
           r2 == [r1 EXCEPT !.timeext = ts]
           r3 == [cs EXCEPT !.timenow = w]
<1>1. cs.msghdrtype = ht /\ cs.hastimeext = has /\ cs.timenow = now
      BY RecFields
<1>2. Header3(cs, ts) = IF ht = 0 THEN IF has THEN r2 ELSE cs ELSE r3
      BY <1>1, Zenon DEF Header3
<1> HIDE DEF w
<1>3. r1 = Rec(ht, ts, delta, has, ext, sid, type, len, left, data)
      BY DEF Rec
<1>4. r3 = Rec(ht, w, delta, has, ext, sid, type, len, left, data)
      BY DEF Rec
<1> HIDE DEF r1, r3
<1>5. r2 = Rec(ht, ts, delta, has, ts, sid, type, len, left, data)
      BY <1>3 DEF Rec
<1> HIDE DEF r2
<1> QED  BY <1>2, <1>4, <1>5 DEF w

\* The payload of a chunk.
After(cs, vals) == [cs EXCEPT !.msgdataleft = @ - Len(vals), !.msgdata = @ \o vals]

LEMMA AfterIs ==
    ASSUME NEW ht, NEW now, NEW delta, NEW has, NEW ext, NEW sid, NEW type, NEW len, NEW left, NEW data,
           NEW cs, cs = Rec(ht, now, delta, has, ext, sid, type, len, left, data),
           NEW vals
    PROVE  After(cs, vals)
                = Rec(ht, now, delta, has, ext, sid, type, len, left - Len(vals), data \o vals)
<1> DEFINE l  == left - Len(vals)
           d  == data \o vals
           r1 == [cs EXCEPT !.msgdataleft = l]
           r2 == [r1 EXCEPT !.msgdata = d]
<1>1. cs.msgdataleft = left /\ cs.msgdata = data
      BY RecFields
<1>2. After(cs, vals) = r2
      BY <1>1, Zenon DEF After
<1> HIDE DEF l, d
<1>3. r1 = Rec(ht, now, delta, has, ext, sid, type, len, l, data)
      BY DEF Rec
<1> HIDE DEF r1
<1>4. r2 = Rec(ht, now, delta, has, ext, sid, type, len, l, d)
      BY <1>3 DEF Rec
<1> HIDE DEF r2
<1> QED  BY <1>2, <1>4 DEF l, d

-----------------------------------------------------------------------------
(* Tokens of a chunk                                                       *)

Payloads == Nat \X Nat
Kinds == {"", "Video", "Aggregate", "SetChunkSize", "WindowAckSize", "PingRequest"}
Tokens == [k : {"hdr", "ext", "data"}, fmt : 0..3, csid : Nat, ts : Nat, len : Nat, type : Kinds,
           sid : Nat, val : Payloads]
Moment == 0..TimeMod - 1

Data(vals) == [i \in 1..Len(vals) |-> DataToken(vals[i])]
ChunkHead(h, ext, ts) == IF ext THEN <<h, ExtToken(ts)>> ELSE <<h>>
Toks(h, ext, ts, vals) == ChunkHead(h, ext, ts) \o Data(vals)

\* What follows the first part of a sequence.
LEMMA SkipConcat ==
    ASSUME NEW A, NEW s \in Seq(A), NEW t \in Seq(A)
    PROVE  SubSeq(s \o t, Len(s) + 1, Len(s \o t)) = t
<1> DEFINE u == s \o t  v == SubSeq(u, Len(s) + 1, Len(u))
<1>1. /\ u \in Seq(A) /\ Len(u) = Len(s) + Len(t) /\ Len(s) \in Nat /\ Len(t) \in Nat
      /\ \A i \in 1..Len(s) + Len(t) : u[i] = IF i <= Len(s) THEN s[i] ELSE t[i - Len(s)]
      BY ConcatProperties, LenProperties
<1>2. \A i \in 1..Len(t) : u[Len(s) + i] = t[i]
  <2> HIDE DEF u
  <2> TAKE i \in 1..Len(t)
  <2>1. Len(s) + i \in 1..Len(s) + Len(t) /\ ~(Len(s) + i <= Len(s)) /\ (Len(s) + i) - Len(s) = i
        BY <1>1
  <2> QED  BY <1>1, <2>1
<1> HIDE DEF u
<1>3. \A i \in Len(s) + 1..Len(u) : u[i] \in A
  <2> TAKE i \in Len(s) + 1..Len(u)
  <2>1. i \in 1..Len(u)
        BY <1>1
  <2> QED  BY <1>1, <2>1, ElementOfSeq
<1>4. /\ v \in Seq(A)
      /\ Len(v) = IF Len(s) + 1 <= Len(u) THEN Len(u) - (Len(s) + 1) + 1 ELSE 0
      /\ \A i \in 1..Len(u) - (Len(s) + 1) + 1 : v[i] = u[(Len(s) + 1) + i - 1]
  <2>1. Len(s) + 1 \in Int /\ Len(u) \in Int
        BY <1>1
  <2> QED  BY <1>3, <2>1, SubSeqProperties
<1> HIDE DEF v
<1>5. Len(v) = Len(t)
      BY <1>1, <1>4
<1>6. \A i \in 1..Len(v) : v[i] = t[i]
  <2> TAKE i \in 1..Len(v)
  <2>1. i \in 1..Len(u) - (Len(s) + 1) + 1 /\ (Len(s) + 1) + i - 1 = Len(s) + i /\ i \in 1..Len(t)
        BY <1>1, <1>5
  <2> QED  BY <1>2, <1>4, <2>1
<1>7. v = t
      BY <1>4, <1>5, <1>6, SeqEqual
<1> QED  BY <1>7 DEF v, u

LEMMA TokIn ==
    ASSUME NEW k \in {"hdr", "ext", "data"}, NEW fmt \in 0..3, NEW csid \in Nat, NEW ts \in Nat,
           NEW len \in Nat, NEW type \in Kinds, NEW sid \in Nat, NEW val \in Payloads
    PROVE  Tok(k, fmt, csid, ts, len, type, sid, val) \in Tokens
BY DEF Tok, Tokens

LEMMA DataIs ==
    ASSUME NEW vals \in Seq(Payloads)
    PROVE  /\ Data(vals) \in Seq(Tokens) /\ Len(Data(vals)) = Len(vals)
           /\ \A i \in 1..Len(vals) : Data(vals)[i].val = vals[i] /\ Data(vals)[i].ts = 0
<1>1. \A i \in 1..Len(vals) :
          DataToken(vals[i]) \in Tokens /\ DataToken(vals[i]).val = vals[i] /\ DataToken(vals[i]).ts = 0
  <2> TAKE i \in 1..Len(vals)
  <2>1. vals[i] \in Payloads
        BY ElementOfSeq
  <2> DEFINE k == "data"  o == 0  e == ""  x == vals[i]
  <2>2. DataToken(x) = Tok(k, o, o, o, o, e, o, x)
        BY DataTokenIs
  <2>3. k \in {"hdr", "ext", "data"} /\ o \in 0..3 /\ o \in Nat /\ e \in Kinds
        BY DEF Kinds
  <2>4. x \in Payloads
        BY <2>1
  <2> HIDE DEF Payloads, Tokens, k, o, e, x
  <2>5. Tok(k, o, o, o, o, e, o, x) \in Tokens
        BY <2>3, <2>4, TokIn
  <2>6. Tok(k, o, o, o, o, e, o, x).val = x /\ Tok(k, o, o, o, o, e, o, x).ts = o
        BY DEF Tok
  <2> QED  BY <2>2, <2>5, <2>6 DEF o, x
<1>2. Len(vals) \in Nat
      BY LenProperties
<1> HIDE DEF Tokens, Payloads
<1> QED  BY <1>1, <1>2 DEF Data

LEMMA HeadIs ==
    ASSUME NEW h \in Tokens, NEW ext \in BOOLEAN, NEW ts \in Nat
    PROVE  /\ ChunkHead(h, ext, ts) \in Seq(Tokens)
           /\ Len(ChunkHead(h, ext, ts)) = IF ext THEN 2 ELSE 1
           /\ ChunkHead(h, ext, ts)[1] = h
           /\ ext => ChunkHead(h, ext, ts)[2].ts = ts
<1> DEFINE k == "ext"  o == 0  e == ""  z == <<0, 0>>
<1>1. ExtToken(ts) = Tok(k, o, o, ts, o, e, o, z)
      BY ExtTokenIs
<1>2. k \in {"hdr", "ext", "data"} /\ o \in 0..3 /\ o \in Nat /\ e \in Kinds /\ z \in Payloads
      BY DEF Kinds, Payloads
<1> HIDE DEF Payloads, Tokens, k, o, e, z
<1>3. Tok(k, o, o, ts, o, e, o, z) \in Tokens
      BY <1>2, TokIn
<1>4. Tok(k, o, o, ts, o, e, o, z).ts = ts
      BY DEF Tok
<1>5. ExtToken(ts) \in Tokens /\ ExtToken(ts).ts = ts
      BY <1>1, <1>3, <1>4
<1> HIDE DEF Tokens
<1> QED  BY <1>5 DEF ChunkHead

\* What the reader finds of a chunk: its header, the extended timestamp if there is
\* one, and behind them r, which starts with the payload vals.
Found(w, h, ext, ts, vals, r) ==
    /\ w \in Seq(Tokens) /\ w # <<>> /\ w[1] = h /\ Len(w) \in Nat
    /\ r \in Seq(Tokens) /\ Len(r) \in Nat /\ Len(w) = (IF ext THEN 2 ELSE 1) + Len(r)
    /\ ext => Len(w) > 1 /\ w[2].ts = ts /\ SubSeq(w, 3, Len(w)) = r
    /\ ~ext => SubSeq(w, 2, Len(w)) = r /\ (vals # <<>> => w[2].ts = 0)

LEMMA ToksAre ==
    ASSUME NEW h \in Tokens, NEW ext \in BOOLEAN, NEW ts \in Nat, NEW vals \in Seq(Payloads),
           NEW v \in Seq(Tokens), NEW w, w = Toks(h, ext, ts, vals) \o v
    PROVE  Found(w, h, ext, ts, vals, Data(vals) \o v)
<1> DEFINE hd == ChunkHead(h, ext, ts)  d == Data(vals)  r == d \o v
<1>0. /\ hd \in Seq(Tokens)
      /\ Len(hd) = IF ext THEN 2 ELSE 1
      /\ hd[1] = h
      /\ ext => hd[2].ts = ts
  <2> HIDE DEF Tokens
  <2> QED  BY HeadIs
<1>1. /\ hd \in Seq(Tokens) /\ hd[1] = h
      /\ ext => hd[2].ts = ts /\ Len(hd) = 2
      /\ ~ext => Len(hd) = 1
      BY <1>0
<1>2. /\ d \in Seq(Tokens) /\ Len(d) = Len(vals) /\ Len(vals) \in Nat
      /\ \A i \in 1..Len(vals) : d[i].val = vals[i] /\ d[i].ts = 0
      BY DataIs, LenProperties
<1>3. w = (hd \o d) \o v
      BY DEF Toks
<1> HIDE DEF hd, d
<1> HIDE DEF Tokens, Payloads
<1>4. w = hd \o r /\ r \in Seq(Tokens) /\ Len(r) = Len(d) + Len(v) /\ Len(r) \in Nat
      /\ \A i \in 1..Len(d) + Len(v) : r[i] = IF i <= Len(d) THEN d[i] ELSE v[i - Len(d)]
  <2>1. hd \in Seq(Tokens) /\ d \in Seq(Tokens)
        BY <1>1, <1>2
  <2>2. w = hd \o r
        BY <1>3, <2>1, ConcatAssociative
  <2>3. r \in Seq(Tokens) /\ Len(r) = Len(d) + Len(v)
        BY <2>1, ConcatProperties
  <2>4. \A i \in 1..Len(d) + Len(v) : r[i] = IF i <= Len(d) THEN d[i] ELSE v[i - Len(d)]
        BY <2>1, ConcatProperties
  <2> HIDE DEF r
  <2>5. Len(r) \in Nat
        BY <2>3, LenProperties
  <2> QED  BY <2>2, <2>3, <2>4, <2>5
<1> HIDE DEF r
<1>5. /\ w \in Seq(Tokens) /\ Len(w) = Len(hd) + Len(r)
      /\ \A i \in 1..Len(hd) + Len(r) : w[i] = IF i <= Len(hd) THEN hd[i] ELSE r[i - Len(hd)]
  <2>1. hd \in Seq(Tokens) /\ r \in Seq(Tokens) /\ w = hd \o r
        BY <1>1, <1>4
  <2> QED  BY <2>1, ConcatProperties
<1>6. SubSeq(w, Len(hd) + 1, Len(w)) = r
      BY <1>1, <1>4, SkipConcat
<1>7. w[1] = h /\ Len(w) \in Nat \ {0}
      BY <1>1, <1>4, <1>5
<1>8. w # <<>>
      BY <1>5, <1>7, EmptySeq
<1>9. CASE ext
  <2>1. Len(hd) = 2 /\ 2 + 1 = 3
        BY <1>1, <1>9
  <2>2. Len(w) > 1 /\ w[2] = hd[2]
        BY <1>4, <1>5, <2>1
  <2>3. Len(r) \in Nat /\ Len(w) = (IF ext THEN 2 ELSE 1) + Len(r)
        BY <1>4, <1>5, <1>9, <2>1
  <2> QED  BY <1>1, <1>4, <1>5, <1>6, <1>7, <1>8, <1>9, <2>1, <2>2, <2>3 DEF r, d, Found
<1>10. CASE ~ext
  <2>1. Len(hd) = 1 /\ 1 + 1 = 2
        BY <1>1, <1>10
  <2>2. ASSUME vals # <<>>
        PROVE  w[2].ts = 0
    <3>1. Len(vals) \in Nat \ {0}
          BY <2>2, EmptySeq
    <3>2. w[2] = r[1] /\ r[1] = d[1] /\ 1 \in 1..Len(vals)
      <4>1. Len(v) \in Nat
            BY LenProperties
      <4>2. 2 \in 1..Len(hd) + Len(r) /\ ~(2 <= Len(hd)) /\ 2 - Len(hd) = 1
            BY <1>2, <1>4, <2>1, <3>1, <4>1
      <4>3. 1 \in 1..Len(d) + Len(v) /\ 1 <= Len(d) /\ 1 \in 1..Len(vals)
            BY <1>2, <3>1, <4>1
      <4> QED  BY <1>4, <1>5, <4>2, <4>3
    <3> QED  BY <1>2, <3>2
  <2>3. Len(r) \in Nat /\ Len(w) = (IF ext THEN 2 ELSE 1) + Len(r)
        BY <1>4, <1>5, <1>10, <2>1
  <2> QED  BY <1>4, <1>5, <1>6, <1>7, <1>8, <1>10, <2>1, <2>2, <2>3 DEF r, d, Found
<1> QED  BY <1>9, <1>10

-----------------------------------------------------------------------------
(* What a chunk makes of the reader                                        *)

Messages == [type : Kinds, time : Nat, sid : Nat, data : Seq(Payloads)]

\* What the reader may know of a chunk stream.
IsCs(cs) ==
    /\ cs = Rec(cs.msghdrtype, cs.timenow, cs.timedelta, cs.hastimeext, cs.timeext, cs.msgsid,
                cs.msgtypeid, cs.msgdatalen, cs.msgdataleft, cs.msgdata)
    /\ cs.msghdrtype \in 0..2 /\ cs.timenow \in Moment /\ cs.timedelta \in Moment
    /\ cs.hastimeext \in BOOLEAN /\ cs.timeext \in Moment /\ (cs.hastimeext => cs.timeext # 0)
    /\ cs.msgsid \in Nat /\ cs.msgtypeid \in Kinds
    /\ cs.msgdatalen \in Nat /\ cs.msgdataleft \in Nat /\ cs.msgdata \in Seq(Payloads)
    /\ cs.msgdataleft <= cs.msgdatalen /\ Len(cs.msgdata) = cs.msgdatalen - cs.msgdataleft

\* The messages that are still to come of an aggregate.
Unpack(agg) ==
    LET first == IF agg.idx = 0 THEN agg.parts[1][1] ELSE agg.first
    IN  [i \in 1..Len(agg.parts) |->
            Message("Video", AggTime(agg, first, agg.parts[i][1]), 0, <<agg.parts[i]>>)]

\* What matters of the reader for what it makes of the chunks to come: what it knows
\* of the chunk streams, the size of chunks, the messages it has come to know, and
\* what no reader comes to know: the place among those messages where the first one
\* begins that is over the limit, or 0.  States go on behind it as if there were none.
State(map, max, outs, cut) == [map |-> map, max |-> max, outs |-> outs, cut |-> cut]
Reader == State(readcsmap, ReadMaxChunkSize, out \o Unpack(aggmsg), 0)

IsState(S) ==
    /\ S = State(S.map, S.max, S.outs, S.cut)
    /\ S.map = [c \in DOMAIN S.map |-> S.map[c]]
    /\ S.max \in Nat \ {0} /\ S.outs \in Seq(Messages)
    /\ DOMAIN S.map \subseteq Nat
    /\ \A c \in DOMAIN S.map : IsCs(S.map[c])
    /\ S.cut \in Nat /\ (S.cut = 0 => \A c \in DOMAIN S.map : ~TooBig(S.map[c]))

CsOf(S, c) == IF c \in DOMAIN S.map THEN S.map[c] ELSE NewCs
Portion(cs, max) == IF cs.msgdataleft > max THEN max ELSE cs.msgdataleft

\* The messages a complete one gives.
Gives(cs) ==
    IF cs.msgtypeid = "Aggregate"
    THEN Unpack([time |-> cs.timenow, parts |-> cs.msgdata, first |-> 0, idx |-> 0])
    ELSE <<Message(cs.msgtypeid, cs.timenow, cs.msgsid, cs.msgdata)>>

\* The chunk stream c has become cs.
CutAt(S, cs) == IF S.cut # 0 \/ ~TooBig(cs) THEN S.cut ELSE Len(S.outs) + 1
Landed(S, c, cs) ==
    State([d \in DOMAIN S.map \union {c} |-> IF d = c THEN cs ELSE S.map[d]],
          IF Full(cs) /\ cs.msgtypeid = "SetChunkSize" THEN cs.msgdata[1][1] ELSE S.max,
          IF Full(cs) THEN S.outs \o Gives(cs) ELSE S.outs, CutAt(S, cs))

\* The header h with the time ts has been read into cs.
Began(cs, h, ts) ==
    IF h.fmt = 0 THEN Start(Header0(cs, h, ts))
    ELSE IF h.fmt # 3 THEN Start(Header12(cs, h, ts))
    ELSE IF cs.msgdataleft = 0 THEN Start(Header3(cs, ts))
    ELSE cs

\* A chunk of header h, time ts and payload vals has been read.
Taken(S, h, ts, vals) == Landed(S, h.csid, After(Began(CsOf(S, h.csid), h, ts), vals))

Controls == {"SetChunkSize", "WindowAckSize", "PingRequest"}

\* The chunk is one that the reader in state S understands; ext says that its
\* header has an extended timestamp.
Fits(S, h, ext, ts, vals) ==
    LET cs  == CsOf(S, h.csid)
        bg  == Began(cs, h, ts)
        aft == After(bg, vals)
    IN  /\ h.k = "hdr"
        /\ h.fmt # 0 => h.csid \in DOMAIN S.map
        /\ h.fmt # 3 => cs.msgdataleft = 0 /\ (ext <=> HasExt(h)) /\ (~ext => ts = h.ts)
        /\ h.fmt = 3 /\ cs.msgdataleft = 0 =>
              (ext <=> cs.hastimeext) /\ (~ext => ts = cs.timedelta)
        /\ h.fmt = 3 /\ cs.msgdataleft # 0 => (ext => cs.hastimeext /\ ts = cs.timeext)
        /\ ext => ts # 0
        /\ Len(vals) = Portion(bg, S.max)
        /\ Full(aft) /\ aft.msgtypeid \in Controls => aft.msgdata # <<>> /\ aft.msgdata[1][1] # 0

LEMMA UnpackNothing ==
    ASSUME NEW agg, agg.parts = <<>>
    PROVE  Unpack(agg) = <<>>
<1> DEFINE e == <<>>
<1>1. agg.parts = e /\ Len(e) = 0
      BY EmptySeq
<1> HIDE DEF e
<1>2. 1..Len(agg.parts) = {}
      BY <1>1
<1> QED  BY <1>2 DEF Unpack

LEMMA CsIs ==
    ASSUME NEW ht \in 0..2, NEW now \in Moment, NEW delta \in Moment, NEW has \in BOOLEAN,
           NEW ext \in Moment, NEW sid \in Nat, NEW type \in Kinds, NEW len \in Nat, NEW left \in Nat,
           NEW data \in Seq(Payloads), has => ext # 0, left <= len, Len(data) = len - left,
           NEW cs, cs = Rec(ht, now, delta, has, ext, sid, type, len, left, data)
    PROVE  IsCs(cs)
<1>1. /\ cs.msghdrtype = ht /\ cs.timenow = now /\ cs.timedelta = delta /\ cs.hastimeext = has
      /\ cs.timeext = ext /\ cs.msgsid = sid /\ cs.msgtypeid = type /\ cs.msgdatalen = len
      /\ cs.msgdataleft = left /\ cs.msgdata = data
      BY RecFields
<1> QED  BY <1>1 DEF IsCs

LEMMA NewCsIs == NewCs = Rec(0, 0, 0, FALSE, 0, 0, "", 0, 0, <<>>) /\ IsCs(NewCs)
<1> DEFINE o == 0  b == FALSE  y == ""  e == <<>>
<1>1. NewCs = Rec(o, o, o, b, o, o, y, o, o, e)
      BY DEF NewCs, Rec
<1>2. /\ o \in 0..2 /\ o \in Moment /\ b \in BOOLEAN /\ o \in Nat /\ y \in Kinds
      /\ e \in Seq(Payloads) /\ o <= o /\ Len(e) = o - o /\ ~b
      BY ChunkAssumption DEF Moment, Kinds
<1> HIDE DEF o, b, y, e
<1>3. IsCs(NewCs)
      BY <1>1, <1>2, CsIs
<1> QED  BY <1>1, <1>3 DEF o, b, y, e

\* The sum of two times is a time.
LEMMA MomentSum == \A t, d \in Moment : (t + d) % TimeMod \in Moment
<1>1. TimeMod \in Nat \ {0}
      BY ChunkAssumption
<1>2. ASSUME NEW t \in Moment, NEW d \in Moment
      PROVE  (t + d) % TimeMod \in Moment
  <2>1. t + d \in Nat
        BY <1>1 DEF Moment
  <2> QED  BY <1>1, <2>1 DEF Moment
<1> QED  BY <1>2

LEMMA StartOK ==
    ASSUME NEW ht \in 0..2, NEW now \in Moment, NEW delta \in Moment, NEW has \in BOOLEAN,
           NEW ext \in Moment, NEW sid \in Nat, NEW type \in Kinds, NEW len \in Nat, NEW left, NEW data,
           NEW cs, cs = Rec(ht, now, delta, has, ext, sid, type, len, left, data), has => ext # 0
    PROVE  IsCs(Start(cs))
<1> DEFINE e == <<>>
<1>1. Start(cs) = Rec(ht, now, delta, has, ext, sid, type, len, len, e)
      BY StartIs
<1>2. e \in Seq(Payloads) /\ Len(e) = len - len /\ len <= len
      OBVIOUS
<1> HIDE DEF e
<1> QED  BY <1>1, <1>2, CsIs

\* A header that is understood leaves a chunk stream a chunk stream.
LEMMA BeganOK ==
    ASSUME NEW cs, IsCs(cs), NEW h \in Tokens, NEW ext \in BOOLEAN, NEW ts \in Moment,
           h.fmt # 3 => (ext <=> HasExt(h)),
           h.fmt = 3 /\ cs.msgdataleft = 0 => (ext <=> cs.hastimeext),
           ext => ts # 0
    PROVE  IsCs(Began(cs, h, ts))
<1> DEFINE ht == cs.msghdrtype  now == cs.timenow  delta == cs.timedelta  has == cs.hastimeext
           xt == cs.timeext  sid == cs.msgsid  type == cs.msgtypeid  len == cs.msgdatalen
           left == cs.msgdataleft  data == cs.msgdata
<1>1. /\ ht \in 0..2 /\ now \in Moment /\ delta \in Moment /\ has \in BOOLEAN /\ xt \in Moment
      /\ sid \in Nat /\ type \in Kinds /\ len \in Nat /\ left \in Nat /\ data \in Seq(Payloads)
      /\ cs = Rec(ht, now, delta, has, xt, sid, type, len, left, data)
      /\ left <= len /\ Len(data) = len - left
      /\ has => xt # 0
      BY DEF IsCs
<1> DEFINE b == HasExt(h)
           w == (now + ts) % TimeMod
<1>2. /\ h.fmt \in 0..3 /\ h.len \in Nat /\ h.type \in Kinds /\ h.sid \in Nat
      /\ b \in BOOLEAN /\ w \in Moment
  <2>1. now \in Moment
        BY <1>1
  <2> HIDE DEF now
  <2>2. w \in Moment
        BY <2>1, MomentSum
  <2> QED  BY <2>2 DEF Tokens, HasExt
<1>3. cs.hastimeext = has /\ cs.msgdataleft = left
      OBVIOUS
<1> HIDE DEF Tokens, b, w, ht, now, delta, has, xt, sid, type, len, left, data
<1>4. CASE h.fmt = 0
  <2> DEFINE x == IF b THEN ts ELSE xt  r == Header0(cs, h, ts)  o == 0
  <2>1. r = Rec(o, ts, delta, b, x, h.sid, h.type, h.len, left, data)
        BY <1>1, Header0Is DEF b
  <2>2. x \in Moment /\ (b => x # 0) /\ o \in 0..2
    <3>1. h.fmt # 3
          BY <1>4
    <3> QED  BY <1>1, <3>1 DEF b
  <2>3. Began(cs, h, ts) = Start(r)
        BY <1>4 DEF Began
  <2> HIDE DEF x, r, o
  <2>4. IsCs(Start(r))
        BY <1>1, <1>2, <2>1, <2>2, StartOK
  <2> QED  BY <2>3, <2>4
<1>5. CASE h.fmt # 0 /\ h.fmt # 3
  <2> DEFINE x == IF b THEN ts ELSE xt  r == Header12(cs, h, ts)  f == h.fmt
             y == IF h.fmt = 1 THEN h.type ELSE type
             l == IF h.fmt = 1 THEN h.len ELSE len
  <2>1. r = Rec(f, w, ts, b, x, sid, y, l, left, data)
        BY <1>1, Header12Is DEF b, w
  <2>2. x \in Moment /\ (b => x # 0) /\ f \in 0..2 /\ y \in Kinds /\ l \in Nat
    <3>1. f \in 0..2
          BY <1>2, <1>5
    <3> QED  BY <1>1, <1>2, <1>5, <3>1 DEF b
  <2>3. Began(cs, h, ts) = Start(r)
        BY <1>5 DEF Began
  <2> HIDE DEF x, r, f, y, l
  <2>4. IsCs(Start(r))
        BY <1>1, <1>2, <2>1, <2>2, StartOK
  <2> QED  BY <2>3, <2>4
<1>6. CASE h.fmt = 3 /\ left = 0
  <2> DEFINE r == Header3(cs, ts)
             n == IF ht # 0 THEN w ELSE IF has THEN ts ELSE now
             x == IF ht = 0 /\ has THEN ts ELSE xt
  <2>1. r = Rec(ht, n, delta, has, x, sid, type, len, left, data)
        BY <1>1, Header3Is DEF w
  <2>2. n \in Moment /\ x \in Moment /\ (has => x # 0)
    <3>1. has => ts # 0
          BY <1>3, <1>6
    <3> QED  BY <1>1, <1>2, <3>1
  <2>3. Began(cs, h, ts) = Start(r)
        BY <1>3, <1>6 DEF Began
  <2> HIDE DEF r, n, x
  <2>4. IsCs(Start(r))
        BY <1>1, <1>2, <2>1, <2>2, StartOK
  <2> QED  BY <2>3, <2>4
<1>7. CASE h.fmt = 3 /\ left # 0
  <2>1. Began(cs, h, ts) = cs
        BY <1>3, <1>7 DEF Began
  <2> QED  BY <2>1
<1> QED  BY <1>2, <1>4, <1>5, <1>6, <1>7

LEMMA AfterOK ==
    ASSUME NEW cs, IsCs(cs), NEW vals \in Seq(Payloads), NEW max \in Nat, Len(vals) = Portion(cs, max)
    PROVE  IsCs(After(cs, vals))
<1> DEFINE ht == cs.msghdrtype  now == cs.timenow  delta == cs.timedelta  has == cs.hastimeext
           xt == cs.timeext  sid == cs.msgsid  type == cs.msgtypeid  len == cs.msgdatalen
           left == cs.msgdataleft  data == cs.msgdata
<1>1. /\ ht \in 0..2 /\ now \in Moment /\ delta \in Moment /\ has \in BOOLEAN /\ xt \in Moment
      /\ sid \in Nat /\ type \in Kinds /\ len \in Nat /\ left \in Nat /\ data \in Seq(Payloads)
      /\ cs = Rec(ht, now, delta, has, xt, sid, type, len, left, data)
      /\ left <= len /\ Len(data) = len - left
      /\ has => xt # 0
      BY DEF IsCs
<1> DEFINE l == left - Len(vals)  d == data \o vals
<1>2. After(cs, vals) = Rec(ht, now, delta, has, xt, sid, type, len, l, d)
      BY <1>1, AfterIs
<1>3. d \in Seq(Payloads) /\ Len(d) = Len(data) + Len(vals) /\ Len(vals) \in Nat
  <2>1. data \in Seq(Payloads)
        BY <1>1
  <2> HIDE DEF Payloads, data
  <2> QED  BY <2>1, ConcatProperties, LenProperties
<1>4. cs.msgdataleft = left
      OBVIOUS
<1> HIDE DEF ht, now, delta, has, xt, sid, type, len, left, data
<1>5. Len(vals) <= left
      BY <1>1, <1>4 DEF Portion
<1>6. l \in Nat /\ l <= len /\ Len(d) = len - l
      BY <1>1, <1>3, <1>5
<1> HIDE DEF l, d
<1> QED  BY <1>1, <1>2, <1>3, <1>6, CsIs

LEMMA MessageIn ==
    ASSUME NEW type \in Kinds, NEW time \in Nat, NEW sid \in Nat, NEW data \in Seq(Payloads)
    PROVE  Message(type, time, sid, data) \in Messages
BY DEF Message, Messages

\* An aggregate that is being unpacked.
Agg(time, parts, first, idx) == [time |-> time, parts |-> parts, first |-> first, idx |-> idx]
IsAgg(agg) ==
    /\ agg = Agg(agg.time, agg.parts, agg.first, agg.idx)
    /\ agg.parts \in Seq(Payloads) /\ agg.time \in Moment /\ agg.first \in Nat /\ agg.idx \in Nat

LEMMA UnpackOK ==
    ASSUME NEW agg, IsAgg(agg)
    PROVE  Unpack(agg) \in Seq(Messages) /\ Len(Unpack(agg)) = Len(agg.parts)
<1> DEFINE p == agg.parts  n == Len(p)
           first == IF agg.idx = 0 THEN p[1][1] ELSE agg.first
           M(i) == Message("Video", AggTime(agg, first, p[i][1]), 0, <<p[i]>>)
<1>1. n \in Nat /\ \A i \in 1..n : p[i] \in Payloads
      BY LenProperties, ElementOfSeq DEF IsAgg
<1>2. ASSUME NEW i \in 1..n
      PROVE  M(i) \in Messages
  <2> DEFINE y == "Video"  o == 0  u == <<p[i]>>  w == AggTime(agg, first, p[i][1])
  <2>1. y \in Kinds /\ o \in Nat /\ u \in Seq(Payloads)
        BY <1>1 DEF Kinds
  <2>2. w \in Nat
    <3>1. p[i] \in Payloads /\ p[1] \in Payloads /\ agg.first \in Nat
          BY <1>1 DEF IsAgg
    <3>2. p[i][1] \in Nat /\ p[1][1] \in Nat
          BY <3>1 DEF Payloads
    <3>3. first \in Nat
          BY <3>1, <3>2
    <3>4. agg.time \in Nat /\ TimeMod \in Nat \ {0}
          BY ChunkAssumption DEF IsAgg, Moment
    <3> DEFINE a == agg.time + p[i][1] - first
    <3>5. a \in Int
          BY <3>2, <3>3, <3>4
    <3>6. w = a % TimeMod
          BY DEF AggTime
    <3> HIDE DEF a
    <3> QED  BY <3>4, <3>5, <3>6
  <2> HIDE DEF y, o, u, w
  <2>3. Message(y, w, o, u) \in Messages
        BY <2>1, <2>2, MessageIn
  <2> QED  BY <2>3 DEF y, o, u, w
<1>3. Unpack(agg) = [i \in 1..n |-> M(i)]
      BY DEF Unpack
<1> HIDE DEF M, n, Messages
<1> QED  BY <1>1, <1>2, <1>3 DEF n

LEMMA GivesOK ==
    ASSUME NEW cs, IsCs(cs)
    PROVE  Gives(cs) \in Seq(Messages)
<1>1. CASE cs.msgtypeid = "Aggregate"
  <2> DEFINE agg == [time |-> cs.timenow, parts |-> cs.msgdata, first |-> 0, idx |-> 0]
  <2>1. IsAgg(agg)
        BY DEF IsCs, IsAgg, Agg
  <2>2. Gives(cs) = Unpack(agg)
        BY <1>1 DEF Gives
  <2> HIDE DEF agg
  <2> QED  BY <2>1, <2>2, UnpackOK
<1>2. CASE cs.msgtypeid # "Aggregate"
  <2> DEFINE m == Message(cs.msgtypeid, cs.timenow, cs.msgsid, cs.msgdata)
  <2>1. cs.msgtypeid \in Kinds /\ cs.timenow \in Nat /\ cs.msgsid \in Nat /\ cs.msgdata \in Seq(Payloads)
        BY ChunkAssumption DEF IsCs, Moment
  <2>2. m \in Messages
        BY <2>1, MessageIn
  <2>3. Gives(cs) = <<m>>
        BY <1>2 DEF Gives
  <2> HIDE DEF m, Messages
  <2> QED  BY <2>2, <2>3
<1> QED  BY <1>1, <1>2

LEMMA StateFields ==
    ASSUME NEW map, NEW max, NEW outs, NEW cut
    PROVE  /\ State(map, max, outs, cut).map = map /\ State(map, max, outs, cut).max = max
           /\ State(map, max, outs, cut).outs = outs /\ State(map, max, outs, cut).cut = cut
BY DEF State

LEMMA StateIs ==
    ASSUME NEW map, NEW max \in Nat \ {0}, NEW outs \in Seq(Messages), DOMAIN map \subseteq Nat,
           map = [c \in DOMAIN map |-> map[c]],
           \A c \in DOMAIN map : IsCs(map[c]),
           NEW cut \in Nat, cut = 0 => \A c \in DOMAIN map : ~TooBig(map[c]),
           NEW S, S = State(map, max, outs, cut)
    PROVE  IsState(S)
<1>1. S.map = map /\ S.max = max /\ S.outs = outs /\ S.cut = cut
      BY StateFields
<1> QED  BY <1>1 DEF IsState

LEMMA LandedOK ==
    ASSUME NEW S, IsState(S), NEW c \in Nat, NEW cs, IsCs(cs),
           Full(cs) /\ cs.msgtypeid \in Controls => cs.msgdata # <<>> /\ cs.msgdata[1][1] # 0
    PROVE  IsState(Landed(S, c, cs))
<1> DEFINE map == [d \in DOMAIN S.map \union {c} |-> IF d = c THEN cs ELSE S.map[d]]
           max == IF Full(cs) /\ cs.msgtypeid = "SetChunkSize" THEN cs.msgdata[1][1] ELSE S.max
           outs == IF Full(cs) THEN S.outs \o Gives(cs) ELSE S.outs
<1>1. /\ DOMAIN map \subseteq Nat /\ map = [d \in DOMAIN map |-> map[d]]
      /\ \A d \in DOMAIN map : IsCs(map[d])
      BY DEF IsState
<1>2. max \in Nat \ {0}
  <2>1. CASE Full(cs) /\ cs.msgtypeid = "SetChunkSize"
    <3>1. cs.msgdata \in Seq(Payloads) /\ cs.msgdata # <<>> /\ cs.msgdata[1][1] # 0
          BY <2>1 DEF IsCs, Controls
    <3>2. 1 \in 1..Len(cs.msgdata)
          BY <3>1, EmptySeq
    <3>3. cs.msgdata[1] \in Payloads
          BY <3>1, <3>2, ElementOfSeq
    <3> QED  BY <2>1, <3>1, <3>3 DEF Payloads
  <2>2. CASE ~(Full(cs) /\ cs.msgtypeid = "SetChunkSize")
        BY <2>2 DEF IsState
  <2> QED  BY <2>1, <2>2
<1>3. outs \in Seq(Messages)
  <2>1. Gives(cs) \in Seq(Messages) /\ S.outs \in Seq(Messages)
        BY GivesOK DEF IsState
  <2> HIDE DEF Messages
  <2>2. S.outs \o Gives(cs) \in Seq(Messages)
        BY <2>1, ConcatProperties
  <2> QED  BY <2>1, <2>2
<1> DEFINE cut == CutAt(S, cs)
<1>4. Landed(S, c, cs) = State(map, max, outs, cut)
      BY DEF Landed
<1>5. cut \in Nat
  <2>1. S.cut \in Nat /\ Len(S.outs) + 1 \in Nat
        BY LenProperties DEF IsState
  <2> QED  BY <2>1 DEF CutAt
<1>6. cut = 0 => \A d \in DOMAIN map : ~TooBig(map[d])
  <2> SUFFICES ASSUME cut = 0
               PROVE  \A d \in DOMAIN map : ~TooBig(map[d])
      OBVIOUS
  <2>1. Len(S.outs) \in Nat
        BY LenProperties DEF IsState
  <2>2. Len(S.outs) + 1 # 0
        BY <2>1
  <2>3. S.cut = 0 /\ ~TooBig(cs)
        BY <2>2 DEF CutAt
  <2>4. \A d \in DOMAIN S.map : ~TooBig(S.map[d])
        BY <2>3 DEF IsState
  <2> QED  BY <2>3, <2>4
<1> HIDE DEF map, max, outs, cut, Messages
<1> QED  BY <1>1, <1>2, <1>3, <1>4, <1>5, <1>6, StateIs

LEMMA CsOfOK == ASSUME NEW S, IsState(S), NEW c PROVE IsCs(CsOf(S, c))
BY NewCsIs DEF CsOf, IsState

\* A chunk that is understood leaves the reader in a proper state.
LEMMA TakenOK ==
    ASSUME NEW S, IsState(S), NEW h \in Tokens, NEW ext \in BOOLEAN, NEW ts \in Moment,
           NEW vals \in Seq(Payloads), Fits(S, h, ext, ts, vals)
    PROVE  /\ IsState(Taken(S, h, ts, vals))
           /\ IsCs(CsOf(S, h.csid)) /\ IsCs(Began(CsOf(S, h.csid), h, ts)) /\ h.csid \in Nat
<1> DEFINE c == h.csid  cs == CsOf(S, c)  bg == Began(cs, h, ts)  aft == After(bg, vals)
<1>1. IsCs(cs) /\ c \in Nat /\ S.max \in Nat
      BY CsOfOK DEF IsState, Tokens
<1>2. /\ h.fmt # 3 => (ext <=> HasExt(h))
      /\ h.fmt = 3 /\ cs.msgdataleft = 0 => (ext <=> cs.hastimeext)
      /\ ext => ts # 0
      /\ Len(vals) = Portion(bg, S.max)
      /\ Full(aft) /\ aft.msgtypeid \in Controls => aft.msgdata # <<>> /\ aft.msgdata[1][1] # 0
      BY DEF Fits
<1>3. Taken(S, h, ts, vals) = Landed(S, c, aft)
      BY DEF Taken
<1> HIDE DEF cs, c
<1>4. IsCs(bg)
      BY <1>1, <1>2, BeganOK
<1> HIDE DEF bg
<1>5. IsCs(aft)
      BY <1>1, <1>2, <1>4, AfterOK
<1> HIDE DEF aft
<1>6. IsState(Landed(S, c, aft))
      BY <1>1, <1>2, <1>5, LandedOK
<1> QED  BY <1>1, <1>3, <1>4, <1>6 DEF bg, cs, c

\* The payload of a chunk has been read, its chunk stream c is aft, and v is left.
Lands(c, aft, v) ==
    /\ wire' = v /\ err' = err
    /\ readcsmap' = [d \in DOMAIN readcsmap \union {c} |-> IF d = c THEN aft ELSE readcsmap[d]]
    /\ ackn' \in 0..AckMod - 1 /\ lastackn' \in {lastackn, ackn'}
    /\ \E acks : IF Full(aft) THEN Deliver(aft, acks)
                 ELSE replies' = acks /\ UNCHANGED <<ReadMaxChunkSize, readAckSize, aggmsg, out>>

LEMMA PayloadLands ==
    ASSUME NEW c, NEW cs, NEW vals \in Seq(Payloads), NEW v \in Seq(Tokens), wire \in Seq(Tokens),
           ackn \in Nat, Len(vals) = Portion(cs, ReadMaxChunkSize), Payload(c, cs, Data(vals) \o v)
    PROVE  Lands(c, After(cs, vals), v)
<1> DEFINE d    == Data(vals)
           rest == d \o v
           size == Size(cs)
           u    == [i \in 1..size |-> rest[i].val]
           done == [cs EXCEPT !.msgdataleft = @ - size, !.msgdata = @ \o u]
           n    == (ackn + Len(wire) - Len(rest) + size) % AckMod
           acks == IF AckDue(n) THEN Append(replies, <<"Ack", n>>) ELSE replies
           map  == [e \in DOMAIN readcsmap \union {c} |-> IF e = c THEN done ELSE readcsmap[e]]
<1>1. /\ wire' = SubSeq(rest, size + 1, Len(rest))
      /\ readcsmap' = map
      /\ err' = err
      /\ ackn' = n
      /\ lastackn' = IF AckDue(n) THEN n ELSE lastackn
      /\ IF Full(done) THEN Deliver(done, acks)
         ELSE replies' = acks /\ UNCHANGED <<ReadMaxChunkSize, readAckSize, aggmsg, out>>
      BY DEF Payload
<1>2. size = Len(vals)
      BY DEF Size, Portion
<1>3. /\ d \in Seq(Tokens) /\ Len(d) = Len(vals) /\ Len(vals) \in Nat
      /\ \A i \in 1..Len(vals) : d[i].val = vals[i]
      BY DataIs, LenProperties
<1> HIDE DEF d, size
<1>4. /\ rest \in Seq(Tokens)
      /\ \A i \in 1..Len(vals) : rest[i] = d[i]
      /\ SubSeq(rest, Len(d) + 1, Len(rest)) = v
  <2> HIDE DEF Tokens, Payloads
  <2>1. rest \in Seq(Tokens) /\ Len(rest) = Len(d) + Len(v) /\ Len(v) \in Nat
        /\ \A i \in 1..Len(d) + Len(v) : rest[i] = IF i <= Len(d) THEN d[i] ELSE v[i - Len(d)]
        BY <1>3, ConcatProperties, LenProperties
  <2>2. SubSeq(rest, Len(d) + 1, Len(rest)) = v
        BY <1>3, SkipConcat
  <2>3. ASSUME NEW i \in 1..Len(vals)
        PROVE  rest[i] = d[i]
    <3> HIDE DEF rest
    <3>1. i \in 1..Len(d) + Len(v) /\ i <= Len(d)
          BY <1>3, <2>1
    <3> QED  BY <2>1, <3>1
  <2> QED  BY <2>1, <2>2, <2>3
<1> HIDE DEF rest
<1>5. wire' = v
      BY <1>1, <1>2, <1>3, <1>4
<1>6. u = vals
  <2> HIDE DEF Tokens, Payloads
  <2>1. u = [i \in 1..Len(vals) |-> vals[i]]
        BY <1>2, <1>3, <1>4
  <2>2. vals = [i \in 1..Len(vals) |-> vals[i]]
        BY LenProperties
  <2> QED  BY <2>1, <2>2
<1> HIDE DEF u
<1>7. done = After(cs, vals)
      BY <1>2, <1>6, Zenon DEF After
<1>8. n \in 0..AckMod - 1
  <2>1. Len(wire) \in Nat /\ Len(rest) \in Nat /\ size \in Nat /\ AckMod \in Nat \ {0}
    <3> HIDE DEF Tokens
    <3> QED  BY <1>2, <1>3, <1>4, LenProperties, ChunkAssumption
  <2> DEFINE k == ackn + Len(wire) - Len(rest) + size
  <2>2. k \in Int
        BY <2>1
  <2> HIDE DEF k
  <2>3. k % AckMod \in 0..AckMod - 1
        BY <2>1, <2>2
  <2> QED  BY <2>3 DEF k
<1> HIDE DEF done, n, acks
<1> QED  BY <1>1, <1>5, <1>7, <1>8 DEF Lands

\* What the reader makes of the payload.
LEMMA PayloadReads ==
    ASSUME NEW c, NEW done, NEW v, Lands(c, done, v), IsCs(done), ~TooBig(done),
           out \in Seq(Messages), aggmsg.parts = <<>>
    PROVE  Reader' = Landed(Reader, c, done)
<1> DEFINE map  == [e \in DOMAIN readcsmap \union {c} |-> IF e = c THEN done ELSE readcsmap[e]]
           max  == IF Full(done) /\ done.msgtypeid = "SetChunkSize" THEN done.msgdata[1][1]
                   ELSE ReadMaxChunkSize
           outs == IF Full(done) THEN out \o Gives(done) ELSE out
<1>1. PICK acks :
         /\ readcsmap' = map
         /\ IF Full(done) THEN Deliver(done, acks)
            ELSE replies' = acks /\ UNCHANGED <<ReadMaxChunkSize, readAckSize, aggmsg, out>>
      BY DEF Lands
<1>8. out \o Unpack(aggmsg) = out
  <2>1. Unpack(aggmsg) = <<>>
        BY UnpackNothing
  <2> HIDE DEF Messages
  <2> QED  BY <2>1, ConcatEmptySeq
<1>9. IsCs(done) /\ Gives(done) \in Seq(Messages)
      BY GivesOK
<1>10. Reader = State(readcsmap, ReadMaxChunkSize, out, 0)
      BY <1>8 DEF Reader
<1>11. Landed(Reader, c, done) = State(map, max, outs, 0)
  <2>1. Reader.map = readcsmap /\ Reader.max = ReadMaxChunkSize /\ Reader.outs = out /\ Reader.cut = 0
        BY <1>10, StateFields
  <2>2. CutAt(Reader, done) = 0
        BY <2>1 DEF CutAt
  <2> QED  BY <2>1, <2>2 DEF Landed
<1>12. ReadMaxChunkSize' = max /\ (out \o Unpack(aggmsg))' = outs
  <2>1. CASE ~Full(done)
        BY <1>1, <1>8, <2>1
  <2>2. CASE Full(done) /\ done.msgtypeid = "Aggregate"
    <3> DEFINE agg == [time |-> done.timenow, parts |-> done.msgdata, first |-> 0, idx |-> 0]
    <3>1. Deliver(done, acks)
          BY <1>1, <2>2
    <3>2. aggmsg' = agg /\ ReadMaxChunkSize' = ReadMaxChunkSize /\ out' = out
          BY <2>2, <3>1 DEF Deliver
    <3>3. Gives(done) = Unpack(agg)
          BY <2>2 DEF Gives
    <3> HIDE DEF agg
    <3>4. (out \o Unpack(aggmsg))' = out \o Unpack(agg)
      <4>1. Unpack(aggmsg)' = Unpack(agg)
            BY <3>2 DEF Unpack, AggTime
      <4> QED  BY <3>2, <4>1
    <3> QED  BY <2>2, <3>2, <3>3, <3>4
  <2>3. CASE Full(done) /\ done.msgtypeid # "Aggregate"
    <3> DEFINE m == Message(done.msgtypeid, done.timenow, done.msgsid, done.msgdata)
    <3>1. HandleEvent(m, acks)
          BY <1>1, <2>3 DEF Deliver
    <3>2. /\ out' = Append(out, m) /\ aggmsg' = NoAgg
          /\ ReadMaxChunkSize' = IF done.msgtypeid = "SetChunkSize" THEN done.msgdata[1][1] ELSE ReadMaxChunkSize
          BY <3>1 DEF HandleEvent, Message
    <3>3. Gives(done) = <<m>>
          BY <2>3 DEF Gives
    <3> HIDE DEF m
    <3>4. m \in Messages
          BY <1>9, <3>3, <2>3 DEF m, Gives, IsCs, Message, Messages, Moment
    <3>5. Unpack(aggmsg)' = <<>>
      <4>1. NoAgg.parts = <<>>
            BY DEF NoAgg
      <4>2. Unpack(NoAgg) = <<>>
            BY <4>1, UnpackNothing
      <4> QED  BY <3>2, <4>2
    <3> HIDE DEF Messages
    <3>6. Append(out, m) = out \o <<m>>
          BY <3>4, AppendIsConcat
    <3>7. (out \o Unpack(aggmsg))' = Append(out, m)
      <4>1. Append(out, m) \in Seq(Messages)
            BY <3>4
      <4>2. Append(out, m) \o <<>> = Append(out, m)
            BY <4>1, ConcatEmptySeq
      <4> QED  BY <3>2, <3>5, <4>2
    <3> QED  BY <2>3, <3>2, <3>3, <3>6, <3>7
  <2> QED  BY <2>1, <2>2, <2>3
<1>13. Reader' = State(map, max, outs, 0)
      BY <1>1, <1>12 DEF Reader
<1> QED  BY <1>11, <1>13

\* Behind a header that leaves cs.
Reads(c, cs, rest) == IF TooBig(cs) THEN Fail("MsgDataTooBig") ELSE Payload(c, cs, rest)

\* The buffer that Start makes is not what is too big.
LEMMA StartReads ==
    ASSUME NEW ht, NEW now, NEW delta, NEW has, NEW ext, NEW sid, NEW type, NEW len, NEW left, NEW data,
           NEW cs, cs = Rec(ht, now, delta, has, ext, sid, type, len, left, data),
           NEW c, NEW rest
    PROVE  Begin(c, cs, rest) => Reads(c, Start(cs), rest)
<1>1. cs.msgdatalen = len /\ Start(cs).msgdatalen = len
      BY StartIs, RecFields
<1>2. TooBig(Start(cs)) <=> TooBig(cs)
      BY <1>1 DEF TooBig
<1> QED  BY <1>2, Zenon DEF Begin, Reads

LEMMA BeginReads ==
    ASSUME NEW cs, IsCs(cs), NEW h, NEW ts, NEW c, NEW rest
    PROVE  /\ Begin(c, Header0(cs, h, ts), rest) => Reads(c, Start(Header0(cs, h, ts)), rest)
           /\ Begin(c, Header12(cs, h, ts), rest) => Reads(c, Start(Header12(cs, h, ts)), rest)
           /\ Begin(c, Header3(cs, ts), rest) => Reads(c, Start(Header3(cs, ts)), rest)
<1> DEFINE ht == cs.msghdrtype  now == cs.timenow  delta == cs.timedelta  has == cs.hastimeext
           xt == cs.timeext  sid == cs.msgsid  type == cs.msgtypeid  len == cs.msgdatalen
           left == cs.msgdataleft  data == cs.msgdata
<1>1. cs = Rec(ht, now, delta, has, xt, sid, type, len, left, data)
      BY DEF IsCs
<1> HIDE DEF ht, now, delta, has, xt, sid, type, len, left, data
<1>2. Begin(c, Header0(cs, h, ts), rest) => Reads(c, Start(Header0(cs, h, ts)), rest)
      BY <1>1, Header0Is, StartReads
<1>3. Begin(c, Header12(cs, h, ts), rest) => Reads(c, Start(Header12(cs, h, ts)), rest)
      BY <1>1, Header12Is, StartReads
<1>4. Begin(c, Header3(cs, ts), rest) => Reads(c, Start(Header3(cs, ts)), rest)
      BY <1>1, Header3Is, StartReads
<1> QED  BY <1>2, <1>3, <1>4

\* The reader in front of a chunk it understands reads just that, unless it is of one
\* chunk stream too many or starts a message over the limit.
LEMMA ChunkReads ==
    ASSUME NEW h \in Tokens, NEW ext \in BOOLEAN, NEW ts \in Moment, NEW vals \in Seq(Payloads),
           NEW v \in Seq(Tokens), IsState(Reader), wire = Toks(h, ext, ts, vals) \o v,
           Fits(Reader, h, ext, ts, vals), aggmsg.parts = <<>>, ReaderNext
    PROVE  IF TooManyCsid(h.csid) THEN Fail("TooManyCsid")
           ELSE Reads(h.csid, Began(CsOf(Reader, h.csid), h, ts), Data(vals) \o v)
<1> DEFINE c == h.csid  cs == Cs(c)  rest == Data(vals) \o v
<1>1. ts \in Nat
      BY ChunkAssumption DEF Moment
<1>2. /\ wire[1] = h /\ Len(wire) \in Nat
      /\ ext => Len(wire) > 1 /\ wire[2].ts = ts /\ SubSeq(wire, 3, Len(wire)) = rest
      /\ ~ext => /\ SubSeq(wire, 2, Len(wire)) = rest
                 /\ vals # <<>> => wire[2].ts = 0
  <2> DEFINE w == wire
  <2>1. w = Toks(h, ext, ts, vals) \o v
        OBVIOUS
  <2> HIDE DEF w, Tokens, Payloads
  <2>2. Found(w, h, ext, ts, vals, Data(vals) \o v)
        BY <1>1, <2>1, ToksAre
  <2> QED  BY <2>2 DEF w, Found
<1>3. Reader.map = readcsmap /\ Reader.max = ReadMaxChunkSize /\ Reader.cut = 0
      BY StateFields DEF Reader
<1>4. cs = CsOf(Reader, c)
      BY <1>3 DEF Cs, CsOf, Known
<1>5. IsCs(cs)
      BY <1>4, CsOfOK
<1>6. /\ h.fmt # 0 => Known(c)
      /\ h.fmt # 3 => cs.msgdataleft = 0 /\ (ext <=> HasExt(h)) /\ (~ext => ts = h.ts)
      /\ h.fmt = 3 /\ cs.msgdataleft = 0 => (ext <=> cs.hastimeext) /\ (~ext => ts = cs.timedelta)
      /\ h.fmt = 3 /\ cs.msgdataleft # 0 => (ext => cs.hastimeext /\ ts = cs.timeext)
      /\ Len(vals) = Portion(Began(cs, h, ts), ReadMaxChunkSize)
      BY <1>3, <1>4 DEF Fits, Known
<1> HIDE DEF rest, Tokens, Payloads
<1> SUFFICES IF TooManyCsid(c) THEN Fail("TooManyCsid") ELSE Reads(c, Began(cs, h, ts), rest)
    BY <1>4 DEF rest
<1>7. CASE ReadChunkError
  <2>1. PICK fmt \in 0..3 :
            /\ Chunk(fmt)
            /\ \/ TooManyCsid(c) /\ Fail("TooManyCsid")
               \/ ~TooManyCsid(c) /\ fmt # 0 /\ ~Known(c) /\ Fail("NoPrevChunk")
               \/ ~TooManyCsid(c) /\ fmt # 3 /\ Cs(c).msgdataleft # 0 /\ Fail("MsgDataLeft")
        BY <1>2, <1>7 DEF ReadChunkError
  <2>2. h.fmt = fmt
        BY <1>2, <2>1 DEF Chunk
  <2> QED  BY <1>6, <2>1, <2>2
<1>8. CASE ReadChunk0
  <2> DEFINE w == wire[1]
  <2>1. /\ Chunk(0) /\ ~TooManyCsid(w.csid)
        /\ Begin(w.csid, Header0(Cs(w.csid), w, Timestamp(w)), AfterExt(w))
        BY <1>8 DEF ReadChunk0, Header0
  <2>2. h.fmt = 0 /\ ~TooManyCsid(c) /\ Begin(c, Header0(cs, h, Timestamp(h)), AfterExt(h))
        BY <1>2, <2>1 DEF Chunk
  <2>3. Timestamp(h) = ts /\ AfterExt(h) = rest
        BY <1>2, <1>6, <2>2 DEF Timestamp, AfterExt
  <2>4. Began(cs, h, ts) = Start(Header0(cs, h, ts))
        BY <2>2 DEF Began
  <2> HIDE DEF c, cs
  <2>5. Reads(c, Start(Header0(cs, h, ts)), rest)
        BY <1>5, <2>2, <2>3, BeginReads
  <2> QED  BY <2>2, <2>4, <2>5
<1>9. ASSUME NEW fmt \in {1, 2}, ReadChunk12(fmt)
      PROVE  ~TooManyCsid(c) /\ Reads(c, Began(cs, h, ts), rest)
  <2> DEFINE w == wire[1]
  <2>1. Chunk(fmt) /\ w.fmt = fmt
        BY <1>9 DEF ReadChunk12, Chunk
  <2>2. /\ ~TooManyCsid(w.csid)
        /\ Begin(w.csid, Header12(Cs(w.csid), w, Timestamp(w)), AfterExt(w))
        BY <1>9, <2>1 DEF ReadChunk12, Header12
  <2>3. h.fmt = fmt /\ ~TooManyCsid(c) /\ Begin(c, Header12(cs, h, Timestamp(h)), AfterExt(h))
        BY <1>2, <2>1, <2>2
  <2>4. Timestamp(h) = ts /\ AfterExt(h) = rest
        BY <1>2, <1>6, <2>3 DEF Timestamp, AfterExt
  <2>5. Began(cs, h, ts) = Start(Header12(cs, h, ts))
        BY <2>3 DEF Began
  <2> HIDE DEF c, cs
  <2>6. Reads(c, Start(Header12(cs, h, ts)), rest)
        BY <1>5, <2>3, <2>4, BeginReads
  <2> QED  BY <2>3, <2>5, <2>6
<1>10. CASE ReadChunk3New
  <2> DEFINE t == IF cs.hastimeext THEN wire[2].ts ELSE cs.timedelta
             r == SubSeq(wire, IF cs.hastimeext THEN 3 ELSE 2, Len(wire))
  <2>1. /\ Chunk(3) /\ ~TooManyCsid(c) /\ cs.msgdataleft = 0
        /\ Begin(c, Header3(cs, t), r)
        BY <1>2, <1>10 DEF ReadChunk3New, Header3
  <2>2. h.fmt = 3
        BY <1>2, <2>1 DEF Chunk
  <2>3. t = ts /\ r = rest
        BY <1>2, <1>6, <2>1, <2>2
  <2>4. Began(cs, h, ts) = Start(Header3(cs, ts))
        BY <2>1, <2>2 DEF Began
  <2>5. ~TooManyCsid(c) /\ Begin(c, Header3(cs, ts), rest)
        BY <2>1, <2>3
  <2> HIDE DEF c, cs
  <2>6. Reads(c, Start(Header3(cs, ts)), rest)
        BY <1>5, <2>5, BeginReads
  <2> QED  BY <2>4, <2>5, <2>6
<1>11. CASE ReadChunk3More
  <2> DEFINE r == SubSeq(wire, IF Repeated(cs) THEN 3 ELSE 2, Len(wire))
  <2>1. Chunk(3) /\ ~TooManyCsid(c) /\ cs.msgdataleft # 0 /\ Payload(c, cs, r)
        BY <1>2, <1>11 DEF ReadChunk3More
  <2>2. h.fmt = 3
        BY <1>2, <2>1 DEF Chunk
  <2>3. Began(cs, h, ts) = cs
        BY <2>1, <2>2 DEF Began
  <2>4. vals # <<>>
    <3>1. Len(vals) = Portion(cs, ReadMaxChunkSize)
          BY <1>6, <2>3
    <3>2. ReadMaxChunkSize \in Nat \ {0} /\ cs.msgdataleft \in Nat \ {0}
          BY <1>3, <1>5, <2>1 DEF IsState, IsCs
    <3>3. Portion(cs, ReadMaxChunkSize) # 0
          BY <3>2 DEF Portion
    <3> QED  BY <3>1, <3>3, EmptySeq
  <2>5. Repeated(cs) <=> ext
    <3>1. CASE ext
          BY <1>2, <1>6, <2>1, <2>2, <3>1 DEF Repeated
    <3>2. CASE ~ext
      <4>1. wire[2].ts = 0
            BY <1>2, <2>4, <3>2
      <4>2. cs.hastimeext => cs.timeext # 0
            BY <1>5 DEF IsCs
      <4> QED  BY <3>2, <4>1, <4>2 DEF Repeated
    <3> QED  BY <3>1, <3>2
  <2>6. r = rest
        BY <1>2, <2>5
  <2>7. ~TooBig(cs)
    <3>1. Known(c)
          BY <1>6, <2>2
    <3>2. \A d \in DOMAIN readcsmap : ~TooBig(readcsmap[d])
          BY <1>3 DEF IsState
    <3> QED  BY <3>1, <3>2 DEF Cs, Known
  <2>8. Payload(c, Began(cs, h, ts), rest) /\ ~TooBig(Began(cs, h, ts)) /\ ~TooManyCsid(c)
        BY <2>1, <2>3, <2>6, <2>7
  <2> QED  BY <2>8, Zenon DEF Reads
<1>12. ~NextAggPart
      BY DEF NextAggPart
<1> QED  BY <1>7, <1>8, <1>9, <1>10, <1>11, <1>12 DEF ReaderNext, ReaderStep

-----------------------------------------------------------------------------
(* A wire that is understood to its end                                    *)

\* The states of a reader, and the wires in front of them.
Css == [msghdrtype : 0..2, timenow : Moment, timedelta : Moment, hastimeext : BOOLEAN,
        timeext : Moment, msgsid : Nat, msgtypeid : Kinds, msgdatalen : Nat, msgdataleft : Nat,
        msgdata : Seq(Payloads)]
Maps == UNION {[D -> Css] : D \in SUBSET Nat}
States == {S \in [map : Maps, max : Nat \ {0}, outs : Seq(Messages), cut : Nat] : IsState(S)}
Fronts == States \X Seq(Tokens)

\* One chunk, of the reader in state S in front of wire w, leads to S1 and w1.
Pieces == [h : Tokens, ext : BOOLEAN, ts : Moment, vals : Seq(Payloads)]
Links(x, S, w, S1, w1) ==
    /\ Fits(S, x.h, x.ext, x.ts, x.vals)
    /\ w = Toks(x.h, x.ext, x.ts, x.vals) \o w1
    /\ S1 = Taken(S, x.h, x.ts, x.vals)
Link(S, w, S1, w1) == \E x \in Pieces : Links(x, S, w, S1, w1)

\* The wire w is one chunk after the other to its end, and leads the reader from S
\* to T: <<S, w>> is in every set that holds the end, and whatever one chunk leads
\* into it.
Closed(Z, T) ==
    /\ <<T, <<>>>> \in Z
    /\ \A S, S1 \in States, w, w1 \in Seq(Tokens) :
          Link(S, w, S1, w1) /\ <<S1, w1>> \in Z => <<S, w>> \in Z
Leads(S, w, T) == \A Z \in SUBSET Fronts : Closed(Z, T) => <<S, w>> \in Z

LEMMA CsIn == ASSUME NEW cs, IsCs(cs) PROVE cs \in Css
BY DEF IsCs, Css, Rec

LEMMA StateIn == ASSUME NEW S, IsState(S) PROVE S \in States
<1>1. \A c \in DOMAIN S.map : S.map[c] \in Css
      BY CsIn DEF IsState
<1>2. S.map \in [DOMAIN S.map -> Css] /\ DOMAIN S.map \in SUBSET Nat
  <2> HIDE DEF Css
  <2> QED  BY <1>1 DEF IsState
<1>3. S.map \in Maps
  <2> HIDE DEF Css
  <2> QED  BY <1>2 DEF Maps
<1>4. S \in [map : Maps, max : Nat \ {0}, outs : Seq(Messages), cut : Nat]
  <2> HIDE DEF Maps, Messages
  <2> QED  BY <1>3 DEF IsState, State
<1> QED  BY <1>4 DEF States

LEMMA StateOf == ASSUME NEW S \in States PROVE IsState(S)
BY DEF States

\* A chunk that fits is a link.
LEMMA LinkIs ==
    ASSUME NEW S, NEW h \in Tokens, NEW ext \in BOOLEAN, NEW ts \in Moment, NEW vals \in Seq(Payloads),
           Fits(S, h, ext, ts, vals), NEW w, NEW w1, w = Toks(h, ext, ts, vals) \o w1
    PROVE  Link(S, w, Taken(S, h, ts, vals), w1)
<1> DEFINE x == [h |-> h, ext |-> ext, ts |-> ts, vals |-> vals]
<1>1. x \in Pieces /\ x.h = h /\ x.ext = ext /\ x.ts = ts /\ x.vals = vals
  <2> HIDE DEF Tokens, Payloads, Moment
  <2> QED  BY DEF Pieces
<1> HIDE DEF x
<1>2. Links(x, S, w, Taken(S, h, ts, vals), w1)
      BY <1>1 DEF Links
<1> QED  BY <1>1, <1>2 DEF Link

LEMMA LeadsNone == ASSUME NEW S PROVE Leads(S, <<>>, S)
BY DEF Leads, Closed

LEMMA LeadsStep ==
    ASSUME NEW S \in States, NEW S1 \in States, NEW T, NEW w \in Seq(Tokens), NEW w1 \in Seq(Tokens),
           Link(S, w, S1, w1), Leads(S1, w1, T)
    PROVE  Leads(S, w, T)
<1> SUFFICES ASSUME NEW Z \in SUBSET Fronts, Closed(Z, T)
             PROVE  <<S, w>> \in Z
    BY DEF Leads
<1>1. <<S1, w1>> \in Z
      BY DEF Leads
<1> HIDE DEF States, Tokens
<1> QED  BY <1>1 DEF Closed

\* A wire that is not empty starts with a chunk.
LEMMA LeadsFirst ==
    ASSUME NEW S \in States, NEW T \in States, NEW w \in Seq(Tokens), Leads(S, w, T), w # <<>>
    PROVE  \E S1 \in States, w1 \in Seq(Tokens) : Link(S, w, S1, w1) /\ Leads(S1, w1, T)
<1> DEFINE Begins(U, v) == \E S1 \in States, w1 \in Seq(Tokens) : Link(U, v, S1, w1) /\ Leads(S1, w1, T)
           Z == {p \in Fronts : p = <<T, <<>>>> \/ Begins(p[1], p[2])}
<1>1. Z \in SUBSET Fronts
      OBVIOUS
<1>2. <<T, <<>>>> \in Z
  <2>1. <<>> \in Seq(Tokens)
        BY EmptySeq
  <2> HIDE DEF States, Tokens
  <2>2. <<T, <<>>>> \in Fronts
        BY <2>1 DEF Fronts
  <2> QED  BY <2>2
<1>3. ASSUME NEW U \in States, NEW S1 \in States, NEW v \in Seq(Tokens), NEW w1 \in Seq(Tokens),
             Link(U, v, S1, w1), <<S1, w1>> \in Z
      PROVE  <<U, v>> \in Z
  <2>1. Leads(S1, w1, T)
    <3>1. CASE <<S1, w1>> = <<T, <<>>>>
      <4>1. S1 = T /\ w1 = <<>>
            BY <3>1
      <4> QED  BY <4>1, LeadsNone
    <3>2. CASE Begins(S1, w1)
      <4>1. PICK S2 \in States, w2 \in Seq(Tokens) : Link(S1, w1, S2, w2) /\ Leads(S2, w2, T)
            BY <3>2
      <4> HIDE DEF States, Tokens
      <4> QED  BY <4>1, LeadsStep
    <3>3. <<S1, w1>> = <<T, <<>>>> \/ Begins(S1, w1)
      <4> DEFINE p == <<S1, w1>>
      <4>1. (p = <<T, <<>>>> \/ Begins(p[1], p[2])) /\ p[1] = S1 /\ p[2] = w1
            BY <1>3
      <4> HIDE DEF Begins
      <4> QED  BY <4>1
    <3> QED  BY <3>1, <3>2, <3>3
  <2>2. Begins(U, v)
        BY <1>3, <2>1
  <2> DEFINE p == <<U, v>>
  <2>3. p \in Fronts /\ p[1] = U /\ p[2] = v
    <3> HIDE DEF States, Tokens
    <3> QED  BY DEF Fronts
  <2> HIDE DEF Begins, p
  <2>4. p \in Z
        BY <2>2, <2>3
  <2> QED  BY <2>4 DEF p
<1> HIDE DEF Z
<1>4. Closed(Z, T)
      BY <1>2, <1>3 DEF Closed
<1>5. <<S, w>> \in Z
      BY <1>1, <1>4 DEF Leads
<1> DEFINE p == <<S, w>>
<1>6. (p = <<T, <<>>>> \/ Begins(p[1], p[2])) /\ p[1] = S /\ p[2] = w
      BY <1>5 DEF Z
<1>7. p # <<T, <<>>>>
      BY DEF p
<1>8. Begins(S, w)
  <2> HIDE DEF Begins, p
  <2> QED  BY <1>6, <1>7
<1> QED  BY <1>8

LEMMA ToksIn ==
    ASSUME NEW h \in Tokens, NEW ext \in BOOLEAN, NEW ts \in Moment, NEW vals \in Seq(Payloads)
    PROVE  Toks(h, ext, ts, vals) \in Seq(Tokens)
<1> DEFINE v == ChunkHead(h, ext, ts)  d == Data(vals)
<1>1. ts \in Nat
      BY ChunkAssumption DEF Moment
<1>2. v \in Seq(Tokens) /\ d \in Seq(Tokens)
  <2> HIDE DEF Tokens, Payloads
  <2> QED  BY <1>1, HeadIs, DataIs
<1> HIDE DEF v, d, Tokens
<1>3. v \o d \in Seq(Tokens)
      BY <1>2, ConcatProperties
<1> QED  BY <1>3 DEF Toks, v, d

LEMMA PieceIn ==
    ASSUME NEW x \in Pieces
    PROVE  x.h \in Tokens /\ x.ext \in BOOLEAN /\ x.ts \in Moment /\ x.vals \in Seq(Payloads)
<1> HIDE DEF Tokens, Payloads, Moment
<1> QED  BY DEF Pieces

\* A chunk does not depend on what follows it.
LEMMA LinkJoin ==
    ASSUME NEW S, NEW S1, NEW w, NEW w1 \in Seq(Tokens), NEW w2 \in Seq(Tokens), Link(S, w, S1, w1)
    PROVE  Link(S, w \o w2, S1, w1 \o w2)
<1>1. PICK x \in Pieces : Links(x, S, w, S1, w1)
      BY DEF Link
<1> DEFINE t == Toks(x.h, x.ext, x.ts, x.vals)
<1>2. t \in Seq(Tokens)
  <2>1. x.h \in Tokens /\ x.ext \in BOOLEAN /\ x.ts \in Moment /\ x.vals \in Seq(Payloads)
        BY PieceIn
  <2> HIDE DEF Tokens, Payloads, Moment
  <2> QED  BY <2>1, ToksIn
<1>3. w = t \o w1
      BY <1>1 DEF Links
<1> HIDE DEF t, Tokens
<1>4. (t \o w1) \o w2 = t \o (w1 \o w2)
      BY <1>2, ConcatAssociative
<1>5. w \o w2 = t \o (w1 \o w2)
      BY <1>3, <1>4
<1>6. Links(x, S, w \o w2, S1, w1 \o w2)
      BY <1>1, <1>5 DEF Links, t
<1> QED  BY <1>6 DEF Link

\* One wire behind the other.
LEMMA LeadsJoin ==
    ASSUME NEW S \in States, NEW T \in States, NEW T2 \in States,
           NEW w \in Seq(Tokens), NEW w2 \in Seq(Tokens), Leads(S, w, T), Leads(T, w2, T2)
    PROVE  Leads(S, w \o w2, T2)
<1> DEFINE Z == {p \in Fronts : Leads(p[1], p[2] \o w2, T2)}
<1>1. Z \in SUBSET Fronts
      OBVIOUS
<1>2. ASSUME NEW U \in States, NEW v \in Seq(Tokens), Leads(U, v \o w2, T2)
      PROVE  <<U, v>> \in Z
  <2> DEFINE p == <<U, v>>
  <2> HIDE DEF States, Tokens
  <2>1. p \in Fronts /\ p[1] = U /\ p[2] = v
        BY DEF Fronts
  <2> HIDE DEF p
  <2>2. p \in Z
        BY <1>2, <2>1
  <2> QED  BY <2>2 DEF p
<1>3. <<T, <<>>>> \in Z
  <2> DEFINE e == <<>>
  <2> HIDE DEF States, Tokens
  <2>1. e \in Seq(Tokens) /\ e \o w2 = w2
        BY ConcatEmptySeq
  <2> HIDE DEF e, Z
  <2>2. <<T, e>> \in Z
        BY <1>2, <2>1
  <2> QED  BY <2>2 DEF e
<1>4. ASSUME NEW U \in States, NEW S1 \in States, NEW v \in Seq(Tokens), NEW w1 \in Seq(Tokens),
             Link(U, v, S1, w1), <<S1, w1>> \in Z
      PROVE  <<U, v>> \in Z
  <2> DEFINE p == <<S1, w1>>
  <2>1. Leads(p[1], p[2] \o w2, T2) /\ p[1] = S1 /\ p[2] = w1
        BY <1>4
  <2>2. Leads(S1, w1 \o w2, T2)
        BY <2>1
  <2> HIDE DEF States, Tokens, Z
  <2>3. Link(U, v \o w2, S1, w1 \o w2)
        BY <1>4, LinkJoin
  <2>4. v \o w2 \in Seq(Tokens) /\ w1 \o w2 \in Seq(Tokens)
        BY ConcatProperties
  <2>5. Leads(U, v \o w2, T2)
        BY <2>2, <2>3, <2>4, LeadsStep
  <2> QED  BY <1>2, <2>5
<1> HIDE DEF Z
<1>5. Closed(Z, T)
      BY <1>3, <1>4 DEF Closed
<1>6. <<S, w>> \in Z
      BY <1>1, <1>5 DEF Leads
<1> DEFINE p == <<S, w>>
<1>7. Leads(p[1], p[2] \o w2, T2) /\ p[1] = S /\ p[2] = w
      BY <1>6 DEF Z
<1> QED  BY <1>7

LEMMA TakenIn ==
    ASSUME NEW S \in States, NEW S1, NEW w, NEW w1, Link(S, w, S1, w1)
    PROVE  S1 \in States
<1>1. PICK x \in Pieces : Links(x, S, w, S1, w1)
      BY DEF Link
<1> DEFINE h == x.h  ext == x.ext  ts == x.ts  vals == x.vals
<1>2. h \in Tokens /\ ext \in BOOLEAN /\ ts \in Moment /\ vals \in Seq(Payloads)
      BY PieceIn
<1>3. Fits(S, h, ext, ts, vals) /\ S1 = Taken(S, h, ts, vals)
      BY <1>1 DEF Links
<1> HIDE DEF h, ext, ts, vals, Tokens, Payloads, Moment
<1>4. IsState(S1)
      BY <1>2, <1>3, StateOf, TakenOK
<1> QED  BY <1>4, StateIn

\* T knows the chunk streams and the messages that S knows; a message over the limit
\* that has not begun in S begins behind them.
Cuts(S, T) ==
    /\ S.cut # 0 => T.cut = S.cut
    /\ S.cut = 0 /\ T.cut # 0 => T.cut > Len(S.outs)
Grown(S, T) ==
    /\ DOMAIN S.map \subseteq DOMAIN T.map /\ \E u \in Seq(Messages) : T.outs = S.outs \o u
    /\ Cuts(S, T)

LEMMA GrownSelf == ASSUME NEW S \in States PROVE Grown(S, S)
<1>1. S.outs \in Seq(Messages)
      BY DEF States, IsState
<1> DEFINE e == <<>>
<1> HIDE DEF Messages
<1>2. e \in Seq(Messages) /\ S.outs = S.outs \o e
      BY <1>1, ConcatEmptySeq
<1> QED  BY <1>2 DEF Grown, Cuts

LEMMA GrownTwice ==
    ASSUME NEW S \in States, NEW S1, NEW T, Grown(S, S1), Grown(S1, T), T.cut \in Nat, S1.cut \in Nat
    PROVE  Grown(S, T)
<1>1. S.outs \in Seq(Messages)
      BY DEF States, IsState
<1>2. PICK u \in Seq(Messages) : S1.outs = S.outs \o u
      BY DEF Grown
<1>3. PICK u1 \in Seq(Messages) : T.outs = S1.outs \o u1
      BY DEF Grown
<1> HIDE DEF Messages
<1> DEFINE o == S.outs
<1>4. o \in Seq(Messages) /\ T.outs = (o \o u) \o u1
      BY <1>1, <1>2, <1>3
<1>5. u \o u1 \in Seq(Messages)
      BY ConcatProperties
<1> HIDE DEF o
<1>6. (o \o u) \o u1 = o \o (u \o u1)
      BY <1>4, ConcatAssociative
<1>7. Cuts(S, T)
  <2> DEFINE n == Len(o)  m == Len(o \o u)
  <2>1. n \in Nat /\ m \in Nat /\ n <= m
    <3>1. n \in Nat /\ Len(u) \in Nat /\ m = n + Len(u)
          BY <1>4, ConcatProperties, LenProperties
    <3> HIDE DEF n, m
    <3> QED  BY <3>1
  <2>2. n = Len(S.outs) /\ m = Len(S1.outs)
        BY <1>2 DEF o
  <2> HIDE DEF n, m
  <2>3. Cuts(S, S1) /\ Cuts(S1, T)
        BY DEF Grown
  <2> QED  BY <2>1, <2>2, <2>3 DEF Cuts
<1> QED  BY <1>4, <1>5, <1>6, <1>7 DEF Grown, o

LEMMA LandedGrows ==
    ASSUME NEW S \in States, NEW c, NEW cs, IsCs(cs)
    PROVE  Grown(S, Landed(S, c, cs)) /\ c \in DOMAIN Landed(S, c, cs).map
<1> DEFINE map == [d \in DOMAIN S.map \union {c} |-> IF d = c THEN cs ELSE S.map[d]]
           max == IF Full(cs) /\ cs.msgtypeid = "SetChunkSize" THEN cs.msgdata[1][1] ELSE S.max
           outs == IF Full(cs) THEN S.outs \o Gives(cs) ELSE S.outs
           T == Landed(S, c, cs)
<1> DEFINE cut == CutAt(S, cs)
<1>1. T = State(map, max, outs, cut)
      BY DEF Landed
<1> HIDE DEF T
<1>2. T.map = map /\ T.outs = outs /\ T.cut = cut
  <2> HIDE DEF map, max, outs, cut
  <2> QED  BY <1>1, StateFields
<1>3. DOMAIN S.map \subseteq DOMAIN T.map /\ c \in DOMAIN T.map
      BY <1>2
<1>4. \E u \in Seq(Messages) : T.outs = S.outs \o u
  <2>1. S.outs \in Seq(Messages)
        BY DEF States, IsState
  <2>2. Gives(cs) \in Seq(Messages)
        BY GivesOK
  <2> DEFINE e == <<>>
  <2> HIDE DEF Messages
  <2>3. e \in Seq(Messages) /\ S.outs = S.outs \o e
        BY <2>1, ConcatEmptySeq
  <2> HIDE DEF e
  <2> QED  BY <1>2, <2>2, <2>3
<1>5. Cuts(S, T)
  <2>1. S.cut \in Nat /\ Len(S.outs) \in Nat
        BY LenProperties DEF States, IsState
  <2> HIDE DEF map, outs
  <2> QED  BY <1>2, <2>1 DEF Cuts, CutAt
<1> QED  BY <1>3, <1>4, <1>5 DEF Grown, T

LEMMA LinkGrows ==
    ASSUME NEW S \in States, NEW S1, NEW w, NEW w1, Link(S, w, S1, w1)
    PROVE  Grown(S, S1)
<1>1. PICK x \in Pieces : Links(x, S, w, S1, w1)
      BY DEF Link
<1> DEFINE h == x.h  ext == x.ext  ts == x.ts  vals == x.vals
           aft == After(Began(CsOf(S, h.csid), h, ts), vals)
<1>2. h \in Tokens /\ ext \in BOOLEAN /\ ts \in Moment /\ vals \in Seq(Payloads)
      BY PieceIn
<1>3. Fits(S, h, ext, ts, vals) /\ S1 = Landed(S, h.csid, aft)
      BY <1>1 DEF Links, Taken
<1>4. IsCs(aft)
  <2> DEFINE bg == Began(CsOf(S, h.csid), h, ts)
  <2>1. IsCs(bg) /\ Len(vals) = Portion(bg, S.max) /\ S.max \in Nat
    <3> HIDE DEF h, ext, ts, vals, aft, Tokens, Payloads, Moment
    <3>1. IsState(S)
          BY StateOf
    <3>2. IsCs(bg)
          BY <1>2, <1>3, <3>1, TakenOK
    <3>3. Len(vals) = Portion(bg, S.max)
          BY <1>3 DEF Fits
    <3> QED  BY <3>1, <3>2, <3>3 DEF IsState
  <2> HIDE DEF bg, vals, Payloads
  <2>2. IsCs(After(bg, vals))
        BY <1>2, <2>1, AfterOK
  <2> QED  BY <2>2 DEF bg
<1> HIDE DEF aft
<1> QED  BY <1>3, <1>4, LandedGrows

LEMMA LeadsGrows ==
    ASSUME NEW S \in States, NEW T \in States, NEW w \in Seq(Tokens), Leads(S, w, T)
    PROVE  Grown(S, T)
<1> DEFINE Z == {p \in Fronts : Grown(p[1], T)}
<1>1. Z \in SUBSET Fronts
      OBVIOUS
<1>2. ASSUME NEW U \in States, NEW v \in Seq(Tokens), Grown(U, T)
      PROVE  <<U, v>> \in Z
  <2> DEFINE p == <<U, v>>
  <2> HIDE DEF States, Tokens
  <2>1. p \in Fronts /\ p[1] = U
        BY DEF Fronts
  <2> HIDE DEF p
  <2>2. p \in Z
        BY <1>2, <2>1
  <2> QED  BY <2>2 DEF p
<1>3. <<T, <<>>>> \in Z
  <2> DEFINE e == <<>>
  <2> HIDE DEF States, Tokens
  <2>1. e \in Seq(Tokens) /\ Grown(T, T)
        BY GrownSelf
  <2> HIDE DEF e, Z
  <2>2. <<T, e>> \in Z
        BY <1>2, <2>1
  <2> QED  BY <2>2 DEF e
<1>4. ASSUME NEW U \in States, NEW S1 \in States, NEW v \in Seq(Tokens), NEW w1 \in Seq(Tokens),
             Link(U, v, S1, w1), <<S1, w1>> \in Z
      PROVE  <<U, v>> \in Z
  <2> DEFINE p == <<S1, w1>>
  <2>1. Grown(p[1], T) /\ p[1] = S1
        BY <1>4
  <2>c. T.cut \in Nat /\ S1.cut \in Nat
        BY DEF States
  <2> HIDE DEF States, Tokens, Z, p
  <2>2. Grown(U, T)
        BY <1>4, <2>1, <2>c, LinkGrows, GrownTwice
  <2> QED  BY <1>2, <2>2
<1> HIDE DEF Z
<1>5. Closed(Z, T)
      BY <1>3, <1>4 DEF Closed
<1>6. <<S, w>> \in Z
      BY <1>1, <1>5 DEF Leads
<1> DEFINE p == <<S, w>>
<1>7. Grown(p[1], T) /\ p[1] = S
      BY <1>6 DEF Z
<1> QED  BY <1>7

LEMMA MessageFields ==
    ASSUME NEW m \in Messages
    PROVE  /\ m.type \in Kinds /\ m.time \in Nat /\ m.sid \in Nat /\ m.data \in Seq(Payloads)
           /\ m = Message(m.type, m.time, m.sid, m.data)
BY DEF Messages, Message

\* The state T that a chunk of c leads to.
LandsIn(S, c, cs, T) ==
    /\ T.map = [d \in DOMAIN S.map \union {c} |-> IF d = c THEN cs ELSE S.map[d]]
    /\ T.max = IF Full(cs) /\ cs.msgtypeid = "SetChunkSize" THEN cs.msgdata[1][1] ELSE S.max
    /\ T.outs = IF Full(cs) THEN S.outs \o Gives(cs) ELSE S.outs
    /\ T.cut = CutAt(S, cs)

LEMMA LandedFields == ASSUME NEW S, NEW c, NEW cs PROVE LandsIn(S, c, cs, Landed(S, c, cs))
<1> DEFINE map == [d \in DOMAIN S.map \union {c} |-> IF d = c THEN cs ELSE S.map[d]]
           max == IF Full(cs) /\ cs.msgtypeid = "SetChunkSize" THEN cs.msgdata[1][1] ELSE S.max
           outs == IF Full(cs) THEN S.outs \o Gives(cs) ELSE S.outs
           cut == CutAt(S, cs)
<1>1. Landed(S, c, cs) = State(map, max, outs, cut)
      BY DEF Landed
<1> HIDE DEF map, max, outs, cut
<1>2. /\ Landed(S, c, cs).map = map /\ Landed(S, c, cs).max = max /\ Landed(S, c, cs).outs = outs
      /\ Landed(S, c, cs).cut = cut
      BY <1>1, StateFields
<1> QED  BY <1>2 DEF map, max, outs, cut, LandsIn

LEMMA LinkFirst ==
    ASSUME NEW S, NEW w, NEW S1, NEW w1 \in Seq(Tokens), Link(S, w, S1, w1)
    PROVE  w # <<>> /\ w[1].k = "hdr"
<1>1. PICK x \in Pieces : Links(x, S, w, S1, w1)
      BY DEF Link
<1> DEFINE h == x.h  ext == x.ext  ts == x.ts  vals == x.vals
<1>2. h \in Tokens /\ ext \in BOOLEAN /\ ts \in Moment /\ ts \in Nat /\ vals \in Seq(Payloads)
  <2>1. h \in Tokens /\ ext \in BOOLEAN /\ ts \in Moment /\ vals \in Seq(Payloads)
        BY PieceIn
  <2> QED  BY <2>1, ChunkAssumption DEF Moment
<1>3. w = Toks(h, ext, ts, vals) \o w1 /\ h.k = "hdr"
      BY <1>1 DEF Links, Fits
<1>4. Found(w, h, ext, ts, vals, Data(vals) \o w1)
  <2> HIDE DEF h, ext, ts, vals, Tokens, Payloads, Moment
  <2> QED  BY <1>2, <1>3, ToksAre
<1> QED  BY <1>3, <1>4 DEF Found

\* A wire with nothing on it leads nowhere.
LEMMA LeadsNowhere ==
    ASSUME NEW S \in States, NEW T \in States, Leads(S, <<>>, T)
    PROVE  S = T
<1> DEFINE e == <<>>
           Z == {p \in Fronts : p[2] # e \/ p = <<T, e>>}
<1>1. e \in Seq(Tokens)
      BY EmptySeq
<1> HIDE DEF States, Tokens
<1>2. <<T, e>> \in Z
  <2>1. <<T, e>> \in Fronts
        BY <1>1 DEF Fronts
  <2> QED  BY <2>1
<1>3. ASSUME NEW U \in States, NEW S1 \in States, NEW v \in Seq(Tokens), NEW w1 \in Seq(Tokens),
             Link(U, v, S1, w1)
      PROVE  <<U, v>> \in Z
  <2>1. v # e
        BY <1>3, LinkFirst
  <2>2. <<U, v>> \in Fronts /\ <<U, v>>[2] = v
        BY DEF Fronts
  <2> HIDE DEF e
  <2> QED  BY <2>1, <2>2
<1>4. Z \in SUBSET Fronts /\ Closed(Z, T)
  <2> HIDE DEF Z
  <2>1. Closed(Z, T)
        BY <1>2, <1>3 DEF Closed
  <2>2. Z \in SUBSET Fronts
        BY DEF Z
  <2> QED  BY <2>1, <2>2
<1>5. <<S, e>> \in Z
  <2> HIDE DEF Z
  <2> QED  BY <1>4 DEF Leads
<1>6. <<S, e>> = <<T, e>>
      BY <1>5
<1> QED  BY <1>6

-----------------------------------------------------------------------------
(* The reader's steps                                                      *)

\* The reader's variables have their types, and its chunk streams their fill.
ReaderOK ==
    /\ IsState(Reader) /\ wire \in Seq(Tokens) /\ out \in Seq(Messages) /\ IsAgg(aggmsg)
    /\ readAckSize \in Nat /\ ackn \in 0..AckMod - 1 /\ lastackn \in 0..AckMod - 1
    /\ Cardinality(DOMAIN readcsmap) <= MaxCsid

LEMMA ReaderFields == Reader.map = readcsmap /\ Reader.max = ReadMaxChunkSize /\ Reader.cut = 0
BY StateFields DEF Reader

LEMMA OKImplies == ReaderOK => ReaderTypeOK
<1> SUFFICES ASSUME ReaderOK
             PROVE  ReaderTypeOK
    OBVIOUS
<1>1. \A c \in DOMAIN readcsmap : IsCs(readcsmap[c]) /\ ~TooBig(readcsmap[c])
      BY ReaderFields DEF ReaderOK, IsState
<1>2. ReadMaxChunkSize \in Nat
      BY ReaderFields DEF ReaderOK, IsState
<1>3. ASSUME NEW cs, IsCs(cs), ~TooBig(cs)
      PROVE  /\ cs.timenow \in 0..TimeMod - 1 /\ cs.timedelta \in 0..TimeMod - 1
             /\ cs.timeext \in 0..TimeMod - 1 /\ cs.hastimeext \in BOOLEAN
             /\ cs.msghdrtype \in 0..2
             /\ cs.msgdatalen <= MaxMsgSize /\ cs.msgdataleft \in 0..cs.msgdatalen
             /\ Len(cs.msgdata) = cs.msgdatalen - cs.msgdataleft
      BY <1>3, ChunkAssumption DEF IsCs, Moment, TooBig
<1> QED  BY <1>1, <1>2, <1>3 DEF ReaderOK, ReaderTypeOK

LEMMA NoAggOK == IsAgg(NoAgg) /\ NoAgg.parts = <<>>
<1>1. 0 \in Moment
      BY ChunkAssumption DEF Moment
<1>2. NoAgg.parts = <<>>
      BY DEF NoAgg
<1>3. NoAgg.time = 0 /\ NoAgg.first = 0 /\ NoAgg.idx = 0 /\ <<>> \in Seq(Payloads)
      BY DEF NoAgg
<1>4. NoAgg = Agg(NoAgg.time, NoAgg.parts, NoAgg.first, NoAgg.idx)
      BY DEF NoAgg, Agg
<1> QED  BY <1>1, <1>2, <1>3, <1>4 DEF IsAgg

\* A part of an aggregate takes with it the first of the messages it is to give.
LEMMA UnpackFirst ==
    ASSUME NEW agg, IsAgg(agg), agg.parts # <<>>, NEW first,
           first = IF agg.idx = 0 THEN agg.parts[1][1] ELSE agg.first,
           NEW m, m = Message("Video", AggTime(agg, first, agg.parts[1][1]), 0, <<agg.parts[1]>>),
           NEW rest, rest.parts = Tail(agg.parts),
           Tail(agg.parts) # <<>> => rest.time = agg.time /\ rest.first = first /\ rest.idx # 0
    PROVE  Unpack(agg) = <<m>> \o Unpack(rest) /\ m \in Messages
<1> DEFINE p == agg.parts  n == Len(p)
           M(i) == Message("Video", AggTime(agg, first, p[i][1]), 0, <<p[i]>>)
           u == Unpack(agg)  q == Tail(p)  v == Unpack(rest)
<1>1. p \in Seq(Payloads) /\ p # <<>> /\ n \in Nat \ {0}
      BY EmptySeq, LenProperties DEF IsAgg
<1>2. q \in Seq(Payloads) /\ Len(q) = n - 1 /\ \A i \in 1..n - 1 : q[i] = p[i + 1]
  <2> HIDE DEF p, Payloads
  <2> QED  BY <1>1, HeadTailProperties
<1>3. u \in Seq(Messages) /\ Len(u) = n /\ \A i \in 1..n : u[i] = M(i)
  <2>1. u \in Seq(Messages) /\ Len(u) = n
        BY UnpackOK
  <2>2. u = [i \in 1..n |-> M(i)]
        BY DEF Unpack
  <2> HIDE DEF M, n, u
  <2> QED  BY <2>1, <2>2
<1>4. m \in Messages
  <2>1. 1 \in 1..n /\ u[1] = M(1) /\ M(1) = m
        BY <1>1, <1>3
  <2> HIDE DEF u, n, M, Messages
  <2> QED  BY <1>3, <2>1, ElementOfSeq
<1>5. v \in Seq(Messages) /\ Len(v) = n - 1 /\ \A i \in 1..n - 1 : v[i] = M(i + 1)
  <2>1. CASE q = <<>>
    <3>1. v = <<>>
          BY <2>1, UnpackNothing
    <3>2. n - 1 = 0
          BY <1>2, <2>1
    <3> HIDE DEF v, n, M
    <3> QED  BY <3>1, <3>2
  <2>2. CASE q # <<>>
    <3>1. rest.time = agg.time /\ rest.first = first /\ rest.idx # 0 /\ rest.parts = q
          BY <2>2
    <3>2. \A t : AggTime(rest, first, t) = AggTime(agg, first, t)
          BY <3>1 DEF AggTime
    <3>3. v = [i \in 1..n - 1 |->
                  Message("Video", AggTime(agg, first, q[i][1]), 0, <<q[i]>>)]
      <4>1. Len(rest.parts) = n - 1
            BY <1>2, <3>1
      <4> HIDE DEF q, n, p
      <4> QED  BY <3>1, <3>2, <4>1 DEF Unpack
    <3>4. v = [i \in 1..n - 1 |-> M(i + 1)]
          BY <1>2, <3>3
    <3>5. \A i \in 1..n - 1 : M(i + 1) \in Messages
      <4> TAKE i \in 1..n - 1
      <4>1. i + 1 \in 1..n
            BY <1>1
      <4>2. u[i + 1] = M(i + 1)
            BY <1>3, <4>1
      <4> HIDE DEF u, n, M, Messages
      <4> QED  BY <1>3, <4>1, <4>2, ElementOfSeq
    <3> HIDE DEF v, M, n, Messages
    <3>6. n - 1 \in Nat
          BY <1>1
    <3> QED  BY <3>4, <3>5, <3>6
  <2> QED  BY <2>1, <2>2
<1>6. M(1) = m
      OBVIOUS
<1> HIDE DEF u, v, M, n, Messages
<1> DEFINE s == <<m>>
<1>7. s \in Seq(Messages) /\ Len(s) = 1 /\ s[1] = m
      BY <1>4
<1> HIDE DEF s
<1>8. /\ s \o v \in Seq(Messages) /\ Len(s \o v) = 1 + (n - 1)
      /\ \A i \in 1..1 + (n - 1) : (s \o v)[i] = IF i <= 1 THEN s[i] ELSE v[i - 1]
  <2>1. s \in Seq(Messages) /\ v \in Seq(Messages) /\ Len(s) = 1 /\ Len(v) = n - 1
        BY <1>5, <1>7
  <2>2. /\ s \o v \in Seq(Messages) /\ Len(s \o v) = Len(s) + Len(v)
        /\ \A i \in 1..Len(s) + Len(v) : (s \o v)[i] = IF i <= Len(s) THEN s[i] ELSE v[i - Len(s)]
        BY <2>1, ConcatProperties
  <2> QED  BY <2>1, <2>2
<1>9. Len(s \o v) = Len(u) /\ Len(u) = n
      BY <1>1, <1>3, <1>8
<1>10. \A i \in 1..n : (s \o v)[i] = u[i]
  <2> TAKE i \in 1..n
  <2>1. i \in 1..1 + (n - 1)
        BY <1>1
  <2>2. CASE i = 1
        BY <1>3, <1>6, <1>7, <1>8, <2>1, <2>2
  <2>3. CASE i # 1
    <3>1. i - 1 \in 1..n - 1 /\ (i - 1) + 1 = i /\ ~(i <= 1)
          BY <1>1, <2>3
    <3> QED  BY <1>3, <1>5, <1>8, <2>1, <3>1
  <2> QED  BY <2>2, <2>3
<1>11. s \o v = u
       BY <1>3, <1>8, <1>9, <1>10, SeqEqual
<1> QED  BY <1>4, <1>11 DEF s, u, v

\* nextAggPart changes nothing of what the reader makes of the chunks to come.
LEMMA AggTurn ==
    ASSUME ReaderOK, NextAggPart
    PROVE  ReaderOK' /\ Reader' = Reader /\ wire' = wire /\ err' = err /\ readcsmap' = readcsmap
<1> DEFINE p == aggmsg.parts
           part == Head(p)
           first == IF aggmsg.idx = 0 THEN part[1] ELSE aggmsg.first
           m == Message("Video", AggTime(aggmsg, first, part[1]), 0, <<part>>)
           next == [aggmsg EXCEPT !.parts = Tail(@), !.first = first, !.idx = @ + 1]
<1>1. /\ p # <<>> /\ out' = Append(out, m)
      /\ aggmsg' = IF Tail(p) = <<>> THEN NoAgg ELSE next
      /\ UNCHANGED <<wire, readcsmap, ReadMaxChunkSize, readAckSize, ackn, lastackn, replies, err, read>>
      BY DEF NextAggPart
<1>2. /\ IsAgg(aggmsg) /\ p \in Seq(Payloads) /\ aggmsg.time \in Moment /\ aggmsg.first \in Nat
      /\ aggmsg.idx \in Nat /\ out \in Seq(Messages)
      BY DEF ReaderOK, IsAgg
<1>3. part = p[1] /\ part \in Payloads /\ Tail(p) \in Seq(Payloads)
  <2> HIDE DEF p, Payloads
  <2> QED  BY <1>1, <1>2, HeadTailProperties
<1>4. first \in Nat
      BY <1>2, <1>3 DEF Payloads
<1>5. next = Agg(aggmsg.time, Tail(p), first, aggmsg.idx + 1)
  <2>1. aggmsg = Agg(aggmsg.time, aggmsg.parts, aggmsg.first, aggmsg.idx)
        BY <1>2 DEF IsAgg
  <2> DEFINE t == aggmsg.time  i == aggmsg.idx + 1  q == Tail(p)
             r1 == [aggmsg EXCEPT !.parts = q]
             r2 == [r1 EXCEPT !.first = first]
             r3 == [r2 EXCEPT !.idx = i]
  <2>2. next = r3
        BY Zenon
  <2>3. aggmsg = Agg(t, p, aggmsg.first, aggmsg.idx)
        BY <2>1
  <2> HIDE DEF t, i, q, p, first, next
  <2>4. r1 = Agg(t, q, aggmsg.first, aggmsg.idx)
        BY <2>3 DEF Agg
  <2> HIDE DEF r1
  <2>5. r2 = Agg(t, q, first, aggmsg.idx)
        BY <2>4 DEF Agg
  <2> HIDE DEF r2
  <2>6. r3 = Agg(t, q, first, i)
        BY <2>5 DEF Agg
  <2> HIDE DEF r3
  <2> QED  BY <2>2, <2>6 DEF t, i, q
<1> HIDE DEF next
<1>6. /\ next.time = aggmsg.time /\ next.parts = Tail(p) /\ next.first = first
      /\ next.idx = aggmsg.idx + 1
  <2> DEFINE i == aggmsg.idx + 1  q == Tail(p)
  <2> HIDE DEF i, q, first
  <2>1. next = Agg(aggmsg.time, q, first, i)
        BY <1>5 DEF i, q
  <2>2. next.time = aggmsg.time /\ next.parts = q /\ next.first = first /\ next.idx = i
        BY <2>1 DEF Agg
  <2> QED  BY <2>2 DEF i, q
<1>7. IsAgg(next)
  <2>1. aggmsg.idx + 1 \in Nat
        BY <1>2
  <2> HIDE DEF p, first
  <2> QED  BY <1>2, <1>3, <1>4, <1>5, <1>6, <2>1 DEF IsAgg
<1>8. IsAgg(aggmsg')
      BY <1>1, <1>7, NoAggOK
<1> DEFINE rest == aggmsg'
<1>9. rest.parts = Tail(p)
      BY <1>1, <1>6, NoAggOK
<1>10. Tail(p) # <<>> => rest.time = aggmsg.time /\ rest.first = first /\ rest.idx # 0
  <2>1. aggmsg.idx + 1 # 0
        BY <1>2
  <2> QED  BY <1>1, <1>6, <2>1
<1>11. Unpack(aggmsg) = <<m>> \o Unpack(rest) /\ m \in Messages
  <2>1. first = IF aggmsg.idx = 0 THEN aggmsg.parts[1][1] ELSE aggmsg.first
        BY <1>3
  <2>2. m = Message("Video", AggTime(aggmsg, first, aggmsg.parts[1][1]), 0, <<aggmsg.parts[1]>>)
        BY <1>3
  <2>3. aggmsg.parts # <<>> /\ rest.parts = Tail(aggmsg.parts)
        BY <1>1, <1>9
  <2>4. Tail(aggmsg.parts) # <<>> => rest.time = aggmsg.time /\ rest.first = first /\ rest.idx # 0
        BY <1>10
  <2> HIDE DEF first, m, rest, p, part
  <2> QED  BY <1>2, <2>1, <2>2, <2>3, <2>4, UnpackFirst
<1> DEFINE u == Unpack(rest)
<1>12. u \in Seq(Messages)
       BY <1>8, UnpackOK
<1>13. out' \o u = out \o Unpack(aggmsg) /\ out' \in Seq(Messages)
  <2> HIDE DEF m, u, Messages
  <2>1. Append(out, m) = out \o <<m>> /\ <<m>> \in Seq(Messages)
        BY <1>2, <1>11, AppendIsConcat
  <2> DEFINE s == <<m>>
  <2>2. s \in Seq(Messages) /\ out' = out \o s /\ Unpack(aggmsg) = s \o u
        BY <1>1, <1>11, <2>1 DEF u
  <2> HIDE DEF s
  <2>3. (out \o s) \o u = out \o (s \o u) /\ out \o s \in Seq(Messages)
    <3>1. out \in Seq(Messages) /\ s \in Seq(Messages) /\ u \in Seq(Messages)
          BY <1>2, <1>12, <2>2
    <3>2. (out \o s) \o u = out \o (s \o u)
          BY <3>1, ConcatAssociative
    <3>3. out \o s \in Seq(Messages)
          BY <3>1, ConcatProperties
    <3> QED  BY <3>2, <3>3
  <2> QED  BY <2>2, <2>3
<1>14. Unpack(aggmsg)' = u
       BY DEF Unpack, AggTime
<1> HIDE DEF u, m, next, first, part, p
<1>15. Reader' = State(readcsmap, ReadMaxChunkSize, out' \o u, 0)
       BY <1>1, <1>14 DEF Reader
<1>16. Reader' = Reader
       BY <1>13, <1>15 DEF Reader
<1>17. IsState(Reader)'
  <2>1. IsState(Reader')
        BY <1>16 DEF ReaderOK
  <2> QED  BY <2>1 DEF IsState, IsCs
<1>18. IsAgg(aggmsg)'
       BY <1>8 DEF IsAgg
<1>19. ReaderOK'
       BY <1>1, <1>13, <1>17, <1>18 DEF ReaderOK
<1> QED  BY <1>1, <1>16, <1>19

\* The payload of a chunk leaves the reader's other variables what they are.
LEMMA LandsTypes ==
    ASSUME ReaderOK, NEW c, NEW done, NEW v, Lands(c, done, v), IsCs(done),
           Full(done) /\ done.msgtypeid \in Controls => done.msgdata # <<>>
    PROVE  /\ out' \in Seq(Messages) /\ IsAgg(aggmsg)' /\ readAckSize' \in Nat
           /\ ackn' \in 0..AckMod - 1 /\ lastackn' \in 0..AckMod - 1
<1>1. PICK acks : IF Full(done) THEN Deliver(done, acks)
                  ELSE replies' = acks /\ UNCHANGED <<ReadMaxChunkSize, readAckSize, aggmsg, out>>
      BY DEF Lands
<1>2. ackn' \in 0..AckMod - 1 /\ lastackn' \in 0..AckMod - 1
      BY DEF Lands, ReaderOK
<1>3. out \in Seq(Messages) /\ IsAgg(aggmsg) /\ readAckSize \in Nat
      BY DEF ReaderOK
<1>4. CASE ~Full(done)
  <2>1. UNCHANGED <<readAckSize, aggmsg, out>>
        BY <1>1, <1>4
  <2>2. IsAgg(aggmsg)'
        BY <1>3, <2>1 DEF IsAgg
  <2> QED  BY <1>2, <1>3, <2>1, <2>2
<1>5. CASE Full(done) /\ done.msgtypeid = "Aggregate"
  <2> DEFINE agg == [time |-> done.timenow, parts |-> done.msgdata, first |-> 0, idx |-> 0]
  <2>1. Deliver(done, acks)
        BY <1>1, <1>5
  <2>2. aggmsg' = agg /\ readAckSize' = readAckSize /\ out' = out
        BY <1>5, <2>1 DEF Deliver
  <2>3. IsAgg(agg)
        BY DEF IsCs, IsAgg, Agg
  <2> HIDE DEF agg
  <2>4. IsAgg(aggmsg)'
        BY <2>2, <2>3 DEF IsAgg
  <2> QED  BY <1>2, <1>3, <2>2, <2>4
<1>6. CASE Full(done) /\ done.msgtypeid # "Aggregate"
  <2> DEFINE m == Message(done.msgtypeid, done.timenow, done.msgsid, done.msgdata)
  <2>1. HandleEvent(m, acks)
        BY <1>1, <1>6 DEF Deliver
  <2>2. /\ out' = Append(out, m) /\ aggmsg' = NoAgg
        /\ readAckSize' = IF done.msgtypeid = "WindowAckSize" THEN done.msgdata[1][1] ELSE readAckSize
        BY <2>1 DEF HandleEvent, Message
  <2>3. m \in Messages
    <3>1. done.msgtypeid \in Kinds /\ done.timenow \in Nat /\ done.msgsid \in Nat /\ done.msgdata \in Seq(Payloads)
          BY ChunkAssumption DEF IsCs, Moment
    <3> QED  BY <3>1, MessageIn
  <2> HIDE DEF m
  <2>4. out' \in Seq(Messages)
    <3> HIDE DEF Messages
    <3> QED  BY <1>3, <2>2, <2>3
  <2>5. readAckSize' \in Nat
    <3>1. CASE done.msgtypeid = "WindowAckSize"
      <4>1. done.msgdata \in Seq(Payloads) /\ done.msgdata # <<>>
            BY <1>6, <3>1 DEF IsCs, Controls
      <4>2. 1 \in 1..Len(done.msgdata)
            BY <4>1, EmptySeq
      <4>3. done.msgdata[1] \in Payloads
            BY <4>1, <4>2, ElementOfSeq
      <4> QED  BY <2>2, <3>1, <4>3 DEF Payloads
    <3>2. CASE done.msgtypeid # "WindowAckSize"
          BY <1>3, <2>2, <3>2
    <3> QED  BY <3>1, <3>2
  <2>6. IsAgg(aggmsg)'
        BY <2>2, NoAggOK DEF IsAgg
  <2> QED  BY <1>2, <2>4, <2>5, <2>6
<1> QED  BY <1>4, <1>5, <1>6

\* The reader has returned no error.
Fine == err = ""

\* k tokens more have been read, and are acknowledged once they are more than the window.
Counts(k) ==
    LET n == (ackn + k) % AckMod
    IN  /\ ackn' = n /\ lastackn' = IF AckDue(n) THEN n ELSE lastackn
        /\ read \in Nat => read' = IF AckDue(n) THEN 0 ELSE read + k

LEMMA PayloadCounts ==
    ASSUME NEW c, NEW cs, NEW h \in Tokens, NEW ext \in BOOLEAN, NEW ts \in Nat,
           NEW vals \in Seq(Payloads), NEW v \in Seq(Tokens), wire = Toks(h, ext, ts, vals) \o v,
           ackn \in Nat, NEW max \in Nat, Len(vals) <= max,
           Len(vals) = Portion(cs, ReadMaxChunkSize), Payload(c, cs, Data(vals) \o v)
    PROVE  \E k \in 1..2 + max : Counts(k)
<1> DEFINE rest == Data(vals) \o v  size == Size(cs)  hd == IF ext THEN 2 ELSE 1
           n == (ackn + Len(wire) - Len(rest) + size) % AckMod
           k == hd + Len(vals)
<1>1. /\ ackn' = n /\ lastackn' = IF AckDue(n) THEN n ELSE lastackn
      /\ read' = IF AckDue(n) THEN 0 ELSE read + Len(wire) - Len(rest) + size
      BY DEF Payload
<1>2. size = Len(vals) /\ Len(vals) \in Nat
  <2>1. size = Len(vals)
        BY DEF Size, Portion
  <2> QED  BY <2>1, LenProperties
<1>3. Len(rest) \in Nat /\ Len(wire) = hd + Len(rest)
  <2>1. Found(wire, h, ext, ts, vals, rest)
    <3> HIDE DEF Tokens, Payloads
    <3> QED  BY ToksAre
  <2> HIDE DEF rest
  <2> QED  BY <2>1 DEF Found
<1>4. hd \in 1..2
      OBVIOUS
<1> HIDE DEF hd, size, n, rest
<1>5. k \in 1..2 + max /\ k \in Nat
      BY <1>2, <1>4
<1>6. ackn + Len(wire) - Len(rest) + size = ackn + k
      BY <1>2, <1>3, <1>4
<1>7. read \in Nat => read + Len(wire) - Len(rest) + size = read + k
      BY <1>2, <1>3, <1>4
<1> HIDE DEF k
<1>8. n = (ackn + k) % AckMod
      BY <1>6 DEF n
<1> QED  BY <1>1, <1>5, <1>7, <1>8 DEF Counts

\* The reader in front of a wire that leads it to T reads the first chunk of it, and
\* the rest leads it there; unless T has more chunk streams than a reader keeps, or
\* the message that comes next is over the limit.
LEMMA ChunkTurn ==
    ASSUME ReaderOK, Fine, aggmsg.parts = <<>>, NEW T \in States, IsFiniteSet(DOMAIN T.map),
           NEW front \in Seq(Tokens), NEW tail \in Seq(Tokens), wire = front \o tail, front # <<>>,
           Leads(Reader, front, T), ReaderNext
    PROVE  \/ Fail("TooManyCsid") /\ Cardinality(DOMAIN T.map) > MaxCsid
           \/ Fail("MsgDataTooBig") /\ T.cut = Len(out) + 1
           \/ /\ ReaderOK' /\ Fine' /\ DOMAIN readcsmap' \subseteq DOMAIN T.map
              /\ \E f \in Seq(Tokens) : wire' = f \o tail /\ Leads(Reader', f, T)
              /\ \E k \in 1..2 + ReadMaxChunkSize : Counts(k)
<1> DEFINE R == Reader
<1>1. R \in States /\ IsState(R) /\ R.map = readcsmap /\ R.max = ReadMaxChunkSize
      BY StateIn, ReaderFields DEF ReaderOK
<1>2. PICK S1 \in States, w1 \in Seq(Tokens) : Link(R, front, S1, w1) /\ Leads(S1, w1, T)
  <2> HIDE DEF R, States, Tokens
  <2> QED  BY <1>1, LeadsFirst DEF R
<1>3. PICK x \in Pieces : Links(x, R, front, S1, w1)
      BY <1>2 DEF Link
<1> DEFINE h == x.h  ext == x.ext  ts == x.ts  vals == x.vals
           c == h.csid
           bg == Began(CsOf(R, c), h, ts)
           aft == After(bg, vals)
           v == w1 \o tail
<1>4. h \in Tokens /\ ext \in BOOLEAN /\ ts \in Moment /\ vals \in Seq(Payloads)
      BY PieceIn
<1>5. /\ Fits(R, h, ext, ts, vals) /\ front = Toks(h, ext, ts, vals) \o w1
      /\ S1 = Taken(R, h, ts, vals) /\ S1 = Landed(R, c, aft)
      BY <1>3 DEF Links, Taken
<1> HIDE DEF Pieces, States, Tokens, Payloads, Moment, Messages
<1>6. v \in Seq(Tokens) /\ wire = Toks(h, ext, ts, vals) \o v
  <2> DEFINE t == Toks(h, ext, ts, vals)
  <2> HIDE DEF h, ext, ts, vals, Tokens, Payloads, Moment
  <2>1. t \in Seq(Tokens) /\ front = t \o w1
        BY <1>4, <1>5, ToksIn
  <2> HIDE DEF t
  <2>2. v \in Seq(Tokens)
        BY ConcatProperties
  <2>3. (t \o w1) \o tail = t \o v
    <3>1. t \in Seq(Tokens)
          BY <2>1
    <3>2. (t \o w1) \o tail = t \o (w1 \o tail)
          BY <3>1, ConcatAssociative
    <3> QED  BY <3>2
  <2>4. wire = t \o v
        BY <2>1, <2>3
  <2> QED  BY <2>2, <2>4 DEF t
<1> HIDE DEF v
<1>7. IsCs(bg) /\ Len(vals) = Portion(bg, R.max) /\ c \in Nat
      /\ (Full(aft) /\ aft.msgtypeid \in Controls => aft.msgdata # <<>>)
  <2>1. Len(vals) = Portion(bg, R.max)
        /\ (Full(aft) /\ aft.msgtypeid \in Controls => aft.msgdata # <<>>)
        BY <1>5 DEF Fits
  <2>2. IsCs(bg) /\ c \in Nat
    <3> HIDE DEF h, ext, ts, vals, Tokens, Payloads, Moment, R
    <3> QED  BY <1>1, <1>4, <1>5, TakenOK
  <2> QED  BY <2>1, <2>2
<1>8. IsCs(aft)
  <2>1. R.max \in Nat
        BY <1>1 DEF IsState
  <2> HIDE DEF bg, vals, Payloads, R
  <2>2. IsCs(After(bg, vals))
        BY <1>4, <1>7, <2>1, AfterOK
  <2> QED  BY <2>2
<1>9. Grown(R, S1) /\ Grown(S1, T) /\ c \in DOMAIN S1.map
  <2> HIDE DEF aft, R, States, Tokens, c
  <2> QED  BY <1>1, <1>2, <1>5, <1>8, LandedGrows, LeadsGrows
<1>10. DOMAIN readcsmap \union {c} \subseteq DOMAIN T.map
       BY <1>1, <1>9 DEF Grown
<1>11. IF TooManyCsid(c) THEN Fail("TooManyCsid") ELSE Reads(c, bg, Data(vals) \o v)
  <2> HIDE DEF h, ext, ts, vals, Tokens, Payloads, Moment
  <2>1. Fits(Reader, h, ext, ts, vals) /\ IsState(Reader)
        BY <1>1, <1>5 DEF R
  <2>2. IF TooManyCsid(h.csid) THEN Fail("TooManyCsid")
        ELSE Reads(h.csid, Began(CsOf(Reader, h.csid), h, ts), Data(vals) \o v)
        BY <1>4, <1>6, <2>1, ChunkReads
  <2> QED  BY <2>2
<1>12. CASE TooManyCsid(c)
  <2>1. Cardinality(DOMAIN readcsmap \union {c}) <= Cardinality(DOMAIN T.map)
        BY <1>10, FS_Subset
  <2>2. Cardinality(DOMAIN readcsmap \union {c}) > MaxCsid
        BY <1>12 DEF TooManyCsid
  <2>3. IsFiniteSet(DOMAIN readcsmap \union {c})
        BY <1>10, FS_Subset
  <2>4. Cardinality(DOMAIN readcsmap \union {c}) \in Nat /\ Cardinality(DOMAIN T.map) \in Nat
        BY <2>3, FS_CardinalityType
  <2>5. Cardinality(DOMAIN T.map) > MaxCsid
    <3> DEFINE a == Cardinality(DOMAIN readcsmap \union {c})  b == Cardinality(DOMAIN T.map)
    <3>1. a <= b /\ a > MaxCsid /\ a \in Nat /\ b \in Nat /\ MaxCsid \in Nat
          BY <2>1, <2>2, <2>4, ChunkAssumption
    <3> HIDE DEF a, b
    <3>2. b > MaxCsid
          BY <3>1
    <3> QED  BY <3>2 DEF b
  <2> QED  BY <1>11, <1>12, <2>5
<1>t. TooBig(aft) <=> TooBig(bg)
  <2>1. aft.msgdatalen = bg.msgdatalen
    <3> HIDE DEF bg, vals
    <3> QED  BY <1>7, AfterIs, RecFields DEF IsCs
  <2> QED  BY <2>1 DEF TooBig
<1>14. CASE ~TooManyCsid(c) /\ TooBig(bg)
  <2>1. Fail("MsgDataTooBig")
    <3> HIDE DEF c, bg, vals
    <3> QED  BY <1>11, <1>14 DEF Reads
  <2> HIDE DEF aft, bg, c
  <2>2. R.cut = 0 /\ R.outs = out
    <3>1. Unpack(aggmsg) = <<>> /\ out \in Seq(Messages)
          BY UnpackNothing DEF ReaderOK
    <3>2. out \o Unpack(aggmsg) = out
          BY <3>1, ConcatEmptySeq
    <3> QED  BY <3>2, StateFields DEF Reader
  <2>3. S1.cut = Len(out) + 1
    <3>1. LandsIn(R, c, aft, S1)
          BY <1>5, LandedFields
    <3> QED  BY <3>1, <2>2, <1>t, <1>14 DEF LandsIn, CutAt
  <2>4. T.cut = Len(out) + 1
    <3>1. Len(out) \in Nat
          BY LenProperties DEF ReaderOK
    <3>2. S1.cut # 0
          BY <2>3, <3>1
    <3>3. Cuts(S1, T)
          BY <1>9 DEF Grown
    <3> QED  BY <2>3, <3>2, <3>3 DEF Cuts
  <2> QED  BY <2>1, <2>4
<1>13. CASE ~TooManyCsid(c) /\ ~TooBig(bg)
  <2> HIDE DEF c, bg, vals
  <2>1. Payload(c, bg, Data(vals) \o v)
        BY <1>11, <1>13 DEF Reads
  <2>2. Lands(c, aft, v)
    <3>1. wire \in Seq(Tokens) /\ ackn \in Nat
          BY DEF ReaderOK
    <3>2. Len(vals) = Portion(bg, ReadMaxChunkSize)
      <4> HIDE DEF R
      <4> QED  BY <1>1, <1>7
    <3> HIDE DEF Tokens, Payloads
    <3> QED  BY <1>4, <1>6, <2>1, <3>1, <3>2, PayloadLands
  <2>12. \E k \in 1..2 + ReadMaxChunkSize : Counts(k)
    <3> DEFINE max == ReadMaxChunkSize
    <3>1. /\ ts \in Nat /\ ackn \in Nat /\ max \in Nat /\ bg.msgdataleft \in Nat
          /\ Len(vals) = Portion(bg, max)
      <4>1. R.max = max /\ R.max \in Nat
            BY <1>1 DEF IsState
      <4> HIDE DEF R
      <4> QED  BY <1>4, <1>7, <4>1, ChunkAssumption DEF ReaderOK, Moment, IsCs
    <3>2. Len(vals) <= max
          BY <3>1 DEF Portion
    <3> HIDE DEF h, ext, ts, vals, bg, max, Tokens, Payloads
    <3>3. Len(vals) = Portion(bg, ReadMaxChunkSize)
          BY <3>1 DEF max
    <3>4. \E k \in 1..2 + max : Counts(k)
          BY <1>4, <1>6, <2>1, <3>1, <3>2, <3>3, PayloadCounts
    <3> QED  BY <3>4 DEF max
  <2> HIDE DEF aft
  <2>3. Reader' = Landed(R, c, aft)
    <3>1. out \in Seq(Messages)
          BY DEF ReaderOK
    <3> QED  BY <1>8, <1>t, <1>13, <2>2, <3>1, PayloadReads
  <2>4. Reader' = S1
        BY <1>5, <2>3
  <2>5. /\ out' \in Seq(Messages) /\ IsAgg(aggmsg)' /\ readAckSize' \in Nat
        /\ ackn' \in 0..AckMod - 1 /\ lastackn' \in 0..AckMod - 1
        BY <1>7, <1>8, <2>2, LandsTypes
  <2>6. wire' = v /\ Fine' /\ DOMAIN readcsmap' = DOMAIN readcsmap \union {c}
        BY <2>2 DEF Lands, Fine
  <2>7. IsState(Reader)'
    <3>1. IsState(Reader')
          BY <2>4, StateOf
    <3> QED  BY <3>1 DEF IsState, IsCs
  <2>8. Cardinality(DOMAIN readcsmap') <= MaxCsid
    <3>1. IsFiniteSet(DOMAIN readcsmap \union {c})
          BY <1>10, FS_Subset
    <3>2. Cardinality(DOMAIN readcsmap \union {c}) \in Nat
          BY <3>1, FS_CardinalityType
    <3> DEFINE a == Cardinality(DOMAIN readcsmap \union {c})
    <3>3. a \in Nat /\ ~(a > MaxCsid) /\ MaxCsid \in Nat /\ Cardinality(DOMAIN readcsmap') = a
          BY <1>13, <2>6, <3>2, ChunkAssumption DEF TooManyCsid
    <3> HIDE DEF a
    <3>4. a <= MaxCsid
          BY <3>3
    <3> QED  BY <3>3, <3>4
  <2>9. ReaderOK'
        BY <1>6, <2>5, <2>6, <2>7, <2>8 DEF ReaderOK
  <2>10. DOMAIN readcsmap' \subseteq DOMAIN T.map
         BY <1>10, <2>6
  <2>11. wire' = w1 \o tail /\ Leads(Reader', w1, T)
         BY <1>2, <2>4, <2>6 DEF v
  <2> QED  BY <2>6, <2>9, <2>10, <2>11, <2>12
<1> QED  BY <1>12, <1>13, <1>14

\* A reader at its start.
LEMMA ReaderStarts ==
    ASSUME ReaderInit, wire = <<>>
    PROVE  ReaderOK /\ Fine /\ Reader = State(<<>>, ChunkSize, <<>>, 0) /\ Reader \in States
<1> DEFINE e == <<>>
<1>1. /\ wire = e /\ readcsmap = e
      /\ ReadMaxChunkSize = ChunkSize /\ readAckSize = AckSize /\ ackn = 0 /\ lastackn = 0
      /\ aggmsg = NoAgg /\ out = e /\ Fine
      BY DEF ReaderInit, Fine
<1>2. IsAgg(aggmsg) /\ Unpack(aggmsg) = e
  <2>1. IsAgg(aggmsg) /\ aggmsg.parts = e
        BY <1>1, NoAggOK
  <2> QED  BY <2>1, UnpackNothing
<1>3. e \in Seq(Messages) /\ e \in Seq(Tokens) /\ e \o e = e
      BY EmptySeq
<1>4. Reader = State(e, ChunkSize, e, 0)
      BY <1>1, <1>2, <1>3 DEF Reader
<1>5. DOMAIN e = {} /\ e = [c \in DOMAIN e |-> e[c]]
  <2>1. DOMAIN e = {}
        OBVIOUS
  <2>2. e = [c \in DOMAIN e |-> e[c]]
        OBVIOUS
  <2> QED  BY <2>1, <2>2
<1> HIDE DEF e
<1>6. ChunkSize \in Nat \ {0} /\ AckSize \in Nat /\ 0 \in 0..AckMod - 1 /\ MaxCsid \in Nat
      BY ChunkAssumption
<1>7. IsState(Reader)
  <2> HIDE DEF Messages
  <2> QED  BY <1>3, <1>4, <1>5, <1>6, StateIs
<1>8. Cardinality(DOMAIN readcsmap) <= MaxCsid
      BY <1>1, <1>5, <1>6, FS_EmptySet
<1>9. ReaderOK
      BY <1>1, <1>2, <1>3, <1>6, <1>7, <1>8 DEF ReaderOK
<1> QED  BY <1>1, <1>4, <1>7, <1>9, StateIn DEF e

\* A reader that does not move, whatever is written.
LEMMA ReaderSame ==
    ASSUME ReaderOK, wire' \in Seq(Tokens), readcsmap' = readcsmap, out' = out, aggmsg' = aggmsg,
           readAckSize' = readAckSize, ackn' = ackn, lastackn' = lastackn,
           ReadMaxChunkSize' = ReadMaxChunkSize
    PROVE  ReaderOK' /\ Reader' = Reader
<1>2. Reader' = Reader
  <2>1. Unpack(aggmsg)' = Unpack(aggmsg)
        BY DEF Unpack, AggTime
  <2> QED  BY <2>1 DEF Reader
<1>3. IsState(Reader)'
  <2>1. IsState(Reader')
        BY <1>2 DEF ReaderOK
  <2> QED  BY <2>1 DEF IsState, IsCs
<1>4. IsAgg(aggmsg)'
      BY DEF ReaderOK, IsAgg
<1> HIDE DEF Tokens, Messages
<1> QED  BY <1>2, <1>3, <1>4 DEF ReaderOK

LEMMA ReaderRests ==
    ASSUME ReaderOK, UNCHANGED readervars, wire' \in Seq(Tokens)
    PROVE  ReaderOK' /\ Reader' = Reader /\ (Fine' <=> Fine)
<1>1. /\ readcsmap' = readcsmap /\ out' = out /\ aggmsg' = aggmsg /\ err' = err
      /\ readAckSize' = readAckSize /\ ackn' = ackn /\ lastackn' = lastackn
      /\ ReadMaxChunkSize' = ReadMaxChunkSize
      BY DEF readervars
<1> HIDE DEF Tokens
<1> QED  BY <1>1, ReaderSame DEF Fine
=============================================================================
