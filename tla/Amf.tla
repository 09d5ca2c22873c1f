-------------------------------- MODULE Amf --------------------------------
(***************************************************************************)
(* AMF values (format/flv/flvio amf0.go, amf3.go): AMF0 is filled and      *)
(* parsed, AMF3 only parsed.                                               *)
(*                                                                         *)
(* A number is an integer: nothing looks into the eight bytes of a float,  *)
(* which are taken to be those of the integer.  A date is in milliseconds. *)
(* Strings are sequences of bytes.                                         *)
(***************************************************************************)
EXTENDS Pio

Num(f) == <<"num", f>>
Bool(v) == <<"bool", v>>
Str(s) == <<"str", s>>
AMFMap(kvs) == <<"map", kvs>>          \* sequence of [k, v], in its order
AMFECMAArray(kvs) == <<"ecma", kvs>>
AMFArray(vs) == <<"arr", vs>>
Date(ms) == <<"date", ms>>
Bytes(b) == <<"bytes", b>>
NilVal == <<"nil">>

Kv(k, v) == [k |-> k, v |-> v]

\* AMFMap.Set: the value of a key that is there is replaced in its place.
Set(kvs, k, v) ==
    IF \E i \in DOMAIN kvs : kvs[i].k = k
    THEN LET i == CHOOSE i \in DOMAIN kvs : kvs[i].k = k /\ \A j \in 1..(i - 1) : kvs[j].k # k
         IN  [kvs EXCEPT ![i].v = v]
    ELSE Append(kvs, Kv(k, v))

ObjectEnd == PutBE(9, 3)

StringHead(s) ==
    IF Len(s) < ByteMod^2 THEN <<2>> \o PutBE(Len(s), 2) ELSE <<12>> \o PutBE(Len(s), 4)

\* FillAMF0Val.  An ECMA array is filled without the lengths of its keys.
RECURSIVE Fill0(_)
Fill0(val) ==
    LET v == val[2]
    IN  CASE val[1] = "num" -> <<0>> \o PutBE(v, 8)
          [] val[1] = "bool" -> <<1, IF v THEN 1 ELSE 0>>
          [] val[1] = "str" -> StringHead(v) \o v
          [] val[1] = "map" ->
                <<3>> \o FlattenSeq([i \in DOMAIN v |->
                            IF v[i].k = <<>> THEN <<>>
                            ELSE PutBE(Len(v[i].k), 2) \o v[i].k \o Fill0(v[i].v)]) \o ObjectEnd
          [] val[1] = "ecma" ->
                <<8>> \o PutBE(Len(v), 4)
                      \o FlattenSeq([i \in DOMAIN v |-> v[i].k \o Fill0(v[i].v)]) \o ObjectEnd
          [] val[1] = "arr" ->
                <<10>> \o PutBE(Len(v), 4) \o FlattenSeq([i \in DOMAIN v |-> Fill0(v[i])])
          [] val[1] = "date" -> <<11>> \o PutBE(v, 8) \o PutBE(0, 2)
          [] val[1] = "nil" -> <<5>>
          [] OTHER -> <<>>

\* FillAMF0Vals: bytes are put in as they are.
FillVals(vals) ==
    FlattenSeq([i \in DOMAIN vals |-> IF vals[i][1] = "bytes" THEN vals[i][2] ELSE Fill0(vals[i])])

-----------------------------------------------------------------------------
(* Parsing, from position n of a buffer on.                                *)

\* k bytes are read and not used: the value of before, behind them.
Past(before, b, k) == Then(before, LAMBDA v, p : As(Read(b, p, k), LAMBDA x : v))

Quot(a, c) == IF a >= 0 THEN a \div c ELSE -((-a) \div c)

\* time.Unix of whole seconds and of the milliseconds that remain.
UnixTime(ts) == Date(Quot(ts, 1000) * 1000 + (ts - Quot(ts, 1000) * 1000))

Float64(b, n) == As(ReadI(b, n, 8), Num)

Time64(b, n) == As(ReadI(b, n, 8), UnixTime)

\* A string whose length has k bytes.
ReadStr(b, n, k) == Then(ReadU(b, n, k), LAMBDA len, p : Read(b, p, len))

RECURSIVE Parse0(_, _), Pairs0(_, _, _), Values0(_, _, _, _)

\* Deviation: the byte behind the empty key, the end of the object, is not read.
ObjectNoEnd(b, n) == As(Pairs0(b, n, <<>>), AMFMap)

\* An object from its first key on, and the byte behind the empty one.
Object0(b, n) == Past(As(Pairs0(b, n, <<>>), AMFMap), b, 1)

Pairs0(b, n, obj) ==
    Then(ReadStr(b, n, 2), LAMBDA key, p :
        IF key = <<>> THEN Ok(obj, p)
        ELSE Then(Parse0(b, p), LAMBDA val, q : Pairs0(b, q, Set(obj, key, val))))

Values0(b, n, count, vs) ==
    IF count = 0 THEN Ok(vs, n)
    ELSE Then(Parse0(b, n), LAMBDA val, p : Values0(b, p, count - 1, Append(vs, val)))

\* A count, which must not exceed the buffer, and what it counts.
Counted(b, n, Rest(_, _)) ==
    Then(ReadU(b, n, 4), LAMBDA count, p : IF count > Len(b) THEN Err ELSE Rest(count, p))

\* parseAMF0Val
Parse0(b, n) ==
    Then(ReadU(b, n, 1), LAMBDA m, p :
        CASE m = 0 -> Float64(b, p)
          [] m = 1 -> As(ReadU(b, p, 1), LAMBDA v : Bool(v # 0))
          [] m = 2 -> As(ReadStr(b, p, 2), Str)
          [] m = 3 -> Object0(b, p)
          [] m \in {5, 6} -> Ok(NilVal, p)
          [] m = 8 -> Then(ReadU(b, p, 4), LAMBDA count, q : Object0(b, q))
          [] m = 9 -> As(ReadU(b, p, 3), LAMBDA v : NilVal)
          [] m = 10 -> As(Counted(b, p, LAMBDA count, q : Values0(b, q, count, <<>>)), AMFArray)
          [] m = 11 -> Past(Time64(b, p), b, 2)
          [] m = 12 -> As(Counted(b, p, LAMBDA count, q : Read(b, q, count)), Str)
          [] OTHER -> Err)

-----------------------------------------------------------------------------
(* AMF3                                                                    *)

Half == ByteMod \div 2

\* readU29: the byte is number i of up to four.
RECURSIVE U29(_, _, _, _)
U29(b, n, i, val) ==
    Then(ReadU(b, n, 1), LAMBDA x, p :
        IF i = 3 THEN Ok(val * ByteMod + x, p)
        ELSE IF x < Half THEN Ok(val * Half + x, p)
        ELSE U29(b, p, i + 1, val * Half + (x % Half)))

ReadU29(b, n) == U29(b, n, 0, 0)

\* A number whose lowest bit says that no reference follows: the rest of it.
NotReference(r) == Then(r, LAMBDA v, n : IF v % 2 = 0 THEN Err ELSE Ok(v \div 2, n))

\* readString, readByteArray
ReadString3(b, n) == Then(NotReference(ReadU29(b, n)), LAMBDA len, p : Read(b, p, len))

ReadDate3(b, n) == Then(NotReference(ReadU29(b, n)), LAMBDA x, p : Time64(b, p))

RECURSIVE Parse3(_, _), Pairs3(_, _, _), Keys3(_, _, _, _), Members3(_, _, _, _)

\* Keys and values up to the empty key.
Pairs3(b, n, obj) ==
    Then(ReadString3(b, n), LAMBDA key, p :
        IF key = <<>> THEN Ok(obj, p)
        ELSE Then(Parse3(b, p), LAMBDA val, q : Pairs3(b, q, Set(obj, key, val))))

Keys3(b, n, count, keys) ==
    IF count = 0 THEN Ok(keys, n)
    ELSE Then(ReadString3(b, n), LAMBDA key, p : Keys3(b, p, count - 1, Append(keys, key)))

\* The values of the keys.
Members3(b, n, keys, obj) ==
    IF keys = <<>> THEN Ok(obj, n)
    ELSE Then(Parse3(b, n), LAMBDA val, p : Members3(b, p, Tail(keys), Set(obj, Head(keys), val)))

\* readArray: what follows the named values is not read.
Array3(b, n) == Then(NotReference(ReadU29(b, n)), LAMBDA len, p : Pairs3(b, p, <<>>))

\* readObject: the traits are inline and not external; the class name is
\* skipped, and either the members are dynamic or they are named first.
Object3(b, n) ==
    Then(NotReference(NotReference(ReadU29(b, n))), LAMBDA traits, p :
        IF traits % 2 = 1 THEN Err
        ELSE Then(ReadString3(b, p), LAMBDA class, q :
            IF (traits \div 2) % 2 = 1 THEN Pairs3(b, q, <<>>)
            ELSE Then(Keys3(b, q, traits \div 4, <<>>),
                      LAMBDA keys, r : Members3(b, r, keys, <<>>))))

\* parseAMF3Val.  A boolean takes one byte more than its marker.
Parse3(b, n) ==
    Then(ReadU(b, n, 1), LAMBDA m, p :
        CASE m \in {0, 1} -> Ok(NilVal, p)
          [] m \in {2, 3} -> As(ReadU(b, p, 1), LAMBDA v : Bool(m = 3))
          [] m = 4 -> As(ReadU29(b, p), Num)
          [] m = 5 -> Float64(b, p)
          [] m \in {6, 7, 11} -> As(ReadString3(b, p), Str)
          [] m = 8 -> ReadDate3(b, p)
          [] m = 9 -> As(Array3(b, p), AMFMap)
          [] m = 10 -> As(Object3(b, p), AMFMap)
          [] m = 12 -> As(ReadString3(b, p), Bytes)
          [] OTHER -> Err)

-----------------------------------------------------------------------------
(* ParseAMFVals: values to the end of the buffer.  What claims to be AMF3  *)
(* may still be AMF0, behind a zero.                                       *)

RECURSIVE ParseFrom(_, _, _, _)
ParseFrom(b, n, amf3, vals) ==
    IF n >= Len(b) THEN Ok(vals, n)
    ELSE Then(IF amf3 THEN Parse3(b, n) ELSE Parse0(b, n),
              LAMBDA val, p : ParseFrom(b, p, amf3, Append(vals, val)))

ParseVals(b, isamf3) ==
    IF isamf3 /\ b = <<>> THEN Err
    ELSE IF isamf3 /\ b[1] = 0 THEN ParseFrom(b, 1, FALSE, <<>>)
    ELSE ParseFrom(b, 0, isamf3, <<>>)
=============================================================================
