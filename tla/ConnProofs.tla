----------------------------- MODULE ConnProofs -----------------------------
(***************************************************************************)
(* What Conn promises, proved for every capacity of the pipe and of the    *)
(* buffers and for every number of packets: types and stages, what both    *)
(* ends agree on once Dial has returned, what the peek-read loop throws    *)
(* away, and the order of the packets.                                     *)
(*                                                                         *)
(* The argument follows the bytes.  Out(e) is everything that e has        *)
(* written and the other end has not read, on the wire or still in e's     *)
(* buffer; a flush does not change it.  The invariant says which messages  *)
(* Out(e) may hold in each phase of the protocol, which may follow which,  *)
(* and that the packets in it are the ones still to come, in order.        *)
(***************************************************************************)
EXTENDS Conn, SequenceTheorems, TLAPS

-----------------------------------------------------------------------------
(* Sequences whose earlier and later elements are related                  *)

\* Any element of s and any later one are a pair of R.
Paired(s, R) == \A i, j \in 1..Len(s) : i < j => <<s[i], s[j]>> \in R

\* A sequence all of whose elements are in B is a sequence over B.
LEMMA SeqOver ==
    ASSUME NEW A, NEW B, NEW s \in Seq(A), \A i \in 1..Len(s) : s[i] \in B
    PROVE  s \in Seq(B)
BY LenProperties, SeqDef

\* What is left of a paired sequence without its first element is paired, and
\* the first element is a pair with everything that is left.
LEMMA PairedTail ==
    ASSUME NEW A, NEW R, NEW s \in Seq(A), s # <<>>, Paired(s, R)
    PROVE  /\ Tail(s) \in Seq(A) /\ Paired(Tail(s), R)
           /\ Head(s) = s[1] /\ s[1] \in A
           /\ \A i \in 1..Len(Tail(s)) : <<s[1], Tail(s)[i]>> \in R
<1> DEFINE n == Len(s)
<1>1. n \in Nat \ {0}
      BY EmptySeq
<1>2. /\ Tail(s) \in Seq(A) /\ Len(Tail(s)) = n - 1
      /\ \A i \in 1..n - 1 : Tail(s)[i] = s[i + 1]
      BY HeadTailProperties
<1>3. Head(s) = s[1] /\ s[1] \in A
      BY <1>1, ElementOfSeq
<1>4. \A i, j \in 1..n : i < j => <<s[i], s[j]>> \in R
      BY DEF Paired
<1> HIDE DEF n
<1>5. Paired(Tail(s), R)
  <2> SUFFICES ASSUME NEW i \in 1..n - 1, NEW j \in 1..n - 1, i < j
               PROVE  <<Tail(s)[i], Tail(s)[j]>> \in R
      BY <1>2 DEF Paired
  <2>1. i + 1 \in 1..n /\ j + 1 \in 1..n /\ i + 1 < j + 1
        BY <1>1
  <2> QED  BY <2>1, <1>2, <1>4
<1>6. \A i \in 1..n - 1 : <<s[1], Tail(s)[i]>> \in R
  <2> SUFFICES ASSUME NEW i \in 1..n - 1
               PROVE  <<s[1], Tail(s)[i]>> \in R
      OBVIOUS
  <2>1. 1 \in 1..n /\ i + 1 \in 1..n /\ 1 < i + 1
        BY <1>1
  <2> QED  BY <2>1, <1>2, <1>4
<1> QED  BY <1>2, <1>3, <1>5, <1>6

\* So is what is left without its end.
LEMMA PairedPrefix ==
    ASSUME NEW A, NEW R, NEW s \in Seq(A), NEW t \in Seq(A), Paired(s \o t, R)
    PROVE  Paired(s, R)
<1> DEFINE n == Len(s)  m == Len(t)
<1>1. n \in Nat /\ m \in Nat
      OBVIOUS
<1>2. /\ Len(s \o t) = n + m
      /\ \A i \in 1..n + m : (s \o t)[i] = IF i <= n THEN s[i] ELSE t[i - n]
      BY ConcatProperties
<1>3. \A i, j \in 1..n + m : i < j => <<(s \o t)[i], (s \o t)[j]>> \in R
      BY <1>2 DEF Paired
<1> HIDE DEF n, m
<1>4. \A i \in 1..n : i \in 1..n + m /\ (s \o t)[i] = s[i]
      BY <1>1, <1>2
<1>5. \A i, j \in 1..n : i < j => <<s[i], s[j]>> \in R
      BY <1>3, <1>4
<1> QED  BY <1>5 DEF Paired, n

\* Whether a concatenation is paired is a matter of its parts and of what they
\* are over.
LEMMA PairedConcat ==
    ASSUME NEW A, NEW B, NEW R, NEW s \in Seq(A), NEW t \in Seq(B),
           Paired(s, R), Paired(t, R), \A a \in A, b \in B : <<a, b>> \in R
    PROVE  Paired(s \o t, R)
<1> DEFINE n == Len(s)  m == Len(t)
<1>1. n \in Nat /\ m \in Nat
      OBVIOUS
<1>2. s \in Seq(A \union B) /\ t \in Seq(A \union B)
      BY SeqMonotonic
<1>3. /\ Len(s \o t) = n + m
      /\ \A i \in 1..n + m : (s \o t)[i] = IF i <= n THEN s[i] ELSE t[i - n]
      BY <1>2, ConcatProperties
<1>4. \A i, j \in 1..n : i < j => <<s[i], s[j]>> \in R
      BY DEF Paired
<1>5. \A i, j \in 1..m : i < j => <<t[i], t[j]>> \in R
      BY DEF Paired
<1>6. (\A i \in 1..n : s[i] \in A) /\ (\A i \in 1..m : t[i] \in B)
      BY ElementOfSeq
<1> HIDE DEF n, m
<1> SUFFICES ASSUME NEW i \in 1..n + m, NEW j \in 1..n + m, i < j
             PROVE  <<(s \o t)[i], (s \o t)[j]>> \in R
    BY <1>3 DEF Paired
<1>7. CASE j <= n
  <2>1. i \in 1..n /\ j \in 1..n
        BY <1>1, <1>7
  <2>2. (s \o t)[i] = s[i] /\ (s \o t)[j] = s[j]
        BY <2>1, <1>1, <1>3
  <2> QED  BY <2>1, <2>2, <1>4
<1>8. CASE i <= n /\ j > n
  <2>1. i \in 1..n /\ j - n \in 1..m /\ ~(j <= n)
        BY <1>1, <1>8
  <2>2. (s \o t)[i] = s[i] /\ (s \o t)[j] = t[j - n]
        BY <2>1, <1>3, <1>8
  <2>3. s[i] \in A /\ t[j - n] \in B
        BY <2>1, <1>6
  <2> QED  BY <2>2, <2>3
<1>9. CASE i > n
  <2>1. i - n \in 1..m /\ j - n \in 1..m /\ i - n < j - n
        BY <1>1, <1>9
  <2>2. (s \o t)[i] = t[i - n] /\ (s \o t)[j] = t[j - n]
        BY <1>1, <1>3, <1>9
  <2> QED  BY <2>1, <2>2, <1>5
<1>10. j <= n \/ (i <= n /\ j > n) \/ i > n
      BY <1>1
<1> QED  BY <1>7, <1>8, <1>9, <1>10

\* A sequence over a set whose elements are all pairs of each other.
LEMMA PairedOver ==
    ASSUME NEW A, NEW R, NEW s \in Seq(A), \A a, b \in A : <<a, b>> \in R
    PROVE  Paired(s, R)
BY ElementOfSeq DEF Paired

\* One element more.
LEMMA PairedOne ==
    ASSUME NEW A, NEW R, NEW s \in Seq(A), NEW x, Paired(s, R), \A a \in A : <<a, x>> \in R
    PROVE  Paired(s \o <<x>>, R)
<1> DEFINE B == {x}
<1>1. <<x>> \in Seq(B) /\ Paired(<<x>>, R)
      BY DEF Paired
<1>2. \A a \in A, b \in B : <<a, b>> \in R
      OBVIOUS
<1> HIDE DEF B
<1> QED  BY <1>1, <1>2, PairedConcat

-----------------------------------------------------------------------------
(* Packets at the end of a sequence                                        *)

\* s is k messages that are no packets, and then packets with the numbers from
\* first on.
RunAfter(s, k, first) ==
    /\ \A i \in 1..k : s[i].name # "packet"
    /\ \A i \in k + 1..Len(s) : s[i].name = "packet" /\ s[i].id = first + (i - k) - 1

\* s ends with the packets after packet g, up to packet w unless some are lost.
Pending(s, k, g, w, all) ==
    /\ k \in 0..Len(s)
    /\ RunAfter(s, k, g + 1)
    /\ g + (Len(s) - k) <= w
    /\ all => g + (Len(s) - k) = w

\* The first message is read: it is one of the others, or the next packet.
LEMMA PendingTail ==
    ASSUME NEW A, NEW s \in Seq(A), s # <<>>, NEW k, NEW g \in Nat, NEW w \in Nat, NEW all,
           Pending(s, k, g, w, all)
    PROVE  /\ k > 0 => Head(s).name # "packet" /\ Pending(Tail(s), k - 1, g, w, all)
           /\ k = 0 => /\ Head(s).name = "packet" /\ Head(s).id = g + 1 /\ g + 1 <= w
                       /\ Pending(Tail(s), 0, g + 1, w, all)
<1> DEFINE n == Len(s)  t == Tail(s)
<1>1. n \in Nat \ {0} /\ k \in 0..n
      BY EmptySeq DEF Pending
<1>2. Len(t) = n - 1 /\ \A i \in 1..n - 1 : t[i] = s[i + 1]
      BY HeadTailProperties
<1>3. Head(s) = s[1]
      OBVIOUS
<1>4. /\ \A i \in 1..k : s[i].name # "packet"
      /\ \A i \in k + 1..n : s[i].name = "packet" /\ s[i].id = g + 1 + (i - k) - 1
      /\ g + (n - k) <= w /\ (all => g + (n - k) = w)
      BY DEF Pending, RunAfter
<1> HIDE DEF n, t
<1>5. ASSUME k > 0
      PROVE  Head(s).name # "packet" /\ Pending(t, k - 1, g, w, all)
  <2>1. \A i \in 1..k - 1 : t[i].name # "packet"
    <3> TAKE i \in 1..k - 1
    <3>1. i \in 1..n - 1 /\ i + 1 \in 1..k
          BY <1>1, <1>5
    <3> QED  BY <3>1, <1>2, <1>4
  <2>2. \A i \in k - 1 + 1..n - 1 : t[i].name = "packet" /\ t[i].id = g + 1 + (i - (k - 1)) - 1
    <3> TAKE i \in k - 1 + 1..n - 1
    <3>1. i \in 1..n - 1 /\ i + 1 \in k + 1..n /\ (i + 1) - k = i - (k - 1)
          BY <1>1, <1>5
    <3>2. t[i] = s[i + 1] /\ s[i + 1].id = g + 1 + ((i + 1) - k) - 1
          BY <3>1, <1>2, <1>4
    <3> QED  BY <3>1, <3>2, <1>4
  <2>3. 1 \in 1..k
        BY <1>1, <1>5
  <2>4. /\ k - 1 \in 0..n - 1 /\ g + ((n - 1) - (k - 1)) = g + (n - k)
        BY <1>1, <1>5
  <2> QED  BY <2>1, <2>2, <2>3, <2>4, <1>2, <1>3, <1>4 DEF Pending, RunAfter
<1>6. ASSUME k = 0
      PROVE  /\ Head(s).name = "packet" /\ Head(s).id = g + 1 /\ g + 1 <= w
             /\ Pending(t, 0, g + 1, w, all)
  <2>1. \A i \in 0 + 1..n - 1 : t[i].name = "packet" /\ t[i].id = g + 1 + 1 + (i - 0) - 1
    <3> TAKE i \in 0 + 1..n - 1
    <3>1. i \in 1..n - 1 /\ i + 1 \in k + 1..n
          BY <1>1, <1>6
    <3>2. t[i] = s[i + 1] /\ s[i + 1].id = g + 1 + ((i + 1) - k) - 1 /\ s[i + 1].name = "packet"
          BY <3>1, <1>2, <1>4
    <3>3. g + 1 + ((i + 1) - k) - 1 = g + 1 + 1 + (i - 0) - 1
          BY <3>1, <1>6
    <3> QED  BY <3>2, <3>3
  <2>2. 1 \in k + 1..n /\ g + 1 + (1 - k) - 1 = g + 1
        BY <1>1, <1>6
  <2>3. 0 \in 0..n - 1 /\ g + 1 + ((n - 1) - 0) = g + (n - k) /\ g + 1 <= g + (n - k)
        BY <1>1, <1>6
  <2>4. g + (n - k) \in Nat
        BY <1>1, <1>6
  <2>5. \A i \in 1..0 : t[i].name # "packet"
        OBVIOUS
  <2>6. g + 1 <= w
        BY <2>3, <2>4, <1>4
  <2> QED  BY <2>1, <2>2, <2>3, <2>5, <2>6, <1>2, <1>3, <1>4 DEF Pending, RunAfter
<1> QED  BY <1>5, <1>6 DEF t

\* The next packet is written.
LEMMA PendingPacket ==
    ASSUME NEW A, NEW s \in Seq(A), NEW x \in A, NEW k, NEW g \in Nat, NEW w \in Nat,
           Pending(s, k, g, w, TRUE), x.name = "packet", x.id = w + 1
    PROVE  Pending(s \o <<x>>, k, g, w + 1, TRUE)
<1> DEFINE n == Len(s)  t == s \o <<x>>
<1>1. n \in Nat /\ k \in 0..n
      BY DEF Pending
<1>2. Len(t) = n + 1 /\ (\A i \in 1..n : t[i] = s[i]) /\ t[n + 1] = x
      BY AppendIsConcat, AppendProperties
<1>3. /\ \A i \in 1..k : s[i].name # "packet"
      /\ \A i \in k + 1..n : s[i].name = "packet" /\ s[i].id = g + 1 + (i - k) - 1
      /\ g + (n - k) = w
      BY DEF Pending, RunAfter
<1> HIDE DEF n, t
<1>4. \A i \in 1..k : t[i].name # "packet"
      BY <1>1, <1>2, <1>3
<1>5. \A i \in k + 1..n + 1 : t[i].name = "packet" /\ t[i].id = g + 1 + (i - k) - 1
  <2> TAKE i \in k + 1..n + 1
  <2>1. CASE i <= n
        BY <2>1, <1>1, <1>2, <1>3
  <2>2. CASE i = n + 1
    <3>1. w + 1 = g + 1 + (i - k) - 1
          BY <2>2, <1>1, <1>3
    <3> QED  BY <2>2, <3>1, <1>2
  <2> QED  BY <2>1, <2>2, <1>1
<1>6. g + ((n + 1) - k) = w + 1 /\ g + ((n + 1) - k) <= w + 1 /\ k \in 0..n + 1
      BY <1>1, <1>3
<1> QED  BY <1>2, <1>4, <1>5, <1>6 DEF Pending, RunAfter, t

\* While there are no packets, other messages may follow.
LEMMA PendingOther ==
    ASSUME NEW A, NEW s \in Seq(A), NEW t \in Seq(A), NEW k,
           Pending(s, k, 0, 0, TRUE), \A i \in 1..Len(t) : t[i].name # "packet"
    PROVE  Pending(s \o t, Len(s \o t), 0, 0, TRUE)
<1> DEFINE n == Len(s)  m == Len(t)  u == s \o t
<1>1. n \in Nat /\ m \in Nat /\ k = n
      BY DEF Pending
<1>2. Len(u) = n + m /\ \A i \in 1..n + m : u[i] = IF i <= n THEN s[i] ELSE t[i - n]
      BY ConcatProperties
<1>3. (\A i \in 1..n : s[i].name # "packet") /\ (\A i \in 1..m : t[i].name # "packet")
      BY <1>1 DEF Pending, RunAfter
<1> HIDE DEF n, m, u
<1>4. \A i \in 1..n + m : u[i].name # "packet"
      BY <1>1, <1>2, <1>3
<1>5. n + m \in 0..n + m /\ 0 + ((n + m) - (n + m)) = 0 /\ 0 + ((n + m) - (n + m)) <= 0
      BY <1>1
<1>6. \A i \in n + m + 1..n + m : FALSE
      BY <1>1
<1> QED  BY <1>2, <1>4, <1>5, <1>6 DEF Pending, RunAfter, u

\* The end of the sequence is lost.
LEMMA PendingPrefix ==
    ASSUME NEW A, NEW s \in Seq(A), NEW t \in Seq(A), NEW k, NEW g \in Nat, NEW w \in Nat, NEW all,
           Pending(s \o t, k, g, w, all)
    PROVE  Pending(s, k, g, w, FALSE) \/ Pending(s, Len(s), g, w, FALSE)
<1> DEFINE n == Len(s)  m == Len(t)  u == s \o t
<1>1. n \in Nat /\ m \in Nat
      OBVIOUS
<1>2. Len(u) = n + m /\ \A i \in 1..n + m : u[i] = IF i <= n THEN s[i] ELSE t[i - n]
      BY ConcatProperties
<1>3. /\ \A i \in 1..k : u[i].name # "packet"
      /\ \A i \in k + 1..n + m : u[i].name = "packet" /\ u[i].id = g + 1 + (i - k) - 1
      /\ g + ((n + m) - k) <= w /\ k \in 0..n + m
      BY <1>2 DEF Pending, RunAfter
<1> HIDE DEF n, m, u
<1>4. \A i \in 1..n : i \in 1..n + m /\ u[i] = s[i]
      BY <1>1, <1>2
<1>5. CASE k < n
  <2>1. \A i \in 1..k : s[i].name # "packet"
        BY <1>1, <1>3, <1>4, <1>5
  <2>2. \A i \in k + 1..n : s[i].name = "packet" /\ s[i].id = g + 1 + (i - k) - 1
        BY <1>1, <1>3, <1>4, <1>5
  <2>3. g + (n - k) <= w /\ k \in 0..n
        BY <1>1, <1>3, <1>5
  <2> QED  BY <2>1, <2>2, <2>3 DEF Pending, RunAfter, n
<1>6. CASE k >= n
  <2>1. \A i \in 1..n : s[i].name # "packet"
    <3> TAKE i \in 1..n
    <3>1. i \in 1..k
          BY <1>1, <1>3, <1>6
    <3> QED  BY <3>1, <1>3, <1>4
  <2>2. g + (n - n) <= w /\ n \in 0..n /\ \A i \in n + 1..n : FALSE
        BY <1>1, <1>3, <1>6
  <2> QED  BY <2>1, <2>2 DEF Pending, RunAfter, n
<1>7. k < n \/ k >= n
      BY <1>1, <1>3
<1> QED  BY <1>5, <1>6, <1>7

-----------------------------------------------------------------------------
(* The invariant                                                           *)

\* What end e has written and the other end has not read.
Out(e) == net[Peer(e)] \o wbuf[e]

Request == {"publish", "play"}

\* The client up to its request; before it has read the result of connect.
Requesting == {"hello", "s0s1s2", "writeconnect", "connectres", "create", "createres", "request"}
Connecting == {"hello", "s0s1s2", "writeconnect", "connectres"}
\* The server before it has written that result.
Accepting == {"c0c1", "c2", "connect"}

CliPc == Requesting \union {"status", "prepared", "datastart", "packets", "ack", "closed"}
SrvPc == Accepting \union {"commands", "prepared", "result", "datastart", "packets", "ack",
                           "returned", "closed"}

Bufs == wbuf \in [End -> Seq(Message)] /\ net \in [End -> Seq(Message)]

\* Where each end is and what it has recorded.
PlaceInv ==
    /\ pc \in [End -> CliPc \union SrvPc] /\ pc["cli"] \in CliPc /\ pc["srv"] \in SrvPc
    /\ \A e \in End : open[e] <=> pc[e] # "closed"
    /\ pc["cli"] \in {"hello", "s0s1s2"} => stage["cli"] = StageInit
    /\ pc["cli"] \in (Requesting \union {"status"}) \ {"hello", "s0s1s2"} =>
          stage["cli"] = StageHandshakeDone
    /\ pc["cli"] \in {"prepared", "datastart"} => stage["cli"] = StageCommandDone
    /\ pc["srv"] \in {"c0c1", "c2"} => stage["srv"] = StageInit
    /\ pc["srv"] \in {"connect", "commands"} => stage["srv"] = StageHandshakeDone
    /\ pc["srv"] \in {"prepared", "result"} => stage["srv"] = StageGotPublishOrPlayCommand
    /\ pc["srv"] = "datastart" => stage["srv"] = StageCommandDone
    /\ \A e \in End : pc[e] \in {"packets", "ack"} =>
          stage[e] = IF Writing(e) THEN StageDataStart ELSE StageCommandDone
    /\ \A e \in End : pc[e] = "datastart" => Writing(e)
    /\ \A e \in End : pc[e] = "ack" => ~Writing(e)

\* What each end knows of the other.
AgreeInv ==
    /\ publishing["cli"] <=> (stage["cli"] >= StageCommandDone /\ flags = "publish")
    /\ publishing["srv"] <=> (stage["srv"] >= StageGotPublishOrPlayCommand /\ flags = "publish")
    /\ pc["cli"] \in Requesting => stage["srv"] <= StageHandshakeDone
    /\ pc["srv"] \in Accepting => pc["cli"] \in Connecting \union {"closed"}
    /\ stage["cli"] >= StageCommandDone => stage["srv"] >= StageCommandDone
    /\ stage["cli"] >= StageCommandDone \/ pc["cli"] \in {"request", "status"} =>
          avmsgsid["cli"] = 1 /\ avmsgsid["srv"] = 1
    /\ peek["cli"] # "off" => stage["cli"] >= StageCommandDone /\ flags = "publish"
    /\ peek["srv"] # "off" => stage["srv"] >= StageGotPublishOrPlayCommand /\ flags = "play"

\* What the client may have on its way: after its request only what its role
\* sends, acknowledgements or packets.
CliTail == IF flags = "play" THEN "Ack" ELSE "packet"
CliMsgs ==
    {m \in Message :
        /\ m.name \in Commands => m.id \in 0..5
        /\ m.name \in Request => m.name = flags /\ pc["cli"] \notin Requesting
        /\ m.name = "packet" => flags = "publish" /\ stage["cli"] = StageDataStart
        /\ stage["srv"] >= StageGotPublishOrPlayCommand => m.name = CliTail}
CliPairs ==
    {p \in Message \X Message : p[1].name \in Request => p[2].name = CliTail}

\* What the server may have on its way: the result of connect before the result
\* of createStream, then its answer; to a publisher, acknowledgements after that.
SrvMsgs ==
    {m \in Message :
        /\ m.name \in Commands => m.id \in 0..5
        /\ m.name = "_result" =>
              /\ pc["srv"] \notin Accepting
              /\ IF m.sid = 1 THEN avmsgsid["srv"] = 1 ELSE pc["cli"] \in Connecting
        /\ m.name = "onStatus" => stage["srv"] >= StageCommandDone
        /\ m.name = "packet" => flags = "play" /\ stage["srv"] = StageDataStart
        /\ flags = "publish" /\ stage["cli"] >= StageCommandDone => m.name = "Ack"}
SrvPairs ==
    {p \in Message \X Message :
        /\ p[1].name = "_result" /\ p[2].name = "_result" => p[2].sid = 1
        /\ p[1].name = "onStatus" /\ flags = "publish" => p[2].name = "Ack"}

\* What is on its way to an end that is open.
CliStream == open["srv"] => Out("cli") \in Seq(CliMsgs) /\ Paired(Out("cli"), CliPairs)
SrvStream == open["cli"] => Out("srv") \in Seq(SrvMsgs) /\ Paired(Out("srv"), SrvPairs)

\* The last message before the packets of s is an answer, once one is due or a
\* packet is there, unless it has been read.
Answered(s, k, due, had) ==
    due \/ k < Len(s) => had \/ (k > 0 /\ s[k].name = "onStatus")

\* The packets that are not read yet are on their way, unless their writer has
\* closed the connection; before the first one nothing else is left to be read.
Counts ==
    /\ got <= wrote
    /\ wrote > 0 => stage[IF flags = "publish" THEN "cli" ELSE "srv"] = StageDataStart
CliPackets ==
    flags = "publish" /\ open["srv"] =>
        \E k \in Nat : Pending(Out("cli"), k, got, wrote, open["cli"])
SrvPackets ==
    flags = "play" /\ open["cli"] =>
        \E k \in Nat :
            /\ Pending(Out("srv"), k, got, wrote, open["srv"])
            /\ Answered(Out("srv"), k, open["srv"] /\ stage["srv"] >= StageCommandDone,
                        stage["cli"] >= StageCommandDone)

Drops == dropped \in [End -> SUBSET {"Ack"}]

ConnInv ==
    /\ TypeOK /\ PlaceInv /\ AgreeInv /\ CliStream /\ SrvStream
    /\ Counts /\ CliPackets /\ SrvPackets /\ Drops

-----------------------------------------------------------------------------
(* What reading and writing do to the streams                              *)

\* e takes the next message that the other end has on its way.
Took(e) ==
    /\ Out(Peer(e)) # <<>> /\ Head(Out(Peer(e))) = Head(net[e])
    /\ Out(Peer(e))' = Tail(Out(Peer(e)))

\* e adds ms to what it has on its way, if there is somebody to send it to.
Added(e, ms) == open[Peer(e)] => Out(e)' = Out(e) \o ms

LEMMA PeerEnd == \A e \in End : Peer(e) \in End /\ Peer(e) # e /\ Peer(Peer(e)) = e
BY DEF End, Peer

LEMMA TailConcat ==
    ASSUME NEW A, NEW s \in Seq(A), NEW t \in Seq(A), s # <<>>
    PROVE  s \o t # <<>> /\ Head(s \o t) = Head(s) /\ Tail(s \o t) = Tail(s) \o t
<1> DEFINE n == Len(s)  m == Len(t)  u == s \o t
<1>1. n \in Nat \ {0} /\ m \in Nat
      BY EmptySeq
<1>2. /\ u \in Seq(A) /\ Len(u) = n + m
      /\ \A i \in 1..n + m : u[i] = IF i <= n THEN s[i] ELSE t[i - n]
      BY ConcatProperties
<1>3. u # <<>>
      BY <1>1, ConcatEqualIffEmpty
<1>4. Tail(s) \in Seq(A) /\ Len(Tail(s)) = n - 1 /\ \A i \in 1..n - 1 : Tail(s)[i] = s[i + 1]
      BY HeadTailProperties
<1>5. Tail(u) \in Seq(A) /\ Len(Tail(u)) = n + m - 1 /\ \A i \in 1..n + m - 1 : Tail(u)[i] = u[i + 1]
  <2> HIDE DEF u
  <2> QED  BY <1>2, <1>3, HeadTailProperties
<1>6. /\ Tail(s) \o t \in Seq(A) /\ Len(Tail(s) \o t) = n - 1 + m
      /\ \A i \in 1..n - 1 + m : (Tail(s) \o t)[i] = IF i <= n - 1 THEN Tail(s)[i] ELSE t[i - (n - 1)]
      BY <1>4, ConcatProperties
<1>7. Head(u) = Head(s)
  <2>1. Head(u) = u[1] /\ Head(s) = s[1]
        BY <1>2, <1>3
  <2>2. 1 \in 1..n + m /\ 1 <= n
        BY <1>1
  <2> HIDE DEF n, m, u
  <2> QED  BY <2>1, <2>2, <1>2
<1>8. \A i \in 1..n + m - 1 : Tail(u)[i] = (Tail(s) \o t)[i]
  <2> HIDE DEF n, m, u
  <2> TAKE i \in 1..n + m - 1
  <2>1. i \in 1..n - 1 + m /\ i + 1 \in 1..n + m
        BY <1>1
  <2>2. Tail(u)[i] = IF i + 1 <= n THEN s[i + 1] ELSE t[i + 1 - n]
    <3>1. Tail(u)[i] = u[i + 1]
          BY <1>5
    <3>2. u[i + 1] = IF i + 1 <= n THEN s[i + 1] ELSE t[i + 1 - n]
          BY <2>1, <1>1, <1>2
    <3> QED  BY <3>1, <3>2
  <2>3. CASE i <= n - 1
    <3>1. i \in 1..n - 1 /\ i + 1 <= n
          BY <2>1, <2>3, <1>1
    <3> QED  BY <3>1, <2>1, <2>2, <2>3, <1>4, <1>6
  <2>4. CASE i > n - 1
    <3>1. ~(i + 1 <= n) /\ i + 1 - n = i - (n - 1) /\ ~(i <= n - 1)
          BY <2>1, <2>4, <1>1
    <3> QED  BY <3>1, <2>1, <2>2, <1>6
  <2>5. i <= n - 1 \/ i > n - 1
        BY <2>1, <1>1
  <2> QED  BY <2>3, <2>4, <2>5
<1>9. n + m - 1 = n - 1 + m
      BY <1>1
<1>10. Tail(u) = Tail(s) \o t
  <2> HIDE DEF n, m, u
  <2> QED  BY <1>5, <1>6, <1>8, <1>9, SeqEqual
<1> QED  BY <1>3, <1>7, <1>10

LEMMA MessagesConcat ==
    ASSUME NEW s \in Seq(Message), NEW t \in Seq(Message), NEW u \in Seq(Message)
    PROVE  (s \o t) \o u = s \o (t \o u)
<1> DEFINE M == Message
<1> HIDE DEF M
<1>1. s \in Seq(M) /\ t \in Seq(M) /\ u \in Seq(M)
      BY DEF M
<1> QED  BY ONLY <1>1, ConcatAssociative

\* A message is read and nothing is written.
LEMMA ReadOut ==
    ASSUME Bufs, NEW e \in End, HasMsg(e), Read(e), UNCHANGED wbuf
    PROVE  Bufs' /\ Took(e) /\ Out(e)' = Out(e)
<1> USE PeerEnd
<1>1. /\ net[e] \in Seq(Message) /\ net[e] # <<>> /\ wbuf[Peer(e)] \in Seq(Message)
      /\ Tail(net[e]) \in Seq(Message)
      BY HeadTailProperties DEF Bufs, HasMsg
<1>2. net' = [net EXCEPT ![e] = Tail(net[e])] /\ wbuf' = wbuf
      BY DEF Read, Rest
<1>3. net'[e] = Tail(net[e]) /\ net'[Peer(e)] = net[Peer(e)] /\ Bufs'
      BY <1>1, <1>2 DEF Bufs
<1>4. Out(e)' = Out(e)
      BY <1>2, <1>3 DEF Out
<1>5. Out(Peer(e)) = net[e] \o wbuf[Peer(e)] /\ Out(Peer(e))' = Tail(net[e]) \o wbuf[Peer(e)]
      BY <1>2, <1>3 DEF Out
<1>6. Took(e)
      BY <1>1, <1>5, TailConcat DEF Took
<1> QED  BY <1>3, <1>4, <1>6

\* Messages are written and flushed.
LEMMA FlushOut ==
    ASSUME Bufs, NEW e \in End, NEW ms \in Seq(Message), WriteFlush(e, ms, net)
    PROVE  Bufs' /\ Added(e, ms) /\ Out(Peer(e))' = Out(Peer(e))
<1> USE PeerEnd
<1>1. net[Peer(e)] \in Seq(Message) /\ wbuf[e] \in Seq(Message)
      BY DEF Bufs
<1>2. /\ wbuf' = [wbuf EXCEPT ![e] = <<>>]
      /\ net' = [net EXCEPT ![Peer(e)] =
                    IF open[Peer(e)] THEN net[Peer(e)] \o (wbuf[e] \o ms) ELSE net[Peer(e)]]
      BY DEF WriteFlush
<1>3. /\ wbuf[e] \o ms \in Seq(Message) /\ net[Peer(e)] \o (wbuf[e] \o ms) \in Seq(Message)
      /\ <<>> \in Seq(Message)
      BY <1>1, ConcatProperties, EmptySeq
<1>4. Bufs' /\ wbuf'[e] = <<>> /\ wbuf'[Peer(e)] = wbuf[Peer(e)] /\ net'[e] = net[e]
      BY <1>2, <1>3 DEF Bufs
<1>5. ASSUME open[Peer(e)]
      PROVE  Out(e)' = Out(e) \o ms
  <2>1. net'[Peer(e)] = net[Peer(e)] \o (wbuf[e] \o ms)
        BY <1>2, <1>5 DEF Bufs
  <2>2. Out(e)' = net[Peer(e)] \o (wbuf[e] \o ms)
        BY <2>1, <1>3, <1>4, ConcatEmptySeq DEF Out
  <2>3. (net[Peer(e)] \o wbuf[e]) \o ms = net[Peer(e)] \o (wbuf[e] \o ms)
        BY <1>1, MessagesConcat
  <2> QED  BY <2>2, <2>3 DEF Out
<1>6. Out(Peer(e))' = Out(Peer(e))
      BY <1>4 DEF Out
<1> QED  BY <1>4, <1>5, <1>6 DEF Added

\* Messages are written into the buffer.
LEMMA WriteOut ==
    ASSUME Bufs, NEW e \in End, NEW ms \in Seq(Message), Write(e, ms), UNCHANGED net
    PROVE  Bufs' /\ Added(e, ms) /\ Out(Peer(e))' = Out(Peer(e))
<1> USE PeerEnd
<1>1. net[Peer(e)] \in Seq(Message) /\ wbuf[e] \in Seq(Message)
      BY DEF Bufs
<1>2. wbuf' = [wbuf EXCEPT ![e] = wbuf[e] \o ms] /\ net' = net
      BY DEF Write
<1>3. wbuf[e] \o ms \in Seq(Message)
      BY <1>1, ConcatProperties
<1>4. Bufs' /\ wbuf'[e] = wbuf[e] \o ms /\ wbuf'[Peer(e)] = wbuf[Peer(e)]
      BY <1>2, <1>3 DEF Bufs
<1>5. Out(e)' = net[Peer(e)] \o (wbuf[e] \o ms)
      BY <1>2, <1>4 DEF Out
<1>6. Out(e)' = Out(e) \o ms
  <2>1. (net[Peer(e)] \o wbuf[e]) \o ms = net[Peer(e)] \o (wbuf[e] \o ms)
        BY <1>1, MessagesConcat
  <2> QED  BY <2>1, <1>5 DEF Out
<1> QED  BY <1>2, <1>4, <1>6 DEF Out, Added

\* A message is read and others are written: the server flushes them.
LEMMA ReadFlushOut ==
    ASSUME Bufs, NEW e \in End, NEW ms \in Seq(Message), HasMsg(e), WriteFlush(e, ms, Rest(e))
    PROVE  Bufs' /\ Added(e, ms) /\ Took(e)
<1> USE PeerEnd
<1>1. /\ net[Peer(e)] \in Seq(Message) /\ wbuf[e] \in Seq(Message) /\ wbuf[Peer(e)] \in Seq(Message)
      /\ net[e] \in Seq(Message) /\ net[e] # <<>> /\ Tail(net[e]) \in Seq(Message)
      BY HeadTailProperties DEF Bufs, HasMsg
<1> DEFINE rest == Rest(e)
<1>2. /\ rest[e] = Tail(net[e]) /\ rest[Peer(e)] = net[Peer(e)] /\ rest \in [End -> Seq(Message)]
      BY <1>1 DEF Rest, Bufs
<1> HIDE DEF rest
<1>3. /\ wbuf' = [wbuf EXCEPT ![e] = <<>>]
      /\ net' = [rest EXCEPT ![Peer(e)] =
                    IF open[Peer(e)] THEN net[Peer(e)] \o (wbuf[e] \o ms) ELSE net[Peer(e)]]
      BY <1>2 DEF WriteFlush, rest
<1>4. /\ wbuf[e] \o ms \in Seq(Message) /\ net[Peer(e)] \o (wbuf[e] \o ms) \in Seq(Message)
      /\ <<>> \in Seq(Message)
      BY <1>1, ConcatProperties, EmptySeq
<1>5. Bufs' /\ wbuf'[e] = <<>> /\ wbuf'[Peer(e)] = wbuf[Peer(e)] /\ net'[e] = Tail(net[e])
      BY <1>2, <1>3, <1>4 DEF Bufs
<1>6. ASSUME open[Peer(e)]
      PROVE  Out(e)' = Out(e) \o ms
  <2>1. net'[Peer(e)] = net[Peer(e)] \o (wbuf[e] \o ms)
        BY <1>2, <1>3, <1>6
  <2>2. Out(e)' = net[Peer(e)] \o (wbuf[e] \o ms)
        BY <2>1, <1>4, <1>5, ConcatEmptySeq DEF Out
  <2>3. net[Peer(e)] \in Seq(Message) /\ wbuf[e] \in Seq(Message)
        BY <1>1
  <2>4. (net[Peer(e)] \o wbuf[e]) \o ms = net[Peer(e)] \o (wbuf[e] \o ms)
        BY ONLY <2>3, ms \in Seq(Message), MessagesConcat
  <2> QED  BY <2>2, <2>4 DEF Out
<1>7. Out(Peer(e)) = net[e] \o wbuf[Peer(e)] /\ Out(Peer(e))' = Tail(net[e]) \o wbuf[Peer(e)]
      BY <1>5 DEF Out
<1>8. Took(e)
      BY <1>1, <1>7, TailConcat DEF Took
<1> QED  BY <1>5, <1>6, <1>8 DEF Added

\* A message is read and others are written: the client leaves them in its buffer.
LEMMA ReadWriteOut ==
    ASSUME Bufs, NEW e \in End, NEW ms \in Seq(Message), HasMsg(e), Read(e), Write(e, ms)
    PROVE  Bufs' /\ Added(e, ms) /\ Took(e)
<1> USE PeerEnd
<1>1. /\ net[Peer(e)] \in Seq(Message) /\ wbuf[e] \in Seq(Message) /\ wbuf[Peer(e)] \in Seq(Message)
      /\ net[e] \in Seq(Message) /\ net[e] # <<>> /\ Tail(net[e]) \in Seq(Message)
      /\ wbuf[e] \o ms \in Seq(Message)
      BY HeadTailProperties, ConcatProperties DEF Bufs, HasMsg
<1>2. wbuf' = [wbuf EXCEPT ![e] = wbuf[e] \o ms] /\ net' = [net EXCEPT ![e] = Tail(net[e])]
      BY DEF Write, Read, Rest
<1>3. /\ net'[e] = Tail(net[e]) /\ net'[Peer(e)] = net[Peer(e)] /\ Bufs'
      /\ wbuf'[e] = wbuf[e] \o ms /\ wbuf'[Peer(e)] = wbuf[Peer(e)]
      BY <1>1, <1>2 DEF Bufs
<1>4. Out(e)' = net[Peer(e)] \o (wbuf[e] \o ms)
      BY <1>3 DEF Out
<1>5. Out(e)' = Out(e) \o ms
  <2>3. net[Peer(e)] \in Seq(Message) /\ wbuf[e] \in Seq(Message)
        BY <1>1
  <2>4. (net[Peer(e)] \o wbuf[e]) \o ms = net[Peer(e)] \o (wbuf[e] \o ms)
        BY ONLY <2>3, ms \in Seq(Message), MessagesConcat
  <2> QED  BY <2>4, <1>4 DEF Out
<1>6. Out(Peer(e)) = net[e] \o wbuf[Peer(e)] /\ Out(Peer(e))' = Tail(net[e]) \o wbuf[Peer(e)]
      BY <1>3 DEF Out
<1>7. Took(e)
      BY <1>1, <1>6, TailConcat DEF Took
<1> QED  BY <1>3, <1>5, <1>7 DEF Added

\* An end closes: of what it had on its way, the buffer is lost.
LEMMA CloseOut ==
    ASSUME Bufs, NEW e \in End, Close(e), open \in [End -> BOOLEAN]
    PROVE  /\ Bufs' /\ ~open'[e] /\ open'[Peer(e)] = open[Peer(e)]
           /\ Out(e)' = net[Peer(e)]
<1> USE PeerEnd
<1>1. /\ wbuf' = [wbuf EXCEPT ![e] = <<>>] /\ net' = [net EXCEPT ![e] = <<>>]
      /\ open' = [open EXCEPT ![e] = FALSE]
      BY DEF Close
<1>2. Bufs' /\ wbuf'[e] = <<>> /\ net'[Peer(e)] = net[Peer(e)] /\ net[Peer(e)] \in Seq(Message)
      BY <1>1, EmptySeq DEF Bufs
<1>3. Out(e)' = net[Peer(e)]
      BY <1>2, ConcatEmptySeq DEF Out
<1> QED  BY <1>1, <1>2, <1>3

-----------------------------------------------------------------------------
(* Steps                                                                   *)

\* Steps that leave the streams, the stages and the packets alone.
Quiet(e) ==
    \/ ClearDeadline(e) \/ PeekEnd(e) \/ Expire(e)
    \/ PacketFails \/ HandlerReturns \/ UNCHANGED vars

\* Steps that read and do nothing about what they have read.
Passes(e) ==
    \/ SkipMsg(e)
    \/ e = "cli" /\ IgnoreReply
    \/ e = "srv" /\ IgnoreRequest

\* Steps that close an end.
Closes(e) == (PrepareFails(e) \/ (e = "cli" /\ CloseClient) \/ (e = "srv" /\ Collect)) /\ Close(e)

\* Every step is one of these.
ClientCase ==
    \/ Hello \/ ReadS0S1S2 \/ WriteConnect \/ ReadConnectResult \/ WriteCreateStream
    \/ ReadCreateResult \/ WriteRequest \/ ReadStatus
ServerCase ==
    \/ ReadC0C1 \/ ReadC2 \/ ReadConnect \/ ReadCreateStream \/ ReadRequest \/ WriteResult
EitherCase(e) ==
    \/ Quiet(e) \/ Passes(e) \/ Closes(e)
    \/ WriteDataStart(e) \/ WriteTag(e) \/ ReadTag(e) \/ WriteAck(e) \/ PeekRead(e)

LEMMA NextCases ==
    ASSUME [Next]_vars
    PROVE  ClientCase \/ ServerCase \/ \E e \in End : EitherCase(e)
<1>0. "cli" \in End /\ "srv" \in End
      BY DEF End
<1>1. CASE Next
  <2>1. ASSUME NEW e \in End, Step(e)
        PROVE  ClientCase \/ ServerCase \/ EitherCase(e)
        BY <2>1 DEF End, Step, ClientStep, ServerStep, ClientCase, ServerCase, EitherCase, Passes,
                    Closes, Quiet, PrepareFails
  <2>2. ASSUME NEW e \in End, PeekStep(e) \/ WriteTag(e) \/ Expire(e)
        PROVE  EitherCase(e)
        BY <2>2 DEF PeekStep, EitherCase, Quiet
  <2>3. CASE FirstPacket
        BY <1>0, <2>3 DEF FirstPacket, ServerCase, EitherCase
  <2>4. CASE PacketFails \/ HandlerReturns \/ Finished
        BY <1>0, <2>4 DEF Finished, EitherCase, Quiet
  <2>5. CASE CloseClient
        BY <1>0, <2>5 DEF EitherCase, Closes, CloseClient
  <2>6. CASE Collect
        BY <1>0, <2>6 DEF EitherCase, Closes, Collect
  <2> QED  BY <1>1, <2>1, <2>2, <2>3, <2>4, <2>5, <2>6 DEF Next
<1>2. CASE UNCHANGED vars
      BY <1>0, <1>2 DEF EitherCase, Quiet
<1> QED  BY <1>1, <1>2

\* What never goes back.
Forward ==
    /\ flags' = flags
    /\ \A e \in End : stage'[e] >= stage[e] /\ (open'[e] => open[e])
    /\ pc["cli"] \notin Requesting => pc'["cli"] \notin Requesting
    /\ pc["cli"] \notin Connecting => pc'["cli"] \notin Connecting
    /\ pc["srv"] \notin Accepting => pc'["srv"] \notin Accepting
    /\ avmsgsid["srv"] = 1 => avmsgsid'["srv"] = 1

Ctrl == TypeOK /\ PlaceInv

LEMMA NextForward == Ctrl /\ [Next]_vars => Forward
<1> SUFFICES ASSUME Ctrl, [Next]_vars
             PROVE  Forward
    OBVIOUS
<1>0. /\ pc \in [End -> CliPc \union SrvPc] /\ stage \in [End -> 0..4] /\ open \in [End -> BOOLEAN]
      /\ avmsgsid \in [End -> 0..1] /\ "cli" \in End /\ "srv" \in End
      BY DEF Ctrl, TypeOK, PlaceInv, End, StageInit, StageDataStart
<1> USE <1>0 DEF StageInit, StageHandshakeDone, StageGotPublishOrPlayCommand, StageCommandDone, StageDataStart
<1>1. CASE ClientCase
  <2>1. CASE Hello
        BY <2>1 DEF Hello, Forward, Goto, sess, ctl, Requesting, Connecting, Accepting
  <2>2. CASE ReadS0S1S2
        BY <2>2 DEF Ctrl, PlaceInv, ReadS0S1S2, Forward, Goto, sess, ctl, Requesting, Connecting, Accepting
  <2>3. CASE WriteConnect
        BY <2>3 DEF WriteConnect, Forward, Goto, sess, ctl, Requesting, Connecting, Accepting
  <2>4. CASE ReadConnectResult
        BY <2>4 DEF ReadConnectResult, Forward, Goto, sess, ctl, Requesting, Connecting, Accepting
  <2>5. CASE WriteCreateStream
        BY <2>5 DEF WriteCreateStream, Forward, Goto, sess, ctl, Requesting, Connecting, Accepting
  <2>6. CASE ReadCreateResult
        BY <2>6 DEF ReadCreateResult, Forward, Goto, sess, ctl, Requesting, Connecting, Accepting
  <2>7. CASE WriteRequest
        BY <2>7 DEF WriteRequest, Forward, Goto, sess, ctl, Requesting, Connecting, Accepting
  <2>8. CASE ReadStatus
        BY <2>8 DEF Ctrl, PlaceInv, ReadStatus, Forward, Goto, sess, ctl, Requesting, Connecting, Accepting
  <2> QED  BY <1>1, <2>1, <2>2, <2>3, <2>4, <2>5, <2>6, <2>7, <2>8 DEF ClientCase
<1>2. CASE ServerCase
  <2>1. CASE ReadC0C1
        BY <2>1 DEF ReadC0C1, Forward, Goto, sess, ctl, Requesting, Connecting, Accepting
  <2>2. CASE ReadC2
        BY <2>2 DEF Ctrl, PlaceInv, ReadC2, Forward, Goto, sess, ctl, Requesting, Connecting, Accepting
  <2>3. CASE ReadConnect
        BY <2>3 DEF ReadConnect, Forward, Goto, sess, ctl, Requesting, Connecting, Accepting
  <2>4. CASE ReadCreateStream
    <3>1. /\ flags' = flags /\ stage' = stage /\ open' = open /\ pc' = pc
          /\ avmsgsid' = [avmsgsid EXCEPT !["srv"] = 1]
          BY <2>4 DEF ReadCreateStream, ctl
    <3>2. avmsgsid'["srv"] = 1
          BY <3>1
    <3>3. \A e \in End : stage[e] >= stage[e]
          OBVIOUS
    <3> QED  BY <3>1, <3>2, <3>3 DEF Forward
  <2>5. CASE ReadRequest
        BY <2>5 DEF Ctrl, PlaceInv, ReadRequest, Forward, Goto, sess, ctl, Requesting, Connecting, Accepting
  <2>6. CASE WriteResult
        BY <2>6 DEF Ctrl, PlaceInv, WriteResult, Forward, Goto, sess, ctl, Requesting, Connecting, Accepting
  <2> QED  BY <1>2, <2>1, <2>2, <2>3, <2>4, <2>5, <2>6 DEF ServerCase
<1>3. ASSUME NEW e \in End, EitherCase(e)
      PROVE  Forward
  <2>0. e = "cli" \/ e = "srv"
        BY DEF End
  <2>1. CASE Quiet(e)
        BY <2>0, <2>1 DEF Quiet, ClearDeadline, PeekEnd, Expire, PacketFails, HandlerReturns, vars, Forward,
                          sess, ctl, Requesting, Connecting, Accepting
  <2>2. CASE Passes(e)
        BY <2>2 DEF Passes, SkipMsg, IgnoreReply, IgnoreRequest, IgnoreCommand, Forward, sess, ctl
  <2>3. CASE Closes(e)
        BY <2>0, <2>3 DEF Closes, Close, Forward, sess, Requesting, Connecting, Accepting
  <2>4. CASE WriteDataStart(e)
        BY <2>0, <2>4 DEF Ctrl, PlaceInv, WriteDataStart, Forward, Goto, sess, ctl, Requesting, Connecting, Accepting
  <2>5. CASE WriteTag(e)
        BY <2>5 DEF WriteTag, Stays, Forward, sess, ctl
  <2>6. CASE ReadTag(e)
        BY <2>0, <2>6 DEF ReadTag, Forward, sess, ctl, Requesting, Connecting, Accepting
  <2>7. CASE WriteAck(e)
        BY <2>0, <2>7 DEF WriteAck, Goto, Forward, sess, ctl, Requesting, Connecting, Accepting
  <2>8. CASE PeekRead(e)
        BY <2>8 DEF PeekRead, Forward, sess, ctl
  <2> QED  BY <1>3, <2>1, <2>2, <2>3, <2>4, <2>5, <2>6, <2>7, <2>8 DEF EitherCase
<1> QED  BY <1>1, <1>2, <1>3, NextCases

\* An end that neither reads nor writes stays where it is.
LEMMA ClientFrame ==
    ASSUME ClientCase, pc \in [End -> CliPc \union SrvPc], stage \in [End -> 0..4]
    PROVE  pc'["srv"] = pc["srv"] /\ stage'["srv"] = stage["srv"]
<1>1. CASE Hello \/ WriteConnect \/ WriteCreateStream \/ WriteRequest
      BY <1>1 DEF Hello, WriteConnect, WriteCreateStream, WriteRequest, Goto, sess, End
<1>2. CASE ReadConnectResult
      BY <1>2 DEF ReadConnectResult, Goto, End
<1>3. CASE ReadCreateResult
      BY <1>3 DEF ReadCreateResult, Goto, End
<1>4. CASE ReadS0S1S2
      BY <1>4 DEF ReadS0S1S2, Goto, End
<1>5. CASE ReadStatus
      BY <1>5 DEF ReadStatus, Goto, End
<1> QED  BY <1>1, <1>2, <1>3, <1>4, <1>5 DEF ClientCase

LEMMA ServerFrame ==
    ASSUME ServerCase, pc \in [End -> CliPc \union SrvPc], stage \in [End -> 0..4]
    PROVE  pc'["cli"] = pc["cli"] /\ stage'["cli"] = stage["cli"]
<1>1. CASE ReadC0C1 \/ ReadConnect
      BY <1>1 DEF ReadC0C1, ReadConnect, Goto, sess, End
<1>2. CASE ReadCreateStream
      BY <1>2 DEF ReadCreateStream
<1>3. CASE ReadC2
      BY <1>3 DEF ReadC2, Goto, End
<1>4. CASE ReadRequest
      BY <1>4 DEF ReadRequest, Goto, End
<1>5. CASE WriteResult
      BY <1>5 DEF WriteResult, Goto, End
<1> QED  BY <1>1, <1>2, <1>3, <1>4, <1>5 DEF ServerCase

-----------------------------------------------------------------------------
(* What each step does to the streams                                      *)

Kept(e) == Out(e)' = Out(e)

Controls == {"C0C1", "S0S1S2", "C2", "WindowAckSize", "SetPeerBandwidth", "SetChunkSize",
             "SetBufferLength", "StreamIsRecorded", "StreamBegin", "Ack"}

LEMMA ControlMessages == \A n \in Controls : Ctl(n) \in Message
BY DEF Msg, Ctl, Message, Controls

LEMMA Messages ==
    ASSUME NEW i \in Nat
    PROVE  /\ \A n \in Commands : Cmd(n, i) \in Message
           /\ Packet(i) \in Message /\ OnStatus(i) \in Message
           /\ Result(i, 0, "status") \in Message /\ Result(i, 1, "") \in Message
BY DEF Msg, Cmd, Packet, OnStatus, Result, Message, Commands

LEMMA BasicConfOK == BasicConf \in Seq(Message)
<1>1. Ctl("WindowAckSize") \in Message /\ Ctl("SetPeerBandwidth") \in Message /\ Ctl("SetChunkSize") \in Message
      BY ControlMessages DEF Controls
<1> QED  BY <1>1 DEF BasicConf

CreateMsgs ==
    IF flags = "publish"
    THEN <<Cmd("releaseStream", 2), Cmd("FCPublish", 3), Cmd("createStream", 4)>>
    ELSE <<Cmd("createStream", 2), Ctl("SetBufferLength")>>

LEMMA ClientOut ==
    ASSUME Bufs, flags \in Request
    PROVE  /\ Hello => Bufs' /\ Added("cli", <<Ctl("C0C1")>>) /\ Kept("srv")
           /\ ReadS0S1S2 => Bufs' /\ Took("cli") /\ Added("cli", <<Ctl("C2")>>)
           /\ WriteConnect => Bufs' /\ Added("cli", BasicConf \o <<Cmd("connect", 1)>>) /\ Kept("srv")
           /\ WriteCreateStream => Bufs' /\ Added("cli", CreateMsgs) /\ Kept("srv")
           /\ WriteRequest =>
                Bufs' /\ Kept("srv") /\ Added("cli", <<Cmd(flags, IF flags = "publish" THEN 5 ELSE 0)>>)
           /\ ReadConnectResult \/ ReadCreateResult \/ ReadStatus =>
                Bufs' /\ Took("cli") /\ Kept("cli")
<1>0. "cli" \in End /\ Peer("cli") = "srv"
      BY DEF End, Peer
<1>1. ASSUME Hello
      PROVE  Bufs' /\ Added("cli", <<Ctl("C0C1")>>) /\ Kept("srv")
  <2>0. Ctl("C0C1") \in Message
        BY ControlMessages DEF Controls
  <2>1. <<Ctl("C0C1")>> \in Seq(Message)
        BY <2>0
  <2> QED  BY <1>0, <1>1, <2>1, FlushOut DEF Hello, Kept
<1>2. ASSUME ReadS0S1S2
      PROVE  Bufs' /\ Took("cli") /\ Added("cli", <<Ctl("C2")>>)
  <2>0. Ctl("C2") \in Message
        BY ControlMessages DEF Controls
  <2>1. <<Ctl("C2")>> \in Seq(Message)
        BY <2>0
  <2> QED  BY <1>0, <1>2, <2>1, ReadWriteOut DEF ReadS0S1S2
<1>3. ASSUME WriteConnect
      PROVE  Bufs' /\ Added("cli", BasicConf \o <<Cmd("connect", 1)>>) /\ Kept("srv")
  <2>1. Cmd("connect", 1) \in Message
        BY Messages DEF Commands
  <2>2. <<Cmd("connect", 1)>> \in Seq(Message)
        BY <2>1
  <2>3. BasicConf \o <<Cmd("connect", 1)>> \in Seq(Message)
        BY <2>2, BasicConfOK, ConcatProperties
  <2> QED  BY <1>0, <1>3, <2>3, FlushOut DEF WriteConnect, Kept
<1>4. ASSUME WriteCreateStream
      PROVE  Bufs' /\ Added("cli", CreateMsgs) /\ Kept("srv")
  <2>1. /\ Cmd("releaseStream", 2) \in Message /\ Cmd("FCPublish", 3) \in Message
        /\ Cmd("createStream", 4) \in Message /\ Cmd("createStream", 2) \in Message
        /\ Ctl("SetBufferLength") \in Message
        BY Messages, ControlMessages DEF Commands, Controls
  <2>2. CreateMsgs \in Seq(Message)
        BY <2>1 DEF CreateMsgs
  <2>3. WriteFlush("cli", CreateMsgs, net)
        BY <1>4 DEF WriteCreateStream, CreateMsgs
  <2> QED  BY <1>0, <2>2, <2>3, FlushOut DEF Kept
<1>5. ASSUME WriteRequest
      PROVE  /\ Bufs' /\ Kept("srv") /\ Added("cli", <<Cmd(flags, IF flags = "publish" THEN 5 ELSE 0)>>)
  <2> DEFINE m == Cmd(flags, IF flags = "publish" THEN 5 ELSE 0)
  <2>1. m \in Message
    <3>1. flags \in Commands /\ 5 \in Nat /\ 0 \in Nat
          BY DEF Commands, Request
    <3> QED  BY <3>1, Messages
  <2>2. WriteFlush("cli", <<m>>, net)
        BY <1>5 DEF WriteRequest
  <2> HIDE DEF m
  <2>3. <<m>> \in Seq(Message)
        BY <2>1
  <2>4. Bufs' /\ Kept("srv") /\ Added("cli", <<m>>)
        BY <1>0, <2>2, <2>3, FlushOut DEF Kept
  <2> QED  BY <2>4 DEF m
<1>6. ASSUME ReadConnectResult \/ ReadCreateResult \/ ReadStatus
      PROVE  Bufs' /\ Took("cli") /\ Kept("cli")
      BY <1>0, <1>6, ReadOut DEF ReadConnectResult, ReadCreateResult, ReadStatus, ReadCommand, Kept
<1> QED  BY <1>1, <1>2, <1>3, <1>4, <1>5, <1>6

LEMMA RequestResultOK ==
    ASSUME transid["srv"] \in Nat
    PROVE  RequestResult \in Seq(Message)
<1>1. /\ OnStatus(transid["srv"]) \in Message
      /\ Ctl("StreamIsRecorded") \in Message /\ Ctl("StreamBegin") \in Message
      BY Messages, ControlMessages DEF Controls
<1> QED  BY <1>1 DEF RequestResult

LEMMA ServerOut ==
    ASSUME Bufs, transid["srv"] \in Nat
    PROVE  /\ ReadC0C1 => Bufs' /\ Took("srv") /\ Added("srv", <<Ctl("S0S1S2")>>)
           /\ ReadConnect =>
                /\ Bufs' /\ Took("srv")
                /\ Added("srv", BasicConf \o <<Result(Head(net["srv"]).id, 0, "status")>>)
           /\ ReadCreateStream =>
                Bufs' /\ Took("srv") /\ Added("srv", <<Result(Head(net["srv"]).id, 1, "")>>)
           /\ WriteResult => Bufs' /\ Added("srv", RequestResult) /\ Kept("cli")
           /\ ReadC2 \/ ReadRequest => Bufs' /\ Took("srv") /\ Kept("srv")
<1>0. "srv" \in End /\ Peer("srv") = "cli"
      BY DEF End, Peer
<1>1. ASSUME ReadC0C1
      PROVE  Bufs' /\ Took("srv") /\ Added("srv", <<Ctl("S0S1S2")>>)
  <2>0. Ctl("S0S1S2") \in Message
        BY ControlMessages DEF Controls
  <2>1. <<Ctl("S0S1S2")>> \in Seq(Message)
        BY <2>0
  <2> QED  BY <1>0, <1>1, <2>1, ReadFlushOut DEF ReadC0C1
<1>h. ASSUME HasMsg("srv")
      PROVE  Head(net["srv"]).id \in Nat
  <2>1. Head(net["srv"]) \in Message
        BY <1>0, <1>h, HeadTailProperties DEF HasMsg, Bufs
  <2> QED  BY <2>1 DEF Message
<1>2. ASSUME ReadConnect
      PROVE  /\ Bufs' /\ Took("srv")
             /\ Added("srv", BasicConf \o <<Result(Head(net["srv"]).id, 0, "status")>>)
  <2> DEFINE m == Result(Head(net["srv"]).id, 0, "status")
  <2>1. HasMsg("srv") /\ WriteFlush("srv", BasicConf \o <<m>>, Rest("srv"))
        BY <1>2 DEF ReadConnect, ReadCommand
  <2>2. m \in Message
        BY <1>h, <2>1, Messages
  <2> HIDE DEF m
  <2>3. <<m>> \in Seq(Message)
        BY <2>2
  <2>4. BasicConf \o <<m>> \in Seq(Message)
        BY <2>3, BasicConfOK, ConcatProperties
  <2>5. Bufs' /\ Took("srv") /\ Added("srv", BasicConf \o <<m>>)
        BY <1>0, <2>1, <2>4, ReadFlushOut
  <2> QED  BY <2>5 DEF m
<1>3. ASSUME ReadCreateStream
      PROVE  Bufs' /\ Took("srv") /\ Added("srv", <<Result(Head(net["srv"]).id, 1, "")>>)
  <2> DEFINE m == Result(Head(net["srv"]).id, 1, "")
  <2>1. HasMsg("srv") /\ WriteFlush("srv", <<m>>, Rest("srv"))
        BY <1>3 DEF ReadCreateStream, ReadCommand
  <2>2. m \in Message
        BY <1>h, <2>1, Messages
  <2> HIDE DEF m
  <2>3. <<m>> \in Seq(Message)
        BY <2>2
  <2>4. Bufs' /\ Took("srv") /\ Added("srv", <<m>>)
        BY <1>0, <2>1, <2>3, ReadFlushOut
  <2> QED  BY <2>4 DEF m
<1>4. ASSUME WriteResult
      PROVE  Bufs' /\ Added("srv", RequestResult) /\ Kept("cli")
      BY <1>0, <1>4, RequestResultOK, FlushOut DEF WriteResult, Kept
<1>5. ASSUME ReadC2 \/ ReadRequest
      PROVE  Bufs' /\ Took("srv") /\ Kept("srv")
      BY <1>0, <1>5, ReadOut DEF ReadC2, ReadRequest, ReadCommand, Kept
<1> QED  BY <1>1, <1>2, <1>3, <1>4, <1>5

LEMMA EitherOut ==
    ASSUME Bufs, transid \in [End -> 0..5], wrote \in Nat, open \in [End -> BOOLEAN], NEW e \in End
    PROVE  /\ Quiet(e) => Bufs' /\ Kept("cli") /\ Kept("srv")
           /\ Passes(e) \/ ReadTag(e) \/ PeekRead(e) => Bufs' /\ Took(e) /\ Kept(e)
           /\ Closes(e) => Bufs' /\ Out(e)' = net[Peer(e)]
           /\ WriteDataStart(e) =>
                /\ Bufs' /\ Kept(Peer(e))
                /\ Added(e, IF publishing[e] THEN <<>> ELSE <<OnStatus(transid[e])>>)
           /\ WriteTag(e) => Bufs' /\ Added(e, <<Packet(wrote + 1)>>) /\ Kept(Peer(e))
           /\ WriteAck(e) => Bufs' /\ Added(e, <<Ctl("Ack")>>) /\ Kept(Peer(e))
<1>1. ASSUME Quiet(e)
      PROVE  Bufs' /\ Kept("cli") /\ Kept("srv")
  <2>1. net' = net /\ wbuf' = wbuf
        BY <1>1 DEF Quiet, ClearDeadline, PeekEnd, Expire, PacketFails, HandlerReturns, vars
  <2> QED  BY <2>1 DEF Kept, Out, Bufs
<1>2. ASSUME Passes(e) \/ ReadTag(e) \/ PeekRead(e)
      PROVE  Bufs' /\ Took(e) /\ Kept(e)
  <2>1. HasMsg(e) /\ Read(e) /\ UNCHANGED wbuf
        BY <1>2 DEF Passes, SkipMsg, IgnoreReply, IgnoreRequest, IgnoreCommand, ReadCommand, ReadTag, PeekRead
  <2> QED  BY <2>1, ReadOut DEF Kept
<1>3. ASSUME Closes(e)
      PROVE  Bufs' /\ Out(e)' = net[Peer(e)]
      BY <1>3, CloseOut DEF Closes
<1>4. ASSUME WriteDataStart(e)
      PROVE  /\ Bufs' /\ Kept(Peer(e))
             /\ Added(e, IF publishing[e] THEN <<>> ELSE <<OnStatus(transid[e])>>)
  <2> DEFINE ms == IF publishing[e] THEN <<>> ELSE <<OnStatus(transid[e])>>
  <2>0. transid[e] \in Nat
        OBVIOUS
  <2>1. OnStatus(transid[e]) \in Message
        BY <2>0, Messages
  <2>2. ms \in Seq(Message)
        BY <2>1
  <2>3. WriteFlush(e, ms, net)
        BY <1>4 DEF WriteDataStart
  <2> HIDE DEF ms
  <2>4. Bufs' /\ Kept(Peer(e)) /\ Added(e, ms)
        BY <2>2, <2>3, FlushOut DEF Kept
  <2> QED  BY <2>4 DEF ms
<1>5. ASSUME WriteTag(e)
      PROVE  Bufs' /\ Added(e, <<Packet(wrote + 1)>>) /\ Kept(Peer(e))
  <2> DEFINE ms == <<Packet(wrote + 1)>>
  <2>1. wrote + 1 \in Nat
        OBVIOUS
  <2>2. Packet(wrote + 1) \in Message
        BY <2>1, Messages
  <2>3. ms \in Seq(Message)
        BY <2>2
  <2>4. WriteFlush(e, ms, net) \/ (Write(e, ms) /\ UNCHANGED net)
        BY <1>5 DEF WriteTag
  <2> HIDE DEF ms
  <2>5. Bufs' /\ Kept(Peer(e)) /\ Added(e, ms)
        BY <2>3, <2>4, FlushOut, WriteOut DEF Kept
  <2> QED  BY <2>5 DEF ms
<1>6. ASSUME WriteAck(e)
      PROVE  Bufs' /\ Added(e, <<Ctl("Ack")>>) /\ Kept(Peer(e))
  <2>0. Ctl("Ack") \in Message
        BY ControlMessages DEF Controls
  <2>1. <<Ctl("Ack")>> \in Seq(Message)
        BY <2>0
  <2> QED  BY <1>6, <2>1, FlushOut DEF WriteAck, Kept
<1> QED  BY <1>1, <1>2, <1>3, <1>4, <1>5, <1>6

-----------------------------------------------------------------------------
(* What is read, and the positions of both ends                            *)

LEMMA SrvHead ==
    ASSUME Bufs, CliStream, HasMsg("srv")
    PROVE  /\ Head(net["srv"]) \in CliMsgs
           /\ Tail(Out("cli")) \in Seq(CliMsgs) /\ Paired(Tail(Out("cli")), CliPairs)
           /\ \A i \in 1..Len(Tail(Out("cli"))) : <<Head(net["srv"]), Tail(Out("cli"))[i]>> \in CliPairs
<1> DEFINE s == Out("cli")
<1>1. net["srv"] \in Seq(Message) /\ wbuf["cli"] \in Seq(Message) /\ net["srv"] # <<>> /\ open["srv"]
      BY DEF Bufs, HasMsg, InTime, End
<1>2. s # <<>> /\ Head(s) = Head(net["srv"])
      BY <1>1, TailConcat DEF Out, Peer
<1>3. s \in Seq(CliMsgs) /\ Paired(s, CliPairs)
      BY <1>1 DEF CliStream
<1> HIDE DEF s
<1>4. /\ Tail(s) \in Seq(CliMsgs) /\ Paired(Tail(s), CliPairs) /\ Head(s) = s[1] /\ s[1] \in CliMsgs
      /\ \A i \in 1..Len(Tail(s)) : <<s[1], Tail(s)[i]>> \in CliPairs
      BY <1>2, <1>3, PairedTail
<1> QED  BY <1>2, <1>4 DEF s

LEMMA CliHead ==
    ASSUME Bufs, SrvStream, HasMsg("cli")
    PROVE  /\ Head(net["cli"]) \in SrvMsgs
           /\ Tail(Out("srv")) \in Seq(SrvMsgs) /\ Paired(Tail(Out("srv")), SrvPairs)
           /\ \A i \in 1..Len(Tail(Out("srv"))) : <<Head(net["cli"]), Tail(Out("srv"))[i]>> \in SrvPairs
<1> DEFINE s == Out("srv")
<1>1. net["cli"] \in Seq(Message) /\ wbuf["srv"] \in Seq(Message) /\ net["cli"] # <<>> /\ open["cli"]
      BY DEF Bufs, HasMsg, InTime, End
<1>2. s # <<>> /\ Head(s) = Head(net["cli"])
      BY <1>1, TailConcat DEF Out, Peer
<1>3. s \in Seq(SrvMsgs) /\ Paired(s, SrvPairs)
      BY <1>1 DEF SrvStream
<1> HIDE DEF s
<1>4. /\ Tail(s) \in Seq(SrvMsgs) /\ Paired(Tail(s), SrvPairs) /\ Head(s) = s[1] /\ s[1] \in SrvMsgs
      /\ \A i \in 1..Len(Tail(s)) : <<s[1], Tail(s)[i]>> \in SrvPairs
      BY <1>2, <1>3, PairedTail
<1> QED  BY <1>2, <1>4 DEF s

LEMMA InvBufs == TypeOK => Bufs
BY DEF TypeOK, Bufs

\* The head of a message list belongs to the protocol.
LEMMA Heads ==
    ASSUME Bufs, CliStream, SrvStream, NEW e \in End, HasMsg(e)
    PROVE  /\ Head(net[e]) \in Message
           /\ Head(net[e]).name \in Commands => Head(net[e]).id \in 0..5
BY SrvHead, CliHead DEF End, CliMsgs, SrvMsgs

LEMMA NextPlace == Ctrl /\ [Next]_vars => PlaceInv'
<1> SUFFICES ASSUME Ctrl, [Next]_vars
             PROVE  PlaceInv'
    OBVIOUS
<1>0. /\ pc \in [End -> CliPc \union SrvPc] /\ stage \in [End -> 0..4] /\ open \in [End -> BOOLEAN]
      /\ publishing \in [End -> BOOLEAN] /\ "cli" \in End /\ "srv" \in End
      BY DEF Ctrl, TypeOK, PlaceInv, End, StageInit, StageDataStart
<1> USE <1>0 DEF StageInit, StageHandshakeDone, StageGotPublishOrPlayCommand, StageCommandDone, StageDataStart
<1>1. PlaceInv
      BY DEF Ctrl
<1>2. CASE ClientCase
  <2>1. CASE Hello
        BY <1>1, <2>1 DEF PlaceInv, Hello, Goto, sess, ctl, CliPc, SrvPc, Requesting, Accepting, End, Writing
  <2>2. CASE ReadS0S1S2
        BY <1>1, <2>2 DEF PlaceInv, ReadS0S1S2, Goto, sess, ctl, CliPc, SrvPc, Requesting, Accepting, End, Writing
  <2>3. CASE WriteConnect
        BY <1>1, <2>3 DEF PlaceInv, WriteConnect, Goto, sess, ctl, CliPc, SrvPc, Requesting, Accepting, End, Writing
  <2>4. CASE ReadConnectResult
        BY <1>1, <2>4 DEF PlaceInv, ReadConnectResult, Goto, sess, ctl, CliPc, SrvPc, Requesting, Accepting, End, Writing
  <2>5. CASE WriteCreateStream
        BY <1>1, <2>5 DEF PlaceInv, WriteCreateStream, Goto, sess, ctl, CliPc, SrvPc, Requesting, Accepting, End, Writing
  <2>6. CASE ReadCreateResult
        BY <1>1, <2>6 DEF PlaceInv, ReadCreateResult, Goto, sess, ctl, CliPc, SrvPc, Requesting, Accepting, End, Writing
  <2>7. CASE WriteRequest
        BY <1>1, <2>7 DEF PlaceInv, WriteRequest, Goto, sess, ctl, CliPc, SrvPc, Requesting, Accepting, End, Writing
  <2>8. CASE ReadStatus
        BY <1>1, <2>8 DEF PlaceInv, ReadStatus, Goto, sess, ctl, CliPc, SrvPc, Requesting, Accepting, End, Writing
  <2> QED  BY <1>2, <2>1, <2>2, <2>3, <2>4, <2>5, <2>6, <2>7, <2>8 DEF ClientCase
<1>3. CASE ServerCase
  <2>1. CASE ReadC0C1
        BY <1>1, <2>1 DEF PlaceInv, ReadC0C1, Goto, sess, ctl, CliPc, SrvPc, Requesting, Accepting, End, Writing
  <2>2. CASE ReadC2
        BY <1>1, <2>2 DEF PlaceInv, ReadC2, Goto, sess, ctl, CliPc, SrvPc, Requesting, Accepting, End, Writing
  <2>3. CASE ReadConnect
        BY <1>1, <2>3 DEF PlaceInv, ReadConnect, Goto, sess, ctl, CliPc, SrvPc, Requesting, Accepting, End, Writing
  <2>4. CASE ReadCreateStream
        BY <1>1, <2>4 DEF PlaceInv, ReadCreateStream, ctl, Writing
  <2>5. CASE ReadRequest
        BY <1>1, <2>5 DEF PlaceInv, ReadRequest, Goto, sess, ctl, CliPc, SrvPc, Requesting, Accepting, End, Writing
  <2>6. CASE WriteResult
        BY <1>1, <2>6 DEF PlaceInv, WriteResult, Goto, sess, ctl, CliPc, SrvPc, Requesting, Accepting, End, Writing
  <2> QED  BY <1>3, <2>1, <2>2, <2>3, <2>4, <2>5, <2>6 DEF ServerCase
<1>4. ASSUME NEW e \in End, EitherCase(e)
      PROVE  PlaceInv'
  <2>0. e = "cli" \/ e = "srv"
        BY DEF End
  <2>1. CASE ClearDeadline(e)
        BY <1>1, <2>0, <2>1 DEF PlaceInv, ClearDeadline, sess, CliPc, SrvPc, Requesting, Accepting, End, Writing
  <2>2. CASE PacketFails \/ HandlerReturns
        BY <1>1, <2>2 DEF PlaceInv, PacketFails, HandlerReturns, sess, ctl, CliPc, SrvPc, Requesting, Accepting, End, Writing
  <2>3. CASE PeekEnd(e) \/ Expire(e) \/ UNCHANGED vars
        BY <1>1, <2>3 DEF PlaceInv, PeekEnd, Expire, vars, sess, ctl, Writing
  <2>4. CASE Passes(e)
        BY <1>1, <2>4 DEF PlaceInv, Passes, SkipMsg, IgnoreReply, IgnoreRequest, IgnoreCommand, sess, ctl, Writing
  <2>5. CASE Closes(e)
        BY <1>1, <2>0, <2>5 DEF PlaceInv, Closes, Close, sess, CliPc, SrvPc, Requesting, Accepting, End, Writing
  <2>6. CASE WriteDataStart(e)
        BY <1>1, <2>0, <2>6 DEF PlaceInv, WriteDataStart, Goto, sess, ctl, CliPc, SrvPc, Requesting, Accepting, End, Writing
  <2>7. CASE WriteTag(e)
        BY <1>1, <2>7 DEF PlaceInv, WriteTag, Stays, sess, ctl, Writing
  <2>8. CASE ReadTag(e)
        BY <1>1, <2>0, <2>8 DEF PlaceInv, ReadTag, sess, ctl, CliPc, SrvPc, Requesting, Accepting, End, Writing
  <2>9. CASE WriteAck(e)
        BY <1>1, <2>0, <2>9 DEF PlaceInv, WriteAck, Goto, sess, ctl, CliPc, SrvPc, Requesting, Accepting, End, Writing
  <2>10. CASE PeekRead(e)
        BY <1>1, <2>10 DEF PlaceInv, PeekRead, sess, ctl, Writing
  <2> QED  BY <1>4, <2>1, <2>2, <2>3, <2>4, <2>5, <2>6, <2>7, <2>8, <2>9, <2>10 DEF EitherCase, Quiet
<1> QED  BY <1>2, <1>3, <1>4, NextCases

\* The types of the variables that have no invariant of their own.
LEMMA NextTypes ==
    ASSUME ConnInv, [Next]_vars
    PROVE  /\ flags' \in {"publish", "play"}
           /\ stage' \in [End -> 0..4] /\ publishing' \in [End -> BOOLEAN]
           /\ avmsgsid' \in [End -> 0..1] /\ transid' \in [End -> 0..5]
           /\ open' \in [End -> BOOLEAN] /\ deadline' \in [End -> {"none", "set", "passed"}]
           /\ peek' \in [End -> {"off", "on", "ended"}] /\ closeNotify' \in [End -> BOOLEAN]
           /\ refuse' \in BOOLEAN
<1> DEFINE T == /\ flags \in {"publish", "play"}
                /\ stage \in [End -> 0..4] /\ publishing \in [End -> BOOLEAN]
                /\ avmsgsid \in [End -> 0..1] /\ transid \in [End -> 0..5]
                /\ open \in [End -> BOOLEAN] /\ deadline \in [End -> {"none", "set", "passed"}]
                /\ peek \in [End -> {"off", "on", "ended"}] /\ closeNotify \in [End -> BOOLEAN]
                /\ refuse \in BOOLEAN
<1>0. T
      BY DEF ConnInv, TypeOK, StageInit, StageDataStart
<1>1. \A e \in End : HasMsg(e) =>
        Head(net[e]) \in Message /\ (Head(net[e]).name \in Commands => Head(net[e]).id \in 0..5)
      BY InvBufs, Heads DEF ConnInv
<1> USE <1>0 DEF StageInit, StageHandshakeDone, StageGotPublishOrPlayCommand, StageCommandDone, StageDataStart
<1>2. CASE ClientCase
  <2>1. CASE Hello \/ WriteConnect \/ WriteCreateStream \/ WriteRequest
        BY <2>1 DEF Hello, WriteConnect, WriteCreateStream, WriteRequest, sess, ctl
  <2>2. CASE ReadS0S1S2
    <3>1. /\ stage' = [stage EXCEPT !["cli"] = 1]
          /\ UNCHANGED <<flags, publishing, avmsgsid, transid, open, deadline, peek, closeNotify, refuse>>
          BY <2>2 DEF ReadS0S1S2, ctl
    <3>2. stage' \in [End -> 0..4]
      <4> DEFINE one == 1
      <4>1. one \in 0..4 /\ stage' = [stage EXCEPT !["cli"] = one]
            BY <3>1
      <4> HIDE DEF one
      <4> QED  BY <4>1
    <3> QED  BY <3>1, <3>2
  <2>3. CASE ReadConnectResult
        BY <2>3, <1>1 DEF ReadConnectResult, ReadCommand, End, ctl
  <2>4. CASE ReadCreateResult
    <3>1. Head(net["cli"]).sid \in 0..1
          BY <2>4, <1>1 DEF ReadCreateResult, ReadCommand, End, Message
    <3> QED  BY <2>4, <1>1, <3>1 DEF ReadCreateResult, ReadCommand, End, ctl
  <2>5. CASE ReadStatus
        BY <2>5, <1>1 DEF ReadStatus, ReadCommand, StartPeek, End
  <2> QED  BY <1>2, <2>1, <2>2, <2>3, <2>4, <2>5 DEF ClientCase
<1>3. CASE ServerCase
  <2>1. CASE ReadC0C1 \/ ReadC2 \/ WriteResult
        BY <2>1 DEF ReadC0C1, ReadC2, WriteResult, sess, ctl
  <2>2. CASE ReadConnect
        BY <2>2, <1>1 DEF ReadConnect, ReadCommand, End, ctl
  <2>3. CASE ReadCreateStream
    <3>1. /\ avmsgsid' = [avmsgsid EXCEPT !["srv"] = 1]
          /\ transid' = [transid EXCEPT !["srv"] = Head(net["srv"]).id]
          /\ UNCHANGED <<flags, stage, publishing, open, deadline, peek, closeNotify, refuse>>
          BY <2>3 DEF ReadCreateStream, ReadCommand, ctl
    <3>2. Head(net["srv"]).id \in 0..5
          BY <2>3, <1>1 DEF ReadCreateStream, ReadCommand, End
    <3>3. transid' \in [End -> 0..5]
          BY <3>1, <3>2
    <3>4. avmsgsid' \in [End -> 0..1]
      <4> DEFINE one == 1
      <4>1. one \in 0..1 /\ avmsgsid' = [avmsgsid EXCEPT !["srv"] = one]
            BY <3>1
      <4> HIDE DEF one
      <4> QED  BY <4>1
    <3> QED  BY <3>1, <3>3, <3>4
  <2>4. CASE ReadRequest
        BY <2>4, <1>1 DEF ReadRequest, ReadCommand, StartPeek, End
  <2> QED  BY <1>3, <2>1, <2>2, <2>3, <2>4 DEF ServerCase
<1>4. ASSUME NEW e \in End, EitherCase(e)
      PROVE  T'
  <2>1. CASE ClearDeadline(e)
        BY <2>1, ConnAssumption DEF ClearDeadline, sess
  <2>2. CASE PeekEnd(e) \/ Expire(e) \/ PacketFails \/ HandlerReturns \/ UNCHANGED vars
        BY <2>2 DEF PeekEnd, Expire, PacketFails, HandlerReturns, vars, sess, ctl
  <2>3. CASE Passes(e)
        BY <2>3, <1>1 DEF Passes, SkipMsg, IgnoreReply, IgnoreRequest, IgnoreCommand, ReadCommand, End, sess, ctl
  <2>4. CASE Closes(e)
        BY <2>4 DEF Closes, Close, sess
  <2>5. CASE WriteDataStart(e) \/ WriteTag(e) \/ ReadTag(e) \/ WriteAck(e) \/ PeekRead(e)
        BY <2>5 DEF WriteDataStart, WriteTag, ReadTag, WriteAck, PeekRead, sess, ctl
  <2> QED  BY <1>4, <2>1, <2>2, <2>3, <2>4, <2>5 DEF EitherCase, Quiet
<1> QED  BY <1>2, <1>3, <1>4, NextCases

LEMMA NextBufs == ConnInv /\ [Next]_vars => Bufs'
<1> SUFFICES ASSUME ConnInv, [Next]_vars
             PROVE  Bufs'
    OBVIOUS
<1>0. /\ Bufs /\ flags \in Request /\ transid \in [End -> 0..5] /\ transid["srv"] \in Nat /\ wrote \in Nat
      /\ open \in [End -> BOOLEAN]
      BY InvBufs, ConnAssumption DEF ConnInv, TypeOK, Request, End
<1>1. CASE ClientCase
      BY <1>0, <1>1, ClientOut DEF ClientCase
<1>2. CASE ServerCase
      BY <1>0, <1>2, ServerOut DEF ServerCase
<1>3. ASSUME NEW e \in End, EitherCase(e)
      PROVE  Bufs'
      BY <1>0, <1>3, EitherOut DEF EitherCase
<1> QED  BY <1>1, <1>2, <1>3, NextCases

LEMMA NextAgree == ConnInv /\ [Next]_vars => AgreeInv'
<1> SUFFICES ASSUME ConnInv, [Next]_vars
             PROVE  AgreeInv'
    OBVIOUS
<1>0. /\ pc \in [End -> CliPc \union SrvPc] /\ stage \in [End -> 0..4] /\ open \in [End -> BOOLEAN]
      /\ publishing \in [End -> BOOLEAN] /\ avmsgsid \in [End -> 0..1] /\ flags \in {"publish", "play"}
      /\ peek \in [End -> {"off", "on", "ended"}]
      /\ "cli" \in End /\ "srv" \in End
      BY DEF ConnInv, TypeOK, PlaceInv, End, StageInit, StageDataStart
<1> USE <1>0 DEF StageInit, StageHandshakeDone, StageGotPublishOrPlayCommand, StageCommandDone, StageDataStart
<1>1. PlaceInv /\ AgreeInv
      BY DEF ConnInv
<1>2. HasMsg("srv") => Head(net["srv"]) \in CliMsgs
      BY SrvHead, InvBufs DEF ConnInv
<1>3. HasMsg("cli") => Head(net["cli"]) \in SrvMsgs
      BY CliHead, InvBufs DEF ConnInv
<1>4. CASE ClientCase
  <2>1. CASE Hello
        BY <1>1, <2>1 DEF AgreeInv, Hello, Goto, sess, ctl, Requesting, Connecting, Accepting
  <2>2. CASE ReadS0S1S2
        BY <1>1, <2>2 DEF PlaceInv, AgreeInv, ReadS0S1S2, Goto, sess, ctl, Requesting, Connecting, Accepting
  <2>3. CASE WriteConnect
        BY <1>1, <2>3 DEF AgreeInv, WriteConnect, Goto, sess, ctl, Requesting, Connecting, Accepting
  <2>4. CASE ReadConnectResult
    <3>1. pc["srv"] \notin Accepting
          BY <1>3, <2>4 DEF ReadConnectResult, ReadCommand, SrvMsgs
    <3> QED  BY <1>1, <2>4, <3>1 DEF AgreeInv, ReadConnectResult, Goto, sess, ctl, Requesting
  <2>5. CASE WriteCreateStream
        BY <1>1, <2>5 DEF AgreeInv, WriteCreateStream, Goto, sess, ctl, Requesting, Connecting, Accepting
  <2>6. CASE ReadCreateResult
    <3>1. Head(net["cli"]).sid = 1 /\ avmsgsid["srv"] = 1
          BY <1>3, <2>6 DEF ReadCreateResult, ReadCommand, CreateResult, SrvMsgs, Message, Connecting
    <3> QED  BY <1>1, <2>6, <3>1 DEF AgreeInv, ReadCreateResult, Goto, sess, ctl, Requesting, Connecting
  <2>7. CASE WriteRequest
        BY <1>1, <2>7 DEF AgreeInv, WriteRequest, Goto, sess, ctl, Requesting, Connecting
  <2>8. CASE ReadStatus
    <3>1. stage["srv"] >= 3
          BY <1>3, <2>8 DEF ReadStatus, ReadCommand, SrvMsgs
    <3> QED  BY <1>1, <2>8, <3>1 DEF PlaceInv, AgreeInv, ReadStatus, StartPeek, Goto, sess, Requesting, Connecting
  <2> QED  BY <1>4, <2>1, <2>2, <2>3, <2>4, <2>5, <2>6, <2>7, <2>8 DEF ClientCase
<1>5. CASE ServerCase
  <2>1. CASE ReadC0C1
        BY <1>1, <2>1 DEF AgreeInv, ReadC0C1, Goto, sess, ctl, Accepting
  <2>2. CASE ReadC2
        BY <1>1, <2>2 DEF PlaceInv, AgreeInv, ReadC2, Goto, sess, ctl, Accepting
  <2>3. CASE ReadConnect
        BY <1>1, <2>3 DEF AgreeInv, ReadConnect, Goto, sess, ctl, Accepting
  <2>4. CASE ReadCreateStream
        BY <1>1, <2>4 DEF AgreeInv, ReadCreateStream, ctl
  <2>5. CASE ReadRequest
    <3>1. Head(net["srv"]).name = flags /\ pc["cli"] \notin Requesting
          BY <1>2, <2>5 DEF ReadRequest, ReadCommand, CliMsgs, Request
    <3> QED  BY <1>1, <2>5, <3>1 DEF PlaceInv, AgreeInv, ReadRequest, StartPeek, Goto, sess, Accepting
  <2>6. CASE WriteResult
        BY <1>1, <2>6 DEF PlaceInv, AgreeInv, WriteResult, Goto, sess, ctl, Accepting
  <2> QED  BY <1>5, <2>1, <2>2, <2>3, <2>4, <2>5, <2>6 DEF ServerCase
<1>6. ASSUME NEW e \in End, EitherCase(e)
      PROVE  AgreeInv'
  <2>0. e = "cli" \/ e = "srv"
        BY DEF End
  <2>1. CASE Quiet(e)
    <3>1. CASE ClearDeadline(e)
          BY <1>1, <2>0, <3>1 DEF AgreeInv, ClearDeadline, sess, Requesting, Connecting, Accepting
    <3>2. CASE PeekEnd(e)
          BY <1>1, <2>0, <3>2 DEF AgreeInv, PeekEnd, sess
    <3>3. CASE Expire(e) \/ UNCHANGED vars
          BY <1>1, <3>3 DEF AgreeInv, Expire, vars, sess, ctl
    <3>4. CASE PacketFails \/ HandlerReturns
          BY <1>1, <3>4 DEF AgreeInv, PacketFails, HandlerReturns, sess, ctl, Accepting
    <3> QED  BY <2>1, <3>1, <3>2, <3>3, <3>4 DEF Quiet
  <2>2. CASE Passes(e)
        BY <1>1, <2>2 DEF AgreeInv, Passes, SkipMsg, IgnoreReply, IgnoreRequest, IgnoreCommand, sess, ctl
  <2>3. CASE Closes(e)
        BY <1>1, <2>0, <2>3 DEF AgreeInv, Closes, Close, sess, Requesting, Connecting, Accepting
  <2>4. CASE WriteDataStart(e)
        BY <1>1, <2>0, <2>4 DEF PlaceInv, AgreeInv, WriteDataStart, Goto, sess, ctl, Requesting, Connecting, Accepting
  <2>5. CASE WriteTag(e)
        BY <1>1, <2>5 DEF AgreeInv, WriteTag, Stays, sess, ctl
  <2>6. CASE ReadTag(e)
        BY <1>1, <2>0, <2>6 DEF AgreeInv, ReadTag, sess, ctl, Requesting, Connecting, Accepting
  <2>7. CASE WriteAck(e)
        BY <1>1, <2>0, <2>7 DEF AgreeInv, WriteAck, Goto, sess, ctl, Requesting, Connecting, Accepting
  <2>8. CASE PeekRead(e)
        BY <1>1, <2>8 DEF AgreeInv, PeekRead, sess, ctl
  <2> QED  BY <1>6, <2>1, <2>2, <2>3, <2>4, <2>5, <2>6, <2>7, <2>8 DEF EitherCase
<1> QED  BY <1>4, <1>5, <1>6, NextCases

\* A packet that is read is the one that is due.
LEMMA PacketHead ==
    ASSUME ConnInv, NEW e \in End, HasMsg(e), Head(net[e]).name = "packet"
    PROVE  Head(net[e]).id = got + 1 /\ got + 1 <= wrote
<1>0. Bufs /\ CliStream /\ SrvStream /\ CliPackets /\ SrvPackets /\ got \in Nat /\ wrote \in Nat
      BY InvBufs, ConnAssumption DEF ConnInv, TypeOK
<1> DEFINE s == Out(Peer(e))
<1>1. s \in Seq(Message) /\ s # <<>> /\ Head(s) = Head(net[e])
  <2>1. /\ net[e] \in Seq(Message) /\ wbuf[Peer(e)] \in Seq(Message) /\ net[e] # <<>>
        /\ Peer(Peer(e)) = e
        BY <1>0, PeerEnd DEF Bufs, HasMsg
  <2>2. s = net[e] \o wbuf[Peer(e)]
        BY <2>1 DEF Out
  <2> HIDE DEF s
  <2>3. net[e] \o wbuf[Peer(e)] \in Seq(Message)
        BY <2>1, ConcatProperties
  <2> QED  BY <2>1, <2>2, <2>3, TailConcat
<1>2. \E k \in Nat : Pending(s, k, got, wrote, open[Peer(e)])
  <2>1. CASE e = "srv"
    <3>1. flags = "publish" /\ open["srv"]
          BY <1>0, <2>1, SrvHead DEF CliMsgs, HasMsg, InTime
    <3> QED  BY <3>1, <2>1, <1>0 DEF CliPackets, Peer
  <2>2. CASE e = "cli"
    <3>1. flags = "play" /\ open["cli"]
          BY <1>0, <2>2, CliHead DEF SrvMsgs, HasMsg, InTime
    <3> QED  BY <3>1, <2>2, <1>0 DEF SrvPackets, Peer
  <2> QED  BY <2>1, <2>2 DEF End
<1> HIDE DEF s
<1>3. PICK k \in Nat : Pending(s, k, got, wrote, open[Peer(e)])
      BY <1>2
<1>4. CASE k > 0
      BY <1>0, <1>1, <1>3, <1>4, PendingTail
<1>5. CASE k = 0
      BY <1>0, <1>1, <1>3, <1>5, PendingTail
<1> QED  BY <1>4, <1>5

LEMMA NextCounts == ConnInv /\ [Next]_vars => Counts' /\ got' \in Nat /\ wrote' \in 0..MaxPkts
<1> SUFFICES ASSUME ConnInv, [Next]_vars
             PROVE  Counts' /\ got' \in Nat /\ wrote' \in 0..MaxPkts
    OBVIOUS
<1>0. /\ stage \in [End -> 0..4] /\ publishing \in [End -> BOOLEAN] /\ got \in Nat /\ wrote \in 0..MaxPkts
      /\ wrote \in Nat /\ MaxPkts \in Nat /\ flags \in {"publish", "play"} /\ PlaceInv /\ AgreeInv /\ Counts
      BY ConnAssumption DEF ConnInv, TypeOK, StageInit, StageDataStart
<1>1. Forward /\ stage' \in [End -> 0..4]
      BY NextForward, NextTypes DEF ConnInv, Ctrl
<1>2. CASE wrote' = wrote /\ got' = got
  <2> DEFINE w == IF flags = "publish" THEN "cli" ELSE "srv"
  <2>1. flags' = flags /\ w \in End /\ stage'[w] >= stage[w] /\ stage[w] \in 0..4 /\ stage'[w] \in 0..4
        BY <1>0, <1>1 DEF Forward, End
  <2>2. wrote > 0 => stage[w] = 4
        BY <1>0 DEF Counts, StageDataStart
  <2>3. wrote' > 0 => stage'[w] = 4
        BY <1>2, <2>1, <2>2
  <2> QED  BY <1>0, <1>2, <2>1, <2>3 DEF Counts, StageDataStart
<1>3. CASE ClientCase \/ ServerCase
      BY <1>2, <1>3 DEF ClientCase, Hello, ReadS0S1S2, WriteConnect, ReadConnectResult, WriteCreateStream,
                        ReadCreateResult, WriteRequest, ReadStatus, ServerCase, ReadC0C1, ReadC2, ReadConnect,
                        ReadCreateStream, ReadRequest, WriteResult, hist
<1>4. ASSUME NEW e \in End, EitherCase(e)
      PROVE  Counts' /\ got' \in Nat /\ wrote' \in 0..MaxPkts
  <2>1. CASE Quiet(e)
        BY <1>2, <2>1 DEF Quiet, ClearDeadline, PeekEnd, Expire, PacketFails, HandlerReturns, vars, hist
  <2>2. CASE Passes(e) \/ Closes(e)
        BY <1>2, <2>2 DEF Passes, SkipMsg, IgnoreReply, IgnoreRequest, IgnoreCommand, Closes, Close, hist
  <2>3. CASE WriteDataStart(e) \/ WriteAck(e) \/ PeekRead(e)
        BY <1>2, <2>3 DEF WriteDataStart, WriteAck, PeekRead, hist
  <2>4. CASE WriteTag(e)
    <3>1. /\ wrote' = wrote + 1 /\ wrote < MaxPkts /\ got' = got /\ stage' = stage /\ flags' = flags
          /\ pc[e] = "packets" /\ Writing(e)
          BY <2>4 DEF WriteTag, Stays, sess
    <3>2. stage[e] = 4
          BY <3>1, <1>0 DEF PlaceInv, StageDataStart
    <3>3. e = IF flags = "publish" THEN "cli" ELSE "srv"
          BY <3>1, <3>2, <1>0 DEF Writing, AgreeInv, End, StageCommandDone, StageGotPublishOrPlayCommand
    <3> QED  BY <1>0, <3>1, <3>2, <3>3 DEF Counts, StageDataStart
  <2>5. CASE ReadTag(e)
    <3>1. CASE Head(net[e]).name = "packet"
      <4>1. got' = Head(net[e]).id /\ wrote' = wrote /\ stage' = stage /\ flags' = flags /\ HasMsg(e)
            BY <2>5, <3>1 DEF ReadTag, sess
      <4>2. got' = got + 1 /\ got + 1 <= wrote
            BY <3>1, <4>1, PacketHead
      <4> QED  BY <1>0, <4>1, <4>2 DEF Counts
    <3>2. CASE Head(net[e]).name # "packet"
          BY <1>2, <2>5, <3>2 DEF ReadTag
    <3> QED  BY <3>1, <3>2
  <2> QED  BY <1>4, <2>1, <2>2, <2>3, <2>4, <2>5 DEF EitherCase
<1> QED  BY <1>3, <1>4, NextCases

-----------------------------------------------------------------------------
(* What the client has on its way                                          *)

\* The beginning of a stream is a stream.
LEMMA StreamPrefix ==
    ASSUME NEW M, NEW A, NEW R, NEW s \in Seq(M), NEW t \in Seq(M), s \o t \in Seq(A), Paired(s \o t, R)
    PROVE  s \in Seq(A) /\ Paired(s, R)
<1> DEFINE n == Len(s)  m == Len(t)  u == s \o t
<1>1. n \in Nat /\ m \in Nat
      OBVIOUS
<1>2. Len(u) = n + m /\ \A i \in 1..n + m : u[i] = IF i <= n THEN s[i] ELSE t[i - n]
      BY ConcatProperties
<1>3. \A i \in 1..n + m : u[i] \in A
      BY <1>2, ElementOfSeq
<1> HIDE DEF n, m, u
<1>4. \A i \in 1..n : i \in 1..n + m /\ u[i] = s[i]
      BY <1>1, <1>2
<1>5. \A i \in 1..n : s[i] \in A
      BY <1>3, <1>4
<1>6. s \in Seq(A)
      BY <1>5, SeqOver DEF n
<1>7. Paired(s, R)
      BY PairedPrefix
<1> QED  BY <1>6, <1>7

\* Control facts every lemma below needs.
Small ==
    /\ stage \in [End -> 0..4] /\ publishing \in [End -> BOOLEAN] /\ flags \in Request
    /\ avmsgsid \in [End -> 0..1] /\ open \in [End -> BOOLEAN] /\ transid \in [End -> 0..5]
    /\ wrote \in Nat /\ got \in Nat

LEMMA NextSmall ==
    ASSUME ConnInv, [Next]_vars
    PROVE  Small /\ Small' /\ Forward /\ Bufs /\ Bufs' /\ "cli" \in End /\ "srv" \in End
<1>1. Small /\ Bufs /\ "cli" \in End /\ "srv" \in End
      BY ConnAssumption, InvBufs DEF ConnInv, TypeOK, Small, Request, StageInit, StageDataStart, End
<1>2. wrote' \in Nat /\ got' \in Nat
      BY NextCounts
<1> QED  BY <1>1, <1>2, NextForward, NextTypes, NextBufs DEF ConnInv, Ctrl, Small, Request

\* Nothing the client may send becomes impossible, but for the request that the
\* server reads.
LEMMA CliMsgsGrow ==
    ASSUME ConnInv, [Next]_vars
    PROVE  CliPairs' = CliPairs /\ (ReadRequest \/ CliMsgs \subseteq CliMsgs')
<1> USE NextSmall
<1>1. flags' = flags
      BY DEF Forward
<1>2. ReadRequest \/ (stage'["srv"] >= 2 => stage["srv"] >= 2)
  <2>1. CASE ClientCase
        BY <2>1, ClientFrame DEF Small, ConnInv, PlaceInv
  <2>2. CASE ServerCase
    <3>1. CASE ReadC0C1 \/ ReadConnect \/ ReadCreateStream
          BY <3>1 DEF ReadC0C1, ReadConnect, ReadCreateStream, sess
    <3>2. CASE ReadC2
          BY <3>2 DEF ReadC2, Small, StageHandshakeDone
    <3>3. CASE WriteResult
          BY <3>3 DEF WriteResult, Goto, ConnInv, PlaceInv, StageGotPublishOrPlayCommand
    <3> QED  BY <2>2, <3>1, <3>2, <3>3 DEF ServerCase
  <2>3. ASSUME NEW e \in End, EitherCase(e)
        PROVE  stage'["srv"] >= 2 => stage["srv"] >= 2
    <3>1. CASE WriteDataStart(e)
          BY <3>1 DEF WriteDataStart, Small, Goto, ConnInv, PlaceInv, StageCommandDone, StageDataStart
    <3>2. CASE Quiet(e) \/ Passes(e) \/ Closes(e)
          BY <3>2 DEF Quiet, ClearDeadline, PeekEnd, Expire, PacketFails, HandlerReturns, vars, sess,
                      Passes, SkipMsg, IgnoreReply, IgnoreRequest, IgnoreCommand, Closes, Close
    <3>3. CASE WriteTag(e) \/ ReadTag(e) \/ WriteAck(e) \/ PeekRead(e)
          BY <3>3 DEF WriteTag, ReadTag, WriteAck, PeekRead, sess
    <3> QED  BY <2>3, <3>1, <3>2, <3>3 DEF EitherCase
  <2> QED  BY <2>1, <2>2, <2>3, NextCases
<1>3. CliPairs' = CliPairs
      BY <1>1 DEF CliPairs, CliTail
<1>4. ASSUME stage'["srv"] >= 2 => stage["srv"] >= 2, NEW m \in CliMsgs
      PROVE  m \in CliMsgs'
  <2>1. stage["cli"] = 4 => stage'["cli"] = 4
        BY DEF Forward, Small
  <2> QED  BY <1>1, <1>4, <2>1 DEF CliMsgs, CliTail, Forward, StageGotPublishOrPlayCommand, StageDataStart
<1> QED  BY <1>2, <1>3, <1>4

\* Nothing happens to the stream, or its first message is read, or its end is lost.
LEMMA CliRest ==
    ASSUME ConnInv, [Next]_vars, CliMsgs \subseteq CliMsgs',
           Kept("cli") \/ Took("srv") \/ Out("cli")' = net["srv"]
    PROVE  CliStream'
<1> SUFFICES ASSUME open'["srv"]
             PROVE  Out("cli")' \in Seq(CliMsgs') /\ Paired(Out("cli")', CliPairs')
    BY DEF CliStream
<1> DEFINE s == Out("cli")  t == Out("cli")'
<1>0. CliPairs' = CliPairs
      BY CliMsgsGrow
<1>1. s \in Seq(CliMsgs) /\ Paired(s, CliPairs)
      BY NextSmall DEF ConnInv, CliStream, Forward
<1>2. t = s \/ (s # <<>> /\ t = Tail(s)) \/ t = net["srv"]
      BY DEF Kept, Took, Peer
<1>3. CASE t = net["srv"]
  <2>1. s = net["srv"] \o wbuf["cli"] /\ net["srv"] \in Seq(Message) /\ wbuf["cli"] \in Seq(Message)
        BY NextSmall DEF Out, Peer, Bufs
  <2>2. net["srv"] \in Seq(CliMsgs) /\ Paired(net["srv"], CliPairs)
    <3>1. net["srv"] \o wbuf["cli"] \in Seq(CliMsgs) /\ Paired(net["srv"] \o wbuf["cli"], CliPairs)
          BY <1>1, <2>1
    <3> QED  BY ONLY <2>1, <3>1, StreamPrefix
  <2>3. net["srv"] \in Seq(CliMsgs')
        BY <2>2, SeqMonotonic
  <2> QED  BY <1>0, <1>3, <2>2, <2>3
<1> HIDE DEF s, t
<1>4. CASE t = s
      BY <1>0, <1>1, <1>4, SeqMonotonic DEF t
<1>5. CASE s # <<>> /\ t = Tail(s)
  <2>1. t \in Seq(CliMsgs) /\ Paired(t, CliPairs)
        BY <1>1, <1>5, PairedTail
  <2> QED  BY <2>1, <1>0, SeqMonotonic DEF t
<1> QED  BY <1>2, <1>3, <1>4, <1>5

\* One message is added.
LEMMA CliOne ==
    ASSUME ConnInv, [Next]_vars, CliMsgs \subseteq CliMsgs', NEW A, NEW x, Added("cli", <<x>>),
           open["srv"] => Out("cli") \in Seq(A), x \in CliMsgs', \A a \in A : <<a, x>> \in CliPairs
    PROVE  CliStream'
<1> SUFFICES ASSUME open'["srv"]
             PROVE  Out("cli")' \in Seq(CliMsgs') /\ Paired(Out("cli")', CliPairs')
    BY DEF CliStream
<1> DEFINE s == Out("cli")  B == CliMsgs'
<1>1. open["srv"] /\ CliPairs' = CliPairs
      BY NextSmall, CliMsgsGrow DEF Forward
<1>2. Out("cli")' = s \o <<x>>
      BY <1>1 DEF Added, Peer
<1>3. s \in Seq(A) /\ s \in Seq(CliMsgs) /\ Paired(s, CliPairs) /\ x \in B
      BY <1>1 DEF ConnInv, CliStream
<1>4. s \in Seq(B)
      BY <1>3, SeqMonotonic
<1> HIDE DEF s, B
<1>5. <<x>> \in Seq(B)
      BY <1>3
<1>6. s \o <<x>> \in Seq(B)
      BY <1>4, <1>5, ConcatProperties
<1>7. Paired(s \o <<x>>, CliPairs)
      BY <1>3, PairedOne
<1> QED  BY <1>1, <1>2, <1>6, <1>7 DEF B

\* What a client sends before its request.
SetupMsgs == {m \in Message : /\ m.name \notin Request \union {"packet"}
                              /\ m.name \in Commands => m.id \in 0..5}

LEMMA CliSetupMsgs ==
    ASSUME ConnInv, [Next]_vars, pc["cli"] \in Requesting, stage'["srv"] = stage["srv"]
    PROVE  /\ open["srv"] => Out("cli") \in Seq(SetupMsgs)
           /\ SetupMsgs \subseteq CliMsgs'
<1>1. stage["cli"] # 4 /\ stage["srv"] <= 1 /\ stage["srv"] \in 0..4
      BY NextSmall DEF ConnInv, PlaceInv, AgreeInv, Requesting, Small, StageInit, StageHandshakeDone
<1>2. CliMsgs \subseteq SetupMsgs
      BY <1>1 DEF CliMsgs, SetupMsgs, StageDataStart
<1>3. SetupMsgs \subseteq CliMsgs'
      BY <1>1 DEF CliMsgs, SetupMsgs, StageGotPublishOrPlayCommand
<1> QED  BY <1>2, <1>3, SeqMonotonic DEF ConnInv, CliStream

LEMMA CliSetup ==
    ASSUME ConnInv, [Next]_vars, pc["cli"] \in Requesting, stage'["srv"] = stage["srv"],
           NEW ms \in Seq(SetupMsgs), Added("cli", ms)
    PROVE  CliStream'
<1> SUFFICES ASSUME open'["srv"]
             PROVE  Out("cli")' \in Seq(CliMsgs') /\ Paired(Out("cli")', CliPairs')
    BY DEF CliStream
<1> DEFINE s == Out("cli")
<1>1. open["srv"] /\ CliPairs' = CliPairs
      BY NextSmall, CliMsgsGrow DEF Forward
<1>2. Out("cli")' = s \o ms
      BY <1>1 DEF Added, Peer
<1>3. s \in Seq(SetupMsgs) /\ SetupMsgs \subseteq CliMsgs'
      BY <1>1, CliSetupMsgs
<1> HIDE DEF s
<1>4. s \o ms \in Seq(SetupMsgs)
      BY <1>3, ConcatProperties
<1>5. \A a, b \in SetupMsgs : <<a, b>> \in CliPairs
      BY DEF SetupMsgs, CliPairs
<1>6. Paired(s \o ms, CliPairs)
      BY <1>4, <1>5, PairedOver
<1>7. s \o ms \in Seq(CliMsgs')
      BY <1>3, <1>4, SeqMonotonic
<1> QED  BY <1>1, <1>2, <1>6, <1>7

LEMMA CliSetupSent ==
    /\ <<Ctl("C0C1")>> \in Seq(SetupMsgs) /\ <<Ctl("C2")>> \in Seq(SetupMsgs)
    /\ BasicConf \o <<Cmd("connect", 1)>> \in Seq(SetupMsgs) /\ CreateMsgs \in Seq(SetupMsgs)
<1>1. \A n \in Controls : Ctl(n) \in SetupMsgs
      BY ControlMessages DEF Controls, SetupMsgs, Ctl, Msg, Request, Commands
<1>2. \A n \in Commands \ Request, i \in 0..5 : Cmd(n, i) \in SetupMsgs
  <2> TAKE n \in Commands \ Request, i \in 0..5
  <2>0. n \in Commands /\ i \in Nat
        OBVIOUS
  <2>1. Cmd(n, i) \in Message
        BY <2>0, Messages
  <2>2. Cmd(n, i).name = n /\ Cmd(n, i).id = i
        BY DEF Cmd, Msg
  <2>3. n # "packet"
        BY DEF Commands
  <2> HIDE DEF Cmd
  <2> QED  BY <2>1, <2>2, <2>3 DEF SetupMsgs
<1>3. /\ Ctl("C0C1") \in SetupMsgs /\ Ctl("C2") \in SetupMsgs /\ Ctl("WindowAckSize") \in SetupMsgs
      /\ Ctl("SetPeerBandwidth") \in SetupMsgs /\ Ctl("SetChunkSize") \in SetupMsgs
      /\ Ctl("SetBufferLength") \in SetupMsgs
      BY <1>1 DEF Controls
<1>4. /\ Cmd("connect", 1) \in SetupMsgs /\ Cmd("releaseStream", 2) \in SetupMsgs
      /\ Cmd("FCPublish", 3) \in SetupMsgs /\ Cmd("createStream", 4) \in SetupMsgs
      /\ Cmd("createStream", 2) \in SetupMsgs
      BY <1>2 DEF Commands, Request
<1>5. BasicConf \in Seq(SetupMsgs) /\ <<Cmd("connect", 1)>> \in Seq(SetupMsgs)
      BY <1>3, <1>4 DEF BasicConf
<1>6. BasicConf \o <<Cmd("connect", 1)>> \in Seq(SetupMsgs)
      BY <1>5, ConcatProperties
<1>7. CreateMsgs \in Seq(SetupMsgs)
      BY <1>3, <1>4 DEF CreateMsgs
<1> QED  BY <1>3, <1>6, <1>7

LEMMA NextCliStream == ConnInv /\ [Next]_vars => CliStream'
<1> SUFFICES ASSUME ConnInv, [Next]_vars
             PROVE  CliStream'
    OBVIOUS
<1>0. Small /\ Small' /\ Forward /\ Bufs /\ PlaceInv /\ AgreeInv /\ CliStream /\ flags \in Request
      /\ transid["srv"] \in Nat /\ wrote \in Nat /\ transid \in [End -> 0..5] /\ open \in [End -> BOOLEAN]
      BY NextSmall DEF ConnInv, Small
<1>1. CASE ClientCase
  <2>0. stage'["srv"] = stage["srv"] /\ ~ReadRequest
        BY <1>0, <1>1, ClientFrame DEF ReadRequest, Goto, PlaceInv, Small, End
  <2>1. CASE Hello \/ ReadS0S1S2 \/ WriteConnect \/ WriteCreateStream
    <3>1. pc["cli"] \in Requesting
          BY <2>1 DEF Hello, ReadS0S1S2, WriteConnect, WriteCreateStream, Goto, Requesting
    <3>2. \E ms \in Seq(SetupMsgs) : Added("cli", ms)
          BY <2>1, <1>0, ClientOut, CliSetupSent
    <3> QED  BY <2>0, <3>1, <3>2, CliSetup
  <2>2. CASE ReadConnectResult \/ ReadCreateResult \/ ReadStatus
        BY <1>0, <2>0, <2>2, ClientOut, CliMsgsGrow, CliRest
  <2>3. CASE WriteRequest
    <3> DEFINE x == Cmd(flags, IF flags = "publish" THEN 5 ELSE 0)
    <3>1. pc["cli"] \in Requesting /\ pc'["cli"] = "status"
          BY <2>3, <1>0 DEF WriteRequest, Goto, Requesting, PlaceInv, End
    <3>2. open["srv"] => Out("cli") \in Seq(SetupMsgs)
          BY <2>0, <3>1, CliSetupMsgs
    <3>3. x.name = flags /\ x.id \in 0..5 /\ x \in Message
      <4>1. flags \in Commands /\ 5 \in Nat /\ 0 \in Nat
            BY <1>0 DEF Commands, Request
      <4>2. x \in Message
            BY <4>1, Messages
      <4>3. x.name = flags /\ x.id = IF flags = "publish" THEN 5 ELSE 0
            BY DEF Cmd, Msg
      <4> HIDE DEF x
      <4> QED  BY <4>2, <4>3
    <3>4. Added("cli", <<x>>)
          BY <1>0, <2>3, ClientOut
    <3> HIDE DEF x
    <3>5. stage["srv"] <= 1 /\ stage["srv"] \in 0..4 /\ flags' = flags
          BY <1>0, <3>1 DEF AgreeInv, StageHandshakeDone, Small, End, Forward
    <3>6. x \in CliMsgs'
          BY <1>0, <2>0, <3>1, <3>3, <3>5 DEF CliMsgs, Requesting, StageGotPublishOrPlayCommand, Request
    <3>7. \A a \in SetupMsgs : <<a, x>> \in CliPairs
          BY <3>3 DEF SetupMsgs, CliPairs
    <3> QED  BY <2>0, <3>2, <3>4, <3>6, <3>7, CliMsgsGrow, CliOne
  <2> QED  BY <1>1, <2>1, <2>2, <2>3 DEF ClientCase
<1>2. CASE ServerCase
  <2>1. CASE ReadRequest
    <3> SUFFICES ASSUME open'["srv"]
                 PROVE  Out("cli")' \in Seq(CliMsgs') /\ Paired(Out("cli")', CliPairs')
        BY DEF CliStream
    <3> DEFINE t == Tail(Out("cli"))
    <3>1. HasMsg("srv") /\ Head(net["srv"]).name \in Request
          BY <2>1 DEF ReadRequest, ReadCommand, Request
    <3>2. t \in Seq(CliMsgs) /\ Paired(t, CliPairs)
          /\ \A i \in 1..Len(t) : <<Head(net["srv"]), t[i]>> \in CliPairs
          BY <1>0, <3>1, SrvHead
    <3>3. Out("cli")' = t
          BY <1>0, <2>1, ServerOut DEF Took, Peer
    <3> HIDE DEF t
    <3>4. \A i \in 1..Len(t) : t[i] \in CliMsgs /\ t[i].name = CliTail
          BY <3>1, <3>2, ElementOfSeq DEF CliPairs
    <3>5. ASSUME NEW m \in CliMsgs, m.name = CliTail
          PROVE  m \in CliMsgs'
      <4>1. stage["cli"] = 4 => stage'["cli"] = 4
            BY <1>0 DEF Forward, Small, End
      <4> QED  BY <1>0, <3>5, <4>1 DEF CliMsgs, CliTail, Forward, StageDataStart
    <3>6. t \in Seq(CliMsgs')
          BY <3>2, <3>4, <3>5, SeqOver
    <3> QED  BY <3>2, <3>3, <3>6, CliMsgsGrow
  <2>2. CASE ReadC0C1 \/ ReadC2 \/ ReadConnect \/ ReadCreateStream \/ WriteResult
    <3>1. Kept("cli") \/ Took("srv")
          BY <1>0, <2>2, ServerOut
    <3>2. ~ReadRequest
          BY <1>0, <2>2 DEF ReadC0C1, ReadC2, ReadConnect, ReadCreateStream, WriteResult, Goto, ReadRequest,
                            ReadCommand, PlaceInv, End
    <3> QED  BY <3>1, <3>2, CliMsgsGrow, CliRest
  <2> QED  BY <1>2, <2>1, <2>2 DEF ServerCase
<1>3. ASSUME NEW e \in End, EitherCase(e), CliMsgs \subseteq CliMsgs'
      PROVE  CliStream'
  <2>0. (e = "cli" /\ Peer(e) = "srv") \/ (e = "srv" /\ Peer(e) = "cli")
        BY DEF End, Peer
  <2>1. CASE Quiet(e)
        BY <1>0, <1>3, <2>1, EitherOut, CliRest
  <2>2. CASE Passes(e) \/ ReadTag(e) \/ PeekRead(e)
        BY <1>0, <1>3, <2>0, <2>2, EitherOut, CliRest
  <2>3. CASE Closes(e)
    <3>1. CASE e = "cli"
          BY <1>0, <1>3, <2>0, <2>3, <3>1, EitherOut, CliRest
    <3>2. CASE e = "srv"
      <4>1. ~open'["srv"]
            BY <1>0, <2>3, <3>2 DEF Closes, Close, End
      <4> QED  BY <4>1 DEF CliStream
    <3> QED  BY <3>1, <3>2, <2>0
  <2>4. CASE e = "srv" /\ (WriteDataStart(e) \/ WriteTag(e) \/ WriteAck(e))
        BY <1>0, <1>3, <2>0, <2>4, EitherOut, CliRest
  <2>5. CASE e = "cli" /\ WriteDataStart(e)
    <3>1. publishing["cli"]
          BY <1>0, <2>5 DEF WriteDataStart, Goto, PlaceInv, Writing
    <3>2. Added("cli", <<>>)
          BY <1>0, <2>5, <3>1, EitherOut
    <3>3. <<>> \in Seq(SetupMsgs)
          OBVIOUS
    <3>4. CASE open["srv"]
      <4>1. Out("cli") \in Seq(CliMsgs)
            BY <1>0, <3>4 DEF CliStream
      <4>2. Kept("cli")
            BY <3>2, <3>4, <4>1, ConcatEmptySeq DEF Added, Kept, Peer
      <4> QED  BY <1>3, <4>2, CliRest
    <3>5. CASE ~open["srv"]
          BY <1>0, <3>5 DEF CliStream, Forward, End
    <3> QED  BY <3>4, <3>5
  <2>6. CASE e = "cli" /\ WriteTag(e)
    <3> DEFINE x == Packet(wrote + 1)
    <3>1. pc["cli"] = "packets" /\ publishing["cli"] /\ stage' = stage
          BY <2>6 DEF WriteTag, Stays, Writing, sess
    <3>2. flags = "publish" /\ stage["cli"] = 4 /\ flags' = flags /\ stage'["cli"] = 4 /\ pc'["cli"] = "packets"
          BY <1>0, <2>6, <3>1 DEF AgreeInv, PlaceInv, Writing, End, StageDataStart, Forward, WriteTag, Stays
    <3>3. x.name = "packet" /\ x \in Message
      <4>1. wrote + 1 \in Nat
            BY <1>0
      <4>2. x \in Message
            BY <4>1, Messages
      <4> QED  BY <4>2 DEF Packet, Msg
    <3>4. Added("cli", <<x>>)
          BY <1>0, <2>6, EitherOut
    <3> HIDE DEF x
    <3>5. x \in CliMsgs'
          BY <3>2, <3>3 DEF CliMsgs, CliTail, StageDataStart, Commands, Request
    <3>6. \A a \in CliMsgs : <<a, x>> \in CliPairs
          BY <3>2, <3>3 DEF CliMsgs, CliPairs, CliTail
    <3> QED  BY <1>0, <1>3, <3>4, <3>5, <3>6, CliOne DEF CliStream
  <2>7. CASE e = "cli" /\ WriteAck(e)
    <3> DEFINE x == Ctl("Ack")
    <3>1. pc["cli"] = "ack" /\ ~publishing["cli"]
          BY <1>0, <2>7 DEF WriteAck, Goto, PlaceInv, Writing, End
    <3>2. flags = "play" /\ flags' = flags
          BY <1>0, <3>1 DEF AgreeInv, PlaceInv, Writing, End, StageCommandDone, Forward, Small, Request
    <3>3. x.name = "Ack" /\ x \in Message
          BY ControlMessages DEF Controls, Ctl, Msg
    <3>4. Added("cli", <<x>>)
          BY <1>0, <2>7, EitherOut
    <3> HIDE DEF x
    <3>5. x \in CliMsgs'
          BY <3>2, <3>3 DEF CliMsgs, CliTail, Commands, Request
    <3>6. \A a \in CliMsgs : <<a, x>> \in CliPairs
          BY <3>2, <3>3 DEF CliMsgs, CliPairs, CliTail
    <3> QED  BY <1>0, <1>3, <3>4, <3>5, <3>6, CliOne DEF CliStream
  <2> QED  BY <1>3, <2>0, <2>1, <2>2, <2>3, <2>4, <2>5, <2>6, <2>7 DEF EitherCase
<1> QED  BY <1>1, <1>2, <1>3, NextCases, CliMsgsGrow DEF ServerCase

-----------------------------------------------------------------------------
(* What the server has on its way                                          *)

\* Nothing the server may send becomes impossible, but for the results that the
\* client reads.
LEMMA SrvMsgsGrow ==
    ASSUME ConnInv, [Next]_vars
    PROVE  /\ SrvPairs' = SrvPairs
           /\ ReadConnectResult \/ ReadStatus \/ Closes("cli") \/ SrvMsgs \subseteq SrvMsgs'
<1> USE NextSmall
<1>1. flags' = flags
      BY DEF Forward
<1> DEFINE Stay == /\ stage'["cli"] >= 3 => stage["cli"] >= 3
                   /\ pc["cli"] \in Connecting => pc'["cli"] \in Connecting
<1>2. ReadConnectResult \/ ReadStatus \/ Closes("cli") \/ Stay
  <2>0. PlaceInv
        BY DEF ConnInv
  <2>1. CASE ClientCase
    <3>1. CASE Hello \/ WriteConnect \/ WriteCreateStream \/ WriteRequest
          BY <2>0, <3>1 DEF Hello, WriteConnect, WriteCreateStream, WriteRequest, Goto, sess, Connecting, PlaceInv
    <3>2. CASE ReadS0S1S2
          BY <2>0, <3>2 DEF ReadS0S1S2, Goto, Connecting, PlaceInv, Small, StageHandshakeDone
    <3>3. CASE ReadCreateResult
          BY <2>0, <3>3 DEF ReadCreateResult, Goto, Connecting, PlaceInv
    <3> QED  BY <2>1, <3>1, <3>2, <3>3 DEF ClientCase
  <2>2. CASE ServerCase
        BY <2>0, <2>2, ServerFrame DEF Small, PlaceInv
  <2>3. ASSUME NEW e \in End, EitherCase(e)
        PROVE  Closes("cli") \/ Stay
    <3>0. (e = "cli" \/ e = "srv")
          BY DEF End
    <3>1. CASE WriteDataStart(e)
          BY <2>0, <3>0, <3>1 DEF WriteDataStart, Small, Goto, PlaceInv, StageCommandDone, StageDataStart, Connecting
    <3>2. CASE PeekEnd(e) \/ Expire(e) \/ UNCHANGED vars
          BY <2>0, <3>2 DEF PeekEnd, Expire, vars, sess
    <3>3. CASE ClearDeadline(e)
          BY <2>0, <3>0, <3>3 DEF ClearDeadline, sess, PlaceInv, Connecting
    <3>4. CASE PacketFails \/ HandlerReturns
          BY <2>0, <3>4 DEF PacketFails, HandlerReturns, sess, PlaceInv
    <3>5. CASE Passes(e)
          BY <2>0, <3>5 DEF Passes, SkipMsg, IgnoreReply, IgnoreRequest, IgnoreCommand, sess
    <3>6. CASE e = "srv" /\ Closes(e)
          BY <2>0, <3>6 DEF Closes, Close, sess, PlaceInv
    <3>7. CASE WriteTag(e) \/ PeekRead(e)
          BY <2>0, <3>7 DEF WriteTag, PeekRead, Stays, sess
    <3>8. CASE WriteAck(e)
          BY <2>0, <3>0, <3>8 DEF WriteAck, Goto, sess, PlaceInv, Connecting
    <3>9. CASE ReadTag(e)
          BY <2>0, <3>0, <3>9 DEF ReadTag, sess, PlaceInv, Connecting
    <3> QED  BY <2>3, <3>0, <3>1, <3>2, <3>3, <3>4, <3>5, <3>6, <3>7, <3>8, <3>9 DEF EitherCase, Quiet
  <2> QED  BY <2>1, <2>2, <2>3, NextCases
<1>3. SrvPairs' = SrvPairs
      BY <1>1 DEF SrvPairs
<1>4. ASSUME Stay, NEW m \in SrvMsgs
      PROVE  m \in SrvMsgs'
  <2>1. stage["srv"] = 4 => stage'["srv"] = 4
        BY DEF Forward, Small
  <2>2. stage["srv"] >= 3 => stage'["srv"] >= 3
        BY DEF Forward, Small
  <2> QED  BY <1>1, <1>4, <2>1, <2>2 DEF SrvMsgs, Forward, StageCommandDone, StageDataStart
<1> QED  BY <1>2, <1>3, <1>4

\* Nothing happens to the stream, or its first message is read, or its end is lost.
LEMMA SrvRest ==
    ASSUME ConnInv, [Next]_vars, SrvMsgs \subseteq SrvMsgs',
           Kept("srv") \/ Took("cli") \/ Out("srv")' = net["cli"]
    PROVE  SrvStream'
<1> SUFFICES ASSUME open'["cli"]
             PROVE  Out("srv")' \in Seq(SrvMsgs') /\ Paired(Out("srv")', SrvPairs')
    BY DEF SrvStream
<1> DEFINE s == Out("srv")  t == Out("srv")'
<1>0. SrvPairs' = SrvPairs
      BY SrvMsgsGrow
<1>1. s \in Seq(SrvMsgs) /\ Paired(s, SrvPairs)
      BY NextSmall DEF ConnInv, SrvStream, Forward
<1>2. t = s \/ (s # <<>> /\ t = Tail(s)) \/ t = net["cli"]
      BY DEF Kept, Took, Peer
<1>3. CASE t = net["cli"]
  <2>1. s = net["cli"] \o wbuf["srv"] /\ net["cli"] \in Seq(Message) /\ wbuf["srv"] \in Seq(Message)
        BY NextSmall DEF Out, Peer, Bufs
  <2>2. net["cli"] \in Seq(SrvMsgs) /\ Paired(net["cli"], SrvPairs)
    <3>1. net["cli"] \o wbuf["srv"] \in Seq(SrvMsgs) /\ Paired(net["cli"] \o wbuf["srv"], SrvPairs)
          BY <1>1, <2>1
    <3> QED  BY ONLY <2>1, <3>1, StreamPrefix
  <2>3. net["cli"] \in Seq(SrvMsgs')
        BY <2>2, SeqMonotonic
  <2> QED  BY <1>0, <1>3, <2>2, <2>3
<1> HIDE DEF s, t
<1>4. CASE t = s
      BY <1>0, <1>1, <1>4, SeqMonotonic DEF t
<1>5. CASE s # <<>> /\ t = Tail(s)
  <2>1. t \in Seq(SrvMsgs) /\ Paired(t, SrvPairs)
        BY <1>1, <1>5, PairedTail
  <2> QED  BY <2>1, <1>0, SeqMonotonic DEF t
<1> QED  BY <1>2, <1>3, <1>4, <1>5

\* One message is added.
LEMMA SrvOne ==
    ASSUME ConnInv, [Next]_vars, SrvMsgs \subseteq SrvMsgs', NEW A, NEW x, Added("srv", <<x>>),
           open["cli"] => Out("srv") \in Seq(A), x \in SrvMsgs', \A a \in A : <<a, x>> \in SrvPairs
    PROVE  SrvStream'
<1> SUFFICES ASSUME open'["cli"]
             PROVE  Out("srv")' \in Seq(SrvMsgs') /\ Paired(Out("srv")', SrvPairs')
    BY DEF SrvStream
<1> DEFINE s == Out("srv")  B == SrvMsgs'
<1>1. open["cli"] /\ SrvPairs' = SrvPairs
      BY NextSmall, SrvMsgsGrow DEF Forward
<1>2. Out("srv")' = s \o <<x>>
      BY <1>1 DEF Added, Peer
<1>3. s \in Seq(A) /\ s \in Seq(SrvMsgs) /\ Paired(s, SrvPairs) /\ x \in B
      BY <1>1 DEF ConnInv, SrvStream
<1>4. s \in Seq(B)
      BY <1>3, SeqMonotonic
<1> HIDE DEF s, B
<1>5. <<x>> \in Seq(B)
      BY <1>3
<1>6. s \o <<x>> \in Seq(B)
      BY <1>4, <1>5, ConcatProperties
<1>7. Paired(s \o <<x>>, SrvPairs)
      BY <1>3, PairedOne
<1> QED  BY <1>1, <1>2, <1>6, <1>7 DEF B

\* What a server sends before the result of connect.
GreetMsgs == {m \in Message : /\ m.name \notin {"_result", "onStatus", "packet"}
                              /\ m.name \in Commands => m.id \in 0..5}

LEMMA SrvGreetMsgs ==
    ASSUME ConnInv, [Next]_vars, pc["srv"] \in Accepting
    PROVE  /\ open["cli"] => Out("srv") \in Seq(GreetMsgs)
           /\ stage'["cli"] = stage["cli"] => GreetMsgs \subseteq SrvMsgs'
           /\ \A a, b \in GreetMsgs : <<a, b>> \in SrvPairs
<1>1. stage["srv"] <= 1 /\ stage["srv"] \in 0..4 /\ ~(stage["cli"] >= 3)
      BY NextSmall DEF ConnInv, PlaceInv, AgreeInv, Accepting, Small, StageInit, StageHandshakeDone, StageCommandDone
<1>2. SrvMsgs \subseteq GreetMsgs
      BY <1>1 DEF SrvMsgs, GreetMsgs, StageDataStart, StageCommandDone
<1>3. stage'["cli"] = stage["cli"] => GreetMsgs \subseteq SrvMsgs'
      BY <1>1 DEF SrvMsgs, GreetMsgs, StageCommandDone
<1>4. \A a, b \in GreetMsgs : <<a, b>> \in SrvPairs
      BY DEF GreetMsgs, SrvPairs
<1> QED  BY <1>2, <1>3, <1>4, SeqMonotonic DEF ConnInv, SrvStream

LEMMA NextSrvStream == ConnInv /\ [Next]_vars => SrvStream'
<1> SUFFICES ASSUME ConnInv, [Next]_vars
             PROVE  SrvStream'
    OBVIOUS
<1>0. Small /\ Small' /\ Forward /\ Bufs /\ PlaceInv /\ AgreeInv /\ SrvStream /\ flags \in Request
      /\ transid["srv"] \in Nat /\ wrote \in Nat /\ transid \in [End -> 0..5] /\ open \in [End -> BOOLEAN]
      BY NextSmall DEF ConnInv, Small
<1>1. CASE ClientCase
  <2>1. CASE Hello \/ ReadS0S1S2 \/ WriteConnect \/ WriteCreateStream \/ ReadCreateResult \/ WriteRequest
    <3>1. Kept("srv") \/ Took("cli")
          BY <1>0, <2>1, ClientOut
    <3>2. ~ReadConnectResult /\ ~ReadStatus /\ ~Closes("cli")
          BY <1>0, <2>1 DEF Hello, ReadS0S1S2, WriteConnect, WriteCreateStream, ReadCreateResult, WriteRequest,
                            ReadConnectResult, ReadStatus, Closes, Close, Goto, PlaceInv, End
    <3> QED  BY <3>1, <3>2, SrvMsgsGrow, SrvRest
  <2>2. CASE ReadConnectResult \/ ReadStatus
    <3> SUFFICES ASSUME open'["cli"]
                 PROVE  Out("srv")' \in Seq(SrvMsgs') /\ Paired(Out("srv")', SrvPairs')
        BY DEF SrvStream
    <3> DEFINE t == Tail(Out("srv"))  h == Head(net["cli"])
    <3>1. HasMsg("cli")
          BY <2>2 DEF ReadConnectResult, ReadStatus, ReadCommand
    <3>2. t \in Seq(SrvMsgs) /\ Paired(t, SrvPairs) /\ \A i \in 1..Len(t) : <<h, t[i]>> \in SrvPairs
          BY <1>0, <3>1, SrvHead, CliHead
    <3>3. Out("srv")' = t
          BY <1>0, <2>2, ClientOut DEF Took, Peer
    <3>4. /\ stage["srv"] = 4 => stage'["srv"] = 4
          /\ stage["srv"] >= 3 => stage'["srv"] >= 3
          /\ pc["srv"] \notin Accepting => pc'["srv"] \notin Accepting
          /\ avmsgsid["srv"] = 1 => avmsgsid'["srv"] = 1
          /\ flags' = flags
          BY <1>0 DEF Forward, Small, End
    <3>5. \A i \in 1..Len(t) : t[i] \in SrvMsgs'
      <4>1. CASE ReadConnectResult
        <5>1. h.name = "_result" /\ stage' = stage
              BY <4>1 DEF ReadConnectResult
        <5> HIDE DEF t, h
        <5>2. \A i \in 1..Len(t) : t[i] \in SrvMsgs /\ (t[i].name = "_result" => t[i].sid = 1)
              BY <5>1, <3>2, ElementOfSeq DEF SrvPairs
        <5> QED  BY <5>1, <5>2, <3>4 DEF SrvMsgs, StageCommandDone, StageDataStart
      <4>2. CASE ReadStatus
        <5>1. h.name = "onStatus" /\ pc["cli"] = "status"
              BY <4>2 DEF ReadStatus, ReadCommand
        <5> HIDE DEF t, h
        <5>2. \A i \in 1..Len(t) : t[i] \in SrvMsgs /\ (flags = "publish" => t[i].name = "Ack")
              BY <5>1, <3>2, ElementOfSeq DEF SrvPairs
        <5>3. pc["cli"] \notin Connecting
              BY <5>1 DEF Connecting
        <5> QED  BY <5>2, <5>3, <3>4 DEF SrvMsgs, StageCommandDone, StageDataStart
      <4> QED  BY <2>2, <4>1, <4>2
    <3> HIDE DEF t, h
    <3>6. t \in Seq(SrvMsgs')
          BY <3>2, <3>5, SeqOver
    <3> QED  BY <3>2, <3>3, <3>6, SrvMsgsGrow
  <2> QED  BY <1>1, <2>1, <2>2 DEF ClientCase
<1>2. ASSUME ServerCase
      PROVE  SrvMsgs \subseteq SrvMsgs' /\ stage'["cli"] = stage["cli"] /\ pc'["cli"] = pc["cli"]
  <2>1. pc'["cli"] = pc["cli"] /\ stage'["cli"] = stage["cli"]
        BY <1>0, <1>2, ServerFrame DEF Small, PlaceInv
  <2>2. ~ReadConnectResult /\ ~ReadStatus
        BY <1>0, <2>1 DEF ReadConnectResult, ReadStatus, Goto, PlaceInv, End
  <2>3. CASE ~Closes("cli")
        BY <2>1, <2>2, <2>3, SrvMsgsGrow
  <2>4. CASE Closes("cli")
    <3>1. open["cli"] /\ ~open'["cli"]
      <4>1. pc["cli"] # "closed" /\ ~open'["cli"]
            BY <1>0, <2>4 DEF Closes, Close, PrepareFails, Preparing, CloseClient, Collect, Small, End, IOError,
                              BadCommand, HasMsg, InTime, PlaceInv
      <4> QED  BY <1>0, <4>1 DEF PlaceInv, End
    <3>2. open' = open
          BY <1>2 DEF ServerCase, ReadC0C1, ReadC2, ReadConnect, ReadCreateStream, ReadRequest, WriteResult, ctl
    <3> QED  BY <3>1, <3>2
  <2> QED  BY <2>1, <2>3, <2>4
<1>3. CASE ServerCase
  <2>0. SrvMsgs \subseteq SrvMsgs' /\ stage'["cli"] = stage["cli"] /\ pc'["cli"] = pc["cli"]
        BY <1>2, <1>3
  <2>1. CASE ReadC0C1
    <3> DEFINE x == Ctl("S0S1S2")
    <3>1. pc["srv"] \in Accepting
          BY <2>1 DEF ReadC0C1, Goto, Accepting
    <3>2. x \in GreetMsgs
          BY ControlMessages DEF Controls, Ctl, Msg, GreetMsgs, Commands
    <3>3. Added("srv", <<x>>)
          BY <1>0, <2>1, ServerOut
    <3> HIDE DEF x
    <3> QED  BY <2>0, <3>1, <3>2, <3>3, SrvGreetMsgs, SrvOne
  <2>2. CASE ReadConnect
    <3> SUFFICES ASSUME open'["cli"]
                 PROVE  Out("srv")' \in Seq(SrvMsgs') /\ Paired(Out("srv")', SrvPairs')
        BY DEF SrvStream
    <3> DEFINE s == Out("srv")  x == Result(Head(net["srv"]).id, 0, "status")
    <3>1. HasMsg("srv") /\ Head(net["srv"]).name = "connect" /\ pc["srv"] = "connect" /\ pc'["srv"] = "commands"
          BY <1>0, <2>2 DEF ReadConnect, ReadCommand, Goto, PlaceInv, End
    <3>2. Head(net["srv"]).id \in 0..5
          BY <1>0, <3>1, Heads DEF Commands, End, ConnInv
    <3>3. x \in Message /\ x.name = "_result" /\ x.id \in 0..5 /\ x.sid = 0
      <4>1. Head(net["srv"]).id \in Nat
            BY <3>2
      <4>2. x \in Message
            BY <4>1, Messages
      <4> QED  BY <3>2, <4>2 DEF Result, Msg
    <3>4. open["cli"] /\ Out("srv")' = s \o (BasicConf \o <<x>>)
          BY <1>0, <2>2, ServerOut DEF Added, Peer, Forward, End
    <3>5. s \in Seq(GreetMsgs) /\ s \in Seq(Message) /\ GreetMsgs \subseteq SrvMsgs'
          /\ \A a, b \in GreetMsgs : <<a, b>> \in SrvPairs
      <4>1. pc["srv"] \in Accepting
            BY <3>1 DEF Accepting
      <4>2. GreetMsgs \subseteq Message
            BY DEF GreetMsgs
      <4>3. s \in Seq(GreetMsgs)
            BY <2>0, <3>4, <4>1, SrvGreetMsgs
      <4> HIDE DEF s
      <4> QED  BY <2>0, <4>1, <4>2, <4>3, SrvGreetMsgs, SeqMonotonic
    <3>6. BasicConf \in Seq(GreetMsgs)
      <4>1. \A n \in Controls : Ctl(n) \in GreetMsgs
            BY ControlMessages DEF Controls, Ctl, Msg, GreetMsgs, Commands
      <4>2. /\ Ctl("WindowAckSize") \in GreetMsgs /\ Ctl("SetPeerBandwidth") \in GreetMsgs
            /\ Ctl("SetChunkSize") \in GreetMsgs
            BY <4>1 DEF Controls
      <4> QED  BY <4>2 DEF BasicConf
    <3>7. x \in SrvMsgs'
      <4>1. pc["cli"] \in Connecting /\ ~(stage["cli"] >= 3)
            BY <1>0, <3>1, <3>4 DEF AgreeInv, PlaceInv, Accepting, StageCommandDone, StageHandshakeDone, End
      <4>2. pc'["cli"] \in Connecting /\ ~(stage'["cli"] >= 3) /\ pc'["srv"] \notin Accepting
            BY <2>0, <3>1, <4>1 DEF Accepting
      <4> HIDE DEF x
      <4> QED  BY <3>3, <4>2 DEF SrvMsgs, StageCommandDone
    <3>8. \A a \in GreetMsgs : <<a, x>> \in SrvPairs
      <4> HIDE DEF x
      <4> QED  BY <3>3 DEF GreetMsgs, SrvPairs
    <3> HIDE DEF x, s
    <3>9. BasicConf \in Seq(Message) /\ <<x>> \in Seq(Message)
          BY <3>3, BasicConfOK
    <3>10. s \o (BasicConf \o <<x>>) = (s \o BasicConf) \o <<x>>
           BY <3>5, <3>9, MessagesConcat
    <3> DEFINE u == s \o BasicConf  B == SrvMsgs'
    <3>11. u \in Seq(GreetMsgs)
           BY <3>5, <3>6, ConcatProperties
    <3>12. x \in B /\ GreetMsgs \subseteq B
           BY <3>5, <3>7
    <3> HIDE DEF u, B
    <3>13. Paired(u, SrvPairs)
           BY <3>5, <3>11, PairedOver
    <3>14. Paired(u \o <<x>>, SrvPairs)
           BY <3>8, <3>11, <3>13, PairedOne
    <3>15. u \in Seq(B) /\ <<x>> \in Seq(B)
           BY <3>11, <3>12, SeqMonotonic
    <3>16. u \o <<x>> \in Seq(B)
           BY <3>15, ConcatProperties
    <3> QED  BY <3>4, <3>10, <3>14, <3>16, SrvMsgsGrow DEF u, B
  <2>3. CASE ReadCreateStream
    <3> DEFINE x == Result(Head(net["srv"]).id, 1, "")  A == {m \in SrvMsgs : m.name # "onStatus"}
    <3>1. /\ HasMsg("srv") /\ Head(net["srv"]).name = "createStream" /\ pc["srv"] = "commands"
          /\ pc'["srv"] = "commands" /\ avmsgsid'["srv"] = 1
          BY <1>0, <2>3 DEF ReadCreateStream, ReadCommand, Small, End
    <3>2. Head(net["srv"]).id \in 0..5
          BY <1>0, <3>1, Heads DEF Commands, End, ConnInv
    <3>3. x \in Message /\ x.name = "_result" /\ x.id \in 0..5 /\ x.sid = 1
      <4>1. Head(net["srv"]).id \in Nat
            BY <3>2
      <4>2. x \in Message
            BY <4>1, Messages
      <4> QED  BY <3>2, <4>2 DEF Result, Msg
    <3>4. Added("srv", <<x>>)
          BY <1>0, <2>3, ServerOut
    <3> HIDE DEF x
    <3>5. ~(stage["srv"] >= 3) /\ ~(stage["cli"] >= 3)
          BY <1>0, <3>1 DEF PlaceInv, AgreeInv, StageHandshakeDone, StageCommandDone
    <3>6. open["cli"] => Out("srv") \in Seq(A)
      <4>1. SrvMsgs \subseteq A
            BY <3>5 DEF SrvMsgs, StageCommandDone
      <4> HIDE DEF A
      <4> QED  BY <1>0, <4>1, SeqMonotonic DEF SrvStream
    <3>7. x \in SrvMsgs'
          BY <2>0, <3>1, <3>3, <3>5 DEF SrvMsgs, Accepting, StageCommandDone
    <3>8. \A a \in A : <<a, x>> \in SrvPairs
          BY <3>3 DEF SrvMsgs, SrvPairs
    <3> HIDE DEF A
    <3> QED  BY <2>0, <3>4, <3>6, <3>7, <3>8, SrvOne
  <2>4. CASE ReadC2 \/ ReadRequest
        BY <1>0, <2>0, <2>4, ServerOut, SrvRest
  <2>5. CASE WriteResult
    <3> SUFFICES ASSUME open'["cli"]
                 PROVE  Out("srv")' \in Seq(SrvMsgs') /\ Paired(Out("srv")', SrvPairs')
        BY DEF SrvStream
    <3> DEFINE s == Out("srv")  ms == RequestResult  A == {m \in SrvMsgs : m.name # "onStatus"}
               C == {m \in SrvMsgs' : m.name # "_result"}  B == SrvMsgs'  x == OnStatus(transid["srv"])
    <3>1. stage["srv"] = 2 /\ stage'["srv"] = 3 /\ ~(stage'["cli"] >= 3) /\ flags' = flags
          BY <1>0, <2>0, <2>5 DEF WriteResult, Goto, PlaceInv, AgreeInv, Small, End, Forward,
                            StageGotPublishOrPlayCommand, StageCommandDone
    <3>2. open["cli"] /\ Out("srv")' = s \o ms
          BY <1>0, <2>5, ServerOut DEF Added, Peer, Forward, End
    <3>3. s \in Seq(A) /\ s \in Seq(SrvMsgs) /\ Paired(s, SrvPairs)
      <4>1. SrvMsgs \subseteq A
            BY <3>1 DEF SrvMsgs, StageCommandDone
      <4>2. s \in Seq(SrvMsgs) /\ Paired(s, SrvPairs)
            BY <1>0, <3>2 DEF SrvStream
      <4> HIDE DEF A, s
      <4> QED  BY <4>1, <4>2, SeqMonotonic
    <3>4. x \in C /\ Ctl("StreamIsRecorded") \in C /\ Ctl("StreamBegin") \in C
      <4>1. x \in Message /\ x.name = "onStatus" /\ x.id \in 0..5
        <5>1. transid["srv"] \in 0..5
              BY <1>0 DEF End
        <5> QED  BY <1>0, <5>1, Messages DEF OnStatus, Msg
      <4> HIDE DEF x
      <4>2. x \in C
            BY <3>1, <4>1 DEF SrvMsgs, StageCommandDone
      <4>3. \A n \in Controls : Ctl(n) \in Message /\ Ctl(n).name = n
            BY ControlMessages DEF Ctl, Msg
      <4>4. \A n \in Controls : Ctl(n) \in C
            BY <3>1, <4>3 DEF SrvMsgs, StageCommandDone, Controls, Commands
      <4> QED  BY <4>2, <4>4 DEF Controls
    <3>5. ms \in Seq(C)
      <4> HIDE DEF C
      <4> QED  BY <3>4 DEF RequestResult
    <3>6. Paired(ms, SrvPairs)
      <4>1. CASE flags = "play"
        <5>1. \A a, b \in C : <<a, b>> \in SrvPairs
              BY <4>1 DEF SrvMsgs, SrvPairs
        <5> HIDE DEF C, ms
        <5> QED  BY <3>5, <5>1, PairedOver
      <4>2. CASE flags = "publish"
        <5>1. publishing["srv"]
              BY <1>0, <3>1, <4>2 DEF AgreeInv, StageGotPublishOrPlayCommand
        <5>2. ms = <<x>>
              BY <5>1 DEF RequestResult
        <5> HIDE DEF x, ms
        <5> QED  BY <5>2 DEF Paired
      <4> QED  BY <1>0, <4>1, <4>2 DEF Request
    <3>7. \A a \in A, b \in C : <<a, b>> \in SrvPairs
          BY DEF SrvMsgs, SrvPairs
    <3>8. SrvMsgs \subseteq B /\ C \subseteq B
          BY <2>0
    <3> HIDE DEF s, ms, A, B, C
    <3>9. Paired(s \o ms, SrvPairs)
          BY <3>3, <3>5, <3>6, <3>7, PairedConcat
    <3>10. s \in Seq(B) /\ ms \in Seq(B)
           BY <3>3, <3>5, <3>8, SeqMonotonic
    <3>11. s \o ms \in Seq(B)
           BY <3>10, ConcatProperties
    <3> QED  BY <3>2, <3>9, <3>11, SrvMsgsGrow DEF B
  <2> QED  BY <1>3, <2>1, <2>2, <2>3, <2>4, <2>5 DEF ServerCase
<1>4. ASSUME NEW e \in End, EitherCase(e), SrvMsgs \subseteq SrvMsgs'
      PROVE  SrvStream'
  <2>0. (e = "cli" /\ Peer(e) = "srv") \/ (e = "srv" /\ Peer(e) = "cli")
        BY DEF End, Peer
  <2>1. CASE Quiet(e)
        BY <1>0, <1>4, <2>1, EitherOut, SrvRest
  <2>2. CASE Passes(e) \/ ReadTag(e) \/ PeekRead(e)
        BY <1>0, <1>4, <2>0, <2>2, EitherOut, SrvRest
  <2>3. CASE Closes(e)
    <3>1. CASE e = "srv"
          BY <1>0, <1>4, <2>0, <2>3, <3>1, EitherOut, SrvRest
    <3>2. CASE e = "cli"
      <4>1. ~open'["cli"]
            BY <1>0, <2>3, <3>2 DEF Closes, Close, End
      <4> QED  BY <4>1 DEF SrvStream
    <3> QED  BY <3>1, <3>2, <2>0
  <2>4. CASE e = "cli" /\ (WriteDataStart(e) \/ WriteTag(e) \/ WriteAck(e))
        BY <1>0, <1>4, <2>0, <2>4, EitherOut, SrvRest
  <2>5. CASE e = "srv" /\ WriteDataStart(e)
    <3> DEFINE x == OnStatus(transid["srv"])
    <3>1. ~publishing["srv"] /\ stage["srv"] = 3 /\ stage'["srv"] = 4
          BY <1>0, <2>5 DEF WriteDataStart, Goto, PlaceInv, Writing, Small, End, StageCommandDone, StageDataStart
    <3>2. flags = "play" /\ flags' = flags
          BY <1>0, <3>1 DEF AgreeInv, Forward, Request, StageGotPublishOrPlayCommand
    <3>3. Added("srv", <<x>>)
          BY <1>0, <2>5, <3>1, EitherOut
    <3>4. x \in Message /\ x.name = "onStatus" /\ x.id \in 0..5
      <4>1. transid["srv"] \in 0..5
            BY <1>0 DEF End
      <4> QED  BY <1>0, <4>1, Messages DEF OnStatus, Msg
    <3> HIDE DEF x
    <3>5. x \in SrvMsgs'
          BY <3>1, <3>2, <3>4 DEF SrvMsgs, StageCommandDone
    <3>6. \A a \in SrvMsgs : <<a, x>> \in SrvPairs
          BY <3>2, <3>4 DEF SrvMsgs, SrvPairs
    <3> QED  BY <1>0, <1>4, <3>3, <3>5, <3>6, SrvOne DEF SrvStream
  <2>6. CASE e = "srv" /\ WriteTag(e)
    <3> DEFINE x == Packet(wrote + 1)
    <3>1. pc["srv"] = "packets" /\ ~publishing["srv"] /\ stage' = stage
          BY <2>6 DEF WriteTag, Stays, Writing, sess
    <3>2. flags = "play" /\ stage["srv"] = 4 /\ flags' = flags /\ stage'["srv"] = 4
          BY <1>0, <2>6, <3>1 DEF AgreeInv, PlaceInv, Writing, End, StageDataStart, Forward, Request,
                                  StageGotPublishOrPlayCommand
    <3>3. x.name = "packet" /\ x \in Message
      <4>1. wrote + 1 \in Nat
            BY <1>0
      <4>2. x \in Message
            BY <4>1, Messages
      <4> QED  BY <4>2 DEF Packet, Msg
    <3>4. Added("srv", <<x>>)
          BY <1>0, <2>6, EitherOut
    <3> HIDE DEF x
    <3>5. x \in SrvMsgs'
          BY <3>2, <3>3 DEF SrvMsgs, StageDataStart, Commands
    <3>6. \A a \in SrvMsgs : <<a, x>> \in SrvPairs
          BY <3>2, <3>3 DEF SrvMsgs, SrvPairs
    <3> QED  BY <1>0, <1>4, <3>4, <3>5, <3>6, SrvOne DEF SrvStream
  <2>7. CASE e = "srv" /\ WriteAck(e)
    <3> DEFINE x == Ctl("Ack")
    <3>1. x.name = "Ack" /\ x \in Message
          BY ControlMessages DEF Controls, Ctl, Msg
    <3>2. Added("srv", <<x>>)
          BY <1>0, <2>7, EitherOut
    <3> HIDE DEF x
    <3>3. x \in SrvMsgs'
          BY <3>1 DEF SrvMsgs, Commands
    <3>4. \A a \in SrvMsgs : <<a, x>> \in SrvPairs
          BY <3>1 DEF SrvMsgs, SrvPairs
    <3> QED  BY <1>0, <1>4, <3>2, <3>3, <3>4, SrvOne DEF SrvStream
  <2> QED  BY <1>4, <2>0, <2>1, <2>2, <2>3, <2>4, <2>5, <2>6, <2>7 DEF EitherCase
<1>5. ASSUME Closes("cli")
      PROVE  SrvStream'
  <2>1. ~open'["cli"]
        BY <1>0, <1>5 DEF Closes, Close, Small, End
  <2> QED  BY <2>1 DEF SrvStream
<1>6. CASE ReadConnectResult \/ ReadStatus
      BY <1>1, <1>6 DEF ClientCase
<1> QED  BY <1>1, <1>3, <1>4, <1>5, <1>6, NextCases, SrvMsgsGrow

-----------------------------------------------------------------------------
(* What the peek-read loop throws away                                     *)

LEMMA NextDrops == ConnInv /\ [Next]_vars => Drops'
<1> SUFFICES ASSUME ConnInv, [Next]_vars
             PROVE  Drops'
    OBVIOUS
<1>0. Drops /\ AgreeInv /\ Bufs /\ CliStream /\ SrvStream
      BY InvBufs DEF ConnInv
<1>1. CASE dropped' = dropped
      BY <1>0, <1>1 DEF Drops
<1>2. CASE ClientCase \/ ServerCase
      BY <1>1, <1>2 DEF ClientCase, Hello, ReadS0S1S2, WriteConnect, ReadConnectResult, WriteCreateStream,
                        ReadCreateResult, WriteRequest, ReadStatus, ServerCase, ReadC0C1, ReadC2, ReadConnect,
                        ReadCreateStream, ReadRequest, WriteResult, hist
<1>3. ASSUME NEW e \in End, EitherCase(e)
      PROVE  Drops'
  <2>1. CASE Quiet(e) \/ Passes(e) \/ Closes(e)
        BY <1>1, <2>1 DEF Quiet, ClearDeadline, PeekEnd, Expire, PacketFails, HandlerReturns, vars, hist,
                          Passes, SkipMsg, IgnoreReply, IgnoreRequest, IgnoreCommand, Closes, Close
  <2>2. CASE WriteDataStart(e) \/ WriteAck(e) \/ WriteTag(e) \/ ReadTag(e)
        BY <1>1, <2>2 DEF WriteDataStart, WriteAck, WriteTag, ReadTag, hist
  <2>3. CASE PeekRead(e)
    <3>1. HasMsg(e) /\ peek[e] = "on" /\ dropped' = [dropped EXCEPT ![e] = @ \union {Head(net[e]).name}]
          BY <2>3 DEF PeekRead
    <3>2. Head(net[e]).name = "Ack"
      <4>1. CASE e = "cli"
            BY <1>0, <3>1, <4>1, CliHead DEF AgreeInv, SrvMsgs
      <4>2. CASE e = "srv"
            BY <1>0, <3>1, <4>2, SrvHead DEF AgreeInv, CliMsgs, CliTail
      <4> QED  BY <4>1, <4>2 DEF End
    <3> QED  BY <1>0, <3>1, <3>2 DEF Drops
  <2> QED  BY <1>3, <2>1, <2>2, <2>3 DEF EitherCase
<1> QED  BY <1>2, <1>3, NextCases

-----------------------------------------------------------------------------
(* The packets on their way                                                *)

\* More is lost, or the writer is gone: what was pending still is.
LEMMA PendingWeaker ==
    ASSUME NEW s, NEW k, NEW g, NEW w, NEW all, NEW fewer, Pending(s, k, g, w, all), fewer => all
    PROVE  Pending(s, k, g, w, fewer)
BY DEF Pending

\* As long as nothing is packets, nothing has been written or read.
LEMMA BeforePackets ==
    ASSUME ConnInv, NEW w \in End, flags = (IF w = "cli" THEN "publish" ELSE "play"), stage[w] # 4
    PROVE  wrote = 0 /\ got = 0
<1>1. wrote \in Nat /\ got \in Nat /\ got <= wrote
      BY ConnAssumption DEF ConnInv, TypeOK, Counts
<1>2. ~(wrote > 0)
      BY DEF ConnInv, Counts, StageDataStart, End
<1> QED  BY <1>1, <1>2

\* Only a reader of packets reads one.
LEMMA PacketReader ==
    ASSUME ConnInv, NEW e \in End, HasMsg(e), Head(net[e]).name = "packet"
    PROVE  /\ e = "srv" => stage["srv"] >= 3 /\ peek["srv"] # "on"
           /\ e = "cli" => flags = "play" /\ peek["cli"] # "on"
<1>0. Bufs /\ CliStream /\ SrvStream /\ AgreeInv /\ stage \in [End -> 0..4]
      BY InvBufs DEF ConnInv, TypeOK, StageInit, StageDataStart
<1>1. CASE e = "srv"
  <2>1. Head(net["srv"]) \in CliMsgs
        BY <1>0, <1>1, SrvHead
  <2>2. flags = "publish" /\ stage["cli"] = 4
        BY <1>1, <2>1 DEF CliMsgs, StageDataStart
  <2> QED  BY <1>0, <1>1, <2>2 DEF AgreeInv, StageCommandDone
<1>2. CASE e = "cli"
  <2>1. Head(net["cli"]) \in SrvMsgs
        BY <1>0, <1>2, CliHead
  <2> QED  BY <1>0, <1>2, <2>1 DEF SrvMsgs, AgreeInv
<1> QED  BY <1>1, <1>2 DEF End

LEMMA NextCliPackets == ConnInv /\ [Next]_vars => CliPackets'
<1> SUFFICES ASSUME ConnInv, [Next]_vars, flags' = "publish", open'["srv"]
             PROVE  \E k \in Nat : Pending(Out("cli")', k, got', wrote', open'["cli"])
    BY DEF CliPackets
<1>0. /\ Small /\ Forward /\ Bufs /\ PlaceInv /\ AgreeInv /\ CliStream /\ flags \in Request
      /\ transid["srv"] \in Nat /\ wrote \in Nat /\ got \in Nat /\ transid \in [End -> 0..5]
      /\ open \in [End -> BOOLEAN] /\ "cli" \in End /\ "srv" \in End
      BY NextSmall DEF ConnInv, Small
<1>1. flags = "publish" /\ open["srv"] /\ (open'["cli"] => open["cli"])
      BY <1>0 DEF Forward
<1> DEFINE s == Out("cli")
<1>2. s \in Seq(Message)
  <2>1. CliMsgs \subseteq Message
        BY DEF CliMsgs
  <2> QED  BY <1>0, <1>1, <2>1, SeqMonotonic DEF CliStream
<1>3. PICK k \in Nat : Pending(s, k, got, wrote, open["cli"])
      BY <1>1 DEF ConnInv, CliPackets
<1>4. ASSUME Kept("cli"), wrote' = wrote, got' = got
      PROVE  \E j \in Nat : Pending(Out("cli")', j, got', wrote', open'["cli"])
  <2>1. Out("cli")' = s
        BY <1>4 DEF Kept
  <2> HIDE DEF s
  <2>2. Pending(s, k, got, wrote, open'["cli"])
        BY <1>1, <1>3, PendingWeaker
  <2> QED  BY <1>4, <2>1, <2>2
<1>5. ASSUME Took("srv"), HasMsg("srv"), wrote' = wrote, got' = got, Head(net["srv"]).name # "packet"
      PROVE  \E j \in Nat : Pending(Out("cli")', j, got', wrote', open'["cli"])
  <2>1. s # <<>> /\ Head(s) = Head(net["srv"]) /\ Out("cli")' = Tail(s)
        BY <1>5 DEF Took, Peer
  <2> HIDE DEF s
  <2>2. k > 0
    <3>1. k = 0 => Head(s).name = "packet"
          BY <1>0, <1>2, <1>3, <2>1, PendingTail
    <3> QED  BY <1>5, <2>1, <3>1
  <2>3. Pending(Tail(s), k - 1, got, wrote, open["cli"]) /\ k - 1 \in Nat
    <3>1. Pending(Tail(s), k - 1, got, wrote, open["cli"])
          BY <1>0, <1>2, <1>3, <2>1, <2>2, PendingTail
    <3>2. k - 1 \in Nat
          BY <2>2
    <3> QED  BY <3>1, <3>2
  <2>4. Pending(Tail(s), k - 1, got, wrote, open'["cli"])
        BY <1>1, <2>3, PendingWeaker
  <2> QED  BY <1>5, <2>1, <2>3, <2>4
<1>6. ASSUME NEW ms \in Seq(Message), Added("cli", ms), open["cli"], stage["cli"] # 4,
             wrote' = wrote, got' = got, \A i \in 1..Len(ms) : ms[i].name # "packet"
      PROVE  \E j \in Nat : Pending(Out("cli")', j, got', wrote', open'["cli"])
  <2>1. Out("cli")' = s \o ms
        BY <1>1, <1>6 DEF Added, Peer
  <2> HIDE DEF s
  <2>2. wrote = 0 /\ got = 0
        BY <1>0, <1>1, <1>6, BeforePackets
  <2>3. Pending(s, k, 0, 0, TRUE)
        BY <1>3, <1>6, <2>2, PendingWeaker
  <2>4. Pending(s \o ms, Len(s \o ms), 0, 0, TRUE)
        BY <1>2, <1>6, <2>3, PendingOther
  <2>5. Len(s \o ms) \in Nat
        BY <1>2, <1>6, ConcatProperties, LenProperties
  <2>6. Pending(s \o ms, Len(s \o ms), 0, 0, open'["cli"])
        BY <2>4, PendingWeaker
  <2> QED  BY <1>6, <2>1, <2>2, <2>5, <2>6
<1>7. CASE ClientCase
  <2>0. wrote' = wrote /\ got' = got
        BY <1>7 DEF ClientCase, Hello, ReadS0S1S2, WriteConnect, ReadConnectResult, WriteCreateStream,
                    ReadCreateResult, WriteRequest, ReadStatus, hist
  <2>1. CASE ReadConnectResult \/ ReadCreateResult \/ ReadStatus
        BY <1>0, <1>4, <2>0, <2>1, ClientOut
  <2>2. CASE Hello \/ ReadS0S1S2 \/ WriteConnect \/ WriteCreateStream
    <3>1. \E ms \in Seq(SetupMsgs) : Added("cli", ms)
          BY <1>0, <2>2, ClientOut, CliSetupSent
    <3>2. PICK ms \in Seq(SetupMsgs) : Added("cli", ms)
          BY <3>1
    <3>3. SetupMsgs \subseteq Message /\ \A m \in SetupMsgs : m.name # "packet"
          BY DEF SetupMsgs
    <3>4. ms \in Seq(Message) /\ \A i \in 1..Len(ms) : ms[i].name # "packet"
          BY <3>2, <3>3, SeqMonotonic, ElementOfSeq
    <3>5. pc["cli"] \in Requesting
          BY <2>2 DEF Hello, ReadS0S1S2, WriteConnect, WriteCreateStream, Goto, Requesting
    <3>6. stage["cli"] # 4 /\ open["cli"]
          BY <1>0, <3>5 DEF PlaceInv, Requesting, StageInit, StageHandshakeDone
    <3> QED  BY <1>6, <2>0, <3>2, <3>4, <3>6
  <2>3. CASE WriteRequest
    <3> DEFINE x == Cmd(flags, IF flags = "publish" THEN 5 ELSE 0)
    <3>1. x \in Message /\ x.name = "publish"
      <4>1. x = Cmd("publish", 5)
            BY <1>1
      <4>2. Cmd("publish", 5) \in Message
            BY Messages DEF Commands
      <4> QED  BY <4>1, <4>2 DEF Cmd, Msg
    <3>2. Added("cli", <<x>>)
          BY <1>0, <2>3, ClientOut
    <3> HIDE DEF x
    <3>3. <<x>> \in Seq(Message) /\ \A i \in 1..Len(<<x>>) : <<x>>[i].name # "packet"
          BY <3>1
    <3>4. stage["cli"] # 4 /\ open["cli"]
          BY <1>0, <2>3 DEF WriteRequest, Goto, PlaceInv, Requesting, StageInit, StageHandshakeDone
    <3> QED  BY <1>6, <2>0, <3>2, <3>3, <3>4
  <2> QED  BY <1>7, <2>1, <2>2, <2>3 DEF ClientCase
<1>8. CASE ServerCase
  <2>0. wrote' = wrote /\ got' = got
        BY <1>8 DEF ServerCase, ReadC0C1, ReadC2, ReadConnect, ReadCreateStream, ReadRequest, WriteResult, hist
  <2>1. CASE WriteResult
        BY <1>0, <1>4, <2>0, <2>1, ServerOut
  <2>2. CASE ~WriteResult
    <3>1. Took("srv") /\ HasMsg("srv") /\ ~(stage["srv"] >= 3)
      <4>1. Took("srv")
            BY <1>0, <1>8, <2>2, ServerOut DEF ServerCase
      <4>2. HasMsg("srv")
            BY <1>8, <2>2 DEF ServerCase, ReadC0C1, ReadC2, ReadConnect, ReadCreateStream, ReadRequest, ReadCommand
      <4>3. pc["srv"] \in {"c0c1", "c2", "connect", "commands"}
            BY <1>8, <2>2 DEF ServerCase, ReadC0C1, ReadC2, ReadConnect, ReadCreateStream, ReadRequest, ReadCommand, Goto
      <4>4. ~(stage["srv"] >= 3)
            BY <1>0, <4>3 DEF PlaceInv, StageInit, StageHandshakeDone
      <4> QED  BY <4>1, <4>2, <4>4
    <3>2. Head(net["srv"]).name # "packet"
          BY <1>0, <3>1, PacketReader
    <3> QED  BY <1>5, <2>0, <3>1, <3>2
  <2> QED  BY <2>1, <2>2
<1>9. ASSUME NEW e \in End, EitherCase(e)
      PROVE  \E j \in Nat : Pending(Out("cli")', j, got', wrote', open'["cli"])
  <2>0. (e = "cli" /\ Peer(e) = "srv") \/ (e = "srv" /\ Peer(e) = "cli")
        BY DEF End, Peer
  <2>1. CASE Quiet(e)
    <3>1. wrote' = wrote /\ got' = got
          BY <2>1 DEF Quiet, ClearDeadline, PeekEnd, Expire, PacketFails, HandlerReturns, vars, hist
    <3> QED  BY <1>0, <1>4, <2>1, <3>1, EitherOut
  <2>2. CASE Passes(e) \/ PeekRead(e)
    <3>1. wrote' = wrote /\ got' = got
          BY <2>2 DEF Passes, SkipMsg, IgnoreReply, IgnoreRequest, IgnoreCommand, PeekRead, hist
    <3>2. CASE e = "cli"
          BY <1>0, <1>4, <2>2, <3>1, <3>2, EitherOut
    <3>3. CASE e = "srv"
      <4>1. Took("srv") /\ HasMsg("srv")
        <5>1. Took("srv")
              BY <1>0, <2>2, <3>3, EitherOut
        <5>2. HasMsg("srv")
              BY <2>2, <3>3 DEF Passes, SkipMsg, IgnoreReply, IgnoreRequest, IgnoreCommand, ReadCommand, PeekRead
        <5> QED  BY <5>1, <5>2
      <4>2. ~(stage["srv"] >= 3) \/ peek["srv"] = "on"
        <5>1. pc["srv"] \in {"connect", "commands"} \/ peek["srv"] = "on"
              BY <1>0, <2>2, <3>3 DEF Passes, SkipMsg, IgnoreReply, IgnoreRequest, IgnoreCommand, ReadCommand,
                                      PeekRead, CommandPcs, PlaceInv, SrvPc, Accepting
        <5> QED  BY <1>0, <5>1 DEF PlaceInv, StageHandshakeDone
      <4>3. Head(net["srv"]).name # "packet"
            BY <1>0, <4>1, <4>2, PacketReader
      <4> QED  BY <1>5, <3>1, <4>1, <4>3
    <3> QED  BY <2>0, <3>2, <3>3
  <2>3. CASE Closes(e)
    <3>1. wrote' = wrote /\ got' = got
          BY <2>3 DEF Closes, Close, hist
    <3>2. e = "cli" /\ ~open'["cli"]
      <4>1. ~open'[e]
            BY <1>0, <2>3 DEF Closes, Close
      <4> QED  BY <2>0, <4>1
    <3>3. Out("cli")' = net["srv"]
          BY <1>0, <2>0, <2>3, <3>2, EitherOut
    <3>4. s = net["srv"] \o wbuf["cli"] /\ net["srv"] \in Seq(Message) /\ wbuf["cli"] \in Seq(Message)
          BY <1>0 DEF Out, Peer, Bufs
    <3> HIDE DEF s
    <3>5. Pending(net["srv"] \o wbuf["cli"], k, got, wrote, open["cli"])
          BY <1>3, <3>4
    <3>6. \/ Pending(net["srv"], k, got, wrote, FALSE)
          \/ Pending(net["srv"], Len(net["srv"]), got, wrote, FALSE)
          BY <1>0, <3>4, <3>5, PendingPrefix
    <3>7. PICK j \in Nat : Pending(net["srv"], j, got, wrote, FALSE)
          BY <3>4, <3>6, LenProperties
    <3>9. Pending(net["srv"], j, got, wrote, open'["cli"])
          BY <3>2, <3>7, PendingWeaker
    <3> QED  BY <3>1, <3>3, <3>9
  <2>4. CASE e = "srv" /\ (WriteDataStart(e) \/ WriteAck(e))
    <3>1. wrote' = wrote /\ got' = got
          BY <2>4 DEF WriteDataStart, WriteAck, hist
    <3> QED  BY <1>0, <1>4, <2>0, <2>4, <3>1, EitherOut
  <2>5. CASE e = "srv" /\ WriteTag(e)
    <3>1. ~publishing["srv"] /\ stage["srv"] = 4
          BY <1>0, <2>5 DEF WriteTag, Stays, Writing, PlaceInv, StageDataStart
    <3> QED  BY <1>0, <1>1, <3>1 DEF AgreeInv, StageGotPublishOrPlayCommand
  <2>6. CASE e = "cli" /\ WriteDataStart(e)
    <3>1. publishing["cli"] /\ stage["cli"] = 3 /\ open["cli"] /\ wrote' = wrote /\ got' = got
          BY <1>0, <2>6 DEF WriteDataStart, Goto, PlaceInv, Writing, StageCommandDone, hist
    <3>2. Added("cli", <<>>)
          BY <1>0, <2>6, <3>1, EitherOut
    <3> DEFINE none == <<>>
    <3>3. none \in Seq(Message) /\ \A i \in 1..Len(none) : none[i].name # "packet"
          OBVIOUS
    <3>4. Added("cli", none) /\ stage["cli"] # 4
          BY <3>1, <3>2
    <3> HIDE DEF none
    <3> QED  BY <1>6, <3>1, <3>3, <3>4
  <2>7. CASE e = "cli" /\ WriteTag(e)
    <3> DEFINE x == Packet(wrote + 1)
    <3>1. wrote' = wrote + 1 /\ got' = got /\ open["cli"]
          BY <1>0, <2>7 DEF WriteTag, Stays, PlaceInv, hist
    <3>2. x \in Message /\ x.name = "packet" /\ x.id = wrote + 1
      <4>1. wrote + 1 \in Nat
            BY <1>0
      <4>2. x \in Message
            BY <4>1, Messages
      <4> QED  BY <4>2 DEF Packet, Msg
    <3>3. Out("cli")' = s \o <<x>>
          BY <1>0, <1>1, <2>0, <2>7, EitherOut DEF Added
    <3> HIDE DEF s, x
    <3>4. Pending(s, k, got, wrote, TRUE)
          BY <1>3, <3>1, PendingWeaker
    <3>5. Pending(s \o <<x>>, k, got, wrote + 1, TRUE)
          BY <1>0, <1>2, <3>2, <3>4, PendingPacket
    <3>6. Pending(s \o <<x>>, k, got, wrote + 1, open'["cli"])
          BY <3>5, PendingWeaker
    <3> QED  BY <3>1, <3>3, <3>6
  <2>8. CASE e = "cli" /\ WriteAck(e)
    <3>1. ~publishing["cli"] /\ stage["cli"] = 3
          BY <1>0, <2>8 DEF WriteAck, Goto, Writing, PlaceInv, StageCommandDone
    <3> QED  BY <1>0, <1>1, <3>1 DEF AgreeInv, StageCommandDone
  <2>9. CASE e = "cli" /\ ReadTag(e)
    <3>1. ~publishing["cli"] /\ stage["cli"] = 3
          BY <1>0, <2>9 DEF ReadTag, Writing, PlaceInv, StageCommandDone
    <3> QED  BY <1>0, <1>1, <3>1 DEF AgreeInv, StageCommandDone
  <2>10. CASE e = "srv" /\ ReadTag(e)
    <3>1. Took("srv") /\ HasMsg("srv") /\ wrote' = wrote
          BY <1>0, <2>10, EitherOut DEF ReadTag
    <3>2. CASE Head(net["srv"]).name # "packet"
      <4>1. got' = got
            BY <2>10, <3>2 DEF ReadTag
      <4> QED  BY <1>5, <3>1, <3>2, <4>1
    <3>3. CASE Head(net["srv"]).name = "packet"
      <4>1. s # <<>> /\ Head(s) = Head(net["srv"]) /\ Out("cli")' = Tail(s) /\ got' = Head(s).id
            BY <2>10, <3>1, <3>3 DEF Took, Peer, ReadTag
      <4> HIDE DEF s
      <4>2. k = 0
        <5>1. k > 0 => Head(s).name # "packet"
              BY <1>0, <1>2, <1>3, <4>1, PendingTail
        <5> QED  BY <3>3, <4>1, <5>1
      <4>3. Head(s).id = got + 1 /\ Pending(Tail(s), 0, got + 1, wrote, open["cli"])
            BY <1>0, <1>2, <1>3, <4>1, <4>2, PendingTail
      <4>4. Pending(Tail(s), 0, got + 1, wrote, open'["cli"])
            BY <1>1, <4>3, PendingWeaker
      <4> QED  BY <3>1, <4>1, <4>3, <4>4
    <3> QED  BY <3>2, <3>3
  <2> QED  BY <1>9, <2>0, <2>1, <2>2, <2>3, <2>4, <2>5, <2>6, <2>7, <2>8, <2>9, <2>10 DEF EitherCase
<1> QED  BY <1>7, <1>8, <1>9, NextCases

\* A client that has not been answered and has an answer to read reads it.
LEMMA StatusReader ==
    ASSUME ConnInv, HasMsg("cli"), Head(net["cli"]).name = "onStatus", ~(stage["cli"] >= 3)
    PROVE  pc["cli"] = "status" /\ peek["cli"] # "on"
<1>1. Head(net["cli"]) \in SrvMsgs /\ pc["cli"] # "closed"
      BY CliHead, InvBufs DEF ConnInv, HasMsg, InTime, PlaceInv, End
<1>2. stage["srv"] >= 3 /\ stage \in [End -> 0..4] /\ "srv" \in End
      BY <1>1 DEF SrvMsgs, StageCommandDone, ConnInv, TypeOK, StageInit, StageDataStart, End
<1>3. pc["cli"] \notin Requesting
      BY <1>2 DEF ConnInv, AgreeInv, StageHandshakeDone
<1>4. pc["cli"] \notin {"prepared", "datastart", "packets", "ack"}
      BY <1>2 DEF ConnInv, PlaceInv, End, StageCommandDone, StageDataStart
<1> QED  BY <1>1, <1>3, <1>4 DEF ConnInv, PlaceInv, AgreeInv, CliPc, StageCommandDone

LEMMA NextSrvPackets == ConnInv /\ [Next]_vars => SrvPackets'
<1> DEFINE Due == open["srv"] /\ stage["srv"] >= StageCommandDone
           Had == stage["cli"] >= StageCommandDone
           Goal == \E j \in Nat : Pending(Out("srv")', j, got', wrote', open'["srv"])
                                  /\ Answered(Out("srv")', j, Due', Had')
<1> SUFFICES ASSUME ConnInv, [Next]_vars, flags' = "play", open'["cli"]
             PROVE  Goal
    BY DEF SrvPackets
<1>0. /\ Small /\ Forward /\ Bufs /\ PlaceInv /\ AgreeInv /\ SrvStream /\ flags \in Request
      /\ transid["srv"] \in Nat /\ wrote \in Nat /\ got \in Nat /\ transid \in [End -> 0..5]
      /\ open \in [End -> BOOLEAN] /\ "cli" \in End /\ "srv" \in End
      BY NextSmall DEF ConnInv, Small
<1>1. flags = "play" /\ open["cli"] /\ (open'["srv"] => open["srv"]) /\ (Had => Had')
  <2>1. flags = "play" /\ open["cli"] /\ (open'["srv"] => open["srv"])
        BY <1>0 DEF Forward
  <2>2. stage["cli"] \in 0..4 /\ stage'["cli"] \in 0..4 /\ stage'["cli"] >= stage["cli"]
        BY <1>0, NextSmall DEF Forward, Small
  <2> QED  BY <2>1, <2>2 DEF StageCommandDone
<1> DEFINE s == Out("srv")
<1>2. s \in Seq(Message)
  <2>1. SrvMsgs \subseteq Message
        BY DEF SrvMsgs
  <2> QED  BY <1>0, <1>1, <2>1, SeqMonotonic DEF SrvStream
<1>3. PICK k \in Nat : Pending(s, k, got, wrote, open["srv"]) /\ Answered(s, k, Due, Had)
      BY <1>1 DEF ConnInv, SrvPackets
<1>k. k \in 0..Len(s) /\ Len(s) \in Nat
      BY <1>2, <1>3 DEF Pending
<1> HIDE DEF Due, Had, s
<1>4. ASSUME Kept("srv"), wrote' = wrote, got' = got, Due' => Due
      PROVE  Goal
  <2>1. Out("srv")' = s
        BY <1>4 DEF Kept, s
  <2>2. Pending(s, k, got, wrote, open'["srv"])
        BY <1>1, <1>3, PendingWeaker
  <2>3. Answered(s, k, Due', Had')
        BY <1>1, <1>3, <1>4 DEF Answered
  <2> QED  BY <1>4, <2>1, <2>2, <2>3
<1>5. ASSUME Took("cli"), HasMsg("cli"), wrote' = wrote, got' = got, Head(net["cli"]).name # "packet",
             Due' => Due, Had \/ Had' \/ Head(net["cli"]).name # "onStatus"
      PROVE  Goal
  <2>1. s # <<>> /\ Head(s) = Head(net["cli"]) /\ Out("srv")' = Tail(s)
        BY <1>5 DEF Took, Peer, s
  <2>2. k > 0
    <3>1. k = 0 => Head(s).name = "packet"
          BY <1>0, <1>2, <1>3, <2>1, PendingTail
    <3> QED  BY <1>5, <2>1, <3>1
  <2>3. Pending(Tail(s), k - 1, got, wrote, open["srv"])
        BY <1>0, <1>2, <1>3, <2>1, <2>2, PendingTail
  <2>4. Pending(Tail(s), k - 1, got, wrote, open'["srv"]) /\ k - 1 \in Nat
    <3>1. k - 1 \in Nat
          BY <2>2
    <3> QED  BY <1>1, <2>3, <3>1, PendingWeaker
  <2>5. Answered(Tail(s), k - 1, Due', Had')
    <3>1. CASE Had'
          BY <3>1 DEF Answered
    <3>2. CASE ~Had'
      <4>1. ~Had /\ Head(s).name # "onStatus" /\ Head(s) = s[1]
            BY <1>1, <1>2, <1>5, <2>1, <3>2
      <4>2. /\ Len(Tail(s)) = Len(s) - 1 /\ \A i \in 1..Len(s) - 1 : Tail(s)[i] = s[i + 1]
            BY <1>2, <2>1, HeadTailProperties
      <4>3. SUFFICES ASSUME Due' \/ k - 1 < Len(s) - 1
                     PROVE  k - 1 > 0 /\ Tail(s)[k - 1].name = "onStatus"
            BY <4>2 DEF Answered
      <4>4. Due \/ k < Len(s)
            BY <1>5, <1>k, <4>3
      <4>5. s[k].name = "onStatus"
            BY <1>3, <4>1, <4>4 DEF Answered
      <4>6. k # 1
            BY <4>1, <4>5
      <4>7. k - 1 > 0 /\ k - 1 \in 1..Len(s) - 1 /\ (k - 1) + 1 = k
            BY <1>k, <2>2, <4>6
      <4>8. Tail(s)[k - 1] = s[(k - 1) + 1]
            BY <4>2, <4>7
      <4> QED  BY <4>5, <4>7, <4>8
    <3> QED  BY <3>1, <3>2
  <2> QED  BY <1>5, <2>1, <2>4, <2>5
<1>6. ASSUME NEW ms \in Seq(Message), Added("srv", ms), open["srv"], stage["srv"] # 4,
             wrote' = wrote, got' = got, \A i \in 1..Len(ms) : ms[i].name # "packet",
             Due' => Len(ms) > 0 /\ ms[Len(ms)].name = "onStatus"
      PROVE  Goal
  <2> DEFINE t == s \o ms
  <2>1. Out("srv")' = t
        BY <1>1, <1>6 DEF Added, Peer, s
  <2>2. wrote = 0 /\ got = 0
        BY <1>0, <1>1, <1>6, BeforePackets
  <2>3. Pending(s, k, 0, 0, TRUE)
        BY <1>3, <1>6, <2>2, PendingWeaker
  <2>4. Pending(t, Len(t), 0, 0, TRUE)
        BY <1>2, <1>6, <2>3, PendingOther
  <2>5. Len(ms) \in Nat /\ Len(t) \in Nat /\ Len(t) = Len(s) + Len(ms)
        /\ \A i \in 1..Len(s) + Len(ms) : t[i] = IF i <= Len(s) THEN s[i] ELSE ms[i - Len(s)]
        BY <1>2, <1>k, <1>6, ConcatProperties
  <2> HIDE DEF t
  <2>6. Pending(t, Len(t), 0, 0, open'["srv"])
        BY <2>4, PendingWeaker
  <2>7. Answered(t, Len(t), Due', Had')
    <3>1. ASSUME Due'
          PROVE  Len(t) > 0 /\ t[Len(t)].name = "onStatus"
      <4>1. Len(ms) > 0 /\ ms[Len(ms)].name = "onStatus"
            BY <1>6, <3>1
      <4>2. /\ Len(t) \in 1..Len(s) + Len(ms) /\ ~(Len(t) <= Len(s)) /\ Len(t) - Len(s) = Len(ms)
            /\ Len(t) > 0
            BY <1>k, <2>5, <4>1
      <4>3. t[Len(t)] = ms[Len(t) - Len(s)]
            BY <2>5, <4>2
      <4> QED  BY <4>1, <4>2, <4>3
    <3>2. ~(Len(t) < Len(t))
          BY <2>5
    <3> QED  BY <3>1, <3>2 DEF Answered
  <2> QED  BY <1>6, <2>1, <2>2, <2>5, <2>6, <2>7
<1>7. CASE ClientCase
  <2>0. wrote' = wrote /\ got' = got
        BY <1>7 DEF ClientCase, Hello, ReadS0S1S2, WriteConnect, ReadConnectResult, WriteCreateStream,
                    ReadCreateResult, WriteRequest, ReadStatus, hist
  <2>1. Due' => Due
        BY <1>0, <1>1, <1>7, ClientFrame DEF Due, Small, PlaceInv
  <2>2. CASE Hello \/ WriteConnect \/ WriteCreateStream \/ WriteRequest
        BY <1>0, <1>4, <2>0, <2>1, <2>2, ClientOut
  <2>3. CASE ReadS0S1S2 \/ ReadConnectResult \/ ReadCreateResult \/ ReadStatus
    <3>1. Took("cli")
          BY <1>0, <2>3, ClientOut
    <3>2. HasMsg("cli") /\ pc["cli"] \in {"s0s1s2", "connectres", "createres", "status"}
          BY <2>3 DEF ReadS0S1S2, ReadConnectResult, ReadCreateResult, ReadStatus, ReadCommand, Goto
    <3>3. ~(stage["cli"] >= 3)
          BY <1>0, <3>2 DEF PlaceInv, Requesting, StageInit, StageHandshakeDone
    <3>4. Head(net["cli"]).name # "packet"
      <4>1. SUFFICES ASSUME Head(net["cli"]).name = "packet"
                     PROVE  FALSE
            OBVIOUS
      <4>2. s # <<>> /\ Head(s) = Head(net["cli"]) /\ ~Had
            BY <3>1, <3>3 DEF Took, Peer, s, Had, StageCommandDone
      <4>3. k = 0
        <5>1. k > 0 => Head(s).name # "packet"
              BY <1>0, <1>2, <1>3, <4>2, PendingTail
        <5> QED  BY <4>1, <4>2, <5>1
      <4>4. k < Len(s)
            BY <1>2, <1>k, <4>2, <4>3, EmptySeq
      <4> QED  BY <1>3, <4>2, <4>3, <4>4 DEF Answered
    <3>5. Had' \/ Head(net["cli"]).name # "onStatus"
      <4>1. SUFFICES ASSUME Head(net["cli"]).name = "onStatus"
                     PROVE  Had'
            OBVIOUS
      <4>2. pc["cli"] = "status"
            BY <3>2, <3>3, <4>1, StatusReader
      <4>3. ReadStatus
            BY <2>3, <4>2 DEF ReadS0S1S2, ReadConnectResult, ReadCreateResult, Goto
      <4> QED  BY <1>0, <4>3 DEF ReadStatus, Had, Small, StageCommandDone
    <3> QED  BY <1>5, <2>0, <2>1, <3>1, <3>2, <3>4, <3>5
  <2> QED  BY <1>7, <2>2, <2>3 DEF ClientCase
<1>8. CASE ServerCase
  <2>0. wrote' = wrote /\ got' = got
        BY <1>8 DEF ServerCase, ReadC0C1, ReadC2, ReadConnect, ReadCreateStream, ReadRequest, WriteResult, hist
  <2>1. CASE ReadC2 \/ ReadRequest
    <3>1. Kept("srv")
          BY <1>0, <2>1, ServerOut
    <3>2. ~(stage'["srv"] >= 3)
          BY <1>0, <2>1 DEF ReadC2, ReadRequest, Small, StageHandshakeDone, StageGotPublishOrPlayCommand
    <3> QED  BY <1>4, <2>0, <3>1, <3>2 DEF Due, StageCommandDone
  <2>2. CASE ReadC0C1 \/ ReadConnect \/ ReadCreateStream
    <3>1. \E ms \in Seq(Message) : Added("srv", ms) /\ \A i \in 1..Len(ms) : ms[i].name # "packet"
      <4>1. CASE ReadC0C1
        <5> DEFINE x == Ctl("S0S1S2")
        <5>1. x \in Message /\ x.name # "packet"
              BY ControlMessages DEF Controls, Ctl, Msg
        <5>2. Added("srv", <<x>>)
              BY <1>0, <4>1, ServerOut
        <5> HIDE DEF x
        <5>3. <<x>> \in Seq(Message) /\ \A i \in 1..Len(<<x>>) : <<x>>[i].name # "packet"
              BY <5>1
        <5> QED  BY <5>2, <5>3
      <4>m. ASSUME NEW i, NEW b, NEW c
            PROVE  Result(i, b, c).name # "packet"
            BY DEF Result, Msg
      <4>h. HasMsg("srv") => Head(net["srv"]).id \in Nat
            BY <1>0, Heads DEF ConnInv, Message
      <4>2. CASE ReadConnect
        <5> DEFINE x == Result(Head(net["srv"]).id, 0, "status")
        <5>1. x \in Message /\ x.name # "packet"
              BY <4>2, <4>m, <4>h, Messages DEF ReadConnect, ReadCommand
        <5>2. Added("srv", BasicConf \o <<x>>)
              BY <1>0, <4>2, ServerOut
        <5> HIDE DEF x
        <5> DEFINE M == {m \in Message : m.name # "packet"}
        <5>3. BasicConf \in Seq(M)
          <6>1. \A n \in Controls : Ctl(n) \in M
                BY ControlMessages DEF Controls, Ctl, Msg
          <6>2. Ctl("WindowAckSize") \in M /\ Ctl("SetPeerBandwidth") \in M /\ Ctl("SetChunkSize") \in M
                BY <6>1 DEF Controls
          <6> HIDE DEF M
          <6> QED  BY <6>2 DEF BasicConf
        <5>4. x \in M /\ M \subseteq Message /\ \A m \in M : m.name # "packet"
              BY <5>1
        <5> HIDE DEF M
        <5>5. <<x>> \in Seq(M)
              BY <5>4
        <5> DEFINE ms == BasicConf \o <<x>>
        <5>6. ms \in Seq(M)
              BY <5>3, <5>5, ConcatProperties
        <5>7. Added("srv", ms)
              BY <5>2
        <5> HIDE DEF ms
        <5>8. ms \in Seq(Message) /\ \A i \in 1..Len(ms) : ms[i].name # "packet"
              BY <5>4, <5>6, SeqMonotonic, ElementOfSeq
        <5> QED  BY <5>7, <5>8
      <4>3. CASE ReadCreateStream
        <5> DEFINE x == Result(Head(net["srv"]).id, 1, "")
        <5>1. x \in Message /\ x.name # "packet"
              BY <4>3, <4>m, <4>h, Messages DEF ReadCreateStream, ReadCommand
        <5>2. Added("srv", <<x>>)
              BY <1>0, <4>3, ServerOut
        <5> HIDE DEF x
        <5>3. <<x>> \in Seq(Message) /\ \A i \in 1..Len(<<x>>) : <<x>>[i].name # "packet"
              BY <5>1
        <5> QED  BY <5>2, <5>3
      <4> QED  BY <2>2, <4>1, <4>2, <4>3
    <3>2. open["srv"] /\ ~(stage["srv"] >= 3) /\ stage'["srv"] = stage["srv"]
      <4>1. pc["srv"] \in {"c0c1", "connect", "commands"} /\ stage' = stage
        <5>1. CASE ReadC0C1
              BY <5>1 DEF ReadC0C1, Goto, sess
        <5>2. CASE ReadConnect
              BY <5>2 DEF ReadConnect, Goto
        <5>3. CASE ReadCreateStream
              BY <5>3 DEF ReadCreateStream, ReadCommand
        <5> QED  BY <2>2, <5>1, <5>2, <5>3
      <4>2. stage["srv"] = 0 \/ stage["srv"] = 1
            BY <1>0, <4>1 DEF PlaceInv, StageInit, StageHandshakeDone
      <4>3. open["srv"]
            BY <1>0, <4>1 DEF PlaceInv
      <4> QED  BY <4>1, <4>2, <4>3
    <3>3. ~Due' /\ stage["srv"] # 4
          BY <1>0, <3>2 DEF Due, StageCommandDone, Small
    <3> QED  BY <1>6, <2>0, <3>1, <3>2, <3>3
  <2>3. CASE WriteResult
    <3> DEFINE ms == RequestResult  x == OnStatus(transid["srv"])
               M == {m \in Message : m.name # "packet"}
    <3>1. Added("srv", ms) /\ open["srv"] /\ stage["srv"] # 4
      <4>1. Added("srv", RequestResult)
            BY <1>0, <2>3, ServerOut
      <4>2. pc["srv"] = "result"
            BY <2>3 DEF WriteResult, Goto
      <4>3. open["srv"] /\ stage["srv"] = 2
            BY <1>0, <4>2 DEF PlaceInv, StageGotPublishOrPlayCommand
      <4> QED  BY <4>1, <4>3
    <3>2. x \in M /\ Ctl("StreamIsRecorded") \in M /\ Ctl("StreamBegin") \in M /\ x.name = "onStatus"
      <4>1. x \in Message /\ x.name = "onStatus"
            BY <1>0, Messages DEF OnStatus, Msg
      <4>2. \A n \in Controls : Ctl(n) \in M
            BY ControlMessages DEF Controls, Ctl, Msg
      <4> QED  BY <4>1, <4>2 DEF Controls
    <3>3. M \subseteq Message /\ \A m \in M : m.name # "packet"
          OBVIOUS
    <3> HIDE DEF M
    <3>4. ms \in Seq(M)
          BY <3>2 DEF RequestResult
    <3>5. Len(ms) > 0 /\ ms[Len(ms)].name = "onStatus"
      <4>1. Len(ms) > 0 /\ ms[Len(ms)] = x
            BY DEF RequestResult
      <4> QED  BY <3>2, <4>1
    <3> HIDE DEF ms
    <3>6. ms \in Seq(Message) /\ \A i \in 1..Len(ms) : ms[i].name # "packet"
          BY <3>3, <3>4, SeqMonotonic, ElementOfSeq
    <3> QED  BY <1>6, <2>0, <3>1, <3>5, <3>6
  <2> QED  BY <1>8, <2>1, <2>2, <2>3 DEF ServerCase
<1>9. ASSUME NEW e \in End, EitherCase(e)
      PROVE  Goal
  <2>0. (e = "cli" /\ Peer(e) = "srv") \/ (e = "srv" /\ Peer(e) = "cli")
        BY DEF End, Peer
  <2>1. CASE Quiet(e)
    <3>1. wrote' = wrote /\ got' = got /\ stage' = stage
          BY <2>1 DEF Quiet, ClearDeadline, PeekEnd, Expire, PacketFails, HandlerReturns, vars, hist, sess
    <3>2. Due' => Due
          BY <1>1, <3>1 DEF Due
    <3> QED  BY <1>0, <1>4, <2>1, <3>1, <3>2, EitherOut
  <2>2. CASE Passes(e) \/ PeekRead(e)
    <3>1. wrote' = wrote /\ got' = got /\ stage' = stage
          BY <2>2 DEF Passes, SkipMsg, IgnoreReply, IgnoreRequest, IgnoreCommand, PeekRead, hist, sess
    <3>2. Due' => Due
          BY <1>1, <3>1 DEF Due
    <3>3. CASE e = "srv"
          BY <1>0, <1>4, <2>2, <3>1, <3>2, <3>3, EitherOut
    <3>4. CASE e = "cli"
      <4>1. Took("cli") /\ HasMsg("cli")
        <5>1. Took("cli")
              BY <1>0, <2>2, <3>4, EitherOut
        <5>2. HasMsg("cli")
              BY <2>2, <3>4 DEF Passes, SkipMsg, IgnoreReply, IgnoreRequest, IgnoreCommand, ReadCommand, PeekRead
        <5> QED  BY <5>1, <5>2
      <4>2. peek["cli"] # "on"
            BY <1>0, <1>1 DEF AgreeInv
      <4>3. Passes("cli") /\ pc["cli"] \in {"connectres", "createres", "status"}
        <5>1. Passes("cli")
              BY <2>2, <3>4, <4>2 DEF PeekRead
        <5> QED  BY <1>0, <5>1 DEF Passes, SkipMsg, IgnoreReply, IgnoreCommand, ReadCommand, CommandPcs,
                                   PlaceInv, CliPc, Requesting
      <4>4. ~(stage["cli"] >= 3)
            BY <1>0, <4>3 DEF PlaceInv, Requesting, StageHandshakeDone
      <4>5. Head(net["cli"]).name # "packet"
        <5>1. SUFFICES ASSUME Head(net["cli"]).name = "packet"
                       PROVE  FALSE
              OBVIOUS
        <5>2. s # <<>> /\ Head(s) = Head(net["cli"]) /\ ~Had
              BY <4>1, <4>4 DEF Took, Peer, s, Had, StageCommandDone
        <5>3. k = 0
          <6>1. k > 0 => Head(s).name # "packet"
                BY <1>0, <1>2, <1>3, <5>2, PendingTail
          <6> QED  BY <5>1, <5>2, <6>1
        <5>4. k < Len(s)
              BY <1>2, <1>k, <5>2, <5>3, EmptySeq
        <5> QED  BY <1>3, <5>2, <5>3, <5>4 DEF Answered
      <4>6. Head(net["cli"]).name # "onStatus"
        <5>1. SUFFICES ASSUME Head(net["cli"]).name = "onStatus"
                       PROVE  FALSE
              OBVIOUS
        <5>2. pc["cli"] = "status"
              BY <4>1, <4>4, <5>1, StatusReader
        <5> QED  BY <4>3, <5>1, <5>2 DEF Passes, SkipMsg, IgnoreReply, IgnoreCommand, ReadCommand, Commands
      <4> QED  BY <1>5, <3>1, <3>2, <4>1, <4>5, <4>6
    <3> QED  BY <2>0, <3>3, <3>4
  <2>3. CASE Closes(e)
    <3>1. wrote' = wrote /\ got' = got /\ stage' = stage
          BY <2>3 DEF Closes, Close, hist, sess
    <3>2. e = "srv" /\ ~open'["srv"]
      <4>1. ~open'[e]
            BY <1>0, <2>3 DEF Closes, Close
      <4> QED  BY <2>0, <4>1
    <3>3. Out("srv")' = net["cli"]
          BY <1>0, <2>0, <2>3, <3>2, EitherOut
    <3> DEFINE n == net["cli"]  b == wbuf["srv"]
    <3>4. s = n \o b /\ n \in Seq(Message) /\ b \in Seq(Message)
          BY <1>0 DEF Out, Peer, Bufs, s
    <3> HIDE DEF n, b
    <3>5. Pending(n \o b, k, got, wrote, open["srv"])
          BY <1>3, <3>4
    <3>6. Pending(n, k, got, wrote, FALSE) \/ Pending(n, Len(n), got, wrote, FALSE)
          BY <1>0, <3>4, <3>5, PendingPrefix
    <3>7. PICK j \in 0..Len(n) : Pending(n, j, got, wrote, FALSE) /\ (j < Len(n) => j = k)
      <4>1. Len(n) \in 0..Len(n) /\ ~(Len(n) < Len(n))
            BY <3>4, LenProperties
      <4>2. Pending(n, k, got, wrote, FALSE) => k \in 0..Len(n)
            BY DEF Pending
      <4> QED  BY <3>6, <4>1, <4>2
    <3>8. j \in Nat /\ Len(n) \in Nat
          BY <3>4, LenProperties
    <3>9. Pending(n, j, got, wrote, open'["srv"])
          BY <3>2, <3>7, PendingWeaker
    <3>10. Answered(n, j, Due', Had')
      <4>1. ~Due'
            BY <3>2 DEF Due
      <4>2. SUFFICES ASSUME j < Len(n)
                     PROVE  Had' \/ (j > 0 /\ n[j].name = "onStatus")
            BY <4>1 DEF Answered
      <4>3. /\ Len(s) = Len(n) + Len(b) /\ Len(b) \in Nat
            /\ \A i \in 1..Len(n) + Len(b) : s[i] = IF i <= Len(n) THEN n[i] ELSE b[i - Len(n)]
            BY <3>4, ConcatProperties
      <4>4. j = k /\ k < Len(s)
            BY <3>7, <3>8, <4>2, <4>3
      <4>5. Had \/ (k > 0 /\ s[k].name = "onStatus")
            BY <1>3, <4>4 DEF Answered
      <4>6. ASSUME k > 0
            PROVE  s[k] = n[k]
        <5>1. k \in 1..Len(n) + Len(b) /\ k <= Len(n)
              BY <3>8, <4>2, <4>3, <4>4, <4>6
        <5> QED  BY <4>3, <5>1
      <4> QED  BY <1>1, <4>4, <4>5, <4>6
    <3> QED  BY <3>1, <3>3, <3>8, <3>9, <3>10 DEF n
  <2>4. CASE e = "cli" /\ (WriteDataStart(e) \/ WriteAck(e))
    <3>1. wrote' = wrote /\ got' = got
          BY <2>4 DEF WriteDataStart, WriteAck, hist
    <3>2. stage'["srv"] = stage["srv"]
          BY <1>0, <2>4 DEF WriteDataStart, WriteAck, Small, sess
    <3>3. Due' => Due
          BY <1>1, <3>2 DEF Due
    <3> QED  BY <1>0, <1>4, <2>0, <2>4, <3>1, <3>3, EitherOut
  <2>5. CASE e = "cli" /\ WriteTag(e)
    <3>1. publishing["cli"]
          BY <2>5 DEF WriteTag, Writing
    <3> QED  BY <1>0, <1>1, <3>1 DEF AgreeInv
  <2>6. CASE e = "srv" /\ WriteDataStart(e)
    <3> DEFINE x == OnStatus(transid["srv"])
    <3>1. ~publishing["srv"] /\ stage["srv"] = 3 /\ open["srv"] /\ wrote' = wrote /\ got' = got
          BY <1>0, <2>6 DEF WriteDataStart, Goto, PlaceInv, Writing, StageCommandDone, hist
    <3>2. Added("srv", <<x>>)
          BY <1>0, <2>6, <3>1, EitherOut
    <3>3. x \in Message /\ x.name = "onStatus"
          BY <1>0, Messages DEF OnStatus, Msg
    <3> HIDE DEF x
    <3>4. <<x>> \in Seq(Message) /\ Len(<<x>>) = 1 /\ <<x>>[1] = x
          BY <3>3
    <3>5. (\A i \in 1..Len(<<x>>) : <<x>>[i].name # "packet") /\ <<x>>[Len(<<x>>)].name = "onStatus" /\ Len(<<x>>) > 0
          BY <3>3, <3>4
    <3>6. stage["srv"] # 4
          BY <3>1
    <3> QED  BY <1>6, <3>1, <3>2, <3>4, <3>5, <3>6
  <2>7. CASE e = "srv" /\ WriteTag(e)
    <3> DEFINE x == Packet(wrote + 1)
    <3>1. wrote' = wrote + 1 /\ got' = got /\ open["srv"] /\ stage["srv"] = 4
          BY <1>0, <2>7 DEF WriteTag, Stays, PlaceInv, Writing, StageDataStart, hist
    <3>2. x \in Message /\ x.name = "packet" /\ x.id = wrote + 1
      <4>1. wrote + 1 \in Nat
            BY <1>0
      <4>2. x \in Message
            BY <4>1, Messages
      <4> QED  BY <4>2 DEF Packet, Msg
    <3>3. Out("srv")' = s \o <<x>>
          BY <1>0, <1>1, <2>0, <2>7, EitherOut DEF Added, s
    <3> HIDE DEF x
    <3>4. Pending(s, k, got, wrote, TRUE)
          BY <1>3, <3>1, PendingWeaker
    <3>5. Pending(s \o <<x>>, k, got, wrote + 1, TRUE)
          BY <1>0, <1>2, <3>2, <3>4, PendingPacket
    <3>6. Pending(s \o <<x>>, k, got, wrote + 1, open'["srv"])
          BY <3>5, PendingWeaker
    <3>7. Answered(s \o <<x>>, k, Due', Had')
      <4>1. Due
            BY <3>1 DEF Due, StageCommandDone
      <4>2. Had \/ (k > 0 /\ s[k].name = "onStatus")
            BY <1>3, <4>1 DEF Answered
      <4>3. ASSUME k > 0
            PROVE  (s \o <<x>>)[k] = s[k]
        <5>1. k \in 1..Len(s)
              BY <1>k, <4>3
        <5>2. \A i \in 1..Len(s) : (s \o <<x>>)[i] = s[i]
              BY <1>2, <3>2, AppendIsConcat, AppendProperties
        <5> QED  BY <5>1, <5>2
      <4> QED  BY <1>1, <4>2, <4>3 DEF Answered
    <3> QED  BY <3>1, <3>3, <3>6, <3>7
  <2>8. CASE e = "srv" /\ (WriteAck(e) \/ ReadTag(e))
    <3>1. publishing["srv"]
          BY <1>0, <2>8 DEF WriteAck, ReadTag, Goto, Writing, PlaceInv
    <3> QED  BY <1>0, <1>1, <3>1 DEF AgreeInv
  <2>9. CASE e = "cli" /\ ReadTag(e)
    <3>1. Took("cli") /\ HasMsg("cli") /\ wrote' = wrote
          BY <1>0, <2>9, EitherOut DEF ReadTag
    <3>2. Had
          BY <1>0, <2>9 DEF ReadTag, PlaceInv, Had, StageCommandDone, StageDataStart
    <3>3. Due' => Due
          BY <1>1, <2>9 DEF ReadTag, sess, Due
    <3>4. CASE Head(net["cli"]).name # "packet"
      <4>1. got' = got
            BY <2>9, <3>4 DEF ReadTag
      <4> QED  BY <1>5, <3>1, <3>2, <3>3, <3>4, <4>1
    <3>5. CASE Head(net["cli"]).name = "packet"
      <4>1. s # <<>> /\ Head(s) = Head(net["cli"]) /\ Out("srv")' = Tail(s) /\ got' = Head(s).id
            BY <2>9, <3>1, <3>5 DEF Took, Peer, ReadTag, s
      <4>2. k = 0
        <5>1. k > 0 => Head(s).name # "packet"
              BY <1>0, <1>2, <1>3, <4>1, PendingTail
        <5> QED  BY <3>5, <4>1, <5>1
      <4>3. Head(s).id = got + 1 /\ Pending(Tail(s), 0, got + 1, wrote, open["srv"])
            BY <1>0, <1>2, <1>3, <4>1, <4>2, PendingTail
      <4>4. Pending(Tail(s), 0, got + 1, wrote, open'["srv"])
            BY <1>1, <4>3, PendingWeaker
      <4>5. Answered(Tail(s), 0, Due', Had')
            BY <1>1, <3>2 DEF Answered
      <4> QED  BY <3>1, <4>1, <4>3, <4>4, <4>5
    <3> QED  BY <3>4, <3>5
  <2> QED  BY <1>9, <2>0, <2>1, <2>2, <2>3, <2>4, <2>5, <2>6, <2>7, <2>8, <2>9 DEF EitherCase
<1> QED  BY <1>7, <1>8, <1>9, NextCases


-----------------------------------------------------------------------------
(* The invariant holds initially, every step preserves it                  *)

LEMMA InitConn == Init => ConnInv
<1> SUFFICES ASSUME Init
             PROVE  ConnInv
    OBVIOUS
<1> USE DEF StageInit, StageHandshakeDone, StageGotPublishOrPlayCommand, StageCommandDone, StageDataStart
<1>0. "cli" \in End /\ "srv" \in End /\ MaxPkts \in Nat
      BY ConnAssumption DEF End
<1>1. \A e \in End : Out(e) = <<>>
  <2>1. \A e \in End : net[e] = <<>> /\ wbuf[e] = <<>>
        BY DEF Init
  <2>2. <<>> \o <<>> = <<>>
        OBVIOUS
  <2> QED  BY <2>1, <2>2, PeerEnd DEF Out
<1>2. TypeOK
  <2>1. wbuf \in [End -> Seq(Message)] /\ net \in [End -> Seq(Message)]
        BY DEF Init
  <2>2. /\ flags \in {"publish", "play"} /\ refuse \in BOOLEAN /\ publishing \in [End -> BOOLEAN]
        /\ open \in [End -> BOOLEAN] /\ closeNotify \in [End -> BOOLEAN]
        BY DEF Init
  <2>6. stage \in [End -> 0..4] /\ avmsgsid \in [End -> 0..1] /\ transid \in [End -> 0..5]
        BY DEF Init
  <2>3. deadline \in [End -> {"none", "set", "passed"}] /\ peek \in [End -> {"off", "on", "ended"}]
        BY DEF Init
  <2>4. wrote \in 0..MaxPkts /\ got \in 0..MaxPkts
        BY <1>0 DEF Init
  <2>5. \A e \in End : pc[e] \notin {"packets", "ack", "datastart"}
        BY DEF Init, End
  <2> QED  BY <2>1, <2>2, <2>3, <2>4, <2>5, <2>6 DEF TypeOK
<1>3. PlaceInv
  <2>1. pc["cli"] = "hello" /\ pc["srv"] = "c0c1" /\ \A e \in End : stage[e] = 0 /\ open[e]
        BY <1>0 DEF Init
  <2>2. pc \in [End -> CliPc \union SrvPc]
        BY DEF Init, CliPc, SrvPc, Requesting, Accepting, End
  <2>3. \A e \in End : pc[e] = "hello" \/ pc[e] = "c0c1"
        BY <2>1 DEF End
  <2> QED  BY <1>0, <2>1, <2>2, <2>3 DEF PlaceInv, CliPc, SrvPc, Requesting, Accepting
<1>4. AgreeInv
  <2>1. pc["cli"] = "hello" /\ pc["srv"] = "c0c1"
        BY <1>0 DEF Init
  <2>2. \A e \in End : stage[e] = 0 /\ publishing[e] = FALSE /\ peek[e] = "off"
        BY DEF Init
  <2> QED  BY <1>0, <2>1, <2>2 DEF AgreeInv, Requesting, Connecting
<1>5. CliStream /\ SrvStream
  <2>1. Paired(<<>>, CliPairs) /\ Paired(<<>>, SrvPairs)
        BY DEF Paired
  <2>2. <<>> \in Seq(CliMsgs) /\ <<>> \in Seq(SrvMsgs)
        BY EmptySeq
  <2> QED  BY <1>0, <1>1, <2>1, <2>2 DEF CliStream, SrvStream
<1>6. wrote = 0 /\ got = 0
      BY DEF Init
<1>7. Counts
      BY <1>6 DEF Counts
<1>8. \A all : Pending(<<>>, 0, got, wrote, all)
      BY <1>6 DEF Pending, RunAfter
<1>9. CliPackets
      BY <1>0, <1>1, <1>8 DEF CliPackets
<1>10. SrvPackets
  <2>1. ~(stage["srv"] >= 3)
        BY <1>0 DEF Init
  <2>2. \A a, h : Answered(<<>>, 0, open["srv"] /\ stage["srv"] >= StageCommandDone, h)
        BY <2>1 DEF Answered
  <2> QED  BY <1>0, <1>1, <1>8, <2>2 DEF SrvPackets
<1>11. Drops
  <2>1. {} \in SUBSET {"Ack"}
        OBVIOUS
  <2> QED  BY <2>1 DEF Init, Drops
<1> QED  BY <1>2, <1>3, <1>4, <1>5, <1>7, <1>9, <1>10, <1>11 DEF ConnInv

LEMMA NextTypeOK == ConnInv /\ [Next]_vars => TypeOK'
<1> SUFFICES ASSUME ConnInv, [Next]_vars
             PROVE  TypeOK'
    OBVIOUS
<1>1. got' \in 0..MaxPkts /\ wrote' \in 0..MaxPkts
  <2>1. Counts' /\ got' \in Nat /\ wrote' \in 0..MaxPkts /\ MaxPkts \in Nat
        BY NextCounts, ConnAssumption
  <2>2. got' <= wrote'
        BY <2>1 DEF Counts
  <2> QED  BY <2>1, <2>2
<1>2. PlaceInv' /\ Bufs'
      BY NextPlace, NextBufs DEF ConnInv, Ctrl
<1>3. \A e \in End : pc'[e] = "datastart" => stage'[e] = StageCommandDone
      BY <1>2 DEF PlaceInv, CliPc, SrvPc, End
<1>4. \A e \in End : pc'[e] \in {"packets", "ack"} =>
          stage'[e] = IF Writing(e)' THEN StageDataStart ELSE StageCommandDone
      BY <1>2 DEF PlaceInv
<1> QED  BY <1>1, <1>2, <1>3, <1>4, NextTypes DEF TypeOK, Bufs, StageInit, StageDataStart

LEMMA NextConn == ConnInv /\ [Next]_vars => ConnInv'
<1> SUFFICES ASSUME ConnInv, [Next]_vars
             PROVE  ConnInv'
    OBVIOUS
<1>1. TypeOK' /\ PlaceInv' /\ AgreeInv'
      BY NextTypeOK, NextPlace, NextAgree DEF ConnInv, Ctrl
<1>2. CliStream' /\ SrvStream'
      BY NextCliStream, NextSrvStream
<1>3. Counts' /\ CliPackets' /\ SrvPackets' /\ Drops'
      BY NextCounts, NextCliPackets, NextSrvPackets, NextDrops
<1> QED  BY <1>1, <1>2, <1>3 DEF ConnInv

-----------------------------------------------------------------------------
(* The theorems                                                            *)

\* Every reachable state of a connection satisfies the invariant.
THEOREM ConnInvariant == Spec => []ConnInv
BY InitConn, NextConn, PTL DEF Spec

\* The variables of the connection keep their types whatever the two ends read,
\* write, drop or close, and an end is in each part of the code with the stage
\* that part presupposes: c.stage is never behind what the goroutine does.
THEOREM ConnTypes == Spec => []TypeOK
<1>1. ConnInv => TypeOK
      BY DEF ConnInv
<1> QED  BY <1>1, ConnInvariant, PTL

\* When Prepare has returned at the client, writePublishOrPlayResult has
\* answered it at the server, and both Conns hold the same direction and the
\* same message stream id.
THEOREM AgreedWhenPrepared == Spec => []PreparedAgree
<1>1. ConnInv => PreparedAgree
  <2> SUFFICES ASSUME ConnInv, stage["cli"] >= 3
               PROVE  /\ stage["srv"] >= 3 /\ \A e \in End : publishing[e] = (flags = "publish")
                      /\ avmsgsid["cli"] = avmsgsid["srv"] /\ avmsgsid["srv"] # 0
      BY DEF PreparedAgree, StageCommandDone
  <2> USE DEF ConnInv, StageGotPublishOrPlayCommand, StageCommandDone
  <2>1. stage["srv"] >= 3 /\ avmsgsid["cli"] = 1 /\ avmsgsid["srv"] = 1
        BY DEF AgreeInv
  <2>2. stage["srv"] >= 2
    <3>1. stage["srv"] \in 0..4
          BY DEF TypeOK, StageInit, StageDataStart, End
    <3> QED  BY <2>1, <3>1
  <2>3. publishing["cli"] \in BOOLEAN /\ publishing["srv"] \in BOOLEAN
        BY DEF TypeOK, End
  <2>4. (publishing["cli"] <=> flags = "publish") /\ (publishing["srv"] <=> flags = "publish")
        BY <2>2 DEF AgreeInv
  <2>5. \A e \in End : publishing[e] = (flags = "publish")
        BY <2>3, <2>4 DEF End
  <2> QED  BY <2>1, <2>5
<1> QED  BY <1>1, ConnInvariant, PTL

\* The goroutine of startPeekReadLoop, which hands what it reads to
\* ioutil.Discard, never takes an answer or a packet from the wire.
THEOREM OnlyAcksDropped == Spec => []DropsOnlyAcks
<1>1. ConnInv => DropsOnlyAcks
      BY DEF ConnInv, Drops, DropsOnlyAcks
<1> QED  BY <1>1, ConnInvariant, PTL

\* ReadPacket returns the packets that WritePacket was given in their order and
\* without a gap, whichever end publishes and whatever is buffered or flushed
\* on the way.
THEOREM PacketsInOrder == Spec => InOrder
<1>1. ConnInv /\ [Next]_vars => [got' # got => got' = got + 1]_vars
  <2> SUFFICES ASSUME ConnInv, Next, got' # got
               PROVE  got' = got + 1
      BY DEF vars, hist
  <2>1. CASE ClientCase
        BY <2>1 DEF ClientCase, Hello, ReadS0S1S2, WriteConnect, ReadConnectResult, WriteCreateStream,
                    ReadCreateResult, WriteRequest, ReadStatus, hist
  <2>2. CASE ServerCase
        BY <2>2 DEF ServerCase, ReadC0C1, ReadC2, ReadConnect, ReadCreateStream, ReadRequest, WriteResult, hist
  <2>3. ASSUME NEW e \in End, EitherCase(e)
        PROVE  got' = got + 1
    <3>1. ReadTag(e)
      <4>1. ~Quiet(e)
            BY DEF Quiet, ClearDeadline, PeekEnd, Expire, PacketFails, HandlerReturns, vars, hist
      <4>2. ~Passes(e)
            BY DEF Passes, SkipMsg, IgnoreReply, IgnoreRequest, IgnoreCommand, hist
      <4>3. ~Closes(e)
            BY DEF Closes, Close, hist
      <4>4. ~(WriteDataStart(e) \/ WriteTag(e) \/ WriteAck(e) \/ PeekRead(e))
            BY DEF WriteDataStart, WriteTag, WriteAck, PeekRead, hist
      <4> QED  BY <2>3, <4>1, <4>2, <4>3, <4>4 DEF EitherCase
    <3>2. HasMsg(e) /\ Head(net[e]).name = "packet" /\ got' = Head(net[e]).id
          BY <3>1 DEF ReadTag
    <3> QED  BY <3>2, PacketHead
  <2> QED  BY <2>1, <2>2, <2>3, NextCases
<1> QED  BY <1>1, ConnInvariant, PTL DEF Spec, InOrder

=============================================================================
