---------------------------- MODULE PubSubProofs ----------------------------
(***************************************************************************)
(* Proofs about PubSub, for any number of publishers and subscribers, any  *)
(* headers and any number of packets.                                      *)
(***************************************************************************)
EXTENDS PubSub, SequenceTheorems, TLAPS

-----------------------------------------------------------------------------
(* Type correctness                                                        *)

\* Replacing one header of a header packet gives a header packet.
LEMMA WithType ==
    ASSUME NEW hdr \in HdrPkt, NEW data \in Hdr
    PROVE  /\ WithVSeqHdr(hdr, data) \in HdrPkt
           /\ WithASeqHdr(hdr, data) \in HdrPkt
           /\ WithMeta(hdr, data) \in HdrPkt
BY DEF HdrPkt, WithVSeqHdr, WithASeqHdr, WithMeta

\* What mergeSeqhdr hands to the cache is a packet.
LEMMA MergedType ==
    ASSUME TypeOK, NEW p \in Pubs, NEW m \in Media
    PROVE  Merged(p, m) \in Packet
<1>1. m.type \in {"H264", "AAC"} /\ m.key \in BOOLEAN
  BY PubSubAssumption DEF MediaKind
<1>2. merge[p].VSeqHdr \in Hdr /\ merge[p].ASeqHdr \in Hdr /\ merge[p].Metadata \in Hdr
  BY DEF TypeOK, HdrPkt
<1>3. None \in Hdr
  BY DEF Hdr
<1>4. Governing(p) \in Hdr
  <2>1. gcpkts[p] \in Seq(Packet)
    BY DEF TypeOK
  <2>2. CASE gcpkts[p] = <<>>
    BY <2>2, <1>3 DEF Governing
  <2>3. CASE gcpkts[p] # <<>>
    <3>1. gcpkts[p][Len(gcpkts[p])] \in Packet
      BY <2>1, <2>3
    <3> QED
      BY <3>1, <2>3 DEF Governing, Packet
  <2> QED
    BY <2>2, <2>3
<1>5. gcidx[p] + 1 \in Nat
  BY DEF TypeOK
<1> QED
  BY <1>1, <1>2, <1>3, <1>4, <1>5 DEF Merged, Packet

\* What a cursor takes of a cache is a sequence of packets.
LEMMA AdvanceType ==
    ASSUME NEW cpkts \in Seq(Packet), NEW cidx \in Nat, NEW last \in Nat
    PROVE  Advance(last, cpkts, cidx) \in Seq(Packet)
<1>1. CASE cidx - last <= Len(cpkts)
  <2> DEFINE from == Len(cpkts) - (cidx - last) + 1
  <2>1. from \in Int /\ from >= 1
    BY <1>1
  <2>2. SubSeq(cpkts, from, Len(cpkts)) \in Seq(Packet)
    BY <2>1
  <2> QED
    BY <1>1, <2>2 DEF Advance
<1>2. CASE ~(cidx - last <= Len(cpkts))
  BY <1>2 DEF Advance
<1> QED
  BY <1>1, <1>2

\* A subscriber that writes has a packet to write.
LEMMA HeadType ==
    ASSUME TypeOK, NEW s \in Subs, spc[s] = "write"
    PROVE  Head(pkts[s]) \in Packet
BY DEF TypeOK

\* The tail of a batch of several packets is not empty.
LEMMA TailType ==
    ASSUME NEW S, NEW seq \in Seq(S), seq # <<>>
    PROVE  Tail(seq) \in Seq(S) /\ (Len(seq) # 1 => Tail(seq) # <<>>)
<1>1. Len(seq) \in Nat \ {0}
  BY EmptySeq
<1>2. Tail(seq) \in Seq(S) /\ Len(Tail(seq)) = Len(seq) - 1
  BY HeadTailProperties
<1>3. Len(<<>>) = 0
  BY EmptySeq
<1>4. Len(seq) # 1 => Len(Tail(seq)) # 0
  BY <1>1, <1>2
<1> QED
  BY <1>2, <1>3, <1>4

LEMMA InitType == Init => TypeOK
<1> SUFFICES ASSUME Init PROVE TypeOK
  OBVIOUS
<1>1. NoHdr \in HdrPkt
  BY DEF NoHdr, HdrPkt, Hdr
<1>2. 0 \in 0..MaxReads
  BY PubSubAssumption
<1> QED
  BY <1>1, <1>2 DEF Init, TypeOK

LEMMA NextType == TypeOK /\ [Next]_vars => TypeOK'
<1> SUFFICES ASSUME TypeOK, [Next]_vars PROVE TypeOK'
  OBVIOUS
<1> USE PubSubAssumption
<1>1. ASSUME NEW p \in Pubs, SetPub(p) PROVE TypeOK'
  BY <1>1 DEF TypeOK, SetPub, subvars
<1>2. ASSUME NEW p \in Pubs, CancelOld(p) PROVE TypeOK'
  BY <1>2 DEF TypeOK, CancelOld, subvars
<1>3. ASSUME NEW p \in Pubs, CheckDone(p) PROVE TypeOK'
  BY <1>3 DEF TypeOK, CheckDone, subvars
<1>4. ASSUME NEW p \in Pubs, ReadErr(p) PROVE TypeOK'
  BY <1>4 DEF TypeOK, ReadErr, subvars
<1>5. ASSUME NEW p \in Pubs, NEW type \in HdrType, NEW data \in Hdrs, ReadHdr(p, type, data)
      PROVE  TypeOK'
  <2>1. data \in Hdr
    BY <1>5 DEF Hdr
  <2>2. merge[p] \in HdrPkt
    BY DEF TypeOK
  <2>3. merge' \in [Pubs -> HdrPkt]
    BY <1>5, <2>1, <2>2, WithType DEF TypeOK, ReadHdr, MergeHdr
  <2> QED
    BY <1>5, <2>3 DEF TypeOK, ReadHdr, ReadPacket, MergeHdr, subvars
<1>6. ASSUME NEW p \in Pubs, NEW m \in Media, ReadMedia(p, m) PROVE TypeOK'
  <2>1. Merged(p, m) \in Packet
    BY MergedType
  <2>2. gcpkts' \in [Pubs -> Seq(Packet)]
    <3>1. gcpkts[p] \in Seq(Packet)
      BY DEF TypeOK
    <3>2. Append(IF Merged(p, m).key THEN <<>> ELSE gcpkts[p], Merged(p, m)) \in Seq(Packet)
      BY <2>1, <3>1
    <3> QED
      BY <1>6, <3>2 DEF TypeOK, ReadMedia, Put
  <2> QED
    BY <1>6, <2>2 DEF TypeOK, ReadMedia, ReadPacket, Put, subvars
<1>7. ASSUME NEW p \in Pubs, NotifySub(p) PROVE TypeOK'
  BY <1>7 DEF TypeOK, NotifySub, subvars
<1>8. ASSUME NEW p \in Pubs, NEW s \in Subs, NotifyOne(p, s) PROVE TypeOK'
  BY <1>8 DEF TypeOK, NotifyOne
<1>9. ASSUME NEW p \in Pubs, NotifyDone(p) PROVE TypeOK'
  BY <1>9 DEF TypeOK, NotifyDone, subvars
<1>10. ASSUME NEW s \in Subs, AddSub(s) PROVE TypeOK'
  BY <1>10 DEF TypeOK, AddSub
<1>11. ASSUME NEW s \in Subs, LoadPub(s) PROVE TypeOK'
  BY <1>11 DEF TypeOK, LoadPub, pubvars
<1>12. ASSUME NEW s \in Subs, TakeSnapshot(s) PROVE TypeOK'
  <2> DEFINE q == lastsp[s]
             new == IF gcidx[q] = 0 THEN <<>> ELSE Advance(lastidx[s], gcpkts[q], gcidx[q])
  <2>1. q \in Pubs /\ gcpkts[q] \in Seq(Packet) /\ gcidx[q] \in Nat /\ lastidx[s] \in Nat
    BY <1>12 DEF TypeOK, TakeSnapshot
  <2>2. Advance(lastidx[s], gcpkts[q], gcidx[q]) \in Seq(Packet)
    BY <2>1, AdvanceType
  <2>3. new \in Seq(Packet)
    BY <2>2
  <2> QED
    BY <1>12, <2>1, <2>3 DEF TypeOK, TakeSnapshot, pubvars
<1>13. ASSUME NEW s \in Subs, Wake(s) PROVE TypeOK'
  BY <1>13 DEF TypeOK, Wake, pubvars
<1>14. ASSUME NEW s \in Subs, Leave(s) PROVE TypeOK'
  BY <1>14 DEF TypeOK, Leave
<1>15. ASSUME NEW s \in Subs, SendMeta(s) PROVE TypeOK'
  <2>1. Head(pkts[s]) \in Packet
    BY <1>15, HeadType DEF SendMeta
  <2>2. phdr[s] \in HdrPkt /\ split[s] \in HdrPkt
    BY DEF TypeOK
  <2>3. phdr' \in [Subs -> HdrPkt] /\ split' \in [Subs -> HdrPkt]
    BY <1>15, <2>1, <2>2, WithType DEF TypeOK, SendMeta, Packet
  <2> QED
    BY <1>15, <2>3 DEF TypeOK, SendMeta, pubvars
<1>16. ASSUME NEW s \in Subs, SendVSeqHdr(s) PROVE TypeOK'
  <2>1. Head(pkts[s]) \in Packet
    BY <1>16, HeadType DEF SendVSeqHdr
  <2>2. phdr[s] \in HdrPkt /\ split[s] \in HdrPkt
    BY DEF TypeOK
  <2>3. phdr' \in [Subs -> HdrPkt] /\ split' \in [Subs -> HdrPkt]
    BY <1>16, <2>1, <2>2, WithType DEF TypeOK, SendVSeqHdr, Packet
  <2> QED
    BY <1>16, <2>3 DEF TypeOK, SendVSeqHdr, pubvars
<1>17. ASSUME NEW s \in Subs, SendASeqHdr(s) PROVE TypeOK'
  <2>1. Head(pkts[s]) \in Packet
    BY <1>17, HeadType DEF SendASeqHdr
  <2>2. phdr[s] \in HdrPkt /\ split[s] \in HdrPkt
    BY DEF TypeOK
  <2>3. phdr' \in [Subs -> HdrPkt] /\ split' \in [Subs -> HdrPkt]
    BY <1>17, <2>1, <2>2, WithType DEF TypeOK, SendASeqHdr, Packet
  <2> QED
    BY <1>17, <2>3 DEF TypeOK, SendASeqHdr, pubvars
<1>18. ASSUME NEW s \in Subs, SendPkt(s) PROVE TypeOK'
  <2>1. Head(pkts[s]) \in Packet
    BY <1>18, HeadType DEF SendPkt
  <2>2. pkts[s] \in Seq(Packet) /\ pkts[s] # <<>>
    BY <1>18 DEF TypeOK, SendPkt
  <2>3. Tail(pkts[s]) \in Seq(Packet) /\ (Len(pkts[s]) # 1 => Tail(pkts[s]) # <<>>)
    BY <2>2, TailType
  <2> QED
    BY <1>18, <2>1, <2>2, <2>3 DEF TypeOK, SendPkt, pubvars
<1>19. ASSUME NEW s \in Subs, PeerClose(s) PROVE TypeOK'
  BY <1>19 DEF TypeOK, PeerClose, pubvars
<1>20. CASE UNCHANGED vars
  BY <1>20 DEF TypeOK, vars, pubvars, subvars
<1> QED
  BY <1>1, <1>2, <1>3, <1>4, <1>5, <1>6, <1>7, <1>8, <1>9, <1>10, <1>11, <1>12, <1>13, <1>14,
     <1>15, <1>16, <1>17, <1>18, <1>19, <1>20
     DEF Next, PubStep, PubInput, SubStep, SubWrite, SubInput, Closed, WriteFail, Finished

\* Every variable keeps its type and no goroutine follows a nil pointer.
THEOREM TypeCorrect == Spec => []TypeOK
<1> QED
  BY InitType, NextType, PTL DEF Spec
-----------------------------------------------------------------------------
(* No lost wake-up                                                         *)

\* A goroutine of addSub is running.
Present(s) == spc[s] \in {"load", "snap", "wait", "write"}

\* s has packets to take: a token or a publisher will tell it.
Told(s) == notify[s] \/ WakeComing(s)

\* NoLostWakeup is not inductive: a subscriber that has loaded the pointer of
\* a publisher that is then replaced must be woken for the packets of the new
\* one, although it is not asleep yet; the Range must find it in the map; and a
\* new publisher has an empty cache.
Attentive(s) ==
    Behind(s) /\ (spc[s] = "wait" \/ (spc[s] = "snap" /\ lastsp[s] # pub)) => Told(s)

WakeInv ==
    /\ \A s \in Subs : Attentive(s)
    /\ \A s \in Subs : Present(s) <=> s \in sub
    /\ \A p \in Pubs : ppc[p] = "idle" => gcidx[p] = 0

LEMMA WakeImplies == WakeInv => NoLostWakeup
BY DEF WakeInv, Attentive, Told, NoLostWakeup

LEMMA InitWake == Init => WakeInv
BY DEF Init, WakeInv, Attentive, Behind, Present

LEMMA NextWake == TypeOK /\ WakeInv /\ [Next]_vars => WakeInv'
<1> SUFFICES ASSUME TypeOK, WakeInv, [Next]_vars PROVE WakeInv'
  OBVIOUS
<1> USE PubSubAssumption DEF WakeInv
<1>1. ASSUME NEW p \in Pubs, SetPub(p) PROVE WakeInv'
  BY <1>1 DEF TypeOK, SetPub, subvars, Attentive, Told, WakeComing, Behind, Present
<1>2. ASSUME NEW p \in Pubs, CancelOld(p) PROVE WakeInv'
  BY <1>2 DEF TypeOK, CancelOld, subvars, Attentive, Told, WakeComing, Behind, Present
<1>3. ASSUME NEW p \in Pubs, CheckDone(p) PROVE WakeInv'
  BY <1>3 DEF TypeOK, CheckDone, subvars, Attentive, Told, WakeComing, Behind, Present
<1>4. ASSUME NEW p \in Pubs, ReadErr(p) PROVE WakeInv'
  BY <1>4 DEF TypeOK, ReadErr, subvars, Attentive, Told, WakeComing, Behind, Present
<1>5. ASSUME NEW p \in Pubs, NEW type \in HdrType, NEW data \in Hdrs, ReadHdr(p, type, data)
      PROVE  WakeInv'
  BY <1>5 DEF TypeOK, ReadHdr, ReadPacket, subvars, Attentive, Told, WakeComing, Behind, Present
<1>6. ASSUME NEW p \in Pubs, NEW m \in Media, ReadMedia(p, m) PROVE WakeInv'
  BY <1>6 DEF TypeOK, ReadMedia, ReadPacket, Put, subvars, Attentive, Told, WakeComing, Behind,
              Present
<1>7. ASSUME NEW p \in Pubs, NotifySub(p) PROVE WakeInv'
  BY <1>7 DEF TypeOK, NotifySub, subvars, Attentive, Told, WakeComing, Behind, Present
<1>8. ASSUME NEW p \in Pubs, NEW s \in Subs, NotifyOne(p, s) PROVE WakeInv'
  BY <1>8 DEF TypeOK, NotifyOne, Attentive, Told, WakeComing, Behind, Present
<1>9. ASSUME NEW p \in Pubs, NotifyDone(p) PROVE WakeInv'
  BY <1>9 DEF TypeOK, NotifyDone, subvars, Attentive, Told, WakeComing, Behind, Present
<1>10. ASSUME NEW s \in Subs, AddSub(s) PROVE WakeInv'
  BY <1>10 DEF TypeOK, AddSub, Attentive, Told, WakeComing, Behind, Present
<1>11. ASSUME NEW s \in Subs, LoadPub(s) PROVE WakeInv'
  BY <1>11 DEF TypeOK, LoadPub, pubvars, Attentive, Told, WakeComing, Behind, Present
<1>12. ASSUME NEW s \in Subs, TakeSnapshot(s) PROVE WakeInv'
  BY <1>12 DEF TypeOK, TakeSnapshot, pubvars, Attentive, Told, WakeComing, Behind, Present
<1>13. ASSUME NEW s \in Subs, Wake(s) PROVE WakeInv'
  BY <1>13 DEF TypeOK, Wake, pubvars, Attentive, Told, WakeComing, Behind, Present
<1>14. ASSUME NEW s \in Subs, Leave(s), spc[s] = "wait" \/ spc[s] = "write" PROVE WakeInv'
  BY <1>14 DEF TypeOK, Leave, Attentive, Told, WakeComing, Behind, Present
<1>15. ASSUME NEW s \in Subs, SubWrite(s) PROVE WakeInv'
  <2>1. /\ UNCHANGED <<pub, sub, pubvars, lastsp, lastidx, notify>>
        /\ spc[s] = "write"
        /\ spc' = [spc EXCEPT ![s] = "load"] \/ spc' = [spc EXCEPT ![s] = "write"]
    <3>1. ASSUME spc[s] = "write" PROVE spc = [spc EXCEPT ![s] = "write"]
      BY <3>1 DEF TypeOK
    <3> QED
      BY <1>15, <3>1 DEF SubWrite, SendMeta, SendVSeqHdr, SendASeqHdr, SendPkt
  <2> QED
    BY <2>1 DEF TypeOK, pubvars, Attentive, Told, WakeComing, Behind, Present
<1>16. ASSUME NEW s \in Subs, PeerClose(s) PROVE WakeInv'
  BY <1>16 DEF TypeOK, PeerClose, pubvars, Attentive, Told, WakeComing, Behind, Present
<1>17. CASE UNCHANGED vars
  BY <1>17 DEF vars, pubvars, subvars, Attentive, Told, WakeComing, Behind, Present
<1> QED
  BY <1>1, <1>2, <1>3, <1>4, <1>5, <1>6, <1>7, <1>8, <1>9, <1>10, <1>11, <1>12, <1>13, <1>14,
     <1>15, <1>16, <1>17
     DEF Next, PubStep, PubInput, SubStep, SubInput, Closed, WriteFail, Finished

\* No subscriber sleeps while the current publisher has packets for it, unless
\* it has a token or a publisher is about to send it one.
THEOREM WakeupNeverLost == Spec => []NoLostWakeup
<1> QED
  BY InitType, NextType, InitWake, NextWake, WakeImplies, PTL DEF Spec

-----------------------------------------------------------------------------
(* Replaced publishers stop                                                *)

\* A publisher that was replaced is cancelled, or its replacer is about to.
StopComing(p) == cancelled[p] \/ \E q \in Pubs : ppc[q] = "cancelold" /\ oldsp[q] = p

\* ReplacedPubStops with what makes it inductive: a late packet is read by a
\* cancelled publisher, which then never gets to read again.
StopInv ==
    /\ \A p \in Pubs : Serving(p) /\ p # pub => StopComing(p)
    /\ \A p \in Pubs : late[p] <= 1
    /\ \A p \in Pubs : late[p] > 0 => cancelled[p] /\ ppc[p] # "read"

LEMMA StopImplies == StopInv => ReplacedPubStops
BY DEF StopInv, ReplacedPubStops, StopComing

LEMMA InitStop == Init => StopInv
BY DEF Init, StopInv, Serving

LEMMA NextStop == TypeOK /\ StopInv /\ [Next]_vars => StopInv'
<1> SUFFICES ASSUME TypeOK, StopInv, [Next]_vars PROVE StopInv'
  OBVIOUS
<1> USE PubSubAssumption DEF StopInv, Serving, StopComing
<1>1. ASSUME NEW p \in Pubs, SetPub(p) PROVE StopInv'
  <2>1. ASSUME NEW q \in Pubs, Serving(q)', q # pub' PROVE StopComing(q)'
    <3>1. q # p /\ Serving(q)
      BY <1>1, <2>1 DEF TypeOK, SetPub
    <3>2. CASE q = pub
      <4>1. ppc'[p] = "cancelold" /\ oldsp'[p] = q
        BY <1>1, <3>2 DEF TypeOK, SetPub
      <4> QED
        BY <4>1
    <3>3. CASE q # pub
      <4>1. StopComing(q)
        BY <3>1, <3>3
      <4>2. CASE cancelled[q]
        BY <1>1, <4>2 DEF SetPub
      <4>3. ASSUME NEW r \in Pubs, ppc[r] = "cancelold", oldsp[r] = q PROVE StopComing(q)'
        <5>1. ppc'[r] = "cancelold" /\ oldsp'[r] = q
          BY <1>1, <4>3 DEF TypeOK, SetPub
        <5> QED
          BY <5>1
      <4> QED
        BY <4>1, <4>2, <4>3
    <3> QED
      BY <3>2, <3>3
  <2>2. \A q \in Pubs : late'[q] <= 1 /\ (late'[q] > 0 => cancelled'[q] /\ ppc'[q] # "read")
    BY <1>1 DEF TypeOK, SetPub
  <2> QED
    BY <2>1, <2>2
<1>2. ASSUME NEW p \in Pubs, CancelOld(p) PROVE StopInv'
  BY <1>2 DEF TypeOK, CancelOld
<1>3. ASSUME NEW p \in Pubs, CheckDone(p) PROVE StopInv'
  BY <1>3 DEF TypeOK, CheckDone
<1>4. ASSUME NEW p \in Pubs, ReadErr(p) PROVE StopInv'
  BY <1>4 DEF TypeOK, ReadErr
<1>5. ASSUME NEW p \in Pubs, NEW type \in HdrType, NEW data \in Hdrs, ReadHdr(p, type, data)
      PROVE  StopInv'
  BY <1>5 DEF TypeOK, ReadHdr, ReadPacket
<1>6. ASSUME NEW p \in Pubs, NEW m \in Media, ReadMedia(p, m) PROVE StopInv'
  BY <1>6 DEF TypeOK, ReadMedia, ReadPacket
<1>7. ASSUME NEW p \in Pubs, NotifySub(p) PROVE StopInv'
  BY <1>7 DEF TypeOK, NotifySub
<1>8. ASSUME NEW p \in Pubs, NEW s \in Subs, NotifyOne(p, s) PROVE StopInv'
  BY <1>8 DEF NotifyOne
<1>9. ASSUME NEW p \in Pubs, NotifyDone(p) PROVE StopInv'
  BY <1>9 DEF TypeOK, NotifyDone
<1>10. ASSUME NEW s \in Subs, AddSub(s) \/ Leave(s) PROVE StopInv'
  BY <1>10 DEF AddSub, Leave
<1>11. ASSUME NEW s \in Subs, SubStep(s) \/ PeerClose(s) PROVE StopInv'
  BY <1>11 DEF SubStep, LoadPub, TakeSnapshot, Wake, SubWrite, SendMeta, SendVSeqHdr, SendASeqHdr,
               SendPkt, PeerClose, pubvars
<1>12. CASE UNCHANGED vars
  BY <1>12 DEF vars, pubvars
<1> QED
  BY <1>1, <1>2, <1>3, <1>4, <1>5, <1>6, <1>7, <1>8, <1>9, <1>10, <1>11, <1>12
     DEF Next, PubStep, PubInput, SubInput, Closed, WriteFail, Finished

\* However many takeovers overlap, every publisher but the current one is
\* cancelled or about to be, and reads at most one packet after that.
THEOREM ReplacedStops == Spec => []ReplacedPubStops
<1> QED
  BY InitType, NextType, InitStop, NextStop, StopImplies, PTL DEF Spec

-----------------------------------------------------------------------------
(* The stream implements StreamFeed                                        *)

\* Publishers are numbered in the order of their takeovers; the pointer holds
\* the last one.
TurnInv ==
    /\ \A p \in Pubs : turn[p] = 0 <=> ppc[p] = "idle"
    /\ \A p \in Pubs : turn[p] = 0 => gcidx[p] = 0
    /\ pub = Nil => \A p \in Pubs : turn[p] = 0
    /\ pub # Nil => turn[pub] > 0 /\ \A p \in Pubs \ {pub} : turn[p] < turn[pub]

\* seq holds the packets of p that end with number n, one after the other.
RunOf(p, seq, n) ==
    /\ Len(seq) <= n
    /\ \A i \in 1..Len(seq) : seq[i].src = p /\ seq[i].idx = n - Len(seq) + i

\* A cache holds the latest packets; if not all of them, then from a key frame.
LatestFrom(p, seq, n, entries) ==
    /\ RunOf(p, seq, n)
    /\ n > 0 => Len(seq) > 0
    /\ Len(seq) < n => n - Len(seq) + 1 \in entries

CacheInv == \A p \in Pubs : LatestFrom(p, gcpkts[p], gcidx[p], keys[p])

\* The last packet sent to s is the one before its cursor, or the cursor is at
\* the start of a publisher later than the one that packet came from.
AtCursor(s) ==
    \/ plast[s].src = lastsp[s] /\ plast[s].idx = lastidx[s]
    \/ /\ plast[s].src # lastsp[s]
       /\ lastsp[s] # Nil
       /\ lastidx[s] = 0
       /\ plast[s].src = Nil \/ turn[plast[s].src] < turn[lastsp[s]]

\* The packet i of p may follow the packet last, as StreamFeed has it.
MayFollow(last, p, i, turns, keyset) ==
    \/ /\ last.src = p
       /\ i = last.idx + 1 \/ (i > last.idx /\ i \in keyset)
    \/ /\ last.src # p
       /\ last.src = Nil \/ turns[last.src] < turns[p]
       /\ i = 1 \/ i \in keyset

LEMMA FollowsMeans ==
    ASSUME NEW s \in Subs, NEW p, NEW i
    PROVE  Feed!Follows(s, p, i) <=> MayFollow(plast[s], p, i, turn, keys[p])
BY DEF Feed!Follows, Feed!EntryPoint, MayFollow

\* The packets s has yet to send end at its cursor, and the first of them may
\* follow the one it has sent last.
Sending(s) ==
    /\ RunOf(lastsp[s], pkts[s], lastidx[s])
    /\ MayFollow(plast[s], lastsp[s], lastidx[s] - Len(pkts[s]) + 1, turn, keys[lastsp[s]])

CursorOf(s) ==
    /\ plast[s].src # Nil => turn[plast[s].src] > 0
    /\ lastsp[s] = Nil => lastidx[s] = 0
    /\ lastsp[s] # Nil => turn[lastsp[s]] > 0 /\ lastidx[s] <= gcidx[lastsp[s]]
    /\ spc[s] \in {"idle", "load", "snap", "wait"} => AtCursor(s)
    /\ spc[s] = "write" => lastsp[s] # Nil /\ Sending(s)

CursorInv == \A s \in Subs : CursorOf(s)

FeedInv == TurnInv /\ CacheInv /\ CursorInv

\* Taking from a cache what a cursor has not seen gives the packets after the
\* cursor, or the whole cache.
LEMMA AdvanceRun ==
    ASSUME NEW p \in Pubs, NEW cpkts \in Seq(Packet), NEW cidx \in Nat, NEW last \in Nat,
           last <= cidx, RunOf(p, cpkts, cidx)
    PROVE  /\ Advance(last, cpkts, cidx) \in Seq(Packet)
           /\ RunOf(p, Advance(last, cpkts, cidx), cidx)
           /\ Len(Advance(last, cpkts, cidx)) =
                IF cidx - last <= Len(cpkts) THEN cidx - last ELSE Len(cpkts)
<1>1. Advance(last, cpkts, cidx) \in Seq(Packet)
  BY AdvanceType
<1>2. CASE cidx - last <= Len(cpkts)
  <2> DEFINE from == Len(cpkts) - (cidx - last) + 1
             new == SubSeq(cpkts, from, Len(cpkts))
  <2>1. from \in Int /\ from >= 1 /\ Len(cpkts) \in Int /\ Len(cpkts) - from + 1 = cidx - last
    BY <1>2
  <2>2. Advance(last, cpkts, cidx) = new
    BY <1>2 DEF Advance
  <2>3. \A i \in from..Len(cpkts) : cpkts[i] \in Packet
    BY <2>1
  <2>4. /\ Len(new) = IF from <= Len(cpkts) THEN Len(cpkts) - from + 1 ELSE 0
        /\ \A i \in 1..(Len(cpkts) - from + 1) : new[i] = cpkts[from + i - 1]
    <3> HIDE DEF from
    <3> QED
      BY <2>1, <2>3, SubSeqProperties
  <2>5. Len(new) = cidx - last
    BY <2>1, <2>4
  <2>6. \A i \in 1..Len(new) : new[i].src = p /\ new[i].idx = cidx - Len(new) + i
    <3> SUFFICES ASSUME NEW i \in 1..Len(new)
                 PROVE  new[i].src = p /\ new[i].idx = cidx - Len(new) + i
      OBVIOUS
    <3>1. new[i] = cpkts[from + i - 1]
      BY <2>1, <2>4, <2>5
    <3>2. from + i - 1 \in 1..Len(cpkts)
      BY <2>1, <2>5
    <3>3. cpkts[from + i - 1].src = p /\ cpkts[from + i - 1].idx = cidx - Len(cpkts) + (from + i - 1)
      BY <3>2 DEF RunOf
    <3>4. cidx - Len(cpkts) + (from + i - 1) = cidx - Len(new) + i
      BY <2>1, <2>5
    <3> QED
      BY <3>1, <3>3, <3>4
  <2>7. Len(new) <= cidx
    BY <2>5
  <2> HIDE DEF new
  <2>8. RunOf(p, new, cidx)
    BY <2>6, <2>7 DEF RunOf
  <2> QED
    BY <1>1, <1>2, <2>2, <2>5, <2>8
<1>3. CASE ~(cidx - last <= Len(cpkts))
  BY <1>3 DEF Advance
<1> QED
  BY <1>2, <1>3

\* A packet put in a cache continues it, or is the first of a new one.
LEMMA AppendRun ==
    ASSUME NEW p \in Pubs, NEW cpkts \in Seq(Packet), NEW cidx \in Nat, NEW pkt \in Packet,
           RunOf(p, cpkts, cidx), pkt.src = p, pkt.idx = cidx + 1
    PROVE  /\ RunOf(p, Append(cpkts, pkt), cidx + 1)
           /\ RunOf(p, Append(<<>>, pkt), cidx + 1)
<1>1. /\ Len(Append(cpkts, pkt)) = Len(cpkts) + 1
      /\ \A i \in 1..Len(cpkts) : Append(cpkts, pkt)[i] = cpkts[i]
      /\ Append(cpkts, pkt)[Len(cpkts) + 1] = pkt
  BY AppendProperties
<1>2. RunOf(p, Append(cpkts, pkt), cidx + 1)
  BY <1>1 DEF RunOf
<1>3. Append(<<>>, pkt) = <<pkt>>
  OBVIOUS
<1> QED
  BY <1>2, <1>3 DEF RunOf

\* The rest of a run, after its first packet, is a run.
LEMMA TailRun ==
    ASSUME NEW p \in Pubs, NEW seq \in Seq(Packet), seq # <<>>, NEW n \in Nat, RunOf(p, seq, n)
    PROVE  RunOf(p, Tail(seq), n) /\ Len(Tail(seq)) = Len(seq) - 1
<1>1. /\ Len(Tail(seq)) = Len(seq) - 1
      /\ \A i \in 1..Len(Tail(seq)) : Tail(seq)[i] = seq[i + 1]
  BY HeadTailProperties
<1> QED
  BY <1>1 DEF RunOf

LEMMA InitFeed == Init => FeedInv
BY DEF Init, FeedInv, TurnInv, CacheInv, LatestFrom, RunOf, CursorInv, CursorOf, AtCursor, NoPacket

LEMMA NextTurn == TypeOK /\ TurnInv /\ [Next]_vars => TurnInv'
<1> SUFFICES ASSUME TypeOK, TurnInv, [Next]_vars PROVE TurnInv'
  OBVIOUS
<1> USE PubSubAssumption DEF TurnInv
<1>1. ASSUME NEW p \in Pubs, SetPub(p) PROVE TurnInv'
  BY <1>1 DEF TypeOK, SetPub
<1>2. ASSUME NEW p \in Pubs, PubStep(p) \/ ReadErr(p) PROVE TurnInv'
  BY <1>2 DEF TypeOK, PubStep, CancelOld, CheckDone, NotifySub, NotifyDone, NotifyOne, ReadErr
<1>3. ASSUME NEW p \in Pubs, NEW type \in HdrType, NEW data \in Hdrs, ReadHdr(p, type, data)
      PROVE  TurnInv'
  BY <1>3 DEF TypeOK, ReadHdr, ReadPacket
<1>4. ASSUME NEW p \in Pubs, NEW m \in Media, ReadMedia(p, m) PROVE TurnInv'
  BY <1>4 DEF TypeOK, ReadMedia, ReadPacket, Put
<1>5. ASSUME NEW s \in Subs, AddSub(s) \/ Leave(s) PROVE TurnInv'
  BY <1>5 DEF AddSub, Leave
<1>6. ASSUME NEW s \in Subs, SubStep(s) \/ PeerClose(s) PROVE TurnInv'
  BY <1>6 DEF SubStep, LoadPub, TakeSnapshot, Wake, SubWrite, SendMeta, SendVSeqHdr, SendASeqHdr,
              SendPkt, PeerClose, pubvars
<1>7. CASE UNCHANGED vars
  BY <1>7 DEF vars, pubvars
<1> QED
  BY <1>1, <1>2, <1>3, <1>4, <1>5, <1>6, <1>7
     DEF Next, PubInput, SubInput, Closed, WriteFail, Finished

\* What a publisher puts in its cache, and where.
LEMMA ReadMediaRun ==
    ASSUME TypeOK, CacheInv, NEW p \in Pubs, NEW m \in Media, ReadMedia(p, m)
    PROVE  /\ gcidx' = [gcidx EXCEPT ![p] = @ + 1]
           /\ keys' = [keys EXCEPT ![p] = IF m.key THEN @ \union {gcidx[p] + 1} ELSE @]
           /\ CacheInv'
<1> DEFINE pkt == Merged(p, m)
<1>1. pkt \in Packet
  BY MergedType
<1>2. pkt.src = p /\ pkt.idx = gcidx[p] + 1 /\ pkt.key = m.key
  BY DEF Merged
<1>3. gcidx' = [gcidx EXCEPT ![p] = @ + 1]
  BY DEF ReadMedia, Put
<1>4. keys' = [keys EXCEPT ![p] = IF m.key THEN @ \union {gcidx[p] + 1} ELSE @]
  BY DEF ReadMedia
<1>5. gcpkts' = [gcpkts EXCEPT ![p] = Append(IF m.key THEN <<>> ELSE @, pkt)]
  BY <1>2 DEF ReadMedia, Put
<1> HIDE DEF pkt
<1>6. gcpkts[p] \in Seq(Packet) /\ gcidx[p] \in Nat /\ RunOf(p, gcpkts[p], gcidx[p])
  BY DEF TypeOK, CacheInv, LatestFrom
<1>7. RunOf(p, Append(gcpkts[p], pkt), gcidx[p] + 1) /\ RunOf(p, Append(<<>>, pkt), gcidx[p] + 1)
  BY <1>1, <1>2, <1>6, AppendRun
<1>8. Len(Append(gcpkts[p], pkt)) = Len(gcpkts[p]) + 1 /\ Len(Append(<<>>, pkt)) = 1
  BY <1>1, <1>6, AppendProperties
<1>9. ASSUME NEW q \in Pubs, q # p
      PROVE  LatestFrom(q, gcpkts'[q], gcidx'[q], keys'[q])
  <2>1. gcpkts'[q] = gcpkts[q] /\ gcidx'[q] = gcidx[q] /\ keys'[q] = keys[q]
    BY <1>3, <1>4, <1>5, <1>9 DEF TypeOK
  <2> QED
    BY <2>1 DEF CacheInv
<1>10. CASE m.key
  <2>1. gcpkts'[p] = Append(<<>>, pkt) /\ gcidx'[p] = gcidx[p] + 1 /\ gcidx[p] + 1 \in keys'[p]
    BY <1>3, <1>4, <1>5, <1>10 DEF TypeOK
  <2>2. gcidx[p] + 1 - 1 + 1 = gcidx[p] + 1
    BY <1>6
  <2>3. LatestFrom(p, gcpkts'[p], gcidx'[p], keys'[p])
    BY <1>6, <1>7, <1>8, <2>1, <2>2 DEF LatestFrom
  <2> QED
    BY <1>3, <1>4, <1>9, <2>3 DEF CacheInv
<1>11. CASE ~m.key
  <2>1. gcpkts'[p] = Append(gcpkts[p], pkt) /\ gcidx'[p] = gcidx[p] + 1 /\ keys'[p] = keys[p]
    BY <1>3, <1>4, <1>5, <1>11 DEF TypeOK
  <2>2. gcidx[p] + 1 - (Len(gcpkts[p]) + 1) + 1 = gcidx[p] - Len(gcpkts[p]) + 1
    BY <1>6
  <2>3. Len(gcpkts[p]) \in Nat
    BY <1>6
  <2>4. LatestFrom(p, gcpkts[p], gcidx[p], keys[p])
    BY DEF CacheInv
  <2>5. LatestFrom(p, gcpkts'[p], gcidx'[p], keys'[p])
    BY <1>6, <1>7, <1>8, <2>1, <2>2, <2>3, <2>4 DEF LatestFrom
  <2> QED
    BY <1>3, <1>4, <1>9, <2>5 DEF CacheInv
<1> QED
  BY <1>3, <1>4, <1>10, <1>11

\* What TakeSnapshot leaves a subscriber with: nothing, when its cursor is at
\* the end of the cache, or packets that may follow the last one it sent.
LEMMA TakeSnapshotRun ==
    ASSUME TypeOK, TurnInv, CacheInv, CursorInv, NEW s \in Subs, TakeSnapshot(s)
    PROVE  /\ lastidx'[s] = gcidx[lastsp[s]]
           /\ \/ spc'[s] = "wait" /\ lastidx'[s] = lastidx[s]
              \/ spc'[s] = "write" /\ Sending(s)'
<1> DEFINE p == lastsp[s]
           adv == Advance(lastidx[s], gcpkts[p], gcidx[p])
<1>1. p \in Pubs /\ lastidx[s] <= gcidx[p] /\ AtCursor(s)
  BY DEF TypeOK, CursorInv, CursorOf, TakeSnapshot
<1>2. lastidx[s] \in Nat /\ gcidx[p] \in Nat /\ gcpkts[p] \in Seq(Packet) /\ keys[p] \subseteq Nat
  BY <1>1 DEF TypeOK
<1>3. /\ spc[s] = "snap"
      /\ pkts' = [pkts EXCEPT ![s] = IF gcidx[p] = 0 THEN <<>> ELSE adv]
      /\ lastidx' = [lastidx EXCEPT ![s] = IF gcidx[p] = 0 THEN @ ELSE gcidx[p]]
      /\ spc' = [spc EXCEPT ![s] = IF (IF gcidx[p] = 0 THEN <<>> ELSE adv) = <<>>
                                   THEN "wait" ELSE "write"]
      /\ UNCHANGED <<lastsp, plast, turn, gcidx, keys>>
  BY DEF TakeSnapshot, pubvars
<1>4. /\ adv \in Seq(Packet) /\ RunOf(p, adv, gcidx[p])
      /\ Len(adv) = IF gcidx[p] - lastidx[s] <= Len(gcpkts[p]) THEN gcidx[p] - lastidx[s]
                                                               ELSE Len(gcpkts[p])
  <2>1. RunOf(p, gcpkts[p], gcidx[p])
    BY <1>1 DEF CacheInv, LatestFrom
  <2> QED
    BY <1>1, <1>2, <2>1, AdvanceRun
<1> HIDE DEF adv
<1>5. lastidx'[s] = gcidx[p]
  BY <1>1, <1>2, <1>3 DEF TypeOK
<1>6. CASE gcidx[p] = 0
  BY <1>1, <1>2, <1>3, <1>5, <1>6 DEF TypeOK
<1>7. CASE gcidx[p] # 0 /\ adv = <<>>
  <2>1. Len(adv) = 0
    BY <1>7
  <2>2. Len(gcpkts[p]) > 0
    BY <1>1, <1>2, <1>7 DEF CacheInv, LatestFrom
  <2>3. gcidx[p] = lastidx[s]
    BY <1>1, <1>2, <1>4, <2>1, <2>2
  <2> QED
    BY <1>3, <1>5, <1>7, <2>3 DEF TypeOK
<1>8. CASE gcidx[p] # 0 /\ adv # <<>>
  <2>1. pkts'[s] = adv /\ spc'[s] = "write"
    BY <1>3, <1>8 DEF TypeOK
  <2>2. RunOf(lastsp'[s], pkts'[s], lastidx'[s])
    BY <1>3, <1>4, <1>5, <2>1
  <2> DEFINE first == gcidx[p] - Len(adv) + 1
  <2>3. Len(adv) \in Nat
    BY <1>4, LenProperties
  <2>4. first = lastidx[s] + 1 \/ (first > lastidx[s] /\ first \in keys[p])
    <3>1. CASE gcidx[p] - lastidx[s] <= Len(gcpkts[p])
      BY <1>2, <1>4, <3>1
    <3>2. CASE ~(gcidx[p] - lastidx[s] <= Len(gcpkts[p]))
      <4>1. Len(adv) = Len(gcpkts[p]) /\ Len(gcpkts[p]) \in Nat
        BY <1>2, <1>4, <3>2
      <4>2. Len(gcpkts[p]) < gcidx[p]
        BY <1>2, <3>2, <4>1
      <4>3. gcidx[p] - Len(gcpkts[p]) + 1 \in keys[p]
        BY <1>1, <4>2 DEF CacheInv, LatestFrom
      <4> QED
        BY <1>2, <3>2, <4>1, <4>3
    <3> QED
      BY <3>1, <3>2
  <2>5. MayFollow(plast[s], p, first, turn, keys[p])
    <3> HIDE DEF first
    <3>1. CASE plast[s].src = p /\ plast[s].idx = lastidx[s]
      BY <2>4, <3>1 DEF MayFollow
    <3>2. CASE /\ plast[s].src # p
               /\ lastidx[s] = 0
               /\ plast[s].src = Nil \/ turn[plast[s].src] < turn[p]
      BY <2>4, <3>2 DEF MayFollow
    <3> QED
      BY <1>1, <3>1, <3>2 DEF AtCursor
  <2>6. MayFollow(plast'[s], lastsp'[s], lastidx'[s] - Len(pkts'[s]) + 1, turn', keys'[lastsp'[s]])
    <3>1. lastsp'[s] = p /\ lastidx'[s] - Len(pkts'[s]) + 1 = first
      BY <1>3, <1>5, <2>1
    <3> HIDE DEF first
    <3> QED
      BY <1>3, <2>5, <3>1
  <2> QED
    BY <1>5, <2>1, <2>2, <2>6 DEF Sending
<1> QED
  BY <1>5, <1>6, <1>7, <1>8

\* A subscriber is not disturbed by publishers that attach and publish.
LEMMA CursorFrame ==
    ASSUME TypeOK, TypeOK', NEW s \in Subs, CursorOf(s),
           UNCHANGED <<lastsp[s], lastidx[s], pkts[s], plast[s]>>,
           spc'[s] = spc[s] \/ (spc[s] \in {"idle", "load", "snap", "wait"} /\ spc'[s] # "write"),
           \A p \in Pubs : turn[p] > 0 => turn'[p] = turn[p],
           \A p \in Pubs : gcidx[p] <= gcidx'[p] /\ keys[p] \subseteq keys'[p]
    PROVE  CursorOf(s)'
<1>1. /\ lastsp[s] \in Pubs \union {Nil} /\ plast[s] \in Packet \union {NoPacket}
      /\ turn \in [Pubs -> Nat] /\ turn' \in [Pubs -> Nat]
      /\ gcidx \in [Pubs -> Nat] /\ gcidx' \in [Pubs -> Nat]
      /\ lastidx[s] \in Nat
  BY DEF TypeOK
<1>2. plast[s].src \in Pubs \union {Nil}
  BY <1>1 DEF Packet, NoPacket
<1>3. plast'[s].src # Nil => turn'[plast'[s].src] > 0
  BY <1>1, <1>2 DEF CursorOf
<1>4. lastsp'[s] = Nil => lastidx'[s] = 0
  BY DEF CursorOf
<1>5. lastsp'[s] # Nil => turn'[lastsp'[s]] > 0 /\ lastidx'[s] <= gcidx'[lastsp'[s]]
  BY <1>1 DEF CursorOf
<1>6. AtCursor(s) => AtCursor(s)'
  BY <1>1, <1>2 DEF CursorOf, AtCursor
<1>7. lastsp[s] # Nil /\ Sending(s) => Sending(s)'
  <2> SUFFICES ASSUME lastsp[s] # Nil, Sending(s) PROVE Sending(s)'
    OBVIOUS
  <2> DEFINE i == lastidx[s] - Len(pkts[s]) + 1
  <2>1. RunOf(lastsp'[s], pkts'[s], lastidx'[s])
    BY DEF Sending
  <2>2. MayFollow(plast[s], lastsp[s], i, turn, keys[lastsp[s]])
    BY DEF Sending
  <2>3. i = lastidx'[s] - Len(pkts'[s]) + 1
    OBVIOUS
  <2> HIDE DEF i
  <2>4. keys[lastsp[s]] \subseteq keys'[lastsp[s]]
    BY <1>1
  <2>5. /\ plast[s].src # Nil => turn'[plast[s].src] = turn[plast[s].src]
        /\ turn'[lastsp[s]] = turn[lastsp[s]]
    BY <1>1, <1>2 DEF CursorOf
  <2>6. MayFollow(plast[s], lastsp[s], i, turn', keys'[lastsp[s]])
    BY <2>2, <2>4, <2>5 DEF MayFollow
  <2> QED
    BY <2>1, <2>3, <2>6 DEF Sending
<1> QED
  BY <1>3, <1>4, <1>5, <1>6, <1>7 DEF CursorOf

\* A packet that is sent is the next one of the run, and the cursor stays.
LEMMA SendPktRun ==
    ASSUME TypeOK, TypeOK', FeedInv, NEW s \in Subs, SendPkt(s)
    PROVE  /\ plast'[s].src = lastsp[s]
           /\ plast'[s].idx = lastidx[s] - Len(pkts[s]) + 1
           /\ plast'[s].idx \in 1..gcidx[lastsp[s]]
           /\ Feed!Follows(s, plast'[s].src, plast'[s].idx)
           /\ CursorOf(s)'
<1> DEFINE p == lastsp[s]
           first == lastidx[s] - Len(pkts[s]) + 1
<1>1. /\ p \in Pubs /\ turn[p] > 0 /\ lastidx[s] <= gcidx[p]
      /\ RunOf(p, pkts[s], lastidx[s]) /\ MayFollow(plast[s], p, first, turn, keys[p])
  BY DEF TypeOK, FeedInv, CursorInv, CursorOf, Sending, SendPkt
<1>2. pkts[s] \in Seq(Packet) /\ pkts[s] # <<>> /\ lastidx[s] \in Nat /\ gcidx[p] \in Nat
  BY <1>1 DEF TypeOK, SendPkt
<1>3. Len(pkts[s]) \in Nat \ {0}
  BY <1>2, EmptySeq
<1>4. Head(pkts[s]) = pkts[s][1]
  BY <1>2
<1>5. Head(pkts[s]).src = p /\ Head(pkts[s]).idx = first
  BY <1>1, <1>3, <1>4 DEF RunOf
<1>6. first \in 1..gcidx[p]
  BY <1>1, <1>2, <1>3 DEF RunOf
<1>7. /\ plast' = [plast EXCEPT ![s] = Head(pkts[s])]
      /\ pkts' = [pkts EXCEPT ![s] = Tail(@)]
      /\ spc' = [spc EXCEPT ![s] = IF Len(pkts[s]) = 1 THEN "load" ELSE "write"]
      /\ UNCHANGED <<lastsp, lastidx, turn, gcidx, keys>>
  BY DEF SendPkt, pubvars
<1>8. plast'[s].src = p /\ plast'[s].idx = first
  BY <1>5, <1>7 DEF TypeOK
<1>9. RunOf(p, Tail(pkts[s]), lastidx[s]) /\ Len(Tail(pkts[s])) = Len(pkts[s]) - 1
  BY <1>1, <1>2, TailRun
<1>10. pkts'[s] = Tail(pkts[s])
  BY <1>7 DEF TypeOK
<1>11. /\ plast'[s].src # Nil => turn'[plast'[s].src] > 0
       /\ lastsp'[s] = p /\ lastidx'[s] = lastidx[s] /\ p # Nil
       /\ turn'[p] > 0 /\ lastidx'[s] <= gcidx'[p]
  BY <1>1, <1>7, <1>8, PubSubAssumption
<1>12. CursorOf(s)'
  <2>1. CASE Len(pkts[s]) = 1
    <3>1. plast'[s].src = lastsp'[s] /\ plast'[s].idx = lastidx'[s] /\ spc'[s] = "load"
      BY <1>2, <1>7, <1>8, <1>11, <2>1 DEF TypeOK
    <3> QED
      BY <1>11, <3>1 DEF CursorOf, AtCursor
  <2>2. CASE Len(pkts[s]) # 1
    <3>1. Len(pkts'[s]) = Len(pkts[s]) - 1
      BY <1>9, <1>10
    <3>2. lastidx'[s] - Len(pkts'[s]) + 1 = first + 1
      BY <1>2, <1>3, <1>11, <3>1
    <3> HIDE DEF first
    <3>3. MayFollow(plast'[s], p, first + 1, turn', keys'[p])
      BY <1>8 DEF MayFollow
    <3>4. MayFollow(plast'[s], lastsp'[s], lastidx'[s] - Len(pkts'[s]) + 1, turn',
                    keys'[lastsp'[s]])
      BY <1>11, <3>2, <3>3
    <3>5. RunOf(lastsp'[s], pkts'[s], lastidx'[s])
      BY <1>9, <1>10, <1>11
    <3>6. Sending(s)' /\ spc'[s] = "write"
      BY <1>7, <2>2, <3>4, <3>5 DEF Sending, TypeOK
    <3> QED
      BY <1>11, <3>6 DEF CursorOf
  <2> QED
    BY <2>1, <2>2
<1>13. Feed!Follows(s, p, first)
  BY <1>1, FollowsMeans
<1> HIDE DEF first
<1> QED
  BY <1>1, <1>6, <1>8, <1>12, <1>13 DEF first

LEMMA NextCache == TypeOK /\ CacheInv /\ [Next]_vars => CacheInv'
<1> SUFFICES ASSUME TypeOK, CacheInv, [Next]_vars PROVE CacheInv'
  OBVIOUS
<1>1. ASSUME NEW p \in Pubs, NEW m \in Media, ReadMedia(p, m) PROVE CacheInv'
  BY <1>1, ReadMediaRun
<1>2. ASSUME UNCHANGED <<gcpkts, gcidx, keys>> PROVE CacheInv'
  BY <1>2 DEF CacheInv
<1>3. ASSUME NEW p \in Pubs, PubStep(p) \/ PubInput(p) PROVE CacheInv'
  BY <1>1, <1>2, <1>3
     DEF PubStep, PubInput, SetPub, CancelOld, CheckDone, NotifySub, NotifyDone, NotifyOne, ReadErr,
         ReadHdr
<1>4. ASSUME NEW s \in Subs, SubStep(s) \/ Leave(s) \/ AddSub(s) \/ PeerClose(s)
      PROVE  CacheInv'
  BY <1>2, <1>4
     DEF SubStep, LoadPub, TakeSnapshot, Wake, SubWrite, SendMeta, SendVSeqHdr, SendASeqHdr,
         SendPkt, Leave, AddSub, PeerClose, pubvars
<1>5. CASE UNCHANGED vars
  BY <1>2, <1>5 DEF vars, pubvars
<1> QED
  BY <1>3, <1>4, <1>5 DEF Next, SubInput, Closed, WriteFail, Finished

\* Loading the pointer keeps the cursor, or starts one at a later publisher.
LEMMA LoadPubCursor ==
    ASSUME TypeOK, TypeOK', FeedInv, NEW s \in Subs, LoadPub(s)
    PROVE  CursorOf(s)'
<1>1. /\ lastsp' = [lastsp EXCEPT ![s] = pub]
      /\ lastidx' = [lastidx EXCEPT ![s] = IF pub # lastsp[s] THEN 0 ELSE @]
      /\ spc' = [spc EXCEPT ![s] = IF pub # Nil THEN "snap" ELSE "wait"]
      /\ UNCHANGED <<plast, turn, gcidx, keys>>
      /\ spc[s] = "load"
  BY DEF LoadPub, pubvars
<1>2. CursorOf(s) /\ AtCursor(s)
  BY <1>1 DEF FeedInv, CursorInv, CursorOf
<1>3. lastsp'[s] = pub /\ spc'[s] # "write" /\ spc'[s] \in {"snap", "wait"}
  BY <1>1 DEF TypeOK
<1>4. lastidx'[s] = IF pub # lastsp[s] THEN 0 ELSE lastidx[s]
  BY <1>1 DEF TypeOK
<1>5. plast[s].src \in Pubs \union {Nil} /\ lastsp[s] \in Pubs \union {Nil}
  <2>1. plast[s] \in Packet \union {NoPacket} /\ lastsp[s] \in Pubs \union {Nil}
    BY DEF TypeOK
  <2> QED
    BY <2>1 DEF Packet, NoPacket
<1>6. pub \in Pubs \union {Nil} /\ turn \in [Pubs -> Nat] /\ gcidx \in [Pubs -> Nat]
  BY DEF TypeOK
<1>7. CASE pub = lastsp[s]
  BY <1>1, <1>2, <1>3, <1>4, <1>7 DEF CursorOf, AtCursor
<1>8. CASE pub # lastsp[s]
  <2>1. pub # Nil
    BY <1>2, <1>5, <1>8, PubSubAssumption DEF CursorOf, FeedInv, TurnInv
  <2>2. turn[pub] > 0 /\ (lastsp[s] # Nil => turn[lastsp[s]] < turn[pub])
    BY <1>5, <1>6, <1>8, <2>1 DEF FeedInv, TurnInv
  <2>3. plast[s].src = Nil \/ turn[plast[s].src] < turn[pub]
    BY <1>2, <1>5, <1>6, <2>1, <2>2 DEF AtCursor
  <2>4. plast[s].src # pub
    BY <1>5, <1>6, <2>1, <2>3
  <2>5. AtCursor(s)'
    BY <1>1, <1>3, <1>4, <1>8, <2>1, <2>3, <2>4 DEF AtCursor
  <2> QED
    BY <1>1, <1>2, <1>3, <1>4, <1>6, <1>8, <2>1, <2>2, <2>5 DEF CursorOf
<1> QED
  BY <1>7, <1>8

LEMMA NextCursor == TypeOK /\ TypeOK' /\ FeedInv /\ [Next]_vars => CursorInv'
<1> SUFFICES ASSUME TypeOK, TypeOK', FeedInv, [Next]_vars, NEW t \in Subs PROVE CursorOf(t)'
  BY DEF CursorInv
<1> USE PubSubAssumption
<1>0. CursorOf(t)
  BY DEF FeedInv, CursorInv
<1> DEFINE Same == UNCHANGED <<lastsp[t], lastidx[t], pkts[t], plast[t]>>
           Idling == \/ spc'[t] = spc[t]
                     \/ spc[t] \in {"idle", "load", "snap", "wait"} /\ spc'[t] # "write"
           Kept == /\ \A p \in Pubs : turn[p] > 0 => turn'[p] = turn[p]
                   /\ \A p \in Pubs : gcidx[p] <= gcidx'[p] /\ keys[p] \subseteq keys'[p]
<1>1. ASSUME Same, Idling, Kept PROVE CursorOf(t)'
  BY <1>0, <1>1, CursorFrame
<1>2. ASSUME UNCHANGED <<turn, gcidx, keys>> PROVE Kept
  BY <1>2 DEF TypeOK
<1>3. ASSUME NEW p \in Pubs, PubStep(p) \/ PubInput(p) PROVE CursorOf(t)'
  <2>1. Same /\ Idling
    BY <1>3 DEF PubStep, PubInput, SetPub, CancelOld, CheckDone, NotifySub, NotifyDone, NotifyOne,
                ReadErr, ReadHdr, ReadMedia, subvars
  <2>2. CASE SetPub(p)
    <3>1. turn' = [turn EXCEPT ![p] = IF pub = Nil THEN 1 ELSE turn[pub] + 1] /\ turn[p] = 0
          /\ UNCHANGED <<gcidx, keys>>
      BY <2>2 DEF SetPub, FeedInv, TurnInv
    <3>2. Kept
      BY <3>1 DEF TypeOK
    <3> QED
      BY <1>1, <2>1, <3>2
  <2>3. ASSUME NEW m \in Media, ReadMedia(p, m) PROVE CursorOf(t)'
    <3>1. gcidx' = [gcidx EXCEPT ![p] = @ + 1] /\ UNCHANGED turn
          /\ keys' = [keys EXCEPT ![p] = IF m.key THEN @ \union {gcidx[p] + 1} ELSE @]
      BY <2>3 DEF ReadMedia, Put
    <3>2. gcidx \in [Pubs -> Nat] /\ keys \in [Pubs -> SUBSET Nat]
      BY DEF TypeOK
    <3>3. \A q \in Pubs : gcidx[q] <= gcidx'[q]
      BY ONLY <3>1, <3>2
    <3>4. \A q \in Pubs : keys[q] \subseteq keys'[q]
      BY ONLY <3>1, <3>2
    <3>5. Kept
      BY <3>1, <3>3, <3>4
    <3> QED
      BY <1>1, <2>1, <3>5
  <2>4. ASSUME \/ PubStep(p) \/ ReadErr(p)
               \/ \E type \in HdrType, data \in Hdrs : ReadHdr(p, type, data)
        PROVE  CursorOf(t)'
    <3>1. UNCHANGED <<turn, gcidx, keys>>
      BY <2>4 DEF PubStep, CancelOld, CheckDone, NotifySub, NotifyDone, NotifyOne, ReadErr, ReadHdr
    <3> QED
      BY <1>1, <1>2, <2>1, <3>1
  <2> QED
    BY <1>3, <2>2, <2>3, <2>4 DEF PubInput
<1>4. ASSUME NEW s \in Subs, LoadPub(s) PROVE CursorOf(t)'
  <2>1. CASE s = t
    BY <1>4, <2>1, LoadPubCursor
  <2>2. CASE s # t
    <3>1. Same /\ Idling /\ UNCHANGED <<turn, gcidx, keys>>
      BY <1>4, <2>2 DEF LoadPub, pubvars, TypeOK
    <3> QED
      BY <1>1, <1>2, <3>1
  <2> QED
    BY <2>1, <2>2
<1>5. ASSUME NEW s \in Subs, TakeSnapshot(s) PROVE CursorOf(t)'
  <2>1. UNCHANGED <<turn, gcidx, keys, lastsp, plast>>
    BY <1>5 DEF TakeSnapshot, pubvars
  <2>2. CASE s = t
    <3>1. /\ lastidx'[t] = gcidx[lastsp[t]]
          /\ \/ spc'[t] = "wait" /\ lastidx'[t] = lastidx[t]
             \/ spc'[t] = "write" /\ Sending(t)'
      BY <1>5, <2>2, TakeSnapshotRun DEF FeedInv
    <3>2. spc[t] = "snap" /\ lastsp[t] # Nil
      BY <1>5, <2>2 DEF TakeSnapshot, TypeOK
    <3>3. lastsp[t] \in Pubs /\ gcidx[lastsp[t]] \in Nat
      BY <3>2 DEF TypeOK
    <3>4. AtCursor(t)
      BY <1>0, <3>2 DEF CursorOf
    <3>5. CASE spc'[t] = "wait" /\ lastidx'[t] = lastidx[t]
      <4>1. AtCursor(t)'
        BY <2>1, <3>4, <3>5 DEF AtCursor
      <4> QED
        BY <1>0, <2>1, <3>1, <3>2, <3>3, <3>5, <4>1 DEF CursorOf
    <3>6. CASE spc'[t] = "write" /\ Sending(t)'
      BY <1>0, <2>1, <3>1, <3>2, <3>3, <3>6 DEF CursorOf
    <3> QED
      BY <3>1, <3>5, <3>6
  <2>3. CASE s # t
    <3>1. Same /\ Idling
      BY <1>5, <2>3 DEF TakeSnapshot, TypeOK
    <3> QED
      BY <1>1, <1>2, <2>1, <3>1
  <2> QED
    BY <2>2, <2>3
<1>6. ASSUME NEW s \in Subs, SendPkt(s) PROVE CursorOf(t)'
  <2>1. CASE s = t
    BY <1>6, <2>1, SendPktRun
  <2>2. CASE s # t
    <3>1. Same /\ Idling /\ UNCHANGED <<turn, gcidx, keys>>
      BY <1>6, <2>2 DEF SendPkt, pubvars, TypeOK
    <3> QED
      BY <1>1, <1>2, <3>1
  <2> QED
    BY <2>1, <2>2
<1>7. ASSUME NEW s \in Subs, Leave(s), spc[s] # "done" PROVE CursorOf(t)'
  <2>1. UNCHANGED <<turn, gcidx, keys, plast>>
    BY <1>7 DEF Leave
  <2>2. CASE s = t
    <3>1. lastsp'[t] = Nil /\ lastidx'[t] = 0 /\ spc'[t] = "done"
      BY <1>7, <2>2 DEF Leave, TypeOK
    <3> QED
      BY <1>0, <2>1, <3>1 DEF CursorOf
  <2>3. CASE s # t
    <3>1. Same /\ Idling
      BY <1>7, <2>3 DEF Leave, TypeOK
    <3> QED
      BY <1>1, <1>2, <2>1, <3>1
  <2> QED
    BY <2>2, <2>3
<1>8. ASSUME NEW s \in Subs,
             \/ Wake(s) \/ AddSub(s) \/ PeerClose(s)
             \/ SendMeta(s) \/ SendVSeqHdr(s) \/ SendASeqHdr(s)
      PROVE  CursorOf(t)'
  <2>1. Same /\ UNCHANGED <<turn, gcidx, keys>>
    BY <1>8 DEF Wake, AddSub, PeerClose, SendMeta, SendVSeqHdr, SendASeqHdr, pubvars
  <2>2. Idling
    BY <1>8 DEF Wake, AddSub, PeerClose, SendMeta, SendVSeqHdr, SendASeqHdr, TypeOK
  <2> QED
    BY <1>1, <1>2, <2>1, <2>2
<1>9. CASE UNCHANGED vars
  <2>1. Same /\ Idling /\ UNCHANGED <<turn, gcidx, keys>>
    BY <1>9 DEF vars, pubvars, subvars
  <2> QED
    BY <1>1, <1>2, <2>1
<1> QED
  BY <1>3, <1>4, <1>5, <1>6, <1>7, <1>8, <1>9
     DEF Next, SubStep, SubWrite, SubInput, Closed, WriteFail, Finished

-----------------------------------------------------------------------------
LEMMA InitImplements == Init => Feed!FeedInit
BY DEF Init, Feed!FeedInit, NoPacket

\* Swapping the pointer is Attach, caching a packet is Publish, writing one is
\* Deliver; no other step shows.
LEMMA NextImplements ==
    TypeOK /\ TypeOK' /\ FeedInv /\ [Next]_vars => [Feed!FeedNext]_(Feed!feedvars)
<1> SUFFICES ASSUME TypeOK, TypeOK', FeedInv, [Next]_vars
             PROVE  Feed!FeedNext \/ UNCHANGED Feed!feedvars
  BY DEF Feed!feedvars
<1> USE PubSubAssumption
<1>1. ASSUME NEW p \in Pubs, SetPub(p) PROVE Feed!FeedNext
  <2>1. /\ turn' = [turn EXCEPT ![p] = IF pub = Nil THEN 1 ELSE turn[pub] + 1]
        /\ turn[p] = 0
        /\ UNCHANGED <<gcidx, keys, plast>>
    BY <1>1 DEF SetPub, subvars, FeedInv, TurnInv
  <2>2. turn'[p] = (IF pub = Nil THEN 1 ELSE turn[pub] + 1) /\ turn'[p] \in Nat
    BY <2>1 DEF TypeOK
  <2>3. \A q \in Pubs : turn[q] < turn'[p]
    <3>1. CASE pub = Nil
      BY <2>2, <3>1 DEF FeedInv, TurnInv
    <3>2. CASE pub # Nil
      <4>1. pub \in Pubs /\ turn \in [Pubs -> Nat]
        BY <3>2 DEF TypeOK
      <4>2. \A q \in Pubs \ {pub} : turn[q] < turn[pub]
        BY <3>2 DEF FeedInv, TurnInv
      <4> QED
        BY <2>2, <3>2, <4>1, <4>2
    <3> QED
      BY <3>1, <3>2
  <2>4. Feed!Attach(p)
    BY <2>1, <2>2, <2>3 DEF Feed!Attach
  <2> QED
    BY <2>4 DEF Feed!FeedNext
<1>2. ASSUME NEW p \in Pubs, NEW m \in Media, ReadMedia(p, m) PROVE Feed!FeedNext
  <2>1. m.key \in BOOLEAN
    BY DEF MediaKind
  <2>2. turn[p] > 0
    BY <1>2 DEF ReadMedia, ReadPacket, FeedInv, TurnInv, TypeOK
  <2>3. UNCHANGED <<turn, plast>>
    BY <1>2 DEF ReadMedia, subvars
  <2>4. /\ gcidx' = [gcidx EXCEPT ![p] = @ + 1]
        /\ keys' = [keys EXCEPT ![p] = IF m.key THEN @ \union {gcidx[p] + 1} ELSE @]
    BY <1>2, ReadMediaRun DEF FeedInv
  <2>5. Feed!Publish(p, m.key)
    BY <2>2, <2>3, <2>4 DEF Feed!Publish
  <2> QED
    BY <2>1, <2>5 DEF Feed!FeedNext
<1>3. ASSUME NEW s \in Subs, SendPkt(s) PROVE Feed!FeedNext
  <2>1. /\ plast'[s].idx \in 1..gcidx[plast'[s].src]
        /\ Feed!Follows(s, plast'[s].src, plast'[s].idx)
        /\ plast'[s].src = lastsp[s]
    BY <1>3, SendPktRun
  <2>2. lastsp[s] \in Pubs
    BY <1>3 DEF SendPkt, TypeOK, FeedInv, CursorInv, CursorOf
  <2>3. plast' = [plast EXCEPT ![s] = plast'[s]] /\ UNCHANGED <<turn, gcidx, keys>>
    BY <1>3 DEF SendPkt, pubvars, TypeOK
  <2>4. [t \in Subs |-> [src |-> plast'[t].src, idx |-> plast'[t].idx]] =
          [[t \in Subs |-> [src |-> plast[t].src, idx |-> plast[t].idx]]
             EXCEPT ![s] = [src |-> plast'[s].src, idx |-> plast'[s].idx]]
    BY <2>3 DEF TypeOK
  <2>5. Feed!Deliver(s)
    BY <2>1, <2>2, <2>3, <2>4 DEF Feed!Deliver
  <2> QED
    BY <2>5 DEF Feed!FeedNext
<1>4. ASSUME NEW p \in Pubs,
             \/ PubStep(p) \/ ReadErr(p)
             \/ \E type \in HdrType, data \in Hdrs : ReadHdr(p, type, data)
      PROVE  UNCHANGED Feed!feedvars
  BY <1>4 DEF PubStep, CancelOld, CheckDone, NotifySub, NotifyDone, NotifyOne, ReadErr, ReadHdr,
              subvars, Feed!feedvars
<1>5. ASSUME NEW s \in Subs,
             \/ LoadPub(s) \/ TakeSnapshot(s) \/ Wake(s) \/ Leave(s) \/ AddSub(s) \/ PeerClose(s)
             \/ SendMeta(s) \/ SendVSeqHdr(s) \/ SendASeqHdr(s)
      PROVE  UNCHANGED Feed!feedvars
  BY <1>5 DEF LoadPub, TakeSnapshot, Wake, Leave, AddSub, PeerClose, SendMeta, SendVSeqHdr,
              SendASeqHdr, pubvars, Feed!feedvars
<1>6. CASE UNCHANGED vars
  BY <1>6 DEF vars, pubvars, subvars, Feed!feedvars
<1> QED
  BY <1>1, <1>2, <1>3, <1>4, <1>5, <1>6
     DEF Next, PubInput, SubStep, SubWrite, SubInput, Closed, WriteFail, Finished

\* What a subscriber is sent is what StreamFeed allows: packets of successive
\* publishers in order, with gaps only up to a key frame.
THEOREM ImplementsFeed == Spec => FeedSpec
<1>1. TypeOK /\ FeedInv /\ [Next]_vars => FeedInv'
  BY NextType, NextTurn, NextCache, NextCursor DEF FeedInv
<1>2. TypeOK /\ FeedInv /\ [Next]_vars => [Feed!FeedNext]_(Feed!feedvars)
  BY NextType, NextImplements
<1> QED
  BY InitType, InitFeed, InitImplements, NextType, <1>1, <1>2, PTL
     DEF Spec, FeedSpec, Feed!FeedSpec

-----------------------------------------------------------------------------
(* Sequence headers and metadata in force                                  *)

\* A key frame was published no later than packet x.
Governed(x, keyset) == \E k \in keyset : k <= x.idx

\* A packet knows whether it is a key frame, and a key frame carries the video
\* sequence header it decodes under.
HdrsOf(x, keyset) ==
    /\ x.key <=> x.idx \in keyset
    /\ x.key => x.type = "H264" /\ x.gov = x.VSeqHdr

\* Between key frames the video sequence header does not change.
GovChain(seq) ==
    \A i \in 1..Len(seq) - 1 : ~seq[i + 1].key => seq[i + 1].gov = seq[i].gov

\* If seq holds the packet of x's number, it decodes under the same header.
SameGov(x, seq) == \A i \in 1..Len(seq) : seq[i].idx = x.idx => seq[i].gov = x.gov

CacheHdrs(p) ==
    /\ keys[p] \subseteq 1..gcidx[p]
    /\ \A i \in 1..Len(gcpkts[p]) : HdrsOf(gcpkts[p][i], keys[p])
    /\ GovChain(gcpkts[p])

\* The batch of s: what was taken of its publisher's cache, and still fits what
\* is there; an inter frame at its head continues the packet sent last.
BatchHdrs(s) ==
    /\ \A i \in 1..Len(pkts[s]) :
          HdrsOf(pkts[s][i], keys[lastsp[s]]) /\ SameGov(pkts[s][i], gcpkts[lastsp[s]])
    /\ GovChain(pkts[s])
    /\ ~Head(pkts[s]).key /\ Governed(Head(pkts[s]), keys[lastsp[s]]) =>
          /\ plast[s].src = Head(pkts[s]).src
          /\ plast[s].idx = Head(pkts[s]).idx - 1
          /\ plast[s].gov = Head(pkts[s]).gov

\* The packet sent last to s is one its publisher has numbered.
LastSent(s) ==
    plast[s].src # Nil =>
        /\ plast[s].idx \in 1..gcidx[plast[s].src]
        /\ SameGov(plast[s], gcpkts[plast[s].src])

\* The video sequence header the player has is that of the packet sent last, or
\* already the one of the key frame that comes next.
InForce(s) ==
    plast[s].src # Nil /\ Governed(plast[s], keys[plast[s].src]) =>
        split[s].VSeqHdr = plast[s].gov \/ (spc[s] = "write" /\ Head(pkts[s]).key)

PlayerOf(s) ==
    /\ phdr[s] = split[s]
    /\ LastSent(s)
    /\ spc[s] # "done" => InForce(s)
    /\ spc[s] = "write" => BatchHdrs(s)

HdrInv ==
    /\ \A p \in Pubs : CacheHdrs(p)
    /\ \A s \in Subs : PlayerOf(s)

LEMMA InitHdr == Init => HdrInv
BY DEF Init, HdrInv, CacheHdrs, GovChain, PlayerOf, LastSent, InForce, NoPacket

\* A packet that is held somewhere is not affected by the next one its publisher
\* reads: whether it is a key frame, is governed, or fits the cache.
LEMMA HeldFrame ==
    ASSUME TypeOK, CacheInv, NEW p \in Pubs, NEW m \in Media, ReadMedia(p, m),
           NEW q \in Pubs, NEW x, x.idx \in 1..gcidx[q]
    PROVE  /\ Governed(x, keys'[q]) <=> Governed(x, keys[q])
           /\ HdrsOf(x, keys'[q]) <=> HdrsOf(x, keys[q])
           /\ SameGov(x, gcpkts[q]) => SameGov(x, gcpkts'[q])
<1> DEFINE pkt == Merged(p, m)
<1>1. pkt \in Packet /\ pkt.idx = gcidx[p] + 1 /\ pkt.key = m.key
  BY MergedType DEF Merged
<1>2. gcpkts' = [gcpkts EXCEPT ![p] = Append(IF m.key THEN <<>> ELSE @, pkt)]
  BY <1>1 DEF ReadMedia, Put
<1>3. keys' = [keys EXCEPT ![p] = IF m.key THEN @ \union {gcidx[p] + 1} ELSE @]
  BY DEF ReadMedia
<1> HIDE DEF pkt
<1>4. CASE q # p
  BY <1>2, <1>3, <1>4 DEF TypeOK
<1>5. CASE q = p
  <2>1. gcidx[p] \in Nat /\ gcpkts[p] \in Seq(Packet) /\ x.idx \in Nat /\ x.idx < gcidx[p] + 1
    BY <1>5 DEF TypeOK
  <2>2. keys'[p] = IF m.key THEN keys[p] \union {gcidx[p] + 1} ELSE keys[p]
    BY <1>3 DEF TypeOK
  <2>3. Governed(x, keys'[p]) <=> Governed(x, keys[p])
    BY <2>1, <2>2 DEF Governed
  <2>4. HdrsOf(x, keys'[p]) <=> HdrsOf(x, keys[p])
    BY <2>1, <2>2 DEF HdrsOf
  <2>5. SameGov(x, gcpkts[p]) => SameGov(x, Append(gcpkts[p], pkt))
    <3>1. /\ Len(Append(gcpkts[p], pkt)) = Len(gcpkts[p]) + 1
          /\ \A i \in 1..Len(gcpkts[p]) : Append(gcpkts[p], pkt)[i] = gcpkts[p][i]
          /\ Append(gcpkts[p], pkt)[Len(gcpkts[p]) + 1] = pkt
      BY <1>1, <2>1, AppendProperties
    <3> QED
      BY <1>1, <2>1, <3>1 DEF SameGov
  <2>6. SameGov(x, Append(<<>>, pkt))
    <3>1. Append(<<>>, pkt) = <<pkt>>
      OBVIOUS
    <3> QED
      BY <1>1, <2>1, <3>1 DEF SameGov
  <2>7. gcpkts'[p] = Append(gcpkts[p], pkt) \/ gcpkts'[p] = Append(<<>>, pkt)
    BY <1>2 DEF TypeOK
  <2> QED
    BY <1>5, <2>3, <2>4, <2>5, <2>6, <2>7
<1> QED
  BY <1>4, <1>5

\* What a publisher puts in its cache keeps the headers in order.
LEMMA ReadMediaHdrs ==
    ASSUME TypeOK, CacheInv, NEW p \in Pubs, NEW m \in Media, ReadMedia(p, m), CacheHdrs(p)
    PROVE  CacheHdrs(p)'
<1> DEFINE pkt == Merged(p, m)
           seq == gcpkts[p]
<1>1. pkt \in Packet /\ pkt.idx = gcidx[p] + 1 /\ pkt.key = m.key
  BY MergedType DEF Merged
<1>2. /\ gcpkts' = [gcpkts EXCEPT ![p] = Append(IF m.key THEN <<>> ELSE @, pkt)]
      /\ gcidx' = [gcidx EXCEPT ![p] = @ + 1]
      /\ keys' = [keys EXCEPT ![p] = IF m.key THEN @ \union {gcidx[p] + 1} ELSE @]
  BY <1>1 DEF ReadMedia, Put
<1>3. /\ m.key => pkt.type = "H264" /\ pkt.gov = pkt.VSeqHdr
      /\ ~m.key /\ seq # <<>> => pkt.gov = seq[Len(seq)].gov
  <2>1. m \in MediaKind
    BY PubSubAssumption
  <2>2. m.key => m.type = "H264"
    BY <2>1 DEF MediaKind
  <2> QED
    BY <2>2 DEF Merged, Governing
<1> HIDE DEF pkt
<1>4. gcidx[p] \in Nat /\ seq \in Seq(Packet) /\ keys[p] \subseteq 1..gcidx[p]
  BY DEF TypeOK, CacheHdrs
<1>5. /\ gcidx'[p] = gcidx[p] + 1
      /\ keys'[p] = IF m.key THEN keys[p] \union {gcidx[p] + 1} ELSE keys[p]
      /\ gcpkts'[p] = IF m.key THEN <<pkt>> ELSE Append(seq, pkt)
  <2>1. Append(<<>>, pkt) = <<pkt>>
    OBVIOUS
  <2>2. gcpkts'[p] = Append(IF m.key THEN <<>> ELSE seq, pkt)
    BY <1>2 DEF TypeOK
  <2> QED
    BY <1>2, <2>1, <2>2 DEF TypeOK
<1>6. keys'[p] \subseteq 1..gcidx'[p]
  BY <1>4, <1>5
<1>7. HdrsOf(pkt, keys'[p])
  BY <1>1, <1>3, <1>4, <1>5 DEF HdrsOf
<1>8. CASE m.key
  BY <1>5, <1>6, <1>7, <1>8 DEF CacheHdrs, GovChain
<1>9. CASE ~m.key
  <2>1. /\ Len(Append(seq, pkt)) = Len(seq) + 1 /\ Len(seq) \in Nat
        /\ \A i \in 1..Len(seq) : Append(seq, pkt)[i] = seq[i]
        /\ Append(seq, pkt)[Len(seq) + 1] = pkt
    BY <1>1, <1>4, AppendProperties
  <2>2. \A i \in 1..Len(seq) : HdrsOf(seq[i], keys'[p])
    BY <1>5, <1>9 DEF CacheHdrs
  <2>3. GovChain(seq)
    BY DEF CacheHdrs
  <2>4. Len(seq) > 0 => pkt.gov = seq[Len(seq)].gov
    BY <1>3, <1>4, <1>9
  <2>5. GovChain(Append(seq, pkt))
    <3> SUFFICES ASSUME NEW i \in 1..Len(seq), ~Append(seq, pkt)[i + 1].key
                 PROVE  Append(seq, pkt)[i + 1].gov = Append(seq, pkt)[i].gov
      BY <2>1 DEF GovChain
    <3>1. CASE i = Len(seq)
      BY <2>1, <2>4, <3>1
    <3>2. CASE i # Len(seq)
      <4>1. i \in 1..Len(seq) - 1 /\ i + 1 \in 1..Len(seq)
        BY <2>1, <3>2
      <4> QED
        BY <2>1, <2>3, <4>1 DEF GovChain
    <3> QED
      BY <3>1, <3>2
  <2>6. \A i \in 1..Len(seq) + 1 : HdrsOf(Append(seq, pkt)[i], keys'[p])
    BY <1>7, <2>1, <2>2
  <2> QED
    BY <1>5, <1>6, <1>9, <2>1, <2>5, <2>6 DEF CacheHdrs
<1> QED
  BY <1>8, <1>9

\* What a cursor takes of a cache has the cache's headers, and its first packet
\* continues the one before it in the cache.
LEMMA AdvanceHdrs ==
    ASSUME TypeOK, NEW p \in Pubs, CacheHdrs(p), LatestFrom(p, gcpkts[p], gcidx[p], keys[p]),
           NEW last \in Nat, last <= gcidx[p],
           NEW new, new = Advance(last, gcpkts[p], gcidx[p]), new # <<>>
    PROVE  /\ new \in Seq(Packet)
           /\ \A i \in 1..Len(new) :
                 HdrsOf(new[i], keys[p]) /\ SameGov(new[i], gcpkts[p]) /\ new[i].src = p
           /\ GovChain(new)
           /\ new[1].idx \in 1..gcidx[p]
           /\ ~new[1].key /\ new[1].idx > 1 =>
                 \E j \in 1..Len(gcpkts[p]) :
                    gcpkts[p][j].idx = new[1].idx - 1 /\ gcpkts[p][j].gov = new[1].gov
<1> DEFINE seq == gcpkts[p]
           from == Len(seq) - Len(new) + 1
<1>1. seq \in Seq(Packet) /\ gcidx[p] \in Nat /\ Len(seq) \in Nat /\ Len(seq) <= gcidx[p]
  BY DEF TypeOK, LatestFrom, RunOf
<1>2. /\ new \in Seq(Packet)
      /\ Len(new) = IF gcidx[p] - last <= Len(seq) THEN gcidx[p] - last ELSE Len(seq)
  BY <1>1, AdvanceRun DEF LatestFrom
<1>3. Len(new) \in 1..Len(seq) /\ from \in 1..Len(seq)
  <2>1. Len(new) \in Nat \ {0}
    BY <1>2, EmptySeq
  <2> QED
    BY <1>1, <1>2, <2>1
<1>4. \A i \in 1..Len(new) : new[i] = seq[from + i - 1]
  <2>1. CASE gcidx[p] - last <= Len(seq)
    <3>1. new = SubSeq(seq, from, Len(seq))
      <4>1. gcidx[p] - last = Len(new)
        BY <1>2, <2>1
      <4> QED
        BY <2>1, <4>1 DEF Advance
    <3>2. /\ Len(seq) \in Int /\ from \in Int /\ Len(seq) - from + 1 = Len(new)
          /\ \A i \in from..Len(seq) : seq[i] \in Packet
      BY <1>1, <1>3
    <3> HIDE DEF from, seq
    <3> QED
      BY <3>1, <3>2, SubSeqProperties
  <2>2. CASE ~(gcidx[p] - last <= Len(seq))
    <3>1. new = seq
      BY <2>2 DEF Advance
    <3> QED
      BY <1>1, <3>1
  <2> QED
    BY <2>1, <2>2
<1>5. \A i \in 1..Len(seq) : seq[i].src = p /\ seq[i].idx = gcidx[p] - Len(seq) + i
  BY DEF LatestFrom, RunOf
<1>6. \A i \in 1..Len(seq) : HdrsOf(seq[i], keys[p]) /\ SameGov(seq[i], seq)
  <2>1. \A i \in 1..Len(seq) : HdrsOf(seq[i], keys[p])
    BY DEF CacheHdrs
  <2>2. \A i, j \in 1..Len(seq) : seq[i].idx = seq[j].idx => i = j
    BY <1>1, <1>5
  <2> HIDE DEF seq
  <2>3. \A i \in 1..Len(seq) : SameGov(seq[i], seq)
    BY <2>2 DEF SameGov
  <2> QED
    BY <2>1, <2>3
<1>7. GovChain(seq)
  BY DEF CacheHdrs
<1>8. /\ \A i \in 1..Len(new) : from + i - 1 \in 1..Len(seq)
      /\ \A i \in 1..Len(new) - 1 : i \in 1..Len(new) /\ i + 1 \in 1..Len(new)
                                      /\ from + (i + 1) - 1 = from + i
  <2> DEFINE n == Len(seq)
             k == Len(new)
  <2>1. n \in Nat /\ k \in 1..n /\ from = n - k + 1
    BY <1>1, <1>3
  <2> HIDE DEF n, k, from
  <2>2. \A i \in 1..k : from + i - 1 \in 1..n
    BY <2>1
  <2>3. \A i \in 1..k - 1 : i \in 1..k /\ i + 1 \in 1..k /\ from + (i + 1) - 1 = from + i
    BY <2>1
  <2> QED
    BY <2>2, <2>3 DEF n, k
<1>9. new[1] = seq[from] /\ new[1].idx = gcidx[p] - Len(seq) + from
  <2>1. 1 \in 1..Len(new) /\ from + 1 - 1 = from
    BY <1>1, <1>3
  <2> HIDE DEF from, seq
  <2>2. new[1] = seq[from]
    BY <1>4, <2>1
  <2> QED
    BY <1>3, <1>5, <2>2
<1>10. Len(seq) < gcidx[p] => seq[1].key
  <2> SUFFICES ASSUME Len(seq) < gcidx[p] PROVE seq[1].key
    OBVIOUS
  <2>1. seq[1].idx \in keys[p]
    BY <1>1, <1>3, <1>5 DEF LatestFrom
  <2> QED
    BY <1>3, <1>6, <2>1 DEF HdrsOf
<1> HIDE DEF from, seq
<1>11. GovChain(new)
  <2> SUFFICES ASSUME NEW i \in 1..Len(new) - 1, ~new[i + 1].key
               PROVE  new[i + 1].gov = new[i].gov
    BY DEF GovChain
  <2>1. new[i] = seq[from + i - 1] /\ new[i + 1] = seq[from + i]
    BY <1>4, <1>8
  <2>2. from + i - 1 \in 1..Len(seq) - 1 /\ (from + i - 1) + 1 = from + i
    <3>1. from + i - 1 \in 1..Len(seq) /\ from + (i + 1) - 1 \in 1..Len(seq)
      BY <1>8
    <3> QED
      BY <1>1, <1>3, <3>1
  <2> QED
    BY <1>7, <2>1, <2>2 DEF GovChain
<1>12. new[1].idx \in 1..gcidx[p]
  BY <1>1, <1>3, <1>9
<1>13. ASSUME ~new[1].key, new[1].idx > 1
       PROVE  \E j \in 1..Len(seq) : seq[j].idx = new[1].idx - 1 /\ seq[j].gov = new[1].gov
  <2>1. from # 1
    BY <1>1, <1>9, <1>10, <1>13
  <2>2. from - 1 \in 1..Len(seq) - 1 /\ from - 1 \in 1..Len(seq) /\ (from - 1) + 1 = from
    BY <1>1, <1>3, <2>1
  <2>3. seq[from - 1].gov = new[1].gov
    BY <1>7, <1>9, <1>13, <2>2 DEF GovChain
  <2>4. seq[from - 1].idx = new[1].idx - 1
    <3>1. seq[from - 1].idx = gcidx[p] - Len(seq) + (from - 1)
      BY <1>5, <2>2
    <3>2. gcidx[p] - Len(seq) + (from - 1) = (gcidx[p] - Len(seq) + from) - 1
      BY <1>1, <1>3
    <3> QED
      BY <1>9, <3>1, <3>2
  <2> QED
    BY <2>2, <2>3, <2>4
<1>14. \A i \in 1..Len(new) : HdrsOf(new[i], keys[p]) /\ SameGov(new[i], seq) /\ new[i].src = p
  BY <1>4, <1>5, <1>6, <1>8
<1> QED
  BY <1>2, <1>11, <1>12, <1>13, <1>14 DEF seq

\* A subscriber whose variables stay is not disturbed by what publishers do.
LEMMA PlayerFrame ==
    ASSUME TypeOK, FeedInv, NEW s \in Subs, PlayerOf(s),
           UNCHANGED <<lastsp[s], pkts[s], plast[s], split[s], phdr[s]>>,
           spc'[s] = spc[s] \/ (spc[s] # "write" /\ spc[s] # "done" /\ spc'[s] # "write"),
           \/ UNCHANGED <<gcpkts, gcidx, keys>>
           \/ \E p \in Pubs, m \in Media : ReadMedia(p, m)
    PROVE  PlayerOf(s)'
<1>1. CASE UNCHANGED <<gcpkts, gcidx, keys>>
  BY <1>1 DEF PlayerOf, LastSent, InForce, BatchHdrs
<1>2. ASSUME NEW p \in Pubs, NEW m \in Media, ReadMedia(p, m) PROVE PlayerOf(s)'
  <2>1. gcidx' = [gcidx EXCEPT ![p] = @ + 1]
    BY <1>2, ReadMediaRun DEF FeedInv
  <2>2. \A q \in Pubs : gcidx[q] \in Nat /\ gcidx'[q] \in Nat /\ gcidx[q] <= gcidx'[q]
    BY <2>1 DEF TypeOK
  <2>3. plast[s].src \in Pubs \union {Nil}
    BY DEF TypeOK, Packet, NoPacket
  <2> DEFINE x == plast[s]
             q == plast[s].src
             r == lastsp[s]
  <2>4. ASSUME q # Nil
        PROVE  /\ x.idx \in 1..gcidx[q] /\ SameGov(x, gcpkts[q]) /\ q \in Pubs
               /\ Governed(x, keys'[q]) <=> Governed(x, keys[q])
               /\ SameGov(x, gcpkts'[q])
    <3>1. q \in Pubs /\ x.idx \in 1..gcidx[q] /\ SameGov(x, gcpkts[q])
      BY <2>3, <2>4 DEF PlayerOf, LastSent
    <3> HIDE DEF x, q
    <3> QED
      BY <1>2, <3>1, HeldFrame DEF FeedInv
  <2>5. LastSent(s)'
    BY <2>2, <2>4 DEF LastSent
  <2>6. spc'[s] # "done" => InForce(s)'
    BY <2>4 DEF PlayerOf, InForce
  <2>7. ASSUME spc'[s] = "write" PROVE BatchHdrs(s)'
    <3>1. spc[s] = "write" /\ r \in Pubs /\ RunOf(r, pkts[s], lastidx[s]) /\ lastidx[s] <= gcidx[r]
      BY <2>7 DEF TypeOK, FeedInv, CursorInv, CursorOf, Sending
    <3>2. pkts[s] \in Seq(Packet) /\ pkts[s] # <<>> /\ lastidx[s] \in Nat
      BY <3>1 DEF TypeOK
    <3>3. \A i \in 1..Len(pkts[s]) : pkts[s][i].src = r /\ pkts[s][i].idx \in 1..gcidx[r]
      <4> SUFFICES ASSUME NEW i \in 1..Len(pkts[s])
                   PROVE  pkts[s][i].src = r /\ pkts[s][i].idx \in 1..gcidx[r]
        OBVIOUS
      <4>1. /\ pkts[s][i].src = r /\ pkts[s][i].idx = lastidx[s] - Len(pkts[s]) + i
            /\ Len(pkts[s]) <= lastidx[s]
        BY <3>1 DEF RunOf
      <4>2. Len(pkts[s]) \in Nat /\ gcidx[r] \in Nat
        BY <2>2, <3>1, <3>2
      <4>3. lastidx[s] - Len(pkts[s]) + i \in 1..gcidx[r]
        BY <3>1, <3>2, <4>1, <4>2
      <4> QED
        BY <4>1, <4>3
    <3>4. Len(pkts[s]) \in Nat \ {0} /\ Head(pkts[s]) = pkts[s][1]
      BY <3>2, EmptySeq
    <3>5. BatchHdrs(s)
      BY <3>1 DEF PlayerOf
    <3> HIDE DEF r
    <3>6. \A i \in 1..Len(pkts[s]) :
             /\ Governed(pkts[s][i], keys'[r]) <=> Governed(pkts[s][i], keys[r])
             /\ HdrsOf(pkts[s][i], keys'[r]) <=> HdrsOf(pkts[s][i], keys[r])
             /\ SameGov(pkts[s][i], gcpkts[r]) => SameGov(pkts[s][i], gcpkts'[r])
      <4> SUFFICES ASSUME NEW i \in 1..Len(pkts[s])
                   PROVE  /\ Governed(pkts[s][i], keys'[r]) <=> Governed(pkts[s][i], keys[r])
                          /\ HdrsOf(pkts[s][i], keys'[r]) <=> HdrsOf(pkts[s][i], keys[r])
                          /\ SameGov(pkts[s][i], gcpkts[r]) => SameGov(pkts[s][i], gcpkts'[r])
        OBVIOUS
      <4> DEFINE y == pkts[s][i]
      <4>1. y.idx \in 1..gcidx[r]
        BY <3>3
      <4> HIDE DEF y
      <4>2. /\ Governed(y, keys'[r]) <=> Governed(y, keys[r])
            /\ HdrsOf(y, keys'[r]) <=> HdrsOf(y, keys[r])
            /\ SameGov(y, gcpkts[r]) => SameGov(y, gcpkts'[r])
        BY <1>2, <3>1, <4>1, HeldFrame DEF FeedInv
      <4> QED
        BY <4>2 DEF y
    <3>7. 1 \in 1..Len(pkts[s])
      BY <3>4
    <3>8. Governed(Head(pkts[s]), keys'[r]) <=> Governed(Head(pkts[s]), keys[r])
      BY <3>4, <3>6, <3>7
    <3> QED
      BY <3>5, <3>6, <3>8 DEF BatchHdrs, r
  <2>8. phdr'[s] = split'[s]
    BY DEF PlayerOf
  <2> QED
    BY <2>5, <2>6, <2>7, <2>8 DEF PlayerOf
<1> QED
  BY <1>1, <1>2

\* A batch that TakeSnapshot leaves to be written has the headers it needs, and
\* goes on where the player is.
LEMMA TakeSnapshotHdrs ==
    ASSUME TypeOK, FeedInv, HdrInv, NEW s \in Subs, TakeSnapshot(s)
    PROVE  PlayerOf(s)'
<1> DEFINE p == lastsp[s]
           adv == Advance(lastidx[s], gcpkts[p], gcidx[p])
<1>1. p \in Pubs /\ lastidx[s] \in Nat /\ lastidx[s] <= gcidx[p] /\ gcidx[p] \in Nat /\ spc[s] = "snap"
  BY DEF TypeOK, FeedInv, CursorInv, CursorOf, TakeSnapshot
<1>2. /\ pkts'[s] = IF gcidx[p] = 0 THEN <<>> ELSE adv
      /\ spc'[s] = IF pkts'[s] = <<>> THEN "wait" ELSE "write"
      /\ UNCHANGED <<lastsp, plast, gcpkts, gcidx, keys, split, phdr>>
  BY DEF TakeSnapshot, pubvars, TypeOK
<1>3. PlayerOf(s) /\ CacheHdrs(p)
  BY <1>1 DEF HdrInv
<1>4. phdr'[s] = split'[s] /\ LastSent(s)' /\ InForce(s)'
  BY <1>1, <1>2, <1>3 DEF PlayerOf, LastSent, InForce
<1>5. CASE spc'[s] # "write"
  BY <1>4, <1>5 DEF PlayerOf
<1>6. CASE spc'[s] = "write"
  <2>1. gcidx[p] # 0 /\ pkts'[s] = adv /\ adv # <<>>
    BY <1>2, <1>6
  <2>2. /\ adv \in Seq(Packet)
        /\ \A i \in 1..Len(adv) :
              HdrsOf(adv[i], keys[p]) /\ SameGov(adv[i], gcpkts[p]) /\ adv[i].src = p
        /\ GovChain(adv)
        /\ adv[1].idx \in 1..gcidx[p]
        /\ ~adv[1].key /\ adv[1].idx > 1 =>
              \E j \in 1..Len(gcpkts[p]) :
                 gcpkts[p][j].idx = adv[1].idx - 1 /\ gcpkts[p][j].gov = adv[1].gov
    <3> HIDE DEF p, adv
    <3>1. LatestFrom(p, gcpkts[p], gcidx[p], keys[p])
      BY <1>1 DEF FeedInv, CacheInv
    <3>2. adv = Advance(lastidx[s], gcpkts[p], gcidx[p])
      BY DEF p, adv
    <3> QED
      BY <1>1, <1>3, <2>1, <3>1, <3>2, AdvanceHdrs
  <2>3. Len(adv) \in Nat \ {0} /\ Head(adv) = adv[1]
    BY <2>1, <2>2, EmptySeq
  <2>4. \/ spc'[s] = "wait" /\ lastidx'[s] = lastidx[s]
        \/ spc'[s] = "write" /\ Sending(s)'
    BY TakeSnapshotRun DEF FeedInv
  <2>5. lastidx'[s] = gcidx[p]
    BY TakeSnapshotRun DEF FeedInv
  <2>6. /\ RunOf(p, adv, gcidx[p])
        /\ MayFollow(plast[s], p, gcidx[p] - Len(adv) + 1, turn', keys[p])
    BY <1>2, <1>6, <2>1, <2>4, <2>5 DEF Sending
  <2> HIDE DEF adv
  <2>7. adv[1].idx = gcidx[p] - Len(adv) + 1
    BY <2>3, <2>6 DEF RunOf
  <2>8. HdrsOf(adv[1], keys[p]) /\ adv[1].src = p
    BY <2>2, <2>3
  <2>9. ASSUME ~adv[1].key, Governed(adv[1], keys[p])
        PROVE  plast[s].src = p /\ plast[s].idx = adv[1].idx - 1 /\ plast[s].gov = adv[1].gov
    <3>1. adv[1].idx \notin keys[p]
      BY <2>8, <2>9 DEF HdrsOf
    <3>2. adv[1].idx # 1
      BY <1>1, <1>3, <2>9, <3>1 DEF Governed, CacheHdrs
    <3>3. plast[s].src = p /\ adv[1].idx = plast[s].idx + 1
      BY <2>6, <2>7, <3>1, <3>2 DEF MayFollow
    <3>4. plast[s].idx \in 1..gcidx[p] /\ SameGov(plast[s], gcpkts[p])
      BY <1>1, <1>3, <3>3, PubSubAssumption DEF PlayerOf, LastSent
    <3>5. plast[s].idx = adv[1].idx - 1 /\ adv[1].idx > 1
      BY <1>1, <3>3, <3>4
    <3>6. PICK j \in 1..Len(gcpkts[p]) :
             gcpkts[p][j].idx = adv[1].idx - 1 /\ gcpkts[p][j].gov = adv[1].gov
      BY <2>2, <2>9, <3>5
    <3>7. gcpkts[p][j].gov = plast[s].gov
      BY <3>4, <3>5, <3>6 DEF SameGov
    <3> QED
      BY <3>3, <3>5, <3>6, <3>7
  <2>10. BatchHdrs(s)'
    BY <1>2, <2>1, <2>2, <2>3, <2>8, <2>9 DEF BatchHdrs
  <2> QED
    BY <1>4, <2>10 DEF PlayerOf
<1> QED
  BY <1>5, <1>6

\* A packet that is sent decodes under the headers the player has.
LEMMA SendPktDecodes ==
    ASSUME TypeOK, FeedInv, HdrInv, NEW s \in Subs, SendPkt(s)
    PROVE  Decodes(phdr[s], Head(pkts[s]))
<1> DEFINE x == Head(pkts[s])
           p == lastsp[s]
<1>1. /\ spc[s] = "write" /\ ~NeedMeta(s) /\ ~NeedVSeqHdr(s) /\ ~NeedASeqHdr(s)
      /\ pkts[s] \in Seq(Packet) /\ pkts[s] # <<>>
  BY DEF SendPkt, TypeOK
<1>2. Len(pkts[s]) \in Nat \ {0} /\ x = pkts[s][1] /\ x \in Packet
  BY <1>1, EmptySeq
<1>3. p \in Pubs /\ RunOf(p, pkts[s], lastidx[s]) /\ lastidx[s] \in Nat /\ lastidx[s] <= gcidx[p]
      /\ gcidx[p] \in Nat
  BY <1>1 DEF TypeOK, FeedInv, CursorInv, CursorOf, Sending
<1>4. x.src = p /\ x.idx \in Nat
  BY <1>2, <1>3 DEF RunOf, Packet
<1>5. PlayerOf(s) /\ BatchHdrs(s) /\ InForce(s)
  BY <1>1 DEF HdrInv, PlayerOf
<1>6. HdrsOf(x, keys[p])
  BY <1>2, <1>5 DEF BatchHdrs
<1>7. phdr[s] = split[s] /\ split[s].Metadata = x.Metadata
  BY <1>1, <1>5 DEF PlayerOf, NeedMeta
<1>8. x.type = "AAC" => split[s].ASeqHdr = x.ASeqHdr
  BY <1>1 DEF NeedASeqHdr
<1>9. ASSUME x.type = "H264", \E k \in keys[x.src] : k <= x.idx
      PROVE  split[s].VSeqHdr = x.gov
  <2>1. CASE x.key
    BY <1>1, <1>6, <1>9, <2>1 DEF NeedVSeqHdr, HdrsOf
  <2>2. CASE ~x.key
    <3>1. Governed(x, keys[p])
      BY <1>4, <1>9 DEF Governed
    <3>2. plast[s].src = p /\ plast[s].idx = x.idx - 1 /\ plast[s].gov = x.gov
      BY <1>4, <1>5, <2>2, <3>1 DEF BatchHdrs
    <3>3. \A k \in keys[p] : k \in Nat /\ k # x.idx
      BY <1>3, <1>6, <2>2 DEF HdrsOf, TypeOK
    <3>4. Governed(plast[s], keys[p])
      BY <1>4, <3>1, <3>2, <3>3 DEF Governed
    <3>5. split[s].VSeqHdr = plast[s].gov
      BY <1>3, <1>5, <2>2, <3>2, <3>4, PubSubAssumption DEF InForce
    <3> QED
      BY <3>2, <3>5
  <2> QED
    BY <2>1, <2>2
<1> QED
  BY <1>7, <1>8, <1>9 DEF Decodes

\* After it, the player's headers are still in force.
LEMMA SendPktHdrs ==
    ASSUME TypeOK, FeedInv, HdrInv, NEW s \in Subs, SendPkt(s)
    PROVE  PlayerOf(s)'
<1> DEFINE x == Head(pkts[s])
           p == lastsp[s]
           rest == Tail(pkts[s])
<1>1. /\ spc[s] = "write" /\ pkts[s] \in Seq(Packet) /\ pkts[s] # <<>>
      /\ plast'[s] = x /\ pkts'[s] = rest
      /\ spc'[s] = IF Len(pkts[s]) = 1 THEN "load" ELSE "write"
      /\ UNCHANGED <<lastsp, gcpkts, gcidx, keys, split, phdr>>
  BY DEF SendPkt, TypeOK, pubvars
<1>2. Len(pkts[s]) \in Nat \ {0} /\ x = pkts[s][1] /\ x \in Packet
  BY <1>1, EmptySeq
<1>3. p \in Pubs /\ RunOf(p, pkts[s], lastidx[s]) /\ lastidx[s] \in Nat /\ lastidx[s] <= gcidx[p]
      /\ gcidx[p] \in Nat
  BY <1>1 DEF TypeOK, FeedInv, CursorInv, CursorOf, Sending
<1>4. x.src = p /\ x.idx = lastidx[s] - Len(pkts[s]) + 1 /\ Len(pkts[s]) <= lastidx[s]
  BY <1>2, <1>3 DEF RunOf
<1>5. x.idx \in 1..gcidx[p]
  BY <1>2, <1>3, <1>4
<1>6. PlayerOf(s) /\ BatchHdrs(s)
  BY <1>1 DEF HdrInv, PlayerOf
<1>7. phdr'[s] = split'[s]
  BY <1>1, <1>6 DEF PlayerOf
<1>8. HdrsOf(x, keys[p]) /\ SameGov(x, gcpkts[p])
  BY <1>2, <1>6 DEF BatchHdrs
<1>9. LastSent(s)'
  BY <1>1, <1>4, <1>5, <1>8 DEF LastSent
<1>10. ASSUME Governed(x, keys[p]) PROVE InForce(s)'
  <2>1. CASE x.type = "H264"
    <3>1. Decodes(phdr[s], x)
      BY SendPktDecodes
    <3>2. split[s].VSeqHdr = x.gov
      BY <1>4, <1>6, <1>10, <2>1, <3>1 DEF Decodes, PlayerOf, Governed
    <3> QED
      BY <1>1, <3>2 DEF InForce
  <2>2. CASE x.type # "H264"
    <3>1. ~x.key
      BY <1>8, <2>2 DEF HdrsOf
    <3>2. plast[s].src = p /\ plast[s].idx = x.idx - 1 /\ plast[s].gov = x.gov
      BY <1>4, <1>6, <1>10, <3>1 DEF BatchHdrs
    <3>3. \A k \in keys[p] : k \in Nat /\ k # x.idx
      BY <1>3, <1>8, <3>1 DEF HdrsOf, TypeOK
    <3>4. Governed(plast[s], keys[p])
      BY <1>3, <1>5, <1>10, <3>2, <3>3 DEF Governed
    <3>5. split[s].VSeqHdr = plast[s].gov
      BY <1>1, <1>3, <1>6, <3>1, <3>2, <3>4, PubSubAssumption DEF InForce, PlayerOf
    <3> QED
      BY <1>1, <3>2, <3>5 DEF InForce
  <2> QED
    BY <2>1, <2>2
<1>11. InForce(s)'
  <2>1. CASE Governed(x, keys[p])
    BY <1>10, <2>1
  <2>2. CASE ~Governed(x, keys[p])
    BY <1>1, <1>4, <2>2 DEF InForce
  <2> QED
    BY <2>1, <2>2
<1>12. ASSUME spc'[s] = "write" PROVE BatchHdrs(s)'
  <2>1. /\ Len(rest) = Len(pkts[s]) - 1 /\ rest \in Seq(Packet)
        /\ \A i \in 1..Len(rest) : rest[i] = pkts[s][i + 1]
    BY <1>1, HeadTailProperties
  <2>2. Len(pkts[s]) # 1
    BY <1>1, <1>12
  <2>3. Len(rest) \in Nat \ {0} /\ Head(rest) = pkts[s][2] /\ 2 \in 1..Len(pkts[s])
    <3>1. Len(rest) \in Nat \ {0}
      BY <1>2, <2>1, <2>2
    <3>2. Head(rest) = rest[1] /\ 1 \in 1..Len(rest)
      <4>1. rest # <<>>
        BY <2>2, <1>1, TailType
      <4> HIDE DEF rest
      <4> QED
        BY <2>1, <3>1, <4>1
    <3>3. 2 \in 1..Len(pkts[s])
      <4> DEFINE k == Len(pkts[s])
      <4>1. k \in Nat \ {0} /\ k # 1
        BY <1>2, <2>2
      <4> HIDE DEF k
      <4>2. 2 \in 1..k
        BY <4>1
      <4> QED
        BY <4>2 DEF k
    <3>4. rest[1] = pkts[s][1 + 1]
      BY <2>1, <3>2
    <3>5. 1 + 1 = 2
      OBVIOUS
    <3> QED
      BY <3>1, <3>2, <3>3, <3>4, <3>5
  <2> DEFINE y == pkts[s][2]
             n == Len(pkts[s])
  <2>4. \A i \in 1..Len(rest) : i + 1 \in 1..n
    BY <1>2, <2>1
  <2>5. \A i \in 1..Len(rest) : HdrsOf(rest[i], keys[p]) /\ SameGov(rest[i], gcpkts[p])
    BY <1>6, <2>1, <2>4 DEF BatchHdrs
  <2>6. GovChain(pkts[s])
    BY <1>6 DEF BatchHdrs
  <2>7. GovChain(rest)
    <3> SUFFICES ASSUME NEW i \in 1..Len(rest) - 1, ~rest[i + 1].key
                 PROVE  rest[i + 1].gov = rest[i].gov
      BY DEF GovChain
    <3>1. i \in 1..Len(rest) /\ i + 1 \in 1..Len(rest) /\ i + 1 \in 1..n - 1
      BY <1>2, <2>1
    <3>2. rest[i] = pkts[s][i + 1] /\ rest[i + 1] = pkts[s][(i + 1) + 1]
      BY <2>1, <3>1
    <3> QED
      BY <2>6, <3>1, <3>2 DEF GovChain
  <2>8. y.src = p /\ y.idx = lastidx[s] - Len(pkts[s]) + 2
    BY <1>3, <2>3 DEF RunOf
  <2>9. x.idx = y.idx - 1
    BY <1>2, <1>3, <1>4, <2>8
  <2>10. ~y.key => x.gov = y.gov
    <3>1. 1 \in 1..Len(pkts[s]) - 1 /\ 1 + 1 = 2
      BY <1>2, <2>3
    <3>2. ~pkts[s][1 + 1].key => pkts[s][1 + 1].gov = pkts[s][1].gov
      BY <2>6, <3>1 DEF GovChain
    <3> QED
      BY <1>2, <3>1, <3>2
  <2>11. /\ pkts'[s] = rest /\ plast'[s] = x /\ keys'[lastsp'[s]] = keys[p]
         /\ gcpkts'[lastsp'[s]] = gcpkts[p] /\ Head(pkts'[s]) = y
    BY <1>1, <2>3
  <2> HIDE DEF x, y, rest, p
  <2> QED
    BY <1>4, <2>5, <2>7, <2>8, <2>9, <2>10, <2>11 DEF BatchHdrs
<1> QED
  BY <1>7, <1>9, <1>11, <1>12 DEF PlayerOf

\* Sending a header gives it to the player and remembers it; the video sequence
\* header is sent before a key frame only.
LEMMA SendHdr ==
    ASSUME TypeOK, NEW s \in Subs, PlayerOf(s), SendMeta(s) \/ SendVSeqHdr(s) \/ SendASeqHdr(s)
    PROVE  PlayerOf(s)'
<1>1. /\ UNCHANGED <<lastsp, pkts, plast, spc, gcpkts, gcidx, keys>>
      /\ spc[s] = "write"
  BY DEF SendMeta, SendVSeqHdr, SendASeqHdr, pubvars
<1>2. phdr[s] = split[s] /\ split[s] \in HdrPkt
  BY DEF PlayerOf, TypeOK
<1>3. \A d : /\ WithMeta(split[s], d).VSeqHdr = split[s].VSeqHdr
             /\ WithASeqHdr(split[s], d).VSeqHdr = split[s].VSeqHdr
  BY <1>2 DEF WithMeta, WithASeqHdr, HdrPkt
<1>4. /\ phdr'[s] = split'[s]
      /\ split'[s].VSeqHdr = split[s].VSeqHdr \/ Head(pkts[s]).key
  <2>1. CASE SendMeta(s)
    <3>1. /\ split'[s] = WithMeta(split[s], Head(pkts[s]).Metadata)
          /\ phdr'[s] = WithMeta(phdr[s], Head(pkts[s]).Metadata)
      BY <2>1 DEF SendMeta, TypeOK
    <3> QED
      BY <1>2, <1>3, <3>1
  <2>2. CASE SendVSeqHdr(s)
    BY <1>2, <2>2 DEF SendVSeqHdr, NeedVSeqHdr, TypeOK
  <2>3. CASE SendASeqHdr(s)
    <3>1. /\ split'[s] = WithASeqHdr(split[s], Head(pkts[s]).ASeqHdr)
          /\ phdr'[s] = WithASeqHdr(phdr[s], Head(pkts[s]).ASeqHdr)
      BY <2>3 DEF SendASeqHdr, TypeOK
    <3> QED
      BY <1>2, <1>3, <3>1
  <2> QED
    BY <2>1, <2>2, <2>3
<1> QED
  BY <1>1, <1>4 DEF PlayerOf, LastSent, InForce, BatchHdrs

LEMMA NextCacheHdrs == TypeOK /\ CacheInv /\ HdrInv /\ [Next]_vars => \A p \in Pubs : CacheHdrs(p)'
<1> SUFFICES ASSUME TypeOK, CacheInv, HdrInv, [Next]_vars, NEW q \in Pubs PROVE CacheHdrs(q)'
  OBVIOUS
<1>0. CacheHdrs(q)
  BY DEF HdrInv
<1>1. ASSUME NEW p \in Pubs, NEW m \in Media, ReadMedia(p, m) PROVE CacheHdrs(q)'
  <2>1. CASE q = p
    BY <1>0, <1>1, <2>1, ReadMediaHdrs
  <2>2. CASE q # p
    <3>1. gcpkts'[q] = gcpkts[q] /\ gcidx'[q] = gcidx[q] /\ keys'[q] = keys[q]
      BY <1>1, <2>2 DEF ReadMedia, Put, TypeOK
    <3> QED
      BY <1>0, <3>1 DEF CacheHdrs
  <2> QED
    BY <2>1, <2>2
<1>2. ASSUME UNCHANGED <<gcpkts, gcidx, keys>> PROVE CacheHdrs(q)'
  BY <1>0, <1>2 DEF CacheHdrs
<1>3. ASSUME NEW p \in Pubs, PubStep(p) \/ PubInput(p) PROVE CacheHdrs(q)'
  BY <1>1, <1>2, <1>3
     DEF PubStep, PubInput, SetPub, CancelOld, CheckDone, NotifySub, NotifyDone, NotifyOne, ReadErr,
         ReadHdr
<1>4. ASSUME NEW s \in Subs, SubStep(s) \/ Leave(s) \/ AddSub(s) \/ PeerClose(s)
      PROVE  CacheHdrs(q)'
  BY <1>2, <1>4
     DEF SubStep, LoadPub, TakeSnapshot, Wake, SubWrite, SendMeta, SendVSeqHdr, SendASeqHdr,
         SendPkt, Leave, AddSub, PeerClose, pubvars
<1>5. CASE UNCHANGED vars
  BY <1>2, <1>5 DEF vars, pubvars
<1> QED
  BY <1>3, <1>4, <1>5 DEF Next, SubInput, Closed, WriteFail, Finished

LEMMA NextPlayer ==
    TypeOK /\ FeedInv /\ HdrInv /\ [Next]_vars => \A s \in Subs : PlayerOf(s)'
<1> SUFFICES ASSUME TypeOK, FeedInv, HdrInv, [Next]_vars, NEW t \in Subs PROVE PlayerOf(t)'
  OBVIOUS
<1>0. PlayerOf(t)
  BY DEF HdrInv
<1> DEFINE Same == UNCHANGED <<lastsp[t], pkts[t], plast[t], split[t], phdr[t]>>
           Idling == \/ spc'[t] = spc[t]
                     \/ spc[t] # "write" /\ spc[t] # "done" /\ spc'[t] # "write"
           Cache == UNCHANGED <<gcpkts, gcidx, keys>>
<1>1. ASSUME NEW p \in Pubs, PubStep(p) \/ PubInput(p) PROVE PlayerOf(t)'
  <2>1. Same /\ Idling
    BY <1>1 DEF PubStep, PubInput, SetPub, CancelOld, CheckDone, NotifySub, NotifyDone, NotifyOne,
                ReadErr, ReadHdr, ReadMedia, subvars
  <2>2. Cache \/ \E m \in Media : ReadMedia(p, m)
    BY <1>1 DEF PubStep, PubInput, SetPub, CancelOld, CheckDone, NotifySub, NotifyDone, NotifyOne,
                ReadErr, ReadHdr
  <2> QED
    BY <1>0, <2>1, <2>2, PlayerFrame
<1>2. ASSUME NEW s \in Subs, LoadPub(s) \/ Closed(s) \/ WriteFail(s) PROVE PlayerOf(t)'
  <2>1. Cache /\ spc[s] # "done"
    BY <1>2 DEF LoadPub, Closed, WriteFail, Leave, pubvars
  <2>2. CASE s = t
    <3>1. /\ UNCHANGED <<plast[t], split[t], phdr[t]>>
          /\ spc'[t] # "write"
          /\ spc'[t] # "done" => spc[t] # "done" /\ spc[t] # "write"
      BY <1>2, <2>2 DEF LoadPub, Closed, WriteFail, Leave, TypeOK
    <3> QED
      BY <1>0, <2>1, <3>1 DEF PlayerOf, LastSent, InForce
  <2>3. CASE s # t
    <3>1. Same /\ Idling
      BY <1>2, <2>1, <2>3 DEF LoadPub, Closed, WriteFail, Leave, TypeOK
    <3> QED
      BY <1>0, <2>1, <3>1, PlayerFrame
  <2> QED
    BY <2>2, <2>3
<1>3. ASSUME NEW s \in Subs, TakeSnapshot(s) PROVE PlayerOf(t)'
  <2>1. CASE s = t
    BY <1>3, <2>1, TakeSnapshotHdrs
  <2>2. CASE s # t
    <3>1. Same /\ Idling /\ Cache
      BY <1>3, <2>2 DEF TakeSnapshot, pubvars, TypeOK
    <3> QED
      BY <1>0, <3>1, PlayerFrame
  <2> QED
    BY <2>1, <2>2
<1>4. ASSUME NEW s \in Subs, SubWrite(s) PROVE PlayerOf(t)'
  <2>1. CASE s = t
    BY <1>0, <1>4, <2>1, SendPktHdrs, SendHdr DEF SubWrite
  <2>2. CASE s # t
    <3>1. Same /\ Idling /\ Cache
      BY <1>4, <2>2 DEF SubWrite, SendMeta, SendVSeqHdr, SendASeqHdr, SendPkt, pubvars, TypeOK
    <3> QED
      BY <1>0, <3>1, PlayerFrame
  <2> QED
    BY <2>1, <2>2
<1>5. ASSUME NEW s \in Subs, Wake(s) \/ AddSub(s) \/ PeerClose(s) PROVE PlayerOf(t)'
  <2>1. Same /\ Cache
    BY <1>5 DEF Wake, AddSub, PeerClose, pubvars
  <2>2. Idling
    BY <1>5 DEF Wake, AddSub, PeerClose, TypeOK
  <2> QED
    BY <1>0, <2>1, <2>2, PlayerFrame
<1>6. CASE UNCHANGED vars
  <2>1. Same /\ Idling /\ Cache
    BY <1>6 DEF vars, pubvars, subvars
  <2> QED
    BY <1>0, <2>1, PlayerFrame
<1> QED
  BY <1>1, <1>2, <1>3, <1>4, <1>5, <1>6 DEF Next, SubStep, SubInput, Finished

\* A packet that a player is sent last was written by SendPkt.
LEMMA StepDecodes ==
    TypeOK /\ FeedInv /\ HdrInv /\ [Next]_vars =>
        \A s \in Subs : plast'[s] # plast[s] => Decodes(phdr[s], plast'[s])
<1> SUFFICES ASSUME TypeOK, FeedInv, HdrInv, [Next]_vars, NEW t \in Subs, plast'[t] # plast[t]
             PROVE  Decodes(phdr[t], plast'[t])
  OBVIOUS
<1>1. plast' = plast \/ \E s \in Subs : SendPkt(s)
  BY DEF Next, PubStep, PubInput, SubStep, SubWrite, SubInput, SetPub, CancelOld, CheckDone,
         NotifySub, NotifyDone, NotifyOne, ReadErr, ReadHdr, ReadMedia, AddSub, LoadPub,
         TakeSnapshot, Wake, Leave, Closed, WriteFail, SendMeta, SendVSeqHdr, SendASeqHdr,
         PeerClose, Finished, vars, pubvars, subvars
<1>2. PICK s \in Subs : SendPkt(s)
  BY <1>1
<1>3. s = t /\ plast'[t] = Head(pkts[t])
  BY <1>2 DEF SendPkt, TypeOK
<1> QED
  BY <1>2, <1>3, SendPktDecodes

\* Whatever batches, skipped GOPs, header changes and publisher switches lie
\* before it, a packet reaches a player that has the headers it decodes under.
THEOREM HeadersInForce == Spec => ConfigInForce
<1>1. TypeOK /\ FeedInv /\ [Next]_vars => FeedInv'
  BY NextType, NextTurn, NextCache, NextCursor DEF FeedInv
<1>2. TypeOK /\ FeedInv /\ HdrInv /\ [Next]_vars => HdrInv'
  BY NextCacheHdrs, NextPlayer DEF HdrInv, FeedInv
<1>3. TypeOK /\ FeedInv /\ HdrInv /\ [Next]_vars =>
        [\A s \in Subs : plast'[s] # plast[s] => Decodes(phdr[s], plast'[s])]_vars
  BY StepDecodes
<1> QED
  BY InitType, InitFeed, InitHdr, NextType, <1>1, <1>2, <1>3, PTL DEF Spec, ConfigInForce
=============================================================================
