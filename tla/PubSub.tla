------------------------------- MODULE PubSub -------------------------------
(***************************************************************************)
(* One `stream` object of the pub/sub server (cmd/avtool/pubsub.go): the   *)
(* goroutines of its publishers (setPub) and of its subscribers (addSub),  *)
(* which share                                                             *)
(*   - the atomic pointer stream.pub (the current publisher),              *)
(*   - every publisher's gopCache, read through an atomic snapshot, and    *)
(*   - the sync.Map stream.sub of subscribers with their notify channels.  *)
(*                                                                         *)
(* A member of Pubs or Subs is one call of setPub or addSub.  Each action  *)
(* is the code between two operations on shared state.  Packets carry, of  *)
(* their payload, the sequence headers and the metadata that mergeSeqhdr   *)
(* attaches; src, idx and gov are bookkeeping of the model (who published  *)
(* the packet, as which number, under which video sequence header).        *)
(***************************************************************************)
EXTENDS Integers, Sequences

CONSTANTS Pubs,      \* calls of setPub
          Subs,      \* calls of addSub
          Nil,       \* a nil *streamPub
          Hdrs,      \* contents of sequence headers and of metadata
          None,      \* a nil []byte
          Media,     \* the kinds of media packets publishers send
          MaxReads   \* packets read from all publishers (bound of the model)

MediaKind == [type : {"H264"}, key : BOOLEAN] \union [type : {"AAC"}, key : {FALSE}]

HdrType == {"H264DecoderConfig", "AACDecoderConfig", "Metadata"}

ASSUME PubSubAssumption ==
    /\ Nil \notin Pubs
    /\ None \notin Hdrs
    /\ Media \subseteq MediaKind
    /\ MaxReads \in Nat

VARIABLES
    pub,        \* stream.pub
    sub,        \* the keys of stream.sub
    (* per publisher *)
    ppc,        \* where setPub is
    oldsp,      \* its local oldsp
    cancelled,  \* its context is cancelled
    gcpkts,     \* gopCache.pkts
    gcidx,      \* gopCache.idx; curst is nil iff it is 0
    merge,      \* mergeSeqhdr.hdrpkt
    visit,      \* the subscribers its running sub.Range has yet to visit
    (* per subscriber *)
    spc,        \* where addSub is
    lastsp,     \* its local lastsp
    lastidx,    \* its cursor's lastidx
    pkts,       \* what is left of its local pkts
    notify,     \* its notify channel (capacity 1) holds a token
    split,      \* splitSeqhdr.hdrpkt
    closed,     \* its close channel holds a token: the peer is gone
    (* what the peers see, and history *)
    reads,      \* packets read so far
    phdr,       \* the headers and metadata each subscriber's player was sent last
    plast,      \* the media packet it was sent last
    turn,       \* the order in which publishers took the stream over
    keys,       \* the numbers of each publisher's key frames
    late        \* packets read from a publisher after its cancellation

pubvars == <<ppc, oldsp, cancelled, gcpkts, gcidx, merge, visit, reads, turn, keys, late>>
subvars == <<spc, lastsp, lastidx, pkts, notify, split, closed, phdr, plast>>
vars == <<pub, sub, pubvars, subvars>>

Hdr == Hdrs \union {None}
HdrPkt == [VSeqHdr : Hdr, ASeqHdr : Hdr, Metadata : Hdr]
NoHdr == [VSeqHdr |-> None, ASeqHdr |-> None, Metadata |-> None]

WithVSeqHdr(hdr, data) == [hdr EXCEPT !.VSeqHdr = data]
WithASeqHdr(hdr, data) == [hdr EXCEPT !.ASeqHdr = data]
WithMeta(hdr, data) == [hdr EXCEPT !.Metadata = data]

Packet == [type : {"H264", "AAC"}, key : BOOLEAN,
           VSeqHdr : Hdr, ASeqHdr : Hdr, Metadata : Hdr,
           src : Pubs, idx : Nat, gov : Hdr]

NoPacket == [type |-> "none", key |-> FALSE,
             VSeqHdr |-> None, ASeqHdr |-> None, Metadata |-> None,
             src |-> Nil, idx |-> 0, gov |-> None]

Init ==
    /\ pub = Nil
    /\ sub = {}
    /\ ppc = [p \in Pubs |-> "idle"]
    /\ oldsp = [p \in Pubs |-> Nil]
    /\ cancelled = [p \in Pubs |-> FALSE]
    /\ gcpkts = [p \in Pubs |-> <<>>]
    /\ gcidx = [p \in Pubs |-> 0]
    /\ merge = [p \in Pubs |-> NoHdr]
    /\ visit = [p \in Pubs |-> {}]
    /\ reads = 0
    /\ turn = [p \in Pubs |-> 0]
    /\ keys = [p \in Pubs |-> {}]
    /\ late = [p \in Pubs |-> 0]
    /\ spc = [s \in Subs |-> "idle"]
    /\ lastsp = [s \in Subs |-> Nil]
    /\ lastidx = [s \in Subs |-> 0]
    /\ pkts = [s \in Subs |-> <<>>]
    /\ notify = [s \in Subs |-> FALSE]
    /\ split = [s \in Subs |-> NoHdr]
    /\ closed = [s \in Subs |-> FALSE]
    /\ phdr = [s \in Subs |-> NoHdr]
    /\ plast = [s \in Subs |-> NoPacket]

-----------------------------------------------------------------------------
(* setPub                                                                  *)

\* Deviation: the old publisher is cancelled without a nil check.
SetPubNoNilCheck(p) ==
    /\ ppc[p] = "idle"
    /\ oldsp' = [oldsp EXCEPT ![p] = pub]
    /\ pub' = p
    /\ turn' = [turn EXCEPT ![p] = IF pub = Nil THEN 1 ELSE turn[pub] + 1]
    /\ ppc' = [ppc EXCEPT ![p] = "cancelold"]
    /\ UNCHANGED <<sub, cancelled, gcpkts, gcidx, merge, visit, reads, keys, late, subvars>>

\* The swap of stream.pub.  The previous publisher is cancelled by the next
\* step only: until then two publishers believe they own the stream.
SetPub(p) ==
    /\ ppc[p] = "idle"
    /\ oldsp' = [oldsp EXCEPT ![p] = pub]
    /\ pub' = p
    /\ turn' = [turn EXCEPT ![p] = IF pub = Nil THEN 1 ELSE turn[pub] + 1]
    /\ ppc' = [ppc EXCEPT ![p] = IF pub # Nil THEN "cancelold" ELSE "check"]
    /\ UNCHANGED <<sub, cancelled, gcpkts, gcidx, merge, visit, reads, keys, late, subvars>>

\* oldsp.cancel(); the local oldsp is not used again.
CancelOld(p) ==
    /\ ppc[p] = "cancelold"
    /\ cancelled' = [cancelled EXCEPT ![oldsp[p]] = TRUE]
    /\ oldsp' = [oldsp EXCEPT ![p] = Nil]
    /\ ppc' = [ppc EXCEPT ![p] = "check"]
    /\ UNCHANGED <<pub, sub, gcpkts, gcidx, merge, visit, reads, turn, keys, late, subvars>>

\* Deviation: the loop never looks at its context.
CheckDoneNever(p) ==
    /\ ppc[p] = "check"
    /\ ppc' = [ppc EXCEPT ![p] = "read"]
    /\ UNCHANGED <<pub, sub, oldsp, cancelled, gcpkts, gcidx, merge, visit, reads, turn, keys,
                   late, subvars>>

\* The select on ctx.Done() at the head of the loop.
CheckDone(p) ==
    /\ ppc[p] = "check"
    /\ ppc' = [ppc EXCEPT ![p] = IF cancelled[p] THEN "done" ELSE "read"]
    /\ UNCHANGED <<pub, sub, oldsp, cancelled, gcpkts, gcidx, merge, visit, reads, turn, keys,
                   late, subvars>>

\* r.ReadPacket() fails: setPub returns and its deferred cancel runs.
ReadErr(p) ==
    /\ ppc[p] = "read"
    /\ ppc' = [ppc EXCEPT ![p] = "done"]
    /\ cancelled' = [cancelled EXCEPT ![p] = TRUE]
    /\ UNCHANGED <<pub, sub, oldsp, gcpkts, gcidx, merge, visit, reads, turn, keys, late, subvars>>

\* A ReadPacket that succeeds: what both kinds of packets have in common.
ReadPacket(p) ==
    /\ ppc[p] = "read"
    /\ reads < MaxReads
    /\ reads' = reads + 1
    /\ late' = [late EXCEPT ![p] = IF cancelled[p] THEN @ + 1 ELSE @]

\* mergeSeqhdr.do on a sequence header or metadata: remembered, not cached.
MergeHdr(p, type, data) ==
    merge' = [merge EXCEPT ![p] = IF type = "H264DecoderConfig" THEN WithVSeqHdr(@, data)
                                  ELSE IF type = "AACDecoderConfig" THEN WithASeqHdr(@, data)
                                  ELSE WithMeta(@, data)]

ReadHdr(p, type, data) ==
    /\ ReadPacket(p)
    /\ MergeHdr(p, type, data)
    /\ ppc' = [ppc EXCEPT ![p] = "check"]
    /\ UNCHANGED <<pub, sub, oldsp, cancelled, gcpkts, gcidx, visit, turn, keys, subvars>>

\* The video sequence header under which the last cached packet of p decodes.
Governing(p) == IF gcpkts[p] = <<>> THEN None ELSE gcpkts[p][Len(gcpkts[p])].gov

\* mergeSeqhdr.do on a media packet: what it attaches to it.
Merged(p, m) ==
    [type |-> m.type, key |-> m.key,
     VSeqHdr |-> IF m.type = "H264" /\ m.key THEN merge[p].VSeqHdr ELSE None,
     ASeqHdr |-> IF m.type = "AAC" THEN merge[p].ASeqHdr ELSE None,
     Metadata |-> merge[p].Metadata,
     src |-> p, idx |-> gcidx[p] + 1,
     gov |-> IF m.key THEN merge[p].VSeqHdr ELSE Governing(p)]

\* gopCache.put: a key frame starts a new slice; the snapshot is published by
\* one atomic store.
Put(p, pkt) ==
    /\ gcpkts' = [gcpkts EXCEPT ![p] = Append(IF pkt.key THEN <<>> ELSE @, pkt)]
    /\ gcidx' = [gcidx EXCEPT ![p] = @ + 1]

\* A media packet is read, merged and put in the cache; notifySub comes next.
ReadMedia(p, m) ==
    /\ ReadPacket(p)
    /\ Put(p, Merged(p, m))
    /\ keys' = [keys EXCEPT ![p] = IF m.key THEN @ \union {gcidx[p] + 1} ELSE @]
    /\ ppc' = [ppc EXCEPT ![p] = "put"]
    /\ UNCHANGED <<pub, sub, oldsp, cancelled, merge, visit, turn, subvars>>

\* notifySub: sub.Range visits at least the keys present when it starts.
NotifySub(p) ==
    /\ ppc[p] = "put"
    /\ visit' = [visit EXCEPT ![p] = sub]
    /\ ppc' = [ppc EXCEPT ![p] = "notify"]
    /\ UNCHANGED <<pub, sub, oldsp, cancelled, gcpkts, gcidx, merge, reads, turn, keys, late,
                   subvars>>

\* Deviation: a channel without a buffer reaches sleeping subscribers only.
NotifyOneUnbuffered(p, s) ==
    /\ ppc[p] = "notify"
    /\ s \in visit[p]
    /\ notify' = [notify EXCEPT ![s] = @ \/ spc[s] = "wait"]
    /\ visit' = [visit EXCEPT ![p] = @ \ {s}]
    /\ UNCHANGED <<pub, sub, ppc, oldsp, cancelled, gcpkts, gcidx, merge, reads, turn, keys, late,
                   spc, lastsp, lastidx, pkts, split, closed, phdr, plast>>

\* Deviation: the callback returns false, which ends the Range.
NotifyOneFirst(p, s) ==
    /\ ppc[p] = "notify"
    /\ s \in visit[p]
    /\ notify' = [notify EXCEPT ![s] = TRUE]
    /\ visit' = [visit EXCEPT ![p] = {}]
    /\ UNCHANGED <<pub, sub, ppc, oldsp, cancelled, gcpkts, gcidx, merge, reads, turn, keys, late,
                   spc, lastsp, lastidx, pkts, split, closed, phdr, plast>>

\* The callback of Range: a send that does nothing when the channel is full.
NotifyOne(p, s) ==
    /\ ppc[p] = "notify"
    /\ s \in visit[p]
    /\ notify' = [notify EXCEPT ![s] = TRUE]
    /\ visit' = [visit EXCEPT ![p] = @ \ {s}]
    /\ UNCHANGED <<pub, sub, ppc, oldsp, cancelled, gcpkts, gcidx, merge, reads, turn, keys, late,
                   spc, lastsp, lastidx, pkts, split, closed, phdr, plast>>

NotifyDone(p) ==
    /\ ppc[p] = "notify"
    /\ visit[p] = {}
    /\ ppc' = [ppc EXCEPT ![p] = "check"]
    /\ UNCHANGED <<pub, sub, oldsp, cancelled, gcpkts, gcidx, merge, visit, reads, turn, keys,
                   late, subvars>>

-----------------------------------------------------------------------------
(* addSub                                                                  *)

\* sub.Store.  A Range that is already running may or may not visit the key.
AddSub(s) ==
    /\ spc[s] = "idle"
    /\ sub' = sub \union {s}
    /\ \E R \in SUBSET {p \in Pubs : ppc[p] = "notify"} :
          visit' = [p \in Pubs |-> IF p \in R THEN visit[p] \union {s} ELSE visit[p]]
    /\ spc' = [spc EXCEPT ![s] = "load"]
    /\ UNCHANGED <<pub, ppc, oldsp, cancelled, gcpkts, gcidx, merge, reads, turn, keys, late,
                   lastsp, lastidx, pkts, notify, split, closed, phdr, plast>>

\* The head of the loop: load stream.pub, and a new cursor for a new publisher.
LoadPub(s) ==
    /\ spc[s] = "load"
    /\ lastsp' = [lastsp EXCEPT ![s] = pub]
    /\ lastidx' = [lastidx EXCEPT ![s] = IF pub # lastsp[s] THEN 0 ELSE @]
    /\ spc' = [spc EXCEPT ![s] = IF pub # Nil THEN "snap" ELSE "wait"]
    /\ UNCHANGED <<pub, sub, pubvars, pkts, notify, split, closed, phdr, plast>>

\* Deviation: the cursor is ignored.
AdvanceWhole(last, cpkts, cidx) == cpkts

\* Deviation: a subscriber that fell behind is sent the latest packet only.
AdvanceLatest(last, cpkts, cidx) ==
    LET diff == cidx - last
    IN  IF diff <= Len(cpkts) THEN SubSeq(cpkts, Len(cpkts) - diff + 1, Len(cpkts))
        ELSE <<cpkts[Len(cpkts)]>>

\* gopCacheReadCursor.advance: the packets the cursor has not seen, or the
\* whole cache when it fell behind by more than the cache holds.
Advance(last, cpkts, cidx) ==
    LET diff == cidx - last
    IN  IF diff <= Len(cpkts) THEN SubSeq(cpkts, Len(cpkts) - diff + 1, Len(cpkts))
        ELSE cpkts

\* Deviation: the channel is drained before going to sleep.
TakeSnapshotDrains(s) ==
    LET p == lastsp[s]
        new == IF gcidx[p] = 0 THEN <<>> ELSE Advance(lastidx[s], gcpkts[p], gcidx[p])
    IN  /\ spc[s] = "snap"
        /\ pkts' = [pkts EXCEPT ![s] = new]
        /\ lastidx' = [lastidx EXCEPT ![s] = IF gcidx[p] = 0 THEN @ ELSE gcidx[p]]
        /\ spc' = [spc EXCEPT ![s] = IF new = <<>> THEN "wait" ELSE "write"]
        /\ notify' = [notify EXCEPT ![s] = IF new = <<>> THEN FALSE ELSE @]
        /\ UNCHANGED <<pub, sub, pubvars, lastsp, split, closed, phdr, plast>>

\* curSnapshot and advance; with nothing new the subscriber goes to sleep.
TakeSnapshot(s) ==
    LET p == lastsp[s]
        new == IF gcidx[p] = 0 THEN <<>> ELSE Advance(lastidx[s], gcpkts[p], gcidx[p])
    IN  /\ spc[s] = "snap"
        /\ pkts' = [pkts EXCEPT ![s] = new]
        /\ lastidx' = [lastidx EXCEPT ![s] = IF gcidx[p] = 0 THEN @ ELSE gcidx[p]]
        /\ spc' = [spc EXCEPT ![s] = IF new = <<>> THEN "wait" ELSE "write"]
        /\ UNCHANGED <<pub, sub, pubvars, lastsp, notify, split, closed, phdr, plast>>

\* The select: case <-ss.notify.
Wake(s) ==
    /\ spc[s] = "wait"
    /\ notify[s]
    /\ notify' = [notify EXCEPT ![s] = FALSE]
    /\ spc' = [spc EXCEPT ![s] = "load"]
    /\ UNCHANGED <<pub, sub, pubvars, lastsp, lastidx, pkts, split, closed, phdr, plast>>

\* addSub returns: the deferred sub.Delete; its locals are gone.
Leave(s) ==
    /\ spc' = [spc EXCEPT ![s] = "done"]
    /\ sub' = sub \ {s}
    /\ visit' = [p \in Pubs |-> visit[p] \ {s}]
    /\ pkts' = [pkts EXCEPT ![s] = <<>>]
    /\ lastsp' = [lastsp EXCEPT ![s] = Nil]
    /\ lastidx' = [lastidx EXCEPT ![s] = 0]
    /\ notify' = [notify EXCEPT ![s] = FALSE]
    /\ closed' = [closed EXCEPT ![s] = FALSE]
    /\ UNCHANGED <<pub, ppc, oldsp, cancelled, gcpkts, gcidx, merge, reads, turn, keys, late,
                   split, phdr, plast>>

\* Deviation: a break, which leaves the select and not the loop.
ClosedStays(s) ==
    /\ spc[s] = "wait"
    /\ closed[s]
    /\ closed' = [closed EXCEPT ![s] = FALSE]
    /\ spc' = [spc EXCEPT ![s] = "load"]
    /\ UNCHANGED <<pub, sub, pubvars, lastsp, lastidx, pkts, notify, split, phdr, plast>>

\* The select: case <-close.  It is looked at only by a sleeping subscriber.
Closed(s) ==
    /\ spc[s] = "wait"
    /\ closed[s]
    /\ Leave(s)

\* A write of any packet of the batch fails.
WriteFail(s) ==
    /\ spc[s] = "write"
    /\ Leave(s)

\* Deviation: no metadata is not news.
NeedMetaNonNil(s) ==
    Head(pkts[s]).Metadata # None /\ split[s].Metadata # Head(pkts[s]).Metadata

\* Deviation: a video sequence header is sent once.
NeedVSeqHdrOnce(s) ==
    /\ Head(pkts[s]).type = "H264" /\ Head(pkts[s]).key
    /\ split[s].VSeqHdr = None
    /\ Head(pkts[s]).VSeqHdr # None

\* splitSeqhdr.do on the first packet of the batch: which header is missing.
NeedMeta(s) == split[s].Metadata # Head(pkts[s]).Metadata
NeedVSeqHdr(s) ==
    /\ Head(pkts[s]).type = "H264" /\ Head(pkts[s]).key
    /\ split[s].VSeqHdr # Head(pkts[s]).VSeqHdr
NeedASeqHdr(s) ==
    /\ Head(pkts[s]).type = "AAC"
    /\ split[s].ASeqHdr # Head(pkts[s]).ASeqHdr

SendMeta(s) ==
    /\ spc[s] = "write"
    /\ NeedMeta(s)
    /\ phdr' = [phdr EXCEPT ![s] = WithMeta(@, Head(pkts[s]).Metadata)]
    /\ split' = [split EXCEPT ![s] = WithMeta(@, Head(pkts[s]).Metadata)]
    /\ UNCHANGED <<pub, sub, pubvars, spc, lastsp, lastidx, pkts, notify, closed, plast>>

SendVSeqHdr(s) ==
    /\ spc[s] = "write"
    /\ ~NeedMeta(s) /\ NeedVSeqHdr(s)
    /\ phdr' = [phdr EXCEPT ![s] = WithVSeqHdr(@, Head(pkts[s]).VSeqHdr)]
    /\ split' = [split EXCEPT ![s] = WithVSeqHdr(@, Head(pkts[s]).VSeqHdr)]
    /\ UNCHANGED <<pub, sub, pubvars, spc, lastsp, lastidx, pkts, notify, closed, plast>>

SendASeqHdr(s) ==
    /\ spc[s] = "write"
    /\ ~NeedMeta(s) /\ NeedASeqHdr(s)
    /\ phdr' = [phdr EXCEPT ![s] = WithASeqHdr(@, Head(pkts[s]).ASeqHdr)]
    /\ split' = [split EXCEPT ![s] = WithASeqHdr(@, Head(pkts[s]).ASeqHdr)]
    /\ UNCHANGED <<pub, sub, pubvars, spc, lastsp, lastidx, pkts, notify, closed, plast>>

SendPkt(s) ==
    /\ spc[s] = "write"
    /\ ~NeedMeta(s) /\ ~NeedVSeqHdr(s) /\ ~NeedASeqHdr(s)
    /\ plast' = [plast EXCEPT ![s] = Head(pkts[s])]
    /\ pkts' = [pkts EXCEPT ![s] = Tail(@)]
    /\ spc' = [spc EXCEPT ![s] = IF Len(pkts[s]) = 1 THEN "load" ELSE "write"]
    /\ UNCHANGED <<pub, sub, pubvars, lastsp, lastidx, notify, split, closed, phdr>>

\* The connection of s ends: its peek-read loop puts a token in closeNotify.
PeerClose(s) ==
    /\ spc[s] # "done"
    /\ ~closed[s]
    /\ closed' = [closed EXCEPT ![s] = TRUE]
    /\ UNCHANGED <<pub, sub, pubvars, spc, lastsp, lastidx, pkts, notify, split, phdr, plast>>

-----------------------------------------------------------------------------
\* The steps of setPub that wait for nobody.
PubStep(p) == CancelOld(p) \/ CheckDone(p) \/ NotifySub(p) \/ NotifyDone(p)
                \/ \E s \in Subs : NotifyOne(p, s)

\* The steps of setPub that wait for the peer.
PubInput(p) ==
    \/ SetPub(p)
    \/ ReadErr(p)
    \/ \E type \in HdrType, data \in Hdrs : ReadHdr(p, type, data)
    \/ \E m \in Media : ReadMedia(p, m)

SubWrite(s) == SendMeta(s) \/ SendVSeqHdr(s) \/ SendASeqHdr(s) \/ SendPkt(s)

SubStep(s) == LoadPub(s) \/ TakeSnapshot(s) \/ Wake(s) \/ SubWrite(s)

SubInput(s) == AddSub(s) \/ PeerClose(s) \/ WriteFail(s)

\* Every call has returned.
Finished ==
    /\ \A p \in Pubs : ppc[p] = "done"
    /\ \A s \in Subs : spc[s] = "done"
    /\ UNCHANGED vars

Next ==
    \/ \E p \in Pubs : PubStep(p) \/ PubInput(p)
    \/ \E s \in Subs : SubStep(s) \/ Closed(s) \/ SubInput(s)
    \/ Finished

Spec == Init /\ [][Next]_vars

\* Goroutines that can run are run; a subscriber's peer keeps reading, so a
\* write returns.  Nothing is assumed of the publishers' input.
FairSpec ==
    /\ Spec
    /\ \A p \in Pubs : WF_vars(PubStep(p))
    /\ \A s \in Subs : WF_vars(SubStep(s)) /\ WF_vars(Closed(s))
-----------------------------------------------------------------------------
(* Properties                                                              *)

\* Every variable has its type, and no goroutine is where it would follow a
\* nil pointer: setPub cancels only a publisher that exists, and addSub takes
\* the snapshot and writes only when it has a cache and packets.
TypeOK ==
    /\ pub \in Pubs \union {Nil}
    /\ sub \in SUBSET Subs
    /\ ppc \in [Pubs -> {"idle", "cancelold", "check", "read", "put", "notify", "done"}]
    /\ oldsp \in [Pubs -> Pubs \union {Nil}]
    /\ cancelled \in [Pubs -> BOOLEAN]
    /\ gcpkts \in [Pubs -> Seq(Packet)]
    /\ gcidx \in [Pubs -> Nat]
    /\ merge \in [Pubs -> HdrPkt]
    /\ visit \in [Pubs -> SUBSET Subs]
    /\ reads \in 0..MaxReads
    /\ turn \in [Pubs -> Nat]
    /\ keys \in [Pubs -> SUBSET Nat]
    /\ late \in [Pubs -> Nat]
    /\ spc \in [Subs -> {"idle", "load", "snap", "wait", "write", "done"}]
    /\ lastsp \in [Subs -> Pubs \union {Nil}]
    /\ lastidx \in [Subs -> Nat]
    /\ pkts \in [Subs -> Seq(Packet)]
    /\ notify \in [Subs -> BOOLEAN]
    /\ split \in [Subs -> HdrPkt]
    /\ closed \in [Subs -> BOOLEAN]
    /\ phdr \in [Subs -> HdrPkt]
    /\ plast \in [Subs -> Packet \union {NoPacket}]
    /\ \A p \in Pubs : ppc[p] = "cancelold" => oldsp[p] # Nil
    /\ \A s \in Subs : spc[s] = "snap" => lastsp[s] # Nil
    /\ \A s \in Subs : spc[s] = "write" => pkts[s] # <<>>

\* A publisher is about to put a token in the channel of s.
WakeComing(s) ==
    \E p \in Pubs : ppc[p] = "put" \/ (ppc[p] = "notify" /\ s \in visit[p])

\* The current publisher has cached packets that the cursor of s is not past.
Behind(s) ==
    /\ pub # Nil
    /\ gcidx[pub] > 0
    /\ lastsp[s] # pub \/ lastidx[s] # gcidx[pub]

\* A sleeping subscriber is never left behind: when the current publisher has
\* packets it has not taken, its channel holds a token or a publisher that has
\* cached a packet is still on its way to put one there.
NoLostWakeup ==
    \A s \in Subs : spc[s] = "wait" /\ Behind(s) => notify[s] \/ WakeComing(s)

\* The headers a player has are the ones under which pkt was published: the
\* audio sequence header announced before it, the video sequence header of the
\* key frame it depends on (if there is one), the metadata announced before it.
Decodes(hdr, pkt) ==
    /\ hdr.Metadata = pkt.Metadata
    /\ pkt.type = "AAC" => hdr.ASeqHdr = pkt.ASeqHdr
    /\ pkt.type = "H264" /\ (\E k \in keys[pkt.src] : k <= pkt.idx) => hdr.VSeqHdr = pkt.gov

\* Whatever batches, skipped GOPs, header changes and publisher switches lie
\* before it, a packet reaches a player that has the headers it decodes under.
ConfigInForce ==
    [][\A s \in Subs : plast'[s] # plast[s] => Decodes(phdr[s], plast'[s])]_vars

Serving(p) == ppc[p] \notin {"idle", "done"}

\* A replaced publisher stops: from the swap on it is either cancelled or about
\* to be, by the very call that replaced it, also when several calls overtake
\* each other; and once cancelled it takes at most one more packet, the one its
\* blocked read returns.
ReplacedPubStops ==
    \A p \in Pubs :
        /\ Serving(p) /\ p # pub =>
              cancelled[p] \/ \E q \in Pubs : ppc[q] = "cancelold" /\ oldsp[q] = p
        /\ late[p] <= 1

\* The stream keeps the promise of StreamFeed to every subscriber.
Feed == INSTANCE StreamFeed WITH
            head <- gcidx,
            pos <- [s \in Subs |-> [src |-> plast[s].src, idx |-> plast[s].idx]]

FeedSpec == Feed!FeedSpec

\* A subscriber that stays receives what the current publisher has cached: up
\* to packet n of p or past it, unless p is replaced first.
CatchesUp ==
    \A s \in Subs, p \in Pubs : \A n \in 1..MaxReads :
        (s \in sub /\ pub = p /\ gcidx[p] = n)
          ~> (s \notin sub \/ pub # p
                \/ (plast[s].src = p /\ plast[s].idx >= n))

\* A subscriber whose connection ended is removed from the stream once the
\* publishers have nothing more to send.
ClosedSubLeaves ==
    \A s \in Subs : (closed[s] /\ s \in sub) ~> s \notin sub
=============================================================================
