------------------------------- MODULE Server -------------------------------
(***************************************************************************)
(* The pub/sub server as a whole (cmd/avtool/pubsub.go): connections that  *)
(* were asked for by URL, the registry of Streams that gives their         *)
(* handlers a stream object, and what the handlers do with it.  One object *)
(* by itself is studied in PubSub at the grain of its shared accesses;     *)
(* here packets are only counted, sequence headers are left out, a batch   *)
(* is written in one step, and what matters is who meets whom.             *)
(*                                                                         *)
(* A publisher and a subscriber are named after their handlers.            *)
(***************************************************************************)
EXTENDS Streams, RtmpUrl

CONSTANTS Urls,     \* request URIs the clients were given
          MaxPkts   \* packets read by each publisher (bound of the model)

ASSUME ServerAssumption ==
    /\ MaxPkts \in Nat
    /\ \A u \in Urls : URI(u) /\ ServerPath(u) \in Paths

VARIABLES url,        \* the URI the client of each handler was given
          publishing, \* c.Publishing
          at,         \* where setPub or addSub is
          pub,        \* stream.pub of each object
          oldsp,      \* setPub's local oldsp
          cancelled,  \* the publisher's context is cancelled
          gcidx,      \* gopCache.idx of the publisher
          sub,        \* the keys of stream.sub of each object
          notify,     \* the subscriber's channel holds a token
          lastsp,     \* addSub's local lastsp
          closed,     \* the subscriber's close channel holds a token
          seen,       \* the packet its player was sent last
          tenure,     \* how often each path was left by its last handler
          born        \* the tenure in which a handler came

servevars == <<url, publishing, at, pub, oldsp, cancelled, gcidx, sub, notify, lastsp, closed, seen>>
svars == <<vars, servevars, tenure, born>>

ServerInit ==
    /\ Init
    /\ url \in [Handlers -> Urls]
    /\ path = [h \in Handlers |-> ServerPath(url[h])]
    /\ publishing \in [Handlers -> BOOLEAN]
    /\ at = [h \in Handlers |-> "begin"]
    /\ pub = [s \in Handlers |-> Nil]
    /\ oldsp = [h \in Handlers |-> Nil]
    /\ cancelled = [h \in Handlers |-> FALSE]
    /\ gcidx = [h \in Handlers |-> 0]
    /\ sub = [s \in Handlers |-> {}]
    /\ notify = [h \in Handlers |-> FALSE]
    /\ lastsp = [h \in Handlers |-> Nil]
    /\ closed = [h \in Handlers |-> FALSE]
    /\ seen = [h \in Handlers |-> [src |-> Nil, idx |-> 0]]
    /\ tenure = [k \in Paths |-> 0]
    /\ born = [h \in Handlers |-> 0]

\* h is in setPub, or in addSub, and takes a step there.
InSetPub(h, from, to) ==
    /\ hpc[h] = "serving" /\ publishing[h]
    /\ at[h] = from
    /\ at' = [at EXCEPT ![h] = to]
    /\ UNCHANGED <<vars, url, publishing, lastsp, closed, seen, tenure, born>>

InAddSub(h, from, to) ==
    /\ hpc[h] = "serving" /\ ~publishing[h]
    /\ at[h] = from
    /\ at' = [at EXCEPT ![h] = to]
    /\ UNCHANGED <<vars, url, publishing, pub, oldsp, cancelled, gcidx, tenure, born>>

-----------------------------------------------------------------------------
(* setPub                                                                  *)

SetPub(h) ==
    LET old == pub[stream[h]]
    IN  /\ InSetPub(h, "begin", IF old # Nil THEN "cancelold" ELSE "check")
        /\ pub' = [pub EXCEPT ![stream[h]] = h]
        /\ oldsp' = [oldsp EXCEPT ![h] = old]
        /\ UNCHANGED <<cancelled, gcidx, sub, notify>>

CancelOld(h) ==
    /\ InSetPub(h, "cancelold", "check")
    /\ cancelled' = [cancelled EXCEPT ![oldsp[h]] = TRUE]
    /\ UNCHANGED <<pub, oldsp, gcidx, sub, notify>>

CheckDone(h) ==
    /\ InSetPub(h, "check", IF cancelled[h] THEN "over" ELSE "read")
    /\ UNCHANGED <<pub, oldsp, cancelled, gcidx, sub, notify>>

ReadPacket(h) ==
    /\ InSetPub(h, "read", "notify")
    /\ gcidx[h] < MaxPkts
    /\ gcidx' = [gcidx EXCEPT ![h] = @ + 1]
    /\ UNCHANGED <<pub, oldsp, cancelled, sub, notify>>

NotifySub(h) ==
    /\ InSetPub(h, "notify", "check")
    /\ notify' = [s \in Handlers |-> notify[s] \/ s \in sub[stream[h]]]
    /\ UNCHANGED <<pub, oldsp, cancelled, gcidx, sub>>

\* setPub returns, with stream.pub as it is: the publisher stays current.
ReadErr(h) ==
    /\ InSetPub(h, "read", "over")
    /\ cancelled' = [cancelled EXCEPT ![h] = TRUE]
    /\ UNCHANGED <<pub, oldsp, gcidx, sub, notify>>

-----------------------------------------------------------------------------
(* addSub                                                                  *)

AddSub(h) ==
    /\ InAddSub(h, "begin", "load")
    /\ sub' = [sub EXCEPT ![stream[h]] = @ \union {h}]
    /\ UNCHANGED <<notify, lastsp, closed, seen>>

LoadPub(h) ==
    /\ InAddSub(h, "load", IF pub[stream[h]] # Nil THEN "snap" ELSE "wait")
    /\ lastsp' = [lastsp EXCEPT ![h] = pub[stream[h]]]
    /\ UNCHANGED <<sub, notify, closed, seen>>

\* The packets the cursor has not seen are written, if there are any.
TakeSnapshot(h) ==
    LET p == lastsp[h]
        new == IF seen[h].src = p THEN gcidx[p] > seen[h].idx ELSE gcidx[p] > 0
    IN  /\ InAddSub(h, "snap", IF new THEN "load" ELSE "wait")
        /\ seen' = [seen EXCEPT ![h] = IF new THEN [src |-> p, idx |-> gcidx[p]] ELSE @]
        /\ UNCHANGED <<sub, notify, lastsp, closed>>

Wake(h) ==
    /\ InAddSub(h, "wait", "load")
    /\ notify[h]
    /\ notify' = [notify EXCEPT ![h] = FALSE]
    /\ UNCHANGED <<sub, lastsp, closed, seen>>

LeaveSub(h) ==
    /\ sub' = [sub EXCEPT ![stream[h]] = @ \ {h}]
    /\ lastsp' = [lastsp EXCEPT ![h] = Nil]
    /\ notify' = [notify EXCEPT ![h] = FALSE]
    /\ closed' = [closed EXCEPT ![h] = FALSE]
    /\ UNCHANGED seen

\* The select: case <-close.
Closed(h) ==
    /\ InAddSub(h, "wait", "over")
    /\ closed[h]
    /\ LeaveSub(h)

\* The first write of a batch fails.
WriteFail(h) ==
    /\ InAddSub(h, "snap", "over")
    /\ gcidx[lastsp[h]] > (IF seen[h].src = lastsp[h] THEN seen[h].idx ELSE 0)
    /\ LeaveSub(h)

\* The player hangs up.
PeerClose(h) ==
    /\ hpc[h] = "serving" /\ ~publishing[h] /\ at[h] # "over" /\ ~closed[h]
    /\ closed' = [closed EXCEPT ![h] = TRUE]
    /\ UNCHANGED <<vars, url, publishing, at, pub, oldsp, cancelled, gcidx, sub, notify, lastsp,
                   seen, tenure, born>>

-----------------------------------------------------------------------------
(* HandleConn: the steps of the registry, in which nothing else changes.   *)
(* The histories are kept here: when a handler came, and when the last one *)
(* of a path was gone.                                                     *)

Register(h) ==
    /\ Add(h)
    /\ born' = [born EXCEPT ![h] = IF hpc[h] = "lookup" THEN tenure[path[h]] ELSE @]
    /\ UNCHANGED <<servevars, tenure>>

\* The deferred remove runs when setPub or addSub has returned.
Unregister(h) ==
    /\ \/ at[h] = "over" /\ Return(h)
       \/ Remove(h)
    /\ tenure' = [tenure EXCEPT ![path[h]] =
                     IF hpc[h] = "delete" /\ n[stream[h]] = 0 THEN @ + 1 ELSE @]
    /\ UNCHANGED <<servevars, born>>

PubStep(h) == SetPub(h) \/ CancelOld(h) \/ CheckDone(h) \/ NotifySub(h)

SubStep(h) == AddSub(h) \/ LoadPub(h) \/ TakeSnapshot(h) \/ Wake(h)

ServerNext ==
    \/ \E h \in Handlers :
          \/ Register(h) \/ Unregister(h)
          \/ PubStep(h) \/ ReadPacket(h) \/ ReadErr(h)
          \/ SubStep(h) \/ Closed(h) \/ WriteFail(h) \/ PeerClose(h)
    \/ Finished /\ UNCHANGED svars

ServerSpec == ServerInit /\ [][ServerNext]_svars

-----------------------------------------------------------------------------
(* Properties                                                              *)

\* What a URI names, whatever its query says.
Name(u) == Named(URLPath(u))

\* Whoever feeds a player was asked for under the name the player asked for,
\* and belongs to the same tenure of it: a publisher that failed may still be
\* the stream's while somebody stays, and is forgotten with the last of them.
NothingFromThePast ==
    \A h \in Handlers :
        seen[h].src # Nil =>
            /\ Name(url[seen[h].src]) = Name(url[h])
            /\ born[seen[h].src] = born[h]

\* h publishes, and neither was stopped nor is about to be.
Unchallenged(h) ==
    /\ hpc[h] = "serving" /\ publishing[h] /\ at[h] \notin {"begin", "over"}
    /\ ~cancelled[h]
    /\ ~\E g \in Handlers : hpc[g] = "serving" /\ at[g] = "cancelold" /\ oldsp[g] = h

\* Of all clients that publish under one name at most one is unchallenged,
\* through however many stream objects and whatever queries they came.  A name
\* of one segment is not meant: the server takes it for another with a query.
OnePublisher ==
    \A g, h \in Handlers :
        /\ Unchallenged(g) /\ Unchallenged(h)
        /\ Name(url[g]) = Name(url[h])
        /\ Slashes(URLPath(url[g])) > 1 /\ Slashes(URLPath(url[h])) > 1
        => g = h
=============================================================================
