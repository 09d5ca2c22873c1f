------------------------------- MODULE Streams -------------------------------
(***************************************************************************)
(* The registry of streams of the pub/sub server (`streams` in             *)
(* cmd/avtool/pubsub.go): one stream object per path, counted by the       *)
(* connection handlers that use it, created by the first and deleted by    *)
(* the last.  Handlers run concurrently; the registry's mutex is modelled, *)
(* and every access to the map and to a counter is a step of its own.      *)
(*                                                                         *)
(* A stream object is named after the handler that allocated it.           *)
(***************************************************************************)
EXTENDS Integers, FiniteSets

CONSTANTS Handlers,   \* calls of HandleConn
          Paths,      \* c.URL.Path
          Nil         \* no stream object, no lock holder

ASSUME StreamsAssumption == Nil \notin Handlers /\ IsFiniteSet(Handlers)

VARIABLES l,       \* streams.l: its holder, or Nil
          m,       \* streams.m
          n,       \* stream.n of each object
          hpc,     \* where each handler is
          path,    \* the path its connection asked for
          stream   \* its local stream

vars == <<l, m, n, hpc, path, stream>>

Init ==
    /\ l = Nil
    /\ m = [k \in Paths |-> Nil]
    /\ n = [h \in Handlers |-> 0]
    /\ hpc = [h \in Handlers |-> "idle"]
    /\ path \in [Handlers -> Paths]
    /\ stream = [h \in Handlers |-> Nil]

Goto(h, from, to) == hpc[h] = from /\ hpc' = [hpc EXCEPT ![h] = to]

\* ss.l.Lock(), in add and in the closure that removes.
Lock(h, from, to) ==
    /\ Goto(h, from, to)
    /\ l = Nil
    /\ l' = h
    /\ UNCHANGED <<m, n, path, stream>>

\* The deferred ss.l.Unlock().
Unlock(h, from, to) ==
    /\ Goto(h, from, to)
    /\ l' = Nil
    /\ UNCHANGED <<m, n, path, stream>>

\* Deviation: the object is allocated and not assigned to s.
LookupNil(h) ==
    /\ Goto(h, "lookup", IF m[path[h]] = Nil THEN "store" ELSE "incr")
    /\ stream' = [stream EXCEPT ![h] = m[path[h]]]
    /\ UNCHANGED <<l, m, n, path>>

\* s, ok := ss.m[k], and a new object when there is none.
Lookup(h) ==
    /\ Goto(h, "lookup", IF m[path[h]] = Nil THEN "store" ELSE "incr")
    /\ stream' = [stream EXCEPT ![h] = IF m[path[h]] = Nil THEN h ELSE m[path[h]]]
    /\ UNCHANGED <<l, m, n, path>>

\* ss.m[k] = s
Store(h) ==
    /\ Goto(h, "store", "incr")
    /\ m' = [m EXCEPT ![path[h]] = stream[h]]
    /\ UNCHANGED <<l, n, path, stream>>

\* s.n++
Incr(h) ==
    /\ Goto(h, "incr", "unlock")
    /\ n' = [n EXCEPT ![stream[h]] = @ + 1]
    /\ UNCHANGED <<l, m, path, stream>>

\* s.n--
Decr(h) ==
    /\ Goto(h, "decr", "delete")
    /\ n' = [n EXCEPT ![stream[h]] = @ - 1]
    /\ UNCHANGED <<l, m, path, stream>>

\* Deviation: the entry is deleted by every handler that leaves.
DeleteAlways(h) ==
    /\ Goto(h, "delete", "unlock2")
    /\ m' = [m EXCEPT ![path[h]] = Nil]
    /\ stream' = [stream EXCEPT ![h] = Nil]
    /\ UNCHANGED <<l, n, path>>

\* Deviation: the entry stays when the last handler leaves.
DeleteNever(h) ==
    /\ Goto(h, "delete", "unlock2")
    /\ stream' = [stream EXCEPT ![h] = Nil]
    /\ UNCHANGED <<l, m, n, path>>

\* Deviation: a handler that is not the last waits for the others to leave.
DeleteWaits(h) ==
    /\ Goto(h, "delete", IF n[stream[h]] = 0 THEN "unlock2" ELSE "delete")
    /\ m' = IF n[stream[h]] = 0 THEN [m EXCEPT ![path[h]] = Nil] ELSE m
    /\ stream' = IF n[stream[h]] = 0 THEN [stream EXCEPT ![h] = Nil] ELSE stream
    /\ UNCHANGED <<l, n, path>>

\* delete(ss.m, k) by the last one; the handler lets go of the object.
Delete(h) ==
    /\ Goto(h, "delete", "unlock2")
    /\ m' = IF n[stream[h]] = 0 THEN [m EXCEPT ![path[h]] = Nil] ELSE m
    /\ stream' = [stream EXCEPT ![h] = Nil]
    /\ UNCHANGED <<l, n, path>>

\* setPub or addSub runs between the two, and returns.
Add(h) ==
    \/ Lock(h, "idle", "lookup")
    \/ Lookup(h)
    \/ Store(h)
    \/ Incr(h)
    \/ Unlock(h, "unlock", "serving")

Remove(h) ==
    \/ Decr(h)
    \/ Delete(h)
    \/ Unlock(h, "unlock2", "done")

Return(h) == Lock(h, "serving", "decr")

Finished == (\A h \in Handlers : hpc[h] = "done") /\ UNCHANGED vars

Next == (\E h \in Handlers : Add(h) \/ Return(h) \/ Remove(h)) \/ Finished

Spec == Init /\ [][Next]_vars

\* A handler that can run is run, Go's mutex starves nobody, and every setPub
\* and addSub returns.
FairSpec ==
    /\ Spec
    /\ \A h \in Handlers : WF_vars(Add(h) \/ Remove(h)) /\ SF_vars(Lock(h, "idle", "lookup"))
                             /\ SF_vars(Return(h))

-----------------------------------------------------------------------------
InAdd == {"lookup", "store", "incr", "unlock"}
InRemove == {"decr", "delete", "unlock2"}

\* Every variable has its type, counters are not negative, and a handler that
\* follows its stream pointer has one.
TypeOK ==
    /\ l \in Handlers \union {Nil}
    /\ m \in [Paths -> Handlers \union {Nil}]
    /\ n \in [Handlers -> Nat]
    /\ hpc \in [Handlers -> {"idle", "serving", "done"} \union InAdd \union InRemove]
    /\ path \in [Handlers -> Paths]
    /\ stream \in [Handlers -> Handlers \union {Nil}]
    /\ \A h \in Handlers :
          hpc[h] \in {"store", "incr", "unlock", "serving", "decr", "delete"} => stream[h] # Nil

\* Handlers that are serving the same path at the same time use one stream
\* object, the one the registry would hand to the next: a subscriber never
\* watches an object its publisher does not write to.
SameStream ==
    \A g, h \in Handlers :
        hpc[g] = "serving" /\ hpc[h] = "serving" /\ path[g] = path[h] =>
            stream[g] = stream[h] /\ m[path[h]] = stream[h]

\* The handlers that have counted themselves in and not yet out.
Users(s) == {h \in Handlers : stream[h] = s /\ hpc[h] \in {"unlock", "serving", "decr"}}

\* Outside the critical sections, a counter is the number of users of its
\* object, and the registry holds an entry exactly while somebody uses it.
CountsUsers ==
    l = Nil =>
        /\ \A s \in Handlers : n[s] = Cardinality(Users(s))
        /\ \A k \in Paths : m[k] # Nil <=> \E h \in Handlers : hpc[h] = "serving" /\ path[h] = k

\* Every handler is eventually served and gone: nobody keeps the lock.
AllLeave == \A h \in Handlers : <>(hpc[h] = "done")
=============================================================================
