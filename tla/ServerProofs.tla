---------------------------- MODULE ServerProofs ----------------------------
(***************************************************************************)
(* Proofs about Streams and Server, for any handlers, paths, URIs and      *)
(* number of packets: the registry counts the users of its streams, Server *)
(* implements it, and what it promises carries over to publishers and      *)
(* players.                                                                *)
(***************************************************************************)
EXTENDS Server, FiniteSetTheorems, SequenceTheorems, WellFoundedInduction, TLAPS

-----------------------------------------------------------------------------
(* The registry of streams, for any handlers and paths                    *)

HasStream == {"store", "incr", "unlock", "serving", "decr", "delete"}
Entered == {"incr", "unlock", "serving", "decr", "delete"}

\* Exactly the handler in a critical section holds the lock.
LockInv == \A h \in Handlers : l = h <=> hpc[h] \in InAdd \union InRemove

\* A handler's object is the registry's entry for its path, from the moment it
\* is stored; an object serves the path of the handler that allocated it, and
\* was not allocated before that handler found no entry.
EntryInv ==
    /\ \A h \in Handlers : stream[h] # Nil <=> hpc[h] \in HasStream
    /\ \A h \in Handlers : hpc[h] \in Entered => m[path[h]] = stream[h]
    /\ \A h \in Handlers : hpc[h] = "store" => stream[h] = h /\ m[path[h]] = Nil
    /\ \A k \in Paths : m[k] # Nil =>
          path[m[k]] = k /\ hpc[m[k]] \notin {"idle", "lookup", "store"}

\* The counter of an object is the number of its users at every step, and an
\* entry has users except between the last steps of the handler that adds or
\* removes it.
CountInv ==
    /\ \A s \in Handlers : n[s] = Cardinality(Users(s))
    /\ \A k \in Paths : m[k] # Nil =>
          \/ Users(m[k]) # {}
          \/ \E h \in Handlers : hpc[h] \in {"incr", "delete"} /\ stream[h] = m[k]

StreamsInv == LockInv /\ EntryInv /\ CountInv

Inv == TypeOK /\ StreamsInv

LEMMA UsersFinite == ASSUME NEW s PROVE IsFiniteSet(Users(s))
BY StreamsAssumption, FS_Subset DEF Users

LEMMA InitInv == Init => Inv
<1> SUFFICES ASSUME Init PROVE Inv
  OBVIOUS
<1>1. \A s \in Handlers : Users(s) = {}
  BY DEF Init, Users
<1>2. \A s \in Handlers : n[s] = Cardinality(Users(s))
  BY <1>1, FS_EmptySet DEF Init
<1> QED
  BY <1>2, StreamsAssumption
     DEF Init, Inv, TypeOK, StreamsInv, LockInv, EntryInv, CountInv, InAdd, InRemove, HasStream,
         Entered

\* One step of a handler never disturbs the users of an object, except the two
\* that count.
LEMMA UsersKept ==
    ASSUME Inv, NEW h \in Handlers, NEW s \in Handlers,
           \/ Lock(h, "idle", "lookup") \/ Lookup(h) \/ Store(h) \/ Unlock(h, "unlock", "serving")
           \/ Return(h) \/ Delete(h) \/ Unlock(h, "unlock2", "done")
    PROVE  Users(s)' = Users(s)
<1>1. hpc \in [Handlers -> {"idle", "serving", "done"} \union InAdd \union InRemove]
      /\ stream \in [Handlers -> Handlers \union {Nil}]
  BY DEF Inv, TypeOK
<1>2. \A g \in Handlers : (stream'[g] = s /\ hpc'[g] \in {"unlock", "serving", "decr"}) <=>
                          (stream[g] = s /\ hpc[g] \in {"unlock", "serving", "decr"})
  BY <1>1 DEF Return, Lock, Lookup, Store, Unlock, Delete, Goto
<1> QED
  BY <1>2 DEF Users

\* s.n++ by a handler that was not counted.
LEMMA IncrCounts ==
    ASSUME Inv, NEW h \in Handlers, Incr(h)
    PROVE  /\ stream[h] \in Handlers
           /\ Users(stream[h])' = Users(stream[h]) \union {h}
           /\ \A s \in Handlers \ {stream[h]} : Users(s)' = Users(s)
           /\ \A s \in Handlers : n'[s] = Cardinality(Users(s)') /\ n'[s] \in Nat
<1>1. hpc \in [Handlers -> {"idle", "serving", "done"} \union InAdd \union InRemove]
      /\ stream \in [Handlers -> Handlers \union {Nil}] /\ n \in [Handlers -> Nat]
      /\ hpc[h] = "incr" /\ hpc' = [hpc EXCEPT ![h] = "unlock"] /\ stream' = stream
      /\ n' = [n EXCEPT ![stream[h]] = @ + 1] /\ stream[h] \in Handlers
  BY DEF Inv, TypeOK, Incr, Goto
<1>2. Users(stream[h])' = Users(stream[h]) \union {h} /\ h \notin Users(stream[h])
  BY <1>1 DEF Users
<1>3. \A s \in Handlers \ {stream[h]} : Users(s)' = Users(s)
  BY <1>1 DEF Users
<1>4. Cardinality(Users(stream[h]) \union {h}) = Cardinality(Users(stream[h])) + 1
  BY <1>2, UsersFinite, FS_AddElement
<1>5. \A s \in Handlers : n[s] = Cardinality(Users(s))
  BY DEF Inv, StreamsInv, CountInv
<1>6. ASSUME NEW s \in Handlers PROVE n'[s] = Cardinality(Users(s)') /\ n'[s] \in Nat
  <2>1. CASE s = stream[h]
    BY <1>1, <1>2, <1>4, <1>5, <2>1
  <2>2. CASE s # stream[h]
    BY <1>1, <1>3, <1>5, <2>2
  <2> QED
    BY <2>1, <2>2
<1> QED
  BY <1>1, <1>2, <1>3, <1>6

\* s.n-- by a handler that was.
LEMMA DecrCounts ==
    ASSUME Inv, NEW h \in Handlers, Decr(h)
    PROVE  /\ stream[h] \in Handlers
           /\ Users(stream[h])' = Users(stream[h]) \ {h}
           /\ \A s \in Handlers \ {stream[h]} : Users(s)' = Users(s)
           /\ \A s \in Handlers : n'[s] = Cardinality(Users(s)') /\ n'[s] \in Nat
<1>1. hpc \in [Handlers -> {"idle", "serving", "done"} \union InAdd \union InRemove]
      /\ stream \in [Handlers -> Handlers \union {Nil}] /\ n \in [Handlers -> Nat]
      /\ hpc[h] = "decr" /\ hpc' = [hpc EXCEPT ![h] = "delete"] /\ stream' = stream
      /\ n' = [n EXCEPT ![stream[h]] = @ - 1] /\ stream[h] \in Handlers
  BY DEF Inv, TypeOK, Decr, Goto
<1>2. Users(stream[h])' = Users(stream[h]) \ {h} /\ h \in Users(stream[h])
  BY <1>1 DEF Users
<1>3. \A s \in Handlers \ {stream[h]} : Users(s)' = Users(s)
  BY <1>1 DEF Users
<1>4. /\ Cardinality(Users(stream[h]) \ {h}) = Cardinality(Users(stream[h])) - 1
      /\ Cardinality(Users(stream[h]) \ {h}) \in Nat
  <2>1. IsFiniteSet(Users(stream[h]) \ {h})
    BY UsersFinite, FS_Subset
  <2> QED
    BY <1>2, <2>1, UsersFinite, FS_RemoveElement, FS_CardinalityType
<1>5. \A s \in Handlers : n[s] = Cardinality(Users(s))
  BY DEF Inv, StreamsInv, CountInv
<1>6. ASSUME NEW s \in Handlers PROVE n'[s] = Cardinality(Users(s)') /\ n'[s] \in Nat
  <2>1. CASE s = stream[h]
    BY <1>1, <1>2, <1>4, <1>5, <2>1
  <2>2. CASE s # stream[h]
    BY <1>1, <1>3, <1>5, <2>2
  <2> QED
    BY <2>1, <2>2
<1> QED
  BY <1>1, <1>2, <1>3, <1>6

LEMMA NextLock == Inv /\ [Next]_vars => LockInv'
<1> SUFFICES ASSUME Inv, [Next]_vars PROVE LockInv'
  OBVIOUS
<1> USE StreamsAssumption DEF LockInv, InAdd, InRemove
<1>1. /\ LockInv
      /\ hpc \in [Handlers -> {"idle", "serving", "done"} \union InAdd \union InRemove]
      /\ l \in Handlers \union {Nil}
  BY DEF Inv, StreamsInv, TypeOK
<1>2. ASSUME NEW h \in Handlers, Lock(h, "idle", "lookup") \/ Return(h) PROVE LockInv'
  BY <1>1, <1>2 DEF Lock, Return, Goto
<1>3. ASSUME NEW h \in Handlers, Unlock(h, "unlock", "serving") \/ Unlock(h, "unlock2", "done")
      PROVE  LockInv'
  BY <1>1, <1>3 DEF Unlock, Goto
<1>4. ASSUME NEW h \in Handlers, Lookup(h) \/ Store(h) \/ Incr(h) \/ Decr(h) \/ Delete(h)
      PROVE  LockInv'
  BY <1>1, <1>4 DEF Lookup, Store, Incr, Decr, Delete, Goto
<1>5. CASE UNCHANGED vars
  BY <1>1, <1>5 DEF vars
<1> QED
  BY <1>2, <1>3, <1>4, <1>5 DEF Next, Add, Remove, Finished

\* The registry's entries agree with the handlers' pointers after every step.
LEMMA NextEntry == Inv /\ [Next]_vars => EntryInv' /\ TypeOK'
<1> SUFFICES ASSUME Inv, [Next]_vars PROVE EntryInv' /\ TypeOK'
  OBVIOUS
<1> USE StreamsAssumption DEF HasStream, Entered, InAdd, InRemove
<1>1. TypeOK /\ EntryInv /\ LockInv
  BY DEF Inv, StreamsInv
<1>2. ASSUME NEW h \in Handlers, Lock(h, "idle", "lookup") \/ Return(h) PROVE EntryInv' /\ TypeOK'
  BY <1>1, <1>2 DEF Lock, Return, Goto, EntryInv, TypeOK
<1>3. ASSUME NEW h \in Handlers, Unlock(h, "unlock", "serving") \/ Unlock(h, "unlock2", "done")
      PROVE  EntryInv' /\ TypeOK'
  BY <1>1, <1>3 DEF Unlock, Goto, EntryInv, TypeOK
<1>4. ASSUME NEW h \in Handlers, Lookup(h) PROVE EntryInv' /\ TypeOK'
  BY <1>1, <1>4 DEF Lookup, Goto, EntryInv, TypeOK
<1>5. ASSUME NEW h \in Handlers, Store(h) PROVE EntryInv' /\ TypeOK'
  <2>1. \A g \in Handlers \ {h} : hpc[g] \notin InAdd \union InRemove
    BY <1>1, <1>5 DEF LockInv, Store, Goto
  <2>2. \A g \in Handlers \ {h} : hpc[g] \in Entered => path[g] # path[h]
    BY <1>1, <1>5 DEF EntryInv, Store, Goto
  <2> QED
    BY <1>1, <1>5, <2>1, <2>2 DEF Store, Goto, EntryInv, TypeOK
<1>6. ASSUME NEW h \in Handlers, Incr(h) PROVE EntryInv' /\ TypeOK'
  <2>1. n' \in [Handlers -> Nat]
    BY <1>6, IncrCounts DEF Inv, TypeOK, Incr
  <2> QED
    BY <1>1, <1>6, <2>1 DEF Incr, Goto, EntryInv, TypeOK
<1>7. ASSUME NEW h \in Handlers, Decr(h) PROVE EntryInv' /\ TypeOK'
  <2>1. n' \in [Handlers -> Nat]
    BY <1>7, DecrCounts DEF Inv, TypeOK, Decr
  <2> QED
    BY <1>1, <1>7, <2>1 DEF Decr, Goto, EntryInv, TypeOK
<1>8. ASSUME NEW h \in Handlers, Delete(h) PROVE EntryInv' /\ TypeOK'
  <2>1. stream[h] \in Handlers /\ m[path[h]] = stream[h] /\ hpc[h] = "delete"
    BY <1>1, <1>8 DEF Delete, Goto, EntryInv, TypeOK
  <2>2. CASE n[stream[h]] = 0
    <3>1. Users(stream[h]) = {}
      BY <2>1, <2>2, UsersFinite, FS_EmptySet DEF Inv, StreamsInv, CountInv
    <3>2. \A g \in Handlers \ {h} : hpc[g] \in Entered => hpc[g] = "serving"
      BY <1>1, <2>1 DEF LockInv
    <3>3. \A g \in Handlers \ {h} : hpc[g] \in Entered => path[g] # path[h]
      BY <1>1, <2>1, <3>1, <3>2 DEF Users, EntryInv
    <3> QED
      BY <1>1, <1>8, <2>1, <2>2, <3>3 DEF Delete, Goto, EntryInv, TypeOK
  <2>3. CASE n[stream[h]] # 0
    BY <1>1, <1>8, <2>1, <2>3 DEF Delete, Goto, EntryInv, TypeOK
  <2> QED
    BY <2>2, <2>3
<1>9. CASE UNCHANGED vars
  BY <1>1, <1>9 DEF vars, EntryInv, TypeOK
<1> QED
  BY <1>2, <1>3, <1>4, <1>5, <1>6, <1>7, <1>8, <1>9 DEF Next, Add, Remove, Finished

\* An entry of k has users, or the lock is held by the one that adds it or
\* removes itself from it.
HasUsers(s) == Users(s) # {} \/ \E h \in Handlers : hpc[h] \in {"incr", "delete"} /\ stream[h] = s

LEMMA NextCount == Inv /\ [Next]_vars => CountInv'
<1> SUFFICES ASSUME Inv, [Next]_vars PROVE CountInv'
  OBVIOUS
<1> USE StreamsAssumption
<1>1. TypeOK /\ EntryInv /\ LockInv /\ CountInv
  BY DEF Inv, StreamsInv
<1>2. /\ hpc \in [Handlers -> {"idle", "serving", "done"} \union InAdd \union InRemove]
      /\ stream \in [Handlers -> Handlers \union {Nil}] /\ path \in [Handlers -> Paths]
      /\ m \in [Paths -> Handlers \union {Nil}] /\ n \in [Handlers -> Nat]
  BY <1>1 DEF TypeOK
<1>3. \A k \in Paths : m[k] # Nil => HasUsers(m[k]) /\ m[k] \in Handlers
  BY <1>1, <1>2 DEF CountInv, HasUsers
<1>4. ASSUME \A s \in Handlers : n'[s] = Cardinality(Users(s)'),
             \A k \in Paths : m'[k] # Nil => \E s \in Handlers : s = m'[k] /\ HasUsers(s)'
      PROVE  CountInv'
  BY <1>4 DEF CountInv, HasUsers, Users
<1>5. ASSUME NEW h \in Handlers,
             \/ Lock(h, "idle", "lookup") \/ Lookup(h) \/ Unlock(h, "unlock", "serving")
             \/ Return(h) \/ Unlock(h, "unlock2", "done")
      PROVE  CountInv'
  <2>1. \A s \in Handlers : Users(s)' = Users(s)
    BY <1>5, UsersKept
  <2>2. m' = m /\ n' = n
    BY <1>5 DEF Lock, Lookup, Unlock, Return
  <2>3. \A g \in Handlers : hpc[g] \in {"incr", "delete"} =>
                              hpc'[g] \in {"incr", "delete"} /\ stream'[g] = stream[g]
    BY <1>2, <1>5 DEF Lock, Lookup, Unlock, Return, Goto
  <2>4. ASSUME NEW s \in Handlers, HasUsers(s) PROVE HasUsers(s)'
    BY <2>1, <2>3, <2>4 DEF HasUsers
  <2>5. \A k \in Paths : m'[k] # Nil => \E s \in Handlers : s = m'[k] /\ HasUsers(s)'
    BY <1>3, <2>2, <2>4
  <2> QED
    BY <1>1, <1>4, <2>1, <2>2, <2>5 DEF CountInv
<1>6. ASSUME NEW h \in Handlers, Store(h) PROVE CountInv'
  <2>1. \A s \in Handlers : Users(s)' = Users(s)
    BY <1>6, UsersKept
  <2>2. m' = [m EXCEPT ![path[h]] = stream[h]] /\ n' = n /\ stream' = stream
        /\ hpc' = [hpc EXCEPT ![h] = "incr"] /\ hpc[h] = "store"
    BY <1>6 DEF Store, Goto
  <2>3. HasUsers(stream[h])'
    BY <1>2, <2>2 DEF HasUsers
  <2>4. ASSUME NEW s \in Handlers, HasUsers(s) PROVE HasUsers(s)'
    BY <1>2, <2>1, <2>2, <2>4 DEF HasUsers
  <2>5. \A k \in Paths : m'[k] # Nil => \E s \in Handlers : s = m'[k] /\ HasUsers(s)'
    BY <1>2, <1>3, <2>2, <2>3, <2>4
  <2> QED
    BY <1>1, <1>4, <2>1, <2>2, <2>5 DEF CountInv
<1>7. ASSUME NEW h \in Handlers, Incr(h) PROVE CountInv'
  <2>1. /\ stream[h] \in Handlers
        /\ Users(stream[h])' = Users(stream[h]) \union {h}
        /\ \A s \in Handlers \ {stream[h]} : Users(s)' = Users(s)
        /\ \A s \in Handlers : n'[s] = Cardinality(Users(s)')
    BY <1>7, IncrCounts
  <2>2. m' = m /\ stream' = stream /\ hpc' = [hpc EXCEPT ![h] = "unlock"]
    BY <1>7 DEF Incr, Goto
  <2>3. ASSUME NEW s \in Handlers, HasUsers(s) PROVE HasUsers(s)'
    BY <1>2, <2>1, <2>2, <2>3 DEF HasUsers
  <2>4. \A k \in Paths : m'[k] # Nil => \E s \in Handlers : s = m'[k] /\ HasUsers(s)'
    BY <1>3, <2>2, <2>3
  <2> QED
    BY <1>4, <2>1, <2>4
<1>8. ASSUME NEW h \in Handlers, Decr(h) PROVE CountInv'
  <2>1. /\ stream[h] \in Handlers
        /\ \A s \in Handlers \ {stream[h]} : Users(s)' = Users(s)
        /\ \A s \in Handlers : n'[s] = Cardinality(Users(s)')
    BY <1>8, DecrCounts
  <2>2. m' = m /\ stream' = stream /\ hpc' = [hpc EXCEPT ![h] = "delete"]
    BY <1>8 DEF Decr, Goto
  <2>3. ASSUME NEW s \in Handlers, HasUsers(s) PROVE HasUsers(s)'
    <3>1. CASE s = stream[h]
      BY <1>2, <2>2, <3>1 DEF HasUsers
    <3>2. CASE s # stream[h]
      BY <1>2, <2>1, <2>2, <2>3, <3>2 DEF HasUsers
    <3> QED
      BY <3>1, <3>2
  <2>4. \A k \in Paths : m'[k] # Nil => \E s \in Handlers : s = m'[k] /\ HasUsers(s)'
    BY <1>3, <2>2, <2>3
  <2> QED
    BY <1>4, <2>1, <2>4
<1>9. ASSUME NEW h \in Handlers, Delete(h) PROVE CountInv'
  <2>1. \A s \in Handlers : Users(s)' = Users(s)
    BY <1>9, UsersKept
  <2>2. /\ hpc[h] = "delete" /\ hpc' = [hpc EXCEPT ![h] = "unlock2"]
        /\ m' = IF n[stream[h]] = 0 THEN [m EXCEPT ![path[h]] = Nil] ELSE m
        /\ stream' = [stream EXCEPT ![h] = Nil] /\ n' = n
        /\ m[path[h]] = stream[h] /\ stream[h] \in Handlers
    BY <1>1, <1>2, <1>9 DEF Delete, Goto, EntryInv, HasStream, Entered
  <2>3. \A g \in Handlers \ {h} : hpc[g] \notin {"incr", "delete"}
    BY <1>1, <2>2 DEF LockInv, InAdd, InRemove
  <2>4. n[stream[h]] # 0 => Users(stream[h]) # {}
    BY <1>1, <2>2, FS_EmptySet DEF CountInv
  <2>5. ASSUME NEW k \in Paths, m'[k] # Nil
        PROVE  \E s \in Handlers : s = m'[k] /\ HasUsers(s)'
    <3>1. m'[k] = m[k] /\ m[k] \in Handlers /\ HasUsers(m[k])
      BY <1>2, <1>3, <2>2, <2>5
    <3>2. m[k] = stream[h] => n[stream[h]] # 0
      <4>1. m[k] = stream[h] => k = path[h]
        <5>1. path[h] \in Paths /\ m[k] # Nil
          BY <1>2, <3>1
        <5> QED
          BY <1>1, <2>2, <3>1, <5>1 DEF EntryInv
      <4> QED
        BY <1>2, <2>2, <2>5, <4>1
    <3>3. Users(m[k]) # {}
      BY <2>3, <2>4, <3>1, <3>2 DEF HasUsers
    <3> QED
      BY <2>1, <3>1, <3>3 DEF HasUsers
  <2> QED
    BY <1>1, <1>4, <2>1, <2>2, <2>5 DEF CountInv
<1>10. CASE UNCHANGED vars
  BY <1>1, <1>10 DEF vars, CountInv, Users
<1> QED
  BY <1>5, <1>6, <1>7, <1>8, <1>9, <1>10 DEF Next, Add, Remove, Finished

LEMMA InvHolds == Spec => []Inv
<1>1. Inv /\ [Next]_vars => Inv'
  BY NextLock, NextEntry, NextCount DEF Inv, StreamsInv
<1> QED
  BY InitInv, <1>1, PTL DEF Spec

\* Types, no negative counter, no nil stream followed.
THEOREM TypeCorrect == Spec => []TypeOK
<1>1. Inv => TypeOK
  BY DEF Inv
<1> QED
  BY InvHolds, <1>1, PTL

\* Handlers that serve one path at the same time share one stream object.
THEOREM OneStreamPerPath == Spec => []SameStream
<1>1. Inv => SameStream
  BY DEF Inv, StreamsInv, EntryInv, SameStream, Entered
<1> QED
  BY InvHolds, <1>1, PTL

\* Counters count users, and entries live exactly as long as their users.
THEOREM CountersExact == Spec => []CountsUsers
<1>1. Inv => CountsUsers
  <2> SUFFICES ASSUME Inv, l = Nil PROVE CountsUsers
    BY DEF CountsUsers
  <2> USE StreamsAssumption
  <2>1. TypeOK /\ EntryInv /\ LockInv /\ CountInv
    BY DEF Inv, StreamsInv
  <2>2. \A h \in Handlers : hpc[h] \notin InAdd \union InRemove
    BY <2>1 DEF LockInv
  <2>3. ASSUME NEW k \in Paths, m[k] # Nil
        PROVE  \E h \in Handlers : hpc[h] = "serving" /\ path[h] = k
    <3>1. m[k] \in Handlers
      BY <2>1, <2>3 DEF TypeOK
    <3>2. Users(m[k]) # {}
      BY <2>1, <2>2, <2>3 DEF CountInv, InAdd, InRemove
    <3>3. PICK h \in Handlers : stream[h] = m[k] /\ hpc[h] = "serving"
      BY <2>2, <3>2 DEF Users, InAdd, InRemove
    <3>4. m[path[h]] = m[k] /\ path[h] \in Paths
      BY <2>1, <3>3 DEF EntryInv, Entered, TypeOK
    <3>5. path[h] = k
      BY <2>1, <2>3, <3>4 DEF EntryInv
    <3> QED
      BY <3>3, <3>5
  <2>4. ASSUME NEW h \in Handlers, hpc[h] = "serving" PROVE m[path[h]] # Nil
    BY <2>1, <2>4 DEF EntryInv, Entered, HasStream
  <2> QED
    BY <2>1, <2>3, <2>4 DEF CountsUsers, CountInv
<1> QED
  BY InvHolds, <1>1, PTL

-----------------------------------------------------------------------------
(* URLs, for every request URI                                             *)

\* The solvers do not know that "/" is a string.
Token == STRING \union {"/"}

Rooted(u) == u \in Seq(Token) /\ u # <<>> /\ u[1] = "/"

LEMMA URIRooted == ASSUME NEW u, URI(u) PROVE Rooted(u)
BY DEF URI, Rooted, Token

LEMMA LeastOf == ASSUME NEW S \in SUBSET Nat, S # {} PROVE \E x \in S : \A y \in S : x <= y
<1>1. PICK x \in S : \A y \in S : ~(<<y, x>> \in OpToRel(<, Nat))
  BY NatLessThanWellFounded, WFMin
<1>2. \A y \in S : ~(y < x)
  BY <1>1 DEF OpToRel
<1> QED
  BY <1>2

LEMMA OneMore ==
    ASSUME NEW S, NEW k \in Nat, IsFiniteSet(S), Cardinality(S) = k, NEW x, x \notin S
    PROVE  IsFiniteSet(S \union {x}) /\ Cardinality(S \union {x}) = k + 1
BY FS_AddElement

\* The slashes up to a position are finitely many, and a prefix has no more.
LEMMA SlashesBound ==
    ASSUME NEW u, NEW i \in Nat, NEW k \in 0..i
    PROVE  /\ IsFiniteSet({j \in 1..i : u[j] = "/"})
           /\ SlashesUpTo(u, i) \in Nat
           /\ SlashesUpTo(u, k) <= SlashesUpTo(u, i)
<1> DEFINE A == {j \in 1..i : u[j] = "/"}
           B == {j \in 1..k : u[j] = "/"}
<1>1. IsFiniteSet(A)
  <2>1. IsFiniteSet(1..i)
    BY FS_Interval
  <2>2. A \in SUBSET (1..i)
    OBVIOUS
  <2> QED
    BY <2>1, <2>2, FS_Subset
<1>2. B \in SUBSET A
  OBVIOUS
<1> HIDE DEF A, B
<1>3. IsFiniteSet(B) /\ Cardinality(B) <= Cardinality(A) /\ Cardinality(A) \in Nat
  BY <1>1, <1>2, FS_Subset, FS_CardinalityType
<1> QED
  BY <1>1, <1>3 DEF SlashesUpTo, A, B

\* A URI begins with its first slash.
LEMMA FirstSlash ==
    ASSUME NEW u, Rooted(u)
    PROVE  SlashesUpTo(u, 1) = 1 /\ Slashes(u) \in Nat /\ Slashes(u) >= 1
<1>1. Len(u) \in Nat /\ Len(u) >= 1 /\ u[1] = "/"
  BY EmptySeq DEF Rooted
<1>2. {j \in 1..1 : u[j] = "/"} = {1}
  BY <1>1
<1>3. SlashesUpTo(u, 1) = 1
  BY <1>2, FS_Singleton DEF SlashesUpTo
<1>4. 1 \in 0..Len(u)
  BY <1>1
<1>5. SlashesUpTo(u, Len(u)) \in Nat /\ SlashesUpTo(u, 1) <= SlashesUpTo(u, Len(u))
  BY <1>1, <1>4, SlashesBound
<1> QED
  BY <1>3, <1>5 DEF Slashes

\* The second and the third slash are where they are looked for, if there are
\* any.
LEMMA SlashFound ==
    ASSUME NEW u, Rooted(u), NEW k \in {2, 3}, Slashes(u) >= k
    PROVE  Slash(u, k) \in 2..Len(u) /\ u[Slash(u, k)] = "/"
<1> DEFINE S == {j \in 1..Len(u) : u[j] = "/"}
<1>1. Len(u) \in Nat /\ Len(u) >= 1 /\ u[1] = "/" /\ DOMAIN u = 1..Len(u)
  BY EmptySeq, LenProperties DEF Rooted
<1>2. IsFiniteSet(S) /\ Cardinality(S) >= k
  <2>1. 0 \in 0..Len(u)
    BY <1>1
  <2> QED
    BY <1>1, <2>1, SlashesBound DEF Slashes, SlashesUpTo
<1>3. S \in SUBSET Nat /\ 1 \in S
  BY <1>1
<1>4. IsFiniteSet({1}) /\ Cardinality({1}) = 1
  BY FS_Singleton
<1>5. PICK a \in S \ {1} : \A y \in S \ {1} : a <= y
  <2>1. S # {1}
    <3> HIDE DEF S
    <3> QED
      BY <1>2, <1>4
  <2>2. S \ {1} # {} /\ S \ {1} \in SUBSET Nat
    BY <1>3, <2>1
  <2> HIDE DEF S
  <2> QED
    BY <2>2, LeastOf
<1>6. a \in 2..Len(u) /\ u[a] = "/" /\ \A j \in 1..Len(u) : u[j] = "/" => j = 1 \/ a <= j
  BY <1>1, <1>5
<1>7. IsFiniteSet({1} \union {a}) /\ Cardinality({1} \union {a}) = 2
  <2>1. a \notin {1}
    BY <1>6
  <2> QED
    BY <1>4, <2>1, OneMore, 1 \in Nat, 1 + 1 = 2
<1>8. \E i \in DOMAIN u : u[i] = "/" /\ SlashesUpTo(u, i) = k
  <2>1. CASE k = 2
    <3>1. {j \in 1..a : u[j] = "/"} = {1} \union {a}
      BY <1>1, <1>6
    <3>2. SlashesUpTo(u, a) = 2
      BY <1>7, <3>1 DEF SlashesUpTo
    <3> QED
      BY <1>1, <1>6, <2>1, <3>2
  <2>2. CASE k = 3
    <3>1. S # {1} \union {a}
      <4> HIDE DEF S
      <4> QED
        BY <1>2, <1>7, <2>2
    <3>2. S \ {1, a} # {} /\ S \ {1, a} \in SUBSET Nat
      BY <1>3, <1>5, <3>1
    <3>3. PICK c \in S \ {1, a} : \A y \in S \ {1, a} : c <= y
      <4> HIDE DEF S
      <4> QED
        BY <3>2, LeastOf
    <3>4. /\ c \in 2..Len(u) /\ u[c] = "/" /\ c # a /\ a <= c
          /\ \A j \in 1..Len(u) : u[j] = "/" => j \in {1, a} \/ c <= j
      BY <1>1, <1>6, <3>3
    <3>5. {j \in 1..c : u[j] = "/"} = ({1} \union {a}) \union {c}
      BY <1>1, <1>6, <3>4
    <3>6. Cardinality(({1} \union {a}) \union {c}) = 3
      <4>1. c \notin {1} \union {a}
        BY <3>4
      <4> QED
        BY <1>7, <4>1, OneMore, 2 \in Nat, 2 + 1 = 3
    <3>7. SlashesUpTo(u, c) = 3
      BY <3>5, <3>6 DEF SlashesUpTo
    <3> QED
      BY <1>1, <2>2, <3>4, <3>7
  <2> QED
    BY <2>1, <2>2
<1>9. Slash(u, k) \in DOMAIN u /\ u[Slash(u, k)] = "/" /\ SlashesUpTo(u, Slash(u, k)) = k
  BY <1>8 DEF Slash
<1>10. Slash(u, k) # 1
  BY <1>9, FirstSlash
<1> QED
  BY <1>1, <1>9, <1>10

LEMMA OneToken == ASSUME NEW S, NEW e \in S PROVE <<e>> \in Seq(S)
OBVIOUS

LEMMA Concat ==
    ASSUME NEW S, NEW p \in Seq(S), NEW q \in Seq(S)
    PROVE  /\ p \o q \in Seq(S)
           /\ Len(p \o q) = Len(p) + Len(q)
           /\ \A j \in 1..Len(p) : (p \o q)[j] = p[j]
           /\ \A j \in 1..Len(q) : (p \o q)[Len(p) + j] = q[j]
<1>1. Len(p) \in Nat /\ Len(q) \in Nat
  BY LenProperties
<1>2. \A i \in 1 .. Len(p) + Len(q) : (p \o q)[i] =
                     IF i <= Len(p) THEN p[i] ELSE q[i - Len(p)]
  BY ConcatProperties, Zenon
<1>3. \A j \in 1..Len(p) : (p \o q)[j] = p[j]
  BY <1>1, <1>2
<1>4. \A j \in 1..Len(q) : (p \o q)[Len(p) + j] = q[j]
  <2>1. ASSUME NEW j \in 1..Len(q) PROVE (p \o q)[Len(p) + j] = q[j]
    <3>1. /\ Len(p) + j \in 1..(Len(p) + Len(q)) /\ ~(Len(p) + j <= Len(p))
          /\ (Len(p) + j) - Len(p) = j
      BY <1>1
    <3> QED
      BY <1>2, <3>1
  <2> QED
    BY <2>1
<1> QED
  BY <1>3, <1>4, ConcatProperties, Zenon
\* What createURL makes of two parts.
LEMMA Joined ==
    ASSUME NEW p \in Seq(Token), NEW q \in Seq(Token)
    PROVE  /\ CreateURL(p, q) \in Seq(Token)
           /\ Len(CreateURL(p, q)) = Len(p) + Len(q) + 2
           /\ CreateURL(p, q)[1] = "/"
           /\ \A j \in 1..Len(p) : CreateURL(p, q)[j + 1] = p[j]
           /\ CreateURL(p, q)[Len(p) + 2] = "/"
           /\ \A j \in 1..Len(q) : CreateURL(p, q)[Len(p) + 2 + j] = q[j]
<1> DEFINE s == <<"/">>
           x == s \o p
           y == x \o s
<1>1. Len(p) \in Nat /\ Len(q) \in Nat
  BY LenProperties
<1>2. s \in Seq(Token)
  BY OneToken DEF Token
<1>3. Len(s) = 1 /\ s[1] = "/"
  OBVIOUS
<1> HIDE DEF s
<1>4. /\ x \in Seq(Token) /\ Len(x) = Len(s) + Len(p)
      /\ \A j \in 1..Len(s) : x[j] = s[j]
      /\ \A j \in 1..Len(p) : x[Len(s) + j] = p[j]
  BY <1>2, Concat
<1>5. Len(x) = Len(p) + 1 /\ x[1] = "/" /\ \A j \in 1..Len(p) : x[j + 1] = p[j]
  BY <1>1, <1>3, <1>4
<1> HIDE DEF x
<1>6. /\ y \in Seq(Token) /\ Len(y) = Len(x) + Len(s)
      /\ \A j \in 1..Len(x) : y[j] = x[j]
      /\ \A j \in 1..Len(s) : y[Len(x) + j] = s[j]
  <2>1. x \in Seq(Token)
    BY <1>4
  <2> QED
    BY <1>2, <2>1, Concat
<1>7. /\ Len(y) = Len(p) + 2 /\ y[1] = "/" /\ y[Len(p) + 2] = "/"
      /\ \A j \in 1..Len(p) : y[j + 1] = p[j]
  BY <1>1, <1>3, <1>5, <1>6
<1> HIDE DEF y
<1>8. /\ y \o q \in Seq(Token) /\ Len(y \o q) = Len(y) + Len(q)
      /\ \A j \in 1..Len(y) : (y \o q)[j] = y[j]
      /\ \A j \in 1..Len(q) : (y \o q)[Len(y) + j] = q[j]
  <2>1. y \in Seq(Token)
    BY <1>6
  <2> QED
    BY <2>1, Concat
<1>9. CreateURL(p, q) = y \o q
  BY DEF CreateURL, s, x, y
<1> DEFINE w == CreateURL(p, q)
<1>10. /\ w \in Seq(Token) /\ Len(w) = Len(y) + Len(q)
       /\ \A j \in 1..Len(y) : w[j] = y[j]
       /\ \A j \in 1..Len(q) : w[Len(y) + j] = q[j]
  BY <1>8, <1>9
<1> HIDE DEF w
<1>11. /\ w \in Seq(Token) /\ Len(w) = Len(p) + Len(q) + 2
       /\ w[1] = "/" /\ w[Len(p) + 2] = "/"
       /\ \A j \in 1..Len(p) : w[j + 1] = p[j]
       /\ \A j \in 1..Len(q) : w[Len(p) + 2 + j] = q[j]
  BY <1>1, <1>7, <1>10
<1> QED
  BY <1>11 DEF w

\* Taken apart at a slash and put together again.
LEMMA Rejoined ==
    ASSUME NEW u, Rooted(u), NEW i \in 2..Len(u), u[i] = "/"
    PROVE  CreateURL(SubSeq(u, 2, i - 1), SubSeq(u, i + 1, Len(u))) = u
<1> DEFINE a == SubSeq(u, 2, i - 1)
           b == SubSeq(u, i + 1, Len(u))
           w == CreateURL(a, b)
<1>1. u \in Seq(Token) /\ Len(u) \in Nat /\ u[1] = "/" /\ \A j \in 1..Len(u) : u[j] \in Token
  BY LenProperties, ElementOfSeq DEF Rooted
<1>2. /\ a \in Seq(Token) /\ Len(a) = i - 2
      /\ \A j \in 1..(i - 2) : a[j] = u[j + 1]
  BY <1>1, SubSeqProperties
<1>3. /\ b \in Seq(Token) /\ Len(b) = Len(u) - i
      /\ \A j \in 1..(Len(u) - i) : b[j] = u[i + j]
  BY <1>1, SubSeqProperties
<1> HIDE DEF a, b
<1>4. /\ w \in Seq(Token) /\ Len(w) = Len(u) /\ w[1] = "/" /\ w[i] = "/"
      /\ \A j \in 1..(i - 2) : w[j + 1] = a[j]
      /\ \A j \in 1..(Len(u) - i) : w[i + j] = b[j]
  <2>1. /\ w \in Seq(Token) /\ Len(w) = Len(a) + Len(b) + 2
        /\ w[1] = "/"
        /\ \A j \in 1..Len(a) : w[j + 1] = a[j]
        /\ w[Len(a) + 2] = "/"
        /\ \A j \in 1..Len(b) : w[Len(a) + 2 + j] = b[j]
    BY <1>2, <1>3, Joined
  <2> HIDE DEF w
  <2>2. Len(a) + Len(b) + 2 = Len(u) /\ Len(a) + 2 = i
    BY <1>1, <1>2, <1>3
  <2> QED
    BY <1>2, <1>3, <2>1, <2>2
<1> HIDE DEF w
<1>5. ASSUME NEW j \in 1..Len(u) PROVE w[j] = u[j]
  <2>1. CASE j \in 2..(i - 1)
    <3>1. j - 1 \in 1..(i - 2) /\ (j - 1) + 1 = j
      BY <2>1
    <3> QED
      BY <1>2, <1>4, <3>1
  <2>2. CASE j > i
    <3>1. j - i \in 1..(Len(u) - i) /\ i + (j - i) = j
      BY <1>1, <2>2
    <3> QED
      BY <1>3, <1>4, <3>1
  <2> QED
    BY <1>1, <1>4, <2>1, <2>2
<1>6. w = u
  BY <1>1, <1>4, <1>5, SeqEqual
<1> QED
  BY <1>6 DEF w, a, b

\* A URI of several segments survives the way.
LEMMA Survives ==
    ASSUME NEW u, Rooted(u), Slashes(u) >= 2
    PROVE  ServerPath(u) = URLPath(u)
<1> DEFINE k == IF Slashes(u) = 2 THEN 2 ELSE 3
<1>1. Slashes(u) \in Nat /\ k \in {2, 3} /\ Slashes(u) >= k /\ Slashes(u) # 1
  BY FirstSlash
<1> HIDE DEF k
<1>2. Slash(u, k) \in 2..Len(u) /\ u[Slash(u, k)] = "/"
  BY <1>1, SlashFound
<1>3. CreateURL(SubSeq(u, 2, Slash(u, k) - 1), SubSeq(u, Slash(u, k) + 1, Len(u))) = u
  BY <1>2, Rejoined
<1>4. SplitPath(u) = [app |-> SubSeq(u, 2, Slash(u, k) - 1),
                      stream |-> SubSeq(u, Slash(u, k) + 1, Len(u))]
  BY <1>1 DEF SplitPath, k
<1> QED
  BY <1>3, <1>4 DEF ServerPath
\* The path is what precedes the first question mark.
LEMMA PathIsPrefix ==
    ASSUME NEW u, Rooted(u)
    PROVE  IF \E i \in DOMAIN u : u[i] = "?"
           THEN \E i \in 2..Len(u) : /\ u[i] = "?" /\ \A j \in 1..(i - 1) : u[j] # "?"
                                     /\ URLPath(u) = SubSeq(u, 1, i - 1)
           ELSE URLPath(u) = u
<1>1. Len(u) \in Nat /\ DOMAIN u = 1..Len(u) /\ u[1] = "/"
  BY LenProperties DEF Rooted
<1>2. CASE \E i \in DOMAIN u : u[i] = "?"
  <2> DEFINE Q == {i \in DOMAIN u : u[i] = "?"}
             First(i) == u[i] = "?" /\ \A j \in 1..(i - 1) : u[j] # "?"
  <2>1. PICK a \in Q : \A y \in Q : a <= y
    <3>1. Q \in SUBSET Nat /\ Q # {}
      BY <1>1, <1>2
    <3> HIDE DEF Q
    <3> QED
      BY <3>1, LeastOf
  <2>2. a \in DOMAIN u /\ First(a)
    BY <1>1, <2>1
  <2> DEFINE f == CHOOSE i \in DOMAIN u : First(i)
  <2>3. f \in DOMAIN u /\ First(f)
    BY <2>2
  <2>4. URLPath(u) = SubSeq(u, 1, f - 1)
    BY <1>2 DEF URLPath
  <2> HIDE DEF f
  <2>5. f \in 2..Len(u)
    BY <1>1, <2>3
  <2> QED
    BY <1>2, <2>3, <2>4, <2>5
<1>3. CASE ~\E i \in DOMAIN u : u[i] = "?"
  BY <1>3 DEF URLPath
<1> QED
  BY <1>2, <1>3

LEMMA PathSlashes ==
    ASSUME NEW u, Rooted(u)
    PROVE  Slashes(URLPath(u)) \in Nat /\ Slashes(URLPath(u)) <= Slashes(u)
<1>1. u \in Seq(Token) /\ Len(u) \in Nat /\ \A j \in 1..Len(u) : u[j] \in Token
  BY LenProperties, ElementOfSeq DEF Rooted
<1>2. CASE \E i \in DOMAIN u : u[i] = "?"
  <2>1. PICK i \in 2..Len(u) : URLPath(u) = SubSeq(u, 1, i - 1)
    BY <1>2, PathIsPrefix
  <2> DEFINE p == SubSeq(u, 1, i - 1)
  <2>2. Len(p) = i - 1 /\ \A j \in 1..(i - 1) : p[j] = u[j]
    <3>1. \A j \in 1..(i - 1) : u[j] \in Token
      BY <1>1
    <3>2. /\ Len(p) = IF 1 <= i - 1 THEN (i - 1) - 1 + 1 ELSE 0
          /\ \A j \in 1..((i - 1) - 1 + 1) : p[j] = u[1 + j - 1]
      BY <3>1, SubSeqProperties
    <3> HIDE DEF p
    <3> QED
      BY <3>2
  <2> HIDE DEF p
  <2>3. {j \in 1..(i - 1) : p[j] = "/"} = {j \in 1..(i - 1) : u[j] = "/"}
    BY <2>2
  <2>4. Slashes(p) = SlashesUpTo(u, i - 1)
    BY <2>2, <2>3 DEF Slashes, SlashesUpTo
  <2>5. i - 1 \in 0..Len(u) /\ i - 1 \in Nat /\ 0 \in 0..(i - 1)
    BY <1>1
  <2>6. SlashesUpTo(u, i - 1) <= SlashesUpTo(u, Len(u)) /\ SlashesUpTo(u, i - 1) \in Nat
    BY <1>1, <2>5, SlashesBound
  <2> QED
    BY <2>1, <2>4, <2>6 DEF Slashes, p
<1>3. CASE ~\E i \in DOMAIN u : u[i] = "?"
  BY <1>3, PathIsPrefix, FirstSlash
<1> QED
  BY <1>2, <1>3

\* A URI of one segment comes back with a slash at its end, which its query
\* hides.
LEMMA OneSegment ==
    ASSUME NEW u, Rooted(u), Slashes(u) = 1
    PROVE  Named(ServerPath(u)) = Named(URLPath(u))
<1> DEFINE p == Tail(u)
           w == CreateURL(p, <<>>)
<1>1. /\ u \in Seq(Token) /\ Len(u) \in Nat /\ Len(u) >= 1 /\ DOMAIN u = 1..Len(u)
      /\ u[1] = "/" /\ \A j \in 1..Len(u) : u[j] \in Token
  BY EmptySeq, LenProperties, ElementOfSeq DEF Rooted
<1>2. p \in Seq(Token) /\ Len(p) = Len(u) - 1 /\ \A j \in 1..Len(p) : p[j] = u[j + 1]
  BY <1>1, HeadTailProperties DEF Rooted
<1>3. <<>> \in Seq(Token) /\ Len(<<>>) = 0
  OBVIOUS
<1> HIDE DEF p
<1>4. /\ w \in Seq(Token) /\ Len(w) = Len(p) + Len(<<>>) + 2 /\ w[1] = "/"
      /\ \A j \in 1..Len(p) : w[j + 1] = p[j]
      /\ w[Len(p) + 2] = "/"
  BY <1>2, <1>3, Joined, Zenon
<1>5. ServerPath(u) = URLPath(w)
  BY DEF ServerPath, SplitPath, p
<1> HIDE DEF w
<1>6. Len(w) = Len(u) + 1 /\ w[Len(u) + 1] = "/" /\ \A j \in 1..Len(u) : w[j] = u[j]
  <2>1. ASSUME NEW j \in 2..Len(u) PROVE w[j] = u[j]
    <3>1. j - 1 \in 1..Len(p) /\ (j - 1) + 1 = j
      BY <1>1, <1>2
    <3> QED
      BY <1>2, <1>4, <3>1
  <2> QED
    BY <1>1, <1>2, <1>3, <1>4, <2>1
<1>7. Rooted(w) /\ DOMAIN w = 1..(Len(u) + 1)
  BY <1>1, <1>4, <1>6, EmptySeq, LenProperties DEF Rooted
<1>8. CASE \E i \in DOMAIN u : u[i] = "?"
  <2>1. PICK i \in 2..Len(u) : /\ u[i] = "?" /\ \A j \in 1..(i - 1) : u[j] # "?"
                               /\ URLPath(u) = SubSeq(u, 1, i - 1)
    BY <1>8, PathIsPrefix
  <2>2. \E k \in DOMAIN w : w[k] = "?"
    BY <1>1, <1>6, <1>7, <2>1
  <2>3. PICK k \in 2..Len(w) : /\ w[k] = "?" /\ \A j \in 1..(k - 1) : w[j] # "?"
                               /\ URLPath(w) = SubSeq(w, 1, k - 1)
    BY <1>7, <2>2, PathIsPrefix
  <2>4. k = i
    BY <1>1, <1>6, <2>1, <2>3
  <2>5. SubSeq(w, 1, i - 1) = SubSeq(u, 1, i - 1)
    <3>1. \A j \in 1..(i - 1) : u[j] \in Token /\ w[j] \in Token /\ w[j] = u[j]
      BY <1>1, <1>6
    <3> DEFINE a == SubSeq(w, 1, i - 1)
               b == SubSeq(u, 1, i - 1)
    <3>2. /\ a \in Seq(Token)
          /\ Len(a) = IF 1 <= i - 1 THEN (i - 1) - 1 + 1 ELSE 0
          /\ \A j \in 1..((i - 1) - 1 + 1) : a[j] = w[1 + j - 1]
      BY <3>1, SubSeqProperties
    <3>3. /\ b \in Seq(Token)
          /\ Len(b) = IF 1 <= i - 1 THEN (i - 1) - 1 + 1 ELSE 0
          /\ \A j \in 1..((i - 1) - 1 + 1) : b[j] = u[1 + j - 1]
      BY <3>1, SubSeqProperties
    <3> HIDE DEF a, b
    <3>4. Len(a) = Len(b) /\ \A j \in 1..Len(a) : a[j] = b[j]
      BY <3>1, <3>2, <3>3
    <3>5. a = b
      BY <3>2, <3>3, <3>4, SeqEqual
    <3> QED
      BY <3>5 DEF a, b
  <2> QED
    BY <1>5, <2>1, <2>3, <2>4, <2>5
<1>9. CASE ~\E i \in DOMAIN u : u[i] = "?"
  <2>1. URLPath(u) = u
    BY <1>9, PathIsPrefix
  <2>2. ~\E k \in DOMAIN w : w[k] = "?"
    BY <1>1, <1>6, <1>7, <1>9
  <2>3. URLPath(w) = w
    BY <1>7, <2>2, PathIsPrefix
  <2>4. Append(u, "/") = w
    <3> DEFINE a == Append(u, "/")
    <3>1. /\ a \in Seq(Token) /\ Len(a) = Len(u) + 1
          /\ \A j \in 1..Len(u) : a[j] = u[j]
          /\ a[Len(u) + 1] = "/"
      <4>1. "/" \in Token
        BY DEF Token
      <4> QED
        BY <1>1, <4>1, AppendProperties
    <3> HIDE DEF a
    <3>2. Len(a) = Len(w) /\ \A j \in 1..Len(a) : a[j] = w[j]
      BY <1>1, <1>6, <3>1
    <3>3. a = w
      BY <1>4, <3>1, <3>2, SeqEqual
    <3> QED
      BY <3>3 DEF a
  <2>5. Slashes(w) = 2
    <3> DEFINE S == {j \in 1..Len(u) : u[j] = "/"}
    <3>1. {j \in 1..(Len(u) + 1) : w[j] = "/"} = S \union {Len(u) + 1} /\ Len(u) + 1 \notin S
      BY <1>1, <1>6
    <3>2. IsFiniteSet(S)
      <4>1. 0 \in 0..Len(u)
        BY <1>1
      <4> QED
        BY <1>1, <4>1, SlashesBound
    <3>3. Cardinality(S) = 1
      BY DEF Slashes, SlashesUpTo
    <3> HIDE DEF S
    <3>4. Cardinality(S \union {Len(u) + 1}) = 2
      BY <3>1, <3>2, <3>3, OneMore, 1 \in Nat, 1 + 1 = 2
    <3> QED
      BY <1>6, <3>1, <3>4 DEF Slashes, SlashesUpTo
  <2> QED
    BY <1>5, <2>1, <2>3, <2>4, <2>5 DEF Named
<1> QED
  BY <1>8, <1>9

\* What a client is given a URI for is what the server files it under,
\* literally so when the path has more than one segment.
THEOREM NamesSurvive ==
    ASSUME NEW u, URI(u)
    PROVE  /\ Named(ServerPath(u)) = Named(URLPath(u))
           /\ Slashes(URLPath(u)) > 1 => ServerPath(u) = URLPath(u)
<1>1. Rooted(u) /\ Slashes(u) \in Nat /\ Slashes(u) >= 1
  BY URIRooted, FirstSlash
<1>2. Slashes(URLPath(u)) \in Nat /\ Slashes(URLPath(u)) <= Slashes(u)
  BY <1>1, PathSlashes
<1>3. CASE Slashes(u) = 1
  BY <1>1, <1>2, <1>3, OneSegment
<1>4. CASE Slashes(u) >= 2
  BY <1>1, <1>4, Survives
<1> QED
  BY <1>1, <1>3, <1>4

-----------------------------------------------------------------------------
(* The server and the registry                                             *)

\* The steps of setPub and addSub, and those of a client, leave the registry
\* and the histories alone.
LEMMA ServeSteps ==
    ASSUME NEW h \in Handlers,
           \/ PubStep(h) \/ ReadPacket(h) \/ ReadErr(h)
           \/ SubStep(h) \/ Closed(h) \/ WriteFail(h) \/ PeerClose(h)
    PROVE  UNCHANGED <<vars, url, publishing, tenure, born>> /\ hpc[h] = "serving"
BY DEF PubStep, SetPub, CancelOld, CheckDone, NotifySub, ReadPacket, ReadErr, SubStep, AddSub,
       LoadPub, TakeSnapshot, Wake, Closed, WriteFail, PeerClose, InSetPub, InAddSub

\* The server implements the registry: whatever the handlers do between add
\* and remove, streams are created, counted and deleted as Streams says.
THEOREM ImplementsStreams == ServerSpec => Spec
<1>1. ServerInit => Init
  <2> SUFFICES ASSUME ServerInit PROVE Init
    OBVIOUS
  <2> QED
    BY DEF ServerInit
<1>2. [ServerNext]_svars => [Next]_vars
  <2> SUFFICES ASSUME [ServerNext]_svars PROVE [Next]_vars
    OBVIOUS
  <2>1. ASSUME NEW h \in Handlers, Register(h) \/ Unregister(h) PROVE Next
    BY <2>1 DEF Register, Unregister, Next
  <2>2. ASSUME NEW h \in Handlers,
               \/ PubStep(h) \/ ReadPacket(h) \/ ReadErr(h)
               \/ SubStep(h) \/ Closed(h) \/ WriteFail(h) \/ PeerClose(h)
        PROVE  UNCHANGED vars
    BY <2>2, ServeSteps
  <2>3. CASE Finished
    BY <2>3 DEF Next
  <2>4. CASE UNCHANGED svars
    BY <2>4 DEF svars
  <2> QED
    BY <2>1, <2>2, <2>3, <2>4 DEF ServerNext
<1> QED
  BY <1>1, <1>2, PTL DEF ServerSpec, Spec

-----------------------------------------------------------------------------
(* The inductive invariant                                                 *)

\* The variables that the argument reads have their types, and a handler is
\* where its program can be.
ServerTypes ==
    /\ url \in [Handlers -> Urls]
    /\ path = [h \in Handlers |-> ServerPath(url[h])]
    /\ publishing \in [Handlers -> BOOLEAN]
    /\ at \in [Handlers -> {"begin", "cancelold", "check", "read", "notify", "load", "snap", "wait",
                            "over"}]
    /\ pub \in [Handlers -> Handlers \union {Nil}]
    /\ oldsp \in [Handlers -> Handlers \union {Nil}]
    /\ cancelled \in [Handlers -> BOOLEAN]
    /\ gcidx \in [Handlers -> Nat]
    /\ lastsp \in [Handlers -> Handlers \union {Nil}]
    /\ seen \in [Handlers -> [src : Handlers \union {Nil}, idx : Nat]]
    /\ tenure \in [Paths -> Nat]
    /\ born \in [Handlers -> Nat]
    /\ \A h \in Handlers : at[h] = "snap" => lastsp[h] # Nil

\* Who has not been served yet has met nobody.
FreshInv ==
    \A h \in Handlers : hpc[h] \in {"idle"} \union InAdd =>
        /\ at[h] = "begin" /\ lastsp[h] = Nil /\ seen[h].src = Nil
        /\ \A g \in Handlers : pub[g] # h /\ lastsp[g] # h /\ seen[g].src # h

\* A stream object has no publisher before it is in the registry.
AllocInv == \A s \in Handlers : hpc[s] \in {"idle", "lookup", "store"} => pub[s] = Nil

\* A publisher that runs is the stream's, or was stopped, or is about to be by
\* the one that followed it.
StopInv ==
    \A h \in Handlers :
        hpc[h] = "serving" /\ publishing[h] /\ at[h] \notin {"begin", "over"} =>
            \/ pub[stream[h]] = h
            \/ cancelled[h]
            \/ \E g \in Handlers : hpc[g] = "serving" /\ at[g] = "cancelold" /\ oldsp[g] = h

\* Whoever uses a stream came in the tenure that lasts.
BornInv == \A h \in Handlers : hpc[h] \in HasStream => born[h] = tenure[path[h]]

\* So did the publisher of an object that is in the registry.
PubInv ==
    \A k \in Paths : m[k] # Nil /\ pub[m[k]] # Nil =>
        path[pub[m[k]]] = k /\ born[pub[m[k]]] = tenure[k]

Met(h, p) == p # Nil => path[p] = path[h] /\ born[p] = born[h]

MeetInv == \A h \in Handlers : Met(h, lastsp[h]) /\ Met(h, seen[h].src)

ServerInv ==
    ServerTypes /\ FreshInv /\ AllocInv /\ StopInv /\ BornInv /\ PubInv /\ MeetInv

LEMMA InitServerInv == ServerInit => ServerInv
<1> SUFFICES ASSUME ServerInit PROVE ServerInv
  OBVIOUS
<1> USE StreamsAssumption DEF ServerInit, Init, InAdd, HasStream
<1>1. ServerTypes
  BY DEF ServerTypes
<1>2. FreshInv /\ AllocInv /\ StopInv
  BY DEF FreshInv, AllocInv, StopInv
<1>3. BornInv /\ PubInv /\ MeetInv
  BY DEF BornInv, PubInv, MeetInv, Met
<1> QED
  BY <1>1, <1>2, <1>3 DEF ServerInv

\* Types are kept by every step.
LEMMA NextTypes == Inv /\ ServerTypes /\ [ServerNext]_svars => ServerTypes'
<1> SUFFICES ASSUME Inv, ServerTypes, [ServerNext]_svars PROVE ServerTypes'
  OBVIOUS
<1> USE StreamsAssumption DEF ServerTypes
<1>0. path \in [Handlers -> Paths] /\ stream \in [Handlers -> Handlers \union {Nil}]
  BY DEF Inv, TypeOK
<1>1. ASSUME NEW h \in Handlers, PubStep(h) PROVE ServerTypes'
  <2>1. CASE SetPub(h)
    <3>1. stream[h] \in Handlers
      BY <1>0, <2>1 DEF Inv, TypeOK, SetPub, InSetPub
    <3> QED
      BY <2>1, <3>1 DEF SetPub, InSetPub, vars
  <2>2. CASE CancelOld(h)
    BY <2>2 DEF CancelOld, InSetPub, vars
  <2>3. CASE CheckDone(h)
    BY <2>3 DEF CheckDone, InSetPub, vars
  <2>4. CASE NotifySub(h)
    BY <2>4 DEF NotifySub, InSetPub, vars
  <2> QED
    BY <1>1, <2>1, <2>2, <2>3, <2>4 DEF PubStep
<1>2. ASSUME NEW h \in Handlers, ReadPacket(h) PROVE ServerTypes'
  BY <1>2 DEF ReadPacket, InSetPub, vars
<1>3. ASSUME NEW h \in Handlers, ReadErr(h) PROVE ServerTypes'
  BY <1>3 DEF ReadErr, InSetPub, vars
<1>4. ASSUME NEW h \in Handlers, SubStep(h) PROVE ServerTypes'
  <2>1. CASE AddSub(h)
    BY <2>1 DEF AddSub, InAddSub, vars
  <2>2. CASE LoadPub(h)
    <3>1. stream[h] \in Handlers
      BY <1>0, <2>2 DEF Inv, TypeOK, LoadPub, InAddSub
    <3> QED
      BY <2>2, <3>1 DEF LoadPub, InAddSub, vars
  <2>3. CASE TakeSnapshot(h)
    <3>1. lastsp[h] \in Handlers /\ gcidx[lastsp[h]] \in Nat
      BY <2>3 DEF TakeSnapshot, InAddSub
    <3> QED
      BY <2>3, <3>1 DEF TakeSnapshot, InAddSub, vars
  <2>4. CASE Wake(h)
    BY <2>4 DEF Wake, InAddSub, vars
  <2> QED
    BY <1>4, <2>1, <2>2, <2>3, <2>4 DEF SubStep
<1>5. ASSUME NEW h \in Handlers, Closed(h) \/ WriteFail(h) PROVE ServerTypes'
  BY <1>5 DEF Closed, WriteFail, LeaveSub, InAddSub, vars
<1>6. ASSUME NEW h \in Handlers, PeerClose(h) PROVE ServerTypes'
  BY <1>6 DEF PeerClose, vars
<1>7. ASSUME NEW h \in Handlers, Register(h) PROVE ServerTypes'
  <2>1. path' = path
    BY <1>7 DEF Register, Add, Lock, Lookup, Store, Incr, Unlock
  <2> QED
    BY <1>0, <1>7, <2>1 DEF Register, servevars
<1>8. ASSUME NEW h \in Handlers, Unregister(h) PROVE ServerTypes'
  <2>1. path' = path
    BY <1>8 DEF Unregister, Return, Remove, Lock, Decr, Delete, Unlock
  <2> QED
    BY <1>0, <1>8, <2>1 DEF Unregister, servevars
<1>9. CASE UNCHANGED svars
  BY <1>9 DEF svars, servevars, vars
<1> QED
  BY <1>1, <1>2, <1>3, <1>4, <1>5, <1>6, <1>7, <1>8, <1>9 DEF ServerNext

\* What the steps of a publisher or a player do to what they have met: one may
\* become the publisher of its stream, or read it, or be fed by what it read.
LEMMA Meetings ==
    ASSUME Inv, ServerTypes, NEW h \in Handlers,
           \/ PubStep(h) \/ ReadPacket(h) \/ ReadErr(h)
           \/ SubStep(h) \/ Closed(h) \/ WriteFail(h) \/ PeerClose(h)
    PROVE  /\ hpc[h] = "serving" /\ stream[h] \in Handlers /\ m[path[h]] = stream[h]
           /\ UNCHANGED <<l, m, n, hpc, path, stream, url, publishing, tenure, born>>
           /\ \A g \in Handlers \ {h} : at'[g] = at[g]
           /\ pub' \in {pub, [pub EXCEPT ![stream[h]] = h]}
           /\ \A g \in Handlers : lastsp'[g] = lastsp[g] \/ lastsp'[g] = Nil
                                     \/ (g = h /\ lastsp'[g] = pub[stream[h]])
           /\ \A g \in Handlers : seen'[g].src = seen[g].src \/ (g = h /\ seen'[g].src = lastsp[g])
<1> USE DEF ServerTypes
<1>1. /\ hpc[h] = "serving"
      /\ UNCHANGED <<l, m, n, hpc, path, stream, url, publishing, tenure, born>>
  BY ServeSteps DEF vars
<1>2. stream[h] \in Handlers /\ m[path[h]] = stream[h]
  BY <1>1 DEF Inv, TypeOK, StreamsInv, EntryInv, Entered, HasStream
<1>3. \A g \in Handlers \ {h} : at'[g] = at[g]
  BY DEF PubStep, SetPub, CancelOld, CheckDone, NotifySub, ReadPacket, ReadErr, SubStep, AddSub,
         LoadPub, TakeSnapshot, Wake, Closed, WriteFail, PeerClose, InSetPub, InAddSub
<1>4. pub' \in {pub, [pub EXCEPT ![stream[h]] = h]}
  BY DEF PubStep, SetPub, CancelOld, CheckDone, NotifySub, ReadPacket, ReadErr, SubStep, AddSub,
         LoadPub, TakeSnapshot, Wake, Closed, WriteFail, PeerClose, InSetPub, InAddSub
<1>5. lastsp' \in {lastsp, [lastsp EXCEPT ![h] = Nil], [lastsp EXCEPT ![h] = pub[stream[h]]]}
  BY DEF PubStep, SetPub, CancelOld, CheckDone, NotifySub, ReadPacket, ReadErr, SubStep, AddSub,
         LoadPub, TakeSnapshot, Wake, Closed, WriteFail, LeaveSub, PeerClose, InSetPub, InAddSub
<1>6. seen' = seen \/ \E i \in Nat : seen' = [seen EXCEPT ![h] = [src |-> lastsp[h], idx |-> i]]
  <2>1. CASE TakeSnapshot(h)
    <3>1. gcidx[lastsp[h]] \in Nat
      BY <2>1 DEF TakeSnapshot, InAddSub
    <3> DEFINE p == lastsp[h]
               new == IF seen[h].src = p THEN gcidx[p] > seen[h].idx ELSE gcidx[p] > 0
    <3>2. seen' = [seen EXCEPT ![h] = IF new THEN [src |-> p, idx |-> gcidx[p]] ELSE @]
      BY <2>1 DEF TakeSnapshot
    <3> HIDE DEF new
    <3> QED
      BY <3>1, <3>2
  <2>2. CASE ~TakeSnapshot(h)
    <3>1. seen' = seen
      BY <2>2 DEF PubStep, SetPub, CancelOld, CheckDone, NotifySub, ReadPacket, ReadErr, SubStep,
                  AddSub, LoadPub, Wake, Closed, WriteFail, LeaveSub, PeerClose, InSetPub, InAddSub
    <3> QED
      BY <3>1
  <2> QED
    BY <2>1, <2>2
<1>7. \A g \in Handlers : lastsp'[g] = lastsp[g] \/ lastsp'[g] = Nil
                             \/ (g = h /\ lastsp'[g] = pub[stream[h]])
  BY <1>5
<1>8. \A g \in Handlers : seen'[g].src = seen[g].src \/ (g = h /\ seen'[g].src = lastsp[g])
  BY <1>6
<1> QED
  BY <1>1, <1>2, <1>3, <1>4, <1>7, <1>8

\* The registry's steps leave the rest alone, but for the histories.
LEMMA RegistrySteps ==
    ASSUME TypeOK, NEW h \in Handlers, Register(h) \/ Unregister(h)
    PROVE  /\ UNCHANGED <<url, publishing, at, pub, oldsp, cancelled, gcidx, lastsp, seen, path>>
           /\ \A g \in Handlers \ {h} : hpc'[g] = hpc[g] /\ stream'[g] = stream[g]
           /\ hpc[h] = "serving" => at[h] = "over"
           /\ hpc[h] \notin {"idle"} \union InAdd => hpc'[h] \notin {"idle", "serving"} \union InAdd
<1> USE DEF TypeOK
<1>1. UNCHANGED <<url, publishing, at, pub, oldsp, cancelled, gcidx, lastsp, seen>>
  BY DEF Register, Unregister, servevars
<1>2. path' = path
  BY DEF Register, Unregister, Add, Return, Remove, Lock, Lookup, Store, Incr, Unlock, Decr, Delete
<1>3. \A g \in Handlers \ {h} : hpc'[g] = hpc[g] /\ stream'[g] = stream[g]
  BY DEF Register, Unregister, Add, Return, Remove, Lock, Lookup, Store, Incr, Unlock, Decr, Delete,
         Goto
<1>4. hpc[h] = "serving" => at[h] = "over"
  BY DEF Register, Unregister, Add, Return, Remove, Lock, Lookup, Store, Incr, Unlock, Decr, Delete,
         Goto
<1>5. hpc[h] \notin {"idle"} \union InAdd => hpc'[h] \notin {"idle", "serving"} \union InAdd
  BY DEF Register, Unregister, Add, Return, Remove, Lock, Lookup, Store, Incr, Unlock, Decr, Delete,
         Goto, InAdd, InRemove
<1> QED
  BY <1>1, <1>2, <1>3, <1>4, <1>5

\* The steps of a server, in three kinds.
LEMMA StepKinds ==
    ASSUME [ServerNext]_svars
    PROVE  \/ \E h \in Handlers :
                \/ PubStep(h) \/ ReadPacket(h) \/ ReadErr(h)
                \/ SubStep(h) \/ Closed(h) \/ WriteFail(h) \/ PeerClose(h)
           \/ \E h \in Handlers : Register(h) \/ Unregister(h)
           \/ UNCHANGED svars
BY DEF ServerNext

\* Only a serving handler publishes, and only serving ones are met.
LEMMA NextFresh == Inv /\ ServerTypes /\ FreshInv /\ [ServerNext]_svars => FreshInv'
<1> SUFFICES ASSUME Inv, ServerTypes, FreshInv, [ServerNext]_svars PROVE FreshInv'
  OBVIOUS
<1> USE StreamsAssumption DEF FreshInv
<1>1. TypeOK /\ hpc \in [Handlers -> {"idle", "serving", "done"} \union InAdd \union InRemove]
  BY DEF Inv, TypeOK
<1>2. ASSUME NEW h \in Handlers,
             \/ PubStep(h) \/ ReadPacket(h) \/ ReadErr(h)
             \/ SubStep(h) \/ Closed(h) \/ WriteFail(h) \/ PeerClose(h)
      PROVE  FreshInv'
  <2>1. h \in Handlers /\ hpc[h] \notin {"idle"} \union InAdd
    BY <1>2, Meetings DEF InAdd
  <2>2. ASSUME NEW f \in Handlers, hpc'[f] \in {"idle"} \union InAdd
        PROVE  /\ at'[f] = "begin" /\ lastsp'[f] = Nil /\ seen'[f].src = Nil
               /\ \A g \in Handlers : pub'[g] # f /\ lastsp'[g] # f /\ seen'[g].src # f
    <3>1. hpc[f] \in {"idle"} \union InAdd /\ f # h
      BY <1>2, <2>1, <2>2, Meetings
    <3>2. \A g \in Handlers : pub'[g] # f
      BY <1>2, <3>1, Meetings DEF ServerTypes
    <3>3. \A g \in Handlers : lastsp'[g] # f /\ seen'[g].src # f
      BY <1>2, <3>1, Meetings
    <3> QED
      BY <1>2, <3>1, <3>2, <3>3, Meetings
  <2> QED
    BY <2>2
<1>3. ASSUME NEW h \in Handlers, Register(h) \/ Unregister(h) PROVE FreshInv'
  <2>1. \A f \in Handlers : hpc'[f] \in {"idle"} \union InAdd => hpc[f] \in {"idle"} \union InAdd
    BY <1>1, <1>3, RegistrySteps
  <2>2. UNCHANGED <<at, pub, lastsp, seen>>
    BY <1>1, <1>3, RegistrySteps
  <2> QED
    BY <2>1, <2>2
<1>4. CASE UNCHANGED svars
  BY <1>4 DEF svars, servevars, vars
<1> QED
  BY <1>2, <1>3, <1>4, StepKinds

\* setPub runs on objects that are in the registry.
LEMMA NextAlloc == Inv /\ ServerTypes /\ AllocInv /\ [ServerNext]_svars => AllocInv'
<1> SUFFICES ASSUME Inv, ServerTypes, AllocInv, [ServerNext]_svars PROVE AllocInv'
  OBVIOUS
<1> USE StreamsAssumption DEF AllocInv
<1>1. TypeOK /\ hpc \in [Handlers -> {"idle", "serving", "done"} \union InAdd \union InRemove]
  BY DEF Inv, TypeOK
<1>2. ASSUME NEW h \in Handlers,
             \/ PubStep(h) \/ ReadPacket(h) \/ ReadErr(h)
             \/ SubStep(h) \/ Closed(h) \/ WriteFail(h) \/ PeerClose(h)
      PROVE  AllocInv'
  <2>1. /\ stream[h] \in Handlers /\ m[path[h]] = stream[h] /\ hpc' = hpc
        /\ pub' \in {pub, [pub EXCEPT ![stream[h]] = h]}
    BY <1>2, Meetings
  <2>2. hpc[stream[h]] \notin {"idle", "lookup", "store"}
    BY <1>1, <2>1 DEF Inv, StreamsInv, EntryInv, TypeOK
  <2> QED
    BY <2>1, <2>2 DEF ServerTypes
<1>3. ASSUME NEW h \in Handlers, Register(h) \/ Unregister(h) PROVE AllocInv'
  <2>1. \A f \in Handlers : hpc'[f] \in {"idle", "lookup", "store"}
                              => hpc[f] \in {"idle", "lookup", "store"}
    BY <1>1, <1>3 DEF Register, Unregister, Add, Return, Remove, Lock, Lookup, Store, Incr, Unlock,
                      Decr, Delete, Goto, InAdd, InRemove
  <2>2. pub' = pub
    BY <1>1, <1>3, RegistrySteps
  <2> QED
    BY <2>1, <2>2
<1>4. CASE UNCHANGED svars
  BY <1>4 DEF svars, servevars, vars
<1> QED
  BY <1>2, <1>3, <1>4, StepKinds

\* The one case that matters is setPub: the publisher it replaces is
\* remembered in oldsp until it is cancelled.
LEMMA NextStop == Inv /\ ServerTypes /\ FreshInv /\ StopInv /\ [ServerNext]_svars => StopInv'
<1> SUFFICES ASSUME Inv, ServerTypes, FreshInv, StopInv, [ServerNext]_svars PROVE StopInv'
  OBVIOUS
<1> USE StreamsAssumption
<1> DEFINE Stopping(g, h) == hpc[g] = "serving" /\ at[g] = "cancelold" /\ oldsp[g] = h
           Safe(h) == pub[stream[h]] = h \/ cancelled[h] \/ \E g \in Handlers : Stopping(g, h)
           Runs(h) == hpc[h] = "serving" /\ publishing[h] /\ at[h] \notin {"begin", "over"}
<1>1. TypeOK /\ hpc \in [Handlers -> {"idle", "serving", "done"} \union InAdd \union InRemove]
  BY DEF Inv, TypeOK
<1>2. \A h \in Handlers : Runs(h) => Safe(h)
  BY DEF StopInv
<1>3. (\A h \in Handlers : Runs(h)' => Safe(h)') => StopInv'
  BY DEF StopInv
<1>4. ASSUME NEW h \in Handlers, SetPub(h) PROVE StopInv'
  <2>1. /\ hpc[h] = "serving" /\ at[h] = "begin" /\ stream[h] \in Handlers
        /\ UNCHANGED <<hpc, stream, publishing, cancelled>>
        /\ at' = [at EXCEPT ![h] = IF pub[stream[h]] # Nil THEN "cancelold" ELSE "check"]
        /\ pub' = [pub EXCEPT ![stream[h]] = h]
        /\ oldsp' = [oldsp EXCEPT ![h] = pub[stream[h]]]
    BY <1>1, <1>4 DEF SetPub, InSetPub, vars, TypeOK
  <2>2. ASSUME NEW g \in Handlers, Runs(g)' PROVE Safe(g)'
    <3>1. CASE g = h
      BY <2>1, <3>1 DEF ServerTypes
    <3>2. CASE g # h /\ pub[stream[g]] = g
      <4>1. CASE stream[g] = stream[h]
        <5>1. Stopping(h, g)'
          BY <2>1, <3>2, <4>1 DEF ServerTypes
        <5> QED
          BY <5>1
      <4>2. CASE stream[g] # stream[h]
        BY <2>1, <3>2, <4>2 DEF ServerTypes
      <4> QED
        BY <4>1, <4>2
    <3>3. CASE g # h /\ pub[stream[g]] # g
      <4>1. Runs(g)
        BY <2>1, <2>2, <3>3 DEF ServerTypes
      <4>2. cancelled[g] \/ \E f \in Handlers \ {h} : Stopping(f, g)
        BY <1>2, <2>1, <3>3, <4>1
      <4>3. \A f \in Handlers \ {h} : Stopping(f, g) => Stopping(f, g)'
        BY <2>1 DEF ServerTypes
      <4> QED
        BY <2>1, <4>2, <4>3
    <3> QED
      BY <3>1, <3>2, <3>3
  <2> QED
    BY <1>3, <2>2
<1>5. ASSUME NEW h \in Handlers, CancelOld(h) PROVE StopInv'
  <2>1. /\ UNCHANGED <<hpc, stream, publishing, pub, oldsp>>
        /\ at[h] = "cancelold" /\ at' = [at EXCEPT ![h] = "check"]
        /\ cancelled' = [cancelled EXCEPT ![oldsp[h]] = TRUE]
    BY <1>5 DEF CancelOld, InSetPub, vars
  <2>2. ASSUME NEW g \in Handlers, Runs(g)' PROVE Safe(g)'
    <3>1. Runs(g)
      BY <2>1, <2>2 DEF ServerTypes
    <3>2. CASE Stopping(h, g)
      BY <2>1, <3>2 DEF ServerTypes
    <3>3. CASE \E f \in Handlers \ {h} : Stopping(f, g)
      BY <2>1, <3>3 DEF ServerTypes
    <3>4. CASE pub[stream[g]] = g \/ cancelled[g]
      BY <2>1, <3>4 DEF ServerTypes
    <3> QED
      BY <1>2, <3>1, <3>2, <3>3, <3>4
  <2> QED
    BY <1>3, <2>2
<1>6. ASSUME NEW h \in Handlers,
             \/ CheckDone(h) \/ NotifySub(h) \/ ReadPacket(h) \/ ReadErr(h)
             \/ SubStep(h) \/ Closed(h) \/ WriteFail(h) \/ PeerClose(h)
      PROVE  StopInv'
  <2>1. /\ UNCHANGED <<hpc, stream, publishing, pub, oldsp>>
        /\ \A g \in Handlers : cancelled[g] => cancelled'[g]
    BY <1>6 DEF CheckDone, NotifySub, ReadPacket, ReadErr, SubStep, AddSub, LoadPub, TakeSnapshot,
                Wake, Closed, WriteFail, PeerClose, InSetPub, InAddSub, vars, ServerTypes
  <2>2. \A g \in Handlers : at[g] = "cancelold" => at'[g] = "cancelold"
    BY <1>6 DEF CheckDone, NotifySub, ReadPacket, ReadErr, SubStep, AddSub, LoadPub, TakeSnapshot,
                Wake, Closed, WriteFail, PeerClose, InSetPub, InAddSub, vars, ServerTypes
  <2>3. \A g \in Handlers : Runs(g)' => Runs(g)
    BY <1>6, <2>1 DEF CheckDone, NotifySub, ReadPacket, ReadErr, SubStep, AddSub, LoadPub,
                TakeSnapshot, Wake, Closed, WriteFail, PeerClose, InSetPub, InAddSub, vars, ServerTypes
  <2> QED
    BY <1>2, <1>3, <2>1, <2>2, <2>3
<1>7. ASSUME NEW h \in Handlers, Register(h) \/ Unregister(h) PROVE StopInv'
  <2>1. /\ UNCHANGED <<publishing, at, pub, oldsp, cancelled>>
        /\ \A g \in Handlers \ {h} : hpc'[g] = hpc[g] /\ stream'[g] = stream[g]
        /\ hpc[h] = "serving" => at[h] = "over"
        /\ hpc[h] \notin {"idle"} \union InAdd => hpc'[h] # "serving"
    BY <1>1, <1>7, RegistrySteps
  <2>2. ~Runs(h)'
    BY <2>1 DEF FreshInv
  <2>3. ASSUME NEW g \in Handlers, Runs(g)' PROVE Safe(g)'
    <3>1. g # h /\ Runs(g)
      BY <2>1, <2>2, <2>3
    <3>2. \A f \in Handlers : Stopping(f, g) => f # h
      BY <2>1
    <3> QED
      BY <1>2, <2>1, <3>1, <3>2
  <2> QED
    BY <1>3, <2>3
<1>8. CASE UNCHANGED svars
  BY <1>8 DEF svars, servevars, vars, StopInv
<1> QED
  BY <1>4, <1>5, <1>6, <1>7, <1>8 DEF ServerNext, PubStep

\* Nobody uses the object of a handler that is about to delete the entry.
LEMMA LastOne ==
    ASSUME Inv, NEW h \in Handlers, hpc[h] = "delete", n[stream[h]] = 0,
           NEW g \in Handlers \ {h}, hpc[g] \in HasStream
    PROVE  path[g] # path[h]
<1> USE StreamsAssumption
<1>1. TypeOK /\ LockInv /\ EntryInv /\ CountInv
  BY DEF Inv, StreamsInv
<1>2. hpc[g] = "serving" /\ stream[g] \in Handlers /\ stream[h] \in Handlers
  BY <1>1 DEF LockInv, HasStream, InAdd, InRemove, TypeOK
<1>3. Users(stream[h]) = {}
  BY <1>1, <1>2, UsersFinite, FS_EmptySet DEF CountInv
<1>4. stream[g] # stream[h]
  BY <1>2, <1>3 DEF Users
<1>5. m[path[g]] = stream[g] /\ m[path[h]] = stream[h]
  BY <1>1, <1>2 DEF EntryInv, Entered
<1> QED
  BY <1>4, <1>5

\* The histories, as the registry's steps write them: a handler is dated when it
\* looks for its stream, and a tenure ends when the entry is deleted.
LEMMA Histories ==
    ASSUME Inv, ServerTypes, NEW h \in Handlers, Register(h) \/ Unregister(h)
    PROVE  /\ hpc[h] = "lookup" => born' = [born EXCEPT ![h] = tenure[path[h]]]
           /\ hpc[h] # "lookup" => born' = born
           /\ hpc[h] = "delete" /\ n[stream[h]] = 0 =>
                 tenure' = [tenure EXCEPT ![path[h]] = @ + 1] /\ m' = [m EXCEPT ![path[h]] = Nil]
           /\ ~(hpc[h] = "delete" /\ n[stream[h]] = 0) => tenure' = tenure
<1> USE DEF Goto, ServerTypes
<1>1. TypeOK
  BY DEF Inv
<1>2. CASE Register(h)
  <2>1. hpc[h] # "delete"
    BY <1>2 DEF Register, Add, Lock, Lookup, Store, Incr, Unlock
  <2> QED
    BY <1>2, <2>1 DEF Register
<1>3. CASE Unregister(h)
  <2>1. hpc[h] # "lookup" /\ (hpc[h] = "delete" => Delete(h))
    BY <1>3 DEF Unregister, Return, Remove, Lock, Decr, Delete, Unlock
  <2> QED
    BY <1>3, <2>1 DEF Unregister, Delete
<1> QED
  BY <1>2, <1>3

\* A tenure ends only when nobody else uses the stream.
LEMMA NextBorn == Inv /\ ServerTypes /\ BornInv /\ [ServerNext]_svars => BornInv'
<1> SUFFICES ASSUME Inv, ServerTypes, BornInv, [ServerNext]_svars PROVE BornInv'
  OBVIOUS
<1>1. /\ TypeOK /\ hpc \in [Handlers -> {"idle", "serving", "done"} \union InAdd \union InRemove]
      /\ path \in [Handlers -> Paths]
  BY DEF Inv, TypeOK
<1>2. ASSUME NEW h \in Handlers,
             \/ PubStep(h) \/ ReadPacket(h) \/ ReadErr(h)
             \/ SubStep(h) \/ Closed(h) \/ WriteFail(h) \/ PeerClose(h)
      PROVE  BornInv'
  BY <1>2, Meetings DEF BornInv
<1>3. ASSUME NEW h \in Handlers, Register(h) \/ Unregister(h) PROVE BornInv'
  <2>1. /\ path' = path
        /\ \A g \in Handlers \ {h} : hpc'[g] = hpc[g]
    BY <1>1, <1>3, RegistrySteps
  <2>2. hpc'[h] \in HasStream => hpc[h] \in HasStream \union {"lookup"}
    BY <1>1, <1>3 DEF Register, Unregister, Add, Return, Remove, Lock, Lookup, Store, Incr, Unlock,
                      Decr, Delete, Goto, HasStream
  <2>3. CASE hpc[h] = "delete" /\ n[stream[h]] = 0
    <3>1. /\ tenure' = [tenure EXCEPT ![path[h]] = @ + 1] /\ born' = born
      BY <1>3, <2>3, Histories
    <3>2. \A g \in Handlers \ {h} : hpc[g] \in HasStream => path[g] # path[h]
      BY <2>3, LastOne
    <3>3. hpc'[h] \notin HasStream
      BY <1>1, <1>3, <2>3 DEF Register, Unregister, Add, Return, Remove, Lock, Lookup, Store, Incr,
                              Unlock, Decr, Delete, Goto, HasStream
    <3> QED
      BY <1>1, <2>1, <3>1, <3>2, <3>3 DEF BornInv, ServerTypes
  <2>4. CASE hpc[h] = "lookup"
    <3>1. tenure' = tenure /\ born' = [born EXCEPT ![h] = tenure[path[h]]]
      BY <1>3, <2>4, Histories
    <3> QED
      BY <1>1, <2>1, <3>1 DEF BornInv, ServerTypes
  <2>5. CASE hpc[h] # "lookup" /\ ~(hpc[h] = "delete" /\ n[stream[h]] = 0)
    <3>1. tenure' = tenure /\ born' = born
      BY <1>3, <2>5, Histories
    <3> QED
      BY <2>1, <2>2, <2>5, <3>1 DEF BornInv
  <2> QED
    BY <2>3, <2>4, <2>5
<1>4. CASE UNCHANGED svars
  BY <1>4 DEF svars, vars, BornInv
<1> QED
  BY <1>2, <1>3, <1>4, StepKinds

\* A publisher is dated with the tenure of the entry it finds, and an entry
\* starts without one.
LEMMA NextPub ==
    Inv /\ ServerTypes /\ FreshInv /\ AllocInv /\ BornInv /\ PubInv /\ [ServerNext]_svars => PubInv'
<1> SUFFICES ASSUME Inv, ServerTypes, FreshInv, AllocInv, BornInv, PubInv, [ServerNext]_svars
             PROVE  PubInv'
  OBVIOUS
<1> USE StreamsAssumption
<1>1. /\ TypeOK /\ path \in [Handlers -> Paths] /\ m \in [Paths -> Handlers \union {Nil}]
      /\ hpc \in [Handlers -> {"idle", "serving", "done"} \union InAdd \union InRemove]
      /\ EntryInv
  BY DEF Inv, TypeOK, StreamsInv
<1>2. ASSUME NEW h \in Handlers,
             \/ PubStep(h) \/ ReadPacket(h) \/ ReadErr(h)
             \/ SubStep(h) \/ Closed(h) \/ WriteFail(h) \/ PeerClose(h)
      PROVE  PubInv'
  <2>1. /\ hpc[h] = "serving" /\ stream[h] \in Handlers /\ m[path[h]] = stream[h]
        /\ UNCHANGED <<m, path, tenure, born>>
        /\ pub' \in {pub, [pub EXCEPT ![stream[h]] = h]}
    BY <1>2, Meetings
  <2>2. born[h] = tenure[path[h]]
    BY <2>1 DEF BornInv, HasStream
  <2>3. ASSUME NEW k \in Paths, m[k] # Nil, pub'[m[k]] # Nil
        PROVE  path[pub'[m[k]]] = k /\ born[pub'[m[k]]] = tenure[k]
    <3>1. m[k] \in Handlers
      BY <1>1, <2>3
    <3>2. CASE pub'[m[k]] = pub[m[k]]
      BY <2>3, <3>2 DEF PubInv
    <3>3. CASE m[k] = stream[h] /\ pub'[m[k]] = h
      <4>1. k = path[h]
        BY <1>1, <2>1, <2>3, <3>3 DEF EntryInv
      <4> QED
        BY <2>2, <3>3, <4>1
    <3> QED
      BY <2>1, <3>1, <3>2, <3>3 DEF ServerTypes
  <2> QED
    BY <2>1, <2>3 DEF PubInv
<1>3. ASSUME NEW h \in Handlers, Register(h) \/ Unregister(h) PROVE PubInv'
  <2>1. path' = path /\ pub' = pub
    BY <1>1, <1>3, RegistrySteps
  <2>2. CASE Store(h)
    <3>1. m' = [m EXCEPT ![path[h]] = stream[h]] /\ hpc[h] = "store"
      BY <2>2 DEF Store, Goto
    <3>2. stream[h] = h /\ pub[h] = Nil
      BY <1>1, <3>1 DEF EntryInv, AllocInv
    <3>3. tenure' = tenure /\ born' = born
      BY <1>3, <3>1, Histories
    <3> QED
      BY <1>1, <2>1, <3>1, <3>2, <3>3 DEF PubInv
  <2>3. CASE hpc[h] = "delete" /\ n[stream[h]] = 0
    <3>1. /\ tenure' = [tenure EXCEPT ![path[h]] = @ + 1] /\ born' = born
          /\ m' = [m EXCEPT ![path[h]] = Nil]
      BY <1>3, <2>3, Histories
    <3> QED
      BY <1>1, <2>1, <3>1 DEF PubInv, ServerTypes
  <2>4. CASE ~Store(h) /\ ~(hpc[h] = "delete" /\ n[stream[h]] = 0)
    <3>1. m' = m
      BY <1>3, <2>4 DEF Register, Unregister, Add, Return, Remove, Lock, Lookup, Incr, Unlock, Decr,
                        Delete, Goto
    <3>2. tenure' = tenure /\ \A g \in Handlers : hpc[g] # "lookup" => born'[g] = born[g]
      BY <1>3, <2>4, Histories DEF ServerTypes
    <3>3. \A k \in Paths : pub[m[k]] \in Handlers => hpc[pub[m[k]]] # "lookup" \/ m[k] = Nil
      BY <1>1 DEF FreshInv, InAdd
    <3> QED
      BY <1>1, <2>1, <3>1, <3>2, <3>3 DEF PubInv, ServerTypes
  <2> QED
    BY <2>2, <2>3, <2>4
<1>4. CASE UNCHANGED svars
  BY <1>4 DEF svars, servevars, vars, PubInv
<1> QED
  BY <1>2, <1>3, <1>4, StepKinds

\* A player reads the publisher of the entry of its path.
LEMMA NextMeet ==
    /\ Inv /\ ServerTypes /\ FreshInv /\ BornInv /\ PubInv /\ MeetInv /\ [ServerNext]_svars
    => MeetInv'
<1> SUFFICES ASSUME Inv, ServerTypes, FreshInv, BornInv, PubInv, MeetInv, [ServerNext]_svars
             PROVE  MeetInv'
  OBVIOUS
<1> USE StreamsAssumption
<1>1. /\ TypeOK /\ path \in [Handlers -> Paths] /\ m \in [Paths -> Handlers \union {Nil}]
  BY DEF Inv, TypeOK
<1>2. ASSUME NEW h \in Handlers,
             \/ PubStep(h) \/ ReadPacket(h) \/ ReadErr(h)
             \/ SubStep(h) \/ Closed(h) \/ WriteFail(h) \/ PeerClose(h)
      PROVE  MeetInv'
  <2>1. /\ hpc[h] = "serving" /\ stream[h] \in Handlers /\ m[path[h]] = stream[h]
        /\ UNCHANGED <<path, born>>
        /\ \A g \in Handlers : lastsp'[g] = lastsp[g] \/ lastsp'[g] = Nil
                                  \/ (g = h /\ lastsp'[g] = pub[stream[h]])
        /\ \A g \in Handlers : seen'[g].src = seen[g].src \/ (g = h /\ seen'[g].src = lastsp[g])
    BY <1>2, Meetings
  <2>2. Met(h, pub[stream[h]])
    <3>1. born[h] = tenure[path[h]]
      BY <2>1 DEF BornInv, HasStream
    <3> QED
      BY <1>1, <2>1, <3>1 DEF Met, PubInv
  <2>3. \A g \in Handlers : Met(g, lastsp'[g]) /\ Met(g, seen'[g].src)
    BY <2>1, <2>2 DEF MeetInv, Met
  <2> QED
    BY <2>1, <2>3 DEF MeetInv, Met
<1>3. ASSUME NEW h \in Handlers, Register(h) \/ Unregister(h) PROVE MeetInv'
  <2>1. UNCHANGED <<lastsp, seen, path>>
    BY <1>1, <1>3, RegistrySteps
  <2>2. \A g \in Handlers : hpc[g] # "lookup" => born'[g] = born[g]
    BY <1>3, Histories DEF ServerTypes
  <2>3. \A g \in Handlers : hpc[g] = "lookup" =>
            /\ lastsp[g] = Nil /\ seen[g].src = Nil
            /\ \A f \in Handlers : lastsp[f] # g /\ seen[f].src # g
    BY DEF FreshInv, InAdd
  <2>4. ASSUME NEW g \in Handlers PROVE Met(g, lastsp[g])' /\ Met(g, seen[g].src)'
    <3>1. lastsp[g] \in Handlers \union {Nil} /\ seen[g].src \in Handlers \union {Nil}
      BY DEF ServerTypes
    <3>2. lastsp[g] # Nil => Met(g, lastsp[g])'
      BY <2>1, <2>2, <2>3, <3>1 DEF MeetInv, Met
    <3>3. seen[g].src # Nil => Met(g, seen[g].src)'
      BY <2>1, <2>2, <2>3, <3>1 DEF MeetInv, Met
    <3> QED
      BY <2>1, <3>2, <3>3 DEF Met
  <2> QED
    BY <2>1, <2>4 DEF MeetInv
<1>4. CASE UNCHANGED svars
  BY <1>4 DEF svars, servevars, vars, MeetInv, Met
<1> QED
  BY <1>2, <1>3, <1>4, StepKinds

\* The invariant of the registry carries over, and the one above is
\* inductive relative to it.
LEMMA ServerInvHolds == ServerSpec => [](Inv /\ ServerInv)
<1>1. ServerSpec => []Inv
  BY ImplementsStreams, InvHolds, PTL
<1>2. Inv /\ ServerInv /\ [ServerNext]_svars => ServerInv'
  BY NextTypes, NextFresh, NextAlloc, NextStop, NextBorn, NextPub, NextMeet DEF ServerInv
<1> QED
  BY <1>1, <1>2, InitServerInv, PTL DEF ServerSpec

\* A player is never fed by a publisher of another name, nor by one of a tenure
\* that was over when the player came.
THEOREM NobodyFromThePast == ServerSpec => []NothingFromThePast
<1>1. Inv /\ ServerInv => NothingFromThePast
  <2> SUFFICES ASSUME Inv, ServerInv, NEW h \in Handlers, seen[h].src # Nil
               PROVE  /\ Name(url[seen[h].src]) = Name(url[h])
                      /\ born[seen[h].src] = born[h]
    BY DEF NothingFromThePast
  <2> DEFINE p == seen[h].src
  <2>1. p \in Handlers /\ path[p] = path[h] /\ born[p] = born[h]
    BY DEF ServerInv, ServerTypes, MeetInv, Met
  <2>2. ServerPath(url[p]) = ServerPath(url[h]) /\ url[p] \in Urls /\ url[h] \in Urls
    BY <2>1 DEF ServerInv, ServerTypes
  <2>3. Name(url[p]) = Named(ServerPath(url[p])) /\ Name(url[h]) = Named(ServerPath(url[h]))
    BY <2>2, ServerAssumption, NamesSurvive DEF Name
  <2> QED
    BY <2>1, <2>2, <2>3
<1> QED
  BY <1>1, ServerInvHolds, PTL

\* At most one of the clients that publish under one name is neither stopped nor
\* about to be.
THEOREM OnePublisherPerName == ServerSpec => []OnePublisher
<1>1. Inv /\ ServerInv => OnePublisher
  <2> SUFFICES ASSUME Inv, ServerInv, NEW g \in Handlers, NEW h \in Handlers,
                      Unchallenged(g), Unchallenged(h), Name(url[g]) = Name(url[h]),
                      Slashes(URLPath(url[g])) > 1, Slashes(URLPath(url[h])) > 1
               PROVE  g = h
    BY DEF OnePublisher
  <2>1. url[g] \in Urls /\ url[h] \in Urls
    BY DEF ServerInv, ServerTypes
  <2>2. ServerPath(url[g]) = URLPath(url[g]) /\ ServerPath(url[h]) = URLPath(url[h])
    BY <2>1, ServerAssumption, NamesSurvive
  <2>3. Slashes(URLPath(url[g])) # 1 /\ Slashes(URLPath(url[h])) # 1
    OBVIOUS
  <2>4. path[g] = path[h]
    BY <2>2, <2>3 DEF Name, Named, ServerInv, ServerTypes
  <2>5. stream[g] = stream[h]
    BY <2>4 DEF Unchallenged, Inv, StreamsInv, EntryInv, Entered
  <2>6. pub[stream[g]] = g /\ pub[stream[h]] = h
    BY DEF Unchallenged, ServerInv, StopInv
  <2> QED
    BY <2>5, <2>6
<1> QED
  BY <1>1, ServerInvHolds, PTL
=============================================================================
