------------------------------ MODULE SeqFacts ------------------------------
(***************************************************************************)
(* Facts about recursion on sequences that the other proofs rest on.       *)
(*                                                                         *)
(* The induction theorems of the library are about predicates.  Here they  *)
(* are about sets: what holds of 0, and of n + 1 if of n, is a set of      *)
(* which every natural number is an element.  From that follow the         *)
(* existence of functions defined by recursion, and what FlattenSeq does.  *)
(* Parts of sequences and division follow.                                 *)
(***************************************************************************)
EXTENDS Integers, Sequences, SequencesExt, SequenceTheorems, WellFoundedInduction, TLAPS

LEMMA LeastNat ==
    ASSUME NEW T \in SUBSET Nat, T # {}
    PROVE  \E x \in T : \A y \in T : x <= y
<1> DEFINE R == OpToRel(<, Nat)
<1>1. IsWellFoundedOn(R, Nat)
      BY NatLessThanWellFounded
<1>2. \A x, y \in Nat : x < y => <<x, y>> \in R
      BY DEF OpToRel
<1> HIDE DEF R
<1>3. PICK x \in T : \A y \in T : ~(<<y, x>> \in R)
      BY <1>1, WFMin
<1>4. \A y \in T : x <= y
  <2> TAKE y \in T
  <2>1. x \in Nat /\ y \in Nat /\ ~(y < x)
        BY <1>2, <1>3
  <2> QED  BY <2>1
<1> QED  BY <1>4

LEMMA NatSet ==
    ASSUME NEW P, 0 \in P, \A n \in Nat : n \in P => n + 1 \in P
    PROVE  Nat \subseteq P
<1> DEFINE T == Nat \ P
<1> SUFFICES ASSUME T # {}
             PROVE  FALSE
    OBVIOUS
<1>1. PICK x \in T : \A y \in T : x <= y
  <2>1. T \in SUBSET Nat
        OBVIOUS
  <2> HIDE DEF T
  <2> QED  BY LeastNat, <2>1
<1>2. x \in Nat /\ x # 0
      OBVIOUS
<1>3. x - 1 \in Nat /\ x - 1 \in P
      BY <1>1, <1>2
<1>4. (x - 1) + 1 \in P
      BY <1>3
<1>5. (x - 1) + 1 = x
      BY <1>2
<1> QED  BY <1>4, <1>5

-----------------------------------------------------------------------------
(* Recursion                                                               *)

\* The function that is a at 0 and step[<<n, f[n]>>] at n + 1.
Recursion(f, n, S, a, step) ==
    /\ f \in [0..n -> S]
    /\ f[0] = a
    /\ \A i \in 0..n - 1 : f[i + 1] = step[<<i, f[i]>>]

LEMMA RecursionExists ==
    ASSUME NEW S, NEW a \in S, NEW step \in [Nat \X S -> S], NEW n \in Nat
    PROVE  \E f : Recursion(f, n, S, a, step)
<1> DEFINE P == {m \in Nat : \E f : Recursion(f, m, S, a, step)}
<1>1. 0 \in P
  <2> DEFINE f == [i \in 0..0 |-> a]
  <2>1. f \in [0..0 -> S] /\ f[0] = a /\ \A i \in 0..0 - 1 : FALSE
        OBVIOUS
  <2>2. Recursion(f, 0, S, a, step)
        BY <2>1 DEF Recursion
  <2> QED  BY <2>2
<1>2. ASSUME NEW m \in Nat, m \in P
      PROVE  m + 1 \in P
  <2>1. PICK f : Recursion(f, m, S, a, step)
        BY <1>2
  <2>2. /\ f \in [0..m -> S] /\ f[0] = a
        /\ \A i \in 0..m - 1 : f[i + 1] = step[<<i, f[i]>>]
        BY <2>1 DEF Recursion
  <2> DEFINE x == step[<<m, f[m]>>]
             g == [i \in 0..m + 1 |-> IF i = m + 1 THEN x ELSE f[i]]
  <2>3. x \in S
    <3>1. m \in 0..m
          OBVIOUS
    <3>2. f[m] \in S
          BY <2>2, <3>1
    <3> QED  BY <3>2
  <2>4. \A i \in 0..m : g[i] = f[i]
        OBVIOUS
  <2>5. g[m + 1] = x /\ m + 1 \in Nat
        OBVIOUS
  <2>6. g \in [0..m + 1 -> S]
    <3> SUFFICES ASSUME NEW i \in 0..m + 1
                 PROVE  (IF i = m + 1 THEN x ELSE f[i]) \in S
        OBVIOUS
    <3>1. i = m + 1 \/ i \in 0..m
          OBVIOUS
    <3> QED  BY <2>2, <2>3, <3>1
  <2>7. \A i \in 0..(m + 1) - 1 : g[i + 1] = step[<<i, g[i]>>]
    <3> TAKE i \in 0..(m + 1) - 1
    <3>1. CASE i = m
      <4>1. g[m] = f[m]
            BY <2>4
      <4> QED  BY <3>1, <4>1, <2>5
    <3>2. CASE i # m
      <4>1. i \in 0..m - 1 /\ i \in 0..m /\ i + 1 \in 0..m
            BY <3>2
      <4>2. g[i + 1] = f[i + 1] /\ g[i] = f[i]
            BY <4>1, <2>4
      <4> QED  BY <4>1, <4>2, <2>2
    <3> QED  BY <3>1, <3>2
  <2>8. g[0] = a
    <3>1. 0 \in 0..m
          OBVIOUS
    <3> QED  BY <3>1, <2>2, <2>4
  <2> HIDE DEF g
  <2>9. Recursion(g, m + 1, S, a, step)
        BY <2>6, <2>7, <2>8 DEF Recursion
  <2> QED  BY <2>5, <2>9
<1> HIDE DEF P
<1>3. n \in P
      BY <1>1, <1>2, NatSet
<1> QED  BY <1>3 DEF P

-----------------------------------------------------------------------------
(* FlattenSeq                                                              *)

\* f[i] is the concatenation of the first i elements of s.
Concats(s, f) ==
    /\ f[0] = <<>>
    /\ \A i \in 1..Len(s) : f[i] = f[i - 1] \o s[i]

LEMMA ConcatsExist ==
    ASSUME NEW A, NEW s \in Seq(Seq(A))
    PROVE  \E f \in [0..Len(s) -> Seq(A)] : Concats(s, f)
<1> DEFINE S == Seq(A)
           n == Len(s)
           step == [p \in Nat \X S |-> IF p[1] + 1 \in 1..n THEN p[2] \o s[p[1] + 1] ELSE <<>>]
<1>1. n \in Nat /\ <<>> \in S
      BY EmptySeq
<1>2. \A i \in 1..n : s[i] \in S
      BY ElementOfSeq
<1>3. \A t, u \in S : t \o u \in S
      BY ConcatProperties
<1>4. \A i \in Nat, t \in S : <<i, t>> \in Nat \X S /\ <<i, t>>[1] = i /\ <<i, t>>[2] = t
      OBVIOUS
<1>s. s \in Seq(S)
      OBVIOUS
<1> HIDE DEF S, n
<1>5. step \in [Nat \X S -> S]
      BY <1>1, <1>2, <1>3
<1>6. \A i \in Nat, t \in S : i + 1 \in 1..n => step[<<i, t>>] = t \o s[i + 1]
      BY <1>4
<1> HIDE DEF step
<1>7. PICK f : Recursion(f, n, S, <<>>, step)
      BY <1>1, <1>5, RecursionExists
<1>8. /\ f \in [0..n -> S] /\ f[0] = <<>>
      /\ \A i \in 0..n - 1 : f[i + 1] = step[<<i, f[i]>>]
      BY <1>7 DEF Recursion
<1>9. \A i \in 1..n : f[i] = f[i - 1] \o s[i]
  <2> TAKE i \in 1..n
  <2>1. i - 1 \in 0..n - 1 /\ i - 1 \in 0..n /\ i - 1 \in Nat /\ (i - 1) + 1 = i
        BY <1>1
  <2>2. f[i] = step[<<i - 1, f[i - 1]>>] /\ f[i - 1] \in S
        BY <2>1, <1>8
  <2> QED  BY <2>1, <2>2, <1>6
<1> QED  BY <1>8, <1>9 DEF Concats, S, n

\* FlattenSeq computes the last of them.
LEMMA FlattenIs ==
    ASSUME NEW A, NEW s \in Seq(Seq(A)), NEW f \in [0..Len(s) -> Seq(A)], Concats(s, f)
    PROVE  FlattenSeq(s) = f[Len(s)]
<1> DEFINE n == Len(s)
           Eq(g) == g = [i \in 1..n |-> IF i = 1 THEN s[i] ELSE g[i - 1] \o s[i]]
           h == CHOOSE g : Eq(g)
<1>1. n \in Nat
      OBVIOUS
<1>2. CASE n = 0
  <2>1. s = <<>>
        BY <1>2, EmptySeq
  <2>2. FlattenSeq(s) = s
        BY <1>2 DEF FlattenSeq
  <2> QED  BY <1>2, <2>1, <2>2 DEF Concats
<1>3. CASE n # 0
  <2>1. FlattenSeq(s) = h[n]
        BY <1>3 DEF FlattenSeq
  <2>2. f[0] = <<>> /\ \A i \in 1..n : f[i] = f[i - 1] \o s[i]
        BY DEF Concats
  <2>3. \A i \in 1..n : s[i] \in Seq(A)
        BY ElementOfSeq
  <2>4. \A t \in Seq(A) : <<>> \o t = t
        OBVIOUS
  <2>5. f[1] = s[1]
    <3>1. 1 \in 1..n /\ 1 - 1 = 0
          BY <1>1, <1>3
    <3> QED  BY <3>1, <2>2, <2>3, <2>4
  <2> HIDE DEF n
  <2>6. Eq([i \in 1..n |-> f[i]])
    <3> DEFINE g == [i \in 1..n |-> f[i]]
    <3>1. \A i \in 1..n : g[i] = IF i = 1 THEN s[i] ELSE g[i - 1] \o s[i]
      <4> TAKE i \in 1..n
      <4>1. CASE i = 1
            BY <4>1, <2>5
      <4>2. CASE i # 1
        <5>1. i - 1 \in 1..n
              BY <1>1, <4>2
        <5>2. g[i - 1] = f[i - 1] /\ g[i] = f[i]
              BY <5>1
        <5> QED  BY <5>2, <4>2, <2>2
      <4> QED  BY <4>1, <4>2
    <3> QED  BY <3>1
  <2>7. Eq(h)
    <3> HIDE DEF Eq
    <3> QED  BY <2>6
  <2>8. \A i \in 1..n : h[i] = IF i = 1 THEN s[i] ELSE h[i - 1] \o s[i]
    <3> HIDE DEF h
    <3> QED  BY <2>7
  <2> HIDE DEF h
  <2> DEFINE P == {m \in Nat : m \in 1..n => h[m] = f[m]}
  <2>9. 0 \in P
        OBVIOUS
  <2>10. ASSUME NEW m \in Nat, m \in P
         PROVE  m + 1 \in P
    <3> SUFFICES ASSUME m + 1 \in 1..n
                 PROVE  h[m + 1] = f[m + 1]
        OBVIOUS
    <3>1. CASE m = 0
          BY <3>1, <2>5, <2>8
    <3>2. CASE m # 0
      <4>1. m \in 1..n /\ (m + 1) - 1 = m /\ m + 1 # 1
            BY <1>1, <3>2
      <4>2. h[m] = f[m]
            BY <2>10, <4>1
      <4>3. h[m + 1] = h[m] \o s[m + 1]
            BY <2>8, <4>1
      <4>4. f[m + 1] = f[m] \o s[m + 1]
            BY <2>2, <4>1
      <4> QED  BY <4>2, <4>3, <4>4
    <3> QED  BY <3>1, <3>2
  <2> HIDE DEF P
  <2>11. n \in P
         BY <1>1, <2>9, <2>10, NatSet
  <2>12. n \in 1..n
         BY <1>1, <1>3
  <2>13. h[n] = f[n]
         BY <2>11, <2>12 DEF P
  <2> QED  BY <2>1, <2>13 DEF n
<1> QED  BY <1>2, <1>3

\* Nothing is nothing.
LEMMA FlattenEmpty == FlattenSeq(<<>>) = <<>>
BY DEF FlattenSeq

\* Of one element more, its elements come last.
LEMMA FlattenAppend ==
    ASSUME NEW A, NEW s \in Seq(Seq(A)), NEW t \in Seq(A)
    PROVE  FlattenSeq(Append(s, t)) = FlattenSeq(s) \o t /\ FlattenSeq(s) \in Seq(A)
<1> DEFINE S == Seq(A)  n == Len(s)  u == Append(s, t)
<1>1. n \in Nat /\ u \in Seq(S) /\ Len(u) = n + 1 /\ (\A i \in 1..n : u[i] = s[i]) /\ u[n + 1] = t
      BY AppendProperties
<1>2. PICK f \in [0..n + 1 -> S] : Concats(u, f)
      BY <1>1, ConcatsExist
<1>3. f[0] = <<>> /\ \A i \in 1..n + 1 : f[i] = f[i - 1] \o u[i]
      BY <1>1, <1>2 DEF Concats
<1>4. FlattenSeq(u) = f[n + 1]
      BY <1>1, <1>2, FlattenIs
<1> DEFINE g == [i \in 0..n |-> f[i]]
<1>5. g \in [0..n -> S] /\ \A i \in 0..n : g[i] = f[i]
  <2>1. \A i \in 0..n : i \in 0..n + 1
        BY <1>1
  <2> HIDE DEF S, n, u
  <2> QED  BY <2>1, <1>2
<1> HIDE DEF g, u
<1>6. Concats(s, g)
  <2>1. g[0] = <<>>
        BY <1>1, <1>3, <1>5
  <2>2. \A i \in 1..n : g[i] = g[i - 1] \o s[i]
    <3> HIDE DEF n
    <3> TAKE i \in 1..n
    <3>1. i \in 0..n /\ i - 1 \in 0..n /\ i \in 1..n + 1
          BY <1>1
    <3>2. f[i] = f[i - 1] \o s[i]
          BY <3>1, <1>1, <1>3
    <3> QED  BY <3>1, <3>2, <1>5
  <2> QED  BY <2>1, <2>2 DEF Concats
<1>7. FlattenSeq(s) = g[n]
      BY <1>5, <1>6, FlattenIs
<1> HIDE DEF n, S
<1>8. n \in 0..n /\ n + 1 \in 1..n + 1 /\ (n + 1) - 1 = n
      BY <1>1
<1>9. f[n + 1] = f[n] \o t
      BY <1>1, <1>3, <1>8
<1>10. g[n] = f[n] /\ g[n] \in S
      BY <1>5, <1>8
<1> QED  BY <1>4, <1>7, <1>9, <1>10 DEF u, S

\* One sequence is joined to itself.
LEMMA FlattenOne ==
    ASSUME NEW A, NEW t \in Seq(A)
    PROVE  FlattenSeq(<<t>>) = t
<1> DEFINE S == Seq(A)  e == <<>>
<1>1. e \in Seq(S) /\ e \in S
      OBVIOUS
<1>2. Append(e, t) = <<t>>
      OBVIOUS
<1>3. FlattenSeq(e) = e
      BY FlattenEmpty
<1> HIDE DEF S
<1>4. FlattenSeq(Append(e, t)) = FlattenSeq(e) \o t
  <2> HIDE DEF e
  <2> QED  BY <1>1, FlattenAppend DEF S
<1>5. e \o t = t
      BY ConcatEmptySeq
<1> QED  BY <1>2, <1>3, <1>4, <1>5

\* Up to a later element there is more, and no more if that is nothing.
LEMMA FlattenUpTo ==
    ASSUME NEW A, NEW s \in Seq(Seq(A)), NEW a \in Nat, NEW b \in Nat, a <= b, b <= Len(s)
    PROVE  /\ FlattenSeq(SubSeq(s, 1, a)) \in Seq(A)
           /\ \E t \in Seq(A) :
                 /\ FlattenSeq(SubSeq(s, 1, b)) = FlattenSeq(SubSeq(s, 1, a)) \o t
                 /\ (\A i \in a + 1..b : s[i] = <<>>) => t = <<>>
<1> DEFINE S == Seq(A)  n == Len(s)  F(i) == FlattenSeq(SubSeq(s, 1, i))
<1>1. n \in Nat /\ s \in Seq(S) /\ (\A i \in 1..n : s[i] \in S) /\ <<>> \in S
      BY ElementOfSeq, EmptySeq
<1>2. ASSUME NEW i \in Nat, i <= n
      PROVE  F(i) \in S /\ (i + 1 <= n => F(i + 1) = F(i) \o s[i + 1])
  <2> DEFINE u == SubSeq(s, 1, i)  v == SubSeq(s, 1, i + 1)
  <2>1. u \in Seq(S) /\ Len(u) = i /\ \A j \in 1..i : u[j] = s[j]
    <3> HIDE DEF S
    <3> QED  BY <1>1, <1>2, SubSeqProperties
  <2>2. F(i) \in S
        BY <1>1, <2>1, FlattenAppend
  <2>3. ASSUME i + 1 <= n
        PROVE  F(i + 1) = F(i) \o s[i + 1]
    <3>1. i + 1 \in 1..n /\ s[i + 1] \in S
          BY <1>1, <2>3
    <3>2. v \in Seq(S) /\ Len(v) = i + 1 /\ \A j \in 1..i + 1 : v[j] = s[j]
      <4> HIDE DEF S
      <4> QED  BY <1>1, <2>3, SubSeqProperties
    <3>3. v = Append(u, s[i + 1])
      <4> DEFINE x == s[i + 1]  w == Append(u, x)
      <4>0. x \in S
            BY <3>1
      <4> HIDE DEF S, u, v, x
      <4>1. /\ w \in Seq(S) /\ Len(w) = i + 1
            /\ (\A j \in 1..i : w[j] = u[j]) /\ w[i + 1] = x
            BY <2>1, <4>0, AppendProperties
      <4> HIDE DEF w
      <4>2. \A j \in 1..i + 1 : v[j] = w[j]
        <5> TAKE j \in 1..i + 1
        <5>1. j = i + 1 \/ j \in 1..i
              OBVIOUS
        <5> QED  BY <5>1, <4>1, <3>2, <2>1 DEF x
      <4>3. v = w
            BY <3>2, <4>1, <4>2, SeqEqual
      <4> QED  BY <4>3 DEF w, x
    <3>4. FlattenSeq(Append(u, s[i + 1])) = FlattenSeq(u) \o s[i + 1]
      <4> HIDE DEF u
      <4> QED  BY <2>1, <3>1, FlattenAppend
    <3> QED  BY <3>3, <3>4
  <2> QED  BY <2>2, <2>3
<1> DEFINE None(c) == \A i \in a + 1..c : s[i] = <<>>
           Q(m) == a + m <= n =>
                      \E t \in S : F(a + m) = F(a) \o t /\ (None(a + m) => t = <<>>)
           P == {m \in Nat : Q(m)}
<1> HIDE DEF S, n, F
<1>c. /\ \A t, u \in S : t \o u \in S
      /\ \A t, u, w \in S : (t \o u) \o w = t \o (u \o w)
      /\ \A t \in S : t \o <<>> = t
      BY ConcatProperties, ConcatAssociative, ConcatEmptySeq DEF S
<1>3. 0 \in P
  <2>1. a + 0 = a /\ a <= n
        BY <1>1 DEF n
  <2>2. F(a) \in S /\ F(a) = F(a) \o <<>>
        BY <1>2, <1>c, <2>1
  <2> QED  BY <1>1, <2>1, <2>2
<1>4. ASSUME NEW m \in Nat, m \in P
      PROVE  m + 1 \in P
  <2>0. Q(m + 1) => m + 1 \in P
    <3> HIDE DEF Q
    <3> QED  OBVIOUS
  <2> SUFFICES ASSUME a + (m + 1) <= n
               PROVE  \E t \in S : F(a + (m + 1)) = F(a) \o t /\ (None(a + (m + 1)) => t = <<>>)
      BY <2>0
  <2>1. /\ a + m \in Nat /\ a + m <= n /\ a + (m + 1) = (a + m) + 1 /\ (a + m) + 1 <= n
        /\ (a + m) + 1 \in 1..n /\ a <= n
        BY <1>1
  <2>2. PICK t \in S : F(a + m) = F(a) \o t /\ (None(a + m) => t = <<>>)
        BY <1>4, <2>1
  <2> DEFINE x == s[(a + m) + 1]
  <2>3. x \in S /\ F((a + m) + 1) = F(a + m) \o x /\ F(a) \in S
        BY <1>1, <1>2, <2>1
  <2>4. F((a + m) + 1) = F(a) \o (t \o x) /\ t \o x \in S
    <3> HIDE DEF x
    <3>1. F((a + m) + 1) = (F(a) \o t) \o x
          BY <2>2, <2>3
    <3> QED  BY <3>1, <1>c, <2>3
  <2>5. None((a + m) + 1) => t \o x = <<>>
    <3> SUFFICES ASSUME None((a + m) + 1)
                 PROVE  t \o x = <<>>
        OBVIOUS
    <3>1. \A i \in a + 1..a + m : i \in a + 1..(a + m) + 1
          BY <2>1
    <3>2. (a + m) + 1 \in a + 1..(a + m) + 1
          BY <2>1
    <3>3. t = <<>> /\ x = <<>>
          BY <2>2, <3>1, <3>2
    <3> HIDE DEF x
    <3> QED  BY <1>1, <1>c, <3>3
  <2> QED  BY <2>1, <2>4, <2>5
<1> HIDE DEF P, None
<1>5. b - a \in P /\ a + (b - a) = b
  <2>1. b - a \in Nat /\ a + (b - a) = b
        OBVIOUS
  <2> QED  BY <2>1, <1>3, <1>4, NatSet
<1>6. \E t \in S : F(b) = F(a) \o t /\ (None(b) => t = <<>>)
      BY <1>5 DEF P, n
<1>7. F(a) \in S
      BY <1>1, <1>2 DEF n
<1> QED  BY <1>6, <1>7 DEF F, S, None

\* What more there is makes a prefix.
LEMMA PrefixConcat ==
    ASSUME NEW A, NEW s \in Seq(A), NEW t \in Seq(A)
    PROVE  IsPrefix(s, s \o t)
<1> DEFINE n == Len(s)  m == Len(t)  u == s \o t
<1>1. n \in Nat /\ m \in Nat /\ n <= n + m
      OBVIOUS
<1>2. u \in Seq(A) /\ Len(u) = n + m /\ \A i \in 1..n + m : u[i] = IF i <= n THEN s[i] ELSE t[i - n]
      BY ConcatProperties
<1>3. SubSeq(s, 1, n) = SubSeq(u, 1, n)
  <2> HIDE DEF m, u
  <2>1. /\ SubSeq(s, 1, n) \in Seq(A) /\ Len(SubSeq(s, 1, n)) = n
        /\ \A i \in 1..n : SubSeq(s, 1, n)[i] = s[i]
        BY <1>1, SubSeqProperties
  <2>2. /\ SubSeq(u, 1, n) \in Seq(A) /\ Len(SubSeq(u, 1, n)) = n
        /\ \A i \in 1..n : SubSeq(u, 1, n)[i] = u[i]
        BY <1>1, <1>2, SubSeqProperties
  <2>3. \A i \in 1..n : u[i] = s[i]
    <3> HIDE DEF n
    <3> TAKE i \in 1..n
    <3>1. i \in 1..n + m /\ i <= n
          BY <1>1
    <3> QED  BY <3>1, <1>2
  <2> QED  BY <2>1, <2>2, <2>3, SeqEqual
<1> QED  BY <1>1, <1>2, <1>3 DEF IsPrefix

-----------------------------------------------------------------------------
(* Parts of sequences                                                      *)

\* A part of a sequence.
LEMMA SliceIs ==
    ASSUME NEW A, NEW s \in Seq(A), NEW k \in 0..Len(s), NEW n \in 0..Len(s) - k
    PROVE  /\ SubSeq(s, k + 1, k + n) \in Seq(A) /\ Len(SubSeq(s, k + 1, k + n)) = n
           /\ \A i \in 1..n : SubSeq(s, k + 1, k + n)[i] = s[k + i]
<1>1. Len(s) \in Nat
      BY LenProperties
<1>2. \A i \in k + 1..k + n : s[i] \in A
  <2> TAKE i \in k + 1..k + n
  <2>1. i \in 1..Len(s)
        BY <1>1
  <2> QED  BY <2>1, ElementOfSeq
<1> DEFINE a == k + 1  b == k + n  u == SubSeq(s, a, b)
<1>3. a \in Int /\ b \in Int /\ \A i \in a..b : s[i] \in A
      BY <1>1, <1>2
<1>4. (IF a <= b THEN b - a + 1 ELSE 0) = n /\ b - a + 1 = n
      BY <1>1
<1>5. \A i \in 1..n : a + i - 1 = k + i
      BY <1>1
<1> HIDE DEF a, b
<1>6. /\ u \in Seq(A) /\ Len(u) = (IF a <= b THEN b - a + 1 ELSE 0)
      /\ \A i \in 1..b - a + 1 : u[i] = s[a + i - 1]
      BY <1>3, SubSeqProperties
<1> HIDE DEF u
<1>7. u \in Seq(A) /\ Len(u) = n /\ \A i \in 1..n : u[i] = s[k + i]
      BY <1>4, <1>5, <1>6
<1> QED  BY <1>7 DEF u, a, b

LEMMA SliceJoin ==
    ASSUME NEW A, NEW s \in Seq(A), NEW k \in 0..Len(s), NEW n \in 0..Len(s) - k
    PROVE  SubSeq(s, 1, k) \o SubSeq(s, k + 1, k + n) = SubSeq(s, 1, k + n)
<1>1. Len(s) \in Nat
      BY LenProperties
<1> DEFINE u == SubSeq(s, 1, k)  v == SubSeq(s, k + 1, k + n)  w == SubSeq(s, 1, k + n)
<1>2. u \in Seq(A) /\ Len(u) = k /\ \A i \in 1..k : u[i] = s[i]
  <2>1. 0 \in 0..Len(s) /\ k \in 0..Len(s) - 0 /\ 0 + 1 = 1 /\ 0 + k = k /\ \A i \in 1..k : 0 + i = i
        BY <1>1
  <2>2. /\ SubSeq(s, 0 + 1, 0 + k) \in Seq(A) /\ Len(SubSeq(s, 0 + 1, 0 + k)) = k
        /\ \A i \in 1..k : SubSeq(s, 0 + 1, 0 + k)[i] = s[0 + i]
        BY <2>1, SliceIs
  <2> QED  BY <2>1, <2>2
<1>3. v \in Seq(A) /\ Len(v) = n /\ \A i \in 1..n : v[i] = s[k + i]
      BY SliceIs
<1>4. w \in Seq(A) /\ Len(w) = k + n /\ \A i \in 1..k + n : w[i] = s[i]
  <2> DEFINE l == k + n
  <2>1. 0 \in 0..Len(s) /\ l \in 0..Len(s) - 0 /\ 0 + 1 = 1 /\ 0 + l = l /\ \A i \in 1..l : 0 + i = i
        BY <1>1
  <2> HIDE DEF l
  <2>2. /\ SubSeq(s, 0 + 1, 0 + l) \in Seq(A) /\ Len(SubSeq(s, 0 + 1, 0 + l)) = l
        /\ \A i \in 1..l : SubSeq(s, 0 + 1, 0 + l)[i] = s[0 + i]
        BY <2>1, SliceIs
  <2>3. SubSeq(s, 1, l) \in Seq(A) /\ Len(SubSeq(s, 1, l)) = l /\ \A i \in 1..l : SubSeq(s, 1, l)[i] = s[i]
        BY <2>1, <2>2
  <2> QED  BY <2>3 DEF l
<1> HIDE DEF u, v, w
<1>5. /\ u \o v \in Seq(A) /\ Len(u \o v) = Len(u) + Len(v)
      /\ \A i \in 1..Len(u) + Len(v) : (u \o v)[i] = IF i <= Len(u) THEN u[i] ELSE v[i - Len(u)]
      BY <1>2, <1>3, ConcatProperties
<1>6. Len(u \o v) = Len(w)
      BY <1>2, <1>3, <1>4, <1>5
<1>7. \A i \in 1..Len(u \o v) : (u \o v)[i] = w[i]
  <2> TAKE i \in 1..Len(u \o v)
  <2>1. i \in 1..k + n /\ i \in 1..Len(u) + Len(v) /\ Len(u) = k
        BY <1>2, <1>3, <1>5
  <2>2. CASE i <= k
    <3>1. i \in 1..k
          BY <2>1, <2>2
    <3> QED  BY <1>2, <1>4, <1>5, <2>1, <2>2, <3>1
  <2>3. CASE ~(i <= k)
    <3>1. i - k \in 1..n /\ k + (i - k) = i
          BY <2>1, <2>3
    <3> QED  BY <1>3, <1>4, <1>5, <2>1, <2>3, <3>1
  <2> QED  BY <2>2, <2>3
<1>8. u \o v = w
      BY <1>4, <1>5, <1>6, <1>7, SeqEqual
<1> QED  BY <1>8 DEF u, v, w

LEMMA PairIs == ASSUME NEW a, NEW b PROVE <<a>> \o <<b>> = <<a, b>>
<1> DEFINE A == {a, b}  s == <<a>>  t == <<b>>  u == <<a, b>>
<1>1. s \in Seq(A) /\ Len(s) = 1 /\ s[1] = a /\ t \in Seq(A) /\ Len(t) = 1 /\ t[1] = b
      OBVIOUS
<1>2. u \in Seq(A) /\ Len(u) = 2 /\ u[1] = a /\ u[2] = b
      OBVIOUS
<1> HIDE DEF A, s, t, u
<1>3. /\ s \o t \in Seq(A) /\ Len(s \o t) = 1 + 1
      /\ \A i \in 1..1 + 1 : (s \o t)[i] = IF i <= 1 THEN s[i] ELSE t[i - 1]
      BY <1>1, ConcatProperties
<1>4. (s \o t)[1] = s[1] /\ (s \o t)[2] = t[1]
      BY <1>3
<1>5. \A i \in 1..Len(u) : (s \o t)[i] = u[i]
  <2> TAKE i \in 1..Len(u)
  <2>1. i = 1 \/ i = 2
        BY <1>2
  <2> QED  BY <1>1, <1>2, <1>4, <2>1
<1>6. s \o t = u
      BY <1>2, <1>3, <1>5, SeqEqual
<1> QED  BY <1>6 DEF s, t, u

\* The first units of a message.
LEMMA FrontIs ==
    ASSUME NEW A, NEW s \in Seq(A), NEW k \in 0..Len(s)
    PROVE  SubSeq(s, 1, k) \in Seq(A) /\ Len(SubSeq(s, 1, k)) = k
<1>1. 0 \in 0..Len(s) /\ k \in 0..Len(s) - 0 /\ 0 + 1 = 1 /\ 0 + k = k
      BY LenProperties
<1>2. SubSeq(s, 0 + 1, 0 + k) \in Seq(A) /\ Len(SubSeq(s, 0 + 1, 0 + k)) = k
      BY <1>1, SliceIs
<1> QED  BY <1>1, <1>2

LEMMA FrontAll ==
    ASSUME NEW A, NEW s \in Seq(A)
    PROVE  SubSeq(s, 1, Len(s)) = s
<1>1. Len(s) \in Nat
      BY LenProperties
<1>2. 0 \in 0..Len(s) /\ Len(s) \in 0..Len(s) - 0 /\ 0 + 1 = 1 /\ 0 + Len(s) = Len(s)
      /\ \A i \in 1..Len(s) : 0 + i = i
      BY <1>1
<1>3. /\ SubSeq(s, 0 + 1, 0 + Len(s)) \in Seq(A) /\ Len(SubSeq(s, 0 + 1, 0 + Len(s))) = Len(s)
      /\ \A i \in 1..Len(s) : SubSeq(s, 0 + 1, 0 + Len(s))[i] = s[0 + i]
      BY <1>2, SliceIs
<1>4. /\ SubSeq(s, 1, Len(s)) \in Seq(A) /\ Len(SubSeq(s, 1, Len(s))) = Len(s)
      /\ \A i \in 1..Len(s) : SubSeq(s, 1, Len(s))[i] = s[i]
      BY <1>2, <1>3
<1> QED  BY <1>4, SeqEqual

-----------------------------------------------------------------------------
(* Sequences that grow                                                     *)

LEMMA AppendIs ==
    ASSUME NEW A, NEW s \in Seq(A), NEW x \in A, NEW u \in Seq(A), Len(u) = Len(s) + 1,
           \A i \in 1..Len(s) : u[i] = s[i], u[Len(s) + 1] = x
    PROVE  u = Append(s, x)
<1> DEFINE a == Append(s, x)  n == Len(s)
<1>1. /\ a \in Seq(A) /\ Len(a) = n + 1 /\ (\A i \in 1..n : a[i] = s[i]) /\ a[n + 1] = x /\ n \in Nat
      BY AppendProperties, LenProperties
<1> HIDE DEF a
<1>2. \A i \in 1..Len(u) : a[i] = u[i]
  <2> TAKE i \in 1..Len(u)
  <2>1. i \in 1..n \/ i = n + 1
        BY <1>1
  <2> QED  BY <1>1, <2>1
<1>3. a = u
      BY <1>1, <1>2, SeqEqual
<1> QED  BY <1>3 DEF a

\* What each element contributes, joined.
Joined(F, s) == FlattenSeq([i \in 1..Len(s) |-> F[s[i]]])

\* Of one element more, its part comes last.
LEMMA FlattenMap ==
    ASSUME NEW A, NEW D, NEW F \in [D -> Seq(A)], NEW s \in Seq(D), NEW x \in D
    PROVE  Joined(F, Append(s, x)) = Joined(F, s) \o F[x] /\ Joined(F, s) \in Seq(A)
<1> DEFINE S == Seq(A)  n == Len(s)  u == Append(s, x)
           f == [i \in 1..n |-> F[s[i]]]  g == [i \in 1..n + 1 |-> F[u[i]]]
<1>1. n \in Nat /\ u \in Seq(D) /\ Len(u) = n + 1 /\ (\A i \in 1..n : u[i] = s[i]) /\ u[n + 1] = x
      BY AppendProperties, LenProperties
<1> HIDE DEF u, n, S
<1>2. (\A i \in 1..n : s[i] \in D) /\ \A i \in 1..n + 1 : u[i] \in D
      BY <1>1, ElementOfSeq DEF n
<1>3. f \in Seq(S) /\ Len(f) = n /\ \A i \in 1..n : f[i] = F[s[i]]
  <2>1. \A i \in 1..n : F[s[i]] \in S
        BY <1>2 DEF S
  <2> QED  BY <1>1, <2>1
<1>4. g \in Seq(S) /\ Len(g) = n + 1 /\ \A i \in 1..n + 1 : g[i] = F[u[i]]
  <2>1. \A i \in 1..n + 1 : F[u[i]] \in S
        BY <1>2 DEF S
  <2> QED  BY <1>1, <2>1
<1> HIDE DEF f, g
<1>5. \A i \in 1..n : g[i] = f[i]
  <2> TAKE i \in 1..n
  <2>1. i \in 1..n + 1
        BY <1>1
  <2>2. g[i] = F[u[i]]
        BY <1>4, <2>1
  <2>3. f[i] = F[s[i]] /\ u[i] = s[i]
        BY <1>1, <1>3
  <2> QED  BY <2>2, <2>3
<1>6. g[n + 1] = F[x] /\ F[x] \in S
  <2>1. n + 1 \in 1..n + 1
        BY <1>1
  <2> QED  BY <1>1, <1>4, <2>1 DEF S
<1>7. g = Append(f, F[x])
      BY <1>3, <1>4, <1>5, <1>6, AppendIs
<1>8. FlattenSeq(Append(f, F[x])) = FlattenSeq(f) \o F[x] /\ FlattenSeq(f) \in Seq(A)
      BY <1>3, <1>6, FlattenAppend DEF S
<1>9. /\ [i \in 1..Len(s) |-> F[s[i]]] = f
      /\ [i \in 1..Len(Append(s, x)) |-> F[Append(s, x)[i]]] = g
      BY <1>1 DEF f, g, u, n
<1> QED  BY <1>7, <1>8, <1>9 DEF Joined

\* Joining a header and data, and taking them apart.
LEMMA ConcatParts ==
    ASSUME NEW A, NEW s \in Seq(A), NEW t \in Seq(A)
    PROVE  /\ s \o t \in Seq(A) /\ Len(s \o t) = Len(s) + Len(t)
           /\ SubSeq(s \o t, Len(s) + 1, Len(s \o t)) = t
           /\ \A i \in 1..Len(s) : (s \o t)[i] = s[i]
<1> DEFINE n == Len(s)  m == Len(t)  u == s \o t
<1>1. n \in Nat /\ m \in Nat
      OBVIOUS
<1>2. u \in Seq(A) /\ Len(u) = n + m /\ \A i \in 1..n + m : u[i] = IF i <= n THEN s[i] ELSE t[i - n]
      BY ConcatProperties
<1> HIDE DEF n, m, u
<1>3. n + 1 \in 1..n + m + 1 /\ n + m \in n..n + m /\ (n + m) - (n + 1) + 1 = m
      BY <1>1
<1>4. /\ SubSeq(u, n + 1, n + m) \in Seq(A) /\ Len(SubSeq(u, n + 1, n + m)) = m
      /\ \A i \in 1..m : SubSeq(u, n + 1, n + m)[i] = u[(n + 1) + i - 1]
      BY <1>1, <1>2, <1>3, SubSeqProperties
<1>5. SubSeq(u, n + 1, n + m) = t
  <2>1. \A i \in 1..m : u[(n + 1) + i - 1] = t[i]
    <3> TAKE i \in 1..m
    <3>1. (n + 1) + i - 1 \in 1..n + m /\ ~((n + 1) + i - 1 <= n) /\ ((n + 1) + i - 1) - n = i
          BY <1>1
    <3> QED  BY <3>1, <1>2
  <2>2. Len(t) = m /\ t \in Seq(A)
        BY DEF m
  <2> DEFINE v == SubSeq(u, n + 1, n + m)
  <2>3. v \in Seq(A) /\ Len(v) = m /\ \A i \in 1..m : v[i] = t[i]
        BY <1>4, <2>1
  <2> HIDE DEF v
  <2>4. v = t
        BY <2>2, <2>3, SeqEqual
  <2> QED  BY <2>4 DEF v
<1>6. \A i \in 1..n : u[i] = s[i]
  <2> TAKE i \in 1..n
  <2>1. i \in 1..n + m /\ i <= n
        BY <1>1
  <2> QED  BY <2>1, <1>2
<1> QED  BY <1>2, <1>5, <1>6 DEF n, m, u

-----------------------------------------------------------------------------
(* Arithmetic                                                              *)

\* Division and remainder.
LEMMA DivMod ==
    ASSUME NEW a \in Int, NEW m \in Nat \ {0}
    PROVE  a = m * (a \div m) + (a % m) /\ a % m \in 0..m - 1 /\ a \div m \in Int
OBVIOUS

=============================================================================
