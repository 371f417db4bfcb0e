---------------------------- MODULE CatalogProofs ----------------------------
(***************************************************************************)
(* Lemmas about the operations of a Swagger document, for every document   *)
(* of the assumed shape: what is collected, resolved, sorted and indexed   *)
(* is each of its operations, and nothing else.                            *)
(*                                                                         *)
(* What recursive functions compute is shown by the least place where it   *)
(* would be something else (LeastNumber): first for the operators on       *)
(* sequences, then for the snapshot.                                       *)
(***************************************************************************)
EXTENDS Catalog, FiniteSetTheorems, TLAPS

\* A set of numbers has a least one: a property of all of them is proved by looking at
\* the least that does not have it.
LEMMA LeastNumber == ASSUME NEW T \in SUBSET Nat, T # {} PROVE \E n \in T : \A m \in T : n <= m
PROOF
  <1>1. PICK k \in T : TRUE
    OBVIOUS
  <1> DEFINE S     == 1 .. k
             R     == StrictSubsetOrdering(S)
             Heads == {1 .. n : n \in {m \in T : m <= k}}
  <1>2. IsFiniteSet(S)
    BY FS_Interval
  <1>3. IsWellFoundedOn(R, SUBSET S)
    <2>1. FiniteSubsetsOf(S) = SUBSET S
      BY <1>2, FS_FiniteSubsetsOfFinite
    <2>2. QED
      BY <2>1, FS_StrictSubsetOrderingWellFounded
  <1>4. Heads \subseteq SUBSET S
    OBVIOUS
  <1>5. PICK X \in Heads : \A Y \in Heads : ~ (<<Y, X>> \in R)
    <2>1. Heads # {}
      <3>1. 1 .. k \in Heads
        OBVIOUS
      <3>2. QED
        BY <3>1
    <2> HIDE DEF Heads, R, S
    <2>2. QED
      BY <1>3, <1>4, <2>1, WFMin
  <1>6. PICK n \in {m \in T : m <= k} : X = 1 .. n
    OBVIOUS
  <1>7. ASSUME NEW m \in T, m < n PROVE FALSE
    <2>1. 1 .. m \in Heads
      BY <1>7
    <2>2. 1 .. m \subseteq 1 .. n /\ 1 .. m # 1 .. n
      BY <1>7
    <2>3. <<1 .. m, 1 .. n>> \in R
      BY <1>4, <1>6, <2>1, <2>2 DEF StrictSubsetOrdering
    <2>4. QED
      BY <1>5, <1>6, <2>1, <2>3
  <1>8. QED
    BY <1>6, <1>7

\* Max is the largest of some places of a list.
LEMMA LargestNumber ==
    ASSUME NEW n \in Nat, NEW T \in SUBSET (1 .. n), T # {}
    PROVE  Max(T) \in T /\ \A m \in T : m <= Max(T)
PROOF
  <1> DEFINE U == {n - m : m \in T}
  <1>1. U \in SUBSET Nat /\ U # {}
    <2>1. \A m \in T : n - m \in Nat
      OBVIOUS
    <2>2. PICK m \in T : TRUE
      OBVIOUS
    <2>3. n - m \in U
      OBVIOUS
    <2>4. QED
      BY <2>1, <2>3
  <1>2. PICK u \in U : \A v \in U : u <= v
    BY <1>1, LeastNumber
  <1>3. PICK k \in T : u = n - k
    OBVIOUS
  <1>4. ASSUME NEW m \in T PROVE k >= m
    <2>1. n - k <= n - m
      BY <1>2, <1>3
    <2>2. QED
      BY <2>1
  <1>5. \E x \in T : \A y \in T : x >= y
    BY <1>4
  <1>6. Max(T) \in T /\ \A m \in T : Max(T) >= m
    BY <1>5 DEF Max
  <1>7. QED
    BY <1>6

-----------------------------------------------------------------------------
\* FlattenSeq

Flattening(f, ss, n) == f = [i \in 1 .. n |-> IF i = 1 THEN ss[i] ELSE f[i - 1] \o ss[i]]

\* The recursive function behind FlattenSeq is there, whatever the sequences.
LEMMA FlattenIsDefined ==
    ASSUME NEW ss, NEW n \in Nat
    PROVE  \E f : Flattening(f, ss, n)
PROOF
  <1> DEFINE Undefined == {k \in Nat : ~ \E f : Flattening(f, ss, k)}
  <1> SUFFICES ASSUME Undefined # {} PROVE FALSE
    OBVIOUS
  <1>1. PICK k \in Undefined : \A m \in Undefined : k <= m
    BY LeastNumber
  <1>2. CASE k = 0
    <2>1. Flattening([i \in 1 .. 0 |-> ss], ss, 0)
      BY DEF Flattening
    <2>2. QED
      BY <1>2, <2>1
  <1>3. CASE k # 0
    <2>1. k - 1 \in Nat /\ k - 1 \notin Undefined
      BY <1>1, <1>3
    <2>2. PICK g : Flattening(g, ss, k - 1)
      BY <2>1
    <2>3. \A i \in 1 .. (k - 1) : g[i] = IF i = 1 THEN ss[i] ELSE g[i - 1] \o ss[i]
      <3> DEFINE h == [i \in 1 .. (k - 1) |-> IF i = 1 THEN ss[i] ELSE g[i - 1] \o ss[i]]
      <3>1. g = h
        BY <2>2 DEF Flattening
      <3>2. \A i \in 1 .. (k - 1) : h[i] = IF i = 1 THEN ss[i] ELSE g[i - 1] \o ss[i]
        OBVIOUS
      <3> HIDE DEF h
      <3>3. QED
        BY <3>1, <3>2
    <2> DEFINE f == [i \in 1 .. k |-> IF i < k THEN g[i] ELSE IF k = 1 THEN ss[k] ELSE g[k - 1] \o ss[k]]
               F == [i \in 1 .. k |-> IF i = 1 THEN ss[i] ELSE f[i - 1] \o ss[i]]
    <2>4. ASSUME NEW i \in 1 .. k PROVE f[i] = F[i]
      <3>1. CASE i < k
        <4>1. i \in 1 .. (k - 1)
          BY <3>1
        <4>2. i # 1 => i - 1 \in 1 .. k /\ i - 1 < k
          BY <4>1
        <4>3. QED
          BY <2>3, <3>1, <4>1, <4>2
      <3>2. CASE i = k
        <4>1. k # 1 => k - 1 \in 1 .. k /\ k - 1 < k
          BY <1>3
        <4>2. QED
          BY <3>2, <4>1
      <3>3. QED
        BY <3>1, <3>2
    <2>5. f = F
      BY <2>4
    <2>6. Flattening(f, ss, k)
      BY <2>5 DEF Flattening
    <2>7. QED
      BY <2>6
  <1>4. QED
    BY <1>2, <1>3

\* Two sequences in a row have the elements of both.
LEMMA ConcatElements ==
    ASSUME NEW T, NEW s \in Seq(T), NEW t \in Seq(T)
    PROVE  /\ s \o t \in Seq(T) /\ ToSet(s \o t) = ToSet(s) \cup ToSet(t)
           /\ IsInjective(s) /\ IsInjective(t) /\ ToSet(s) \cap ToSet(t) = {} => IsInjective(s \o t)
PROOF
  <1>1. s \o t \in Seq(T) /\ Len(s \o t) = Len(s) + Len(t)
    OBVIOUS
  <1>2. DOMAIN s = 1 .. Len(s) /\ DOMAIN t = 1 .. Len(t) /\ DOMAIN (s \o t) = 1 .. (Len(s) + Len(t))
    BY <1>1
  <1>3. ASSUME NEW i \in 1 .. Len(s) PROVE (s \o t)[i] = s[i] /\ i \in 1 .. (Len(s) + Len(t))
    OBVIOUS
  <1>4. ASSUME NEW i \in 1 .. Len(t)
        PROVE  (s \o t)[Len(s) + i] = t[i] /\ Len(s) + i \in 1 .. (Len(s) + Len(t))
    OBVIOUS
  <1>5. ASSUME NEW i \in 1 .. (Len(s) + Len(t))
        PROVE  i \in 1 .. Len(s) \/ (i - Len(s) \in 1 .. Len(t) /\ i = Len(s) + (i - Len(s)))
    OBVIOUS
  <1>6. ToSet(s \o t) \subseteq ToSet(s) \cup ToSet(t)
    BY <1>2, <1>3, <1>4, <1>5 DEF ToSet
  <1>7. ToSet(s) \subseteq ToSet(s \o t) /\ ToSet(t) \subseteq ToSet(s \o t)
    BY <1>2, <1>3, <1>4 DEF ToSet
  <1>8. ASSUME IsInjective(s), IsInjective(t), ToSet(s) \cap ToSet(t) = {} PROVE IsInjective(s \o t)
    <2> SUFFICES ASSUME NEW i \in 1 .. (Len(s) + Len(t)), NEW j \in 1 .. (Len(s) + Len(t)),
                        (s \o t)[i] = (s \o t)[j]
                 PROVE  i = j
      BY <1>2 DEF IsInjective
    <2>1. CASE i \in 1 .. Len(s) /\ j \in 1 .. Len(s)
      BY <1>2, <1>3, <1>8, <2>1 DEF IsInjective
    <2>2. CASE i - Len(s) \in 1 .. Len(t) /\ j - Len(s) \in 1 .. Len(t)
      <3>1. t[i - Len(s)] = t[j - Len(s)]
        BY <1>4, <1>5, <2>2
      <3>2. i - Len(s) = j - Len(s)
        BY <1>2, <1>8, <2>2, <3>1 DEF IsInjective
      <3>3. QED
        BY <3>2
    <2>3. ASSUME NEW k \in 1 .. Len(s), NEW l \in 1 .. Len(t) PROVE s[k] # t[l]
      <3>1. s[k] \in ToSet(s) /\ t[l] \in ToSet(t)
        BY <1>2 DEF ToSet
      <3>2. QED
        BY <1>8, <3>1
    <2>4. QED
      BY <1>3, <1>4, <1>5, <2>1, <2>2, <2>3
  <1>9. QED
    BY <1>1, <1>6, <1>7, <1>8

\* What that function is at one place follows from the place before.
LEMMA FlattenStep ==
    ASSUME NEW f, NEW ss, NEW n \in Nat, Flattening(f, ss, n)
    PROVE  \A i \in 1 .. n : f[i] = IF i = 1 THEN ss[i] ELSE f[i - 1] \o ss[i]
PROOF
  <1> DEFINE h == [i \in 1 .. n |-> IF i = 1 THEN ss[i] ELSE f[i - 1] \o ss[i]]
  <1>1. f = h
    BY DEF Flattening
  <1>2. \A i \in 1 .. n : h[i] = IF i = 1 THEN ss[i] ELSE f[i - 1] \o ss[i]
    OBVIOUS
  <1> HIDE DEF h
  <1>3. QED
    BY <1>1, <1>2

\* FlattenSeq is the last value of such a function.
LEMMA FlattenSeqStep ==
    ASSUME NEW ss, Len(ss) \in Nat \ {0}
    PROVE  \E f : /\ FlattenSeq(ss) = f[Len(ss)]
                  /\ \A i \in 1 .. Len(ss) : f[i] = IF i = 1 THEN ss[i] ELSE f[i - 1] \o ss[i]
PROOF
  <1> DEFINE f == CHOOSE g : Flattening(g, ss, Len(ss))
  <1>1. Flattening(f, ss, Len(ss))
    BY FlattenIsDefined
  <1>2. FlattenSeq(ss) = f[Len(ss)]
    BY DEF FlattenSeq, Flattening
  <1> HIDE DEF f
  <1>3. QED
    BY <1>1, <1>2, FlattenStep

\* No element occurs twice in the sequences.
Parted(ss) ==
    /\ \A i \in DOMAIN ss : IsInjective(ss[i])
    /\ \A i, j \in DOMAIN ss : i # j => ToSet(ss[i]) \cap ToSet(ss[j]) = {}

\* FlattenSeq has the elements of all the sequences, and no others, none twice if
\* none is there twice.
LEMMA FlattenElements ==
    ASSUME NEW T, NEW ss \in Seq(Seq(T))
    PROVE  /\ FlattenSeq(ss) \in Seq(T) /\ ToSet(FlattenSeq(ss)) = UNION {ToSet(ss[i]) : i \in DOMAIN ss}
           /\ Parted(ss) => IsInjective(FlattenSeq(ss))
PROOF
  <1>1. CASE Len(ss) = 0
    <2>1. ss = <<>> /\ DOMAIN ss = {}
      BY <1>1
    <2>2. FlattenSeq(ss) = <<>>
      BY <1>1, <2>1 DEF FlattenSeq
    <2>3. <<>> \in Seq(T) /\ ToSet(<<>>) = {} /\ IsInjective(<<>>)
      BY DEF ToSet, IsInjective
    <2>4. QED
      BY <2>1, <2>2, <2>3
  <1>2. CASE Len(ss) # 0
    <2> DEFINE n == Len(ss)
    <2>1. n \in Nat \ {0} /\ DOMAIN ss = 1 .. n
      BY <1>2
    <2>2. PICK f : /\ FlattenSeq(ss) = f[n]
                   /\ \A i \in 1 .. n : f[i] = IF i = 1 THEN ss[i] ELSE f[i - 1] \o ss[i]
      BY <2>1, FlattenSeqStep
    <2> DEFINE Upto(k)  == UNION {ToSet(ss[i]) : i \in 1 .. k}
               Right(k) == /\ f[k] \in Seq(T) /\ ToSet(f[k]) = Upto(k)
                           /\ Parted(ss) => IsInjective(f[k])
               Wrong    == {k \in 1 .. n : ~ Right(k)}
    <2>3. Wrong = {}
      <3> SUFFICES ASSUME Wrong # {} PROVE FALSE
        OBVIOUS
      <3>1. PICK k \in Wrong : \A m \in Wrong : k <= m
        <4>1. Wrong \in SUBSET Nat
          OBVIOUS
        <4>2. QED
          BY <4>1, LeastNumber
      <3> k \in 1 .. n
        OBVIOUS
      <3>2. CASE k = 1
        <4>1. f[k] = ss[1] /\ ss[1] \in Seq(T)
          <5>1. 1 \in 1 .. n
            BY <2>1
          <5>2. ss[1] \in Seq(T)
            BY <5>1
          <5>3. f[1] = ss[1]
            BY <2>2, <5>1
          <5>4. QED
            BY <3>2, <5>2, <5>3
        <4>2. Upto(1) = ToSet(ss[1])
          OBVIOUS
        <4>3. Parted(ss) => IsInjective(ss[1])
          BY <3>2, <2>1 DEF Parted
        <4>4. QED
          BY <3>2, <4>1, <4>2, <4>3
      <3>3. CASE k # 1
        <4>1. k - 1 \in 1 .. n /\ k - 1 \notin Wrong
          <5>1. k - 1 \in 1 .. n /\ ~ (k <= k - 1)
            BY <3>3
          <5> HIDE DEF Wrong
          <5>2. QED
            BY <3>1, <5>1
        <4>2. Right(k - 1)
          BY <4>1
        <4>3. ss[k] \in Seq(T)
          OBVIOUS
        <4>4. /\ f[k] \in Seq(T) /\ ToSet(f[k]) = ToSet(f[k - 1]) \cup ToSet(ss[k])
              /\ IsInjective(f[k - 1]) /\ IsInjective(ss[k]) /\ ToSet(f[k - 1]) \cap ToSet(ss[k]) = {}
                 => IsInjective(f[k])
          <5>1. f[k] = f[k - 1] \o ss[k]
            BY <2>2, <3>3
          <5>2. QED
            BY <4>2, <4>3, <5>1, ConcatElements
        <4>5. Upto(k) = Upto(k - 1) \cup ToSet(ss[k])
          <5>1. 1 .. k = (1 .. (k - 1)) \cup {k}
            BY <4>1
          <5>2. QED
            BY <5>1
        <4>6. ASSUME Parted(ss) PROVE IsInjective(f[k])
          <5>1. ASSUME NEW i \in 1 .. (k - 1) PROVE ToSet(ss[i]) \cap ToSet(ss[k]) = {}
            <6>1. i \in DOMAIN ss /\ k \in DOMAIN ss /\ i # k
              BY <2>1
            <6>2. QED
              BY <4>6, <6>1 DEF Parted
          <5>2. Upto(k - 1) \cap ToSet(ss[k]) = {}
            BY <5>1
          <5>3. IsInjective(ss[k])
            BY <2>1, <4>6 DEF Parted
          <5> HIDE DEF Upto
          <5>4. QED
            BY <4>2, <4>4, <4>6, <5>2, <5>3
        <4>7. QED
          BY <4>2, <4>4, <4>5, <4>6
      <3>4. QED
        BY <3>2, <3>3
    <2>4. Right(n)
      <3>1. n \in 1 .. n
        BY <2>1
      <3>2. QED
        BY <2>3, <3>1
    <2>5. QED
      BY <2>1, <2>2, <2>4
  <1>3. QED
    BY <1>1, <1>2

\* In two sequences in a row each has its places.
LEMMA ConcatPlaces ==
    ASSUME NEW T, NEW s \in Seq(T), NEW t \in Seq(T)
    PROVE  /\ s \o t \in Seq(T) /\ Len(s \o t) = Len(s) + Len(t)
           /\ \A i \in 1 .. Len(s) : (s \o t)[i] = s[i]
           /\ \A i \in 1 .. Len(t) : (s \o t)[Len(s) + i] = t[i]
PROOF
  <1>1. s \o t \in Seq(T) /\ Len(s \o t) = Len(s) + Len(t)
    OBVIOUS
  <1>2. ASSUME NEW i \in 1 .. Len(s) PROVE (s \o t)[i] = s[i]
    OBVIOUS
  <1>3. ASSUME NEW i \in 1 .. Len(t) PROVE (s \o t)[Len(s) + i] = t[i]
    OBVIOUS
  <1>4. QED
    BY <1>1, <1>2, <1>3

\* The first element of the second sequence comes after the first one.
LEMMA ConcatNext ==
    ASSUME NEW T, NEW s \in Seq(T), NEW t \in Seq(T), 1 \in 1 .. Len(t)
    PROVE  (s \o t)[Len(s) + 1] = t[1]
OBVIOUS

\* The same where the second sequence has one element.
LEMMA ConcatOne ==
    ASSUME NEW T, NEW s \in Seq(T), NEW t \in Seq(T), Len(t) = 1
    PROVE  /\ s \o t \in Seq(T) /\ Len(s \o t) = Len(s) + 1
           /\ \A i \in 1 .. Len(s) : (s \o t)[i] = s[i]
           /\ (s \o t)[Len(s) + 1] = t[1]
PROOF
  <1>1. 1 \in 1 .. Len(t)
    OBVIOUS
  <1>2. (s \o t)[Len(s) + 1] = t[1]
    BY <1>1, ConcatNext
  <1>3. s \o t \in Seq(T) /\ Len(s \o t) = Len(s) + Len(t)
    BY ConcatPlaces
  <1>4. \A i \in 1 .. Len(s) : (s \o t)[i] = s[i]
    BY ConcatPlaces
  <1>5. QED
    BY <1>2, <1>3, <1>4

\* Where all the sequences have one element, FlattenSeq keeps the places.
LEMMA FlattenSingletons ==
    ASSUME NEW T, NEW ss \in Seq(Seq(T)), \A i \in DOMAIN ss : Len(ss[i]) = 1
    PROVE  /\ FlattenSeq(ss) \in Seq(T) /\ Len(FlattenSeq(ss)) = Len(ss)
           /\ \A i \in DOMAIN ss : FlattenSeq(ss)[i] = ss[i][1]
PROOF
  <1> FlattenSeq(ss) \in Seq(T)
    BY FlattenElements
  <1>1. CASE Len(ss) = 0
    <2>1. FlattenSeq(ss) = ss /\ DOMAIN ss = {}
      BY <1>1 DEF FlattenSeq
    <2>2. QED
      BY <2>1
  <1>2. CASE Len(ss) # 0
    <2> DEFINE n == Len(ss)
    <2>1. n \in Nat \ {0} /\ DOMAIN ss = 1 .. n
      BY <1>2
    <2>2. PICK f : /\ FlattenSeq(ss) = f[n]
                   /\ \A i \in 1 .. n : f[i] = IF i = 1 THEN ss[i] ELSE f[i - 1] \o ss[i]
      BY <2>1, FlattenSeqStep
    <2> DEFINE Right(k) == /\ f[k] \in Seq(T) /\ Len(f[k]) = k
                           /\ \A i \in 1 .. k : f[k][i] = ss[i][1]
               Wrong    == {k \in 1 .. n : ~ Right(k)}
    <2>3. Wrong = {}
      <3> SUFFICES ASSUME Wrong # {} PROVE FALSE
        OBVIOUS
      <3>1. PICK k \in Wrong : \A m \in Wrong : k <= m
        <4>1. Wrong \in SUBSET Nat
          OBVIOUS
        <4>2. QED
          BY <4>1, LeastNumber
      <3> k \in 1 .. n
        OBVIOUS
      <3>2. ss[k] \in Seq(T) /\ Len(ss[k]) = 1
        <4>1. k \in DOMAIN ss
          BY <2>1
        <4>2. ss[k] \in Seq(T)
          BY <4>1
        <4>3. QED
          BY <4>1, <4>2
      <3>3. CASE k = 1
        <4>1. f[k] = ss[k]
          BY <2>2, <3>3
        <4>2. \A i \in 1 .. 1 : i = 1
          OBVIOUS
        <4>3. Right(1)
          BY <3>2, <3>3, <4>1, <4>2
        <4>4. QED
          BY <3>3, <4>3
      <3>4. CASE k # 1
        <4>1. k - 1 \in 1 .. n /\ ~ (k <= k - 1)
          BY <3>4
        <4>2. Right(k - 1)
          <5>1. k - 1 \notin Wrong
            <6> HIDE DEF Wrong
            <6>1. QED
              BY <3>1, <4>1
          <5>2. QED
            BY <4>1, <5>1
        <4>3. f[k] = f[k - 1] \o ss[k]
          BY <2>2, <3>4
        <4>4. /\ f[k] \in Seq(T) /\ Len(f[k]) = k
              /\ \A i \in 1 .. (k - 1) : f[k][i] = f[k - 1][i]
              /\ f[k][k] = ss[k][1]
          <5>1. Len(f[k - 1]) = k - 1 /\ (k - 1) + 1 = k
            BY <4>2
          <5>2. /\ f[k] \in Seq(T) /\ Len(f[k]) = Len(f[k - 1]) + 1
                /\ \A i \in 1 .. Len(f[k - 1]) : f[k][i] = f[k - 1][i]
                /\ f[k][Len(f[k - 1]) + 1] = ss[k][1]
            <6> DEFINE s == f[k - 1]  t == ss[k]
            <6>2. s \in Seq(T) /\ t \in Seq(T) /\ Len(t) = 1 /\ f[k] = s \o t
              BY <3>2, <4>2, <4>3
            <6> HIDE DEF s, t
            <6>3. /\ s \o t \in Seq(T) /\ Len(s \o t) = Len(s) + 1
                  /\ \A i \in 1 .. Len(s) : (s \o t)[i] = s[i]
                  /\ (s \o t)[Len(s) + 1] = t[1]
              BY <6>2, ConcatOne
            <6>4. QED
              BY <6>2, <6>3 DEF s, t
          <5>3. QED
            BY <5>1, <5>2
        <4>5. ASSUME NEW i \in 1 .. k PROVE f[k][i] = ss[i][1]
          <5>1. i = k \/ i \in 1 .. (k - 1)
            OBVIOUS
          <5>2. QED
            BY <4>2, <4>4, <5>1
        <4>6. QED
          BY <4>4, <4>5
      <3>5. QED
        BY <3>3, <3>4
    <2>4. Right(n)
      <3>1. n \in 1 .. n
        BY <2>1
      <3>2. QED
        BY <2>3, <3>1
    <2>5. QED
      BY <2>1, <2>2, <2>4
  <1>3. QED
    BY <1>1, <1>2

\* Append adds one element.
LEMMA AppendElements ==
    ASSUME NEW T, NEW s \in Seq(T), NEW x \in T
    PROVE  /\ ToSet(Append(s, x)) = ToSet(s) \cup {x}
           /\ IsInjective(s) /\ x \notin ToSet(s) => IsInjective(Append(s, x))
PROOF
  <1>1. DOMAIN Append(s, x) = (DOMAIN s) \cup {Len(s) + 1}
    OBVIOUS
  <1>2. ASSUME NEW i \in DOMAIN s PROVE Append(s, x)[i] = s[i]
    OBVIOUS
  <1>3. Append(s, x)[Len(s) + 1] = x
    OBVIOUS
  <1>4. ToSet(Append(s, x)) = ToSet(s) \cup {x}
    BY <1>1, <1>2, <1>3 DEF ToSet
  <1>5. ASSUME IsInjective(s), x \notin ToSet(s) PROVE IsInjective(Append(s, x))
    <2>1. \A i \in DOMAIN s : s[i] # x
      BY <1>5 DEF ToSet
    <2>2. QED
      BY <1>1, <1>2, <1>3, <1>5, <2>1 DEF IsInjective
  <1>6. QED
    BY <1>4, <1>5

-----------------------------------------------------------------------------
\* ElementsAt

Choosing(f, s, I, n) ==
    f = [k \in 0 .. n |-> IF k = 0 THEN <<>> ELSE IF k \in I THEN Append(f[k - 1], s[k]) ELSE f[k - 1]]

\* What the recursive function behind ElementsAt is at one place.
LEMMA ChoiceStep ==
    ASSUME NEW f, NEW s, NEW I, NEW n \in Nat, Choosing(f, s, I, n)
    PROVE  \A k \in 0 .. n : f[k] = IF k = 0 THEN <<>>
                                    ELSE IF k \in I THEN Append(f[k - 1], s[k]) ELSE f[k - 1]
PROOF
  <1> DEFINE h == [k \in 0 .. n |-> IF k = 0 THEN <<>>
                                    ELSE IF k \in I THEN Append(f[k - 1], s[k]) ELSE f[k - 1]]
  <1>1. f = h
    BY DEF Choosing
  <1>2. \A k \in 0 .. n : h[k] = IF k = 0 THEN <<>>
                                 ELSE IF k \in I THEN Append(f[k - 1], s[k]) ELSE f[k - 1]
    OBVIOUS
  <1> HIDE DEF h
  <1>3. QED
    BY <1>1, <1>2

\* That function is there, whatever the places.
LEMMA ChoiceIsDefined ==
    ASSUME NEW s, NEW I, NEW n \in Nat
    PROVE  \E f : Choosing(f, s, I, n)
PROOF
  <1> DEFINE Undefined == {k \in Nat : ~ \E f : Choosing(f, s, I, k)}
  <1> SUFFICES ASSUME Undefined # {} PROVE FALSE
    OBVIOUS
  <1>1. PICK k \in Undefined : \A m \in Undefined : k <= m
    BY LeastNumber
  <1>2. CASE k = 0
    <2> DEFINE f == [i \in 0 .. 0 |-> <<>>]
               F == [i \in 0 .. 0 |-> IF i = 0 THEN <<>>
                                      ELSE IF i \in I THEN Append(f[i - 1], s[i]) ELSE f[i - 1]]
    <2>1. \A i \in 0 .. 0 : i = 0
      OBVIOUS
    <2>2. f = F
      BY <2>1
    <2>3. Choosing(f, s, I, 0)
      BY <2>2 DEF Choosing
    <2>4. QED
      BY <1>2, <2>3
  <1>3. CASE k # 0
    <2>1. k - 1 \in Nat /\ k - 1 \notin Undefined
      BY <1>1, <1>3
    <2>2. PICK g : Choosing(g, s, I, k - 1)
      BY <2>1
    <2> DEFINE m == k - 1
    <2>2a. m \in Nat /\ Choosing(g, s, I, m)
      BY <2>1, <2>2
    <2>3. \A i \in 0 .. m : g[i] = IF i = 0 THEN <<>>
                                   ELSE IF i \in I THEN Append(g[i - 1], s[i]) ELSE g[i - 1]
      <3> HIDE DEF m
      <3>1. QED
        BY <2>2a, ChoiceStep
    <2> DEFINE f == [i \in 0 .. k |-> IF i < k THEN g[i]
                                      ELSE IF k \in I THEN Append(g[k - 1], s[k]) ELSE g[k - 1]]
               F == [i \in 0 .. k |-> IF i = 0 THEN <<>>
                                      ELSE IF i \in I THEN Append(f[i - 1], s[i]) ELSE f[i - 1]]
    <2>4. ASSUME NEW i \in 0 .. k PROVE f[i] = F[i]
      <3>1. CASE i < k
        <4>1. i \in 0 .. (k - 1)
          BY <3>1
        <4>2. i # 0 => i - 1 \in 0 .. k /\ i - 1 < k
          BY <4>1
        <4>3. QED
          BY <2>3, <3>1, <4>1, <4>2
      <3>2. CASE i = k
        <4>1. k - 1 \in 0 .. k /\ k - 1 < k
          BY <1>3
        <4>2. QED
          BY <1>3, <3>2, <4>1
      <3>3. QED
        BY <3>1, <3>2
    <2>5. f = F
      BY <2>4
    <2>6. Choosing(f, s, I, k)
      BY <2>5 DEF Choosing
    <2>7. QED
      BY <2>6
  <1>4. QED
    BY <1>2, <1>3

\* ElementsAt has the elements at those places, and no others, none twice if the
\* sequence has none twice.
LEMMA ChosenElements ==
    ASSUME NEW T, NEW s \in Seq(T), NEW I
    PROVE  /\ ElementsAt(s, I) \in Seq(T) /\ ToSet(ElementsAt(s, I)) = {s[i] : i \in I \cap DOMAIN s}
           /\ IsInjective(s) => IsInjective(ElementsAt(s, I))
PROOF
  <1> DEFINE n == Len(s)
             f == CHOOSE g : Choosing(g, s, I, n)
  <1>1. n \in Nat /\ DOMAIN s = 1 .. n
    OBVIOUS
  <1>2. Choosing(f, s, I, n)
    BY <1>1, ChoiceIsDefined
  <1>3. ElementsAt(s, I) = f[n]
    BY DEF ElementsAt, Choosing
  <1> HIDE DEF f
  <1>4. \A k \in 0 .. n : f[k] = IF k = 0 THEN <<>>
                                 ELSE IF k \in I THEN Append(f[k - 1], s[k]) ELSE f[k - 1]
    BY <1>1, <1>2, ChoiceStep
  <1> HIDE DEF n
  <1> DEFINE Upto(k)  == {s[i] : i \in I \cap 1 .. k}
             Right(k) == /\ f[k] \in Seq(T) /\ ToSet(f[k]) = Upto(k)
                         /\ IsInjective(s) => IsInjective(f[k])
             Wrong    == {k \in 0 .. n : ~ Right(k)}
  <1>5. Wrong = {}
    <2> SUFFICES ASSUME Wrong # {} PROVE FALSE
      OBVIOUS
    <2>1. PICK k \in Wrong : \A m \in Wrong : k <= m
      <3>1. Wrong \in SUBSET Nat
        BY <1>1
      <3>2. QED
        BY <3>1, LeastNumber
    <2>2. k \in 0 .. n
      OBVIOUS
    <2>3. CASE k = 0
      <3>1. f[0] = <<>> /\ <<>> \in Seq(T) /\ ToSet(<<>>) = {} /\ IsInjective(<<>>)
        BY <1>4, <2>2, <2>3 DEF ToSet, IsInjective
      <3>2. Upto(0) = {}
        OBVIOUS
      <3>3. QED
        BY <2>3, <3>1, <3>2
    <2>4. CASE k # 0
      <3>1. k \in 1 .. n /\ k - 1 \in 0 .. n /\ ~ (k <= k - 1)
        BY <1>1, <2>2, <2>4
      <3>2. Right(k - 1)
        <4>1. k - 1 \notin Wrong
          <5> HIDE DEF Wrong
          <5>1. QED
            BY <2>1, <3>1
        <4>2. QED
          BY <3>1, <4>1
      <3>3. s[k] \in T
        BY <1>1, <3>1
      <3>4. 1 .. k = (1 .. (k - 1)) \cup {k}
        BY <1>1, <3>1
      <3>5. CASE k \in I
        <4>1. f[k] = Append(f[k - 1], s[k])
          BY <1>4, <2>2, <2>4, <3>5
        <4>2. Append(f[k - 1], s[k]) \in Seq(T)
          BY <3>2, <3>3
        <4>3. /\ ToSet(Append(f[k - 1], s[k])) = ToSet(f[k - 1]) \cup {s[k]}
              /\ IsInjective(f[k - 1]) /\ s[k] \notin ToSet(f[k - 1]) => IsInjective(Append(f[k - 1], s[k]))
          BY <3>2, <3>3, AppendElements
        <4>4. Upto(k) = Upto(k - 1) \cup {s[k]}
          BY <3>4, <3>5
        <4>5. ASSUME IsInjective(s) PROVE s[k] \notin Upto(k - 1)
          <5>1. \A i \in 1 .. (k - 1) : i \in DOMAIN s /\ k \in DOMAIN s /\ i # k
            BY <1>1, <3>1
          <5>2. QED
            BY <4>5, <5>1 DEF IsInjective
        <4>6. QED
          BY <3>2, <4>1, <4>2, <4>3, <4>4, <4>5
      <3>6. CASE k \notin I
        <4>1. f[k] = f[k - 1]
          BY <1>4, <2>2, <2>4, <3>6
        <4>2. Upto(k) = Upto(k - 1)
          BY <3>4, <3>6
        <4>3. QED
          BY <3>2, <4>1, <4>2
      <3>7. QED
        BY <3>5, <3>6
    <2>5. QED
      BY <2>3, <2>4
  <1>6. Right(n)
    <2>1. n \in 0 .. n
      BY <1>1
    <2>2. QED
      BY <1>5, <2>1
  <1>7. QED
    BY <1>1, <1>3, <1>6

-----------------------------------------------------------------------------
\* The snapshot of a document

\* What an operation of the document is resolved to.
EndpointAt(override, d, o) == ResolveEndpoint(override, d, d.items[o[1]], o[2])

CollectedAt(d, o) == [item |-> d.items[o[1]], method |-> o[2]]

\* Putting methods in order loses none of them, adds none and repeats none.
LEMMA MethodsInOrder ==
    ASSUME NEW M, M \subseteq ToSet(MethodOrder)
    PROVE  LET methods == ElementsAt(MethodOrder, {k \in DOMAIN MethodOrder : MethodOrder[k] \in M})
           IN methods \in Seq(M) /\ ToSet(methods) = M /\ IsInjective(methods)
PROOF
  <1> DEFINE T == ToSet(MethodOrder)
             I == {k \in DOMAIN MethodOrder : MethodOrder[k] \in M}
             methods == ElementsAt(MethodOrder, I)
  <1>1. MethodOrder \in Seq(T)
    <2>1. MethodOrder = [k \in 1 .. 9 |-> MethodOrder[k]]
      BY DEF MethodOrder
    <2>2. \A k \in 1 .. 9 : MethodOrder[k] \in T
      BY <2>1 DEF ToSet
    <2>3. [k \in 1 .. 9 |-> MethodOrder[k]] \in Seq(T)
      BY <2>2
    <2>4. QED
      BY <2>1, <2>3
  <1>2. /\ methods \in Seq(T) /\ ToSet(methods) = {MethodOrder[k] : k \in I \cap DOMAIN MethodOrder}
        /\ IsInjective(methods)
    <2>1. IsInjective(MethodOrder)
      BY DEF MethodOrder, IsInjective
    <2>2. QED
      BY <1>1, <2>1, ChosenElements
  <1>3. ToSet(methods) = M
    BY <1>2 DEF ToSet
  <1>4. methods \in Seq(M)
    <2>1. \A k \in DOMAIN methods : methods[k] \in M
      BY <1>3 DEF ToSet
    <2> HIDE DEF methods
    <2>2. QED
      BY <1>2, <2>1
  <1>5. QED
    BY <1>2, <1>3, <1>4

\* collectOperations has every operation of the document, once, and nothing else.
LEMMA CollectedOperations ==
    ASSUME NEW d, IsDocument(d)
    PROVE  /\ collectOperations(d) \in Seq({CollectedAt(d, o) : o \in OperationsOf(d)})
           /\ ToSet(collectOperations(d)) = {CollectedAt(d, o) : o \in OperationsOf(d)}
           /\ IsInjective(collectOperations(d))
PROOF
  <1> DEFINE items      == d.items
             T          == {CollectedAt(d, o) : o \in OperationsOf(d)}
             Methods(i) == ElementsAt(MethodOrder,
                              {k \in DOMAIN MethodOrder : MethodOrder[k] \in DOMAIN items[i].operations})
             Of(i)      == [j \in DOMAIN Methods(i) |-> [item |-> items[i], method |-> Methods(i)[j]]]
             ss         == [i \in DOMAIN items |-> Of(i)]
  <1>1. items \in Seq(ToSet(items)) /\ DOMAIN items = 1 .. Len(items) /\ Len(items) \in Nat
    BY DEF IsDocument, IsSeq
  <1>2. ASSUME NEW i \in DOMAIN items
        PROVE  /\ Methods(i) \in Seq(DOMAIN items[i].operations)
               /\ ToSet(Methods(i)) = DOMAIN items[i].operations /\ IsInjective(Methods(i))
    <2>1. DOMAIN items[i].operations \subseteq ToSet(MethodOrder)
      BY DEF IsDocument, IsItem
    <2>2. QED
      BY <2>1, MethodsInOrder
  <1>3. ASSUME NEW i \in DOMAIN items, NEW m \in DOMAIN items[i].operations
        PROVE  <<i, m>> \in OperationsOf(d) /\ CollectedAt(d, <<i, m>>) = [item |-> items[i], method |-> m]
    BY DEF OperationsOf, CollectedAt
  <1>4. ASSUME NEW i \in DOMAIN items
        PROVE  /\ Of(i) \in Seq(T)
               /\ ToSet(Of(i)) = {CollectedAt(d, <<i, m>>) : m \in DOMAIN items[i].operations}
               /\ IsInjective(Of(i))
    <2> DEFINE methods == Methods(i)
    <2>1. /\ methods \in Seq(DOMAIN items[i].operations) /\ ToSet(methods) = DOMAIN items[i].operations
         /\ IsInjective(methods)
      BY <1>2
    <2> HIDE DEF methods
    <2>2. \A j \in DOMAIN methods : methods[j] \in DOMAIN items[i].operations
      BY <2>1
    <2>3. \A j \in DOMAIN methods : [item |-> items[i], method |-> methods[j]] = CollectedAt(d, <<i, methods[j]>>)
                                    /\ <<i, methods[j]>> \in OperationsOf(d)
      BY <1>3, <2>2
    <2> DEFINE of == [j \in DOMAIN methods |-> [item |-> items[i], method |-> methods[j]]]
    <2>4. DOMAIN methods = 1 .. Len(methods) /\ Len(methods) \in Nat
      BY <2>1
    <2>5. of \in Seq(T)
      <3>1. \A j \in 1 .. Len(methods) : [item |-> items[i], method |-> methods[j]] \in T
        BY <2>3, <2>4
      <3> HIDE DEF T
      <3>2. QED
        BY <2>4, <3>1
    <2>6. ToSet(of) = {CollectedAt(d, <<i, methods[j]>>) : j \in DOMAIN methods}
      BY <2>3 DEF ToSet
    <2>7. {CollectedAt(d, <<i, methods[j]>>) : j \in DOMAIN methods}
            = {CollectedAt(d, <<i, m>>) : m \in DOMAIN items[i].operations}
      BY <2>1 DEF ToSet
    <2>8. of = Of(i)
      BY DEF methods
    <2>9. IsInjective(of)
      BY <2>1 DEF IsInjective
    <2>10. QED
      BY <2>5, <2>6, <2>7, <2>8, <2>9
  <1>5. collectOperations(d) = FlattenSeq(ss)
    BY DEF collectOperations
  <1> HIDE DEF Of
  <1>6. ss \in Seq(Seq(T)) /\ DOMAIN ss = DOMAIN items
    BY <1>1, <1>4
  <1>7. UNION {ToSet(ss[i]) : i \in DOMAIN ss} = T
    <2>1. \A i \in DOMAIN ss : ToSet(ss[i]) = {CollectedAt(d, <<i, m>>) : m \in DOMAIN items[i].operations}
      BY <1>4, <1>6
    <2>2. \A o \in OperationsOf(d) : \E i \in DOMAIN items : \E m \in DOMAIN items[i].operations : o = <<i, m>>
      BY DEF OperationsOf
    <2> HIDE DEF ss
    <2>3. ASSUME NEW o \in OperationsOf(d) PROVE \E i \in DOMAIN ss : CollectedAt(d, o) \in ToSet(ss[i])
      <3>1. PICK i \in DOMAIN items : \E m \in DOMAIN items[i].operations : o = <<i, m>>
        BY <2>2
      <3>2. PICK m \in DOMAIN items[i].operations : o = <<i, m>>
        BY <3>1
      <3>3. i \in DOMAIN ss /\ CollectedAt(d, o) \in ToSet(ss[i])
        BY <1>6, <2>1, <3>2
      <3>4. QED
        BY <3>3
    <2>4. ASSUME NEW i \in DOMAIN ss, NEW x \in ToSet(ss[i]) PROVE x \in T
      <3>1. PICK m \in DOMAIN items[i].operations : x = CollectedAt(d, <<i, m>>)
        BY <2>1
      <3>2. QED
        BY <1>3, <1>6, <3>1
    <2>5. QED
      BY <2>3, <2>4
  <1>7a. Parted(ss)
    <2>1. \A i \in DOMAIN ss : IsInjective(ss[i])
      BY <1>4, <1>6
    <2>2. ASSUME NEW i \in DOMAIN ss, NEW j \in DOMAIN ss, i # j PROVE ToSet(ss[i]) \cap ToSet(ss[j]) = {}
      <3>1. items[i] # items[j]
        <4>1. items[i].path # items[j].path
          BY <1>6, <2>2 DEF IsDocument
        <4>2. QED
          BY <4>1
      <3>2. \A x \in ToSet(ss[i]) : x.item = items[i]
        BY <1>4, <1>6 DEF CollectedAt
      <3>3. \A x \in ToSet(ss[j]) : x.item = items[j]
        BY <1>4, <1>6 DEF CollectedAt
      <3>4. QED
        BY <3>1, <3>2, <3>3
    <2>3. QED
      BY <2>1, <2>2 DEF Parted
  <1>8. FlattenSeq(ss) \in Seq(T) /\ ToSet(FlattenSeq(ss)) = T /\ IsInjective(FlattenSeq(ss))
    BY <1>6, <1>7, <1>7a, FlattenElements
  <1>9. QED
    BY <1>5, <1>8

\* An operation is a place among the items and a method of that item.
LEMMA OperationShape ==
    ASSUME NEW d, IsDocument(d), NEW o \in OperationsOf(d)
    PROVE  /\ o = <<o[1], o[2]>> /\ o[1] \in DOMAIN d.items
           /\ o[2] \in DOMAIN d.items[o[1]].operations
           /\ o[2] \in ToSet(MethodOrder) /\ IsItem(d.items[o[1]])
PROOF
  <1>1. PICK i \in DOMAIN d.items : \E m \in DOMAIN d.items[i].operations : o = <<i, m>>
    BY DEF OperationsOf
  <1>2. PICK m \in DOMAIN d.items[i].operations : o = <<i, m>>
    BY <1>1
  <1>3. IsItem(d.items[i])
    BY DEF IsDocument
  <1>4. m \in ToSet(MethodOrder)
    BY <1>3 DEF IsItem
  <1>5. o[1] = i /\ o[2] = m
    BY <1>2
  <1>6. QED
    BY <1>2, <1>3, <1>4, <1>5

ResolvedOf(override, d) ==
    LET ops == collectOperations(d)
    IN FlattenSeq([i \in DOMAIN ops |->
           <<ResolveEndpoint(override, d, ops[i].item, ops[i].method)>>])

\* So has the list of endpoints that is made of it.
LEMMA ResolvedOperations ==
    ASSUME NEW override, NEW d, IsDocument(d)
    PROVE  /\ ResolvedOf(override, d) \in Seq({EndpointAt(override, d, o) : o \in OperationsOf(d)})
           /\ ToSet(ResolvedOf(override, d)) = {EndpointAt(override, d, o) : o \in OperationsOf(d)}
           /\ IsInjective(ResolvedOf(override, d))
PROOF
  <1> DEFINE resolved == ResolvedOf(override, d)
             E(o) == EndpointAt(override, d, o)
             T   == {CollectedAt(d, o) : o \in OperationsOf(d)}
             U   == {E(o) : o \in OperationsOf(d)}
             ops == collectOperations(d)
             R(c) == ResolveEndpoint(override, d, c.item, c.method)
  <1>1. ops \in Seq(T) /\ ToSet(ops) = T /\ IsInjective(ops)
    BY CollectedOperations
  <1>2. \A o \in OperationsOf(d) : R(CollectedAt(d, o)) = E(o)
    BY DEF CollectedAt, EndpointAt
  <1> DEFINE ss == [i \in DOMAIN ops |-> <<R(ops[i])>>]
  <1>3. resolved = FlattenSeq(ss)
    BY DEF ResolvedOf
  <1>3a. \A c : R(c).path = c.item.path /\ R(c).method = c.method
    BY DEF ResolveEndpoint
  <1> HIDE DEF ops, R, resolved
  <1>4. \A i \in DOMAIN ops : R(ops[i]) \in U
    BY <1>1, <1>2
  <1>5. DOMAIN ops = 1 .. Len(ops) /\ Len(ops) \in Nat
    BY <1>1
  <1>6. resolved = [i \in DOMAIN ops |-> R(ops[i])]
    <2> HIDE DEF U
    <2>1. ss \in Seq(Seq(U)) /\ DOMAIN ss = DOMAIN ops /\ Len(ss) = Len(ops)
      BY <1>4, <1>5
    <2>2. \A i \in DOMAIN ss : Len(ss[i]) = 1 /\ ss[i][1] = R(ops[i])
      OBVIOUS
    <2> HIDE DEF ss
    <2>3. /\ resolved \in Seq(U) /\ Len(resolved) = Len(ops)
          /\ \A i \in DOMAIN ops : resolved[i] = R(ops[i])
      BY <1>3, <2>1, <2>2, FlattenSingletons
    <2>4. QED
      BY <1>5, <2>3
  <1>7. resolved \in Seq(U)
    <2> HIDE DEF U
    <2>1. QED
      BY <1>4, <1>5, <1>6
  <1>8. ASSUME NEW o \in OperationsOf(d) PROVE E(o) \in ToSet(resolved)
    <2>1. CollectedAt(d, o) \in ToSet(ops)
      BY <1>1
    <2>2. PICK i \in DOMAIN ops : ops[i] = CollectedAt(d, o)
      BY <2>1 DEF ToSet
    <2>3. resolved[i] = E(o) /\ i \in DOMAIN resolved
      BY <1>2, <1>6, <2>2
    <2>4. QED
      BY <2>3 DEF ToSet
  <1>9. ToSet(resolved) \subseteq U
    BY <1>4, <1>6 DEF ToSet
  <1>10. IsInjective(resolved)
    <2> SUFFICES ASSUME NEW i \in DOMAIN ops, NEW j \in DOMAIN ops, R(ops[i]) = R(ops[j]) PROVE i = j
      BY <1>6 DEF IsInjective
    <2>1. \A k \in DOMAIN ops : ops[k] \in T
      BY <1>1
    <2>2. PICK o \in OperationsOf(d) : ops[i] = CollectedAt(d, o)
      BY <2>1
    <2>3. PICK p \in OperationsOf(d) : ops[j] = CollectedAt(d, p)
      BY <2>1
    <2>4. o[1] \in DOMAIN d.items /\ p[1] \in DOMAIN d.items
      BY OperationShape
    <2>5. d.items[o[1]].path = d.items[p[1]].path /\ o[2] = p[2]
      <3>1. R(ops[i]).path = ops[i].item.path /\ R(ops[i]).method = ops[i].method
        BY <1>3a
      <3>2. R(ops[j]).path = ops[j].item.path /\ R(ops[j]).method = ops[j].method
        BY <1>3a
      <3>3. ops[i].item = d.items[o[1]] /\ ops[i].method = o[2]
        BY <2>2 DEF CollectedAt
      <3>4. ops[j].item = d.items[p[1]] /\ ops[j].method = p[2]
        BY <2>3 DEF CollectedAt
      <3>5. QED
        BY <3>1, <3>2, <3>3, <3>4
    <2>6. o[1] = p[1]
      BY <2>4, <2>5 DEF IsDocument
    <2>7. ops[i] = ops[j]
      BY <2>2, <2>3, <2>5, <2>6 DEF CollectedAt
    <2>8. QED
      BY <1>1, <2>7 DEF IsInjective
  <1>11. QED
    BY <1>7, <1>8, <1>9, <1>10 DEF resolved

\* Sorting loses no endpoint and repeats none.
LEMMA SortedEndpoints ==
    ASSUME NEW T, NEW s \in Seq(T), \A x \in T : x.method \in ToSet(MethodOrder)
    PROVE  /\ sortOperations(s) \in Seq(T) /\ ToSet(sortOperations(s)) = ToSet(s)
           /\ IsInjective(s) => IsInjective(sortOperations(s))
PROOF
  <1> DEFINE I(i) == {k \in DOMAIN s : s[k].method = MethodOrder[i]}
             ss   == [i \in DOMAIN MethodOrder |-> ElementsAt(s, I(i))]
  <1>1. DOMAIN MethodOrder = 1 .. 9
    BY DEF MethodOrder
  <1>2. ASSUME NEW i \in DOMAIN MethodOrder
        PROVE  /\ ElementsAt(s, I(i)) \in Seq(T) /\ ToSet(ElementsAt(s, I(i))) = {s[k] : k \in I(i)}
               /\ IsInjective(s) => IsInjective(ElementsAt(s, I(i)))
    <2>1. /\ ElementsAt(s, I(i)) \in Seq(T)
          /\ ToSet(ElementsAt(s, I(i))) = {s[k] : k \in I(i) \cap DOMAIN s}
          /\ IsInjective(s) => IsInjective(ElementsAt(s, I(i)))
      BY ChosenElements
    <2>2. I(i) \cap DOMAIN s = I(i)
      OBVIOUS
    <2>3. QED
      BY <2>1, <2>2
  <1>3. ss \in Seq(Seq(T)) /\ DOMAIN ss = DOMAIN MethodOrder
    <2>1. \A i \in 1 .. 9 : ElementsAt(s, I(i)) \in Seq(T)
      BY <1>1, <1>2
    <2> HIDE DEF I
    <2>2. QED
      BY <1>1, <2>1
  <1>4. sortOperations(s) = FlattenSeq(ss)
    BY DEF sortOperations
  <1>5. /\ sortOperations(s) \in Seq(T)
        /\ ToSet(sortOperations(s)) = UNION {ToSet(ss[i]) : i \in DOMAIN ss}
        /\ Parted(ss) => IsInjective(sortOperations(s))
    <2> HIDE DEF ss
    <2>1. QED
      BY <1>3, <1>4, FlattenElements
  <1>6. \A i \in DOMAIN ss : ToSet(ss[i]) = {s[k] : k \in I(i)}
    BY <1>2
  <1>7. ASSUME NEW k \in DOMAIN s PROVE \E i \in DOMAIN ss : s[k] \in ToSet(ss[i])
    <2>1. s[k] \in T
      OBVIOUS
    <2>2. PICK i \in DOMAIN MethodOrder : MethodOrder[i] = s[k].method
      BY <2>1 DEF ToSet
    <2>3. i \in DOMAIN ss /\ k \in I(i)
      BY <1>3, <2>2
    <2> HIDE DEF ss, I
    <2>4. QED
      BY <1>6, <2>3
  <1>8. ASSUME NEW i \in DOMAIN ss PROVE {s[k] : k \in I(i)} \subseteq ToSet(s)
    BY DEF ToSet
  <1>8a. ASSUME IsInjective(s) PROVE Parted(ss)
    <2>1. \A i \in DOMAIN ss : IsInjective(ss[i])
      BY <1>2, <1>8a
    <2>2. \A i \in DOMAIN ss : \A x \in ToSet(ss[i]) : x.method = MethodOrder[i]
      BY <1>6
    <2>3. \A i, j \in DOMAIN ss : i # j => MethodOrder[i] # MethodOrder[j]
      <3>1. \A i, j \in 1 .. 9 : i # j => MethodOrder[i] # MethodOrder[j]
        BY DEF MethodOrder
      <3> HIDE DEF ss
      <3>2. QED
        BY <1>1, <1>3, <3>1
    <2> HIDE DEF ss
    <2>4. QED
      BY <2>1, <2>2, <2>3 DEF Parted
  <1> HIDE DEF ss, I
  <1>9. UNION {ToSet(ss[i]) : i \in DOMAIN ss} \subseteq ToSet(s)
    BY <1>6, <1>8
  <1>10. ToSet(s) \subseteq UNION {ToSet(ss[i]) : i \in DOMAIN ss}
    <2>1. \A x \in ToSet(s) : \E k \in DOMAIN s : x = s[k]
      BY DEF ToSet
    <2>2. QED
      BY <1>7, <2>1
  <1>11. QED
    BY <1>5, <1>8a, <1>9, <1>10

\* The index by id leads to an endpoint with that id.
LEMMA IndexedEndpoints ==
    ASSUME NEW T, NEW s \in Seq(T)
    PROVE  /\ DOMAIN endpointByOpID(s) = {e.id : e \in ToSet(s)}
           /\ \A id \in DOMAIN endpointByOpID(s) :
                 endpointByOpID(s)[id] \in ToSet(s) /\ endpointByOpID(s)[id].id = id
PROOF
  <1>1. DOMAIN endpointByOpID(s) = {s[i].id : i \in DOMAIN s}
    BY DEF endpointByOpID
  <1>2. {s[i].id : i \in DOMAIN s} = {e.id : e \in ToSet(s)}
    BY DEF ToSet
  <1>3. ASSUME NEW id \in {s[i].id : i \in DOMAIN s}
        PROVE  endpointByOpID(s)[id] \in ToSet(s) /\ endpointByOpID(s)[id].id = id
    <2> DEFINE I == {i \in 1 .. Len(s) : s[i].id = id}
    <2>1. Len(s) \in Nat /\ DOMAIN s = 1 .. Len(s)
      OBVIOUS
    <2>2. I # {} /\ I \in SUBSET (1 .. Len(s))
      BY <2>1
    <2>3. Max(I) \in I
      <3> HIDE DEF I
      <3>1. QED
        BY <2>1, <2>2, LargestNumber
    <2>4. SelectLastInSeq(s, LAMBDA e : e.id = id) = Max(I)
      BY <2>2 DEF SelectLastInSeq
    <2>5. endpointByOpID(s)[id] = s[Max(I)]
      BY <2>4 DEF endpointByOpID
    <2>6. QED
      BY <2>1, <2>3, <2>5 DEF ToSet
  <1>4. QED
    BY <1>1, <1>2, <1>3

\* What ResolveEndpoint puts where.
LEMMA EndpointFields ==
    ASSUME NEW override, NEW d, NEW o
    PROVE  LET e == EndpointAt(override, d, o)  item == d.items[o[1]]  op == OperationAt(d, o)
           IN /\ e.id = operationID(item, o[2]) /\ e.method = o[2] /\ e.path = item.path
              /\ e.summary = op.summary /\ e.description = op.description /\ e.tags = op.tags
              /\ e.servers = resolveServers(override, d, item, op)
              /\ e.params = mergeParameters(item, op)
              /\ e.body = preferredMedia(op.body) /\ e.responses = resolveResponses(op)
BY DEF EndpointAt, ResolveEndpoint, OperationAt

\* Endpoints and index of a snapshot are those of the operations, all of them, and
\* the index by id has its ids.
LEMMA SnapshotOfOperations ==
    ASSUME NEW override, NEW d, IsDocument(d)
    PROVE  LET s    == buildState(override, d)
               E(o) == EndpointAt(override, d, o)
           IN /\ ToSet(s.endpoints) = {E(o) : o \in OperationsOf(d)}
              /\ DOMAIN s.byID = {E(o).id : o \in OperationsOf(d)}
              /\ \A id \in DOMAIN s.byID :
                    /\ \E o \in OperationsOf(d) : s.byID[id] = E(o)
                    /\ s.byID[id].id = id
PROOF
  <1> DEFINE s    == buildState(override, d)
             E(o) == EndpointAt(override, d, o)
             R    == ResolvedOf(override, d)
             U    == {E(o) : o \in OperationsOf(d)}
  <1>1. R \in Seq(U) /\ ToSet(R) = U
    BY ResolvedOperations
  <1>2. s = [endpoints |-> sortOperations(R), byID |-> endpointByOpID(R)]
    BY DEF buildState, ResolvedOf
  <1>3. \A e \in U : e.method \in ToSet(MethodOrder)
    BY EndpointFields, OperationShape
  <1> HIDE DEF s, R
  <1>4. ToSet(s.endpoints) = U
    <2> HIDE DEF U
    <2>1. ToSet(sortOperations(R)) = ToSet(R)
      BY <1>1, <1>3, SortedEndpoints
    <2>2. QED
      BY <1>1, <1>2, <2>1
  <1>5. /\ DOMAIN s.byID = {e.id : e \in U}
        /\ \A id \in DOMAIN s.byID : s.byID[id] \in U /\ s.byID[id].id = id
    <2> HIDE DEF U
    <2>1. /\ DOMAIN endpointByOpID(R) = {e.id : e \in ToSet(R)}
          /\ \A id \in DOMAIN endpointByOpID(R) :
                endpointByOpID(R)[id] \in ToSet(R) /\ endpointByOpID(R)[id].id = id
      BY <1>1, IndexedEndpoints
    <2>2. QED
      BY <1>1, <1>2, <2>1
  <1>6. {e.id : e \in U} = {E(o).id : o \in OperationsOf(d)}
    OBVIOUS
  <1>7. QED
    BY <1>4, <1>5, <1>6 DEF s

\* The listing of a snapshot has every endpoint once.
LEMMA SnapshotListing ==
    ASSUME NEW override, NEW d, IsDocument(d), NEW endpoints, endpoints = buildState(override, d).endpoints
    PROVE  /\ endpoints \in Seq(ToSet(endpoints)) /\ IsInjective(endpoints)
           /\ ToSet(endpoints) = {EndpointAt(override, d, o) : o \in OperationsOf(d)}
PROOF
  <1> DEFINE E(o) == EndpointAt(override, d, o)
             R    == ResolvedOf(override, d)
             U    == {E(o) : o \in OperationsOf(d)}
  <1>1. R \in Seq(U) /\ IsInjective(R) /\ ToSet(R) = U
    BY ResolvedOperations
  <1>2. endpoints = sortOperations(R)
    BY DEF buildState, ResolvedOf
  <1>3. \A e \in U : e.method \in ToSet(MethodOrder)
    BY EndpointFields, OperationShape
  <1> HIDE DEF R, U
  <1>4. endpoints \in Seq(U) /\ IsInjective(endpoints) /\ ToSet(endpoints) = U
    BY <1>1, <1>2, <1>3, SortedEndpoints
  <1>5. \A i \in DOMAIN endpoints : endpoints[i] \in ToSet(endpoints)
    BY DEF ToSet
  <1>6. QED
    BY <1>4, <1>5 DEF U
=============================================================================
