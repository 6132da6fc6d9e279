--------------------------- MODULE ArchiveProofs ---------------------------
(***************************************************************************)
(* Proofs about a pushed directory: the walk that archives it, the checks  *)
(* of what arrives, and the expansion.                                     *)
(*                                                                         *)
(* The definitions of the model that recur over an archive, a path or a    *)
(* set are functions; what they compute is proved by induction over the    *)
(* natural numbers, stated for a set (SetInduction).                       *)
(***************************************************************************)
EXTENDS Archive, SequenceTheorems, FiniteSetTheorems, TLAPS

-----------------------------------------------------------------------------
(* Induction, recursion, finite sets. *)

\* Induction over the natural numbers, for a set.
LEMMA SetInduction ==
  ASSUME NEW S, S \subseteq Nat, 0 \in S, \A n \in S : n + 1 \in S
  PROVE  S = Nat
<1> DEFINE R == OpToRel(<, Nat)
           T == Nat \ S
<1>1. SUFFICES ASSUME T # {} PROVE FALSE
  OBVIOUS
<1>2. PICK x \in T : \A y \in T : ~(<<y, x>> \in R)
  BY <1>1, NatLessThanWellFounded, WFMin, T \subseteq Nat
<1>3. \A y \in T : ~(y < x)
  BY <1>2 DEF OpToRel
<1>4. x # 0 /\ x - 1 \in Nat /\ x - 1 < x
  OBVIOUS
<1>5. x - 1 \in S
  BY <1>3, <1>4
<1>6. QED
  BY <1>5, <1>4

\* What holds at 0 and is passed on holds up to n.
LEMMA UpTo ==
  ASSUME NEW n \in Nat, NEW S, 0 \in S, \A i \in 0..n - 1 : i \in S => i + 1 \in S
  PROVE  0..n \subseteq S
<1> DEFINE T == {i \in Nat : i <= n => i \in S}
<1>1. 0 \in T /\ \A i \in T : i + 1 \in T
  OBVIOUS
<1>2. T = Nat
  <2> HIDE DEF T
  <2> QED BY <1>1, SetInduction, T \subseteq Nat DEF T
<1>3. QED
  BY <1>2

\* The least number of a set.
LEMMA Least ==
  ASSUME NEW S, S \subseteq Nat, S # {}
  PROVE  \E n \in S : \A m \in S : n <= m
<1>1. PICK x \in S : \A y \in S : ~(<<y, x>> \in OpToRel(<, Nat))
  BY NatLessThanWellFounded, WFMin
<1>2. \A y \in S : ~(y < x)
  BY <1>1 DEF OpToRel
<1>3. QED
  BY <1>2

\* A function may be given by its first value and by each from the one before.
Follows(f, n, base, step) == f[0] = base /\ \A i \in 1..n : f[i] = step[<<i, f[i - 1]>>]

\* There is such a function, of the type its step has.
LEMMA Recursion ==
  ASSUME NEW n \in Nat, NEW V, NEW base \in V, NEW step \in [(1..n) \X V -> V]
  PROVE  \E f \in [0..n -> V] : Follows(f, n, base, step)
<1> DEFINE S == {k \in Nat : \E f \in [0..k -> V] : Follows(f, k, base, step)}
<1>1. 0 \in S
  <2>1. [i \in 0..0 |-> base] \in [0..0 -> V] /\ Follows([i \in 0..0 |-> base], 0, base, step)
    BY DEF Follows
  <2> QED BY <2>1
<1>2. ASSUME NEW k \in 0..n - 1, k \in S PROVE k + 1 \in S
  <2>1. PICK f \in [0..k -> V] : Follows(f, k, base, step)
    BY <1>2
  <2> DEFINE g == [i \in 0..k + 1 |-> IF i <= k THEN f[i] ELSE step[<<k + 1, f[k]>>]]
  <2>2. f[k] \in V /\ step[<<k + 1, f[k]>>] \in V
    <3>1. f[k] \in V /\ k + 1 \in 1..n
      OBVIOUS
    <3>2. \A x \in (1..n) \X V : step[x] \in V
      OBVIOUS
    <3>3. <<k + 1, f[k]>> \in (1..n) \X V
      BY <3>1
    <3> QED BY <3>1, <3>2, <3>3
  <2>3. g \in [0..k + 1 -> V]
    BY <2>2
  <2>4. \A i \in 1..k + 1 : g[i] = step[<<i, g[i - 1]>>]
    <3> TAKE i \in 1..k + 1
    <3>1. CASE i <= k
      BY <3>1, <2>1 DEF Follows
    <3>2. CASE i = k + 1
      <4>1. g[k + 1] = step[<<k + 1, f[k]>>] /\ g[k] = f[k] /\ (k + 1) - 1 = k
        OBVIOUS
      <4> HIDE DEF g
      <4> QED BY <3>2, <4>1
    <3> QED BY <3>1, <3>2
  <2>5. g[0] = base
    BY <2>1 DEF Follows
  <2> HIDE DEF g
  <2>6. Follows(g, k + 1, base, step)
    BY <2>4, <2>5 DEF Follows
  <2> QED BY <2>3, <2>6
<1>3. n \in S
  <2> HIDE DEF S
  <2>1. 0..n \subseteq S
    BY <1>1, <1>2, UpTo
  <2> QED BY <2>1
<1>4. QED
  BY <1>3

\* The image of a finite set is finite.
LEMMA ImageFinite ==
  ASSUME NEW S, IsFiniteSet(S), NEW f
  PROVE  IsFiniteSet({f[x] : x \in S})
<1> DEFINE T == {f[x] : x \in S}
           g == [x \in S |-> f[x]]
<1>1. g \in Surjection(S, T)
  BY DEF Surjection
<1> HIDE DEF g, T
<1>2. IsFiniteSet(T)
  BY <1>1, FS_Surjection DEF ExistsSurjection
<1>3. QED
  BY <1>2 DEF T

\* SetToSeq leaves nothing out.
LEMMA SetToSeqHolds ==
  ASSUME NEW S, IsFiniteSet(S)
  PROVE  /\ SetToSeq(S) \in Seq(S)
         /\ \A x \in S : \E i \in DOMAIN SetToSeq(S) : SetToSeq(S)[i] = x
<1> DEFINE n == Cardinality(S)
<1>1. n \in Nat
  BY FS_CardinalityType
<1>2. PICK g : g \in Bijection(1..n, S)
  BY FS_NatBijection, FS_CountingElements, FS_CardinalityType DEF ExistsBijection
<1>3. g \in [1..n -> S] /\ IsInjective(g)
  BY <1>2 DEF Bijection, Injection
<1>4. SetToSeq(S) \in [1..n -> S] /\ IsInjective(SetToSeq(S))
  BY <1>3 DEF SetToSeq
<1> DEFINE f == SetToSeq(S)
<1>5. f \in [1..n -> S] /\ IsInjective(f)
  BY <1>4
<1> HIDE DEF f
<1>6. f \in Seq(S) /\ DOMAIN f = 1..n
  BY <1>1, <1>5, IsASeq
<1>7. f \in Injection(1..n, S)
  BY <1>5 DEF Injection
<1>8. f \in Surjection(1..n, S)
  BY <1>1, <1>7, FS_Interval, FS_Injection
<1>9. QED
  BY <1>6, <1>8 DEF Surjection, f

-----------------------------------------------------------------------------
(* Sums: SumFunction of the library, whatever order it takes the elements in. *)

\* The library folds a function over the subsets of its domain, one element after another.
Pick(s) == CHOOSE x \in s : TRUE
Sums(f) == CHOOSE F : F = [s \in SUBSET DOMAIN f |-> IF s = {} THEN 0 ELSE f[Pick(s)] + F[s \ {Pick(s)}]]

\* SumFunction is that recursion over all of the domain.
LEMMA SumIs == ASSUME NEW f PROVE SumFunction(f) = Sums(f)[DOMAIN f]
  BY DEF Sums, Pick, SumFunction, SumFunctionOnSet, FoldFunctionOnSet, MapThenFoldSet

\* Taking an element out leaves fewer.
LEMMA Smaller ==
  ASSUME NEW s, IsFiniteSet(s), NEW x \in s, NEW k \in Nat, Cardinality(s) <= k + 1
  PROVE  IsFiniteSet(s \ {x}) /\ Cardinality(s \ {x}) <= k
<1>1. Cardinality(s) \in Nat
  BY FS_CardinalityType
<1>2. IsFiniteSet(s \ {x}) /\ Cardinality(s \ {x}) = Cardinality(s) - 1
  BY FS_RemoveElement
<1>3. QED
  BY <1>1, <1>2

\* A finite set of no more than 0 elements is empty.
LEMMA NoneSmaller ==
  ASSUME NEW s, IsFiniteSet(s), Cardinality(s) <= 0
  PROVE  s = {}
<1>1. Cardinality(s) \in Nat
  BY FS_CardinalityType
<1>2. QED
  BY <1>1, FS_EmptySet

\* The recursion is defined: on a finite domain there is such a function.
LEMMA SumsDefined ==
  ASSUME NEW f, IsFiniteSet(DOMAIN f)
  PROVE  Sums(f) = [s \in SUBSET DOMAIN f |->
                      IF s = {} THEN 0 ELSE f[Pick(s)] + Sums(f)[s \ {Pick(s)}]]
<1> DEFINE Small(k) == {s \in SUBSET DOMAIN f : Cardinality(s) <= k}
           Rec(F, D) == F = [s \in D |-> IF s = {} THEN 0 ELSE f[Pick(s)] + F[s \ {Pick(s)}]]
           S == {k \in Nat : \E F : Rec(F, Small(k))}
<1>1. \A s \in SUBSET DOMAIN f : IsFiniteSet(s) /\ Cardinality(s) \in Nat
  BY FS_Subset, FS_CardinalityType
<1>2. \A s \in SUBSET DOMAIN f : s # {} => Pick(s) \in s
  BY DEF Pick
<1>3. \A k \in Nat : \A s \in Small(k + 1) : s # {} => s \ {Pick(s)} \in Small(k)
  BY <1>1, <1>2, Smaller
<1>4. 0 \in S
  <2> DEFINE F == [s \in Small(0) |-> 0]
  <2>1. \A s \in Small(0) : s = {}
    BY <1>1, NoneSmaller
  <2>2. Rec(F, Small(0))
    BY <2>1
  <2> QED BY <2>2
<1>5. ASSUME NEW k \in S PROVE k + 1 \in S
  <2>1. PICK F : Rec(F, Small(k))
    OBVIOUS
  <2> DEFINE G == [s \in Small(k + 1) |-> IF s = {} THEN 0 ELSE f[Pick(s)] + F[s \ {Pick(s)}]]
  <2>2. \A s \in Small(k) : s \in Small(k + 1) /\ F[s] = G[s]
    <3>1. \A s \in Small(k) : s \in Small(k + 1)
      BY <1>1
    <3>2. \A s \in Small(k) : F[s] = IF s = {} THEN 0 ELSE f[Pick(s)] + F[s \ {Pick(s)}]
      BY <2>1
    <3> HIDE DEF Small
    <3> QED BY <3>1, <3>2
  <2>3. \A s \in Small(k + 1) : s # {} => F[s \ {Pick(s)}] = G[s \ {Pick(s)}]
    BY <2>2, <1>3
  <2>4. Rec(G, Small(k + 1))
    <3> HIDE DEF Small
    <3>1. \A s \in Small(k + 1) : G[s] = IF s = {} THEN 0 ELSE f[Pick(s)] + G[s \ {Pick(s)}]
      BY <2>3
    <3>2. G = [s \in Small(k + 1) |-> G[s]]
      OBVIOUS
    <3> HIDE DEF G
    <3> QED BY <3>1, <3>2
  <2> HIDE DEF G, Rec, Small
  <2> QED BY <2>4
<1>6. S = Nat
  <2> HIDE DEF S
  <2> QED BY <1>4, <1>5, SetInduction, S \subseteq Nat DEF S
<1>7. \E F : Rec(F, SUBSET DOMAIN f)
  <2> DEFINE n == Cardinality(DOMAIN f)
  <2>1. n \in S
    BY <1>6, FS_CardinalityType
  <2>2. Small(n) = SUBSET DOMAIN f
    BY FS_Subset, FS_CardinalityType
  <2> QED BY <2>1, <2>2
<1>8. QED
  BY <1>7 DEF Sums

\* One may take any element out first.
LEMMA SumsAny ==
  ASSUME NEW f, IsFiniteSet(DOMAIN f), \A x \in DOMAIN f : f[x] \in Int
  PROVE  /\ Sums(f)[{}] = 0
         /\ \A s \in SUBSET DOMAIN f : Sums(f)[s] \in Int
         /\ \A s \in SUBSET DOMAIN f : \A x \in s : Sums(f)[s] = f[x] + Sums(f)[s \ {x}]
<1> DEFINE F == Sums(f)
           Fine(s) == F[s] \in Int /\ \A x \in s : F[s] = f[x] + F[s \ {x}]
           S == {k \in Nat : \A s \in SUBSET DOMAIN f : Cardinality(s) <= k => Fine(s)}
<1>1. \A s \in SUBSET DOMAIN f : IsFiniteSet(s) /\ Cardinality(s) \in Nat
  BY FS_Subset, FS_CardinalityType
<1>2. /\ F[{}] = 0
      /\ \A s \in SUBSET DOMAIN f : s # {} => Pick(s) \in s /\ F[s] = f[Pick(s)] + F[s \ {Pick(s)}]
  <2>1. \A s \in SUBSET DOMAIN f : s # {} => Pick(s) \in s
    BY DEF Pick
  <2>2. \A s \in SUBSET DOMAIN f : F[s] = IF s = {} THEN 0 ELSE f[Pick(s)] + F[s \ {Pick(s)}]
    BY SumsDefined
  <2> HIDE DEF F
  <2> QED BY <2>1, <2>2
<1> HIDE DEF F
<1>3. 0 \in S
  <2>1. \A s \in SUBSET DOMAIN f : Cardinality(s) <= 0 => s = {}
    BY <1>1, NoneSmaller
  <2>2. Fine({})
    BY <1>2
  <2> HIDE DEF Fine
  <2> QED BY <2>1, <2>2
<1>4. ASSUME NEW k \in S PROVE k + 1 \in S
  <2> SUFFICES ASSUME NEW s \in SUBSET DOMAIN f, Cardinality(s) <= k + 1 PROVE Fine(s)
    OBVIOUS
  <2>0. k \in Nat /\ \A u \in SUBSET DOMAIN f : Cardinality(u) <= k => Fine(u)
    OBVIOUS
  <2>1. CASE s = {}
    BY <2>1, <1>2
  <2>2. CASE s # {}
    <3> DEFINE c == Pick(s)
    <3>1. c \in s /\ F[s] = f[c] + F[s \ {c}]
      BY <2>2, <1>2
    <3> HIDE DEF c
    <3>2. Fine(s \ {c})
      BY <3>1, <1>1, Smaller
    <3>3. F[s] \in Int
      BY <3>1, <3>2
    <3>4. ASSUME NEW x \in s, x # c PROVE F[s] = f[x] + F[s \ {x}]
      <4>1. Fine(s \ {x}) /\ c \in s \ {x} /\ x \in s \ {c}
        BY <3>1, <3>4, <1>1, Smaller
      <4>2. F[s \ {x}] = f[c] + F[(s \ {x}) \ {c}] /\ F[s \ {c}] = f[x] + F[(s \ {c}) \ {x}]
        BY <4>1, <3>2
      <4>3. (s \ {x}) \ {c} = (s \ {c}) \ {x} /\ (s \ {c}) \ {x} \in SUBSET DOMAIN f
        OBVIOUS
      <4>4. Fine((s \ {c}) \ {x})
        <5>1. Cardinality(s \ {c}) <= k /\ IsFiniteSet(s \ {c})
          BY <3>1, <1>1, Smaller
        <5>2. Cardinality((s \ {c}) \ {x}) <= k
          <6>1. Cardinality(s \ {c}) \in Nat
            BY <5>1, FS_CardinalityType
          <6>2. Cardinality((s \ {c}) \ {x}) = Cardinality(s \ {c}) - 1
            BY <5>1, <4>1, FS_RemoveElement
          <6> QED BY <5>1, <6>1, <6>2
        <5> HIDE DEF Fine
        <5> QED BY <5>2, <4>3, <2>0
      <4>5. f[c] \in Int /\ f[x] \in Int /\ F[(s \ {c}) \ {x}] \in Int
        BY <3>1, <4>4
      <4>6. F[s] = f[c] + (f[x] + F[(s \ {c}) \ {x}])
        BY <3>1, <4>2
      <4>7. F[s \ {x}] = f[c] + F[(s \ {c}) \ {x}]
        BY <4>2, <4>3
      <4> QED BY <4>5, <4>6, <4>7
    <3> QED BY <3>1, <3>3, <3>4
  <2> QED BY <2>1, <2>2
<1>5. S = Nat
  <2> HIDE DEF S
  <2> QED BY <1>3, <1>4, SetInduction, S \subseteq Nat DEF S
<1>6. \A s \in SUBSET DOMAIN f : Fine(s)
  BY <1>1, <1>5
<1>7. QED
  BY <1>2, <1>6 DEF F

\* Functions that agree have the same sums.
LEMMA SumsAgree ==
  ASSUME NEW f, IsFiniteSet(DOMAIN f), NEW g, IsFiniteSet(DOMAIN g), DOMAIN f \subseteq DOMAIN g,
         \A x \in DOMAIN f : f[x] = g[x]
  PROVE  \A s \in SUBSET DOMAIN f : Sums(f)[s] = Sums(g)[s]
<1> DEFINE S == {k \in Nat : \A s \in SUBSET DOMAIN f : Cardinality(s) <= k => Sums(f)[s] = Sums(g)[s]}
<1>1. \A s \in SUBSET DOMAIN f : IsFiniteSet(s) /\ Cardinality(s) \in Nat
  BY FS_Subset, FS_CardinalityType
<1>2. \A s \in SUBSET DOMAIN f :
        /\ s # {} => Pick(s) \in s
        /\ Sums(f)[s] = IF s = {} THEN 0 ELSE f[Pick(s)] + Sums(f)[s \ {Pick(s)}]
        /\ Sums(g)[s] = IF s = {} THEN 0 ELSE g[Pick(s)] + Sums(g)[s \ {Pick(s)}]
  <2> TAKE s \in SUBSET DOMAIN f
  <2>1. s # {} => Pick(s) \in s
    BY DEF Pick
  <2>2. s \in SUBSET DOMAIN g
    OBVIOUS
  <2>3. Sums(f)[s] = IF s = {} THEN 0 ELSE f[Pick(s)] + Sums(f)[s \ {Pick(s)}]
    BY SumsDefined
  <2>4. Sums(g)[s] = IF s = {} THEN 0 ELSE g[Pick(s)] + Sums(g)[s \ {Pick(s)}]
    BY <2>2, SumsDefined
  <2> QED BY <2>1, <2>3, <2>4
<1>3. 0 \in S
  <2>1. \A s \in SUBSET DOMAIN f : Cardinality(s) <= 0 => s = {}
    BY <1>1, NoneSmaller
  <2> QED BY <2>1, <1>2
<1>4. ASSUME NEW k \in S PROVE k + 1 \in S
  <2> SUFFICES ASSUME NEW s \in SUBSET DOMAIN f, Cardinality(s) <= k + 1 PROVE Sums(f)[s] = Sums(g)[s]
    OBVIOUS
  <2>1. CASE s = {}
    BY <2>1, <1>2
  <2>2. CASE s # {}
    <3>1. Sums(f)[s \ {Pick(s)}] = Sums(g)[s \ {Pick(s)}]
      BY <2>2, <1>1, <1>2, Smaller
    <3> QED BY <2>2, <3>1, <1>2
  <2> QED BY <2>1, <2>2
<1>5. S = Nat
  <2> HIDE DEF S
  <2> QED BY <1>3, <1>4, SetInduction, S \subseteq Nat DEF S
<1>6. QED
  BY <1>1, <1>5

\* The empty sum.
LEMMA SumEmpty == ASSUME NEW f, DOMAIN f = {} PROVE SumFunction(f) = 0
<1>1. IsFiniteSet(DOMAIN f)
  BY FS_EmptySet
<1>2. Sums(f)[{}] = 0
  BY <1>1, SumsAny
<1>3. QED
  BY <1>2, SumIs

\* One more summand.
LEMMA SumAdd ==
  ASSUME NEW f, IsFiniteSet(DOMAIN f), \A x \in DOMAIN f : f[x] \in Int,
         NEW g, NEW p, p \notin DOMAIN f, DOMAIN g = DOMAIN f \cup {p}, g[p] \in Int,
         \A x \in DOMAIN f : g[x] = f[x]
  PROVE  SumFunction(g) = g[p] + SumFunction(f) /\ SumFunction(f) \in Int
<1>1. IsFiniteSet(DOMAIN g) /\ \A x \in DOMAIN g : g[x] \in Int
  BY FS_AddElement
<1>2. Sums(g)[DOMAIN g] = g[p] + Sums(g)[DOMAIN g \ {p}]
  <2>1. \A s \in SUBSET DOMAIN g : \A x \in s : Sums(g)[s] = g[x] + Sums(g)[s \ {x}]
    BY <1>1, SumsAny
  <2> QED BY <2>1
<1>3. DOMAIN g \ {p} = DOMAIN f
  OBVIOUS
<1>4. Sums(g)[DOMAIN f] = Sums(f)[DOMAIN f]
  BY <1>1, SumsAgree
<1>5. Sums(f)[DOMAIN f] \in Int
  <2>1. \A s \in SUBSET DOMAIN f : Sums(f)[s] \in Int
    BY SumsAny
  <2> QED BY <2>1
<1>6. QED
  BY <1>2, <1>3, <1>4, <1>5, SumIs

-----------------------------------------------------------------------------
(* Paths as sequences. *)

\* What a prefix of a path is.
LEMMA PrefixOf ==
  ASSUME NEW p \in Seq(STRING), NEW n \in 0..Len(p)
  PROVE  /\ SubSeq(p, 1, n) \in Seq(STRING) /\ Len(SubSeq(p, 1, n)) = n
         /\ \A i \in 1..n : SubSeq(p, 1, n)[i] = p[i]
<1>1. \A i \in 1..n : p[i] \in STRING
  OBVIOUS
<1>2. QED
  BY <1>1, SubSeqProperties

\* What Front of a path is.
LEMMA FrontOf ==
  ASSUME NEW p \in Seq(STRING), p # <<>>
  PROVE  /\ Front(p) \in Seq(STRING) /\ Len(Front(p)) = Len(p) - 1
         /\ \A i \in 1..Len(p) - 1 : Front(p)[i] = p[i]
<1>1. Len(p) - 1 \in 0..Len(p)
  BY EmptySeq
<1>2. QED
  BY <1>1, PrefixOf DEF Front

\* Paths of the same elements are the same.
LEMMA SameSeq ==
  ASSUME NEW p \in Seq(STRING), NEW q \in Seq(STRING), Len(p) = Len(q),
         \A i \in 1..Len(p) : p[i] = q[i]
  PROVE  p = q
  BY SeqEqual

\* A prefix of a prefix is one of the whole.
LEMMA PrefixOfPrefix ==
  ASSUME NEW p \in Seq(STRING), NEW n \in 0..Len(p), NEW m \in 0..n
  PROVE  SubSeq(SubSeq(p, 1, n), 1, m) = SubSeq(p, 1, m)
<1> DEFINE q == SubSeq(p, 1, n)
<1>1. q \in Seq(STRING) /\ Len(q) = n /\ \A i \in 1..n : q[i] = p[i]
  BY PrefixOf
<1> HIDE DEF q
<1>2. m \in 0..Len(q) /\ m \in 0..Len(p)
  BY <1>1
<1>3. /\ SubSeq(q, 1, m) \in Seq(STRING) /\ Len(SubSeq(q, 1, m)) = m
      /\ \A i \in 1..m : SubSeq(q, 1, m)[i] = q[i]
  BY <1>1, <1>2, PrefixOf
<1>4. /\ SubSeq(p, 1, m) \in Seq(STRING) /\ Len(SubSeq(p, 1, m)) = m
      /\ \A i \in 1..m : SubSeq(p, 1, m)[i] = p[i]
  BY <1>2, PrefixOf
<1>5. SubSeq(q, 1, m) = SubSeq(p, 1, m)
  BY <1>1, <1>3, <1>4, SameSeq
<1>6. QED
  BY <1>5 DEF q

\* Front takes one element off a prefix.
LEMMA FrontOfPrefix ==
  ASSUME NEW p \in Seq(STRING), NEW n \in 1..Len(p)
  PROVE  Front(SubSeq(p, 1, n)) = SubSeq(p, 1, n - 1)
<1>1. Len(SubSeq(p, 1, n)) = n
  BY PrefixOf
<1>2. QED
  BY <1>1, PrefixOfPrefix DEF Front

\* The longest prefix, the next one and the shortest.
LEMMA WholePrefix ==
  ASSUME NEW p \in Seq(STRING)
  PROVE  SubSeq(p, 1, Len(p)) = p /\ (p # <<>> => Front(p) = SubSeq(p, 1, Len(p) - 1))
         /\ SubSeq(p, 1, 0) = <<>>
<1>1. SubSeq(p, 1, Len(p)) = p
  BY PrefixOf, SameSeq
<1>2. Len(SubSeq(p, 1, 0)) = 0 /\ SubSeq(p, 1, 0) \in Seq(STRING)
  BY PrefixOf
<1>3. QED
  BY <1>1, <1>2 DEF Front

-----------------------------------------------------------------------------
(* What the recursive functions of the model compute. *)

\* What checkArchiveLimits has left after n entries.
Left(a, n, rest) ==
  IF rest < 0 \/ ~Regular(a[n]) THEN rest ELSE IF a[n].size > rest THEN -1 ELSE rest - a[n].size

\* The budget is what checkArchiveLimits keeps, entry by entry.
LEMMA RemainingIs ==
  ASSUME NEW a \in Seq(Entry)
  PROVE  /\ Remaining(a)[0] = MaxBytes
         /\ \A n \in 1..Len(a) : Remaining(a)[n] = Left(a, n, Remaining(a)[n - 1])
         /\ \A n \in 0..Len(a) : Remaining(a)[n] \in Int
<1> DEFINE len == Len(a)
           step == [x \in (1..len) \X Int |-> Left(a, x[1], x[2])]
           Rec(g) == g = [n \in 0..len |-> IF n = 0 THEN MaxBytes ELSE Left(a, n, g[n - 1])]
<1>0. MaxBytes \in Nat
  BY ArchiveAssumption
<1>1. len \in Nat /\ MaxBytes \in Int /\ \A n \in 1..len : a[n] \in Entry
  BY <1>0, LenProperties, ElementOfSeq
<1>2. \A n \in 1..len, v \in Int : Left(a, n, v) \in Int
  BY <1>1 DEF Left, Entry, Sizes
<1>3. /\ step \in [(1..len) \X Int -> Int]
      /\ \A n \in 1..len, v \in Int : step[<<n, v>>] = Left(a, n, v)
  BY <1>2
<1> HIDE DEF step, len
<1>4. PICK f \in [0..len -> Int] : Follows(f, len, MaxBytes, step)
  BY <1>1, <1>3, Recursion
<1>5. \A n \in 1..len : f[n - 1] \in Int /\ f[n] = Left(a, n, f[n - 1])
  <2> TAKE n \in 1..len
  <2>1. n - 1 \in 0..len
    BY <1>1
  <2>2. f[n - 1] \in Int
    BY <2>1
  <2> QED BY <1>3, <1>4, <2>2 DEF Follows
<1>6. Rec(f)
  <2>1. f = [n \in 0..len |-> f[n]]
    BY <1>4
  <2>2. \A n \in 0..len : f[n] = IF n = 0 THEN MaxBytes ELSE Left(a, n, f[n - 1])
    BY <1>4, <1>5 DEF Follows
  <2> QED BY <2>1, <2>2
<1>7. Remaining(a) = CHOOSE g : Rec(g)
  BY DEF Remaining, Left, len
<1> DEFINE g == Remaining(a)
<1>8. Rec(g)
  BY <1>6, <1>7
<1> HIDE DEF g
<1>9. g[0] = MaxBytes /\ \A n \in 1..len : g[n] = Left(a, n, g[n - 1])
  BY <1>1, <1>8
<1>10. \A n \in 0..len : f[n] = g[n]
  <2> DEFINE E == {n \in 0..len : f[n] = g[n]}
  <2>1. 0 \in E
    BY <1>1, <1>4, <1>9 DEF Follows
  <2>2. \A n \in 0..len - 1 : n \in E => n + 1 \in E
    <3> TAKE n \in 0..len - 1
    <3>1. n + 1 \in 1..len /\ (n + 1) - 1 = n
      BY <1>1
    <3> QED BY <1>5, <1>9, <3>1
  <2> HIDE DEF E
  <2>3. 0..len \subseteq E
    BY <1>1, <2>1, <2>2, UpTo
  <2> QED BY <2>3 DEF E
<1>11. QED
  BY <1>4, <1>9, <1>10 DEF g, len

\* A budget that is overdrawn stays so.
LEMMA OverdrawnStays ==
  ASSUME NEW a \in Seq(Entry), Remaining(a)[Len(a)] >= 0, NEW n \in 0..Len(a)
  PROVE  Remaining(a)[n] >= 0
<1> DEFINE r == Remaining(a)
           k == Len(a) - n
           S == {i \in Nat : r[n + i] < 0}
<1>1. /\ \A i \in 1..Len(a) : r[i] = Left(a, i, r[i - 1])
      /\ \A i \in 0..Len(a) : r[i] \in Int
  BY RemainingIs
<1> HIDE DEF r
<1>2. SUFFICES ASSUME r[n] < 0 PROVE r[Len(a)] < 0
  BY <1>1 DEF r
<1>3. k \in Nat /\ 0 \in S
  BY <1>2
<1>4. ASSUME NEW i \in 0..k - 1, i \in S PROVE i + 1 \in S
  <2>1. n + (i + 1) \in 1..Len(a) /\ (n + (i + 1)) - 1 = n + i
    OBVIOUS
  <2>2. r[n + (i + 1)] = Left(a, n + (i + 1), r[n + i])
    BY <1>1, <2>1
  <2>3. r[n + i] < 0
    BY <1>4
  <2> QED BY <2>2, <2>3 DEF Left
<1>5. k \in S
  <2> HIDE DEF S, k
  <2>1. 0..k \subseteq S
    BY <1>3, <1>4, UpTo
  <2> QED BY <2>1, <1>3
<1>6. QED
  BY <1>5

\* safeJoin leaves out the elements "." and nothing else.
LEMMA TargetIs ==
  ASSUME NEW e, e.name \in Seq(STRING)
  PROVE  /\ Target(e) \in Seq(STRING)
         /\ \A i \in DOMAIN Target(e) : \E j \in DOMAIN e.name : Target(e)[i] = e.name[j]
         /\ (\A i \in DOMAIN e.name : e.name[i] # ".") => Target(e) = e.name
<1> DEFINE s == e.name
           len == Len(s)
           Add(n, before) == IF s[n] = "." THEN before ELSE Append(before, s[n])
           step == [x \in (1..len) \X Seq(STRING) |-> Add(x[1], x[2])]
           Rec(g) == g = [n \in 0..len |-> IF n = 0 THEN Top ELSE Add(n, g[n - 1])]
<1>1. len \in Nat /\ Top \in Seq(STRING) /\ DOMAIN s = 1..len /\ s \in Seq(STRING)
  BY DEF Top
<1>2. \A n \in 1..len, v \in Seq(STRING) : Add(n, v) \in Seq(STRING)
  <2>1. \A n \in 1..len : s[n] \in STRING
    BY <1>1, ElementOfSeq
  <2> QED BY <2>1, AppendProperties
<1>3. /\ step \in [(1..len) \X Seq(STRING) -> Seq(STRING)]
      /\ \A n \in 1..len, v \in Seq(STRING) : step[<<n, v>>] = Add(n, v)
  <2> HIDE DEF Add
  <2> QED BY <1>2
<1> HIDE DEF step, len, s
<1>4. PICK f \in [0..len -> Seq(STRING)] : Follows(f, len, Top, step)
  BY <1>1, <1>3, Recursion
<1>5. \A n \in 1..len : f[n - 1] \in Seq(STRING) /\ f[n] = Add(n, f[n - 1])
  <2> TAKE n \in 1..len
  <2>1. n - 1 \in 0..len
    BY <1>1
  <2>2. f[n - 1] \in Seq(STRING)
    BY <2>1
  <2> QED BY <1>3, <1>4, <2>2 DEF Follows
<1>6. Rec(f)
  <2>1. f = [n \in 0..len |-> f[n]]
    BY <1>4
  <2> HIDE DEF Add
  <2>2. \A n \in 0..len : f[n] = IF n = 0 THEN Top ELSE Add(n, f[n - 1])
    BY <1>4, <1>5 DEF Follows
  <2> QED BY <2>1, <2>2
<1> DEFINE g == CHOOSE h : Rec(h)
<1>7. Target(e) = g[len]
  BY DEF Target, len, s
<1>8. Rec(g)
  BY <1>6
<1> HIDE DEF g
<1>9. g[0] = Top /\ \A n \in 1..len : g[n] = Add(n, g[n - 1])
  <2> HIDE DEF Add
  <2> QED BY <1>1, <1>8
<1>10. \A n \in 0..len : f[n] = g[n]
  <2> HIDE DEF Add
  <2> DEFINE E == {n \in 0..len : f[n] = g[n]}
  <2>1. 0 \in E
    BY <1>1, <1>4, <1>9 DEF Follows
  <2>2. \A n \in 0..len - 1 : n \in E => n + 1 \in E
    <3> TAKE n \in 0..len - 1
    <3>1. n + 1 \in 1..len /\ (n + 1) - 1 = n
      BY <1>1
    <3> QED BY <1>5, <1>9, <3>1
  <2> HIDE DEF E
  <2>3. 0..len \subseteq E
    BY <1>1, <2>1, <2>2, UpTo
  <2> QED BY <2>3 DEF E
<1> DEFINE From(p) == \A i \in DOMAIN p : \E j \in 1..len : p[i] = s[j]
           S == {n \in 0..len : From(f[n])}
           T == {n \in 0..len : f[n] = SubSeq(s, 1, n)}
<1>11. 0 \in S
  BY <1>1, <1>4 DEF Top, Follows
<1>12. ASSUME NEW n \in 0..len - 1, n \in S PROVE n + 1 \in S
  <2>1. f[n] \in Seq(STRING) /\ From(f[n]) /\ f[n + 1] = Add(n + 1, f[n]) /\ n + 1 \in 1..len
    BY <1>1, <1>5, <1>12
  <2>2. From(Append(f[n], s[n + 1]))
    <3> DEFINE p == f[n]
               q == Append(p, s[n + 1])
    <3>1. s[n + 1] \in STRING
      BY <1>1, <2>1, ElementOfSeq
    <3>2. /\ p \in Seq(STRING) /\ q \in Seq(STRING) /\ Len(q) = Len(p) + 1
          /\ \A i \in 1..Len(p) : q[i] = p[i]
          /\ q[Len(p) + 1] = s[n + 1]
      BY <2>1, <3>1, AppendProperties
    <3> HIDE DEF p, q
    <3>3. DOMAIN p = 1..Len(p) /\ DOMAIN q = 1..Len(p) + 1 /\ Len(p) \in Nat
      BY <3>2, LenProperties
    <3>4. From(p)
      BY <2>1 DEF p
    <3>5. ASSUME NEW i \in 1..Len(p) + 1 PROVE \E j \in 1..len : q[i] = s[j]
      <4>1. CASE i <= Len(p)
        BY <3>2, <3>3, <3>4, <4>1
      <4>2. CASE i = Len(p) + 1
        BY <2>1, <3>2, <4>2
      <4> QED BY <3>3, <4>1, <4>2
    <3> QED BY <3>3, <3>5 DEF p, q
  <2>3. From(f[n + 1])
    <3> HIDE DEF From
    <3> QED BY <2>1, <2>2
  <2> HIDE DEF From
  <2> QED BY <1>1, <2>1, <2>3
<1>13. From(f[len])
  <2> HIDE DEF S
  <2>1. 0..len \subseteq S
    BY <1>1, <1>11, <1>12, UpTo
  <2> QED BY <2>1, <1>1 DEF S
<1>14. ASSUME \A i \in DOMAIN s : s[i] # "." PROVE f[len] = s
  <2>1. 0 \in T
    BY <1>1, <1>4, WholePrefix DEF Top, Follows
  <2>2. ASSUME NEW n \in 0..len - 1, n \in T PROVE n + 1 \in T
    <3>0. n + 1 \in 1..len /\ (n + 1) - 1 = n /\ f[n] = SubSeq(s, 1, n)
      BY <1>1, <2>2
    <3>1. f[n + 1] = Append(f[n], s[n + 1])
      BY <1>1, <1>5, <1>14, <3>0
    <3>2. SubSeq(s, 1, n + 1) = Append(SubSeq(s, 1, n), s[n + 1])
      <4>1. s[n + 1] \in STRING
        BY <1>1, <3>0, ElementOfSeq
      <4>2. /\ SubSeq(s, 1, n) \in Seq(STRING) /\ Len(SubSeq(s, 1, n)) = n
            /\ \A i \in 1..n : SubSeq(s, 1, n)[i] = s[i]
        BY <1>1, PrefixOf
      <4>3. /\ SubSeq(s, 1, n + 1) \in Seq(STRING) /\ Len(SubSeq(s, 1, n + 1)) = n + 1
            /\ \A i \in 1..n + 1 : SubSeq(s, 1, n + 1)[i] = s[i]
        BY <1>1, <3>0, PrefixOf
      <4> DEFINE p == SubSeq(s, 1, n)
                 q == Append(p, s[n + 1])
                 r == SubSeq(s, 1, n + 1)
      <4>4. /\ q \in Seq(STRING) /\ Len(q) = Len(p) + 1
            /\ \A i \in 1..Len(p) : q[i] = p[i]
            /\ q[Len(p) + 1] = s[n + 1]
        BY <4>1, <4>2, AppendProperties
      <4>5. Len(q) = Len(r) /\ \A i \in 1..Len(r) : q[i] = r[i]
        <5>1. Len(p) = n /\ n \in Nat /\ Len(r) = n + 1
          BY <4>2, <4>3
        <5>2. \A i \in 1..n : p[i] = s[i] /\ r[i] = s[i]
          BY <4>2, <4>3
        <5>3. r[n + 1] = s[n + 1]
          BY <4>3
        <5> HIDE DEF p, q, r
        <5> QED BY <4>4, <5>1, <5>2, <5>3
      <4>6. r \in Seq(STRING)
        BY <4>3
      <4>7. q = r
        <5> HIDE DEF q, r
        <5> QED BY <4>4, <4>5, <4>6, SameSeq
      <4> QED BY <4>7
    <3>3. f[n + 1] = SubSeq(s, 1, n + 1)
      BY <3>0, <3>1, <3>2, Zenon
    <3>4. n + 1 \in 0..len
      BY <3>0
    <3> QED BY <3>3, <3>4, Zenon
  <2>3. len \in T
    <3> HIDE DEF T
    <3>1. 0..len \subseteq T
      BY <1>1, <2>1, <2>2, UpTo
    <3> QED BY <3>1, <1>1
  <2> QED BY <2>3, <1>1, WholePrefix
<1>15. Target(e) = f[len] /\ f[len] \in Seq(STRING)
  BY <1>1, <1>4, <1>7, <1>10
<1>16. QED
  BY <1>1, <1>13, <1>14, <1>15 DEF s

-----------------------------------------------------------------------------
(* Types. *)

\* What a directory lists, and what can be listed.
Listing == [path : Seq(STRING), kind : {"dir", "file", "link", "other"}]
Walkable(t) == IsFiniteSet(DOMAIN t) /\ \A p \in DOMAIN t : p \in Seq(STRING) /\ t[p] \in Item

\* A tree can be read.
LEMMA TreeWalkable == ASSUME NEW t, IsTree(t) PROVE Walkable(t)
  BY DEF IsTree, Walkable

\* A directory is read as what lies in it: nothing else, and nothing left out.
LEMMA ListedIs ==
  ASSUME NEW t, Walkable(t), NEW d
  PROVE  /\ Listed(t, d) \in Seq(Listing)
         /\ \A i \in DOMAIN Listed(t, d) :
              LET e == Listed(t, d)[i] IN e.path \in DOMAIN t /\ e.kind = t[e.path].kind
         /\ \A p \in In(t, d) : \E i \in DOMAIN Listed(t, d) : Listed(t, d)[i].path = p
<1> DEFINE S == {[path |-> p, kind |-> t[p].kind] : p \in In(t, d)}
           l == Listed(t, d)
<1>1. IsFiniteSet(In(t, d))
  BY FS_Subset DEF In, Walkable
<1>2. IsFiniteSet(S)
  <2> DEFINE f == [p \in In(t, d) |-> [path |-> p, kind |-> t[p].kind]]
  <2>1. IsFiniteSet({f[p] : p \in In(t, d)})
    <3> HIDE DEF f
    <3> QED BY <1>1, ImageFinite
  <2>2. {f[p] : p \in In(t, d)} = S
    OBVIOUS
  <2> QED BY <2>1, <2>2
<1>3. l = SetToSeq(S)
  BY DEF Listed
<1> HIDE DEF l
<1>4. l \in Seq(S) /\ \A x \in S : \E i \in DOMAIN l : l[i] = x
  <2> HIDE DEF S
  <2> QED BY <1>2, <1>3, SetToSeqHolds
<1>5. \A x \in S : x \in Listing /\ x.path \in DOMAIN t /\ x.kind = t[x.path].kind
  BY DEF In, Walkable, Listing, Item
<1>6. l \in Seq(Listing)
  <2>1. S \subseteq Listing
    BY <1>5
  <2> HIDE DEF S
  <2> QED BY <1>4, <2>1, SeqMonotonic
<1>7. \A i \in DOMAIN l : l[i] \in S
  <2> HIDE DEF S
  <2> QED BY <1>4, LenProperties, ElementOfSeq
<1>8. \A i \in DOMAIN l : l[i].path \in DOMAIN t /\ l[i].kind = t[l[i].path].kind
  <2> HIDE DEF S
  <2> QED BY <1>5, <1>7
<1>9. \A p \in In(t, d) : \E i \in DOMAIN l : l[i].path = p
  <2> TAKE p \in In(t, d)
  <2>1. [path |-> p, kind |-> t[p].kind] \in S
    OBVIOUS
  <2>2. PICK i \in DOMAIN l : l[i] = [path |-> p, kind |-> t[p].kind]
    BY <1>4, <2>1
  <2> QED BY <2>2
<1>10. QED
  BY <1>6, <1>8, <1>9 DEF l

\* Nor does reading nothing fail.
LEMMA NoListing == Walkable(<<>>)
  BY FS_EmptySet DEF Walkable

\* The directories on the way to a path are finitely many, and made of its elements.
LEMMA AncestorsIs ==
  ASSUME NEW p \in Seq(STRING)
  PROVE  /\ IsFiniteSet(Ancestors(p))
         /\ \A q \in Ancestors(p) :
              q \in Seq(STRING) /\ q # <<>> /\ \A i \in DOMAIN q : \E j \in DOMAIN p : q[i] = p[j]
<1>1. IsFiniteSet(1..Len(p))
  BY FS_Interval, LenProperties
<1>2. IsFiniteSet(Ancestors(p))
  <2> DEFINE f == [n \in 1..Len(p) |-> SubSeq(p, 1, n)]
  <2>1. IsFiniteSet({f[n] : n \in 1..Len(p)})
    <3> HIDE DEF f
    <3> QED BY <1>1, ImageFinite
  <2>2. {f[n] : n \in 1..Len(p)} = Ancestors(p)
    BY DEF Ancestors
  <2> QED BY <2>1, <2>2
<1>3. ASSUME NEW n \in 1..Len(p)
      PROVE  LET q == SubSeq(p, 1, n) IN
             q \in Seq(STRING) /\ q # <<>> /\ \A i \in DOMAIN q : \E j \in DOMAIN p : q[i] = p[j]
  <2> DEFINE q == SubSeq(p, 1, n)
  <2>1. q \in Seq(STRING) /\ Len(q) = n /\ \A i \in 1..n : q[i] = p[i]
    BY PrefixOf
  <2>2. DOMAIN p = 1..Len(p) /\ Len(p) \in Nat
    BY LenProperties
  <2> HIDE DEF q
  <2>3. DOMAIN q = 1..n /\ q # <<>>
    BY <2>1, LenProperties, EmptySeq
  <2>4. \A i \in DOMAIN q : i \in DOMAIN p /\ q[i] = p[i]
    BY <2>1, <2>2, <2>3
  <2> QED BY <2>1, <2>3, <2>4 DEF q
<1>4. ASSUME NEW q \in Ancestors(p)
      PROVE  q \in Seq(STRING) /\ q # <<>> /\ \A i \in DOMAIN q : \E j \in DOMAIN p : q[i] = p[j]
  <2>1. PICK n \in 1..Len(p) : q = SubSeq(p, 1, n)
    BY DEF Ancestors
  <2> QED BY <1>3, <2>1
<1>5. QED
  BY <1>2, <1>4

-----------------------------------------------------------------------------
\* What is expanded so far.
Expandable(t) ==
  /\ IsFiniteSet(DOMAIN t) /\ t \in [DOMAIN t -> Item]
  /\ \A p \in DOMAIN t : t[p].kind \in {"dir", "file"}

\* The types of the parts that ArchiveTypeOK rests on, and what the phases before
\* the expansion leave alone.
ArchiveTyped ==
  /\ Walkable(src) /\ IsTree(first)
  /\ todo \in Seq(Listing) /\ arch \in Seq(Entry)
  /\ phase \in {"walk", "open", "send", "check", "expand", "done", "failed"}
  /\ Expandable(unpacked) /\ next \in 1..Len(arch) + 1
  /\ told.status \in {"none", "ok", "error"} /\ sourceEdits \in 0..MaxSourceEdits
  /\ phase \in {"walk", "open", "check"} => next = 1 /\ unpacked = <<>>
  /\ phase = "open" => todo # <<>>
  /\ linked \in BOOLEAN

\* An empty destination.
LEMMA NothingExpandable == Expandable(<<>>)
  BY FS_EmptySet DEF Expandable

\* A directory that MkdirAll makes is a node.
LEMMA DirNodeFits == DirNode \in Item
<1>1. 2^Width \in Nat /\ 2^Width # 0
  BY ArchiveAssumption
<1>2. 0 \in 0..(2^Width - 1)
  BY <1>1
<1>3. 0 \in Sizes
  BY <1>2 DEF Sizes
<1>4. FALSE \in BOOLEAN
  BY Zenon
<1>5. "dir" \in {"dir", "file", "link", "other"}
  OBVIOUS
<1>6. "" \in Bodies
  BY DEF Bodies
<1>7. QED
  BY <1>3, <1>4, <1>5, <1>6, Zenon DEF DirNode, Item

\* Making directories keeps the destination a tree of nodes.
LEMMA DirsExpandable ==
  ASSUME Expandable(unpacked), NEW p \in Seq(STRING)
  PROVE  Expandable(WithDirs(p))
<1>1. IsFiniteSet(DOMAIN unpacked \cup Ancestors(p))
  BY AncestorsIs, FS_Union DEF Expandable
<1>2. QED
  BY <1>1, DirNodeFits DEF Expandable, WithDirs, DirNode

\* So does creating a file.
LEMMA FileExpandable ==
  ASSUME NEW t, Expandable(t), NEW p, NEW e \in Entry
  PROVE  Expandable(Expanded(t, p, e))
<1>1. IsFiniteSet(DOMAIN t \cup {p})
  BY FS_AddElement DEF Expandable
<1>2. [kind |-> "file", size |-> e.size, exec |-> e.exec, body |-> e.body] \in Item
  BY DEF Item, Entry
<1>3. QED
  BY <1>1, <1>2 DEF Expandable, Expanded

\* The types hold when a push begins, and when an archive arrives.
LEMMA TypedAtFirst == ASSUME ArchiveInit PROVE ArchiveTyped
<1>1. IsTree(src) /\ arch \in Seq(Entry) /\ phase \in {"walk", "check"}
  <2>1. CASE src \in Sources /\ phase = "walk" /\ arch = <<>>
    BY <2>1, ArchiveAssumption, EmptySeq
  <2>2. CASE src = <<>> /\ phase = "check" /\ arch \in Archives
    <3>1. IsTree(<<>>)
      BY FS_EmptySet DEF IsTree
    <3> QED BY <2>2, <3>1, ArchiveAssumption
  <2> QED BY <2>1, <2>2 DEF ArchiveInit
<1>2. Walkable(src) /\ IsTree(first)
  BY <1>1, TreeWalkable DEF ArchiveInit
<1>3. todo \in Seq(Listing)
  BY <1>2, ListedIs, EmptySeq DEF ArchiveInit
<1>4. Expandable(unpacked) /\ unpacked = <<>>
  BY NothingExpandable DEF ArchiveInit
<1>5. sourceEdits \in 0..MaxSourceEdits /\ next \in 1..Len(arch) + 1 /\ next = 1
  BY <1>1, ArchiveAssumption, LenProperties DEF ArchiveInit
<1>6. told.status = "none"
  BY DEF ArchiveInit, Returned
<1>7. linked \in BOOLEAN
  BY DEF ArchiveInit
<1>8. QED
  BY <1>1, <1>2, <1>3, <1>4, <1>5, <1>6, <1>7 DEF ArchiveTyped

\* What is visited next, and what stays to be visited.
LEMMA HeadListed ==
  ASSUME ArchiveTyped, todo # <<>>
  PROVE  /\ Head(todo) \in Listing /\ Tail(todo) \in Seq(Listing)
         /\ Head(todo) = todo[1] /\ 1 \in DOMAIN todo
         /\ \A i \in DOMAIN todo : i # 1 => i - 1 \in DOMAIN Tail(todo) /\ Tail(todo)[i - 1] = todo[i]
         /\ \A i \in DOMAIN Tail(todo) : i + 1 \in DOMAIN todo /\ Tail(todo)[i] = todo[i + 1]
<1>1. todo \in Seq(Listing) /\ Len(todo) \in Nat /\ Len(todo) >= 1 /\ DOMAIN todo = 1..Len(todo)
  BY EmptySeq, LenProperties DEF ArchiveTyped
<1>2. /\ Head(todo) \in Listing /\ Tail(todo) \in Seq(Listing)
      /\ Len(Tail(todo)) = Len(todo) - 1
      /\ \A i \in 1..Len(Tail(todo)) : Tail(todo)[i] = todo[i + 1]
  BY <1>1, HeadTailProperties
<1>3. Head(todo) = todo[1]
  BY <1>1
<1>4. DOMAIN Tail(todo) = 1..Len(todo) - 1
  BY <1>2, LenProperties
<1> DEFINE t == Tail(todo)
<1>5. ASSUME NEW i \in DOMAIN todo, i # 1 PROVE i - 1 \in DOMAIN t /\ t[i - 1] = todo[i]
  <2>1. i - 1 \in 1..Len(t) /\ (i - 1) + 1 = i
    BY <1>1, <1>2, <1>5
  <2> HIDE DEF t
  <2> QED BY <1>1, <1>2, <1>4, <2>1 DEF t
<1>6. QED
  BY <1>1, <1>2, <1>3, <1>4, <1>5

\* An archive of one entry more.
LEMMA LongerArchive ==
  ASSUME arch \in Seq(Entry), NEW e \in Entry, arch' = Append(arch, e)
  PROVE  /\ arch' \in Seq(Entry) /\ Len(arch') = Len(arch) + 1 /\ Len(arch) \in Nat
         /\ \A i \in DOMAIN arch : i \in DOMAIN arch' /\ arch'[i] = arch[i]
         /\ Len(arch) + 1 \in DOMAIN arch' /\ arch'[Len(arch) + 1] = e
         /\ \A i \in DOMAIN arch' : i \in DOMAIN arch \/ i = Len(arch) + 1
<1>1. /\ arch' \in Seq(Entry) /\ Len(arch') = Len(arch) + 1
      /\ \A i \in 1..Len(arch) : arch'[i] = arch[i]
      /\ arch'[Len(arch) + 1] = e
  BY AppendProperties
<1>2. Len(arch) \in Nat /\ DOMAIN arch = 1..Len(arch) /\ DOMAIN arch' = 1..Len(arch) + 1
  BY <1>1, LenProperties
<1>3. QED
  BY <1>1, <1>2

\* What the walk records are entries.
LEMMA EntryFits ==
  ASSUME NEW p \in Seq(STRING)
  PROVE  DirEntry(p) \in Entry /\ \A f \in Item : FileEntry(p, f) \in Entry
<1>1. FALSE \in BOOLEAN
  BY Zenon
<1>2. 0 \in Sizes /\ "" \in Bodies
  BY DirNodeFits DEF DirNode, Item
<1>3. "dir" \in {"dir", "file", "link", "other"} /\ "file" \in {"dir", "file", "link", "other"}
  OBVIOUS
<1>4. DirEntry(p) \in Entry
  BY <1>1, <1>2, <1>3, Zenon DEF DirEntry, Entry
<1>5. ASSUME NEW f \in Item PROVE FileEntry(p, f) \in Entry
  <2>1. f.size \in Sizes /\ f.body \in Bodies
    BY DEF Item
  <2> QED BY <1>1, <1>3, <2>1, Zenon DEF FileEntry, Entry
<1>6. QED
  BY <1>4, <1>5

\* The destination of the entry that is expanded next is a path.
LEMMA TargetOf ==
  ASSUME ArchiveTyped, next <= Len(arch)
  PROVE  /\ arch[next] \in Entry /\ next \in DOMAIN arch
         /\ Target(arch[next]) \in Seq(STRING)
         /\ Target(arch[next]) # Top => Front(Target(arch[next])) \in Seq(STRING)
<1>1. next \in 1..Len(arch) /\ arch \in Seq(Entry) /\ DOMAIN arch = 1..Len(arch)
  BY LenProperties DEF ArchiveTyped
<1>2. arch[next] \in Entry
  BY <1>1, ElementOfSeq
<1>3. arch[next].name \in Seq(STRING)
  BY <1>2 DEF Entry
<1>4. Target(arch[next]) \in Seq(STRING)
  BY <1>3, TargetIs
<1>5. Target(arch[next]) # Top => Front(Target(arch[next])) \in Seq(STRING)
  BY <1>4, FrontOf DEF Top
<1>6. QED
  BY <1>1, <1>2, <1>4, <1>5

\* Giving up keeps the types.
LEMMA FailsTyped == ASSUME ArchiveTyped, Fails PROVE ArchiveTyped'
  BY DEF ArchiveTyped, Fails, Returned

\* Every step keeps the types.
LEMMA TypedStep == ASSUME ArchiveTyped, [ArchiveNext]_archiveVars PROVE ArchiveTyped'
<1>1. CASE VisitDir
  <2>1. Head(todo) \in Listing /\ Tail(todo) \in Seq(Listing)
    BY <1>1, HeadListed DEF VisitDir
  <2> DEFINE p == Head(todo).path
  <2>2. p \in Seq(STRING)
    BY <2>1 DEF Listing
  <2>3. CASE Fails
    BY <2>3, FailsTyped
  <2>4. CASE ~Fails
    <3>1. arch' = Append(arch, DirEntry(p)) /\ todo' = Listed(src, p) \o Tail(todo)
          /\ UNCHANGED <<src, first, linked, phase, unpacked, next, told, sourceEdits>>
      BY <1>1, <2>4 DEF VisitDir
    <3>2. todo' \in Seq(Listing)
      <4>1. Listed(src, p) \in Seq(Listing)
        BY ListedIs DEF ArchiveTyped
      <4> QED BY <2>1, <3>1, <4>1, ConcatProperties
    <3>3. DirEntry(p) \in Entry
      BY <2>2, EntryFits
    <3>4. arch' \in Seq(Entry) /\ next' \in 1..Len(arch') + 1
      <4>1. arch \in Seq(Entry) /\ next \in 1..Len(arch) + 1
        BY DEF ArchiveTyped
      <4>2. arch' \in Seq(Entry) /\ Len(arch') = Len(arch) + 1 /\ Len(arch) \in Nat
        BY <3>1, <3>3, <4>1, LongerArchive
      <4> QED BY <3>1, <4>1, <4>2
    <3>5. phase = "walk"
      BY <1>1 DEF VisitDir
    <3> QED BY <3>1, <3>2, <3>4, <3>5 DEF ArchiveTyped
  <2> QED BY <2>3, <2>4
<1>2. CASE Visit
  <2>1. Tail(todo) \in Seq(Listing) /\ phase = "walk" /\ todo # <<>>
    BY <1>2, HeadListed DEF Visit
  <2>2. CASE Fails
    BY <2>2, FailsTyped
  <2>3. CASE Skips
    BY <2>1, <2>3 DEF ArchiveTyped, Skips
  <2>4. CASE phase' = "open" /\ UNCHANGED <<src, first, linked, todo, arch, unpacked, next, told, sourceEdits>>
    BY <2>1, <2>4 DEF ArchiveTyped
  <2> QED BY <1>2, <2>2, <2>3, <2>4 DEF Visit
<1>3. CASE CopyFile
  <2>0. todo # <<>> /\ phase = "open"
    BY <1>3 DEF CopyFile, ArchiveTyped
  <2>1. Head(todo) \in Listing /\ Tail(todo) \in Seq(Listing)
    BY <2>0, HeadListed
  <2> DEFINE p == Head(todo).path
  <2>2. p \in Seq(STRING)
    BY <2>1 DEF Listing
  <2>3. CASE Fails
    BY <2>3, FailsTyped
  <2>4. CASE ~Fails
    <3>1. p \in DOMAIN src /\ arch' = Append(arch, FileEntry(p, src[p])) /\ todo' = Tail(todo) /\ phase' = "walk"
          /\ UNCHANGED <<src, first, linked, unpacked, next, told, sourceEdits>>
      BY <1>3, <2>4 DEF CopyFile
    <3>2. src[p] \in Item
      BY <3>1 DEF ArchiveTyped, Walkable
    <3>3. FileEntry(p, src[p]) \in Entry
      BY <2>2, <3>2, EntryFits
    <3>4. arch' \in Seq(Entry) /\ next' \in 1..Len(arch') + 1
      <4>1. arch \in Seq(Entry) /\ next \in 1..Len(arch) + 1
        BY DEF ArchiveTyped
      <4>2. arch' \in Seq(Entry) /\ Len(arch') = Len(arch) + 1 /\ Len(arch) \in Nat
        BY <3>1, <3>3, <4>1, LongerArchive
      <4> QED BY <3>1, <4>1, <4>2
    <3> QED BY <2>0, <2>1, <3>1, <3>4 DEF ArchiveTyped
  <2> QED BY <2>3, <2>4
<1>4. CASE Send
  <2>1. CASE Fails
    BY <2>1, FailsTyped
  <2>2. CASE phase' = "check" /\ UNCHANGED <<src, first, linked, todo, arch, unpacked, next, told, sourceEdits>>
    BY <1>4, <2>2 DEF ArchiveTyped, Send
  <2> QED BY <1>4, <2>1, <2>2 DEF Send
<1>5. CASE SourceEdited
  <2>1. sourceEdits' \in 0..MaxSourceEdits
    BY <1>5, ArchiveAssumption DEF ArchiveTyped, SourceEdited
  <2>2. Walkable(src)
    BY DEF ArchiveTyped
  <2>3. Walkable(src')
    <3>1. CASE \E p \in DOMAIN src : src' = [q \in {r \in DOMAIN src : ~IsPrefix(p, r)} |-> src[q]]
      <4>1. PICK p \in DOMAIN src : src' = [q \in {r \in DOMAIN src : ~IsPrefix(p, r)} |-> src[q]]
        BY <3>1
      <4>2. DOMAIN src' \subseteq DOMAIN src /\ \A q \in DOMAIN src' : src'[q] = src[q]
        BY <4>1
      <4>3. IsFiniteSet(DOMAIN src')
        BY <2>2, <4>2, FS_Subset DEF Walkable
      <4> QED BY <2>2, <4>2, <4>3 DEF Walkable
    <3>2. CASE \E p \in DOMAIN Edited \ DOMAIN src :
                 src' = [q \in DOMAIN src \cup {p} |-> IF q = p THEN Edited[p] ELSE src[q]]
      <4>1. PICK p \in DOMAIN Edited \ DOMAIN src :
              src' = [q \in DOMAIN src \cup {p} |-> IF q = p THEN Edited[p] ELSE src[q]]
        BY <3>2
      <4>2. p \in Seq(STRING) /\ Edited[p] \in Item
        BY ArchiveAssumption
      <4>3. IsFiniteSet(DOMAIN src \cup {p})
        BY <2>2, FS_AddElement DEF Walkable
      <4> QED BY <2>2, <4>1, <4>2, <4>3 DEF Walkable
    <3> QED BY <1>5, <3>1, <3>2 DEF SourceEdited
  <2> QED BY <1>5, <2>1, <2>3 DEF ArchiveTyped, SourceEdited
<1>6. CASE CheckAll
  BY <1>6 DEF ArchiveTyped, CheckAll
<1>7. CASE ExpandDir
  <2>1. Target(arch[next]) \in Seq(STRING)
    BY <1>7, TargetOf DEF ExpandDir
  <2>2. Expandable(WithDirs(Target(arch[next])))
    BY <2>1, DirsExpandable DEF ArchiveTyped
  <2>3. Expandable(unpacked')
    BY <1>7, <2>2 DEF ExpandDir, ArchiveTyped
  <2>4. next' \in 1..Len(arch') + 1
    BY <1>7, LenProperties DEF ExpandDir, ArchiveTyped
  <2>5. phase' \in {"expand", "failed"}
    BY <1>7 DEF ExpandDir
  <2> QED BY <1>7, <2>3, <2>4, <2>5 DEF ArchiveTyped, ExpandDir
<1>8. CASE ExpandFile
  <2> DEFINE e == arch[next]
             p == Target(e)
  <2>1. e \in Entry /\ p \in Seq(STRING) /\ (p # Top => Front(p) \in Seq(STRING))
    BY <1>8, TargetOf DEF ExpandFile
  <2>2. p # Top => Expandable(WithDirs(Front(p)))
    <3> HIDE DEF p
    <3> QED BY <2>1, DirsExpandable DEF ArchiveTyped
  <2>3. p # Top => Expandable(Expanded(WithDirs(Front(p)), p, e))
    <3> HIDE DEF p, e
    <3> QED BY <2>1, <2>2, FileExpandable
  <2>4. Expandable(unpacked')
    BY <1>8, <2>2, <2>3 DEF ExpandFile, ArchiveTyped
  <2>5. next' \in 1..Len(arch') + 1
    BY <1>8, LenProperties DEF ExpandFile, ArchiveTyped
  <2>6. phase' \in {"expand", "failed"}
    BY <1>8 DEF ExpandFile
  <2> QED BY <1>8, <2>4, <2>5, <2>6 DEF ArchiveTyped, ExpandFile
<1>9. CASE Finish
  BY <1>9 DEF ArchiveTyped, Finish
<1>10. CASE Answer
  BY <1>10 DEF ArchiveTyped, Answer, Returned
<1>11. CASE UNCHANGED archiveVars
  BY <1>11 DEF ArchiveTyped, archiveVars
<1>12. QED
  BY <1>1, <1>2, <1>3, <1>4, <1>5, <1>6, <1>7, <1>8, <1>9, <1>10, <1>11 DEF ArchiveNext

\* So they always hold.
LEMMA TypedAlways == ArchiveSpec => []ArchiveTyped
<1>1. ArchiveTyped /\ [ArchiveNext]_archiveVars => ArchiveTyped'
  BY TypedStep
<1>2. QED
  BY TypedAtFirst, <1>1, PTL DEF ArchiveSpec

\* The state stays well typed: what ZipDir records are entries, what UnpackZip has
\* created are directories and files, and it is never past the end of the archive.
THEOREM ArchiveTypes == ArchiveSpec => []ArchiveTypeOK
<1>1. ASSUME ArchiveTyped PROVE ArchiveTypeOK
  <2>1. \A i \in DOMAIN arch : arch[i] \in Entry
    BY <1>1, LenProperties, ElementOfSeq DEF ArchiveTyped
  <2>2. \A p \in DOMAIN src : src[p] \in Item
    BY <1>1 DEF ArchiveTyped, Walkable
  <2>3. \A p \in DOMAIN unpacked : unpacked[p] \in Item /\ unpacked[p].kind \in {"dir", "file"}
    BY <1>1 DEF ArchiveTyped, Expandable
  <2> QED BY <1>1, <2>1, <2>2, <2>3 DEF ArchiveTypeOK, ArchiveTyped
<1>2. QED
  BY TypedAlways, <1>1, PTL

-----------------------------------------------------------------------------
(* The budget: what is stored is what has been taken from it. *)

FileSizes(t) == [p \in {q \in DOMAIN t : t[q].kind = "file"} |-> t[p].size]

\* What CheckAll has found before the first entry is expanded.
Checked == WithinLimits(arch) /\ \A i \in DOMAIN arch : SafeName(arch[i]) /\ arch[i].kind \in {"dir", "file"}

\* The account of the expansion: the invariant behind NothingUnchecked.
Budgeted ==
  /\ phase \in {"expand", "done"} \/ next # 1 \/ DOMAIN unpacked # {} => Checked
  /\ Stored(unpacked) = MaxBytes - Remaining(arch)[next - 1]

\* The sizes of what is stored can be added up.
LEMMA SizesAre ==
  ASSUME NEW t, Expandable(t)
  PROVE  /\ IsFiniteSet(DOMAIN FileSizes(t)) /\ \A x \in DOMAIN FileSizes(t) : FileSizes(t)[x] \in Int
         /\ Stored(t) = SumFunction(FileSizes(t))
<1>1. IsFiniteSet({q \in DOMAIN t : t[q].kind = "file"})
  BY FS_Subset DEF Expandable
<1>2. \A s \in Sizes : s \in Int
  BY DEF Sizes
<1>3. \A x \in DOMAIN t : t[x].size \in Sizes
  BY DEF Expandable, Item
<1>4. QED
  BY <1>1, <1>2, <1>3 DEF FileSizes, Stored

\* Directories take none of the budget.
LEMMA DirsTakeNothing ==
  ASSUME NEW p PROVE Stored(WithDirs(p)) = Stored(unpacked)
<1> DEFINE w == WithDirs(p)
<1>1. \A q \in DOMAIN w : w[q].kind = "file" => q \in DOMAIN unpacked
  BY DEF WithDirs, DirNode
<1>2. \A q \in DOMAIN unpacked : q \in DOMAIN w /\ w[q] = unpacked[q]
  BY DEF WithDirs
<1> HIDE DEF w
<1>3. {q \in DOMAIN w : w[q].kind = "file"} = {q \in DOMAIN unpacked : unpacked[q].kind = "file"}
  BY <1>1, <1>2
<1>4. FileSizes(w) = FileSizes(unpacked)
  BY <1>2, <1>3 DEF FileSizes
<1>5. Stored(w) = Stored(unpacked)
  BY <1>4 DEF Stored, FileSizes
<1>6. QED
  BY <1>5 DEF w

\* A file takes its declared size.
LEMMA FileTakes ==
  ASSUME NEW t, Expandable(t), NEW p, ~(p \in DOMAIN t /\ t[p].kind = "file"), NEW e \in Entry
  PROVE  Stored(Expanded(t, p, e)) = e.size + Stored(t) /\ Stored(t) \in Int
<1> DEFINE x == Expanded(t, p, e)
           f == FileSizes(t)
           g == FileSizes(x)
<1>1. Expandable(x)
  BY FileExpandable
<1>2. DOMAIN x = DOMAIN t \cup {p} /\ x[p].kind = "file" /\ x[p].size = e.size
      /\ \A q \in DOMAIN t : q # p => x[q] = t[q]
  BY DEF Expanded
<1>3. /\ IsFiniteSet(DOMAIN f) /\ \A q \in DOMAIN f : f[q] \in Int
      /\ Stored(t) = SumFunction(f)
  BY SizesAre
<1>4. Stored(x) = SumFunction(g) /\ \A q \in DOMAIN g : g[q] \in Int
  <2> HIDE DEF x
  <2> QED BY <1>1, SizesAre
<1> HIDE DEF x
<1>5. /\ DOMAIN f = {q \in DOMAIN t : t[q].kind = "file"} /\ DOMAIN g = {q \in DOMAIN x : x[q].kind = "file"}
      /\ \A q \in DOMAIN f : f[q] = t[q].size
      /\ \A q \in DOMAIN g : g[q] = x[q].size
  BY DEF FileSizes
<1> HIDE DEF f, g
<1>6. p \notin DOMAIN f /\ DOMAIN g = DOMAIN f \cup {p} /\ g[p] = e.size /\ \A q \in DOMAIN f : g[q] = f[q]
  BY <1>2, <1>5
<1>7. SumFunction(g) = g[p] + SumFunction(f) /\ SumFunction(f) \in Int
  BY <1>3, <1>4, <1>6, SumAdd
<1>8. QED
  BY <1>3, <1>4, <1>6, <1>7 DEF x

\* At first nothing is stored and nothing is taken from the budget.
LEMMA BudgetedAtFirst == ASSUME ArchiveInit PROVE Budgeted
<1>1. arch \in Seq(Entry) /\ unpacked = <<>> /\ next = 1
  BY TypedAtFirst DEF ArchiveTyped, ArchiveInit
<1>2. phase \notin {"expand", "done"}
  BY DEF ArchiveInit
<1>3. Stored(unpacked) = 0
  <2>1. DOMAIN [p \in {q \in DOMAIN unpacked : unpacked[q].kind = "file"} |-> unpacked[p].size] = {}
    BY <1>1
  <2> QED BY <2>1, SumEmpty DEF Stored
<1>4. Remaining(arch)[0] = MaxBytes /\ MaxBytes \in Nat
  BY <1>1, RemainingIs, ArchiveAssumption
<1>5. QED
  BY <1>1, <1>2, <1>3, <1>4 DEF Budgeted

\* Before anything is checked the budget is whole.
LEMMA StillWhole ==
  ASSUME Budgeted, ArchiveTyped, arch' \in Seq(Entry), phase \in {"walk", "open", "check"},
         next' = next, unpacked' = unpacked, phase' \notin {"expand", "done"}
  PROVE  Budgeted'
<1>1. next = 1 /\ DOMAIN unpacked = {} /\ arch \in Seq(Entry)
  BY DEF ArchiveTyped
<1>2. Remaining(arch)[0] = MaxBytes /\ Remaining(arch')[0] = MaxBytes
  BY <1>1, RemainingIs
<1>3. Stored(unpacked)' = MaxBytes - Remaining(arch')[next' - 1]
  <2>1. Stored(unpacked') = Stored(unpacked)
    BY Zenon
  <2>2. next - 1 = 0
    BY <1>1
  <2>3. Stored(unpacked) = MaxBytes - Remaining(arch)[0]
    BY <2>2 DEF Budgeted
  <2> QED BY <1>2, <2>1, <2>2, <2>3
<1>4. QED
  BY <1>1, <1>3 DEF Budgeted

\* What touches neither the archive nor the destination keeps the account.
LEMMA SameBudget ==
  ASSUME Budgeted, UNCHANGED <<arch, next, unpacked>>, phase' \in {"expand", "done"} => phase \in {"expand", "done"}
  PROVE  Budgeted'
<1>1. Checked' <=> Checked
  BY DEF Checked
<1>2. Stored(unpacked)' = Stored(unpacked) /\ Remaining(arch)' = Remaining(arch)
  BY Zenon
<1>3. QED
  BY <1>1, <1>2 DEF Budgeted

\* Every step keeps the account.
LEMMA BudgetedStep ==
  ASSUME Budgeted, ArchiveTyped, ArchiveTyped', [ArchiveNext]_archiveVars PROVE Budgeted'
<1>0. arch' \in Seq(Entry)
  BY DEF ArchiveTyped
<1>1. CASE VisitDir \/ Visit \/ CopyFile \/ Send \/ SourceEdited
  <2>1. phase \in {"walk", "open"} /\ next' = next /\ unpacked' = unpacked /\ phase' \notin {"expand", "done"}
    BY <1>1 DEF VisitDir, Visit, CopyFile, Send, SourceEdited, Fails, Skips
  <2> QED BY <1>0, <2>1, StillWhole
<1>2. CASE CheckAll
  <2>1. phase = "check" /\ UNCHANGED <<arch, next, unpacked>>
    BY <1>2 DEF CheckAll
  <2>2. CASE phase' = "expand"
    <3>1. Checked
      BY <1>2, <2>2 DEF CheckAll, Checked
    <3>2. Checked'
      BY <2>1, <3>1 DEF Checked
    <3>3. Stored(unpacked)' = Stored(unpacked) /\ Remaining(arch)' = Remaining(arch)
      BY <2>1, Zenon
    <3> QED BY <2>1, <3>2, <3>3 DEF Budgeted
  <2>3. CASE phase' = "failed"
    BY <2>1, <2>3, SameBudget
  <2> QED BY <1>2, <2>2, <2>3 DEF CheckAll
<1>3. CASE ExpandDir
  <2> DEFINE p == Target(arch[next])
  <2>0. phase = "expand" /\ arch' = arch /\ Checked
    BY <1>3 DEF ExpandDir, Budgeted
  <2>1. Checked'
    BY <2>0 DEF Checked
  <2>2. CASE UNCHANGED <<unpacked, next>>
    BY <1>3, <2>0, <2>2, SameBudget DEF ExpandDir
  <2>3. CASE unpacked' = WithDirs(p) /\ next' = next + 1
    <3>1. Stored(unpacked') = Stored(unpacked)
      <4> HIDE DEF p
      <4> QED BY <2>3, DirsTakeNothing
    <3>2. next \in 1..Len(arch) /\ arch \in Seq(Entry)
      BY <1>3, LenProperties DEF ExpandDir, ArchiveTyped
    <3>3. Remaining(arch)[next] = Left(arch, next, Remaining(arch)[next - 1])
      BY <3>2, RemainingIs
    <3>4. ~Regular(arch[next])
      BY <1>3 DEF ExpandDir, Regular
    <3>5. Remaining(arch)[next] = Remaining(arch)[next - 1]
      BY <3>3, <3>4 DEF Left
    <3>6. next' - 1 = next
      BY <2>3, <3>2
    <3>7. Stored(unpacked)' = MaxBytes - Remaining(arch')[next' - 1]
      <4>1. Stored(unpacked)' = Stored(unpacked')
        BY Zenon
      <4> QED BY <2>0, <3>1, <3>5, <3>6, <4>1 DEF Budgeted
    <3> QED BY <2>1, <3>7 DEF Budgeted
  <2> QED BY <1>3, <2>2, <2>3 DEF ExpandDir
<1>4. CASE ExpandFile
  <2> DEFINE e == arch[next]
             p == Target(e)
             d == WithDirs(Front(p))
  <2>0. phase = "expand" /\ arch' = arch /\ Checked /\ next <= Len(arch) /\ e.kind = "file"
    BY <1>4 DEF ExpandFile, Budgeted
  <2>1. Checked'
    BY <2>0 DEF Checked
  <2>2. e \in Entry /\ p \in Seq(STRING) /\ (p # Top => Front(p) \in Seq(STRING))
    BY <2>0, TargetOf
  <2>3. Stored(d) = Stored(unpacked)
    <3> HIDE DEF p
    <3> QED BY DirsTakeNothing
  <2>4. CASE unpacked' = unpacked /\ next' = next
    BY <2>0, <2>4, SameBudget
  <2>5. CASE unpacked' = d /\ next' = next
    <3> HIDE DEF d
    <3>1. Stored(unpacked)' = Stored(unpacked)
      <4>1. Stored(unpacked)' = Stored(d)
        BY <2>5, Zenon
      <4> QED BY <2>3, <4>1
    <3>2. Remaining(arch')[next' - 1] = Remaining(arch)[next - 1]
      BY <2>0, <2>5
    <3> QED BY <2>1, <3>1, <3>2 DEF Budgeted
  <2>6. CASE p # Top /\ p \notin DOMAIN unpacked /\ unpacked' = Expanded(d, p, e) /\ next' = next + 1
    <3>1. ~(p \in DOMAIN d /\ d[p].kind = "file") /\ Expandable(d)
      <4> HIDE DEF p
      <4>1. Expandable(d)
        BY <2>2, <2>6, DirsExpandable DEF ArchiveTyped
      <4> QED BY <2>6, <4>1 DEF WithDirs, DirNode
    <3>2. Stored(unpacked') = e.size + Stored(unpacked) /\ Stored(unpacked) \in Int
      <4> HIDE DEF p, e, d
      <4> QED BY <2>2, <2>3, <2>6, <3>1, FileTakes
    <3>3. next \in 1..Len(arch) /\ arch \in Seq(Entry) /\ next - 1 \in 0..Len(arch) /\ next \in 0..Len(arch)
      BY <2>0, LenProperties DEF ArchiveTyped
    <3>4. Remaining(arch)[next] = Left(arch, next, Remaining(arch)[next - 1])
      BY <3>3, RemainingIs
    <3>5. Remaining(arch)[next] >= 0 /\ Remaining(arch)[next - 1] >= 0
          /\ Remaining(arch)[next] \in Int /\ Remaining(arch)[next - 1] \in Int
      <4>1. Remaining(arch)[Len(arch)] >= 0
        BY <2>0 DEF Checked, WithinLimits
      <4> QED BY <3>3, <4>1, OverdrawnStays, RemainingIs
    <3>6. Remaining(arch)[next] = Remaining(arch)[next - 1] - e.size
      BY <2>0, <3>4, <3>5 DEF Left, Regular
    <3>7. e.size \in Int
      BY <2>2 DEF Entry, Sizes
    <3>8. next' - 1 = next
      BY <2>6, <3>3
    <3>9. Stored(unpacked)' = MaxBytes - Remaining(arch')[next' - 1]
      <4>1. Stored(unpacked)' = Stored(unpacked')
        BY Zenon
      <4>2. Stored(unpacked) = MaxBytes - Remaining(arch)[next - 1]
        BY DEF Budgeted
      <4>3. MaxBytes \in Nat
        BY ArchiveAssumption
      <4> HIDE DEF e
      <4> QED BY <2>0, <3>2, <3>5, <3>6, <3>7, <3>8, <4>1, <4>2, <4>3
    <3> QED BY <2>1, <3>9 DEF Budgeted
  <2> QED BY <1>4, <2>4, <2>5, <2>6 DEF ExpandFile
<1>5. CASE Finish \/ Answer
  <2>1. UNCHANGED <<arch, next, unpacked>> /\ (phase' \in {"expand", "done"} => phase \in {"expand", "done"})
    BY <1>5 DEF Finish, Answer
  <2> QED BY <2>1, SameBudget
<1>6. CASE UNCHANGED archiveVars
  BY <1>6, SameBudget DEF archiveVars
<1>7. QED
  BY <1>1, <1>2, <1>3, <1>4, <1>5, <1>6 DEF ArchiveNext

\* So it always balances.
LEMMA BudgetedAlways == ArchiveSpec => []Budgeted
<1>1. ArchiveInit => Budgeted
  BY BudgetedAtFirst
<1>2. Budgeted /\ ArchiveTyped /\ ArchiveTyped' /\ [ArchiveNext]_archiveVars => Budgeted'
  BY BudgetedStep
<1>3. QED
  BY TypedAlways, <1>1, <1>2, PTL DEF ArchiveSpec

\* Nothing is created of an archive that checkArchiveLimits or safeJoin refuses,
\* and what is created never takes more than the limit: the sizes are taken one by
\* one from what remains, so no archive can make the sum wrap.
THEOREM NothingIsUnchecked == ArchiveSpec => []NothingUnchecked
<1>1. ASSUME ArchiveTyped, Budgeted PROVE NothingUnchecked
  <2> SUFFICES ASSUME DOMAIN unpacked # {}
               PROVE  /\ \A i \in DOMAIN arch : SafeName(arch[i]) /\ arch[i].kind \in {"dir", "file"}
                      /\ Stored(unpacked) <= MaxBytes
    BY DEF NothingUnchecked
  <2>1. Checked
    BY <1>1 DEF Budgeted
  <2>2. arch \in Seq(Entry) /\ next - 1 \in 0..Len(arch)
    BY <1>1, LenProperties DEF ArchiveTyped
  <2>3. Remaining(arch)[next - 1] >= 0 /\ Remaining(arch)[next - 1] \in Int
    BY <2>1, <2>2, OverdrawnStays, RemainingIs DEF Checked, WithinLimits
  <2>4. Stored(unpacked) <= MaxBytes
    BY <1>1, <2>3, ArchiveAssumption DEF Budgeted
  <2> QED BY <2>1, <2>4 DEF Checked
<1>2. QED
  BY TypedAlways, BudgetedAlways, <1>1, PTL

-----------------------------------------------------------------------------
(* A push delivers the tree. *)

\* What a push delivers of a tree; what is archived of it, and what still lies at
\* or below something the walk has to visit.
Due(t) == {p \in DOMAIN t : t[p].kind \in {"dir", "file"}}
Archived(p) == \E i \in DOMAIN arch : arch[i].name = p
Under(p, q) == \E n \in 1..Len(p) : SubSeq(p, 1, n) = q
Awaited(p) == \E j \in DOMAIN todo : Under(p, todo[j].path)

\* The entry records a node of the source as it is.
Carries(e) ==
  /\ e.name \in Due(first)
  /\ first[e.name].kind = "dir" => e = DirEntry(e.name)
  /\ first[e.name].kind = "file" => e = FileEntry(e.name, first[e.name])

Untouched == sourceEdits = 0 /\ DOMAIN first # {} /\ ~linked

\* The walk loses nothing: what is due is in the archive or below what is still to be
\* visited, then in the archive, and at last in the destination, where there is
\* nothing else.
Walked ==
  /\ src = first
  /\ \A i \in DOMAIN arch : Carries(arch[i])
  /\ phase \in {"walk", "open"} =>
       /\ \A j \in DOMAIN todo : todo[j].path \in DOMAIN first /\ todo[j].kind = first[todo[j].path].kind
       /\ \A p \in Due(first) : Archived(p) \/ Awaited(p)
  /\ phase = "open" => Head(todo).kind = "file"
  /\ phase \in {"check", "expand", "done"} => \A p \in Due(first) : Archived(p)
  /\ \A p \in DOMAIN unpacked : p \in Due(first) /\ unpacked[p] = Delivered(first)[p]
  /\ phase \in {"expand", "done"} => \A i \in DOMAIN arch : i < next => arch[i].name \in DOMAIN unpacked
  /\ phase = "done" => next > Len(arch)

Faithful ==
  /\ Untouched => Walked
  /\ told.status = "ok" => phase = "done" /\ told.entries = ListTree(unpacked)

\* Everything on the way to a node of a tree is a directory of it.
LEMMA PartsOf ==
  ASSUME NEW t, IsTree(t), NEW p \in DOMAIN t
  PROVE  /\ p \in Seq(STRING) /\ Len(p) \in Nat /\ Len(p) >= 1
         /\ \A n \in 1..Len(p) : SubSeq(p, 1, n) \in DOMAIN t /\ (n < Len(p) => t[SubSeq(p, 1, n)].kind = "dir")
         /\ \A n \in 1..Len(p) : SubSeq(p, 1, n) # Top /\ Front(SubSeq(p, 1, n)) = SubSeq(p, 1, n - 1)
         /\ SubSeq(p, 1, Len(p)) = p
         /\ SubSeq(p, 1, 0) = Top
<1>1. p \in Seq(STRING) /\ p # <<>>
  BY DEF IsTree
<1>2. Len(p) \in Nat /\ Len(p) >= 1
  BY <1>1, EmptySeq
<1>3. SubSeq(p, 1, Len(p)) = p /\ SubSeq(p, 1, 0) = Top
  BY <1>1, WholePrefix DEF Top
<1>4. ASSUME NEW n \in 1..Len(p) PROVE SubSeq(p, 1, n) \in DOMAIN t /\ (n < Len(p) => t[SubSeq(p, 1, n)].kind = "dir")
  <2>1. CASE n = Len(p)
    <3>1. SubSeq(p, 1, n) = p
      BY <1>3, <2>1
    <3>2. ~(n < Len(p))
      BY <1>2, <2>1
    <3>3. SubSeq(p, 1, n) \in DOMAIN t
      BY <3>1
    <3> QED BY <3>2, <3>3, Zenon
  <2>2. CASE n # Len(p)
    <3>1. n \in 1..Len(p) - 1
      BY <1>2, <2>2
    <3> QED BY <3>1 DEF IsTree
  <2> QED BY <2>1, <2>2
<1>5. ASSUME NEW n \in 1..Len(p) PROVE SubSeq(p, 1, n) # Top /\ Front(SubSeq(p, 1, n)) = SubSeq(p, 1, n - 1)
  <2>1. Len(SubSeq(p, 1, n)) = n
    BY <1>1, PrefixOf
  <2>2. SubSeq(p, 1, n) # Top
    BY <2>1, EmptySeq DEF Top
  <2> QED BY <1>1, <2>2, FrontOfPrefix
<1>6. QED
  BY <1>1, <1>2, <1>3, <1>4, <1>5

\* What is read of a directory holds the next step towards everything below it.
LEMMA ListedBelow ==
  ASSUME NEW t, IsTree(t), NEW p \in DOMAIN t, NEW n \in 0..Len(p) - 1
  PROVE  \E j \in DOMAIN Listed(t, SubSeq(p, 1, n)) : Under(p, Listed(t, SubSeq(p, 1, n))[j].path)
<1> DEFINE d == SubSeq(p, 1, n)
           q == SubSeq(p, 1, n + 1)
<1>1. n + 1 \in 1..Len(p) /\ (n + 1) - 1 = n
  BY PartsOf
<1>2. q \in In(t, d)
  BY <1>1, PartsOf DEF In
<1> HIDE DEF d
<1>3. \A x \in In(t, d) : \E i \in DOMAIN Listed(t, d) : Listed(t, d)[i].path = x
  BY TreeWalkable, ListedIs
<1>4. PICK j \in DOMAIN Listed(t, d) : Listed(t, d)[j].path = q
  BY <1>2, <1>3
<1>5. Under(p, q)
  BY <1>1 DEF Under
<1>6. QED
  BY <1>4, <1>5 DEF d

\* What the walk records of a node carries it.
LEMMA CarriedNamed ==
  ASSUME IsTree(first), NEW p \in Due(first)
  PROVE  /\ first[p].kind = "dir" => Carries(DirEntry(p))
         /\ first[p].kind = "file" => Carries(FileEntry(p, first[p]))
  BY DEF Carries, DirEntry, FileEntry

\* At first everything that is due lies below what the top directory lists.
LEMMA FaithfulAtFirst == ASSUME ArchiveInit PROVE Faithful
<1>1. ArchiveTyped
  BY TypedAtFirst
<1>2. told.status # "ok"
  BY DEF ArchiveInit, Returned
<1>3. ASSUME Untouched PROVE Walked
  <2>1. src = first /\ phase = "walk" /\ arch = <<>> /\ todo = Listed(first, Top) /\ unpacked = <<>>
    BY <1>3 DEF ArchiveInit, Untouched
  <2>2. IsTree(first) /\ Walkable(first)
    BY <1>1, TreeWalkable DEF ArchiveTyped
  <2>3. \A j \in DOMAIN todo : todo[j].path \in DOMAIN first /\ todo[j].kind = first[todo[j].path].kind
    BY <2>1, <2>2, ListedIs
  <2>4. ASSUME NEW p \in Due(first) PROVE Awaited(p)
    <3>1. p \in DOMAIN first
      BY DEF Due
    <3>2. 0 \in 0..Len(p) - 1 /\ SubSeq(p, 1, 0) = Top
      BY <2>2, <3>1, PartsOf
    <3>3. \E j \in DOMAIN Listed(first, Top) : Under(p, Listed(first, Top)[j].path)
      BY <2>2, <3>1, <3>2, ListedBelow
    <3> QED BY <2>1, <3>3 DEF Awaited
  <2> QED BY <2>1, <2>3, <2>4 DEF Walked
<1>4. QED
  BY <1>2, <1>3 DEF Faithful

\* A push that fails tells no success.
LEMMA FaithfulIfFailed ==
  ASSUME Faithful, UNCHANGED <<src, first, linked, arch, sourceEdits>>, phase' = "failed", told'.status # "ok",
         Untouched => \A p \in DOMAIN unpacked' : p \in Due(first) /\ unpacked'[p] = Delivered(first)[p]
  PROVE  Faithful'
<1>1. ASSUME Untouched' PROVE Walked'
  <2>1. Untouched /\ Walked
    BY <1>1 DEF Untouched, Faithful
  <2>2. Due(first') = Due(first) /\ Delivered(first') = Delivered(first)
    BY Zenon
  <2>3. (\A i \in DOMAIN arch : Carries(arch[i]))'
    BY <2>1 DEF Walked, Carries, Due
  <2>4. src' = first'
    BY <2>1 DEF Walked
  <2> QED BY <1>1, <2>1, <2>2, <2>3, <2>4 DEF Walked
<1>2. QED
  BY <1>1 DEF Faithful

\* No success is told before the expansion is done.
LEMMA ToldEarly ==
  ASSUME Faithful, phase \in {"walk", "open", "check", "expand"} PROVE told.status # "ok"
  BY DEF Faithful

\* The walk may fail.
LEMMA FailsFaithful == ASSUME Faithful, Fails PROVE Faithful'
<1>1. told'.status # "ok" /\ phase' = "failed" /\ unpacked' = unpacked /\ UNCHANGED <<src, first, linked, arch, sourceEdits>>
  BY DEF Fails, Returned
<1>2. Untouched => \A p \in DOMAIN unpacked' : p \in Due(first) /\ unpacked'[p] = Delivered(first)[p]
  BY <1>1 DEF Faithful, Walked
<1>3. QED
  BY <1>1, <1>2, FaithfulIfFailed

\* A directory is recorded, and what it lists takes its place.
LEMMA VisitDirFaithful == ASSUME ArchiveTyped, Faithful, VisitDir PROVE Faithful'
<1>0. todo # <<>> /\ phase = "walk" /\ IsTree(first) /\ arch \in Seq(Entry) /\ Head(todo).kind = "dir"
  BY DEF VisitDir, ArchiveTyped
<1> DEFINE d == Head(todo).path
           l == Listed(src, d)
           t == Tail(todo)
<1>1. /\ Head(todo) \in Listing /\ t \in Seq(Listing) /\ Head(todo) = todo[1] /\ 1 \in DOMAIN todo
      /\ \A i \in DOMAIN todo : i # 1 => i - 1 \in DOMAIN t /\ t[i - 1] = todo[i]
      /\ \A i \in DOMAIN t : i + 1 \in DOMAIN todo /\ t[i] = todo[i + 1]
  BY <1>0, HeadListed
<1>2. CASE Fails
  BY <1>2, FailsFaithful
<1>3. CASE ~Fails
  <2>1. /\ arch' = Append(arch, DirEntry(d)) /\ todo' = l \o t
        /\ UNCHANGED <<src, first, linked, phase, unpacked, next, told, sourceEdits>>
    BY <1>3 DEF VisitDir
  <2>2. DirEntry(d) \in Entry
    BY <1>1, EntryFits DEF Listing
  <2> DEFINE a == Len(arch) + 1
  <2>3. /\ \A i \in DOMAIN arch : i \in DOMAIN arch' /\ arch'[i] = arch[i]
        /\ a \in DOMAIN arch' /\ arch'[a] = DirEntry(d)
        /\ \A i \in DOMAIN arch' : i \in DOMAIN arch \/ i = a
    BY <1>0, <2>1, <2>2, LongerArchive
  <2>4. ASSUME Untouched' PROVE Walked'
    <3>1. Walked /\ src = first
      BY <2>1, <2>4 DEF Untouched, Faithful, Walked
    <3>0. \A p \in Due(first) : Archived(p) \/ Awaited(p)
      BY <1>0, <3>1 DEF Walked
    <3>2. d \in DOMAIN first /\ first[d].kind = "dir" /\ d \in Due(first)
      BY <1>0, <1>1, <3>1 DEF Walked, Due
    <3>3. /\ l \in Seq(Listing)
          /\ \A i \in DOMAIN l : l[i].path \in DOMAIN first /\ l[i].kind = first[l[i].path].kind
      BY <1>0, <3>1, TreeWalkable, ListedIs
    <3>4. \A j \in DOMAIN t : t[j].path \in DOMAIN first /\ t[j].kind = first[t[j].path].kind
      BY <1>0, <1>1, <3>1 DEF Walked
    <3>5. \A p \in DOMAIN first : d # p /\ Under(p, d) => \E j \in DOMAIN l : Under(p, l[j].path)
      <4> SUFFICES ASSUME NEW p \in DOMAIN first, d # p, NEW n \in 1..Len(p), SubSeq(p, 1, n) = d
                   PROVE  \E j \in DOMAIN l : Under(p, l[j].path)
        BY DEF Under
      <4>1. n # Len(p) /\ Len(p) \in Nat
        BY <1>0, PartsOf
      <4>2. n \in 0..Len(p) - 1
        BY <4>1
      <4>3. \E j \in DOMAIN Listed(first, SubSeq(p, 1, n)) : Under(p, Listed(first, SubSeq(p, 1, n))[j].path)
        BY <1>0, <4>2, ListedBelow
      <4> QED BY <3>1, <4>3
    <3> HIDE DEF l, t
    <3>6. /\ \A i \in DOMAIN l : i \in DOMAIN todo' /\ todo'[i] = l[i]
          /\ \A i \in DOMAIN t : Len(l) + i \in DOMAIN todo' /\ todo'[Len(l) + i] = t[i]
          /\ \A i \in DOMAIN todo' : (\E j \in DOMAIN l : todo'[i] = l[j]) \/ (\E j \in DOMAIN t : todo'[i] = t[j])
      <4>1. /\ todo' \in Seq(Listing) /\ Len(todo') = Len(l) + Len(t)
            /\ \A i \in 1..Len(l) + Len(t) : todo'[i] = IF i <= Len(l) THEN l[i] ELSE t[i - Len(l)]
        BY <1>1, <2>1, <3>3, ConcatProperties
      <4>2. DOMAIN todo' = 1..Len(l) + Len(t) /\ DOMAIN l = 1..Len(l) /\ DOMAIN t = 1..Len(t) /\ Len(l) \in Nat /\ Len(t) \in Nat
        BY <1>1, <3>3, <4>1, LenProperties
      <4>3. \A i \in DOMAIN l : i \in DOMAIN todo' /\ todo'[i] = l[i]
        BY <4>1, <4>2
      <4>4. \A i \in DOMAIN t : Len(l) + i \in DOMAIN todo' /\ todo'[Len(l) + i] = t[i]
        BY <4>1, <4>2
      <4>5. ASSUME NEW i \in DOMAIN todo' PROVE (\E j \in DOMAIN l : todo'[i] = l[j]) \/ (\E j \in DOMAIN t : todo'[i] = t[j])
        <5>1. CASE i <= Len(l)
          BY <4>1, <4>2, <5>1
        <5>2. CASE i > Len(l)
          <6>1. i - Len(l) \in DOMAIN t /\ todo'[i] = t[i - Len(l)]
            BY <4>1, <4>2, <5>2
          <6> QED BY <6>1
        <5> QED BY <4>2, <5>1, <5>2
      <4> QED BY <4>3, <4>4, <4>5
    <3>7. \A j \in DOMAIN todo' : todo'[j].path \in DOMAIN first /\ todo'[j].kind = first[todo'[j].path].kind
      BY <3>3, <3>4, <3>6
    <3>8. ASSUME NEW p \in Due(first) PROVE Archived(p)' \/ Awaited(p)'
      <4>0. p \in DOMAIN first
        BY DEF Due
      <4>1. CASE Archived(p)
        <5>1. PICK i \in DOMAIN arch : arch[i].name = p
          BY <4>1 DEF Archived
        <5>2. i \in DOMAIN arch' /\ arch'[i].name = p
          BY <2>3, <5>1
        <5> QED BY <5>2 DEF Archived
      <4>2. CASE d = p
        <5>0. DirEntry(d).name = p
          BY <4>2 DEF DirEntry
        <5>1. arch'[a].name = p
          BY <2>3, <5>0
        <5> QED BY <2>3, <5>1 DEF Archived
      <4>3. CASE d # p /\ Under(p, d)
        <5>1. PICK j \in DOMAIN l : Under(p, l[j].path)
          BY <3>5, <4>0, <4>3
        <5>2. j \in DOMAIN todo' /\ Under(p, todo'[j].path)
          BY <3>6, <5>1
        <5> QED BY <5>2 DEF Awaited, Under
      <4>4. CASE ~Archived(p) /\ ~Under(p, d)
        <5>1. Awaited(p)
          BY <3>0, <4>4
        <5>2. PICK j \in DOMAIN todo : Under(p, todo[j].path)
          BY <5>1 DEF Awaited
        <5>3. j # 1
          BY <1>1, <4>4, <5>2
        <5>4. j - 1 \in DOMAIN t /\ t[j - 1] = todo[j]
          BY <1>1, <5>3 DEF t
        <5>5. Len(l) + (j - 1) \in DOMAIN todo' /\ todo'[Len(l) + (j - 1)] = todo[j]
          BY <3>6, <5>4
        <5> QED BY <5>2, <5>5 DEF Awaited, Under
      <4> QED BY <4>1, <4>2, <4>3, <4>4
    <3>9. (\A i \in DOMAIN arch : Carries(arch[i]))'
      <4>1. Carries(DirEntry(d))
        BY <1>0, <3>2, CarriedNamed
      <4>2. \A i \in DOMAIN arch' : Carries(arch'[i])
        BY <2>3, <3>1, <4>1 DEF Walked
      <4> QED BY <2>1, <4>2 DEF Carries, Due
    <3>10. (src = first)' /\ (\A p \in DOMAIN unpacked : p \in Due(first) /\ unpacked[p] = Delivered(first)[p])'
      BY <2>1, <3>1 DEF Walked, Due, Delivered
    <3>11. (\A j \in DOMAIN todo : todo[j].path \in DOMAIN first /\ todo[j].kind = first[todo[j].path].kind)'
      BY <2>1, <3>7
    <3>12. (\A p \in Due(first) : Archived(p) \/ Awaited(p))'
      BY <2>1, <3>8 DEF Due
    <3>13. phase' = "walk"
      BY <1>0, <2>1
    <3> QED BY <3>9, <3>10, <3>11, <3>12, <3>13 DEF Walked
  <2>5. told'.status # "ok"
    BY <1>0, <2>1, ToldEarly
  <2> QED BY <2>4, <2>5 DEF Faithful
<1>4. QED
  BY <1>2, <1>3

\* Nothing lies below what is no directory.
LEMMA EndsThere ==
  ASSUME NEW t, IsTree(t), NEW p \in DOMAIN t, NEW n \in 1..Len(p), t[SubSeq(p, 1, n)].kind # "dir"
  PROVE  SubSeq(p, 1, n) = p
<1>1. /\ \A m \in 1..Len(p) : SubSeq(p, 1, m) \in DOMAIN t /\ (m < Len(p) => t[SubSeq(p, 1, m)].kind = "dir")
      /\ Len(p) \in Nat /\ SubSeq(p, 1, Len(p)) = p
  BY PartsOf
<1>2. n < Len(p) => t[SubSeq(p, 1, n)].kind = "dir"
  BY <1>1
<1>3. n = Len(p)
  <2>1. ~(n < Len(p))
    BY <1>2, Zenon
  <2>2. Len(p) \in Nat
    BY <1>1
  <2> QED BY <2>1, <2>2
<1>4. SubSeq(p, 1, Len(p)) = p
  BY <1>1
<1>5. QED
  BY <1>3, <1>4, Zenon

\* A file that is visited is archived, or nothing of it was due.
LEMMA PassedFaithful ==
  ASSUME ArchiveTyped, Faithful, Untouched, phase \in {"walk", "open"}, todo # <<>>, Head(todo).kind # "dir",
         todo' = Tail(todo), UNCHANGED first,
         \A i \in DOMAIN arch : i \in DOMAIN arch' /\ arch'[i] = arch[i],
         Head(todo).path \in Due(first) => \E i \in DOMAIN arch' : arch'[i].name = Head(todo).path
  PROVE  /\ (\A j \in DOMAIN todo : todo[j].path \in DOMAIN first /\ todo[j].kind = first[todo[j].path].kind)'
         /\ (\A p \in Due(first) : Archived(p) \/ Awaited(p))'
<1> DEFINE h == Head(todo).path
           t == Tail(todo)
<1>1. /\ Head(todo) = todo[1] /\ 1 \in DOMAIN todo
      /\ \A i \in DOMAIN todo : i # 1 => i - 1 \in DOMAIN t /\ t[i - 1] = todo[i]
      /\ \A i \in DOMAIN t : i + 1 \in DOMAIN todo /\ t[i] = todo[i + 1]
  BY HeadListed
<1>2. /\ Walked /\ IsTree(first)
      /\ \A j \in DOMAIN todo : todo[j].path \in DOMAIN first /\ todo[j].kind = first[todo[j].path].kind
      /\ \A p \in Due(first) : Archived(p) \/ Awaited(p)
  BY DEF Faithful, Walked, ArchiveTyped
<1>3. \A j \in DOMAIN t : t[j].path \in DOMAIN first /\ t[j].kind = first[t[j].path].kind
  BY <1>1, <1>2
<1>4. h \in DOMAIN first /\ first[h].kind # "dir"
  BY <1>1, <1>2
<1>5. ASSUME NEW p \in Due(first) PROVE Archived(p)' \/ Awaited(p)'
  <2>1. p \in DOMAIN first
    BY DEF Due
  <2>2. CASE Archived(p)
    <3>1. PICK i \in DOMAIN arch : arch[i].name = p
      BY <2>2 DEF Archived
    <3>2. i \in DOMAIN arch' /\ arch'[i].name = p
      BY <3>1
    <3> QED BY <3>2 DEF Archived
  <2>3. CASE ~Archived(p)
    <3>1. Awaited(p)
      BY <1>2, <2>3
    <3>2. PICK j \in DOMAIN todo : Under(p, todo[j].path)
      BY <3>1 DEF Awaited
    <3>3. CASE j = 1
      <4>1. PICK n \in 1..Len(p) : SubSeq(p, 1, n) = h
        BY <1>1, <3>2, <3>3 DEF Under
      <4>2. h = p
        <5>1. SubSeq(p, 1, n) \in DOMAIN first /\ first[SubSeq(p, 1, n)].kind # "dir" /\ IsTree(first)
          BY <1>2, <1>4, <4>1
        <5>2. SubSeq(p, 1, n) = p
          BY <2>1, <5>1, EndsThere
        <5> QED BY <4>1, <5>2
      <4> QED BY <4>2 DEF Archived
    <3>4. CASE j # 1
      <4>1. j - 1 \in DOMAIN todo' /\ todo'[j - 1] = todo[j]
        BY <1>1, <3>4
      <4> QED BY <3>2, <4>1 DEF Awaited, Under
    <3> QED BY <3>3, <3>4
  <2> QED BY <2>2, <2>3
<1>6. (\A p \in Due(first) : Archived(p) \/ Awaited(p))'
  BY <1>5 DEF Due
<1>7. (\A j \in DOMAIN todo : todo[j].path \in DOMAIN first /\ todo[j].kind = first[todo[j].path].kind)'
  BY <1>3
<1>8. QED
  BY <1>6, <1>7

\* What is skipped was not due; a file is opened.
LEMMA VisitFaithful == ASSUME ArchiveTyped, Faithful, Visit PROVE Faithful'
<1>0. phase = "walk" /\ todo # <<>> /\ Head(todo).kind # "dir"
  BY DEF Visit
<1>1. CASE Fails
  BY <1>1, FailsFaithful
<1>2. CASE ~Fails
  <2> DEFINE h == Head(todo).path
  <2>1. UNCHANGED <<src, first, linked, arch, unpacked, next, told, sourceEdits>>
    BY <1>2 DEF Visit, Skips
  <2>2. told'.status # "ok"
    BY <1>0, <2>1, ToldEarly
  <2>3. ASSUME Untouched' PROVE Walked'
    <3>1. Untouched /\ Walked /\ src = first
      BY <2>1, <2>3 DEF Untouched, Faithful, Walked
    <3>2. h \in DOMAIN first /\ Head(todo).kind = first[h].kind
      <4>1. Head(todo) = todo[1] /\ 1 \in DOMAIN todo
        BY <1>0, HeadListed
      <4> QED BY <1>0, <3>1, <4>1 DEF Walked
    <3>3. (src = first)' /\ (\A i \in DOMAIN arch : Carries(arch[i]))'
          /\ (\A p \in DOMAIN unpacked : p \in Due(first) /\ unpacked[p] = Delivered(first)[p])'
      BY <2>1, <3>1 DEF Walked, Carries, Due, Delivered
    <3>4. CASE Skips
      <4>1. phase' = "walk" /\ todo' = Tail(todo)
        BY <1>0, <3>4 DEF Skips
      <4>2. ~(h \in Due(first))
        <5>1. Head(todo).kind = "link" \/ src[h].kind # "file"
          BY <1>0, <1>2, <3>4, <4>1 DEF Visit
        <5> QED BY <1>0, <3>1, <3>2, <5>1 DEF Due
      <4>3. /\ (\A j \in DOMAIN todo : todo[j].path \in DOMAIN first /\ todo[j].kind = first[todo[j].path].kind)'
            /\ (\A p \in Due(first) : Archived(p) \/ Awaited(p))'
        <5>1. \A i \in DOMAIN arch : i \in DOMAIN arch' /\ arch'[i] = arch[i]
          BY <2>1
        <5> QED BY <1>0, <2>1, <3>1, <4>1, <4>2, <5>1, PassedFaithful
      <4> QED BY <3>3, <4>1, <4>3 DEF Walked
    <3>5. CASE phase' = "open" /\ todo' = todo
      <4>1. Head(todo).kind = "file"
        BY <1>0, <1>2, <3>1, <3>2, <3>5 DEF Visit, Skips
      <4>2. (\A j \in DOMAIN todo : todo[j].path \in DOMAIN first /\ todo[j].kind = first[todo[j].path].kind)'
        BY <1>0, <2>1, <3>1, <3>5 DEF Walked
      <4>3. (\A p \in Due(first) : Archived(p) \/ Awaited(p))'
        <5>1. \A p \in Due(first) : Archived(p) \/ Awaited(p)
          BY <1>0, <3>1 DEF Walked
        <5> QED BY <2>1, <3>5, <5>1 DEF Due, Archived, Awaited
      <4> QED BY <3>3, <3>5, <4>1, <4>2, <4>3 DEF Walked
    <3> QED BY <1>2, <3>4, <3>5 DEF Visit
  <2> QED BY <2>2, <2>3 DEF Faithful
<1>3. QED
  BY <1>1, <1>2

\* A file that is copied is archived as it is.
LEMMA CopyFileFaithful == ASSUME ArchiveTyped, Faithful, CopyFile PROVE Faithful'
<1>0. phase = "open" /\ todo # <<>> /\ arch \in Seq(Entry)
  BY DEF CopyFile, ArchiveTyped
<1>1. CASE Fails
  BY <1>1, FailsFaithful
<1>2. CASE ~Fails
  <2> DEFINE h == Head(todo).path
             a == Len(arch) + 1
  <2>1. /\ h \in DOMAIN src /\ arch' = Append(arch, FileEntry(h, src[h])) /\ todo' = Tail(todo) /\ phase' = "walk"
        /\ UNCHANGED <<src, first, linked, unpacked, next, told, sourceEdits>>
    BY <1>2 DEF CopyFile
  <2>2. told'.status # "ok"
    BY <1>0, <2>1, ToldEarly
  <2>3. Head(todo) = todo[1] /\ 1 \in DOMAIN todo /\ h \in Seq(STRING)
    BY <1>0, HeadListed DEF Listing
  <2>4. FileEntry(h, src[h]) \in Entry
    BY <2>1, <2>3, EntryFits DEF ArchiveTyped, Walkable
  <2>5. /\ \A i \in DOMAIN arch : i \in DOMAIN arch' /\ arch'[i] = arch[i]
        /\ a \in DOMAIN arch' /\ arch'[a] = FileEntry(h, src[h])
        /\ \A i \in DOMAIN arch' : i \in DOMAIN arch \/ i = a
    BY <1>0, <2>1, <2>4, LongerArchive
  <2>6. ASSUME Untouched' PROVE Walked'
    <3>1. Untouched /\ Walked /\ src = first
      BY <2>1, <2>6 DEF Untouched, Faithful, Walked
    <3>2. Head(todo).kind = "file" /\ h \in DOMAIN first /\ first[h].kind = "file"
      BY <1>0, <2>3, <3>1 DEF Walked
    <3>3. arch'[a].name = h
      BY <2>5 DEF FileEntry
    <3>4. /\ (\A j \in DOMAIN todo : todo[j].path \in DOMAIN first /\ todo[j].kind = first[todo[j].path].kind)'
          /\ (\A p \in Due(first) : Archived(p) \/ Awaited(p))'
      <4>1. h \in Due(first) => \E i \in DOMAIN arch' : arch'[i].name = h
        BY <2>5, <3>3
      <4>2. \A i \in DOMAIN arch : i \in DOMAIN arch' /\ arch'[i] = arch[i]
        BY <2>5
      <4>3. phase \in {"walk", "open"} /\ todo # <<>> /\ Head(todo).kind # "dir" /\ todo' = Tail(todo) /\ UNCHANGED first
        BY <1>0, <2>1, <3>2
      <4> QED BY <3>1, <4>1, <4>2, <4>3, PassedFaithful
    <3>5. (\A i \in DOMAIN arch : Carries(arch[i]))'
      <4>1. Carries(FileEntry(h, first[h]))
        <5>1. h \in Due(first) /\ IsTree(first)
          BY <3>2 DEF Due, ArchiveTyped
        <5> QED BY <3>2, <5>1, CarriedNamed
      <4>2. \A i \in DOMAIN arch' : Carries(arch'[i])
        BY <2>5, <3>1, <4>1 DEF Walked
      <4> QED BY <2>1, <4>2 DEF Carries, Due
    <3>6. (src = first)' /\ (\A p \in DOMAIN unpacked : p \in Due(first) /\ unpacked[p] = Delivered(first)[p])'
      BY <2>1, <3>1 DEF Walked, Due, Delivered
    <3> QED BY <2>1, <3>4, <3>5, <3>6 DEF Walked
  <2> QED BY <2>2, <2>6 DEF Faithful
<1>3. QED
  BY <1>1, <1>2

\* When nothing is left to visit, everything that is due is in the archive.
LEMMA SendFaithful == ASSUME ArchiveTyped, Faithful, Send PROVE Faithful'
<1>1. CASE Fails
  BY <1>1, FailsFaithful
<1>2. CASE ~Fails
  <2>1. phase = "walk" /\ todo = <<>> /\ phase' = "check" /\ UNCHANGED <<src, first, linked, todo, arch, unpacked, next, told, sourceEdits>>
    BY <1>2 DEF Send
  <2>2. told'.status # "ok"
    BY <2>1, ToldEarly
  <2>3. ASSUME Untouched' PROVE Walked'
    <3>1. Walked
      BY <2>1, <2>3 DEF Untouched, Faithful
    <3>2. \A p \in Due(first) : Archived(p)
      BY <2>1, <3>1 DEF Walked, Awaited
    <3>3. (\A p \in Due(first) : Archived(p))'
      BY <2>1, <3>2 DEF Due, Archived
    <3>4. (src = first)' /\ (\A i \in DOMAIN arch : Carries(arch[i]))'
          /\ (\A p \in DOMAIN unpacked : p \in Due(first) /\ unpacked[p] = Delivered(first)[p])'
      BY <2>1, <3>1 DEF Walked, Carries, Due, Delivered
    <3> QED BY <2>1, <3>3, <3>4 DEF Walked
  <2> QED BY <2>2, <2>3 DEF Faithful
<1>3. QED
  BY <1>1, <1>2

\* The check changes nothing but the phase.
LEMMA CheckFaithful == ASSUME ArchiveTyped, Faithful, CheckAll PROVE Faithful'
<1>1. phase = "check" /\ phase' \in {"expand", "failed"} /\ UNCHANGED <<src, first, linked, todo, arch, unpacked, next, told, sourceEdits>>
  BY DEF CheckAll
<1>2. told'.status # "ok"
  BY <1>1, ToldEarly
<1>3. next = 1 /\ \A i \in DOMAIN arch : ~(i < next)
  BY <1>1, LenProperties DEF ArchiveTyped
<1>4. ASSUME Untouched' PROVE Walked'
  <2>1. Walked
    BY <1>1, <1>4 DEF Untouched, Faithful
  <2>2. \A p \in Due(first) : Archived(p)
    BY <1>1, <2>1 DEF Walked
  <2>3. (\A p \in Due(first) : Archived(p))'
    BY <1>1, <2>2 DEF Due, Archived
  <2>4. (src = first)' /\ (\A i \in DOMAIN arch : Carries(arch[i]))'
        /\ (\A p \in DOMAIN unpacked : p \in Due(first) /\ unpacked[p] = Delivered(first)[p])'
    BY <1>1, <2>1 DEF Walked, Carries, Due, Delivered
  <2>5. (\A i \in DOMAIN arch : i < next => arch[i].name \in DOMAIN unpacked)'
    BY <1>1, <1>3
  <2> QED BY <1>1, <2>3, <2>4, <2>5 DEF Walked
<1>5. QED
  BY <1>2, <1>4 DEF Faithful

\* What is delivered of a node.
LEMMA DueDelivered ==
  ASSUME IsTree(first), NEW p \in Due(first)
  PROVE  /\ p \in DOMAIN Delivered(first)
         /\ first[p].kind = "dir" => Delivered(first)[p] = DirNode
         /\ first[p].kind = "file" => Delivered(first)[p] =
              [kind |-> "file", size |-> first[p].size, exec |-> FALSE, body |-> first[p].body]
<1>1. p \in DOMAIN Delivered(first) /\ Delivered(first)[p] =
        [kind |-> first[p].kind, size |-> first[p].size, exec |-> FALSE, body |-> first[p].body]
  BY DEF Delivered, Due
<1>2. first[p].kind = "dir" => first[p].size = 0 /\ first[p].body = ""
  BY DEF Due, IsTree
<1>3. QED
  BY <1>1, <1>2 DEF DirNode

\* The way to what is due is due, and made of directories.
LEMMA WayDue ==
  ASSUME IsTree(first), NEW p \in Due(first), NEW q \in Ancestors(p)
  PROVE  q \in Due(first) /\ (q # p => first[q].kind = "dir")
<1>1. PICK n \in 1..Len(p) : q = SubSeq(p, 1, n)
  BY DEF Ancestors
<1>2. /\ \A m \in 1..Len(p) : SubSeq(p, 1, m) \in DOMAIN first /\ (m < Len(p) => first[SubSeq(p, 1, m)].kind = "dir")
      /\ Len(p) \in Nat /\ SubSeq(p, 1, Len(p)) = p
  BY PartsOf DEF Due
<1>3. CASE n = Len(p)
  <2>1. q = p
    BY <1>1, <1>2, <1>3
  <2> QED BY <2>1
<1>4. CASE n # Len(p)
  <2>1. q \in DOMAIN first /\ (n < Len(p) => first[q].kind = "dir")
    <3>1. SubSeq(p, 1, n) \in DOMAIN first /\ (n < Len(p) => first[SubSeq(p, 1, n)].kind = "dir")
      BY <1>2
    <3> QED BY <1>1, <3>1, Zenon
  <2>2. n < Len(p)
    <3>1. Len(p) \in Nat
      BY <1>2
    <3> QED BY <1>4, <3>1
  <2> QED BY <2>1, <2>2 DEF Due
<1>5. QED
  BY <1>3, <1>4

\* So is the way to the directory a file lies in.
LEMMA FrontDue ==
  ASSUME IsTree(first), NEW p \in Due(first), NEW q \in Ancestors(Front(p))
  PROVE  q \in Due(first) /\ first[q].kind = "dir"
<1>1. /\ p \in Seq(STRING) /\ Len(p) \in Nat /\ Len(p) >= 1
      /\ \A m \in 1..Len(p) : SubSeq(p, 1, m) \in DOMAIN first /\ (m < Len(p) => first[SubSeq(p, 1, m)].kind = "dir")
  BY PartsOf DEF Due
<1>2. Len(Front(p)) = Len(p) - 1 /\ Front(p) = SubSeq(p, 1, Len(p) - 1)
  BY <1>1, FrontOf, WholePrefix, EmptySeq
<1>3. PICK n \in 1..Len(p) - 1 : q = SubSeq(Front(p), 1, n)
  BY <1>2 DEF Ancestors
<1>4. SubSeq(Front(p), 1, n) = SubSeq(p, 1, n)
  <2>1. Len(p) - 1 \in 0..Len(p) /\ n \in 0..Len(p) - 1
    BY <1>1
  <2> QED BY <1>1, <1>2, <2>1, PrefixOfPrefix
<1>5. n \in 1..Len(p) /\ n < Len(p)
  BY <1>1
<1>6. QED
  BY <1>1, <1>3, <1>4, <1>5 DEF Due

\* Every target is the name of the entry: no name of a tree holds a ".".
LEMMA TargetNamed ==
  ASSUME IsTree(first), NEW e, Carries(e) PROVE Target(e) = e.name
<1>1. e.name \in DOMAIN first
  BY DEF Carries, Due
<1>2. e.name \in Seq(STRING) /\ \A i \in DOMAIN e.name : e.name[i] # "."
  BY <1>1 DEF IsTree
<1>3. QED
  BY <1>2, TargetIs

\* The destination holds nothing but what is due.
DirsFine(t) == \A p \in DOMAIN t : p \in Due(first) /\ t[p] = Delivered(first)[p]

\* The directories made on the way are those of the source.
LEMMA WithDirsFine ==
  ASSUME IsTree(first), NEW p, \A q \in Ancestors(p) : q \in Due(first) /\ first[q].kind = "dir",
         DirsFine(unpacked)
  PROVE  DirsFine(WithDirs(p))
<1>1. \A q \in Ancestors(p) : q \in Due(first) /\ Delivered(first)[q] = DirNode
  BY DueDelivered
<1>2. QED
  BY <1>1 DEF DirsFine, WithDirs

\* Expanding a directory delivers it.
LEMMA ExpandDirFaithful == ASSUME ArchiveTyped, Faithful, ExpandDir PROVE Faithful'
<1> DEFINE e == arch[next]
           p == Target(e)
<1>0. /\ phase = "expand" /\ next <= Len(arch) /\ e.kind = "dir" /\ UNCHANGED <<src, first, linked, todo, arch, told, sourceEdits>>
      /\ IsTree(first)
  BY DEF ExpandDir, ArchiveTyped
<1>1. told'.status # "ok"
  BY <1>0, ToldEarly
<1>2. CASE phase' = "failed" /\ UNCHANGED <<unpacked, next>>
  <2>1. Untouched => \A q \in DOMAIN unpacked' : q \in Due(first) /\ unpacked'[q] = Delivered(first)[q]
    BY <1>2 DEF Faithful, Walked
  <2> QED BY <1>0, <1>1, <1>2, <2>1, FaithfulIfFailed
<1>3. CASE unpacked' = WithDirs(p) /\ next' = next + 1 /\ phase' = phase
  <2>1. ASSUME Untouched' PROVE Walked'
    <3>1. Walked
      BY <1>0, <2>1 DEF Untouched, Faithful
    <3>2. next \in DOMAIN arch /\ Carries(e)
      <4>1. next \in DOMAIN arch
        BY <1>0, TargetOf
      <4> QED BY <3>1, <4>1 DEF Walked
    <3>3. p = e.name /\ p \in Due(first) /\ first[p].kind = "dir"
      <4>1. p = e.name
        BY <1>0, <3>2, TargetNamed
      <4>2. p \in Due(first)
        BY <3>2, <4>1 DEF Carries
      <4>3. first[p].kind = "file" => e.kind = "file"
        BY <3>2, <4>1 DEF Carries, FileEntry
      <4> QED BY <1>0, <4>1, <4>2, <4>3 DEF Due
    <3> HIDE DEF p
    <3>4. DirsFine(unpacked)
      BY <3>1 DEF Walked, DirsFine
    <3>5. \A q \in Ancestors(p) : q \in Due(first) /\ first[q].kind = "dir"
      BY <1>0, <3>3, WayDue
    <3>6. DirsFine(WithDirs(p))
      BY <1>0, <3>4, <3>5, WithDirsFine
    <3>7. p \in DOMAIN unpacked' /\ DOMAIN unpacked \subseteq DOMAIN unpacked'
      <4>1. p \in Ancestors(p)
        <5>1. p \in DOMAIN first
          BY <3>3 DEF Due
        <5>2. Len(p) \in 1..Len(p) /\ SubSeq(p, 1, Len(p)) = p
          BY <1>0, <5>1, PartsOf
        <5> QED BY <5>2 DEF Ancestors
      <4> QED BY <1>3, <4>1 DEF WithDirs
    <3>8. (\A i \in DOMAIN arch : i < next => arch[i].name \in DOMAIN unpacked)'
      <4>1. ASSUME NEW i \in DOMAIN arch, i < next + 1 PROVE arch[i].name \in DOMAIN unpacked'
        <5>1. CASE i < next
          BY <1>0, <3>1, <3>7, <5>1 DEF Walked
        <5>2. CASE i = next
          BY <3>3, <3>7, <5>2
        <5>3. i \in Int /\ next \in Int
          BY LenProperties DEF ArchiveTyped
        <5> QED BY <4>1, <5>1, <5>2, <5>3
      <4> QED BY <1>0, <1>3, <4>1
    <3>9. (\A q \in Due(first) : Archived(q))'
      <4>1. \A q \in Due(first) : Archived(q)
        BY <1>0, <3>1 DEF Walked
      <4> QED BY <1>0, <4>1 DEF Due, Archived
    <3>10. (src = first)' /\ (\A i \in DOMAIN arch : Carries(arch[i]))'
      BY <1>0, <3>1 DEF Walked, Carries, Due
    <3>11. (\A q \in DOMAIN unpacked : q \in Due(first) /\ unpacked[q] = Delivered(first)[q])'
      BY <1>0, <1>3, <3>6 DEF DirsFine, Due, Delivered
    <3> QED BY <1>0, <1>3, <3>8, <3>9, <3>10, <3>11 DEF Walked
  <2> QED BY <1>1, <2>1 DEF Faithful
<1>4. QED
  BY <1>2, <1>3 DEF ExpandDir

\* Expanding a file delivers it, or fails the push.
LEMMA ExpandFileFaithful == ASSUME ArchiveTyped, Faithful, ExpandFile PROVE Faithful'
<1> DEFINE e == arch[next]
           p == Target(e)
           d == WithDirs(Front(p))
           f == [kind |-> "file", size |-> e.size, exec |-> e.exec, body |-> e.body]
<1>0. /\ phase = "expand" /\ next <= Len(arch) /\ e.kind = "file" /\ UNCHANGED <<src, first, linked, todo, arch, told, sourceEdits>>
      /\ IsTree(first)
  BY DEF ExpandFile, ArchiveTyped
<1>1. told'.status # "ok"
  BY <1>0, ToldEarly
<1>2. ASSUME Untouched
      PROVE  /\ Walked /\ p = e.name /\ p \in Due(first) /\ f = Delivered(first)[p]
             /\ DirsFine(unpacked) /\ DirsFine(d)
  <2>1. Walked
    BY <1>2 DEF Faithful
  <2>2. next \in DOMAIN arch /\ Carries(e)
    <3>1. next \in DOMAIN arch
      BY <1>0, TargetOf
    <3> QED BY <2>1, <3>1 DEF Walked
  <2>3. p = e.name
    BY <1>0, <2>2, TargetNamed
  <2> HIDE DEF p
  <2>4. p \in Due(first) /\ first[p].kind = "file" /\ e = FileEntry(p, first[p])
    <3>1. p \in Due(first) /\ (first[p].kind = "dir" => e = DirEntry(p)) /\ (first[p].kind = "file" => e = FileEntry(p, first[p]))
      BY <2>2, <2>3 DEF Carries
    <3>2. DirEntry(p).kind = "dir"
      BY DEF DirEntry
    <3> QED BY <1>0, <3>1, <3>2 DEF Due
  <2>5. f = Delivered(first)[p]
    <3>1. Delivered(first)[p] = [kind |-> "file", size |-> first[p].size, exec |-> FALSE, body |-> first[p].body]
      BY <1>0, <2>4, DueDelivered
    <3>2. e.size = first[p].size /\ e.body = first[p].body
      BY <2>4 DEF FileEntry
    <3>3. e.exec = FALSE
      BY <2>4 DEF FileEntry
    <3> HIDE DEF e
    <3> QED BY <3>1, <3>2, <3>3, Zenon
  <2>6. DirsFine(unpacked)
    BY <2>1 DEF Walked, DirsFine
  <2>7. \A q \in Ancestors(Front(p)) : q \in Due(first) /\ first[q].kind = "dir"
    BY <1>0, <2>4, FrontDue
  <2>8. DirsFine(d)
    BY <1>0, <2>6, <2>7, WithDirsFine
  <2> QED BY <2>1, <2>3, <2>4, <2>5, <2>6, <2>8
<1>3. CASE phase' = "failed" /\ unpacked' \in {unpacked, d}
  <2>1. Untouched => DirsFine(unpacked')
    BY <1>2, <1>3
  <2>2. Untouched => \A q \in DOMAIN unpacked' : q \in Due(first) /\ unpacked'[q] = Delivered(first)[q]
    BY <2>1 DEF DirsFine
  <2> QED BY <1>0, <1>1, <1>3, <2>2, FaithfulIfFailed
<1>4. CASE unpacked' = Expanded(d, p, e) /\ next' = next + 1 /\ phase' = phase
  <2>1. ASSUME Untouched' PROVE Walked'
    <3>0. Untouched
      BY <1>0, <2>1 DEF Untouched
    <3>1. /\ Walked /\ p = e.name /\ p \in Due(first) /\ f = Delivered(first)[p]
          /\ DirsFine(unpacked) /\ DirsFine(d)
      BY <1>2, <3>0
    <3>2. /\ DOMAIN unpacked' = DOMAIN d \cup {p} /\ unpacked'[p] = f
          /\ \A q \in DOMAIN d : q # p => unpacked'[q] = d[q]
      <4> HIDE DEF p, e, d
      <4> QED BY <1>4 DEF Expanded
    <3>3. DOMAIN unpacked \subseteq DOMAIN d
      BY DEF WithDirs
    <3> HIDE DEF p, d, f
    <3>4. DirsFine(unpacked')
      <4> HIDE DEF e
      <4> QED BY <3>1, <3>2 DEF DirsFine
    <3>5. (\A i \in DOMAIN arch : i < next => arch[i].name \in DOMAIN unpacked)'
      <4>1. ASSUME NEW i \in DOMAIN arch, i < next + 1 PROVE arch[i].name \in DOMAIN unpacked'
        <5>1. CASE i < next
          <6>1. arch[i].name \in DOMAIN unpacked
            BY <1>0, <3>1, <5>1 DEF Walked
          <6> QED BY <3>2, <3>3, <6>1
        <5>2. CASE i = next
          BY <3>1, <3>2, <5>2
        <5>3. i \in Int /\ next \in Int
          BY LenProperties DEF ArchiveTyped
        <5> QED BY <4>1, <5>1, <5>2, <5>3
      <4> QED BY <1>0, <1>4, <4>1
    <3>6. (\A q \in Due(first) : Archived(q))'
      <4>1. \A q \in Due(first) : Archived(q)
        BY <1>0, <3>1 DEF Walked
      <4> QED BY <1>0, <4>1 DEF Due, Archived
    <3>7. (src = first)' /\ (\A i \in DOMAIN arch : Carries(arch[i]))'
      BY <1>0, <3>1 DEF Walked, Carries, Due
    <3>8. (\A q \in DOMAIN unpacked : q \in Due(first) /\ unpacked[q] = Delivered(first)[q])'
      BY <1>0, <3>4 DEF DirsFine, Due, Delivered
    <3> QED BY <1>0, <1>4, <3>5, <3>6, <3>7, <3>8 DEF Walked
  <2> QED BY <1>1, <2>1 DEF Faithful
<1>5. QED
  BY <1>3, <1>4 DEF ExpandFile

\* Every step keeps the destination faithful to the source.
LEMMA FaithfulStep ==
  ASSUME Faithful, ArchiveTyped, [ArchiveNext]_archiveVars PROVE Faithful'
<1>1. CASE VisitDir
  BY <1>1, VisitDirFaithful
<1>2. CASE Visit
  BY <1>2, VisitFaithful
<1>3. CASE CopyFile
  BY <1>3, CopyFileFaithful
<1>4. CASE Send
  BY <1>4, SendFaithful
<1>5. CASE SourceEdited
  <2>1. sourceEdits' # 0 /\ phase \in {"walk", "open"} /\ told' = told
    BY <1>5 DEF SourceEdited, ArchiveTyped
  <2>2. ~Untouched'
    BY <2>1 DEF Untouched
  <2>3. told'.status # "ok"
    BY <2>1, ToldEarly
  <2> QED BY <2>2, <2>3 DEF Faithful
<1>6. CASE CheckAll
  BY <1>6, CheckFaithful
<1>7. CASE ExpandDir
  BY <1>7, ExpandDirFaithful
<1>8. CASE ExpandFile
  BY <1>8, ExpandFileFaithful
<1>9. CASE Finish
  <2>1. phase = "expand" /\ next > Len(arch) /\ phase' = "done" /\ UNCHANGED <<src, first, linked, todo, arch, unpacked, next, told, sourceEdits>>
    BY <1>9 DEF Finish
  <2>2. told'.status # "ok"
    BY <2>1, ToldEarly
  <2>3. ASSUME Untouched' PROVE Walked'
    <3>1. Walked
      BY <2>1, <2>3 DEF Untouched, Faithful
    <3>2. (\A q \in Due(first) : Archived(q))'
      <4>1. \A q \in Due(first) : Archived(q)
        BY <2>1, <3>1 DEF Walked
      <4> QED BY <2>1, <4>1 DEF Due, Archived
    <3>3. (src = first)' /\ (\A i \in DOMAIN arch : Carries(arch[i]))'
          /\ (\A q \in DOMAIN unpacked : q \in Due(first) /\ unpacked[q] = Delivered(first)[q])'
      BY <2>1, <3>1 DEF Walked, Carries, Due, Delivered
    <3>4. (\A i \in DOMAIN arch : i < next => arch[i].name \in DOMAIN unpacked)'
      BY <2>1, <3>1 DEF Walked
    <3> QED BY <2>1, <3>2, <3>3, <3>4 DEF Walked
  <2> QED BY <2>2, <2>3 DEF Faithful
<1>10. CASE Answer
  <2>1. UNCHANGED <<src, first, linked, todo, arch, phase, unpacked, next, sourceEdits>>
    BY <1>10 DEF Answer
  <2>2. told'.status = "ok" => phase' = "done" /\ told'.entries = ListTree(unpacked)'
    BY <1>10 DEF Answer, Returned, ListTree
  <2>3. Untouched' => Walked'
    BY <2>1 DEF Faithful, Untouched, Walked, Carries, Due, Archived, Awaited, Under, Delivered
  <2> QED BY <2>2, <2>3 DEF Faithful
<1>11. CASE UNCHANGED archiveVars
  <2>1. Untouched' => Walked'
    BY <1>11 DEF Faithful, Untouched, Walked, Carries, Due, Archived, Awaited, Under, Delivered, archiveVars
  <2>2. told'.status = "ok" => phase' = "done" /\ told'.entries = ListTree(unpacked)'
    BY <1>11 DEF Faithful, ListTree, archiveVars
  <2> QED BY <2>1, <2>2 DEF Faithful
<1>12. QED
  BY <1>1, <1>2, <1>3, <1>4, <1>5, <1>6, <1>7, <1>8, <1>9, <1>10, <1>11 DEF ArchiveNext

\* So it always is.
LEMMA FaithfulAlways == ArchiveSpec => []Faithful
<1>1. ArchiveInit => Faithful
  BY FaithfulAtFirst
<1>2. Faithful /\ ArchiveTyped /\ [ArchiveNext]_archiveVars => Faithful'
  BY FaithfulStep
<1>3. QED
  BY TypedAlways, <1>1, <1>2, PTL DEF ArchiveSpec

\* When all entries are expanded, the destination is what the push should deliver.
LEMMA DeliveredWhole ==
  ASSUME ArchiveTyped, Faithful, Untouched, phase = "done" PROVE unpacked = Delivered(first)
<1>1. Walked /\ IsTree(first) /\ unpacked \in [DOMAIN unpacked -> Item]
  BY DEF Faithful, ArchiveTyped, Expandable
<1>2. \A p \in Due(first) : Archived(p)
  BY <1>1 DEF Walked
<1>3. \A i \in DOMAIN arch : i < next
  <2>1. next > Len(arch)
    BY <1>1 DEF Walked
  <2> QED BY <2>1, LenProperties DEF ArchiveTyped
<1>4. \A i \in DOMAIN arch : arch[i].name \in DOMAIN unpacked
  BY <1>1, <1>3 DEF Walked
<1>5. DOMAIN unpacked = Due(first)
  BY <1>1, <1>2, <1>4 DEF Walked, Archived
<1>6. \A p \in DOMAIN unpacked : unpacked[p] = Delivered(first)[p]
  BY <1>1 DEF Walked
<1> DEFINE D == Delivered(first)
<1>7. D = [p \in Due(first) |-> D[p]]
  BY DEF Delivered, Due
<1> HIDE DEF D
<1>8. unpacked = D
  BY <1>1, <1>5, <1>6, <1>7 DEF D
<1>9. QED
  BY <1>8 DEF D

\* Of a directory named through a link nothing is on its way.
Nothing == linked => todo = <<>> /\ arch = <<>> /\ unpacked = <<>>

\* Every step keeps it so: there is nothing to visit and nothing to expand.
LEMMA NothingStep ==
  ASSUME Nothing, ArchiveTyped, [ArchiveNext]_archiveVars PROVE Nothing'
<1>1. CASE VisitDir \/ Visit \/ CopyFile
  <2>1. todo # <<>> /\ linked' = linked
    BY <1>1 DEF VisitDir, Visit, CopyFile, Fails, Skips, ArchiveTyped
  <2> QED BY <2>1 DEF Nothing
<1>2. CASE ExpandDir \/ ExpandFile
  <2>1. next <= Len(arch) /\ next \in 1..Len(arch) + 1 /\ linked' = linked
    BY <1>2 DEF ExpandDir, ExpandFile, ArchiveTyped
  <2>2. arch # <<>>
    BY <2>1, EmptySeq
  <2> QED BY <2>1, <2>2 DEF Nothing
<1>3. CASE UNCHANGED <<linked, todo, arch, unpacked>>
  BY <1>3 DEF Nothing
<1>4. QED
  BY <1>1, <1>2, <1>3
  DEF ArchiveNext, Send, SourceEdited, CheckAll, Finish, Answer, Fails, archiveVars

\* So nothing ever is.
LEMMA NothingAlways == ArchiveSpec => []Nothing
<1>1. ArchiveInit => Nothing
  BY DEF ArchiveInit, Nothing
<1>2. Nothing /\ ArchiveTyped /\ [ArchiveNext]_archiveVars => Nothing'
  BY NothingStep
<1>3. QED
  BY TypedAlways, <1>1, <1>2, PTL DEF ArchiveSpec

\* A push that is told it succeeded of a directory named itself delivered it,
\* without its links and special files, whatever the tree and in whatever order its
\* directories are read, if its owner left it alone; of a directory named through
\* a link such a push has delivered nothing but an empty one.
THEOREM PushedArrivesWhole == ArchiveSpec => []PushedIsWhole
<1>1. ASSUME ArchiveTyped, Faithful, Nothing PROVE PushedIsWhole
  <2> SUFFICES ASSUME told.status = "ok", sourceEdits = 0, DOMAIN first # {}
               PROVE  LET due == IF linked THEN <<>> ELSE Delivered(first) IN
                      unpacked = due /\ told.entries = ListTree(due)
    BY DEF PushedIsWhole
  <2>1. phase = "done" /\ told.entries = ListTree(unpacked)
    BY <1>1 DEF Faithful
  <2>2. CASE ~linked
    <3>1. unpacked = Delivered(first)
      BY <1>1, <2>1, <2>2, DeliveredWhole DEF Untouched
    <3> QED BY <2>1, <2>2, <3>1
  <2>3. CASE linked
    BY <1>1, <2>1, <2>3 DEF Nothing
  <2> QED BY <2>2, <2>3
<1>2. QED
  BY TypedAlways, FaithfulAlways, NothingAlways, <1>1, PTL

-----------------------------------------------------------------------------
(* Names. *)

\* Everything that is created is named below the destination.
UnpackedBelow == \A p \in DOMAIN unpacked : p \in Seq(STRING) /\ p # Top /\ \A i \in DOMAIN p : p[i] # ".."

\* Nor do the directories on the way lead up.
LEMMA AncestorsBelow ==
  ASSUME NEW p \in Seq(STRING), \A i \in DOMAIN p : p[i] # "..", UnpackedBelow
  PROVE  \A q \in DOMAIN WithDirs(p) : q \in Seq(STRING) /\ q # Top /\ \A i \in DOMAIN q : q[i] # ".."
<1>1. \A q \in Ancestors(p) : q \in Seq(STRING) /\ q # Top /\ \A i \in DOMAIN q : q[i] # ".."
  <2> TAKE q \in Ancestors(p)
  <2>1. q \in Seq(STRING) /\ q # <<>> /\ \A i \in DOMAIN q : \E j \in DOMAIN p : q[i] = p[j]
    BY AncestorsIs
  <2> QED BY <2>1 DEF Top
<1>2. QED
  BY <1>1 DEF WithDirs, UnpackedBelow

\* No step creates anything on a path that leads up.
LEMMA BelowStep ==
  ASSUME UnpackedBelow, ArchiveTyped, Budgeted, [ArchiveNext]_archiveVars PROVE UnpackedBelow'
<1>1. ASSUME phase = "expand", next <= Len(arch)
      PROVE  /\ Target(arch[next]) \in Seq(STRING) /\ \A i \in DOMAIN Target(arch[next]) : Target(arch[next])[i] # ".."
             /\ Target(arch[next]) # Top =>
                  /\ Front(Target(arch[next])) \in Seq(STRING)
                  /\ \A i \in DOMAIN Front(Target(arch[next])) : Front(Target(arch[next]))[i] # ".."
  <2> DEFINE e == arch[next]
             p == Target(e)
             r == Front(p)
  <2>1. e \in Entry /\ next \in DOMAIN arch
    BY <1>1, TargetOf
  <2>2. SafeName(e)
    BY <1>1, <2>1 DEF Budgeted, Checked
  <2>3. p \in Seq(STRING) /\ \A i \in DOMAIN p : \E j \in DOMAIN e.name : p[i] = e.name[j]
    BY <2>1, TargetIs DEF Entry
  <2> HIDE DEF e
  <2>4. \A i \in DOMAIN p : p[i] # ".."
    BY <2>2, <2>3 DEF SafeName
  <2> HIDE DEF p
  <2>5. ASSUME p # Top PROVE r \in Seq(STRING) /\ \A i \in DOMAIN r : r[i] # ".."
    <3>1. r \in Seq(STRING) /\ Len(r) = Len(p) - 1 /\ \A i \in 1..Len(p) - 1 : r[i] = p[i]
      BY <2>3, <2>5, FrontOf DEF Top
    <3>2. DOMAIN p = 1..Len(p) /\ Len(p) \in Nat
      BY <2>3, LenProperties
    <3> HIDE DEF r
    <3>3. DOMAIN r = 1..Len(p) - 1
      BY <3>1, LenProperties
    <3> QED BY <2>4, <3>1, <3>2, <3>3
  <2> QED BY <2>3, <2>4, <2>5 DEF p, e
<1>2. CASE ExpandDir
  <2> DEFINE p == Target(arch[next])
  <2>1. p \in Seq(STRING) /\ \A i \in DOMAIN p : p[i] # ".."
    BY <1>1, <1>2 DEF ExpandDir
  <2>2. unpacked' = unpacked \/ unpacked' = WithDirs(p)
    BY <1>2 DEF ExpandDir
  <2> HIDE DEF p
  <2> QED BY <2>1, <2>2, AncestorsBelow DEF UnpackedBelow
<1>3. CASE ExpandFile
  <2> DEFINE e == arch[next]
             p == Target(e)
             r == Front(p)
  <2>1. /\ p \in Seq(STRING) /\ \A i \in DOMAIN p : p[i] # ".."
        /\ p # Top => r \in Seq(STRING) /\ \A i \in DOMAIN r : r[i] # ".."
    BY <1>1, <1>3 DEF ExpandFile
  <2>2. unpacked' = unpacked \/ (p # Top /\ (unpacked' = WithDirs(r) \/ unpacked' = Expanded(WithDirs(r), p, e)))
    BY <1>3 DEF ExpandFile
  <2> HIDE DEF p, r, e
  <2>3. p # Top => \A q \in DOMAIN WithDirs(r) : q \in Seq(STRING) /\ q # Top /\ \A i \in DOMAIN q : q[i] # ".."
    BY <2>1, AncestorsBelow
  <2>4. DOMAIN Expanded(WithDirs(r), p, e) = DOMAIN WithDirs(r) \cup {p}
    BY DEF Expanded
  <2>5. CASE unpacked' = unpacked
    BY <2>5 DEF UnpackedBelow
  <2>6. CASE p # Top /\ (unpacked' = WithDirs(r) \/ unpacked' = Expanded(WithDirs(r), p, e))
    BY <2>1, <2>3, <2>4, <2>6 DEF UnpackedBelow
  <2> QED BY <2>2, <2>5, <2>6
<1>4. CASE UNCHANGED unpacked
  BY <1>4 DEF UnpackedBelow
<1>5. QED
  BY <1>2, <1>3, <1>4
  DEF ArchiveNext, VisitDir, Visit, CopyFile, Send, SourceEdited, CheckAll, Finish, Answer, Fails, Skips, archiveVars

\* Nothing is ever unpacked on a path that leads out of the destination, whatever
\* names an archive holds.
THEOREM NothingOutside == ArchiveSpec => []UnpackedBelow
<1>1. ArchiveInit => UnpackedBelow
  BY DEF ArchiveInit, UnpackedBelow
<1>2. UnpackedBelow /\ ArchiveTyped /\ Budgeted /\ [ArchiveNext]_archiveVars => UnpackedBelow'
  BY BelowStep
<1>3. QED
  BY TypedAlways, BudgetedAlways, <1>1, <1>2, PTL DEF ArchiveSpec

=============================================================================
