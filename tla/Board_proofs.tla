---------------------------- MODULE Board_proofs ----------------------------
(***************************************************************************)
(* Proofs about module Board, for all sizes of the ring, the pool and the  *)
(* queue, and any packets, messages of the application and answers.        *)
(***************************************************************************)
EXTENDS Board, FiniteSetTheorems, SequenceTheorems, WellFoundedInduction, TLAPS

(* The least number principle, which stands for induction.                  *)
LEMMA NatMinimum ==
  ASSUME NEW T \in SUBSET Nat, T # {}
  PROVE  \E x \in T : \A y \in T : x <= y
<1> DEFINE R == OpToRel(<, Nat)
<1>1. IsWellFoundedOn(R, Nat)
  BY NatLessThanWellFounded
<1>2. R = {ss \in Nat \X Nat : ss[1] < ss[2]}
  BY Zenon DEF OpToRel
<1> HIDE DEF R
<1>3. PICK x \in T : \A y \in T : ~(<<y, x>> \in R)
  BY <1>1, WFMin
<1>4. \A y \in T : ~(y < x)
  BY <1>2, <1>3
<1> QED
  BY <1>4

-----------------------------------------------------------------------------

(* Sums of the values of a function over a finite set, which the community  *)
(* modules define by taking out one element after the other.                *)
First(s) == CHOOSE x \in s : TRUE

Sums(f, S, g) ==
  \A s \in SUBSET S : g[s] = IF s = {} THEN 0 ELSE f[First(s)] + g[s \ {First(s)}]

(* Taking an element out of a finite set.                                   *)
LEMMA TakeOut ==
  ASSUME NEW S, IsFiniteSet(S), NEW x \in S
  PROVE  /\ IsFiniteSet(S \ {x}) /\ Cardinality(S \ {x}) = Cardinality(S) - 1
         /\ Cardinality(S) \in Nat /\ Cardinality(S) # 0 /\ Cardinality(S \ {x}) \in Nat
BY FS_RemoveElement, FS_CardinalityType, FS_EmptySet

(* There are such sums.                                                     *)
LEMMA SumsExist ==
  ASSUME NEW S, IsFiniteSet(S), NEW f, \A x \in S : f[x] \in Nat
  PROVE  \E g \in [SUBSET S -> Nat] : Sums(f, S, g)
<1> DEFINE UpTo(n, g) == \A s \in SUBSET S : Cardinality(s) <= n =>
             g[s] = IF s = {} THEN 0 ELSE f[First(s)] + g[s \ {First(s)}]
           T == {n \in Nat : ~ \E g \in [SUBSET S -> Nat] : UpTo(n, g)}
<1>1. \A s \in SUBSET S : IsFiniteSet(s) /\ Cardinality(s) \in Nat
  BY FS_Subset, FS_CardinalityType
<1>2. ASSUME NEW s \in SUBSET S, s # {}
      PROVE  /\ First(s) \in s /\ s \ {First(s)} \in SUBSET S
             /\ Cardinality(s \ {First(s)}) = Cardinality(s) - 1
  <2>1. First(s) \in s
    BY <1>2 DEF First
  <2> QED
    BY <1>1, <2>1, TakeOut
<1>3. ASSUME T # {} PROVE FALSE
  <2>1. PICK n \in T : \A y \in T : n <= y
    BY <1>3, NatMinimum
  <2>2. n \in Nat
    BY <2>1
  <2>3. CASE n = 0
    <3> DEFINE g == [s \in SUBSET S |-> 0]
    <3>1. g \in [SUBSET S -> Nat]
      OBVIOUS
    <3>2. UpTo(n, g)
      <4> SUFFICES ASSUME NEW s \in SUBSET S, Cardinality(s) <= n PROVE s = {}
        OBVIOUS
      <4> QED
        BY <1>1, <2>3, FS_EmptySet
    <3> QED
      BY <2>1, <3>1, <3>2
  <2>4. CASE n # 0
    <3>1. n - 1 \in Nat /\ n - 1 \notin T
      <4> HIDE DEF T
      <4> QED
        BY <2>1, <2>2, <2>4
    <3>2. PICK g \in [SUBSET S -> Nat] : UpTo(n - 1, g)
      BY <3>1
    <3> DEFINE h == [s \in SUBSET S |-> IF s = {} THEN 0 ELSE f[First(s)] + g[s \ {First(s)}]]
    <3>3. h \in [SUBSET S -> Nat]
      <4> SUFFICES ASSUME NEW s \in SUBSET S, s # {} PROVE f[First(s)] + g[s \ {First(s)}] \in Nat
        OBVIOUS
      <4>1. f[First(s)] \in Nat /\ g[s \ {First(s)}] \in Nat
        BY <1>2
      <4> QED
        BY <4>1
    <3>4. UpTo(n, h)
      <4> SUFFICES ASSUME NEW s \in SUBSET S, Cardinality(s) <= n, s # {}
                   PROVE  h[s \ {First(s)}] = g[s \ {First(s)}]
        OBVIOUS
      <4>1. s \ {First(s)} \in SUBSET S /\ Cardinality(s \ {First(s)}) <= n - 1
        BY <1>1, <1>2, <2>2
      <4> QED
        BY <3>2, <4>1
    <3> QED
      BY <2>1, <3>3, <3>4
  <2> QED
    BY <2>3, <2>4
<1>4. Cardinality(S) \in Nat /\ \A s \in SUBSET S : Cardinality(s) <= Cardinality(S)
  BY <1>1, FS_Subset
<1>5. PICK g \in [SUBSET S -> Nat] : UpTo(Cardinality(S), g)
  BY <1>3, <1>4
<1>6. Sums(f, S, g)
  BY <1>4, <1>5 DEF Sums
<1> QED
  BY <1>5, <1>6

(* There are no two of them: what is a sum is the same in both.             *)
LEMMA SumsAgree ==
  ASSUME NEW R, NEW S, IsFiniteSet(S), NEW e, NEW f, NEW g, NEW h,
         Sums(e, R, g), Sums(f, S, h),
         NEW s \in SUBSET S, s \in SUBSET R, \A x \in s : e[x] = f[x]
  PROVE  g[s] = h[s]
<1> DEFINE T == {Cardinality(u) : u \in {v \in SUBSET s : g[v] # h[v]}}
<1>1. \A u \in SUBSET s : IsFiniteSet(u) /\ Cardinality(u) \in Nat
  BY FS_Subset, FS_CardinalityType
<1>2. ASSUME T # {} PROVE FALSE
  <2>1. T \in SUBSET Nat
    BY <1>1
  <2>2. PICK n \in T : \A y \in T : n <= y
    <3> HIDE DEF T
    <3> QED
      BY <1>2, <2>1, NatMinimum
  <2>3. PICK u \in SUBSET s : g[u] # h[u] /\ n = Cardinality(u)
    BY <2>2
  <2>4. u \in SUBSET R /\ u \in SUBSET S
    OBVIOUS
  <2>5. u # {}
    BY <2>3, <2>4 DEF Sums
  <2> DEFINE x == First(u)
             w == u \ {x}
  <2>6. x \in u
    BY <2>5 DEF First
  <2>7. g[u] = e[x] + g[w] /\ h[u] = f[x] + h[w] /\ e[x] = f[x]
    BY <2>4, <2>5, <2>6 DEF Sums
  <2>8. w \in SUBSET s /\ Cardinality(w) = Cardinality(u) - 1 /\ Cardinality(u) \in Nat
    BY <1>1, <2>6, TakeOut
  <2> HIDE DEF w, x
  <2>9. g[w] # h[w]
    BY <2>3, <2>7
  <2>10. Cardinality(w) \in T
    BY <2>8, <2>9
  <2> HIDE DEF T
  <2> QED
    BY <2>2, <2>3, <2>8, <2>10
<1> QED
  BY <1>2

(* The library's sum is one of them.                                        *)
LEMMA SumIsOne ==
  ASSUME NEW S, IsFiniteSet(S), NEW f, \A x \in S : f[x] \in Nat
  PROVE  \E g \in [SUBSET S -> Nat] : Sums(f, S, g) /\ SumFunctionOnSet(f, S) = g[S]
<1> DEFINE iter[s \in SUBSET S] ==
             IF s = {} THEN 0 ELSE f[First(s)] + iter[s \ {First(s)}]
<1>1. SumFunctionOnSet(f, S) = iter[S]
  BY DEF SumFunctionOnSet, FoldFunctionOnSet, MapThenFoldSet, First
<1>2. PICK g \in [SUBSET S -> Nat] : Sums(f, S, g)
  BY SumsExist
<1>3. g = [s \in SUBSET S |-> IF s = {} THEN 0 ELSE f[First(s)] + g[s \ {First(s)}]]
  BY <1>2 DEF Sums
<1>4. iter = [s \in SUBSET S |-> IF s = {} THEN 0 ELSE f[First(s)] + iter[s \ {First(s)}]]
  BY <1>3
<1> HIDE DEF iter
<1>5. Sums(f, S, iter)
  BY <1>4 DEF Sums
<1>6. iter[S] = g[S]
  BY <1>2, <1>5, SumsAgree
<1> QED
  BY <1>1, <1>2, <1>6

(* The sum of a set and of what is left of it when its first element is     *)
(* taken out.                                                               *)
LEMMA SumOfFirst ==
  ASSUME NEW S, IsFiniteSet(S), NEW f, \A x \in S : f[x] \in Nat
  PROVE  /\ SumFunctionOnSet(f, S) \in Nat
         /\ S = {} => SumFunctionOnSet(f, S) = 0
         /\ S # {} => SumFunctionOnSet(f, S)
                        = f[First(S)] + SumFunctionOnSet(f, S \ {First(S)})
<1>1. PICK g \in [SUBSET S -> Nat] : Sums(f, S, g) /\ SumFunctionOnSet(f, S) = g[S]
  BY SumIsOne
<1>2. ASSUME S # {} PROVE SumFunctionOnSet(f, S \ {First(S)}) = g[S \ {First(S)}]
  <2> DEFINE R == S \ {First(S)}
  <2>1. IsFiniteSet(R) /\ R \in SUBSET S /\ \A x \in R : f[x] \in Nat
    BY FS_Subset
  <2>2. PICK h \in [SUBSET R -> Nat] : Sums(f, R, h) /\ SumFunctionOnSet(f, R) = h[R]
    <3> HIDE DEF R
    <3> QED
      BY <2>1, SumIsOne
  <2>3. h[R] = g[R]
    <3> HIDE DEF R
    <3> QED
      BY <1>1, <2>1, <2>2, SumsAgree
  <2> QED
    BY <2>2, <2>3
<1>3. S \in SUBSET S
  OBVIOUS
<1> QED
  BY <1>1, <1>2, <1>3 DEF Sums

(* The order does not matter: any element may be taken out.                 *)
LEMMA SumOfOne ==
  ASSUME NEW S, IsFiniteSet(S), NEW f, \A x \in S : f[x] \in Nat, NEW a \in S
  PROVE  SumFunctionOnSet(f, S) = f[a] + SumFunctionOnSet(f, S \ {a})
<1> DEFINE Good(u) == \A x \in u : SumFunctionOnSet(f, u) = f[x] + SumFunctionOnSet(f, u \ {x})
           T == {Cardinality(u) : u \in {v \in SUBSET S : ~Good(v)}}
<1>1. \A u \in SUBSET S : IsFiniteSet(u) /\ Cardinality(u) \in Nat
  BY FS_Subset, FS_CardinalityType
<1>2. \A u \in SUBSET S : /\ SumFunctionOnSet(f, u) \in Nat
                          /\ u # {} => SumFunctionOnSet(f, u)
                               = f[First(u)] + SumFunctionOnSet(f, u \ {First(u)})
  BY <1>1, SumOfFirst
<1>3. ASSUME T # {} PROVE FALSE
  <2>1. T \in SUBSET Nat
    BY <1>1
  <2>2. PICK n \in T : \A y \in T : n <= y
    <3> HIDE DEF T
    <3> QED
      BY <1>3, <2>1, NatMinimum
  <2>3. PICK u \in SUBSET S : ~Good(u) /\ n = Cardinality(u)
    BY <2>2
  <2>4. PICK x \in u : SumFunctionOnSet(f, u) # f[x] + SumFunctionOnSet(f, u \ {x})
    BY <2>3
  <2> DEFINE y == First(u)
  <2>5. y \in u /\ x # y
    <3>1. y \in u
      BY <2>4 DEF First
    <3> QED
      BY <1>2, <2>4, <3>1
  <2>6. ASSUME NEW z \in u PROVE Good(u \ {z})
    <3>1. Cardinality(u \ {z}) = n - 1 /\ n \in Nat
      BY <1>1, <2>3, TakeOut
    <3>2. Cardinality(u \ {z}) \notin T
      <4> HIDE DEF T
      <4> QED
        BY <2>2, <3>1
    <3> QED
      BY <3>2
  <2>7. SumFunctionOnSet(f, u) = f[y] + SumFunctionOnSet(f, u \ {y})
    BY <1>2, <2>5
  <2>8. SumFunctionOnSet(f, u \ {y}) = f[x] + SumFunctionOnSet(f, (u \ {y}) \ {x})
    BY <2>5, <2>6
  <2>9. SumFunctionOnSet(f, u \ {x}) = f[y] + SumFunctionOnSet(f, (u \ {x}) \ {y})
    BY <2>5, <2>6
  <2>10. (u \ {y}) \ {x} = (u \ {x}) \ {y}
    OBVIOUS
  <2>11. f[x] \in Nat /\ f[y] \in Nat /\ SumFunctionOnSet(f, (u \ {y}) \ {x}) \in Nat
    BY <1>2, <2>5
  <2> HIDE DEF y
  <2> QED
    BY <2>4, <2>7, <2>8, <2>9, <2>10, <2>11
<1>4. S \in SUBSET S
  OBVIOUS
<1>5. Good(S)
  BY <1>3, <1>4
<1> QED
  BY <1>5

(* A sum depends on the values of the elements only.                        *)
LEMMA SumOfSame ==
  ASSUME NEW S, IsFiniteSet(S), NEW e, NEW f,
         \A x \in S : e[x] \in Nat /\ e[x] = f[x]
  PROVE  SumFunctionOnSet(e, S) = SumFunctionOnSet(f, S)
<1>1. PICK g \in [SUBSET S -> Nat] : Sums(e, S, g) /\ SumFunctionOnSet(e, S) = g[S]
  BY SumIsOne
<1>2. PICK h \in [SUBSET S -> Nat] : Sums(f, S, h) /\ SumFunctionOnSet(f, S) = h[S]
  BY SumIsOne
<1>3. g[S] = h[S]
  BY <1>1, <1>2, SumsAgree
<1> QED
  BY <1>1, <1>2, <1>3

(* The bytes of the packets in a set of slots, as a sum of a function.      *)
SizeSum(pool, slots) == SumFunctionOnSet([s \in Slots |-> pool[s] + 2], slots)

(* Sets of slots are finite, for the sake of the sums over them.            *)
LEMMA SlotsAreFinite ==
  ASSUME NEW S \in SUBSET Slots
  PROVE  IsFiniteSet(S) /\ Cardinality(S) \in Nat
<1>1. IsFiniteSet(Slots)
  BY FS_Interval, SizesAssumption DEF Slots
<1> QED
  BY <1>1, FS_Subset, FS_CardinalityType

(* BytesIn, which sums over a set, is such a sum of a function.             *)
LEMMA SizeSumOfSet ==
  ASSUME NEW p \in [Slots -> Nat], NEW S \in SUBSET Slots
  PROVE  MapThenSumSet(LAMBDA s : p[s] + 2, S) = SizeSum(p, S)
<1> DEFINE f == [s \in Slots |-> p[s] + 2]
           iter[s \in SUBSET S] ==
             IF s = {} THEN 0 ELSE (p[First(s)] + 2) + iter[s \ {First(s)}]
<1>1. MapThenSumSet(LAMBDA s : p[s] + 2, S) = iter[S]
  BY DEF MapThenSumSet, MapThenFoldSet, First
<1>2. IsFiniteSet(S) /\ \A x \in S : f[x] \in Nat /\ f[x] = p[x] + 2
  BY SlotsAreFinite
<1>3. \A s \in SUBSET S : s # {} => f[First(s)] = p[First(s)] + 2
  BY <1>2 DEF First
<1> HIDE DEF f
<1>4. PICK g \in [SUBSET S -> Nat] : Sums(f, S, g) /\ SumFunctionOnSet(f, S) = g[S]
  BY <1>2, SumIsOne
<1>5. g = [s \in SUBSET S |-> IF s = {} THEN 0 ELSE (p[First(s)] + 2) + g[s \ {First(s)}]]
  BY <1>3, <1>4 DEF Sums
<1>6. iter = [s \in SUBSET S |-> IF s = {} THEN 0 ELSE (p[First(s)] + 2) + iter[s \ {First(s)}]]
  BY <1>5
<1> HIDE DEF iter
<1>7. Sums(f, S, iter)
  BY <1>3, <1>6 DEF Sums
<1>8. iter[S] = g[S]
  BY <1>2, <1>4, <1>7, SumsAgree
<1> QED
  BY <1>1, <1>4, <1>8 DEF SizeSum, f

(* What a packet contributes, and what does not matter.                     *)
LEMMA SizeSumType ==
  ASSUME NEW p \in [Slots -> Nat], NEW S \in SUBSET Slots
  PROVE  SizeSum(p, S) \in Nat /\ SizeSum(p, {}) = 0
<1> DEFINE f == [s \in Slots |-> p[s] + 2]
<1>1. \A x \in Slots : f[x] \in Nat
  OBVIOUS
<1> HIDE DEF f
<1>2. SumFunctionOnSet(f, S) \in Nat
  BY <1>1, SlotsAreFinite, SumOfFirst
<1>3. SumFunctionOnSet(f, {}) = 0
  BY <1>1, FS_EmptySet, SumOfFirst
<1> QED
  BY <1>2, <1>3 DEF SizeSum, f

(* A packet contributes its bytes.                                          *)
LEMMA SizeSumWithout ==
  ASSUME NEW p \in [Slots -> Nat], NEW S \in SUBSET Slots, NEW a \in S
  PROVE  SizeSum(p, S) = (p[a] + 2) + SizeSum(p, S \ {a})
<1> DEFINE f == [s \in Slots |-> p[s] + 2]
<1>1. f[a] = p[a] + 2 /\ \A x \in Slots : f[x] \in Nat
  OBVIOUS
<1> HIDE DEF f
<1>2. SumFunctionOnSet(f, S) = f[a] + SumFunctionOnSet(f, S \ {a})
  BY <1>1, SlotsAreFinite, SumOfOne
<1> QED
  BY <1>1, <1>2 DEF SizeSum, f

(* Slots without a packet do not matter.                                    *)
LEMMA SizeSumSame ==
  ASSUME NEW p \in [Slots -> Nat], NEW q \in [Slots -> Nat], NEW S \in SUBSET Slots,
         \A x \in S : p[x] = q[x]
  PROVE  SizeSum(p, S) = SizeSum(q, S)
<1> DEFINE f == [s \in Slots |-> p[s] + 2]
           g == [s \in Slots |-> q[s] + 2]
<1>1. \A x \in S : f[x] \in Nat /\ f[x] = g[x]
  OBVIOUS
<1> HIDE DEF f, g
<1>2. SumFunctionOnSet(f, S) = SumFunctionOnSet(g, S)
  BY <1>1, SlotsAreFinite, SumOfSame
<1> QED
  BY <1>2 DEF SizeSum, f, g

(* The sum of a sequence, when it grows at its end and shrinks at its head. *)
LEMMA SumOfPrefix ==
  ASSUME NEW s \in Seq(Nat), NEW k \in 0..Len(s)
  PROVE  /\ SumFunctionOnSet(s, 1..k) \in Nat
         /\ k = 0 => SumFunctionOnSet(s, 1..k) = 0
         /\ k # 0 => SumFunctionOnSet(s, 1..k) = s[k] + SumFunctionOnSet(s, 1..(k-1))
<1>1. Len(s) \in Nat /\ \A i \in 1..Len(s) : s[i] \in Nat
  BY LenProperties
<1>2. IsFiniteSet(1..k) /\ \A i \in 1..k : s[i] \in Nat
  BY <1>1, FS_Interval
<1>3. k = 0 => 1..k = {}
  OBVIOUS
<1>4. k # 0 => k \in 1..k /\ (1..k) \ {k} = 1..(k-1)
  OBVIOUS
<1>5. k # 0 => SumFunctionOnSet(s, 1..k) = s[k] + SumFunctionOnSet(s, (1..k) \ {k})
  BY <1>2, <1>4, SumOfOne
<1>6. SumFunctionOnSet(s, 1..k) \in Nat /\ (1..k = {} => SumFunctionOnSet(s, 1..k) = 0)
  BY <1>2, SumOfFirst
<1> QED
  BY <1>3, <1>4, <1>5, <1>6

(* SumFunction of a sequence is the sum up to its end.                      *)
LEMMA SumOfSequence ==
  ASSUME NEW s \in Seq(Nat)
  PROVE  /\ SumFunction(s) = SumFunctionOnSet(s, 1..Len(s))
         /\ SumFunction(s) \in Nat
         /\ Len(s) = 0 => SumFunction(s) = 0
<1>1. DOMAIN s = 1..Len(s) /\ Len(s) \in Nat /\ Len(s) \in 0..Len(s)
  BY LenProperties
<1> QED
  BY <1>1, SumOfPrefix DEF SumFunction

(* A sequence grows at its end by the value appended.                       *)
LEMMA SumOfAppend ==
  ASSUME NEW s \in Seq(Nat), NEW x \in Nat
  PROVE  SumFunction(Append(s, x)) = SumFunction(s) + x
<1> DEFINE t == Append(s, x)
           n == Len(s)
<1>1. /\ t \in Seq(Nat) /\ Len(t) = n + 1 /\ n \in Nat /\ t[n + 1] = x
      /\ \A i \in 1..n : t[i] = s[i] /\ s[i] \in Nat
  BY AppendProperties, LenProperties
<1> HIDE DEF t, n
<1>2. SumFunctionOnSet(t, 1..(n + 1)) = x + SumFunctionOnSet(t, 1..n)
  <2>1. n + 1 \in 0..Len(t) /\ n + 1 # 0 /\ (n + 1) - 1 = n
    BY <1>1
  <2>2. SumFunctionOnSet(t, 1..(n + 1)) = t[n + 1] + SumFunctionOnSet(t, 1..((n + 1) - 1))
    BY <1>1, <2>1, SumOfPrefix
  <2> QED
    BY <1>1, <2>1, <2>2
<1>3. SumFunctionOnSet(t, 1..n) = SumFunctionOnSet(s, 1..n)
  <2>1. IsFiniteSet(1..n)
    BY <1>1, FS_Interval
  <2> QED
    BY <1>1, <2>1, SumOfSame
<1>4. SumFunction(t) = SumFunctionOnSet(t, 1..(n + 1))
  BY <1>1, SumOfSequence
<1>5. SumFunction(s) = SumFunctionOnSet(s, 1..n) /\ SumFunction(s) \in Nat
  BY SumOfSequence DEF n
<1> QED
  BY <1>2, <1>3, <1>4, <1>5 DEF t

(* A sequence that loses its head loses the value of it.                    *)
LEMMA SumOfTail ==
  ASSUME NEW s \in Seq(Nat), s # <<>>
  PROVE  /\ SumFunction(s) = Head(s) + SumFunction(Tail(s))
         /\ Head(s) \in Nat /\ SumFunction(Tail(s)) \in Nat
<1> DEFINE t == Tail(s)
           n == Len(t)
           Shifted(k) == SumFunctionOnSet(s, 1..(k + 1)) = s[1] + SumFunctionOnSet(t, 1..k)
           T == {k \in 0..n : ~Shifted(k)}
<1>1. /\ t \in Seq(Nat) /\ n \in Nat /\ Len(s) = n + 1
      /\ \A i \in 1..n : t[i] = s[i + 1]
      /\ \A i \in 1..(n + 1) : s[i] \in Nat
      /\ Head(s) = s[1]
  BY HeadTailProperties, LenProperties, EmptySeq
<1> HIDE DEF t, n
<1>2. ASSUME T # {} PROVE FALSE
  <2>1. PICK m \in T : \A y \in T : m <= y
    <3>1. T \in SUBSET Nat
      BY <1>1
    <3> HIDE DEF T
    <3> QED
      BY <1>2, <3>1, NatMinimum
  <2>2. m \in 0..n /\ ~Shifted(m)
    BY <2>1
  <2>3. CASE m = 0
    <3>1. SumFunctionOnSet(s, 1..1) = s[1] + SumFunctionOnSet(s, 1..0)
      <4>1. 1 \in 0..Len(s) /\ 1 # 0 /\ 1 - 1 = 0
        BY <1>1
      <4>2. SumFunctionOnSet(s, 1..1) = s[1] + SumFunctionOnSet(s, 1..(1-1))
        BY <4>1, SumOfPrefix
      <4> QED
        BY <4>1, <4>2
    <3>2. SumFunctionOnSet(s, 1..0) = 0 /\ SumFunctionOnSet(t, 1..0) = 0
      <4>1. 0 \in 0..Len(s) /\ 0 \in 0..Len(t)
        BY <1>1 DEF n
      <4> QED
        BY <1>1, <4>1, SumOfPrefix
    <3>3. 0 + 1 = 1
      OBVIOUS
    <3> QED
      BY <2>2, <2>3, <3>1, <3>2, <3>3
  <2>4. CASE m # 0
    <3>1. m - 1 \in 0..n /\ m - 1 \notin T /\ (m - 1) + 1 = m /\ (m + 1) - 1 = m
      <4>1. m - 1 \in 0..n /\ (m - 1) + 1 = m /\ (m + 1) - 1 = m
        BY <1>1, <2>2, <2>4
      <4>2. m - 1 \notin T
        <5> HIDE DEF T
        <5> QED
          BY <1>1, <2>1, <2>2
      <4> QED
        BY <4>1, <4>2
    <3>2. SumFunctionOnSet(s, 1..m) = s[1] + SumFunctionOnSet(t, 1..(m-1))
      BY <3>1
    <3>3. SumFunctionOnSet(s, 1..(m + 1)) = s[m + 1] + SumFunctionOnSet(s, 1..m)
      <4>1. m + 1 \in 0..Len(s) /\ m + 1 # 0
        BY <1>1, <2>2
      <4>2. SumFunctionOnSet(s, 1..(m + 1)) = s[m + 1] + SumFunctionOnSet(s, 1..((m + 1)-1))
        BY <4>1, SumOfPrefix
      <4> QED
        BY <3>1, <4>2
    <3>4. /\ SumFunctionOnSet(t, 1..m) = t[m] + SumFunctionOnSet(t, 1..(m-1))
          /\ SumFunctionOnSet(t, 1..(m-1)) \in Nat
      <4>1. m \in 0..Len(t) /\ m - 1 \in 0..Len(t)
        BY <2>2, <3>1 DEF n
      <4> QED
        BY <1>1, <2>4, <4>1, SumOfPrefix
    <3>5. t[m] = s[m + 1] /\ s[m + 1] \in Nat /\ s[1] \in Nat
      BY <1>1, <2>2, <2>4
    <3> QED
      BY <2>2, <3>2, <3>3, <3>4, <3>5
  <2> QED
    BY <2>3, <2>4
<1>3. Shifted(n)
  BY <1>1, <1>2
<1>4. /\ SumFunction(s) = SumFunctionOnSet(s, 1..(n + 1))
      /\ SumFunction(t) = SumFunctionOnSet(t, 1..n) /\ SumFunction(t) \in Nat
  BY <1>1, SumOfSequence DEF n
<1> QED
  BY <1>1, <1>3, <1>4 DEF t


-----------------------------------------------------------------------------

(* The bytes on their way to HandleMessage, and how the rest of a packet    *)
(* with so much payload follows its byte k, which is in the place i: up to  *)
(* the end of the packet, where a new one begins.                           *)
Byte == [at : 1..16, value : 0..255]
Line == rx \o rest

Follows(s, i, k, length) ==
  /\ \A j \in 1..Len(s) : i < j /\ j <= i + ((length + 2) - k) => s[j].at = k + (j - i)
  /\ i + ((length + 2) - k) <= Len(s)
  /\ \A j \in 1..Len(s) : j = i + ((length + 3) - k) => s[j].at = 1

(* Each first byte of a packet is a type and in front of a length, and each *)
(* length is that of the packet.                                            *)
Framed(s) ==
  \A i \in 1..Len(s) :
    /\ s[i].at = 1 => s[i].value = TypeByte /\ i < Len(s) /\ s[i + 1].at = 2
    /\ s[i].at = 2 =>
         \E length \in Lengths : s[i].value = length + 2 /\ Follows(s, i, 2, length)

(* What HandleMessage has seen fits to what comes.                          *)
InStep ==
  /\ msgType = 0 => bufferIndex = 0 /\ (Len(Line) > 0 => Line[1].at = 1)
  /\ msgType # 0 /\ msgLen = 0 => bufferIndex = 0 /\ Len(Line) > 0 /\ Line[1].at = 2
  /\ msgType # 0 /\ msgLen # 0 =>
       msgLen \in Lengths /\ bufferIndex < msgLen /\ Follows(Line, 0, bufferIndex + 2, msgLen)

(* A byte is taken away at the front.                                       *)
LEMMA FollowsTail ==
  ASSUME NEW s \in Seq(Byte), s # <<>>, NEW i \in Nat, NEW k \in 1..16, NEW length \in 0..14,
         k <= length + 2, Follows(s, i + 1, k, length)
  PROVE  Follows(Tail(s), i, k, length)
<1> DEFINE t == Tail(s)
<1>1. /\ Len(s) \in Nat /\ Len(t) = Len(s) - 1
      /\ \A j \in 1..Len(t) : t[j] = s[j + 1] /\ j + 1 \in 1..Len(s)
  BY HeadTailProperties, LenProperties, EmptySeq
<1> HIDE DEF t
<1>2. ASSUME NEW j \in 1..Len(t), i < j, j <= i + ((length + 2) - k)
      PROVE  t[j].at = k + (j - i)
  <2>1. /\ i + 1 < j + 1 /\ j + 1 <= (i + 1) + ((length + 2) - k)
        /\ (j + 1) - (i + 1) = j - i /\ j + 1 \in 1..Len(s)
    BY <1>1, <1>2
  <2>2. s[j + 1].at = k + ((j + 1) - (i + 1))
    BY <2>1 DEF Follows
  <2> QED
    BY <1>1, <2>1, <2>2
<1>3. i + ((length + 2) - k) <= Len(t)
  <2>1. (i + 1) + ((length + 2) - k) <= Len(s)
    BY DEF Follows
  <2> QED
    BY <1>1, <2>1
<1>4. ASSUME NEW j \in 1..Len(t), j = i + ((length + 3) - k)
      PROVE  t[j].at = 1
  <2>1. j + 1 = (i + 1) + ((length + 3) - k)
    BY <1>4
  <2> QED
    BY <1>1, <2>1 DEF Follows
<1> QED
  BY <1>2, <1>3, <1>4 DEF Follows, t

(* Packets stay packets when the first byte is taken away.                  *)
LEMMA FramedTail ==
  ASSUME NEW s \in Seq(Byte), s # <<>>, Framed(s)
  PROVE  Framed(Tail(s))
<1> DEFINE t == Tail(s)
<1>1. /\ Len(s) \in Nat /\ Len(t) = Len(s) - 1
      /\ \A j \in 1..Len(t) : t[j] = s[j + 1] /\ j + 1 \in 1..Len(s)
  BY HeadTailProperties, LenProperties, EmptySeq
<1> SUFFICES ASSUME NEW i \in 1..Len(t)
             PROVE  /\ t[i].at = 1 => t[i].value = TypeByte /\ i < Len(t) /\ t[i + 1].at = 2
                    /\ t[i].at = 2 => \E length \in Lengths :
                         t[i].value = length + 2 /\ Follows(t, i, 2, length)
  BY DEF Framed
<1>2. t[i] = s[i + 1] /\ i + 1 \in 1..Len(s)
  BY <1>1
<1>3. ASSUME t[i].at = 1 PROVE t[i].value = TypeByte /\ i < Len(t) /\ t[i + 1].at = 2
  <2>1. s[i + 1].value = TypeByte /\ i + 1 < Len(s) /\ s[(i + 1) + 1].at = 2
    BY <1>2, <1>3 DEF Framed
  <2>2. i < Len(t) /\ i + 1 \in 1..Len(t)
    BY <1>1, <2>1
  <2>3. t[i + 1] = s[(i + 1) + 1]
    BY <1>1, <2>2
  <2> QED
    BY <1>2, <2>1, <2>2, <2>3
<1>4. ASSUME t[i].at = 2
      PROVE  \E length \in Lengths : t[i].value = length + 2 /\ Follows(t, i, 2, length)
  <2>1. PICK length \in Lengths : s[i + 1].value = length + 2 /\ Follows(s, i + 1, 2, length)
    BY <1>2, <1>4 DEF Framed
  <2>2. i \in Nat /\ length \in 0..14 /\ 2 \in 1..16 /\ 2 <= length + 2
    BY LengthsAssumption
  <2>3. Follows(t, i, 2, length)
    BY <2>1, <2>2, FollowsTail
  <2> QED
    BY <1>2, <2>1, <2>3
<1> QED
  BY <1>3, <1>4

(* A packet is added at the end.                                            *)
LEMMA PacketBytes ==
  ASSUME NEW length \in Lengths
  PROVE  /\ BytesOf(length) \in Seq(Byte) /\ Len(BytesOf(length)) = length + 2
         /\ \A i \in 1..(length + 2) : BytesOf(length)[i].at = i
         /\ BytesOf(length)[1].value = TypeByte
         /\ BytesOf(length)[2].value = length + 2
<1> DEFINE b == BytesOf(length)
<1>1. length \in 0..14
  BY LengthsAssumption
<1>2. ASSUME NEW i \in 1..(length + 2)
      PROVE  b[i] \in Byte /\ b[i].at = i
  <2>1. b[i] = [at |-> i, value |-> CASE i = 1 -> TypeByte [] i = 2 -> length + 2 [] OTHER -> 0]
    BY <1>1 DEF BytesOf
  <2>2. (CASE i = 1 -> TypeByte [] i = 2 -> length + 2 [] OTHER -> 0) \in 0..255
    BY <1>1 DEF TypeByte
  <2>3. i \in 1..16
    BY <1>1
  <2> QED
    BY <2>1, <2>2, <2>3 DEF Byte
<1>3. b[1].value = TypeByte /\ b[2].value = length + 2
  BY <1>1 DEF BytesOf
<1>4. b \in [1..(length + 2) -> Byte]
  <2>1. b = [i \in 1..(length + 2) |-> b[i]]
    BY DEF BytesOf
  <2> HIDE DEF b
  <2> QED
    BY <1>2, <2>1
<1> HIDE DEF b
<1>5. b \in Seq(Byte) /\ Len(b) = length + 2
  <2>1. length + 2 \in Nat
    BY <1>1
  <2>2. b \in Seq(Byte)
    BY <1>4, <2>1, SeqDef
  <2>3. DOMAIN b = 1..(length + 2) /\ DOMAIN b = 1..Len(b) /\ Len(b) \in Nat
    BY <1>4, <2>2, LenProperties
  <2> QED
    BY <2>1, <2>2, <2>3
<1> QED
  BY <1>2, <1>3, <1>5 DEF b

(* What follows a byte still does when a packet is added to the line.       *)
LEMMA FollowsMore ==
  ASSUME NEW s \in Seq(Byte), NEW new \in Lengths, NEW i \in Nat, NEW k \in 1..16,
         NEW length \in 0..14, k <= length + 2, i <= Len(s), Follows(s, i, k, length)
  PROVE  Follows(s \o BytesOf(new), i, k, length)
<1> DEFINE b == BytesOf(new)
           t == s \o b
<1>1. b \in Seq(Byte) /\ Len(b) = new + 2 /\ new \in 0..14 /\ b[1].at = 1
  BY PacketBytes, LengthsAssumption
<1> HIDE DEF b
<1>2. /\ Len(s) \in Nat /\ Len(t) = Len(s) + (new + 2)
      /\ \A j \in 1..Len(t) : t[j] = IF j <= Len(s) THEN s[j] ELSE b[j - Len(s)]
  BY <1>1, ConcatProperties, LenProperties
<1> HIDE DEF t
<1>3. i + ((length + 2) - k) <= Len(s)
  BY DEF Follows
<1>4. ASSUME NEW j \in 1..Len(t), i < j, j <= i + ((length + 2) - k)
      PROVE  t[j].at = k + (j - i)
  <2>1. j \in 1..Len(s)
    BY <1>2, <1>3, <1>4
  <2> QED
    BY <1>2, <1>4, <2>1 DEF Follows
<1>5. ASSUME NEW j \in 1..Len(t), j = i + ((length + 3) - k)
      PROVE  t[j].at = 1
  <2>1. CASE j <= Len(s)
    <3>1. j \in 1..Len(s) /\ t[j] = s[j]
      BY <1>2, <2>1
    <3> QED
      BY <1>5, <3>1 DEF Follows
  <2>2. CASE j > Len(s)
    <3>1. j - Len(s) = 1
      BY <1>2, <1>3, <1>5, <2>2
    <3> QED
      BY <1>1, <1>2, <2>2, <3>1
  <2> QED
    BY <1>2, <2>1, <2>2
<1>6. i + ((length + 2) - k) <= Len(t)
  BY <1>1, <1>2, <1>3
<1> QED
  BY <1>4, <1>5, <1>6 DEF Follows, t, b

(* Packets stay packets when another one is added behind them.              *)
LEMMA FramedMore ==
  ASSUME NEW s \in Seq(Byte), NEW new \in Lengths, Framed(s)
  PROVE  Framed(s \o BytesOf(new))
<1> DEFINE b == BytesOf(new)
           t == s \o b
<1>1. /\ b \in Seq(Byte) /\ Len(b) = new + 2 /\ new \in 0..14
      /\ \A i \in 1..(new + 2) : b[i].at = i
      /\ b[1].value = TypeByte /\ b[2].value = new + 2
  BY PacketBytes, LengthsAssumption
<1> HIDE DEF b
<1>2. /\ Len(s) \in Nat /\ Len(t) = Len(s) + (new + 2)
      /\ \A j \in 1..Len(t) : t[j] = IF j <= Len(s) THEN s[j] ELSE b[j - Len(s)]
  BY <1>1, ConcatProperties, LenProperties
<1> HIDE DEF t
<1> SUFFICES ASSUME NEW i \in 1..Len(t)
             PROVE  /\ t[i].at = 1 => t[i].value = TypeByte /\ i < Len(t) /\ t[i + 1].at = 2
                    /\ t[i].at = 2 => \E length \in Lengths :
                         t[i].value = length + 2 /\ Follows(t, i, 2, length)
  BY DEF Framed, t, b
<1>3. CASE i <= Len(s)
  <2>1. i \in 1..Len(s) /\ t[i] = s[i]
    BY <1>2, <1>3
  <2>2. ASSUME t[i].at = 1 PROVE t[i].value = TypeByte /\ i < Len(t) /\ t[i + 1].at = 2
    <3>1. s[i].value = TypeByte /\ i < Len(s) /\ s[i + 1].at = 2
      BY <2>1, <2>2 DEF Framed
    <3>2. i < Len(t) /\ i + 1 \in 1..Len(t) /\ i + 1 <= Len(s)
      BY <1>1, <1>2, <3>1
    <3> QED
      BY <1>2, <2>1, <3>1, <3>2
  <2>3. ASSUME t[i].at = 2
        PROVE  \E length \in Lengths : t[i].value = length + 2 /\ Follows(t, i, 2, length)
    <3>1. PICK length \in Lengths : s[i].value = length + 2 /\ Follows(s, i, 2, length)
      BY <2>1, <2>3 DEF Framed
    <3>2. length \in 0..14 /\ i \in Nat /\ 2 \in 1..16 /\ 2 <= length + 2
      BY LengthsAssumption
    <3>3. Follows(s \o BytesOf(new), i, 2, length)
      BY <1>3, <3>1, <3>2, FollowsMore
    <3> QED
      BY <2>1, <3>1, <3>3 DEF t, b
  <2> QED
    BY <2>2, <2>3
<1>4. CASE i > Len(s)
  <2> DEFINE k == i - Len(s)
  <2>1. k \in 1..(new + 2) /\ t[i] = b[k] /\ t[i].at = k
    BY <1>1, <1>2, <1>4
  <2>2. ASSUME k = 1 PROVE t[i].value = TypeByte /\ i < Len(t) /\ t[i + 1].at = 2
    <3>1. i < Len(t) /\ i + 1 \in 1..Len(t) /\ (i + 1) - Len(s) = 2 /\ ~(i + 1 <= Len(s))
      BY <1>1, <1>2, <2>2
    <3>2. t[i + 1] = b[2] /\ 2 \in 1..(new + 2)
      BY <1>1, <1>2, <3>1
    <3> QED
      BY <1>1, <2>1, <2>2, <3>1, <3>2
  <2>3. ASSUME k = 2 PROVE t[i].value = new + 2 /\ Follows(t, i, 2, new)
    <3>1. i + ((new + 2) - 2) = Len(t)
      BY <1>1, <1>2, <2>3
    <3>2. ASSUME NEW j \in 1..Len(t), i < j PROVE t[j].at = 2 + (j - i)
      <4>1. j - Len(s) \in 1..(new + 2) /\ ~(j <= Len(s)) /\ j - Len(s) = 2 + (j - i)
        BY <1>1, <1>2, <1>4, <2>3, <3>2
      <4> QED
        BY <1>1, <1>2, <4>1
    <3>3. ASSUME NEW j \in 1..Len(t) PROVE j # i + ((new + 3) - 2)
      BY <1>1, <1>2, <3>1
    <3>4. t[i].value = new + 2
      BY <1>1, <2>1, <2>3
    <3>5. i + ((new + 2) - 2) <= Len(t)
      BY <1>1, <1>2, <3>1
    <3> QED
      BY <3>2, <3>3, <3>4, <3>5 DEF Follows
  <2> HIDE DEF k
  <2> QED
    BY <2>1, <2>2, <2>3
<1> QED
  BY <1>2, <1>3, <1>4


-----------------------------------------------------------------------------

(* The types without those bounds that follow from the flow control.        *)
Rough ==
  /\ rest \in Seq(Byte) /\ rx \in Seq(Byte)
  /\ unacked \in Int /\ unacked <= RxSize - 1 /\ lost \in Nat
  /\ msgType \in 0..255 /\ msgLen \in 0..14 /\ bufferIndex \in 0..14
  /\ avrPool \in [Slots -> 0..14] /\ avrIndex \in [Slots -> Slots]
  /\ poolIn \in Slots /\ poolOut \in Slots /\ current \in Slots
  /\ queue \in Seq(Order!Message) /\ Len(queue) <= QueueSize
  /\ pc \in {"dispatch", "handle", "ack", "free", "drain"}
  /\ acks \in Seq(2..16)
  /\ leaked \subseteq Slots

(* What DrainByte takes from the line.                                      *)
LEMMA LineDrains ==
  ASSUME Rough, DrainByte
  PROVE  /\ Line \in Seq(Byte) /\ Line # <<>> /\ Line' = Tail(Line)
         /\ Len(Line) \in Nat /\ Len(Line) > 0 /\ Len(Line') = Len(Line) - 1
         /\ \A j \in 1..Len(Line') : Line'[j] = Line[j + 1]
         /\ Head(rx).value = Line[1].value
<1>1. rx \in Seq(Byte) /\ rest \in Seq(Byte) /\ rx # <<>> /\ rx' = Tail(rx) /\ rest' = rest
  BY DEF Rough, DrainByte
<1>2. /\ Len(rx) \in Nat /\ Len(rx) > 0 /\ Len(rest) \in Nat
      /\ Tail(rx) \in Seq(Byte) /\ Len(Tail(rx)) = Len(rx) - 1
      /\ \A j \in 1..Len(Tail(rx)) : Tail(rx)[j] = rx[j + 1]
      /\ Head(rx) = rx[1]
  BY <1>1, HeadTailProperties, LenProperties, EmptySeq
<1>3. /\ Line \in Seq(Byte) /\ Len(Line) = Len(rx) + Len(rest)
      /\ \A j \in 1..Len(Line) : Line[j] = IF j <= Len(rx) THEN rx[j] ELSE rest[j - Len(rx)]
  BY <1>1, ConcatProperties DEF Line
<1>4. Line # <<>> /\ Len(Line) \in Nat /\ Len(Line) > 0
  BY <1>2, <1>3, EmptySeq
<1>5. /\ Tail(Line) \in Seq(Byte) /\ Len(Tail(Line)) = Len(Line) - 1
      /\ \A j \in 1..Len(Tail(Line)) : Tail(Line)[j] = Line[j + 1]
  BY <1>3, <1>4, HeadTailProperties
<1>6. /\ Line' \in Seq(Byte) /\ Len(Line') = Len(Tail(rx)) + Len(rest)
      /\ \A j \in 1..Len(Line') :
           Line'[j] = IF j <= Len(Tail(rx)) THEN Tail(rx)[j] ELSE rest[j - Len(Tail(rx))]
  BY <1>1, <1>2, ConcatProperties DEF Line
<1>7. Line' = Tail(Line)
  <2>1. ASSUME NEW j \in 1..Len(Line') PROVE Line'[j] = Tail(Line)[j]
    <3>1. j + 1 \in 1..Len(Line) /\ j \in 1..Len(Tail(Line))
      BY <1>2, <1>3, <1>5, <1>6
    <3>2. Tail(Line)[j] = IF j + 1 <= Len(rx) THEN rx[j + 1] ELSE rest[(j + 1) - Len(rx)]
      BY <1>3, <1>5, <3>1
    <3>3. (j + 1 <= Len(rx) <=> j <= Len(Tail(rx))) /\ (j + 1) - Len(rx) = j - Len(Tail(rx))
      BY <1>2
    <3>4. CASE j <= Len(Tail(rx))
      <4>1. j \in 1..Len(Tail(rx))
        BY <3>4
      <4>2. Tail(rx)[j] = rx[j + 1]
        BY <1>2, <4>1
      <4> QED
        BY <1>6, <3>2, <3>3, <3>4, <4>2
    <3>5. CASE ~(j <= Len(Tail(rx)))
      BY <1>6, <3>2, <3>3, <3>5
    <3> QED
      BY <3>4, <3>5
  <2>2. Len(Line') = Len(Tail(Line))
    BY <1>2, <1>3, <1>5, <1>6
  <2> QED
    BY <1>5, <1>6, <2>1, <2>2, SeqEqual
<1>8. Line[1] = rx[1]
  BY <1>2, <1>3
<1> QED
  BY <1>2, <1>3, <1>4, <1>5, <1>7, <1>8

(* A byte is handled where it belongs: HandleMessage goes on in the packet, *)
(* or has seen all of it, and then a new one comes or none.                 *)
LEMMA ParserStep ==
  ASSUME Rough, Framed(Line), InStep, DrainByte
  PROVE  /\ InStep'
         /\ msgType' \in 0..255 /\ msgLen' \in 0..14 /\ bufferIndex' \in 0..14
         /\ \/ /\ Parsed' = Parsed + 1
               /\ UNCHANGED <<avrPool, poolOut, queue, lost, leaked>>
            \/ /\ Parsed' = 0
               /\ \E length \in Lengths : length + 2 = Parsed + 1 /\ ProcessMessage(length)
<1> DEFINE b == Line[1].value
<1>1. /\ Line \in Seq(Byte) /\ Line # <<>> /\ Line' = Tail(Line)
      /\ Len(Line) \in Nat /\ Len(Line) > 0 /\ Len(Line') = Len(Line) - 1
      /\ \A j \in 1..Len(Line') : Line'[j] = Line[j + 1]
      /\ HandleMessage(b)
  BY LineDrains DEF DrainByte
<1>2. 1 \in 1..Len(Line) /\ (Len(Line') > 0 => Line'[1] = Line[2] /\ 2 \in 1..Len(Line))
  <2>1. Len(Line') > 0 => 1 \in 1..Len(Line') /\ 1 + 1 = 2
    BY <1>1
  <2> QED
    BY <1>1, <2>1
<1>3. msgType \in 0..255 /\ msgLen \in 0..14 /\ bufferIndex \in 0..14
  BY DEF Rough
<1> DEFINE length == IF msgLen = 0 THEN PayloadLength(b) ELSE msgLen
<1>4. /\ msgType' = IF msgType = 0 THEN b ELSE IF PacketIsComplete(b) THEN 0 ELSE msgType
      /\ msgLen' = IF msgType = 0 THEN 0 ELSE length
      /\ bufferIndex' = CASE msgType = 0 -> bufferIndex
                          [] msgType # 0 /\ msgLen = 0 -> 0
                          [] OTHER -> IF PacketIsComplete(b) THEN 0 ELSE bufferIndex + 1
      /\ PacketIsComplete(b) => ProcessMessage(length)
      /\ ~PacketIsComplete(b) => UNCHANGED <<avrPool, poolOut, queue, lost, leaked>>
  BY <1>1, Zenon DEF HandleMessage
<1> HIDE DEF b, length
<1>5. CASE msgType = 0
  <2>1. bufferIndex = 0 /\ Line[1].at = 1
    BY <1>1, <1>5 DEF InStep
  <2>2. b = TypeByte /\ 1 < Len(Line) /\ Line[1 + 1].at = 2
    BY <1>2, <2>1 DEF Framed, b
  <2>3. ~PacketIsComplete(b)
    BY <1>5 DEF PacketIsComplete
  <2>4. msgType' = 163 /\ msgLen' = 0 /\ bufferIndex' = 0
    BY <1>4, <1>5, <2>1, <2>2 DEF TypeByte
  <2>5. Len(Line') > 0 /\ Line'[1].at = 2
    BY <1>1, <1>2, <2>2
  <2>6. InStep'
    BY <2>4, <2>5 DEF InStep
  <2>7. Parsed' = Parsed + 1
    BY <1>5, <2>4 DEF Parsed
  <2> QED
    BY <1>4, <2>3, <2>4, <2>6, <2>7
<1>6. CASE msgType # 0 /\ msgLen = 0
  <2>1. Line[1].at = 2
    BY <1>6 DEF InStep
  <2>2. PICK len \in Lengths : b = len + 2 /\ Follows(Line, 1, 2, len)
    BY <1>2, <2>1 DEF Framed, b
  <2>3. len \in 0..14 /\ length = len
    BY <1>6, <2>2, LengthsAssumption DEF length, PayloadLength
  <2>4. PacketIsComplete(b) <=> len = 0
    BY <1>6, <2>2, <2>3 DEF PacketIsComplete
  <2>5. msgLen' = len /\ bufferIndex' = 0
    BY <1>4, <1>6, <2>3
  <2>6. Parsed = 1
    BY <1>6 DEF Parsed
  <2>7. CASE len = 0
    <3>1. msgType' = 0
      BY <1>4, <1>6, <2>4, <2>7
    <3>2. Len(Line') > 0 => Line'[1].at = 1
      <4>1. 2 = 1 + ((len + 3) - 2)
        BY <2>7
      <4> QED
        BY <1>2, <2>2, <4>1 DEF Follows
    <3>3. InStep' /\ Parsed' = 0
      BY <2>5, <3>1, <3>2 DEF InStep, Parsed
    <3>4. ProcessMessage(len)
      BY <1>4, <2>3, <2>4, <2>7
    <3> QED
      BY <2>3, <2>5, <2>6, <2>7, <3>1, <3>3, <3>4
  <2>8. CASE len # 0
    <3>1. msgType' = msgType
      BY <1>4, <1>6, <2>4, <2>8
    <3>2. Follows(Line', 0, 2, len)
      <4>1. Follows(Line, 0 + 1, 2, len) /\ 0 \in Nat /\ 2 \in 1..16 /\ 2 <= len + 2
        BY <2>2, <2>3
      <4> QED
        BY <1>1, <2>3, <4>1, FollowsTail
    <3>3. bufferIndex' + 2 = 2 /\ bufferIndex' < msgLen'
      BY <2>3, <2>5, <2>8
    <3>4. InStep'
      BY <1>6, <2>2, <2>5, <2>8, <3>1, <3>2, <3>3 DEF InStep
    <3>5. Parsed' = 2
      BY <1>6, <2>5, <2>8, <3>1 DEF Parsed
    <3>6. UNCHANGED <<avrPool, poolOut, queue, lost, leaked>>
      BY <1>4, <2>4, <2>8
    <3> QED
      BY <1>3, <2>3, <2>5, <2>6, <3>1, <3>4, <3>5, <3>6
  <2> QED
    BY <2>7, <2>8
<1>7. CASE msgType # 0 /\ msgLen # 0
  <2>1. msgLen \in Lengths /\ bufferIndex < msgLen /\ Follows(Line, 0, bufferIndex + 2, msgLen)
    BY <1>7 DEF InStep
  <2>2. length = msgLen /\ Parsed = 2 + bufferIndex
    BY <1>7 DEF length, Parsed
  <2>3. PacketIsComplete(b) <=> bufferIndex + 1 = msgLen
    BY <1>7 DEF PacketIsComplete
  <2>4. msgLen' = msgLen
    BY <1>4, <1>7, <2>2
  <2>5. CASE bufferIndex + 1 = msgLen
    <3>1. msgType' = 0 /\ bufferIndex' = 0
      BY <1>4, <1>7, <2>3, <2>5
    <3>2. Len(Line') > 0 => Line'[1].at = 1
      <4>1. 2 = 0 + ((msgLen + 3) - (bufferIndex + 2))
        BY <1>3, <2>5
      <4> QED
        BY <1>2, <2>1, <4>1 DEF Follows
    <3>3. InStep' /\ Parsed' = 0
      BY <3>1, <3>2 DEF InStep, Parsed
    <3>4. ProcessMessage(msgLen)
      BY <1>4, <2>2, <2>3, <2>5
    <3>5. msgLen + 2 = Parsed + 1
      BY <1>3, <2>2, <2>5
    <3> QED
      BY <1>3, <2>1, <2>4, <3>1, <3>3, <3>4, <3>5
  <2>6. CASE bufferIndex + 1 # msgLen
    <3>1. msgType' = msgType /\ bufferIndex' = bufferIndex + 1
      BY <1>4, <1>7, <2>3, <2>6
    <3>2. bufferIndex' < msgLen' /\ bufferIndex' \in 0..14 /\ bufferIndex' + 2 = (bufferIndex + 2) + 1
      BY <1>3, <2>1, <2>4, <2>6, <3>1
    <3> DEFINE k == bufferIndex + 2
    <3>3. k \in 2..15 /\ k + 1 \in 1..16 /\ k + 1 <= msgLen + 2
      BY <1>3, <2>1
    <3>4. Follows(Line, 0, k, msgLen)
      BY <2>1
    <3> HIDE DEF k
    <3>5. Follows(Line, 0 + 1, k + 1, msgLen)
      <4>1. ASSUME NEW j \in 1..Len(Line), 0 + 1 < j, j <= (0 + 1) + ((msgLen + 2) - (k + 1))
            PROVE  Line[j].at = (k + 1) + (j - (0 + 1))
        <5>1. 0 < j /\ j <= 0 + ((msgLen + 2) - k) /\ k + (j - 0) = (k + 1) + (j - (0 + 1))
          BY <1>3, <3>3, <4>1
        <5>2. Line[j].at = k + (j - 0)
          BY <3>4, <5>1 DEF Follows
        <5> QED
          BY <5>1, <5>2
      <4>2. (0 + 1) + ((msgLen + 2) - (k + 1)) = 0 + ((msgLen + 2) - k)
        BY <1>3, <3>3
      <4>3. (0 + 1) + ((msgLen + 3) - (k + 1)) = 0 + ((msgLen + 3) - k)
        BY <1>3, <3>3
      <4> QED
        BY <3>4, <4>1, <4>2, <4>3 DEF Follows
    <3>6. Follows(Line', 0, k + 1, msgLen)
      BY <1>1, <1>3, <3>3, <3>5, FollowsTail
    <3>7. InStep'
      BY <1>7, <2>1, <2>4, <3>1, <3>2, <3>6 DEF InStep, k
    <3>8. Parsed' = Parsed + 1
      BY <1>3, <1>7, <2>2, <2>4, <3>1 DEF Parsed
    <3>9. UNCHANGED <<avrPool, poolOut, queue, lost, leaked>>
      BY <1>4, <2>3, <2>6
    <3> QED
      BY <1>3, <2>4, <3>1, <3>2, <3>7, <3>8, <3>9
  <2> QED
    BY <2>5, <2>6
<1> QED
  BY <1>5, <1>6, <1>7


(* A byte that arrives stays on the line.                                   *)
LEMMA LineReceives ==
  ASSUME Rough, RingHasSpace, Receive
  PROVE  /\ Line' = Line
         /\ rx' \in Seq(Byte) /\ rest' \in Seq(Byte)
         /\ Len(rx') + Len(rest') = Len(rx) + Len(rest)
<1>1. rx \in Seq(Byte) /\ rest \in Seq(Byte) /\ rest # <<>>
  BY DEF Rough, Receive
<1>2. /\ Len(rx) \in Nat /\ Len(rest) \in Nat /\ Len(rest) > 0 /\ Head(rest) \in Byte
      /\ Tail(rest) \in Seq(Byte) /\ Len(Tail(rest)) = Len(rest) - 1 /\ Head(rest) = rest[1]
      /\ \A j \in 1..Len(Tail(rest)) : Tail(rest)[j] = rest[j + 1]
  BY <1>1, HeadTailProperties, LenProperties, EmptySeq
<1>3. rx' = Append(rx, Head(rest)) /\ rest' = Tail(rest)
  <2>1. Len(rx) < RxSize - 1
    BY <1>2, SizesAssumption DEF RingHasSpace
  <2> QED
    BY <2>1 DEF Receive
<1>4. /\ rx' \in Seq(Byte) /\ Len(rx') = Len(rx) + 1 /\ rx'[Len(rx) + 1] = rest[1]
      /\ \A j \in 1..Len(rx) : rx'[j] = rx[j]
  BY <1>1, <1>2, <1>3, AppendProperties
<1>5. /\ Line \in Seq(Byte) /\ Len(Line) = Len(rx) + Len(rest)
      /\ \A j \in 1..(Len(rx) + Len(rest)) : Line[j] = IF j <= Len(rx) THEN rx[j] ELSE rest[j - Len(rx)]
  BY <1>1, ConcatProperties DEF Line
<1>6. /\ Line' \in Seq(Byte) /\ Len(Line') = Len(rx') + Len(rest')
      /\ \A j \in 1..(Len(rx') + Len(rest')) :
           Line'[j] = IF j <= Len(rx') THEN rx'[j] ELSE rest'[j - Len(rx')]
  BY <1>2, <1>3, <1>4, ConcatProperties DEF Line
<1>7. Len(rx') + Len(rest') = Len(rx) + Len(rest)
  BY <1>2, <1>3, <1>4
<1>8. ASSUME NEW j \in 1..Len(Line') PROVE Line'[j] = Line[j]
  <2>1. j \in 1..(Len(rx) + Len(rest)) /\ j \in 1..(Len(rx') + Len(rest'))
    BY <1>6, <1>7
  <2>2. CASE j <= Len(rx)
    <3>1. j \in 1..Len(rx) /\ j <= Len(rx')
      BY <1>2, <1>4, <2>2
    <3> QED
      BY <1>4, <1>5, <1>6, <2>1, <2>2, <3>1
  <2>3. CASE j = Len(rx) + 1
    <3>1. j <= Len(rx') /\ ~(j <= Len(rx)) /\ j - Len(rx) = 1
      BY <1>2, <1>4, <2>3
    <3> QED
      BY <1>4, <1>5, <1>6, <2>1, <2>3, <3>1
  <2>4. CASE j > Len(rx) + 1
    <3>1. /\ ~(j <= Len(rx')) /\ ~(j <= Len(rx)) /\ j - Len(rx') \in 1..Len(Tail(rest))
          /\ (j - Len(rx')) + 1 = j - Len(rx)
      BY <1>2, <1>4, <2>1, <2>4
    <3>2. Line'[j] = Tail(rest)[j - Len(rx')] /\ Line[j] = rest[j - Len(rx)]
      BY <1>3, <1>5, <1>6, <2>1, <3>1
    <3> QED
      BY <1>2, <3>1, <3>2
  <2>5. j <= Len(rx) \/ j = Len(rx) + 1 \/ j > Len(rx) + 1
    BY <1>2, <2>1
  <2> QED
    BY <2>2, <2>3, <2>4, <2>5
<1>9. Line' = Line
  BY <1>5, <1>6, <1>7, <1>8, SeqEqual
<1> QED
  BY <1>2, <1>3, <1>4, <1>7, <1>9

(* A packet that the PC begins is added to the line.                        *)
LEMMA LineGrows ==
  ASSUME Rough, NEW length \in Lengths, PcBegins(length)
  PROVE  /\ Line \in Seq(Byte) /\ Line' = Line \o BytesOf(length)
         /\ rest' \in Seq(Byte) /\ Len(rest') = length + 2 /\ Len(rest) = 0
<1>1. rx \in Seq(Byte) /\ rest = <<>> /\ rx' = rx /\ rest' = BytesOf(length)
  BY DEF Rough, PcBegins, rxVars
<1>2. Line = rx
  BY <1>1, ConcatEmptySeq DEF Line
<1>3. Line' = rx \o BytesOf(length)
  BY <1>1 DEF Line
<1> QED
  BY <1>1, <1>2, <1>3, PacketBytes, EmptySeq

(* The line consists of packets, and HandleMessage is in step with it.      *)
LEMMA StreamStep ==
  ASSUME Rough, RingHasSpace, Framed(Line), InStep, [Next]_vars
  PROVE  Framed(Line') /\ InStep'
<1>1. ASSUME Line' = Line, UNCHANGED <<msgType, msgLen, bufferIndex>>
      PROVE  Framed(Line') /\ InStep'
  BY <1>1 DEF InStep
<1>2. CASE \E length \in Lengths : PcBegins(length)
  <2>1. PICK length \in Lengths : PcBegins(length)
    BY <1>2
  <2>2. UNCHANGED <<msgType, msgLen, bufferIndex>>
    BY <2>1 DEF PcBegins, rxVars
  <2>3. Line \in Seq(Byte) /\ Line' = Line \o BytesOf(length) /\ length \in 0..14
    BY <2>1, LineGrows, LengthsAssumption
  <2>4. /\ Len(Line) \in Nat /\ Len(Line') = Len(Line) + (length + 2)
        /\ \A j \in 1..(Len(Line) + (length + 2)) :
             Line'[j] = IF j <= Len(Line) THEN Line[j] ELSE BytesOf(length)[j - Len(Line)]
        /\ BytesOf(length)[1].at = 1
    <3>1. /\ BytesOf(length) \in Seq(Byte) /\ Len(BytesOf(length)) = length + 2
          /\ BytesOf(length)[1].at = 1
      BY <2>3, PacketBytes
    <3>2. Len(Line) \in Nat
      BY <2>3, LenProperties
    <3>3. /\ Len(Line \o BytesOf(length)) = Len(Line) + Len(BytesOf(length))
          /\ \A j \in 1..(Len(Line) + Len(BytesOf(length))) : (Line \o BytesOf(length))[j]
               = IF j <= Len(Line) THEN Line[j] ELSE BytesOf(length)[j - Len(Line)]
      BY <2>3, <3>1, ConcatProperties
    <3> QED
      BY <2>3, <3>1, <3>2, <3>3
  <2>5. Framed(Line')
    BY <2>3, FramedMore
  <2>6. Len(Line') > 0
    BY <2>3, <2>4
  <2>7. Len(Line) > 0 => Line'[1] = Line[1]
    <3>1. Len(Line) > 0 => 1 \in 1..(Len(Line) + (length + 2)) /\ 1 <= Len(Line)
      BY <2>3, <2>4
    <3> QED
      BY <2>4, <3>1
  <2>8. Len(Line) = 0 => Line'[1].at = 1
    <3>1. Len(Line) = 0 => 1 \in 1..(Len(Line) + (length + 2)) /\ ~(1 <= Len(Line)) /\ 1 - Len(Line) = 1
      BY <2>3, <2>4
    <3> QED
      BY <2>4, <3>1
  <2>9. msgType # 0 /\ msgLen # 0 => Follows(Line', 0, bufferIndex + 2, msgLen)
    <3> SUFFICES ASSUME msgType # 0, msgLen # 0
                 PROVE  Follows(Line', 0, bufferIndex + 2, msgLen)
      OBVIOUS
    <3> DEFINE k == bufferIndex + 2
    <3>1. msgLen \in 0..14 /\ k \in 1..16 /\ k <= msgLen + 2 /\ 0 \in Nat /\ 0 <= Len(Line)
      BY <2>4 DEF InStep, Rough
    <3>2. Follows(Line, 0, k, msgLen)
      BY DEF InStep
    <3> HIDE DEF k
    <3>3. Follows(Line \o BytesOf(length), 0, k, msgLen)
      BY <2>3, <3>1, <3>2, FollowsMore
    <3> QED
      BY <2>3, <3>3 DEF k
  <2>10. InStep'
    <3>1. msgType = 0 => bufferIndex = 0 /\ Line'[1].at = 1
      BY <2>4, <2>7, <2>8 DEF InStep
    <3>2. msgType # 0 /\ msgLen = 0 => bufferIndex = 0 /\ Line'[1].at = 2
      BY <2>7 DEF InStep
    <3>3. msgType # 0 /\ msgLen # 0 => msgLen \in Lengths /\ bufferIndex < msgLen
      BY DEF InStep
    <3> QED
      BY <2>2, <2>6, <2>9, <3>1, <3>2, <3>3 DEF InStep
  <2> QED
    BY <2>5, <2>10
<1>3. CASE Receive
  BY <1>1, <1>3, LineReceives DEF Receive
<1>4. CASE DrainByte
  <2>1. Framed(Line')
    BY <1>4, LineDrains, FramedTail
  <2> QED
    BY <1>4, <2>1, ParserStep
<1>5. ASSUME UNCHANGED <<rx, rest, msgType, msgLen, bufferIndex>>
      PROVE  Framed(Line') /\ InStep'
  BY <1>1, <1>5 DEF Line
<1>6. CASE PcGetsAck \/ \E prio \in Priorities : AppSends(prio)
  BY <1>5, <1>6 DEF PcGetsAck, AppSends, rxVars
<1>7. CASE Dispatch \/ \E answer \in Answers : Handle(answer)
  BY <1>5, <1>7 DEF Dispatch, Handle, rxVars
<1>8. CASE Ack \/ Free \/ DrainEnds
  BY <1>5, <1>8 DEF Ack, Free, DrainEnds, rxVars
<1>9. CASE UNCHANGED vars
  BY <1>5, <1>9 DEF vars, rxVars
<1> QED
  BY <1>2, <1>3, <1>4, <1>6, <1>7, <1>8, <1>9 DEF Next, MainLoop

-----------------------------------------------------------------------------


(* What it is to insert an element into a sequence.                         *)
IsInserted(t, s, k, x) ==
  /\ Len(t) = Len(s) + 1
  /\ \A i \in 1..(Len(s) + 1) :
       t[i] = IF i < k THEN s[i] ELSE IF i = k THEN x ELSE s[i - 1]

(* InsertAt does it.                                                        *)
LEMMA InsertAtIsInserted ==
  ASSUME NEW S, NEW s \in Seq(S), NEW k \in 1..(Len(s) + 1), NEW x \in S
  PROVE  Order!InsertAt(s, k, x) \in Seq(S) /\ IsInserted(Order!InsertAt(s, k, x), s, k, x)
<1> DEFINE a == SubSeq(s, 1, k - 1)
           b == <<x>>
           c == SubSeq(s, k, Len(s))
<1>1. Order!InsertAt(s, k, x) = (a \o b) \o c
  BY DEF Order!InsertAt
<1>2. Len(s) \in Nat /\ \A i \in 1..Len(s) : s[i] \in S
  BY LenProperties
<1>3. a \in Seq(S) /\ Len(a) = k - 1 /\ \A i \in 1..(k-1) : a[i] = s[i]
  <2>1. 1 \in Int /\ k - 1 \in Int /\ \A i \in 1..(k-1) : s[i] \in S
    BY <1>2
  <2>2. /\ a \in Seq(S) /\ Len(a) = IF 1 <= k - 1 THEN k - 1 - 1 + 1 ELSE 0
        /\ \A i \in 1..(k-1-1+1) : a[i] = s[1 + i - 1]
    BY <2>1, SubSeqProperties
  <2> HIDE DEF a
  <2> QED
    BY <1>2, <2>2
<1>4. c \in Seq(S) /\ Len(c) = Len(s) - k + 1 /\ \A i \in 1..(Len(s)-k+1) : c[i] = s[k + i - 1]
  <2>1. k \in Int /\ Len(s) \in Int /\ \A i \in k..Len(s) : s[i] \in S
    BY <1>2
  <2>2. /\ c \in Seq(S) /\ Len(c) = IF k <= Len(s) THEN Len(s) - k + 1 ELSE 0
        /\ \A i \in 1..(Len(s)-k+1) : c[i] = s[k + i - 1]
    BY <2>1, SubSeqProperties
  <2> HIDE DEF c
  <2> QED
    BY <1>2, <2>2
<1>5. b \in Seq(S) /\ Len(b) = 1 /\ b[1] = x
  OBVIOUS
<1> HIDE DEF a, b, c
<1>6. /\ a \o b \in Seq(S) /\ Len(a \o b) = k
      /\ \A i \in 1..k : (a \o b)[i] = IF i < k THEN s[i] ELSE x
  <2>1. /\ a \o b \in Seq(S) /\ Len(a \o b) = Len(a) + Len(b)
        /\ \A i \in 1..(Len(a) + Len(b)) :
             (a \o b)[i] = IF i <= Len(a) THEN a[i] ELSE b[i - Len(a)]
    BY <1>3, <1>5, ConcatProperties
  <2>2. Len(a) + Len(b) = k
    BY <1>3, <1>5
  <2>3. ASSUME NEW i \in 1..k PROVE (a \o b)[i] = IF i < k THEN s[i] ELSE x
    <3>1. CASE i < k
      <4>1. i \in 1..(k-1) /\ i <= Len(a)
        BY <1>3, <3>1
      <4> QED
        BY <1>3, <2>1, <2>2, <3>1, <4>1
    <3>2. CASE i = k
      <4>1. ~(i <= Len(a)) /\ i - Len(a) = 1
        BY <1>3, <3>2
      <4> QED
        BY <1>5, <2>1, <2>2, <3>2, <4>1
    <3>3. i < k \/ i = k
      BY <1>2
    <3> QED
      BY <3>1, <3>2, <3>3
  <2> QED
    BY <2>1, <2>2, <2>3
<1> DEFINE d == a \o b
<1>7. d \in Seq(S) /\ Len(d) = k /\ \A i \in 1..k : d[i] = IF i < k THEN s[i] ELSE x
  BY <1>6
<1> HIDE DEF d
<1>8. /\ d \o c \in Seq(S) /\ Len(d \o c) = Len(s) + 1
      /\ \A i \in 1..(Len(s) + 1) :
           (d \o c)[i] = IF i < k THEN s[i] ELSE IF i = k THEN x ELSE s[i - 1]
  <2>1. /\ d \o c \in Seq(S) /\ Len(d \o c) = Len(d) + Len(c)
        /\ \A i \in 1..(Len(d) + Len(c)) :
             (d \o c)[i] = IF i <= Len(d) THEN d[i] ELSE c[i - Len(d)]
    BY <1>4, <1>7, ConcatProperties
  <2>2. Len(d) + Len(c) = Len(s) + 1
    BY <1>2, <1>4, <1>7
  <2>3. ASSUME NEW i \in 1..(Len(s) + 1)
        PROVE  (d \o c)[i] = IF i < k THEN s[i] ELSE IF i = k THEN x ELSE s[i - 1]
    <3>1. CASE i <= k
      <4>1. i \in 1..k /\ i <= Len(d)
        BY <1>7, <3>1
      <4>2. (d \o c)[i] = d[i]
        BY <2>1, <2>2, <4>1
      <4> QED
        BY <1>7, <3>1, <4>1, <4>2
    <3>2. CASE i > k
      <4>1. i - k \in 1..(Len(s)-k+1) /\ ~(i <= Len(d)) /\ k + (i - k) - 1 = i - 1
        BY <1>2, <1>7, <3>2
      <4>2. (d \o c)[i] = c[i - k]
        BY <1>7, <2>1, <2>2, <4>1
      <4>3. c[i - k] = s[i - 1]
        BY <1>4, <4>1
      <4>4. ~(i < k) /\ i # k
        BY <1>2, <3>2
      <4> QED
        BY <4>2, <4>3, <4>4
    <3>3. i <= k \/ i > k
      BY <1>2
    <3> QED
      BY <3>1, <3>2, <3>3
  <2> QED
    BY <2>1, <2>2, <2>3
<1> QED
  BY <1>1, <1>8 DEF d, IsInserted


(* What a queue carries, and that no slot is in it twice.                   *)
DataOf(q) == {q[i].data : i \in 1..Len(q)}

Distinct(q) ==
  \A i, j \in 1..Len(q) : i # j /\ q[i].data # App => q[i].data # q[j].data

(* A message has a place in a queue.                                        *)
LEMMA PlaceExists ==
  ASSUME NEW q \in Seq(Order!Message), q # <<>>, NEW p \in Priorities \cup {0}
  PROVE  \E i \in 1..Len(q) : Order!IsPlace(q, p, i)
<1>1. Len(q) \in Nat /\ Len(q) > 0
  BY LenProperties, EmptySeq
<1>2. p \in 0..7 /\ \A i \in 1..Len(q) : q[i].prio \in 0..7
  <2>1. ASSUME NEW i \in 1..Len(q) PROVE q[i].prio \in Priorities \cup {0}
    <3>1. q[i] \in Order!Message
      BY ElementOfSeq
    <3> QED
      BY <3>1 DEF Order!Message
  <2>2. Priorities \cup {0} \subseteq 0..7
    BY PrioritiesAssumption
  <2> QED
    BY <2>1, <2>2
<1> DEFINE T == {i \in 1..Len(q) : i = Len(q) \/ p > q[i].prio}
<1>3. PICK i \in T : \A j \in T : i <= j
  <2>1. Len(q) \in T /\ T \in SUBSET Nat
    BY <1>1
  <2> HIDE DEF T
  <2> QED
    BY <2>1, NatMinimum
<1>4. ASSUME NEW j \in 1..(i-1) PROVE p <= q[j].prio
  <2>1. j \in 1..Len(q) /\ j \notin T /\ j < i
    <3>1. j \in 1..Len(q) /\ j < i
      BY <1>1, <1>3
    <3>2. j \notin T
      <4>1. i \in Nat /\ j \in Nat
        BY <1>3, <3>1
      <4> HIDE DEF T
      <4> QED
        BY <1>3, <3>1, <4>1
    <3> QED
      BY <3>1, <3>2
  <2>2. ~(p > q[j].prio)
    BY <2>1
  <2> QED
    BY <1>2, <2>1, <2>2
<1> QED
  BY <1>3, <1>4 DEF Order!IsPlace

(* Insert adds the message, somewhere.                                      *)
LEMMA InsertedSomewhere ==
  ASSUME NEW q \in Seq(Order!Message), NEW m \in Order!Message
  PROVE  /\ Order!Insert(q, m) \in Seq(Order!Message)
         /\ Len(Order!Insert(q, m)) = Len(q) + 1
         /\ \E k \in 1..(Len(q) + 1) : IsInserted(Order!Insert(q, m), q, k, m)
<1>1. CASE q = <<>>
  <2>1. Order!Insert(q, m) = <<m>>
    BY <1>1 DEF Order!Insert
  <2>2. <<m>> \in Seq(Order!Message) /\ Len(<<m>>) = 1 /\ <<m>>[1] = m /\ Len(q) = 0
    BY <1>1
  <2>3. 1 \in 1..(Len(q) + 1) /\ IsInserted(<<m>>, q, 1, m)
    BY <2>2 DEF IsInserted
  <2> QED
    BY <2>1, <2>2, <2>3
<1>2. CASE q # <<>>
  <2>1. m.prio \in Priorities \cup {0} /\ Len(q) \in Nat
    BY LenProperties DEF Order!Message
  <2>2. \E i \in 1..Len(q) : Order!IsPlace(q, m.prio, i)
    BY <1>2, <2>1, PlaceExists
  <2> DEFINE k == CHOOSE i \in 1..Len(q) : Order!IsPlace(q, m.prio, i)
  <2>3. k \in 1..Len(q)
    BY <2>2
  <2>4. Order!Insert(q, m) = Order!InsertAt(q, k, m)
    BY <1>2 DEF Order!Insert
  <2> HIDE DEF k
  <2>5. k \in 1..(Len(q) + 1)
    BY <2>1, <2>3
  <2>6. /\ Order!InsertAt(q, k, m) \in Seq(Order!Message)
        /\ IsInserted(Order!InsertAt(q, k, m), q, k, m)
    BY <2>5, InsertAtIsInserted
  <2>7. Len(Order!InsertAt(q, k, m)) = Len(q) + 1
    BY <2>6 DEF IsInserted
  <2> QED
    BY <2>4, <2>5, <2>6, <2>7
<1> QED
  BY <1>1, <1>2

(* Inserting a message adds what it carries, and nothing twice that was     *)
(* not queued before.                                                       *)
LEMMA InsertedData ==
  ASSUME NEW q \in Seq(Order!Message), NEW m \in Order!Message
  PROVE  /\ DataOf(Order!Insert(q, m)) = DataOf(q) \cup {m.data}
         /\ Distinct(q) /\ (m.data = App \/ m.data \notin DataOf(q)) => Distinct(Order!Insert(q, m))
<1> DEFINE r == Order!Insert(q, m)
           n == Len(q)
<1>1. /\ Len(r) = n + 1 /\ n \in Nat
      /\ \E k \in 1..(n + 1) : \A i \in 1..(n + 1) :
           r[i] = IF i < k THEN q[i] ELSE IF i = k THEN m ELSE q[i - 1]
  BY InsertedSomewhere, LenProperties DEF IsInserted
<1> HIDE DEF r
<1>2. PICK k \in 1..(n + 1) : \A i \in 1..(n + 1) :
         r[i] = IF i < k THEN q[i] ELSE IF i = k THEN m ELSE q[i - 1]
  BY <1>1
<1> DEFINE Old(i) == IF i < k THEN i ELSE i - 1
<1>3. ASSUME NEW i \in 1..(n + 1), i # k PROVE Old(i) \in 1..n /\ r[i] = q[Old(i)]
  <2>1. CASE i < k
    BY <1>1, <1>2, <2>1
  <2>2. CASE i > k
    BY <1>1, <1>2, <2>2
  <2> QED
    BY <1>1, <1>3, <2>1, <2>2
<1>4. ASSUME NEW i \in 1..n PROVE \E j \in 1..(n + 1) : j # k /\ Old(j) = i
  <2>1. CASE i < k
    BY <1>1, <2>1
  <2>2. CASE i >= k
    <3>1. i + 1 \in 1..(n + 1) /\ i + 1 # k /\ ~(i + 1 < k) /\ (i + 1) - 1 = i
      BY <1>1, <2>2
    <3> QED
      BY <3>1
  <2> QED
    BY <1>1, <2>1, <2>2
<1>5. ASSUME NEW i \in 1..(n + 1), NEW j \in 1..(n + 1), i # k, j # k, i # j PROVE Old(i) # Old(j)
  BY <1>1, <1>5
<1>6. r[k] = m
  BY <1>2
<1> HIDE DEF Old
<1>7. DataOf(r) = DataOf(q) \cup {m.data}
  <2>1. ASSUME NEW d \in DataOf(r) PROVE d \in DataOf(q) \cup {m.data}
    <3>1. PICK i \in 1..(n + 1) : d = r[i].data
      BY <1>1, <2>1 DEF DataOf
    <3> QED
      BY <1>3, <1>6, <3>1 DEF DataOf
  <2>2. ASSUME NEW d \in DataOf(q) PROVE d \in DataOf(r)
    <3>1. PICK i \in 1..n : d = q[i].data
      BY <2>2 DEF DataOf
    <3>2. PICK j \in 1..(n + 1) : j # k /\ Old(j) = i
      BY <1>4
    <3> QED
      BY <1>1, <1>3, <3>1, <3>2 DEF DataOf
  <2>3. m.data \in DataOf(r)
    BY <1>1, <1>6 DEF DataOf
  <2> QED
    BY <2>1, <2>2, <2>3
<1>8. ASSUME Distinct(q), m.data = App \/ m.data \notin DataOf(q) PROVE Distinct(r)
  <2> SUFFICES ASSUME NEW i \in 1..(n + 1), NEW j \in 1..(n + 1), i # j, r[i].data # App
               PROVE  r[i].data # r[j].data
    BY <1>1 DEF Distinct
  <2>1. CASE i # k /\ j # k
    BY <1>3, <1>5, <1>8, <2>1 DEF Distinct
  <2>2. CASE i = k
    <3>1. Old(j) \in 1..n /\ r[j] = q[Old(j)]
      BY <1>3, <2>2
    <3> QED
      BY <1>6, <1>8, <2>2, <3>1 DEF DataOf
  <2>3. CASE j = k
    <3>1. Old(i) \in 1..n /\ r[i] = q[Old(i)]
      BY <1>3, <2>3
    <3> QED
      BY <1>6, <1>8, <2>3, <3>1 DEF DataOf
  <2> QED
    BY <2>1, <2>2, <2>3
<1> QED
  BY <1>7, <1>8 DEF r

(* Taking the first message leaves the others.                              *)
LEMMA TailData ==
  ASSUME NEW q \in Seq(Order!Message), q # <<>>, Distinct(q)
  PROVE  /\ Tail(q) \in Seq(Order!Message) /\ Len(Tail(q)) < Len(q) /\ Head(q) \in Order!Message
         /\ Distinct(Tail(q))
         /\ Head(q).data \in DataOf(q)
         /\ DataOf(Tail(q)) \ {App} = (DataOf(q) \ {App}) \ {Head(q).data}
<1> DEFINE r == Tail(q)
           n == Len(r)
<1>1. /\ r \in Seq(Order!Message) /\ Len(q) = n + 1 /\ n \in Nat
      /\ \A i \in 1..n : r[i] = q[i + 1]
      /\ Head(q) = q[1] /\ Head(q) \in Order!Message
  BY HeadTailProperties, LenProperties, EmptySeq
<1> HIDE DEF r
<1>2. \A i \in 1..n : i + 1 \in 1..(n + 1) /\ i + 1 # 1
  BY <1>1
<1>3. Distinct(r)
  <2> SUFFICES ASSUME NEW i \in 1..n, NEW j \in 1..n, i # j, r[i].data # App
               PROVE  r[i].data # r[j].data
    BY DEF Distinct
  <2>1. i + 1 # j + 1
    BY <1>1
  <2> QED
    BY <1>1, <1>2, <2>1 DEF Distinct
<1>4. ASSUME NEW d \in DataOf(r) \ {App} PROVE d \in (DataOf(q) \ {App}) \ {q[1].data}
  <2>1. PICK i \in 1..n : d = r[i].data
    BY <1>4 DEF DataOf
  <2>2. d = q[i + 1].data /\ 1 \in 1..(n + 1)
    BY <1>1, <2>1
  <2>3. d # q[1].data
    BY <1>1, <1>2, <1>4, <2>2 DEF Distinct
  <2>4. i + 1 \in 1..Len(q)
    BY <1>1, <2>1
  <2>5. d \in DataOf(q)
    BY <2>2, <2>4 DEF DataOf
  <2> QED
    BY <1>4, <2>3, <2>5
<1>5. ASSUME NEW d \in (DataOf(q) \ {App}) \ {q[1].data} PROVE d \in DataOf(r) \ {App}
  <2>1. PICK i \in 1..(n + 1) : d = q[i].data
    BY <1>1, <1>5 DEF DataOf
  <2>2. i - 1 \in 1..n /\ (i - 1) + 1 = i
    BY <1>1, <1>5, <2>1
  <2>3. r[i - 1] = q[i]
    BY <1>1, <2>2
  <2>4. d \in DataOf(r)
    BY <1>1, <2>1, <2>2, <2>3 DEF DataOf
  <2> QED
    BY <1>5, <2>4
<1>6. q[1].data \in DataOf(q)
  <2>1. 1 \in 1..Len(q)
    BY <1>1
  <2> QED
    BY <2>1 DEF DataOf
<1>7. n < Len(q)
  BY <1>1
<1> QED
  BY <1>1, <1>3, <1>4, <1>5, <1>6, <1>7 DEF r


-----------------------------------------------------------------------------

(* The ring of free slots: what NextPosition and FreePositions are.         *)
LEMMA NextPositionLemma ==
  ASSUME NEW i \in Slots
  PROVE  /\ NextPosition(i) = IF i = PoolSize - 1 THEN 0 ELSE i + 1
         /\ NextPosition(i) \in Slots
BY SizesAssumption DEF Slots, NextPosition

PositionsDiffer == \A i, j \in FreePositions : i # j => avrIndex[i] # avrIndex[j]

(* The free positions are places of the ring.                               *)
LEMMA FreePositionsType ==
  ASSUME Rough
  PROVE  FreePositions \subseteq Slots
<1>1. poolIn \in 0..(PoolSize-1) /\ poolOut \in 0..(PoolSize-1) /\ PoolSize \in Nat
  BY SizesAssumption DEF Rough, Slots
<1> QED
  BY <1>1 DEF FreePositions, Slots

(* Taking a slot from the ring.                                             *)
LEMMA TakeSlot ==
  ASSUME Rough, PositionsDiffer, poolOut # poolIn, poolOut' = NextPosition(poolOut),
         UNCHANGED <<poolIn, avrIndex>>
  PROVE  /\ PositionsDiffer'
         /\ avrIndex[poolOut] \in FreeSlots
         /\ FreeSlots' = FreeSlots \ {avrIndex[poolOut]}
<1>1. poolIn \in 0..(PoolSize-1) /\ poolOut \in 0..(PoolSize-1) /\ PoolSize \in Nat
  BY SizesAssumption DEF Rough, Slots
<1>2. poolOut' = IF poolOut = PoolSize - 1 THEN 0 ELSE poolOut + 1
  BY NextPositionLemma DEF Rough
<1>3. FreePositions' = FreePositions \ {poolOut} /\ poolOut \in FreePositions
  <2>1. CASE poolOut = PoolSize - 1
    BY <1>1, <1>2, <2>1 DEF FreePositions
  <2>2. CASE poolOut # PoolSize - 1 /\ poolOut < poolIn
    BY <1>1, <1>2, <2>2 DEF FreePositions
  <2>3. CASE poolOut # PoolSize - 1 /\ poolIn < poolOut
    BY <1>1, <1>2, <2>3 DEF FreePositions
  <2> QED
    BY <1>1, <2>1, <2>2, <2>3
<1> QED
  BY <1>3 DEF PositionsDiffer, FreeSlots

(* There is a place in the ring for a slot that is in the hands of          *)
(* DispatchEvent, for otherwise all others would be free, and the slots     *)
(* are one less than the places.                                            *)
LEMMA RingHasPlace ==
  ASSUME Rough, PositionsDiffer, FreeSlots \subseteq 0..(PoolSize-2),
         current \in 0..(PoolSize-2), current \notin FreeSlots
  PROVE  NextPosition(poolIn) # poolOut
<1> SUFFICES ASSUME NextPosition(poolIn) = poolOut PROVE FALSE
  OBVIOUS
<1>1. poolIn \in 0..(PoolSize-1) /\ poolOut \in 0..(PoolSize-1) /\ PoolSize \in Nat
  BY SizesAssumption DEF Rough, Slots
<1>2. FreePositions = Slots \ {poolIn}
  <2>1. poolOut = IF poolIn = PoolSize - 1 THEN 0 ELSE poolIn + 1
    BY NextPositionLemma DEF Rough
  <2>2. CASE poolIn = PoolSize - 1
    BY <1>1, <2>1, <2>2 DEF FreePositions, Slots
  <2>3. CASE poolIn # PoolSize - 1
    BY <1>1, <2>1, <2>3 DEF FreePositions, Slots
  <2> QED
    BY <2>2, <2>3
<1> DEFINE f == [i \in Slots |-> IF i = poolIn THEN current ELSE avrIndex[i]]
<1>3. f \in [Slots -> 0..(PoolSize-2)]
  <2> SUFFICES ASSUME NEW i \in Slots, i # poolIn PROVE avrIndex[i] \in 0..(PoolSize-2)
    OBVIOUS
  <2>1. i \in FreePositions
    BY <1>2
  <2> QED
    BY <2>1 DEF FreeSlots
<1>4. /\ IsFiniteSet(Slots) /\ Cardinality(Slots) = PoolSize
      /\ IsFiniteSet(0..(PoolSize-2)) /\ Cardinality(0..(PoolSize-2)) = PoolSize - 1
  <2>1. 0 \in Int /\ PoolSize - 1 \in Int /\ PoolSize - 2 \in Int /\ PoolSize >= 1
    BY <1>1, SizesAssumption
  <2>2. /\ IsFiniteSet(0..(PoolSize-1))
        /\ Cardinality(0..(PoolSize-1)) = IF 0 > PoolSize - 1 THEN 0 ELSE ((PoolSize - 1) - 0) + 1
    BY <2>1, FS_Interval
  <2>3. /\ IsFiniteSet(0..(PoolSize-2))
        /\ Cardinality(0..(PoolSize-2)) = IF 0 > PoolSize - 2 THEN 0 ELSE ((PoolSize - 2) - 0) + 1
    BY <2>1, FS_Interval
  <2>4. IsFiniteSet(Slots) /\ Cardinality(Slots) = PoolSize
    BY <1>1, <2>1, <2>2 DEF Slots
  <2>5. Cardinality(0..(PoolSize-2)) = PoolSize - 1
    BY <1>1, <2>1, <2>3
  <2> QED
    BY <2>3, <2>4, <2>5
<1>5. PICK i, j \in Slots : i # j /\ f[i] = f[j]
  <2>1. Cardinality(0..(PoolSize-2)) < Cardinality(Slots)
    BY <1>1, <1>4
  <2> HIDE DEF f
  <2> QED
    BY <1>3, <1>4, <2>1, FS_PigeonHole
<1>6. CASE i = poolIn
  <2>1. avrIndex[j] = current /\ j \in FreePositions
    BY <1>2, <1>5, <1>6
  <2> QED
    BY <2>1 DEF FreeSlots
<1>7. CASE j = poolIn
  <2>1. avrIndex[i] = current /\ i \in FreePositions
    BY <1>2, <1>5, <1>7
  <2> QED
    BY <2>1 DEF FreeSlots
<1>8. CASE i # poolIn /\ j # poolIn
  <2>1. avrIndex[i] = avrIndex[j] /\ i \in FreePositions /\ j \in FreePositions
    BY <1>2, <1>5, <1>8
  <2> QED
    BY <1>5, <2>1 DEF PositionsDiffer
<1> QED
  BY <1>6, <1>7, <1>8

(* Giving a slot back to the ring.                                          *)
LEMMA GiveSlot ==
  ASSUME Rough, PositionsDiffer, FreeSlots \subseteq 0..(PoolSize-2),
         current \in 0..(PoolSize-2), current \notin FreeSlots,
         poolIn' = NextPosition(poolIn), UNCHANGED poolOut,
         avrIndex' = [avrIndex EXCEPT ![poolIn] = current]
  PROVE  PositionsDiffer' /\ FreeSlots' = FreeSlots \cup {current}
<1>1. poolIn \in 0..(PoolSize-1) /\ poolOut \in 0..(PoolSize-1) /\ PoolSize \in Nat
  BY SizesAssumption DEF Rough, Slots
<1>2. poolIn' = IF poolIn = PoolSize - 1 THEN 0 ELSE poolIn + 1
  BY NextPositionLemma DEF Rough
<1>3. poolIn' # poolOut
  BY RingHasPlace
<1>4. FreePositions' = FreePositions \cup {poolIn} /\ poolIn \notin FreePositions
  <2>1. CASE poolIn = PoolSize - 1
    <3>1. FreePositions = poolOut..(PoolSize-2) /\ FreePositions' = (poolOut..(PoolSize-1)) \cup (0..(0-1))
      BY <1>1, <1>2, <1>3, <2>1 DEF FreePositions
    <3> QED
      BY <1>1, <2>1, <3>1
  <2>2. CASE poolIn # PoolSize - 1 /\ poolOut <= poolIn
    <3>1. FreePositions = poolOut..(poolIn-1) /\ FreePositions' = poolOut..poolIn
      BY <1>1, <1>2, <1>3, <2>2 DEF FreePositions
    <3> QED
      BY <1>1, <2>2, <3>1
  <2>3. CASE poolIn # PoolSize - 1 /\ poolIn < poolOut
    <3>1. /\ FreePositions = (poolOut..(PoolSize-1)) \cup (0..(poolIn-1))
          /\ FreePositions' = (poolOut..(PoolSize-1)) \cup (0..poolIn)
      BY <1>1, <1>2, <1>3, <2>3 DEF FreePositions
    <3> QED
      BY <1>1, <2>3, <3>1
  <2> QED
    BY <1>1, <2>1, <2>2, <2>3
<1>5. /\ avrIndex'[poolIn] = current
      /\ \A i \in FreePositions : avrIndex'[i] = avrIndex[i]
  BY <1>4, FreePositionsType DEF Rough
<1>6. PositionsDiffer'
  BY <1>4, <1>5 DEF PositionsDiffer, FreeSlots
<1> QED
  BY <1>4, <1>5, <1>6 DEF FreeSlots

-----------------------------------------------------------------------------

(* Each slot is in exactly one of these places.                             *)
Split(free, queued, inHand, gone) ==
  /\ free \cap (queued \cup inHand \cup gone) = {}
  /\ queued \cap (inHand \cup gone) = {}
  /\ inHand \cap gone = {}
  /\ free \cup queued \cup inHand \cup gone = 0..(PoolSize-2)

SlotsSplit ==
  /\ PositionsDiffer
  /\ Distinct(queue)
  /\ Split(FreeSlots, QueuedSlots, SlotsInHand, leaked)


(* What the queue carries are numbers of slots.                             *)
LEMMA QueuedType ==
  ASSUME Rough
  PROVE  /\ QueuedSlots = DataOf(queue) \ {App} /\ QueuedSlots \subseteq Slots
         /\ Slots \subseteq 0..PoolSize /\ App \notin Slots /\ App \in 0..PoolSize
<1>1. QueuedSlots = DataOf(queue) \ {App}
  BY DEF QueuedSlots, DataOf
<1>2. ASSUME NEW d \in DataOf(queue) PROVE d \in 0..PoolSize
  <2>1. PICK i \in 1..Len(queue) : d = queue[i].data
    BY <1>2 DEF DataOf
  <2>2. queue[i] \in Order!Message
    BY ElementOfSeq DEF Rough
  <2> QED
    BY <2>1, <2>2 DEF Order!Message
<1>3. /\ Slots \subseteq 0..PoolSize /\ App \notin Slots /\ App \in 0..PoolSize
      /\ (0..PoolSize) \ {App} \subseteq Slots
  BY SizesAssumption DEF Slots, App
<1> QED
  BY <1>1, <1>2, <1>3

(* ProcessMessage puts a packet into the queue or drops it, and loses       *)
(* neither a slot nor a byte from the accounts.                             *)
LEMMA PacketIsProcessed ==
  ASSUME Rough, SlotsSplit, pc = "drain",
         NEW length \in Lengths, ProcessMessage(length),
         UNCHANGED <<avrIndex, poolIn, pc, current>>
  PROVE  /\ avrPool' \in [Slots -> 0..14] /\ poolOut' \in Slots
         /\ queue' \in Seq(Order!Message) /\ Len(queue') <= QueueSize
         /\ lost' \in Nat /\ leaked' \subseteq Slots
         /\ SlotsSplit'
         /\ SizeSum(avrPool', QueuedSlots') + lost'
              = (SizeSum(avrPool, QueuedSlots) + lost) + (length + 2)
<1>1. length \in 0..14 /\ lost \in Nat /\ avrPool \in [Slots -> Nat] /\ QueueSize \in Nat
  <2>1. avrPool \in [Slots -> 0..14] /\ lost \in Nat
    BY DEF Rough
  <2>2. avrPool \in [Slots -> Nat]
    BY <2>1
  <2> QED
    BY <2>1, <2>2, LengthsAssumption, SizesAssumption
<1>2. QueuedSlots \in SUBSET Slots /\ SizeSum(avrPool, QueuedSlots) \in Nat
  BY <1>1, QueuedType, SizeSumType
<1>3. SlotsInHand = {} /\ SlotsInHand' = {}
  BY DEF SlotsInHand
<1>4. CASE poolOut = poolIn
  <2>1. UNCHANGED <<avrPool, poolOut, queue, leaked>> /\ lost' = lost + length + 2
    BY <1>4 DEF ProcessMessage
  <2>2. FreeSlots' = FreeSlots /\ QueuedSlots' = QueuedSlots
    BY <2>1 DEF FreeSlots, FreePositions, QueuedSlots
  <2>3. PositionsDiffer'
    BY <2>1 DEF SlotsSplit, PositionsDiffer, FreePositions
  <2>4. SlotsSplit'
    BY <1>3, <2>1, <2>2, <2>3 DEF SlotsSplit
  <2>5. lost' \in Nat /\ SizeSum(avrPool', QueuedSlots') = SizeSum(avrPool, QueuedSlots)
    BY <1>1, <2>1, <2>2
  <2>6. SizeSum(avrPool, QueuedSlots) + lost' = (SizeSum(avrPool, QueuedSlots) + lost) + (length + 2)
    BY <1>1, <1>2, <2>1
  <2>7. /\ avrPool' \in [Slots -> 0..14] /\ poolOut' \in Slots
        /\ queue' \in Seq(Order!Message) /\ Len(queue') <= QueueSize /\ leaked' \subseteq Slots
    BY <2>1 DEF Rough
  <2> QED
    BY <2>4, <2>5, <2>6, <2>7
<1>5. CASE poolOut # poolIn
  <2> DEFINE slot == avrIndex[poolOut]
             m == [prio |-> 0, data |-> slot]
  <2>1. /\ slot \in Slots
        /\ poolOut' = NextPosition(poolOut) /\ poolOut' \in Slots
        /\ avrPool' = [avrPool EXCEPT ![slot] = length]
    BY <1>5, NextPositionLemma DEF ProcessMessage, Rough
  <2>2. PositionsDiffer' /\ slot \in FreeSlots /\ FreeSlots' = FreeSlots \ {slot}
    BY <1>5, <2>1, TakeSlot DEF SlotsSplit
  <2>3. slot \notin QueuedSlots /\ slot \notin leaked
    BY <2>2 DEF SlotsSplit, Split
  <2>4. /\ avrPool' \in [Slots -> 0..14] /\ avrPool' \in [Slots -> Nat]
        /\ avrPool'[slot] = length
        /\ \A s \in QueuedSlots : avrPool'[s] = avrPool[s]
    BY <1>1, <1>2, <2>1, <2>3 DEF Rough
  <2>5. SizeSum(avrPool', QueuedSlots) = SizeSum(avrPool, QueuedSlots)
    BY <1>1, <1>2, <2>4, SizeSumSame
  <2>6. CASE Len(queue) < QueueSize
    <3>1. queue' = Order!Insert(queue, m) /\ UNCHANGED <<lost, leaked>>
      BY <1>5, <2>6 DEF ProcessMessage
    <3>2. m \in Order!Message /\ m.data = slot /\ slot # App /\ slot \notin DataOf(queue)
      BY <2>1, <2>3, QueuedType DEF Order!Message
    <3> HIDE DEF m
    <3>3. queue' \in Seq(Order!Message) /\ Len(queue') = Len(queue) + 1 /\ Len(queue) \in Nat
      BY <3>1, <3>2, InsertedSomewhere, LenProperties DEF Rough
    <3>4. DataOf(queue') = DataOf(queue) \cup {slot} /\ Distinct(queue')
      BY <3>1, <3>2, InsertedData DEF Rough, SlotsSplit
    <3>5. QueuedSlots' = QueuedSlots \cup {slot}
      BY <3>2, <3>4 DEF QueuedSlots, DataOf
    <3>6. Split(FreeSlots', QueuedSlots', SlotsInHand', leaked')
      BY <1>3, <2>2, <2>3, <3>1, <3>5 DEF SlotsSplit, Split
    <3>7. SizeSum(avrPool', QueuedSlots') = (length + 2) + SizeSum(avrPool, QueuedSlots)
      <4>1. QueuedSlots' \in SUBSET Slots /\ slot \in QueuedSlots' /\ QueuedSlots' \ {slot} = QueuedSlots
        BY <1>2, <2>1, <2>3, <3>5
      <4>2. SizeSum(avrPool', QueuedSlots') = (avrPool'[slot] + 2) + SizeSum(avrPool', QueuedSlots' \ {slot})
        BY <2>4, <4>1, SizeSumWithout
      <4> QED
        BY <2>4, <2>5, <4>1, <4>2
    <3>8. SlotsSplit'
      BY <2>2, <3>4, <3>6 DEF SlotsSplit
    <3>9. Len(queue') <= QueueSize
      BY <1>1, <2>6, <3>3
    <3>10. SizeSum(avrPool', QueuedSlots') + lost'
             = (SizeSum(avrPool, QueuedSlots) + lost) + (length + 2)
      BY <1>1, <1>2, <3>1, <3>7
    <3>11. lost' \in Nat /\ leaked' \subseteq Slots
      BY <3>1 DEF Rough
    <3> QED
      BY <2>1, <2>4, <3>3, <3>8, <3>9, <3>10, <3>11
  <2>7. CASE ~(Len(queue) < QueueSize)
    <3>1. UNCHANGED queue /\ lost' = lost + length + 2 /\ leaked' = leaked \cup {slot}
      BY <1>5, <2>7 DEF ProcessMessage
    <3>2. QueuedSlots' = QueuedSlots /\ Distinct(queue')
      BY <3>1 DEF QueuedSlots, SlotsSplit
    <3>3. Split(FreeSlots', QueuedSlots', SlotsInHand', leaked')
      BY <1>3, <2>2, <2>3, <3>1, <3>2 DEF SlotsSplit, Split
    <3>4. SlotsSplit'
      BY <2>2, <3>2, <3>3 DEF SlotsSplit
    <3> HIDE DEF slot
    <3>5. /\ lost' \in Nat
          /\ SizeSum(avrPool', QueuedSlots') = SizeSum(avrPool, QueuedSlots)
      BY <1>1, <2>5, <3>1, <3>2
    <3>6. SizeSum(avrPool, QueuedSlots) + lost' = (SizeSum(avrPool, QueuedSlots) + lost) + (length + 2)
      BY <1>1, <1>2, <3>1
    <3>7. leaked' \subseteq Slots /\ queue' \in Seq(Order!Message) /\ Len(queue') <= QueueSize
      BY <2>1, <3>1 DEF Rough
    <3> QED
      BY <2>1, <2>4, <3>4, <3>5, <3>6, <3>7
  <2> QED
    BY <2>6, <2>7
<1> QED
  BY <1>4, <1>5

(* Each step keeps the slots apart, and the types.                          *)
LEMMA SlotsStep ==
  ASSUME Rough, RingHasSpace, Framed(Line), InStep, SlotsSplit, [Next]_vars
  PROVE  Rough' /\ SlotsSplit'
<1>1. ASSUME UNCHANGED <<avrIndex, poolIn, poolOut, queue, leaked>>, SlotsInHand' = SlotsInHand
      PROVE  SlotsSplit'
  <2>1. PositionsDiffer' /\ FreeSlots' = FreeSlots
    BY <1>1 DEF SlotsSplit, PositionsDiffer, FreeSlots, FreePositions
  <2>2. QueuedSlots' = QueuedSlots
    BY <1>1 DEF QueuedSlots
  <2> QED
    BY <1>1, <2>1, <2>2 DEF SlotsSplit
<1>2. CASE \E length \in Lengths : PcBegins(length)
  <2>1. PICK length \in Lengths : PcBegins(length)
    BY <1>2
  <2>2. rest' \in Seq(Byte)
    BY <2>1, LineGrows
  <2>3. unacked' \in Int /\ unacked' <= RxSize - 1
    BY <2>1, LengthsAssumption DEF PcBegins, Rough
  <2>4. UNCHANGED <<rx, msgType, msgLen, bufferIndex, avrPool, avrIndex, poolIn, poolOut, queue, pc, current, acks, lost, leaked>>
    BY <2>1 DEF PcBegins, rxVars, poolVars
  <2>5. SlotsInHand' = SlotsInHand
    BY <2>4 DEF SlotsInHand
  <2> QED
    BY <1>1, <2>2, <2>3, <2>4, <2>5 DEF Rough
<1>3. CASE Receive
  <2>1. UNCHANGED <<unacked, msgType, msgLen, bufferIndex, avrPool, avrIndex, poolIn, poolOut, queue, pc, current, acks, lost, leaked>>
    BY <1>3 DEF Receive, poolVars
  <2>2. rx' \in Seq(Byte) /\ rest' \in Seq(Byte)
    BY <1>3, LineReceives
  <2>3. SlotsInHand' = SlotsInHand
    BY <2>1 DEF SlotsInHand
  <2> QED
    BY <1>1, <2>1, <2>2, <2>3 DEF Rough
<1>4. CASE PcGetsAck
  <2>1. /\ UNCHANGED <<rest, rx, msgType, msgLen, bufferIndex, avrPool, avrIndex, poolIn, poolOut, queue, pc, current, lost, leaked>>
        /\ acks # <<>> /\ acks' = Tail(acks) /\ unacked' = unacked - Head(acks)
    BY <1>4 DEF PcGetsAck, rxVars, poolVars
  <2>2. acks' \in Seq(2..16) /\ Head(acks) \in 2..16
    BY <2>1, HeadTailProperties DEF Rough
  <2>3. unacked' \in Int /\ unacked' <= RxSize - 1
    <3>1. unacked \in Int /\ unacked <= RxSize - 1 /\ RxSize \in Int
      BY SizesAssumption DEF Rough
    <3>2. PICK h \in 2..16 : h = Head(acks)
      BY <2>2
    <3>3. unacked' = unacked - h
      BY <2>1, <3>2
    <3> QED
      BY <3>1, <3>3
  <2>4. SlotsInHand' = SlotsInHand
    BY <2>1 DEF SlotsInHand
  <2> QED
    BY <1>1, <2>1, <2>2, <2>3, <2>4 DEF Rough
<1>5. CASE \E prio \in Priorities : AppSends(prio)
  <2>1. PICK prio \in Priorities : AppSends(prio)
    BY <1>5
  <2>2. UNCHANGED <<rest, rx, unacked, msgType, msgLen, bufferIndex, avrPool, avrIndex, poolIn, poolOut, pc, current, acks, lost, leaked>>
    BY <2>1 DEF AppSends, rxVars, poolVars
  <2> DEFINE m == [prio |-> prio, data |-> App]
  <2>3. m \in Order!Message /\ m.data = App
    BY QueuedType DEF Order!Message
  <2>4. /\ queue' \in Seq(Order!Message) /\ Len(queue') <= QueueSize
        /\ Distinct(queue') /\ QueuedSlots' = QueuedSlots
    <3>1. CASE Len(queue) < QueueSize
      <4>1. queue' = Order!Insert(queue, m)
        BY <2>1, <3>1 DEF AppSends
      <4> HIDE DEF m
      <4>2. queue' \in Seq(Order!Message) /\ Len(queue') = Len(queue) + 1 /\ Len(queue) \in Nat
        BY <2>3, <4>1, InsertedSomewhere, LenProperties DEF Rough
      <4>3. DataOf(queue') = DataOf(queue) \cup {App} /\ Distinct(queue')
        BY <2>3, <4>1, InsertedData DEF Rough, SlotsSplit
      <4>4. QueuedSlots' = QueuedSlots
        BY <4>3 DEF QueuedSlots, DataOf
      <4>5. Len(queue') <= QueueSize
        BY <3>1, <4>2, SizesAssumption
      <4> QED
        BY <4>2, <4>3, <4>4, <4>5
    <3>2. CASE ~(Len(queue) < QueueSize)
      <4>1. queue' = queue
        BY <2>1, <3>2 DEF AppSends
      <4> QED
        BY <4>1 DEF Rough, SlotsSplit, QueuedSlots
    <3> QED
      BY <3>1, <3>2
  <2>5. SlotsInHand' = SlotsInHand /\ FreeSlots' = FreeSlots /\ PositionsDiffer'
    BY <2>2 DEF SlotsInHand, FreeSlots, FreePositions, PositionsDiffer, SlotsSplit
  <2>6. SlotsSplit'
    BY <2>2, <2>4, <2>5 DEF SlotsSplit
  <2> QED
    BY <2>2, <2>4, <2>6 DEF Rough
<1>6. CASE Dispatch
  <2>1. UNCHANGED <<rest, rx, unacked, msgType, msgLen, bufferIndex, avrPool, avrIndex, poolIn, poolOut, acks, lost, leaked>>
        /\ pc = "dispatch"
    BY <1>6 DEF Dispatch, rxVars, poolVars
  <2>2. SlotsInHand = {}
    BY <2>1 DEF SlotsInHand
  <2>3. PositionsDiffer' /\ FreeSlots' = FreeSlots
    BY <2>1 DEF FreeSlots, FreePositions, PositionsDiffer, SlotsSplit
  <2>4. CASE queue = <<>>
    <3>1. pc' = "drain" /\ queue' = queue /\ current' = current
      BY <1>6, <2>4 DEF Dispatch
    <3>2. SlotsInHand' = SlotsInHand
      BY <2>2, <3>1 DEF SlotsInHand
    <3> QED
      BY <1>1, <2>1, <3>1, <3>2 DEF Rough
  <2>5. CASE queue # <<>>
    <3>1. /\ queue' = Tail(queue)
          /\ Head(queue).data = App => pc' = "drain" /\ current' = current
          /\ Head(queue).data # App => pc' = "handle" /\ current' = Head(queue).data
      BY <1>6, <2>5 DEF Dispatch
    <3>2. /\ queue' \in Seq(Order!Message) /\ Len(queue') < Len(queue) /\ Len(queue') \in Nat /\ Len(queue) \in Nat
          /\ Distinct(queue')
          /\ Head(queue).data \in DataOf(queue)
          /\ DataOf(queue') \ {App} = (DataOf(queue) \ {App}) \ {Head(queue).data}
      BY <2>5, <3>1, TailData, LenProperties DEF Rough, SlotsSplit
    <3>3. QueuedSlots' = QueuedSlots \ {Head(queue).data}
      BY <3>2 DEF QueuedSlots, DataOf
    <3>4. Len(queue') <= QueueSize
      BY <3>2, SizesAssumption DEF Rough
    <3>5. CASE Head(queue).data = App
      <4>1. SlotsInHand' = {} /\ QueuedSlots' = QueuedSlots
        BY <3>1, <3>3, <3>5, QueuedType DEF SlotsInHand
      <4>2. SlotsSplit'
        BY <2>1, <2>2, <2>3, <3>2, <4>1 DEF SlotsSplit
      <4> QED
        BY <2>1, <3>1, <3>2, <3>4, <3>5, <4>2 DEF Rough
    <3>6. CASE Head(queue).data # App
      <4>1. current' \in QueuedSlots /\ current' \in Slots /\ QueuedSlots' = QueuedSlots \ {current'}
        BY <3>1, <3>2, <3>3, <3>6, QueuedType
      <4>2. SlotsInHand' = {current'}
        BY <3>1, <3>6 DEF SlotsInHand
      <4>3. Split(FreeSlots', QueuedSlots', SlotsInHand', leaked')
        BY <2>1, <2>2, <2>3, <4>1, <4>2 DEF SlotsSplit, Split
      <4>4. SlotsSplit'
        BY <2>3, <3>2, <4>3 DEF SlotsSplit
      <4> QED
        BY <2>1, <3>1, <3>2, <3>4, <3>6, <4>1, <4>4 DEF Rough
    <3> QED
      BY <3>5, <3>6
  <2> QED
    BY <2>4, <2>5
<1>7. CASE \E answer \in Answers : Handle(answer)
  <2>1. PICK answer \in Answers : Handle(answer)
    BY <1>7
  <2>2. /\ UNCHANGED <<rest, rx, unacked, msgType, msgLen, bufferIndex, avrPool, avrIndex, poolIn, poolOut, queue, current, acks, leaked>>
        /\ pc = "handle" /\ pc' \in {"ack", "free"}
        /\ lost' = IF answer THEN lost ELSE lost + avrPool[current] + 2
    BY <2>1 DEF Handle, AfterHandle, rxVars, poolVars
  <2>3. lost' \in Nat
    <3>1. avrPool[current] \in 0..14 /\ lost \in Nat
      BY DEF Rough
    <3> QED
      BY <2>2, <3>1
  <2>4. SlotsInHand' = SlotsInHand
    BY <2>2 DEF SlotsInHand
  <2> QED
    BY <1>1, <2>2, <2>3, <2>4 DEF Rough
<1>8. CASE Ack
  <2>1. /\ UNCHANGED <<rest, rx, unacked, msgType, msgLen, bufferIndex, avrPool, avrIndex, poolIn, poolOut, queue, current, lost, leaked>>
        /\ pc = "ack" /\ pc' = "free" /\ acks' = Append(acks, AckedBytes)
    BY <1>8 DEF Ack, rxVars, poolVars
  <2>2. AckedBytes \in 2..16
    <3>1. avrPool[current] \in 0..14
      BY DEF Rough
    <3> QED
      BY <3>1 DEF AckedBytes
  <2>3. acks' \in Seq(2..16)
    BY <2>1, <2>2, AppendProperties DEF Rough
  <2>4. SlotsInHand' = SlotsInHand
    BY <2>1 DEF SlotsInHand
  <2> QED
    BY <1>1, <2>1, <2>3, <2>4 DEF Rough
<1>9. CASE Free
  <2>1. /\ UNCHANGED <<rest, rx, unacked, msgType, msgLen, bufferIndex, avrPool, poolOut, queue, acks, lost, leaked>>
        /\ pc = "free" /\ pc' = "drain" /\ current' = 0
        /\ avrIndex' = [avrIndex EXCEPT ![poolIn] = current] /\ poolIn' = NextPosition(poolIn)
    BY <1>9 DEF Free, rxVars
  <2>2. SlotsInHand = {current} /\ SlotsInHand' = {}
    BY <2>1 DEF SlotsInHand
  <2>3. current \in 0..(PoolSize-2) /\ current \notin FreeSlots /\ FreeSlots \subseteq 0..(PoolSize-2)
    BY <2>2 DEF SlotsSplit, Split
  <2>4. PositionsDiffer' /\ FreeSlots' = FreeSlots \cup {current}
    BY <2>1, <2>3, GiveSlot DEF SlotsSplit
  <2>5. QueuedSlots' = QueuedSlots /\ Distinct(queue')
    BY <2>1 DEF QueuedSlots, SlotsSplit
  <2>6. Split(FreeSlots', QueuedSlots', SlotsInHand', leaked')
    BY <2>1, <2>2, <2>4, <2>5 DEF SlotsSplit, Split
  <2>7. SlotsSplit'
    BY <2>4, <2>5, <2>6 DEF SlotsSplit
  <2>8. avrIndex' \in [Slots -> Slots] /\ poolIn' \in Slots /\ 0 \in Slots
    <3>1. avrIndex \in [Slots -> Slots] /\ current \in Slots /\ poolIn \in Slots
      BY DEF Rough
    <3>2. NextPosition(poolIn) \in Slots
      BY <3>1, NextPositionLemma
    <3>3. 0 \in Slots
      BY SizesAssumption DEF Slots
    <3> QED
      BY <2>1, <3>1, <3>2, <3>3
  <2> QED
    BY <2>1, <2>7, <2>8 DEF Rough
<1>10. CASE DrainByte
  <2>1. /\ UNCHANGED <<rest, unacked, avrIndex, poolIn, pc, current, acks>>
        /\ pc = "drain" /\ rx # <<>> /\ rx' = Tail(rx)
    BY <1>10 DEF DrainByte
  <2>2. rx' \in Seq(Byte)
    BY <2>1, HeadTailProperties DEF Rough
  <2>3. /\ msgType' \in 0..255 /\ msgLen' \in 0..14 /\ bufferIndex' \in 0..14
        /\ \/ UNCHANGED <<avrPool, poolOut, queue, lost, leaked>>
           \/ \E length \in Lengths : ProcessMessage(length)
    BY <1>10, ParserStep
  <2>4. CASE UNCHANGED <<avrPool, poolOut, queue, lost, leaked>>
    <3>1. SlotsInHand' = SlotsInHand
      BY <2>1 DEF SlotsInHand
    <3> QED
      BY <1>1, <2>1, <2>2, <2>3, <2>4, <3>1 DEF Rough
  <2>5. CASE \E length \in Lengths : ProcessMessage(length)
    <3>1. PICK length \in Lengths : ProcessMessage(length)
      BY <2>5
    <3>2. /\ avrPool' \in [Slots -> 0..14] /\ poolOut' \in Slots
          /\ queue' \in Seq(Order!Message) /\ Len(queue') <= QueueSize
          /\ lost' \in Nat /\ leaked' \subseteq Slots
          /\ SlotsSplit'
      BY <2>1, <3>1, PacketIsProcessed
    <3> QED
      BY <2>1, <2>2, <2>3, <3>2 DEF Rough
  <2> QED
    BY <2>3, <2>4, <2>5
<1>11. CASE DrainEnds
  <2>1. /\ UNCHANGED <<rest, rx, unacked, msgType, msgLen, bufferIndex, avrPool, avrIndex, poolIn, poolOut, queue, current, acks, lost, leaked>>
        /\ pc = "drain" /\ pc' = "dispatch"
    BY <1>11 DEF DrainEnds, rxVars, poolVars
  <2>2. SlotsInHand' = SlotsInHand
    BY <2>1 DEF SlotsInHand
  <2> QED
    BY <1>1, <2>1, <2>2 DEF Rough
<1>12. CASE UNCHANGED vars
  <2>1. UNCHANGED <<rest, rx, unacked, msgType, msgLen, bufferIndex, avrPool, avrIndex, poolIn, poolOut, queue, pc, current, acks, lost, leaked>>
    BY <1>12 DEF vars, rxVars, poolVars
  <2>2. SlotsInHand' = SlotsInHand
    BY <2>1 DEF SlotsInHand
  <2> QED
    BY <1>1, <2>1, <2>2 DEF Rough
<1> QED
  BY <1>2, <1>3, <1>4, <1>5, <1>6, <1>7, <1>8, <1>9, <1>10, <1>11, <1>12 DEF Next, MainLoop


-----------------------------------------------------------------------------

(* The account of the bytes, with sums that can be reasoned about.          *)
InWork == IF pc \in {"handle", "ack"} THEN avrPool[current] + 2 ELSE 0
OnLine == Len(rest) + Len(rx)
Queued == SizeSum(avrPool, QueuedSlots)
Acked == SumFunction(acks)

Account == unacked = ((((OnLine + Parsed) + Queued) + InWork) + Acked) + lost

SummandTypes ==
  /\ OnLine \in Nat /\ Parsed \in Nat /\ Queued \in Nat /\ InWork \in Nat /\ Acked \in Nat
  /\ lost \in Nat /\ Len(rest) \in Nat /\ Len(rx) \in Nat /\ acks \in Seq(Nat)

CreditIsSum == SummandTypes /\ (CreditIsAccounted <=> Account)

(* The types of the summands, and that the account is CreditIsAccounted.    *)
LEMMA CreditSums == Rough => CreditIsSum
<1> SUFFICES ASSUME Rough PROVE CreditIsSum
  OBVIOUS
<1>1. Len(rest) \in Nat /\ Len(rx) \in Nat /\ OnLine \in Nat
  BY LenProperties DEF Rough, OnLine
<1>2. Parsed \in Nat
  BY DEF Rough, Parsed
<1>3. avrPool \in [Slots -> Nat] /\ QueuedSlots \in SUBSET Slots
  <2>1. avrPool \in [Slots -> 0..14]
    BY DEF Rough
  <2> QED
    BY <2>1, QueuedType
<1>4. Queued \in Nat /\ BytesIn(QueuedSlots) = Queued
  <2>1. SizeSum(avrPool, QueuedSlots) \in Nat
    BY <1>3, SizeSumType
  <2>2. MapThenSumSet(LAMBDA s : avrPool[s] + 2, QueuedSlots) = SizeSum(avrPool, QueuedSlots)
    BY <1>3, SizeSumOfSet
  <2> QED
    BY <2>1, <2>2 DEF BytesIn, Queued
<1>5. InWork \in Nat
  <2>1. avrPool[current] \in Nat
    BY <1>3 DEF Rough
  <2> QED
    BY <2>1 DEF InWork
<1>6. acks \in Seq(Nat) /\ Acked \in Nat
  <2>1. acks \in Seq(2..16) /\ 2..16 \subseteq Nat
    BY DEF Rough
  <2>2. acks \in Seq(Nat)
    BY <2>1, SeqMonotonic
  <2> QED
    BY <2>2, SumOfSequence DEF Acked
<1>7. lost \in Nat
  BY DEF Rough
<1>8. CreditIsAccounted <=> unacked = Len(rest) + Len(rx) + Parsed + Queued + InWork + Acked + lost
  BY <1>4 DEF CreditIsAccounted, InWork, Acked
<1>9. Len(rest) + Len(rx) + Parsed + Queued + InWork + Acked + lost
        = ((((OnLine + Parsed) + Queued) + InWork) + Acked) + lost
  BY DEF OnLine
<1> QED
  BY <1>1, <1>2, <1>4, <1>5, <1>6, <1>7, <1>8, <1>9 DEF CreditIsSum, SummandTypes, Account

(* The same of the state after a step.                                      *)
LEMMA CreditSumsAfter == Rough' => CreditIsSum'
BY CreditSums, PTL

(* Each step keeps the account.                                             *)
LEMMA AccountStep ==
  ASSUME Rough, Rough', RingHasSpace, Framed(Line), InStep, SlotsSplit, Account, [Next]_vars
  PROVE  Account'
<1>1. SummandTypes /\ SummandTypes'
  BY CreditSums, CreditSumsAfter DEF CreditIsSum
<1>2. unacked = ((((OnLine + Parsed) + Queued) + InWork) + Acked) + lost
  BY DEF Account
<1>3. avrPool \in [Slots -> Nat] /\ QueuedSlots \in SUBSET Slots /\ avrPool[current] \in Nat
  <2>1. avrPool \in [Slots -> 0..14] /\ current \in Slots
    BY DEF Rough
  <2> QED
    BY <2>1, QueuedType
<1>4. CASE \E length \in Lengths : PcBegins(length)
  <2>1. PICK length \in Lengths : PcBegins(length)
    BY <1>4
  <2>2. UNCHANGED <<rx, msgType, msgLen, bufferIndex, avrPool, queue, pc, current, acks, lost>>
    BY <2>1 DEF PcBegins, rxVars, poolVars
  <2>3. unacked' = unacked + length + 2 /\ length \in 0..14
    BY <2>1, LengthsAssumption DEF PcBegins
  <2>4. OnLine' = OnLine + (length + 2)
    <3>1. Len(rest') = length + 2 /\ Len(rest) = 0 /\ rx' = rx
      BY <2>1, <2>2, LineGrows
    <3> QED
      BY <1>1, <2>3, <3>1 DEF OnLine, SummandTypes
  <2>5. Parsed' = Parsed /\ Queued' = Queued /\ InWork' = InWork /\ Acked' = Acked /\ lost' = lost
    BY <2>2 DEF Parsed, Queued, QueuedSlots, InWork, Acked
  <2> QED
    BY <1>1, <1>2, <2>3, <2>4, <2>5 DEF Account, SummandTypes
<1>5. CASE Receive
  <2>1. UNCHANGED <<unacked, msgType, msgLen, bufferIndex, avrPool, queue, pc, current, acks, lost>>
    BY <1>5 DEF Receive, poolVars
  <2>2. OnLine' = OnLine
    <3>1. Len(rx') + Len(rest') = Len(rx) + Len(rest)
      BY <1>5, LineReceives
    <3> QED
      BY <1>1, <3>1 DEF OnLine, SummandTypes
  <2>3. Parsed' = Parsed /\ Queued' = Queued /\ InWork' = InWork /\ Acked' = Acked /\ lost' = lost
    BY <2>1 DEF Parsed, Queued, QueuedSlots, InWork, Acked
  <2> QED
    BY <1>2, <2>1, <2>2, <2>3 DEF Account
<1>6. CASE PcGetsAck
  <2>1. /\ UNCHANGED <<rest, rx, msgType, msgLen, bufferIndex, avrPool, queue, pc, current, lost>>
        /\ acks # <<>> /\ acks' = Tail(acks) /\ unacked' = unacked - Head(acks)
    BY <1>6 DEF PcGetsAck, rxVars, poolVars
  <2>2. OnLine' = OnLine /\ Parsed' = Parsed /\ Queued' = Queued /\ InWork' = InWork /\ lost' = lost
    BY <2>1 DEF OnLine, Parsed, Queued, QueuedSlots, InWork
  <2>3. PICK h \in Nat : h = Head(acks)
    BY <1>1, <2>1, SumOfTail DEF SummandTypes
  <2>4. Acked = h + Acked'
    <3>1. SumFunction(acks) = Head(acks) + SumFunction(Tail(acks))
      BY <1>1, <2>1, SumOfTail DEF SummandTypes
    <3> QED
      BY <2>1, <2>3, <3>1 DEF Acked
  <2>5. unacked' = unacked - h
    BY <2>1, <2>3
  <2>6. /\ OnLine \in Nat /\ Parsed \in Nat /\ Queued \in Nat /\ InWork \in Nat
        /\ lost \in Nat /\ Acked' \in Nat
    BY <1>1 DEF SummandTypes
  <2>7. unacked' = ((((OnLine + Parsed) + Queued) + InWork) + Acked') + lost
    BY <1>2, <2>4, <2>5, <2>6
  <2> QED
    BY <2>2, <2>7 DEF Account
<1>7. CASE \E prio \in Priorities : AppSends(prio)
  <2>1. PICK prio \in Priorities : AppSends(prio)
    BY <1>7
  <2>2. UNCHANGED <<rest, rx, unacked, msgType, msgLen, bufferIndex, avrPool, pc, current, acks, lost>>
    BY <2>1 DEF AppSends, rxVars, poolVars
  <2>3. QueuedSlots' = QueuedSlots
    <3> DEFINE m == [prio |-> prio, data |-> App]
    <3>1. m \in Order!Message /\ m.data = App
      BY QueuedType DEF Order!Message
    <3>2. queue' = queue \/ queue' = Order!Insert(queue, m)
      BY <2>1 DEF AppSends
    <3> HIDE DEF m
    <3>3. DataOf(Order!Insert(queue, m)) = DataOf(queue) \cup {App}
      BY <3>1, InsertedData DEF Rough
    <3> QED
      BY <3>2, <3>3 DEF QueuedSlots, DataOf
  <2>4. /\ OnLine' = OnLine /\ Parsed' = Parsed /\ Queued' = Queued
        /\ InWork' = InWork /\ Acked' = Acked /\ lost' = lost
    BY <2>2, <2>3 DEF OnLine, Parsed, Queued, InWork, Acked
  <2> QED
    BY <1>2, <2>2, <2>4 DEF Account
<1>8. CASE Dispatch
  <2>1. UNCHANGED <<rest, rx, unacked, msgType, msgLen, bufferIndex, avrPool, acks, lost>> /\ pc = "dispatch"
    BY <1>8 DEF Dispatch, rxVars, poolVars
  <2>2. OnLine' = OnLine /\ Parsed' = Parsed /\ Acked' = Acked /\ lost' = lost /\ InWork = 0
    BY <2>1 DEF OnLine, Parsed, Acked, InWork
  <2>3. Queued = Queued' + InWork'
    <3>1. CASE queue = <<>>
      <4>1. pc' = "drain" /\ queue' = queue
        BY <1>8, <3>1 DEF Dispatch
      <4>2. Queued' = Queued /\ InWork' = 0
        BY <2>1, <4>1 DEF Queued, QueuedSlots, InWork
      <4> QED
        BY <1>1, <4>2 DEF SummandTypes
    <3>2. CASE queue # <<>>
      <4>1. /\ queue' = Tail(queue)
            /\ Head(queue).data = App => pc' = "drain"
            /\ Head(queue).data # App => pc' = "handle" /\ current' = Head(queue).data
        BY <1>8, <3>2 DEF Dispatch
      <4>2. /\ Head(queue).data \in DataOf(queue)
            /\ DataOf(queue') \ {App} = (DataOf(queue) \ {App}) \ {Head(queue).data}
        BY <3>2, <4>1, TailData DEF Rough, SlotsSplit
      <4>3. QueuedSlots' = QueuedSlots \ {Head(queue).data}
        BY <4>2 DEF QueuedSlots, DataOf
      <4>4. CASE Head(queue).data = App
        <5>1. QueuedSlots' = QueuedSlots
          BY <4>3, <4>4, QueuedType
        <5>2. Queued' = Queued /\ InWork' = 0
          BY <2>1, <4>1, <4>4, <5>1 DEF Queued, InWork
        <5> QED
          BY <1>1, <5>2 DEF SummandTypes
      <4>5. CASE Head(queue).data # App
        <5>1. current' \in QueuedSlots /\ QueuedSlots' = QueuedSlots \ {current'} /\ pc' = "handle"
          BY <4>1, <4>2, <4>3, <4>5, QueuedType
        <5>2. SizeSum(avrPool, QueuedSlots) = (avrPool[current'] + 2) + SizeSum(avrPool, QueuedSlots \ {current'})
          BY <1>3, <5>1, SizeSumWithout
        <5>3. InWork' = avrPool[current'] + 2
          BY <2>1, <5>1 DEF InWork
        <5>4. Queued' = SizeSum(avrPool, QueuedSlots \ {current'})
          BY <2>1, <5>1 DEF Queued
        <5>5. Queued = InWork' + Queued'
          BY <5>2, <5>3, <5>4 DEF Queued
        <5> QED
          BY <1>1, <5>5 DEF SummandTypes
      <4> QED
        BY <4>4, <4>5
    <3> QED
      BY <3>1, <3>2
  <2> QED
    BY <1>1, <1>2, <2>1, <2>2, <2>3 DEF Account, SummandTypes
<1>9. CASE \E answer \in Answers : Handle(answer)
  <2>1. PICK answer \in Answers : Handle(answer)
    BY <1>9
  <2>2. /\ UNCHANGED <<rest, rx, unacked, msgType, msgLen, bufferIndex, avrPool, queue, current, acks>>
        /\ pc = "handle" /\ pc' = (IF answer THEN "ack" ELSE "free")
        /\ lost' = IF answer THEN lost ELSE lost + avrPool[current] + 2
    BY <2>1 DEF Handle, AfterHandle, rxVars, poolVars
  <2>3. OnLine' = OnLine /\ Parsed' = Parsed /\ Queued' = Queued /\ Acked' = Acked
    BY <2>2 DEF OnLine, Parsed, Queued, QueuedSlots, Acked
  <2>4. InWork = avrPool[current] + 2 /\ InWork' = (IF answer THEN avrPool[current] + 2 ELSE 0)
    BY <2>2 DEF InWork
  <2>5. PICK a \in Nat : a = avrPool[current]
    BY <1>3
  <2>6. /\ OnLine \in Nat /\ Parsed \in Nat /\ Queued \in Nat /\ Acked \in Nat /\ lost \in Nat
        /\ InWork' \in Nat /\ lost' \in Nat
    BY <1>1 DEF SummandTypes
  <2>7. InWork = a + 2 /\ InWork' + lost' = (a + 2) + lost
    <3>1. CASE answer
      <4>1. InWork' = a + 2 /\ lost' = lost
        BY <2>2, <2>4, <2>5, <3>1
      <4> QED
        BY <2>4, <2>5, <4>1
    <3>2. CASE ~answer
      <4>1. InWork' = 0 /\ lost' = lost + avrPool[current] + 2
        BY <2>2, <2>4, <3>2
      <4>2. lost' = lost + a + 2
        BY <2>5, <4>1
      <4> QED
        BY <2>4, <2>5, <2>6, <4>1, <4>2
    <3> QED
      BY <3>1, <3>2
  <2>8. unacked = ((((OnLine + Parsed) + Queued) + InWork') + Acked) + lost'
    BY <1>2, <2>5, <2>6, <2>7
  <2> QED
    BY <2>2, <2>3, <2>8 DEF Account
<1>10. CASE Ack
  <2>1. /\ UNCHANGED <<rest, rx, unacked, msgType, msgLen, bufferIndex, avrPool, queue, current, lost>>
        /\ pc = "ack" /\ pc' = "free" /\ acks' = Append(acks, AckedBytes)
    BY <1>10 DEF Ack, rxVars, poolVars
  <2>2. AckedBytes = avrPool[current] + 2
    <3>1. avrPool[current] \in 0..14
      BY DEF Rough
    <3> QED
      BY <3>1 DEF AckedBytes
  <2>3. OnLine' = OnLine /\ Parsed' = Parsed /\ Queued' = Queued /\ lost' = lost
    BY <2>1 DEF OnLine, Parsed, Queued, QueuedSlots
  <2>4. InWork = avrPool[current] + 2 /\ InWork' = 0
    BY <2>1 DEF InWork
  <2>5. Acked' = Acked + (avrPool[current] + 2)
    <3>1. AckedBytes \in Nat
      BY <1>3, <2>2
    <3>2. SumFunction(Append(acks, AckedBytes)) = SumFunction(acks) + AckedBytes
      BY <1>1, <3>1, SumOfAppend DEF SummandTypes
    <3> QED
      BY <2>1, <2>2, <3>2 DEF Acked
  <2> QED
    BY <1>1, <1>2, <1>3, <2>1, <2>3, <2>4, <2>5 DEF Account, SummandTypes
<1>11. CASE Free
  <2>1. /\ UNCHANGED <<rest, rx, unacked, msgType, msgLen, bufferIndex, avrPool, queue, acks, lost>>
        /\ pc = "free" /\ pc' = "drain"
    BY <1>11 DEF Free, rxVars
  <2>2. /\ OnLine' = OnLine /\ Parsed' = Parsed /\ Queued' = Queued
        /\ InWork' = InWork /\ Acked' = Acked /\ lost' = lost
    BY <2>1 DEF OnLine, Parsed, Queued, QueuedSlots, InWork, Acked
  <2> QED
    BY <1>2, <2>1, <2>2 DEF Account
<1>12. CASE DrainByte
  <2>1. /\ UNCHANGED <<rest, unacked, avrIndex, poolIn, pc, current, acks>>
        /\ pc = "drain" /\ rx # <<>> /\ rx' = Tail(rx)
    BY <1>12 DEF DrainByte
  <2>2. OnLine = OnLine' + 1
    <3>1. Len(rx') = Len(rx) - 1 /\ rest' = rest
      BY <2>1, HeadTailProperties DEF Rough
    <3> QED
      BY <1>1, <3>1 DEF OnLine, SummandTypes
  <2>3. InWork' = InWork /\ Acked' = Acked
    BY <2>1 DEF InWork, Acked
  <2>4. \/ /\ Parsed' = Parsed + 1
           /\ UNCHANGED <<avrPool, poolOut, queue, lost, leaked>>
        \/ /\ Parsed' = 0
           /\ \E length \in Lengths : length + 2 = Parsed + 1 /\ ProcessMessage(length)
    BY <1>12, ParserStep
  <2>5. CASE Parsed' = Parsed + 1 /\ UNCHANGED <<avrPool, poolOut, queue, lost, leaked>>
    <3>1. Queued' = Queued /\ lost' = lost
      BY <2>5 DEF Queued, QueuedSlots
    <3> QED
      BY <1>1, <1>2, <2>1, <2>2, <2>3, <2>5, <3>1 DEF Account, SummandTypes
  <2>6. CASE Parsed' = 0 /\ \E length \in Lengths : length + 2 = Parsed + 1 /\ ProcessMessage(length)
    <3>1. PICK length \in Lengths : length + 2 = Parsed + 1 /\ ProcessMessage(length)
      BY <2>6
    <3>2. Queued' + lost' = (Queued + lost) + (length + 2)
      BY <2>1, <3>1, PacketIsProcessed DEF Queued
    <3>3. /\ Parsed \in Nat /\ Queued \in Nat /\ InWork \in Nat /\ Acked \in Nat /\ lost \in Nat
          /\ OnLine' \in Nat /\ Queued' \in Nat /\ lost' \in Nat
      BY <1>1 DEF SummandTypes
    <3>4. Queued' + lost' = (Queued + lost) + (Parsed + 1)
      BY <3>1, <3>2
    <3>5. unacked = ((((OnLine' + 0) + Queued') + InWork) + Acked) + lost'
      <4>1. PICK o \in Nat, q \in Nat, l \in Nat : o = OnLine' /\ q = Queued' /\ l = lost'
        BY <3>3
      <4>2. unacked = ((((o + 1 + Parsed) + Queued) + InWork) + Acked) + lost
        BY <1>2, <2>2, <4>1
      <4>3. q + l = (Queued + lost) + (Parsed + 1)
        BY <3>4, <4>1
      <4>4. unacked = ((((o + 0) + q) + InWork) + Acked) + l
        BY <3>3, <4>2, <4>3
      <4> QED
        BY <4>1, <4>4
    <3> QED
      BY <2>1, <2>3, <2>6, <3>5 DEF Account
  <2> QED
    BY <2>4, <2>5, <2>6
<1>13. CASE DrainEnds
  <2>1. /\ UNCHANGED <<rest, rx, unacked, msgType, msgLen, bufferIndex, avrPool, queue, current, acks, lost>>
        /\ pc = "drain" /\ pc' = "dispatch"
    BY <1>13 DEF DrainEnds, rxVars, poolVars
  <2>2. /\ OnLine' = OnLine /\ Parsed' = Parsed /\ Queued' = Queued
        /\ InWork' = InWork /\ Acked' = Acked /\ lost' = lost
    BY <2>1 DEF OnLine, Parsed, Queued, QueuedSlots, InWork, Acked
  <2> QED
    BY <1>2, <2>1, <2>2 DEF Account
<1>14. CASE UNCHANGED vars
  <2>1. UNCHANGED <<rest, rx, unacked, msgType, msgLen, bufferIndex, avrPool, queue, pc, current, acks, lost>>
    BY <1>14 DEF vars, rxVars, poolVars
  <2>2. /\ OnLine' = OnLine /\ Parsed' = Parsed /\ Queued' = Queued
        /\ InWork' = InWork /\ Acked' = Acked /\ lost' = lost
    BY <2>1 DEF OnLine, Parsed, Queued, QueuedSlots, InWork, Acked
  <2> QED
    BY <1>2, <2>1, <2>2 DEF Account
<1> QED
  BY <1>4, <1>5, <1>6, <1>7, <1>8, <1>9, <1>10, <1>11, <1>12, <1>13, <1>14 DEF Next, MainLoop


-----------------------------------------------------------------------------

(* The inductive invariant.                                                 *)
IInv ==
  /\ Rough
  /\ Framed(Line)
  /\ InStep
  /\ SlotsSplit
  /\ Account

(* What the flow control makes of the account: there is space in the ring   *)
(* for all that comes, and no more is lost than the ring holds.             *)
LEMMA CreditBounds ==
  ASSUME Rough, Account
  PROVE  /\ RingHasSpace
         /\ Len(rest) < RxSize /\ Len(rx) < RxSize
         /\ unacked \in 0..(RxSize-1) /\ lost \in 0..(RxSize-1)
<1>1. /\ OnLine \in Nat /\ Parsed \in Nat /\ Queued \in Nat /\ InWork \in Nat /\ Acked \in Nat
      /\ lost \in Nat /\ Len(rest) \in Nat /\ Len(rx) \in Nat
  BY CreditSums DEF CreditIsSum, SummandTypes
<1>2. RxSize \in Int /\ unacked \in Int /\ unacked <= RxSize - 1
  BY SizesAssumption DEF Rough
<1>3. unacked = ((((OnLine + Parsed) + Queued) + InWork) + Acked) + lost
  BY DEF Account
<1>4. /\ 0 <= unacked /\ lost <= RxSize - 1 /\ OnLine <= RxSize - 1
  BY <1>1, <1>2, <1>3
<1>5. Len(rest) + Len(rx) <= RxSize - 1
  BY <1>4 DEF OnLine
<1> QED
  BY <1>1, <1>2, <1>4, <1>5 DEF RingHasSpace

(* The types.                                                               *)
LEMMA TypesHold ==
  ASSUME Rough, Account
  PROVE  TypeOK
<1>1. /\ Len(rest) < RxSize /\ Len(rx) < RxSize
      /\ unacked \in 0..(RxSize-1) /\ lost \in 0..(RxSize-1)
  BY CreditBounds
<1> QED
  BY <1>1 DEF Rough, TypeOK, Byte

(* HandleMessage waits for the byte that comes.                             *)
LEMMA NextByteFits ==
  ASSUME Rough, InStep
  PROVE  ParserIsInStep
<1>1. Line \in Seq(Byte) /\ Len(Line) \in Nat /\ (Line = <<>> <=> Len(Line) = 0)
  <2>1. Line \in Seq(Byte)
    BY ConcatProperties DEF Rough, Line
  <2> QED
    BY <2>1, LenProperties, EmptySeq
<1>2. Line # <<>> => Head(Line) = Line[1] /\ 1 \in 1..Len(Line)
  BY <1>1
<1>3. msgLen \in 0..14 /\ bufferIndex \in 0..14
  BY DEF Rough
<1>4. CASE msgType = 0
  BY <1>1, <1>2, <1>4 DEF ParserIsInStep, InStep, Parsed, Line
<1>5. CASE msgType # 0 /\ msgLen = 0
  BY <1>1, <1>2, <1>5 DEF ParserIsInStep, InStep, Parsed, Line
<1>6. CASE msgType # 0 /\ msgLen # 0
  <2>1. bufferIndex < msgLen /\ Follows(Line, 0, bufferIndex + 2, msgLen)
    BY <1>6 DEF InStep
  <2>2. Len(Line) # 0
    <3>1. 0 + ((msgLen + 2) - (bufferIndex + 2)) <= Len(Line)
      BY <2>1 DEF Follows
    <3> QED
      BY <1>1, <1>3, <2>1, <3>1
  <2>3. Line[1].at = (bufferIndex + 2) + (1 - 0)
    BY <1>1, <1>2, <1>3, <2>1, <2>2 DEF Follows
  <2>4. Head(Line).at = Parsed + 1
    BY <1>1, <1>2, <1>3, <1>6, <2>2, <2>3 DEF Parsed
  <2> QED
    BY <1>1, <2>2, <2>4 DEF ParserIsInStep, Line
<1> QED
  BY <1>4, <1>5, <1>6

(* Places that share no slot have together as many as their union.          *)
LEMMA SlotsAddUp ==
  ASSUME Rough, SlotsSplit
  PROVE  SlotsAreAccounted
<1> DEFINE Last == FreeSlots \cup QueuedSlots
           Work == SlotsInHand \cup leaked
<1>0. Cardinality({}) = 0
  BY FS_EmptySet
<1>1. Split(FreeSlots, QueuedSlots, SlotsInHand, leaked)
  BY DEF SlotsSplit
<1>2. FreeSlots \cup QueuedSlots \cup SlotsInHand \cup leaked = 0..(PoolSize-2)
  BY <1>1 DEF Split
<1>3. PoolSize - 2 \in Int /\ PoolSize \in Nat /\ PoolSize >= 1 /\ 0..(PoolSize-2) \subseteq Slots
  BY SizesAssumption DEF Slots
<1>4. /\ FreeSlots \subseteq Slots /\ QueuedSlots \subseteq Slots
      /\ SlotsInHand \subseteq Slots /\ leaked \subseteq Slots
  BY <1>2, <1>3
<1>5. /\ IsFiniteSet(FreeSlots) /\ Cardinality(FreeSlots) \in Nat
      /\ IsFiniteSet(QueuedSlots) /\ Cardinality(QueuedSlots) \in Nat
      /\ IsFiniteSet(SlotsInHand) /\ Cardinality(SlotsInHand) \in Nat
      /\ IsFiniteSet(leaked) /\ Cardinality(leaked) \in Nat
  BY <1>4, SlotsAreFinite
<1>6. IsFiniteSet(Last) /\ Cardinality(Last) = Cardinality(FreeSlots) + Cardinality(QueuedSlots)
  <2>1. FreeSlots \cap QueuedSlots = {}
    BY <1>1 DEF Split
  <2>2. /\ IsFiniteSet(FreeSlots \cup QueuedSlots)
        /\ Cardinality(FreeSlots \cup QueuedSlots)
             = Cardinality(FreeSlots) + Cardinality(QueuedSlots) - Cardinality({})
    BY <1>5, <2>1, FS_Union
  <2> QED
    BY <1>0, <1>5, <2>2
<1>7. IsFiniteSet(Work) /\ Cardinality(Work) = Cardinality(SlotsInHand) + Cardinality(leaked)
  <2>1. SlotsInHand \cap leaked = {}
    BY <1>1 DEF Split
  <2>2. /\ IsFiniteSet(SlotsInHand \cup leaked)
        /\ Cardinality(SlotsInHand \cup leaked)
             = Cardinality(SlotsInHand) + Cardinality(leaked) - Cardinality({})
    BY <1>5, <2>1, FS_Union
  <2> QED
    BY <1>0, <1>5, <2>2
<1>8. Last \cap Work = {} /\ Last \cup Work = 0..(PoolSize-2)
  BY <1>1 DEF Split
<1> HIDE DEF Last, Work
<1>9. Cardinality(0..(PoolSize-2)) = Cardinality(Last) + Cardinality(Work)
  <2>1. Cardinality(Last \cup Work) = Cardinality(Last) + Cardinality(Work) - Cardinality(Last \cap Work)
    BY <1>6, <1>7, FS_Union
  <2>2. Cardinality(0..(PoolSize-2)) = Cardinality(Last) + Cardinality(Work) - 0
    BY <1>0, <1>8, <2>1
  <2>3. Cardinality(Last) \in Nat /\ Cardinality(Work) \in Nat
    BY <1>6, <1>7, FS_CardinalityType
  <2> QED
    BY <2>2, <2>3
<1>10. Cardinality(0..(PoolSize-2)) = PoolSize - 1
  BY <1>3, FS_Interval
<1>11. Cardinality(FreeSlots) + Cardinality(QueuedSlots) + Cardinality(SlotsInHand)
         + Cardinality(leaked) = PoolSize - 1
  BY <1>5, <1>6, <1>7, <1>9, <1>10
<1> QED
  BY <1>2, <1>11 DEF SlotsAreAccounted, SlotsSplit, PositionsDiffer, Distinct

(* The invariant holds at the beginning.                                    *)
LEMMA Initially == Init => IInv
<1> SUFFICES ASSUME Init PROVE IInv
  OBVIOUS
<1>1. /\ rest = <<>> /\ unacked = 0 /\ rx = <<>>
      /\ msgType = 0 /\ msgLen = 0 /\ bufferIndex = 0
      /\ avrPool = [s \in Slots |-> 0] /\ avrIndex = [s \in Slots |-> s]
      /\ poolIn = PoolSize - 1 /\ poolOut = 0 /\ queue = <<>>
      /\ pc = "dispatch" /\ current = 0 /\ acks = <<>> /\ lost = 0 /\ leaked = {}
  BY DEF Init
<1>2. /\ RxSize \in 2..128 /\ PoolSize \in 1..128 /\ QueueSize \in Nat
      /\ 0 \in Slots /\ PoolSize - 1 \in Slots
  BY SizesAssumption DEF Slots
<1>3. Rough
  <2>1. /\ rest \in Seq(Byte) /\ rx \in Seq(Byte)
        /\ queue \in Seq(Order!Message) /\ Len(queue) = 0 /\ acks \in Seq(2..16)
    BY <1>1, EmptySeq
  <2> QED
    BY <1>1, <1>2, <2>1 DEF Rough
<1>4. Line = <<>> /\ Len(Line) = 0
  BY <1>1, EmptySeq, ConcatEmptySeq DEF Line
<1>5. Framed(Line)
  BY <1>4 DEF Framed
<1>6. InStep
  BY <1>1, <1>4 DEF InStep
<1>7. Len(queue) = 0 /\ 1..Len(queue) = {}
  BY <1>1, EmptySeq
<1>8. QueuedSlots = {}
  BY <1>7 DEF QueuedSlots
<1>9. SlotsSplit
  <2>1. Distinct(queue)
    BY <1>7 DEF Distinct
  <2>2. FreePositions = 0..(PoolSize-2)
    BY <1>1, <1>2 DEF FreePositions
  <2>3. PositionsDiffer /\ FreeSlots = 0..(PoolSize-2)
    BY <1>1, <1>2, <2>2 DEF PositionsDiffer, FreeSlots, Slots
  <2>4. SlotsInHand = {}
    BY <1>1 DEF SlotsInHand
  <2>5. Split(FreeSlots, QueuedSlots, SlotsInHand, leaked)
    BY <1>1, <1>8, <2>3, <2>4 DEF Split
  <2> QED
    BY <2>1, <2>3, <2>5 DEF SlotsSplit
<1>10. Account
  <2>1. OnLine = 0 /\ Parsed = 0 /\ InWork = 0
    BY <1>1, EmptySeq DEF OnLine, Parsed, InWork
  <2>2. Queued = 0
    <3>1. avrPool \in [Slots -> Nat] /\ {} \in SUBSET Slots
      BY <1>1
    <3>2. SizeSum(avrPool, {}) = 0
      BY <3>1, SizeSumType
    <3> QED
      BY <1>8, <3>2 DEF Queued
  <2>3. Acked = 0
    <3>1. acks \in Seq(Nat) /\ Len(acks) = 0
      BY <1>1, EmptySeq
    <3> QED
      BY <3>1, SumOfSequence DEF Acked
  <2> QED
    BY <1>1, <2>1, <2>2, <2>3 DEF Account
<1> QED
  BY <1>3, <1>5, <1>6, <1>9, <1>10 DEF IInv

(* And each step keeps it.                                                  *)
LEMMA Invariance == IInv /\ [Next]_vars => IInv'
<1> SUFFICES ASSUME IInv, [Next]_vars PROVE IInv'
  OBVIOUS
<1>1. Rough /\ Framed(Line) /\ InStep /\ SlotsSplit /\ Account
  BY DEF IInv
<1>2. RingHasSpace
  BY <1>1, CreditBounds
<1>3. Framed(Line') /\ InStep'
  BY <1>1, <1>2, StreamStep
<1>4. Rough' /\ SlotsSplit'
  BY <1>1, <1>2, SlotsStep
<1>5. Account'
  BY <1>1, <1>2, <1>4, AccountStep
<1> QED
  BY <1>3, <1>4, <1>5 DEF IInv, Framed

(* The program is always in such a state.                                   *)
LEMMA AlwaysIInv == Spec => []IInv
BY Initially, Invariance, PTL DEF Spec

-----------------------------------------------------------------------------

(* The variables have their types: no index leaves its array, no number of  *)
(* a slot is out of range, and no acknowledgement is empty or too long.     *)
THEOREM TypeCorrect == Spec => []TypeOK
<1>1. IInv => TypeOK
  BY TypesHold DEF IInv
<1> QED
  BY <1>1, AlwaysIInv, PTL

(* Each byte that the PC has not seen acknowledged is somewhere on its way, *)
(* or the board has dropped it: Usart_AckBytes, called by DispatchEvent,    *)
(* gives back exactly what the packets take.                                *)
THEOREM CreditAddsUp == Spec => []CreditIsAccounted
<1>1. IInv => CreditIsAccounted
  BY CreditSums DEF IInv, CreditIsSum
<1> QED
  BY <1>1, AlwaysIInv, PTL

(* The handler of "receive complete" finds space for each byte of a PC that *)
(* keeps to the flow control, whatever size the ring has.                   *)
THEOREM RingNeverOverruns == Spec => []RingHasSpace
<1>1. IInv => RingHasSpace
  BY CreditBounds DEF IInv
<1> QED
  BY <1>1, AlwaysIInv, PTL

(* HandleMessage never loses the beginnings of the packets.                 *)
THEOREM ParserStaysInStep == Spec => []ParserIsInStep
<1>1. IInv => ParserIsInStep
  BY NextByteFits DEF IInv
<1> QED
  BY <1>1, AlwaysIInv, PTL

(* No slot of the pool carries two packets, and none disappears but those   *)
(* that ProcessMessage leaks when the queue is full.                        *)
THEOREM NoSlotIsShared == Spec => []SlotsAreAccounted
<1>1. IInv => SlotsAreAccounted
  BY SlotsAddUp DEF IInv
<1> QED
  BY <1>1, AlwaysIInv, PTL


=============================================================================
