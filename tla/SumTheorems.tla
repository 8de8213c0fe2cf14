----------------------------- MODULE SumTheorems -----------------------------
(***************************************************************************)
(* Facts about SumFunctionOnSet of the community modules, for the proofs   *)
(* about the models that add over a map of the code: a sum does not depend *)
(* on the order of the walk, and what holds of the terms holds of the sum. *)
(* The sum is a recursive function; induction over finite sets is here the *)
(* well-foundedness of the strict subset relation.  Functions defined by   *)
(* recursion over the naturals and quotients are at the end: the models    *)
(* round down where the code divides reals.                                *)
(***************************************************************************)
EXTENDS Integers, FiniteSets, Functions, FiniteSetTheorems, WellFoundedInduction, TLAPS

(* A set of subsets of S that contains a set whenever it contains what is    *)
(* left of it after the removal of any one element contains them all.        *)
LEMMA SetInduction ==
  ASSUME NEW S, IsFiniteSet(S), NEW T,
         \A s \in SUBSET S : (\A x \in s : s \ {x} \in T) => s \in T
  PROVE  \A s \in SUBSET S : s \in T
<1>. DEFINE U == (SUBSET S) \ T
<1>1. SUFFICES ASSUME U # {} PROVE FALSE
  OBVIOUS
<1>2. U \subseteq FiniteSubsetsOf(S)
  BY FS_FiniteSubsetsOfFinite
<1>3. PICK s \in U : \A t \in U : <<t, s>> \notin StrictSubsetOrdering(S)
  <2>1. IsWellFoundedOn(StrictSubsetOrdering(S), FiniteSubsetsOf(S))
    BY FS_StrictSubsetOrderingWellFounded
  <2>. HIDE DEF U
  <2>. QED  BY <1>1, <1>2, <2>1, WFMin
<1>4. ASSUME NEW x \in s PROVE s \ {x} \in T
  <2>1. <<s \ {x}, s>> \in StrictSubsetOrdering(S)
    BY DEF StrictSubsetOrdering
  <2>. QED  BY <1>3, <2>1
<1>. QED  BY <1>3, <1>4

-----------------------------------------------------------------------------
Pick(s) == CHOOSE x \in s : TRUE

(* What the recursion of the sum makes of s, g being the sums of the smaller *)
(* sets.                                                                     *)
Step(f, g, s) == IF s = {} THEN 0 ELSE f[Pick(s)] + g[s \ {Pick(s)}]

IsSum(f, g, S) == g = [s \in SUBSET S |-> Step(f, g, s)]

(* The element the recursion takes out first.                                *)
LEMMA PickIn == ASSUME NEW s, s # {} PROVE Pick(s) \in s
  BY DEF Pick

LEMMA SumExists ==
  ASSUME NEW f, NEW S, IsFiniteSet(S)
  PROVE  \E g : IsSum(f, g, S)
<1>. DEFINE Upto(g, n) == \A t \in SUBSET S : Cardinality(t) <= n => g[t] = Step(f, g, t)
            T == {s \in SUBSET S : \E g : Upto(g, Cardinality(s))}
<1>1. \A t \in SUBSET S : IsFiniteSet(t) /\ Cardinality(t) \in Nat
  BY FS_Subset, FS_CardinalityType
<1>2. ASSUME NEW s \in SUBSET S, \A x \in s : s \ {x} \in T
      PROVE  s \in T
  <2>1. CASE s = {}
    <3>. DEFINE g == [t \in SUBSET S |-> 0]
    <3>1. ASSUME NEW t \in SUBSET S, Cardinality(t) <= 0 PROVE g[t] = Step(f, g, t)
      <4>1. t = {}
        BY <1>1, <3>1, FS_EmptySet
      <4>. QED  BY <4>1 DEF Step
    <3>2. Cardinality(s) = 0
      BY <2>1, FS_EmptySet
    <3>3. Upto(g, Cardinality(s))
      BY <3>1, <3>2
    <3>. QED  BY <3>3
  <2>2. CASE s # {}
    <3>1. PICK x \in s : TRUE
      BY <2>2
    <3>2. Cardinality(s \ {x}) = Cardinality(s) - 1
      BY <1>1, FS_RemoveElement
    <3>3. PICK g : Upto(g, Cardinality(s \ {x}))
      BY <1>2
    <3>. DEFINE h == [t \in SUBSET S |-> Step(f, g, t)]
    <3>4. ASSUME NEW t \in SUBSET S, Cardinality(t) <= Cardinality(s)
          PROVE  h[t] = Step(f, h, t)
      <4>1. CASE t = {}
        BY <4>1 DEF Step
      <4>2. CASE t # {}
        <5>. DEFINE r == t \ {Pick(t)}
        <5>1. Pick(t) \in t /\ r \in SUBSET S
          BY <4>2, PickIn
        <5>2. Cardinality(r) = Cardinality(t) - 1
          BY <1>1, <5>1, FS_RemoveElement
        <5>3. Cardinality(r) <= Cardinality(s \ {x})
          BY <1>1, <3>2, <3>4, <5>2
        <5>4. g[r] = Step(f, g, r)
          BY <3>3, <5>1, <5>3
        <5>5. h[r] = g[r]
          BY <5>1, <5>4
        <5>. QED  BY <4>2, <5>5 DEF Step
      <4>. QED  BY <4>1, <4>2
    <3>5. Upto(h, Cardinality(s))
      BY <3>4
    <3>. HIDE DEF h
    <3>. QED  BY <3>5
  <2>. QED  BY <2>1, <2>2
<1>3. S \in T
  <2>. HIDE DEF T
  <2>. QED  BY <1>2, SetInduction
<1>4. PICK g : Upto(g, Cardinality(S))
  BY <1>3
<1>. DEFINE h == [t \in SUBSET S |-> g[t]]
<1>5. ASSUME NEW t \in SUBSET S PROVE h[t] = Step(f, h, t)
  <2>1. Cardinality(t) <= Cardinality(S)
    BY FS_Subset
  <2>2. g[t] = Step(f, g, t)
    BY <1>4, <2>1
  <2>. QED  BY <2>2, PickIn DEF Step
<1>6. h = [t \in SUBSET S |-> Step(f, h, t)]
  BY <1>5
<1>. QED  BY <1>6 DEF IsSum

(* Two such functions agree where both are defined.                          *)
LEMMA SumsAgree ==
  ASSUME NEW f, NEW S, NEW R \in SUBSET S, IsFiniteSet(R), NEW g, IsSum(f, g, S), NEW h, IsSum(f, h, R)
  PROVE  \A t \in SUBSET R : g[t] = h[t]
<1>. DEFINE T == {t \in SUBSET R : g[t] = h[t]}
<1>1. ASSUME NEW s \in SUBSET R, \A x \in s : s \ {x} \in T
      PROVE  s \in T
  <2>1. g[s] = Step(f, g, s) /\ h[s] = Step(f, h, s)
    BY DEF IsSum
  <2>. QED  BY <1>1, <2>1, PickIn DEF Step
<1>2. \A s \in SUBSET R : s \in T
  <2>. HIDE DEF T
  <2>. QED  BY <1>1, SetInduction
<1>. QED  BY <1>2

(* SumFunctionOnSet is such a function.                                      *)
LEMMA SumIs ==
  ASSUME NEW f, NEW S, IsFiniteSet(S)
  PROVE  \E g : IsSum(f, g, S) /\ SumFunctionOnSet(f, S) = g[S]
<1>. DEFINE g == CHOOSE h : IsSum(f, h, S)
<1>1. SumFunctionOnSet(f, S) = g[S]
  BY Zenon DEF SumFunctionOnSet, FoldFunctionOnSet, MapThenFoldSet, Pick, IsSum, Step
<1>2. IsSum(f, g, S)
  BY SumExists
<1>. QED  BY <1>1, <1>2

(* An empty sum.                                                             *)
LEMMA SumEmpty == ASSUME NEW f PROVE SumFunctionOnSet(f, {}) = 0
<1>1. PICK g : IsSum(f, g, {}) /\ SumFunctionOnSet(f, {}) = g[{}]
  BY SumIs, FS_EmptySet
<1>. QED  BY <1>1 DEF IsSum, Step

(* One step of the recursion.                                                *)
LEMMA SumPick ==
  ASSUME NEW f, NEW S, IsFiniteSet(S), S # {}
  PROVE  SumFunctionOnSet(f, S) = f[Pick(S)] + SumFunctionOnSet(f, S \ {Pick(S)})
<1>. DEFINE R == S \ {Pick(S)}
<1>1. IsFiniteSet(R) /\ R \in SUBSET S
  BY FS_RemoveElement
<1>2. PICK g : IsSum(f, g, S) /\ SumFunctionOnSet(f, S) = g[S]
  BY SumIs
<1>3. PICK h : IsSum(f, h, R) /\ SumFunctionOnSet(f, R) = h[R]
  BY <1>1, SumIs
<1>4. g[R] = h[R]
  <2>. HIDE DEF R
  <2>. QED  BY <1>1, <1>2, <1>3, SumsAgree
<1>5. g[S] = f[Pick(S)] + g[R]
  BY <1>2 DEF IsSum, Step
<1>. QED  BY <1>2, <1>3, <1>4, <1>5

-----------------------------------------------------------------------------
(* The facts to cite.                                                      *)

(* What holds of the sums of the smaller sets carries over to larger ones:   *)
(* sums of integers are integers.                                            *)
LEMMA SumInt ==
  ASSUME NEW f, NEW S, IsFiniteSet(S), \A x \in S : f[x] \in Int
  PROVE  \A s \in SUBSET S : SumFunctionOnSet(f, s) \in Int
<1>. DEFINE T == {s \in SUBSET S : SumFunctionOnSet(f, s) \in Int}
<1>1. ASSUME NEW s \in SUBSET S, \A x \in s : s \ {x} \in T
      PROVE  s \in T
  <2>1. CASE s = {}
    BY <2>1, SumEmpty
  <2>2. CASE s # {}
    <3>1. Pick(s) \in s /\ IsFiniteSet(s)
      BY <2>2, PickIn, FS_Subset
    <3>2. SumFunctionOnSet(f, s) = f[Pick(s)] + SumFunctionOnSet(f, s \ {Pick(s)})
      BY <2>2, <3>1, SumPick
    <3>. QED  BY <1>1, <3>1, <3>2
  <2>. QED  BY <2>1, <2>2
<1>2. \A s \in SUBSET S : s \in T
  <2>. HIDE DEF T
  <2>. QED  BY <1>1, SetInduction
<1>. QED  BY <1>2

(* Any term may be taken out of a sum first: the order does not matter.      *)
LEMMA SumAny ==
  ASSUME NEW f, NEW S, IsFiniteSet(S), \A x \in S : f[x] \in Int
  PROVE  \A s \in SUBSET S : \A x \in s :
           SumFunctionOnSet(f, s) = f[x] + SumFunctionOnSet(f, s \ {x})
<1>. DEFINE Sum(s) == SumFunctionOnSet(f, s)
            T == {s \in SUBSET S : \A x \in s : Sum(s) = f[x] + Sum(s \ {x})}
<1>1. ASSUME NEW s \in SUBSET S, \A x \in s : s \ {x} \in T
      PROVE  s \in T
  <2>. SUFFICES ASSUME NEW x \in s PROVE Sum(s) = f[x] + Sum(s \ {x})
    OBVIOUS
  <2>. DEFINE p == Pick(s)
  <2>1. p \in s /\ IsFiniteSet(s)
    BY PickIn, FS_Subset
  <2>2. Sum(s) = f[p] + Sum(s \ {p})
    BY <2>1, SumPick
  <2>3. CASE x = p
    BY <2>2, <2>3
  <2>4. CASE x # p
    <3>1. Sum(s \ {p}) = f[x] + Sum((s \ {p}) \ {x})
      <4>1. s \ {p} \in T /\ x \in s \ {p}
        BY <1>1, <2>1, <2>4
      <4>. QED  BY <4>1
    <3>2. Sum(s \ {x}) = f[p] + Sum((s \ {x}) \ {p})
      <4>1. s \ {x} \in T /\ p \in s \ {x}
        BY <1>1, <2>1, <2>4
      <4>. QED  BY <4>1
    <3>3. (s \ {p}) \ {x} = (s \ {x}) \ {p}
      OBVIOUS
    <3>4. f[x] \in Int /\ f[p] \in Int /\ Sum((s \ {x}) \ {p}) \in Int
      BY <2>1, SumInt
    <3>5. Sum(s) = f[p] + (f[x] + Sum((s \ {x}) \ {p}))
      BY <2>2, <3>1, <3>3
    <3>. HIDE DEF Sum, p
    <3>. QED  BY <3>2, <3>4, <3>5
  <2>. QED  BY <2>3, <2>4
<1>2. \A s \in SUBSET S : s \in T
  <2>. HIDE DEF T
  <2>. QED  BY <1>1, SetInduction
<1>. QED  BY <1>2

(* A bound of the terms by c times others bounds the sum.                    *)
LEMMA SumCompare ==
  ASSUME NEW f, NEW g, NEW S, IsFiniteSet(S), NEW c \in Int,
         \A x \in S : f[x] \in Int /\ g[x] \in Int /\ f[x] <= c * g[x]
  PROVE  SumFunctionOnSet(f, S) <= c * SumFunctionOnSet(g, S)
<1>. DEFINE F(s) == SumFunctionOnSet(f, s)
            G(s) == SumFunctionOnSet(g, s)
            T == {s \in SUBSET S : F(s) <= c * G(s)}
<1>1. ASSUME NEW s \in SUBSET S, \A x \in s : s \ {x} \in T
      PROVE  s \in T
  <2>1. CASE s = {}
    BY <2>1, SumEmpty
  <2>2. CASE s # {}
    <3>. DEFINE p == Pick(s)
                r == s \ {p}
    <3>1. p \in s /\ IsFiniteSet(s) /\ r \in SUBSET S
      BY <2>2, PickIn, FS_Subset
    <3>2. F(s) = f[p] + F(r) /\ G(s) = g[p] + G(r)
      BY <2>2, <3>1, SumPick
    <3>3. f[p] \in Int /\ g[p] \in Int /\ F(r) \in Int /\ G(r) \in Int
      BY <3>1, SumInt
    <3>4. f[p] <= c * g[p] /\ F(r) <= c * G(r)
      BY <1>1, <3>1
    <3>5. c * (g[p] + G(r)) = c * g[p] + c * G(r) /\ c * g[p] \in Int /\ c * G(r) \in Int
      BY <3>3
    <3>6. F(s) <= c * G(s)
      <4>. HIDE DEF F, G, p, r
      <4>. QED  BY <3>2, <3>3, <3>4, <3>5
    <3>. QED  BY <3>6
  <2>. QED  BY <2>1, <2>2
<1>2. \A s \in SUBSET S : s \in T
  <2>. HIDE DEF T
  <2>. QED  BY <1>1, SetInduction
<1>. QED  BY <1>2

(* Where one term is higher, the sum is.                                     *)
LEMMA SumStrict ==
  ASSUME NEW f, NEW g, NEW S, IsFiniteSet(S),
         \A x \in S : f[x] \in Int /\ g[x] \in Int /\ f[x] <= g[x],
         NEW y \in S, f[y] < g[y]
  PROVE  SumFunctionOnSet(f, S) < SumFunctionOnSet(g, S)
<1>. DEFINE R == S \ {y}
<1>1. R \in SUBSET S /\ IsFiniteSet(R)
  BY FS_Subset
<1>2. SumFunctionOnSet(f, S) = f[y] + SumFunctionOnSet(f, R)
  BY SumAny
<1>3. SumFunctionOnSet(g, S) = g[y] + SumFunctionOnSet(g, R)
  BY SumAny
<1>4. SumFunctionOnSet(f, R) \in Int /\ SumFunctionOnSet(g, R) \in Int
  BY <1>1, SumInt
<1>5. SumFunctionOnSet(f, R) <= 1 * SumFunctionOnSet(g, R)
  <2>1. \A x \in R : f[x] \in Int /\ g[x] \in Int /\ f[x] <= 1 * g[x]
    OBVIOUS
  <2>. HIDE DEF R
  <2>. QED  BY <1>1, <2>1, SumCompare
<1>. QED  BY <1>2, <1>3, <1>4, <1>5

(* As many terms, none above c.                                              *)
LEMMA SumBound ==
  ASSUME NEW f, NEW S, IsFiniteSet(S), NEW c \in Nat, \A x \in S : f[x] \in Int /\ f[x] <= c
  PROVE  SumFunctionOnSet(f, S) <= c * Cardinality(S)
<1>. DEFINE T == {s \in SUBSET S : SumFunctionOnSet(f, s) <= c * Cardinality(s)}
<1>1. ASSUME NEW s \in SUBSET S, \A x \in s : s \ {x} \in T
      PROVE  s \in T
  <2>1. IsFiniteSet(s) /\ Cardinality(s) \in Nat
    BY FS_Subset, FS_CardinalityType
  <2>2. CASE s = {}
    BY <2>2, SumEmpty, FS_EmptySet
  <2>3. CASE s # {}
    <3>1. PICK x \in s : TRUE
      BY <2>3
    <3>2. SumFunctionOnSet(f, s) = f[x] + SumFunctionOnSet(f, s \ {x})
      BY SumAny
    <3>3. /\ IsFiniteSet(s \ {x}) /\ Cardinality(s \ {x}) = Cardinality(s) - 1
          /\ SumFunctionOnSet(f, s \ {x}) \in Int
      BY <2>1, FS_RemoveElement, SumInt
    <3>4. SumFunctionOnSet(f, s \ {x}) <= c * Cardinality(s \ {x})
      BY <1>1
    <3>5. c * (Cardinality(s) - 1) = c * Cardinality(s) - c /\ c * Cardinality(s) \in Int
      BY <2>1
    <3>6. f[x] <= c /\ f[x] \in Int
      OBVIOUS
    <3>. QED  BY <2>1, <3>2, <3>3, <3>4, <3>5, <3>6
  <2>. QED  BY <2>2, <2>3
<1>2. \A s \in SUBSET S : s \in T
  <2>. HIDE DEF T
  <2>. QED  BY <1>1, SetInduction
<1>. QED  BY <1>2

(* A sum of naturals is a natural, and zero only without positive terms.     *)
LEMMA SumNat ==
  ASSUME NEW f, NEW S, IsFiniteSet(S), \A x \in S : f[x] \in Nat
  PROVE  /\ SumFunctionOnSet(f, S) \in Nat
         /\ \A x \in S : f[x] <= SumFunctionOnSet(f, S)
<1>. DEFINE T == {s \in SUBSET S : SumFunctionOnSet(f, s) \in Nat}
<1>1. ASSUME NEW s \in SUBSET S, \A x \in s : s \ {x} \in T
      PROVE  s \in T
  <2>1. CASE s = {}
    BY <2>1, SumEmpty
  <2>2. CASE s # {}
    <3>1. Pick(s) \in s /\ IsFiniteSet(s)
      BY <2>2, PickIn, FS_Subset
    <3>2. SumFunctionOnSet(f, s) = f[Pick(s)] + SumFunctionOnSet(f, s \ {Pick(s)})
      BY <2>2, <3>1, SumPick
    <3>. QED  BY <1>1, <3>1, <3>2
  <2>. QED  BY <2>1, <2>2
<1>2. \A s \in SUBSET S : s \in T
  <2>. HIDE DEF T
  <2>. QED  BY <1>1, SetInduction
<1>3. ASSUME NEW x \in S PROVE f[x] <= SumFunctionOnSet(f, S)
  <2>1. SumFunctionOnSet(f, S) = f[x] + SumFunctionOnSet(f, S \ {x})
    BY SumAny
  <2>2. SumFunctionOnSet(f, S \ {x}) \in Nat
    BY <1>2
  <2>. QED  BY <2>1, <2>2
<1>. QED  BY <1>2, <1>3

-----------------------------------------------------------------------------
(* Sums over a sequence.                                                   *)

(* A set of naturals that contains 0 and successors contains them all.       *)
LEMMA NatSetInduction ==
  ASSUME NEW T, 0 \in T, \A n \in Nat : n \in T => n + 1 \in T
  PROVE  Nat \subseteq T
<1>. SUFFICES ASSUME NEW m \in Nat PROVE m \in T
  OBVIOUS
<1>. DEFINE R == {s \in SUBSET (1 .. m) : Cardinality(s) \in T}
<1>1. IsFiniteSet(1 .. m) /\ Cardinality(1 .. m) = m
  BY FS_Interval
<1>2. ASSUME NEW s \in SUBSET (1 .. m), \A x \in s : s \ {x} \in R
      PROVE  s \in R
  <2>0. IsFiniteSet(s)
    BY <1>1, FS_Subset
  <2>1. CASE s = {}
    BY <2>1, FS_EmptySet
  <2>2. CASE s # {}
    <3>1. PICK x \in s : TRUE
      BY <2>2
    <3>2. Cardinality(s) \in Nat /\ Cardinality(s \ {x}) = Cardinality(s) - 1
      BY <2>0, <3>1, FS_RemoveElement, FS_CardinalityType
    <3>3. Cardinality(s \ {x}) \in Nat
      BY <2>0, FS_RemoveElement, FS_CardinalityType
    <3>4. Cardinality(s \ {x}) + 1 \in T
      BY <1>2, <3>1, <3>3
    <3>. QED  BY <3>2, <3>4
  <2>. QED  BY <2>1, <2>2
<1>3. \A s \in SUBSET (1 .. m) : s \in R
  <2>. HIDE DEF R
  <2>. QED  BY <1>1, <1>2, SetInduction
<1>4. 1 .. m \in R
  BY <1>3
<1>. QED  BY <1>1, <1>4

(* The last term of an interval taken out of its sum.                        *)
LEMMA SumLast ==
  ASSUME NEW n \in Nat, NEW f, \A i \in 1 .. n + 1 : f[i] \in Int
  PROVE  SumFunctionOnSet(f, 1 .. n + 1) = SumFunctionOnSet(f, 1 .. n) + f[n + 1]
<1>1. IsFiniteSet(1 .. n + 1) /\ n + 1 \in 1 .. n + 1 /\ (1 .. n + 1) \ {n + 1} = 1 .. n
  BY FS_Interval
<1>2. SumFunctionOnSet(f, 1 .. n + 1) = f[n + 1] + SumFunctionOnSet(f, 1 .. n)
  BY <1>1, SumAny
<1>3. SumFunctionOnSet(f, 1 .. n) \in Int
  <2>1. 1 .. n \in SUBSET (1 .. n + 1)
    OBVIOUS
  <2>. QED  BY <1>1, <2>1, SumInt
<1>. QED  BY <1>1, <1>2, <1>3

(* Functions that agree on S have the same sum over it.                      *)
LEMMA SumSame ==
  ASSUME NEW f, NEW g, NEW S, IsFiniteSet(S), \A x \in S : f[x] \in Int /\ f[x] = g[x]
  PROVE  SumFunctionOnSet(f, S) = SumFunctionOnSet(g, S)
<1>1. SumFunctionOnSet(f, S) <= 1 * SumFunctionOnSet(g, S)
  <2>1. \A x \in S : f[x] \in Int /\ g[x] \in Int /\ f[x] <= 1 * g[x]
    OBVIOUS
  <2>. QED  BY <2>1, SumCompare
<1>2. SumFunctionOnSet(g, S) <= 1 * SumFunctionOnSet(f, S)
  <2>1. \A x \in S : f[x] \in Int /\ g[x] \in Int /\ g[x] <= 1 * f[x]
    OBVIOUS
  <2>. QED  BY <2>1, SumCompare
<1>3. SumFunctionOnSet(f, S) \in Int /\ SumFunctionOnSet(g, S) \in Int
  BY SumInt
<1>. QED  BY <1>1, <1>2, <1>3

(* The first term taken out, the others moved down by one.                   *)
LEMMA SumFirst ==
  ASSUME NEW n \in Nat, NEW f, NEW g, \A i \in 1 .. n + 1 : f[i] \in Int,
         \A i \in 1 .. n : g[i] = f[i + 1]
  PROVE  SumFunctionOnSet(f, 1 .. n + 1) = f[1] + SumFunctionOnSet(g, 1 .. n)
<1>. DEFINE F(k) == SumFunctionOnSet(f, 1 .. k)
            G(k) == SumFunctionOnSet(g, 1 .. k)
            T == {k \in Nat : k <= n => F(k + 1) = f[1] + G(k)}
<1>1. 0 \in T
  <2>0. \A i \in 1 .. 0 + 1 : f[i] \in Int
    OBVIOUS
  <2>1. F(0 + 1) = F(0) + f[0 + 1]
    BY <2>0, SumLast
  <2>2. 1 .. 0 = {}
    OBVIOUS
  <2>. QED  BY <2>1, <2>2, SumEmpty
<1>2. ASSUME NEW k \in Nat, k \in T PROVE k + 1 \in T
  <2>. SUFFICES ASSUME k + 1 <= n PROVE F(k + 1 + 1) = f[1] + G(k + 1)
    OBVIOUS
  <2>1. \A i \in 1 .. k + 1 + 1 : f[i] \in Int
    OBVIOUS
  <2>2. \A i \in 1 .. k + 1 : g[i] \in Int
    <3>1. ASSUME NEW i \in 1 .. k + 1 PROVE g[i] = f[i + 1] /\ i + 1 \in 1 .. n + 1
      OBVIOUS
    <3>. QED  BY <3>1
  <2>3. F(k + 1 + 1) = F(k + 1) + f[k + 1 + 1]
    BY <2>1, SumLast
  <2>4. G(k + 1) = G(k) + g[k + 1]
    BY <2>2, SumLast
  <2>5. F(k + 1) = f[1] + G(k)
    BY <1>2
  <2>6. g[k + 1] = f[k + 1 + 1]
    OBVIOUS
  <2>7. f[1] \in Int /\ G(k) \in Int /\ g[k + 1] \in Int
    <3>1. IsFiniteSet(1 .. k) /\ \A i \in 1 .. k : g[i] \in Int
      BY <2>2, FS_Interval
    <3>. QED  BY <2>2, <3>1, SumInt
  <2>. HIDE DEF F, G
  <2>. QED  BY <2>3, <2>4, <2>5, <2>6, <2>7
<1>3. n \in T
  <2>. HIDE DEF T
  <2>. QED  BY <1>1, <1>2, NatSetInduction
<1>. QED  BY <1>3

-----------------------------------------------------------------------------
(* Functions defined by recursion over the naturals.                       *)

(* f is x and what G makes of it, n times over.                              *)
Iterated(f, x, G, n) == f[0] = x /\ \A k \in 0 .. n - 1 : f[k + 1] = G[f[k]]

LEMMA IteratedAgree ==
  ASSUME NEW n \in Nat, NEW x, NEW G, NEW f, NEW g, Iterated(f, x, G, n), Iterated(g, x, G, n)
  PROVE  f[n] = g[n]
<1>. DEFINE T == {k \in Nat : k <= n => f[k] = g[k]}
<1>1. 0 \in T
  BY DEF Iterated
<1>2. ASSUME NEW k \in Nat, k \in T PROVE k + 1 \in T
  <2>. SUFFICES ASSUME k + 1 <= n PROVE f[k + 1] = g[k + 1]
    OBVIOUS
  <2>1. k \in 0 .. n - 1 /\ k <= n
    OBVIOUS
  <2>. QED  BY <1>2, <2>1 DEF Iterated
<1>3. n \in T
  <2>. HIDE DEF T
  <2>. QED  BY <1>1, <1>2, NatSetInduction
<1>. QED  BY <1>3

LEMMA IteratedExists ==
  ASSUME NEW S, NEW x \in S, NEW G \in [S -> S]
  PROVE  \A n \in Nat : \E f \in [Nat -> S] : Iterated(f, x, G, n)
<1>. DEFINE T == {n \in Nat : \E f \in [Nat -> S] : Iterated(f, x, G, n)}
<1>1. 0 \in T
  <2>1. [k \in Nat |-> x] \in [Nat -> S] /\ Iterated([k \in Nat |-> x], x, G, 0)
    BY DEF Iterated
  <2>. QED  BY <2>1
<1>2. ASSUME NEW n \in Nat, n \in T PROVE n + 1 \in T
  <2>1. PICK f \in [Nat -> S] : Iterated(f, x, G, n)
    BY <1>2
  <2>. DEFINE h == [k \in Nat |-> IF k <= n THEN f[k] ELSE G[f[n]]]
  <2>2. h \in [Nat -> S] /\ h[0] = x
    BY <2>1 DEF Iterated
  <2>3. ASSUME NEW k \in 0 .. (n + 1) - 1 PROVE h[k + 1] = G[h[k]]
    <3>1. h[k] = f[k]
      OBVIOUS
    <3>2. CASE k < n
      <4>1. k \in 0 .. n - 1 /\ h[k + 1] = f[k + 1]
        BY <3>2
      <4>. QED  BY <2>1, <3>1, <4>1 DEF Iterated
    <3>3. CASE k = n
      BY <3>1, <3>3
    <3>. QED  BY <3>2, <3>3
  <2>. HIDE DEF h
  <2>4. Iterated(h, x, G, n + 1)
    BY <2>2, <2>3 DEF Iterated
  <2>. QED  BY <2>2, <2>4
<1>3. Nat \subseteq T
  <2>. HIDE DEF T
  <2>. QED  BY <1>1, <1>2, NatSetInduction
<1>. QED  BY <1>3

(* There is a function that is x at 0 and whose steps are those of G.        *)
LEMMA Recursion ==
  ASSUME NEW S, NEW x \in S, NEW G \in [S -> S]
  PROVE  \E f \in [Nat -> S] : f[0] = x /\ \A k \in Nat : f[k + 1] = G[f[k]]
<1>. DEFINE c(n) == CHOOSE f \in [Nat -> S] : Iterated(f, x, G, n)
            f == [k \in Nat |-> c(k)[k]]
<1>1. \A n \in Nat : c(n) \in [Nat -> S] /\ Iterated(c(n), x, G, n)
  BY IteratedExists
<1>. HIDE DEF c
<1>2. f \in [Nat -> S] /\ f[0] = x
  BY <1>1 DEF Iterated
<1>3. ASSUME NEW k \in Nat PROVE f[k + 1] = G[f[k]]
  <2>1. c(k + 1)[k + 1] = G[c(k + 1)[k]] /\ Iterated(c(k + 1), x, G, k)
    <3>1. Iterated(c(k + 1), x, G, k + 1) /\ k \in 0 .. (k + 1) - 1 /\ 0 .. k - 1 \subseteq 0 .. (k + 1) - 1
      BY <1>1
    <3>. QED  BY <3>1 DEF Iterated
  <2>2. c(k + 1)[k] = c(k)[k]
    BY <1>1, <2>1, IteratedAgree
  <2>. QED  BY <2>1, <2>2
<1>. QED  BY <1>2, <1>3

-----------------------------------------------------------------------------
(* A quotient rounded down, between the integers that bound the division.    *)
LEMMA DivBounds ==
  ASSUME NEW x \in Int, NEW d \in Nat \ {0}
  PROVE  /\ x \div d \in Int
         /\ \A c \in Int : x <= c * d => x \div d <= c
         /\ \A c \in Int : c * d <= x => c <= x \div d
<1>. DEFINE q == x \div d
<1>1. q \in Int /\ d * q <= x /\ x < d * q + d
  OBVIOUS
<1>2. ASSUME NEW c \in Int, x <= c * d PROVE q <= c
  <2>1. SUFFICES ASSUME q >= c + 1 PROVE FALSE
    BY <1>1
  <2>2. d * q >= d * (c + 1)
    BY <1>1, <2>1
  <2>3. d * (c + 1) = c * d + d /\ c * d \in Int
    OBVIOUS
  <2>. QED  BY <1>1, <1>2, <2>2, <2>3
<1>3. ASSUME NEW c \in Int, c * d <= x PROVE c <= q
  <2>1. SUFFICES ASSUME q + 1 <= c PROVE FALSE
    BY <1>1
  <2>2. d * (q + 1) <= d * c
    BY <1>1, <2>1
  <2>3. d * (q + 1) = d * q + d /\ d * c = c * d /\ c * d \in Int /\ d * q \in Int
    BY <1>1
  <2>. QED  BY <1>1, <1>3, <2>2, <2>3
<1>. QED  BY <1>1, <1>2, <1>3

(* Rounding down keeps the order.                                            *)
LEMMA DivMonotone ==
  ASSUME NEW x \in Int, NEW y \in Int, NEW d \in Nat \ {0}, x <= y
  PROVE  x \div d <= y \div d
<1>. DEFINE q == x \div d
<1>1. q \in Int /\ d * q <= x
  OBVIOUS
<1>2. q * d <= y /\ q * d \in Int
  <2>1. q * d = d * q /\ d * q \in Int
    BY <1>1
  <2>. QED  BY <1>1, <2>1
<1>. HIDE DEF q
<1>3. q <= y \div d
  BY <1>1, <1>2, DivBounds
<1>. QED  BY <1>3 DEF q

(* A smaller dividend and a larger divisor.                                  *)
LEMMA DivCompare ==
  ASSUME NEW x \in Nat, NEW y \in Nat, NEW d \in Nat \ {0}, NEW e \in Nat \ {0}, x <= y, e <= d
  PROVE  x \div d <= y \div e
<1>. DEFINE q == x \div d
<1>1. q \in Int /\ d * q <= x /\ 0 <= q
  <2>1. q \in Int /\ d * q <= x
    OBVIOUS
  <2>2. 0 * d <= x
    OBVIOUS
  <2>3. 0 <= q
    BY <2>2, DivBounds
  <2>. QED  BY <2>1, <2>3
<1>. HIDE DEF q
<1>2. q * e <= y
  <2>1. q * e \in Int /\ d * q \in Int /\ e * q <= d * q /\ q * e = e * q
    BY <1>1
  <2>. QED  BY <1>1, <2>1
<1>3. q <= y \div e
  BY <1>1, <1>2, DivBounds
<1>. QED  BY <1>3 DEF q
=============================================================================
