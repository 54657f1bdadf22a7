------------------------------ MODULE SumProofs ------------------------------
(***************************************************************************)
(* Facts about the sums the agent reports: requests of the pods of a       *)
(* workload, GPU memory of the containers of a node.  A sum is             *)
(* SumFunctionOnSet(f, S) of module Functions, a fold over a recursive     *)
(* function on the subsets of S that takes out one element after the       *)
(* other.                                                                  *)
(*                                                                         *)
(* Induction over numbers and over finite sets is stated with sets, not    *)
(* with predicates: what is to be shown is the membership in a set, and    *)
(* the least number that is not a member is the contradiction.             *)
(***************************************************************************)
EXTENDS Functions, FiniteSetTheorems, WellFoundedInduction, TLAPS

------------------------------------------------------------------------------
(* Induction.                                                               *)

\* A set of numbers has a least member.
LEMMA LeastNumber ==
    ASSUME NEW T \in SUBSET Nat, T # {}
    PROVE  \E x \in T : \A y \in T : x <= y
<1>1. PICK x \in T : \A y \in T : ~(<<y, x>> \in OpToRel(<, Nat))
  BY NatLessThanWellFounded, WFMin
<1>2. \A y \in T : ~(y < x)
  BY <1>1 DEF OpToRel
<1> QED
  BY <1>2

\* A set that holds 0 and the successor of each of its members holds every number.
LEMMA NumberInduction ==
    ASSUME NEW P, 0 \in P, \A n \in Nat : n \in P => n + 1 \in P
    PROVE  Nat \subseteq P
<1> DEFINE T == {n \in Nat : n \notin P}
<1> SUFFICES ASSUME T # {} PROVE FALSE
  OBVIOUS
<1>1. PICK x \in T : \A y \in T : x <= y
  <2>1. T \in SUBSET Nat
    OBVIOUS
  <2> HIDE DEF T
  <2> QED BY <2>1, LeastNumber
<1>2. x \in Nat /\ x # 0
  OBVIOUS
<1>3. x - 1 \in Nat /\ x - 1 \notin T
  BY <1>1, <1>2
<1> QED
  BY <1>2, <1>3

\* A set of subsets that holds each one all of whose proper subsets it holds.
LEMMA SubsetInduction ==
    ASSUME NEW S, IsFiniteSet(S), NEW P,
           \A s \in SUBSET S : (\A t \in SUBSET s : t # s => t \in P) => s \in P
    PROVE  SUBSET S \subseteq P
<1> DEFINE Q == {n \in Nat : \A s \in SUBSET S : Cardinality(s) <= n => s \in P}
<1>1. \A s \in SUBSET S : IsFiniteSet(s) /\ Cardinality(s) \in Nat
  BY FS_Subset, FS_CardinalityType
<1>2. \A s \in SUBSET S : \A t \in SUBSET s : t # s => Cardinality(t) < Cardinality(s)
  BY <1>1, FS_Subset, FS_CardinalityType
<1>3. 0 \in Q
  <2> SUFFICES ASSUME NEW s \in SUBSET S, Cardinality(s) <= 0 PROVE s \in P
    OBVIOUS
  <2>1. s = {}
    BY <1>1, FS_EmptySet
  <2> QED
    BY <2>1
<1>4. ASSUME NEW n \in Nat, n \in Q PROVE n + 1 \in Q
  <2> SUFFICES ASSUME NEW s \in SUBSET S, Cardinality(s) <= n + 1 PROVE s \in P
    OBVIOUS
  <2>1. ASSUME NEW t \in SUBSET s, t # s PROVE t \in P
    <3>1. Cardinality(t) < Cardinality(s) /\ t \in SUBSET S
      BY <1>2, <2>1
    <3>2. Cardinality(t) <= n
      BY <1>1, <3>1
    <3> QED
      BY <1>4, <3>1, <3>2
  <2> QED
    BY <2>1
<1>5. Nat \subseteq Q
  <2> HIDE DEF Q
  <2> QED BY <1>3, <1>4, NumberInduction
<1> QED
  BY <1>1, <1>5

------------------------------------------------------------------------------
(* The recursion behind a sum.                                              *)

Some(s) == CHOOSE x \in s : TRUE
SumBody(f, g, s) == IF s = {} THEN 0 ELSE f[Some(s)] + g[s \ {Some(s)}]

\* g sums f over the subsets of S.
IsSum(g, f, S) == g = [s \in SUBSET S |-> SumBody(f, g, s)]

LEMMA SomeMember == \A s : s # {} => Some(s) \in s
BY DEF Some

LEMMA SumChoice ==
    ASSUME NEW f, NEW S
    PROVE  SumFunctionOnSet(f, S) = (CHOOSE g : IsSum(g, f, S))[S]
BY DEF SumFunctionOnSet, FoldFunctionOnSet, MapThenFoldSet, IsSum, SumBody, Some

\* There is such a function.
LEMMA SumExists ==
    ASSUME NEW f, NEW S, IsFiniteSet(S)
    PROVE  \E g : IsSum(g, f, S)
<1> DEFINE Small(n) == {s \in SUBSET S : Cardinality(s) <= n}
           Approx(g, n) == g = [s \in Small(n) |-> SumBody(f, g, s)]
           P == {n \in Nat : \E g : Approx(g, n)}
<1>1. \A s \in SUBSET S : IsFiniteSet(s) /\ Cardinality(s) \in Nat /\ Cardinality(s) <= Cardinality(S)
  BY FS_Subset, FS_CardinalityType
<1>2. 0 \in P
  <2> DEFINE g == [s \in Small(0) |-> 0]
  <2>1. \A s \in Small(0) : s = {}
    BY <1>1, FS_EmptySet
  <2>2. Approx(g, 0)
    BY <2>1 DEF SumBody
  <2> QED
    BY <2>2
<1>3. ASSUME NEW n \in Nat, n \in P PROVE n + 1 \in P
  <2>1. PICK g : Approx(g, n)
    BY <1>3
  <2> DEFINE h == [s \in Small(n + 1) |-> SumBody(f, g, s)]
  <2>2. \A s \in Small(n) : s \in Small(n + 1) /\ h[s] = g[s]
    <3>1. \A s \in Small(n) : s \in Small(n + 1)
      BY <1>1
    <3>2. \A s \in Small(n) : g[s] = SumBody(f, g, s)
      BY <2>1
    <3> QED
      BY <3>1, <3>2
  <2>3. ASSUME NEW s \in Small(n + 1) PROVE SumBody(f, h, s) = SumBody(f, g, s)
    <3>1. CASE s = {}
      BY <3>1 DEF SumBody
    <3>2. CASE s # {}
      <4>1. s \ {Some(s)} \in Small(n)
        <5>1. Some(s) \in s /\ IsFiniteSet(s)
          BY <1>1, <3>2, SomeMember
        <5>2. Cardinality(s \ {Some(s)}) = Cardinality(s) - 1
          BY <5>1, FS_RemoveElement
        <5> QED
          BY <1>1, <5>2
      <4> HIDE DEF h, Small
      <4> QED
        BY <2>2, <4>1 DEF SumBody
    <3> QED
      BY <3>1, <3>2
  <2>4. Approx(h, n + 1)
    BY <2>3
  <2> HIDE DEF h, Approx
  <2>5. \E g1 : Approx(g1, n + 1)
    BY <2>4
  <2> QED
    BY <2>5
<1>4. Cardinality(S) \in P
  <2> HIDE DEF P
  <2>1. Nat \subseteq P
    BY <1>2, <1>3, NumberInduction
  <2> QED
    BY <2>1, FS_CardinalityType
<1>5. PICK g : Approx(g, Cardinality(S))
  BY <1>4
<1>6. Small(Cardinality(S)) = SUBSET S
  BY <1>1
<1> QED
  BY <1>5, <1>6 DEF IsSum

\* Two such functions agree on a set that is in the domain of both, where the
\* summands agree.
LEMMA SumAgree ==
    ASSUME NEW f, NEW e, NEW S, NEW T, NEW g, NEW h, NEW s \in SUBSET S,
           IsSum(g, f, S), IsSum(h, e, T), s \subseteq T, IsFiniteSet(s),
           \A x \in s : f[x] = e[x]
    PROVE  g[s] = h[s]
<1> DEFINE P == {t \in SUBSET s : g[t] = h[t]}
<1>1. ASSUME NEW t \in SUBSET s, \A u \in SUBSET t : u # t => u \in P
      PROVE  t \in P
  <2>1. g[t] = SumBody(f, g, t) /\ h[t] = SumBody(e, h, t)
    <3>1. t \in SUBSET S /\ t \in SUBSET T
      OBVIOUS
    <3> QED
      BY <3>1 DEF IsSum
  <2>2. CASE t = {}
    BY <2>1, <2>2 DEF SumBody
  <2>3. CASE t # {}
    <3>1. Some(t) \in t
      BY <2>3, SomeMember
    <3>2. g[t \ {Some(t)}] = h[t \ {Some(t)}]
      BY <1>1, <3>1
    <3>3. f[Some(t)] = e[Some(t)]
      BY <3>1
    <3> QED
      BY <2>1, <2>3, <3>2, <3>3 DEF SumBody
  <2> QED
    BY <2>2, <2>3
<1>2. SUBSET s \subseteq P
  <2> HIDE DEF P
  <2> QED BY <1>1, SubsetInduction
<1> QED
  BY <1>2

LEMMA SumIs ==
    ASSUME NEW f, NEW S, IsFiniteSet(S)
    PROVE  \E g : IsSum(g, f, S) /\ SumFunctionOnSet(f, S) = g[S]
<1> DEFINE g == CHOOSE x : IsSum(x, f, S)
<1>1. IsSum(g, f, S)
  BY SumExists
<1>2. SumFunctionOnSet(f, S) = g[S]
  BY SumChoice
<1> QED
  BY <1>1, <1>2

------------------------------------------------------------------------------
(* Sums.                                                                    *)

LEMMA SumEmpty ==
    ASSUME NEW f
    PROVE  SumFunctionOnSet(f, {}) = 0
<1>1. PICK g : IsSum(g, f, {}) /\ SumFunctionOnSet(f, {}) = g[{}]
  BY SumIs, FS_EmptySet
<1>2. g[{}] = SumBody(f, g, {})
  BY <1>1 DEF IsSum
<1> QED
  BY <1>1, <1>2 DEF SumBody

\* One step of the recursion.
LEMMA SumStep ==
    ASSUME NEW f, NEW S, IsFiniteSet(S), S # {}
    PROVE  SumFunctionOnSet(f, S) = f[Some(S)] + SumFunctionOnSet(f, S \ {Some(S)})
<1> DEFINE R == S \ {Some(S)}
<1>1. PICK g : IsSum(g, f, S) /\ SumFunctionOnSet(f, S) = g[S]
  BY SumIs
<1>2. IsFiniteSet(R) /\ R \in SUBSET S
  BY FS_Subset
<1>3. PICK h : IsSum(h, f, R) /\ SumFunctionOnSet(f, R) = h[R]
  BY <1>2, SumIs
<1>4. g[R] = h[R]
  BY <1>1, <1>2, <1>3, SumAgree
<1>5. g[S] = f[Some(S)] + g[R]
  BY <1>1 DEF IsSum, SumBody
<1> QED
  BY <1>1, <1>3, <1>4, <1>5

\* Only the summands count.
LEMMA SumEqual ==
    ASSUME NEW f, NEW e, NEW S, IsFiniteSet(S), \A x \in S : f[x] = e[x]
    PROVE  SumFunctionOnSet(f, S) = SumFunctionOnSet(e, S)
<1>1. PICK g : IsSum(g, f, S) /\ SumFunctionOnSet(f, S) = g[S]
  BY SumIs
<1>2. PICK h : IsSum(h, e, S) /\ SumFunctionOnSet(e, S) = h[S]
  BY SumIs
<1>3. ASSUME NEW s \in SUBSET S, s \subseteq S, IsFiniteSet(s), \A x \in s : f[x] = e[x]
      PROVE  g[s] = h[s]
  BY <1>1, <1>2, <1>3, SumAgree
<1>4. g[S] = h[S]
  BY <1>3
<1> QED
  BY <1>1, <1>2, <1>4

\* A sum of integers is an integer.
LEMMA SumInt ==
    ASSUME NEW f, NEW S, IsFiniteSet(S), \A x \in S : f[x] \in Int
    PROVE  SumFunctionOnSet(f, S) \in Int
<1> DEFINE P == {s \in SUBSET S : SumFunctionOnSet(f, s) \in Int}
<1>1. ASSUME NEW s \in SUBSET S, \A t \in SUBSET s : t # s => t \in P
      PROVE  s \in P
  <2>1. CASE s = {}
    BY <2>1, SumEmpty
  <2>2. CASE s # {}
    <3>1. Some(s) \in s /\ IsFiniteSet(s)
      BY <2>2, SomeMember, FS_Subset
    <3>2. SumFunctionOnSet(f, s \ {Some(s)}) \in Int
      BY <1>1, <3>1
    <3> QED
      BY <2>2, <3>1, <3>2, SumStep
  <2> QED
    BY <2>1, <2>2
<1>2. SUBSET S \subseteq P
  <2> HIDE DEF P
  <2> QED BY <1>1, SubsetInduction
<1> QED
  BY <1>2

\* Any element may be taken out first.
LEMMA SumAny ==
    ASSUME NEW f, NEW S, IsFiniteSet(S), \A x \in S : f[x] \in Int, NEW y \in S
    PROVE  SumFunctionOnSet(f, S) = f[y] + SumFunctionOnSet(f, S \ {y})
<1> DEFINE P == {s \in SUBSET S : \A x \in s : SumFunctionOnSet(f, s) = f[x] + SumFunctionOnSet(f, s \ {x})}
<1>1. ASSUME NEW s \in SUBSET S, \A t \in SUBSET s : t # s => t \in P
      PROVE  s \in P
  <2> SUFFICES ASSUME NEW x \in s
               PROVE  SumFunctionOnSet(f, s) = f[x] + SumFunctionOnSet(f, s \ {x})
    OBVIOUS
  <2> DEFINE c == Some(s)
  <2>1. c \in s /\ IsFiniteSet(s)
    BY SomeMember, FS_Subset
  <2>2. SumFunctionOnSet(f, s) = f[c] + SumFunctionOnSet(f, s \ {c})
    BY <2>1, SumStep
  <2> HIDE DEF c
  <2>3. CASE x = c
    BY <2>2, <2>3
  <2>4. CASE x # c
    <3> DEFINE r == (s \ {c}) \ {x}
    <3>1. r = (s \ {x}) \ {c}
      OBVIOUS
    <3>2. SumFunctionOnSet(f, s \ {c}) = f[x] + SumFunctionOnSet(f, r)
      BY <1>1, <2>1, <2>4
    <3>3. SumFunctionOnSet(f, s \ {x}) = f[c] + SumFunctionOnSet(f, r)
      BY <1>1, <2>1, <2>4, <3>1
    <3>4. SumFunctionOnSet(f, r) \in Int
      <4>1. IsFiniteSet(r) /\ \A z \in r : f[z] \in Int
        BY <2>1, FS_Subset
      <4> HIDE DEF r
      <4> QED
        BY <4>1, SumInt
    <3>5. f[x] \in Int /\ f[c] \in Int
      BY <2>1
    <3> HIDE DEF r
    <3> QED
      BY <2>2, <3>2, <3>3, <3>4, <3>5
  <2> QED
    BY <2>3, <2>4
<1>2. SUBSET S \subseteq P
  <2> HIDE DEF P
  <2> QED BY <1>1, SubsetInduction
<1> QED
  BY <1>2

\* A sum of natural numbers is one.
LEMMA SumNat ==
    ASSUME NEW f, NEW S, IsFiniteSet(S), \A x \in S : f[x] \in Nat
    PROVE  SumFunctionOnSet(f, S) \in Nat
<1> DEFINE P == {s \in SUBSET S : SumFunctionOnSet(f, s) \in Nat}
<1>1. ASSUME NEW s \in SUBSET S, \A t \in SUBSET s : t # s => t \in P
      PROVE  s \in P
  <2>1. CASE s = {}
    BY <2>1, SumEmpty
  <2>2. CASE s # {}
    <3>1. Some(s) \in s /\ IsFiniteSet(s)
      BY <2>2, SomeMember, FS_Subset
    <3>2. SumFunctionOnSet(f, s \ {Some(s)}) \in Nat
      BY <1>1, <3>1
    <3> QED
      BY <2>2, <3>1, <3>2, SumStep
  <2> QED
    BY <2>1, <2>2
<1>2. SUBSET S \subseteq P
  <2> HIDE DEF P
  <2> QED BY <1>1, SubsetInduction
<1> QED
  BY <1>2

\* A sum of zeros is zero.
LEMMA SumZeros ==
    ASSUME NEW f, NEW S, IsFiniteSet(S), \A x \in S : f[x] = 0
    PROVE  SumFunctionOnSet(f, S) = 0
<1> DEFINE P == {s \in SUBSET S : SumFunctionOnSet(f, s) = 0}
<1>1. ASSUME NEW s \in SUBSET S, \A t \in SUBSET s : t # s => t \in P
      PROVE  s \in P
  <2>1. CASE s = {}
    BY <2>1, SumEmpty
  <2>2. CASE s # {}
    <3>1. Some(s) \in s /\ IsFiniteSet(s)
      BY <2>2, SomeMember, FS_Subset
    <3>2. SumFunctionOnSet(f, s \ {Some(s)}) = 0 /\ f[Some(s)] = 0
      BY <1>1, <3>1
    <3> QED
      BY <2>2, <3>1, <3>2, SumStep
  <2> QED
    BY <2>1, <2>2
<1>2. SUBSET S \subseteq P
  <2> HIDE DEF P
  <2> QED BY <1>1, SubsetInduction
<1> QED
  BY <1>2

\* The sum over a set is that over a part of it and that over the rest.
LEMMA SumSplit ==
    ASSUME NEW f, NEW S, IsFiniteSet(S), \A x \in S : f[x] \in Int, NEW T \in SUBSET S
    PROVE  SumFunctionOnSet(f, S) = SumFunctionOnSet(f, T) + SumFunctionOnSet(f, S \ T)
<1> DEFINE P == {t \in SUBSET S : SumFunctionOnSet(f, S)
                                    = SumFunctionOnSet(f, t) + SumFunctionOnSet(f, S \ t)}
<1>1. ASSUME NEW t \in SUBSET S PROVE SumFunctionOnSet(f, t) \in Int
  BY FS_Subset, SumInt
<1>2. ASSUME NEW t \in SUBSET S, \A u \in SUBSET t : u # t => u \in P
      PROVE  t \in P
  <2>1. CASE t = {}
    <3>1. S \ t = S
      BY <2>1
    <3> QED
      BY <1>1, <2>1, <3>1, SumEmpty
  <2>2. CASE t # {}
    <3> DEFINE c == Some(t)
               u == t \ {c}
    <3>1. c \in t /\ u \in SUBSET t /\ u # t
      BY <2>2, SomeMember
    <3> HIDE DEF c
    <3>2. SumFunctionOnSet(f, S) = SumFunctionOnSet(f, u) + SumFunctionOnSet(f, S \ u)
      <4> HIDE DEF u
      <4> QED BY <1>2, <3>1
    <3>3. SumFunctionOnSet(f, t) = f[c] + SumFunctionOnSet(f, u)
      <4>1. IsFiniteSet(t) /\ \A x \in t : f[x] \in Int
        BY FS_Subset
      <4> QED
        BY <3>1, <4>1, SumAny
    <3>4. SumFunctionOnSet(f, S \ u) = f[c] + SumFunctionOnSet(f, S \ t)
      <4>1. IsFiniteSet(S \ u) /\ (\A x \in S \ u : f[x] \in Int) /\ c \in S \ u
        BY <3>1, FS_Subset
      <4>2. (S \ u) \ {c} = S \ t
        BY <3>1
      <4> HIDE DEF u
      <4> QED
        BY <4>1, <4>2, SumAny
    <3>5. /\ f[c] \in Int /\ SumFunctionOnSet(f, u) \in Int
          /\ SumFunctionOnSet(f, S \ t) \in Int
      BY <1>1, <3>1
    <3> HIDE DEF u
    <3> QED
      BY <3>2, <3>3, <3>4, <3>5
  <2> QED
    BY <2>1, <2>2
<1>3. SUBSET S \subseteq P
  <2> HIDE DEF P
  <2> QED BY <1>2, SubsetInduction
<1> QED
  BY <1>3

\* A sum of natural numbers over a part is no more than that over the whole.
LEMMA SumPart ==
    ASSUME NEW f, NEW S, IsFiniteSet(S), \A x \in S : f[x] \in Nat, NEW T \in SUBSET S
    PROVE  SumFunctionOnSet(f, T) <= SumFunctionOnSet(f, S)
<1>1. IsFiniteSet(T) /\ IsFiniteSet(S \ T)
  BY FS_Subset
<1>2. SumFunctionOnSet(f, T) \in Nat /\ SumFunctionOnSet(f, S \ T) \in Nat
  BY <1>1, SumNat
<1>3. SumFunctionOnSet(f, S) = SumFunctionOnSet(f, T) + SumFunctionOnSet(f, S \ T)
  BY SumSplit
<1> QED
  BY <1>2, <1>3

\* A summand is no more than its sum.
LEMMA SumMember ==
    ASSUME NEW f, NEW S, IsFiniteSet(S), \A x \in S : f[x] \in Nat, NEW y \in S
    PROVE  f[y] <= SumFunctionOnSet(f, S)
<1>1. IsFiniteSet(S \ {y}) /\ f[y] \in Nat
  BY FS_Subset
<1>2. SumFunctionOnSet(f, S \ {y}) \in Nat
  BY <1>1, SumNat
<1>3. SumFunctionOnSet(f, S) = f[y] + SumFunctionOnSet(f, S \ {y})
  BY SumAny
<1> QED
  BY <1>1, <1>2, <1>3

\* Parts of a set that do not meet, each with no more than the sum over it,
\* have together no more than the sum over the set.
LEMMA SumParts ==
    ASSUME NEW f, NEW D, IsFiniteSet(D), \A x \in D : f[x] \in Nat,
           NEW K, IsFiniteSet(K), NEW part, NEW inner,
           \A k \in K : part[k] \subseteq D /\ inner[k] \in Nat
                        /\ inner[k] <= SumFunctionOnSet(f, part[k]),
           \A j, k \in K : j # k => part[j] \cap part[k] = {}
    PROVE  SumFunctionOnSet(inner, K) <= SumFunctionOnSet(f, D)
<1> DEFINE P == {s \in SUBSET K : \A E \in SUBSET D :
                    (\A k \in s : part[k] \subseteq E)
                        => SumFunctionOnSet(inner, s) <= SumFunctionOnSet(f, E)}
<1>1. ASSUME NEW E \in SUBSET D
      PROVE  IsFiniteSet(E) /\ SumFunctionOnSet(f, E) \in Nat
  BY FS_Subset, SumNat
<1>2. ASSUME NEW s \in SUBSET K, \A t \in SUBSET s : t # s => t \in P
      PROVE  s \in P
  <2> SUFFICES ASSUME NEW E \in SUBSET D, \A k \in s : part[k] \subseteq E
               PROVE  SumFunctionOnSet(inner, s) <= SumFunctionOnSet(f, E)
    OBVIOUS
  <2>1. CASE s = {}
    BY <1>1, <2>1, SumEmpty
  <2>2. CASE s # {}
    <3> DEFINE c == Some(s)
               t == s \ {c}
               F == E \ part[c]
    <3>1. c \in s /\ t \in SUBSET s /\ t # s /\ IsFiniteSet(s) /\ IsFiniteSet(t)
      BY <2>2, SomeMember, FS_Subset
    <3> HIDE DEF c
    <3>2. SumFunctionOnSet(inner, s) = inner[c] + SumFunctionOnSet(inner, t)
      BY <2>2, <3>1, SumStep DEF c
    <3>3. SumFunctionOnSet(inner, t) <= SumFunctionOnSet(f, F)
      <4>1. F \in SUBSET D /\ \A k \in t : part[k] \subseteq F
        BY <3>1
      <4> HIDE DEF t, F
      <4> QED BY <1>2, <3>1, <4>1
    <3>4. SumFunctionOnSet(f, E) = SumFunctionOnSet(f, part[c]) + SumFunctionOnSet(f, F)
      <4>1. part[c] \in SUBSET E /\ IsFiniteSet(E) /\ \A x \in E : f[x] \in Int
        BY <1>1, <3>1
      <4> QED BY <4>1, SumSplit
    <3>5. /\ SumFunctionOnSet(f, part[c]) \in Nat /\ SumFunctionOnSet(f, F) \in Nat
          /\ inner[c] \in Nat /\ inner[c] <= SumFunctionOnSet(f, part[c])
      BY <1>1, <3>1
    <3>6. SumFunctionOnSet(inner, t) \in Nat
      BY <3>1, SumNat
    <3> HIDE DEF t, F
    <3> QED
      BY <3>2, <3>3, <3>4, <3>5, <3>6
  <2> QED
    BY <2>1, <2>2
<1>3. K \in P
  <2> HIDE DEF P
  <2>1. SUBSET K \subseteq P
    BY <1>2, SubsetInduction
  <2> QED BY <2>1
<1> QED
  BY <1>3

\* Sets that cover what is not zero, each with no less than the sum over it,
\* have together no less than the sum over all.
LEMMA SumCover ==
    ASSUME NEW f, NEW D, IsFiniteSet(D), \A x \in D : f[x] \in Nat,
           NEW K, IsFiniteSet(K), NEW part, NEW inner,
           \A k \in K : part[k] \subseteq D /\ inner[k] \in Nat
                        /\ SumFunctionOnSet(f, part[k]) <= inner[k],
           \A x \in D : f[x] # 0 => \E k \in K : x \in part[k]
    PROVE  SumFunctionOnSet(f, D) <= SumFunctionOnSet(inner, K)
<1> DEFINE P == {s \in SUBSET K : \A E \in SUBSET D :
                    (\A x \in E : f[x] # 0 => \E k \in s : x \in part[k])
                        => SumFunctionOnSet(f, E) <= SumFunctionOnSet(inner, s)}
<1>1. ASSUME NEW E \in SUBSET D
      PROVE  IsFiniteSet(E) /\ SumFunctionOnSet(f, E) \in Nat
  BY FS_Subset, SumNat
<1>2. ASSUME NEW s \in SUBSET K, \A t \in SUBSET s : t # s => t \in P
      PROVE  s \in P
  <2> SUFFICES ASSUME NEW E \in SUBSET D,
                      \A x \in E : f[x] # 0 => \E k \in s : x \in part[k]
               PROVE  SumFunctionOnSet(f, E) <= SumFunctionOnSet(inner, s)
    OBVIOUS
  <2>1. CASE s = {}
    <3>1. SumFunctionOnSet(f, E) = 0
      BY <1>1, <2>1, SumZeros
    <3> QED
      BY <2>1, <3>1, SumEmpty
  <2>2. CASE s # {}
    <3> DEFINE c == Some(s)
               t == s \ {c}
               F == E \ part[c]
               G == E \cap part[c]
    <3>1. c \in s /\ t \in SUBSET s /\ t # s /\ IsFiniteSet(s) /\ IsFiniteSet(t)
      BY <2>2, SomeMember, FS_Subset
    <3> HIDE DEF c
    <3>2. SumFunctionOnSet(inner, s) = inner[c] + SumFunctionOnSet(inner, t)
      BY <2>2, <3>1, SumStep DEF c
    <3>3. SumFunctionOnSet(f, F) <= SumFunctionOnSet(inner, t)
      <4>1. F \in SUBSET D /\ \A x \in F : f[x] # 0 => \E k \in t : x \in part[k]
        BY <3>1
      <4> HIDE DEF t, F
      <4> QED BY <1>2, <3>1, <4>1
    <3>4. SumFunctionOnSet(f, E) = SumFunctionOnSet(f, G) + SumFunctionOnSet(f, F)
      <4>1. G \in SUBSET E /\ E \ G = F /\ IsFiniteSet(E) /\ \A x \in E : f[x] \in Int
        BY <1>1
      <4> HIDE DEF G, F
      <4> QED BY <4>1, SumSplit
    <3>5. SumFunctionOnSet(f, G) <= SumFunctionOnSet(f, part[c])
      <4>1. /\ G \in SUBSET part[c] /\ IsFiniteSet(part[c])
            /\ \A x \in part[c] : f[x] \in Nat
        BY <1>1, <3>1
      <4> HIDE DEF G
      <4> QED BY <4>1, SumPart
    <3>6. /\ SumFunctionOnSet(f, part[c]) \in Nat /\ SumFunctionOnSet(f, F) \in Nat
          /\ SumFunctionOnSet(f, G) \in Nat
          /\ inner[c] \in Nat /\ SumFunctionOnSet(f, part[c]) <= inner[c]
      BY <1>1, <3>1
    <3>7. SumFunctionOnSet(inner, t) \in Nat
      BY <3>1, SumNat
    <3> HIDE DEF t, F, G
    <3> QED
      BY <3>2, <3>3, <3>4, <3>5, <3>6, <3>7
  <2> QED
    BY <2>1, <2>2
<1>3. K \in P
  <2> HIDE DEF P
  <2>1. SUBSET K \subseteq P
    BY <1>2, SubsetInduction
  <2> QED BY <2>1
<1> QED
  BY <1>3

\* The image of a finite set is finite.
LEMMA FiniteImage ==
    ASSUME NEW S, IsFiniteSet(S), NEW g
    PROVE  IsFiniteSet({g[x] : x \in S})
<1> DEFINE h == [x \in S |-> g[x]]
           T == {g[x] : x \in S}
<1>1. h \in Surjection(S, T)
  BY DEF Surjection
<1> HIDE DEF h, T
<1> QED
  BY <1>1, FS_Surjection DEF T

\* A sum over the members of a set, by other names.
LEMMA SumImage ==
    ASSUME NEW S, IsFiniteSet(S), NEW f, \A x \in S : f[x] \in Int,
           NEW h, \A x, y \in S : h[x] = h[y] => x = y,
           NEW g, \A x \in S : g[h[x]] = f[x]
    PROVE  SumFunctionOnSet(g, {h[x] : x \in S}) = SumFunctionOnSet(f, S)
<1> DEFINE Image(s) == {h[x] : x \in s}
           P == {s \in SUBSET S : SumFunctionOnSet(g, Image(s)) = SumFunctionOnSet(f, s)}
<1>1. ASSUME NEW s \in SUBSET S, \A t \in SUBSET s : t # s => t \in P
      PROVE  s \in P
  <2>1. CASE s = {}
    <3>1. Image(s) = {}
      BY <2>1
    <3> HIDE DEF Image
    <3> QED
      BY <2>1, <3>1, SumEmpty
  <2>2. CASE s # {}
    <3>1. PICK c : c \in s
      BY <2>2
    <3> DEFINE t == s \ {c}
    <3>2. t \in SUBSET s /\ t # s
      BY <3>1
    <3>3. SumFunctionOnSet(g, Image(t)) = SumFunctionOnSet(f, t)
      <4> HIDE DEF t, Image
      <4> QED BY <1>1, <3>2
    <3>4. SumFunctionOnSet(f, s) = f[c] + SumFunctionOnSet(f, t)
      <4>1. IsFiniteSet(s) /\ \A x \in s : f[x] \in Int
        BY FS_Subset
      <4> QED
        BY <3>1, <4>1, SumAny
    <3>5. SumFunctionOnSet(g, Image(s)) = g[h[c]] + SumFunctionOnSet(g, Image(t))
      <4>1. IsFiniteSet(Image(s))
        <5>1. IsFiniteSet(s)
          BY FS_Subset
        <5> QED BY <5>1, FiniteImage
      <4>2. \A y \in Image(s) : g[y] \in Int
        OBVIOUS
      <4>3. h[c] \in Image(s) /\ Image(s) \ {h[c]} = Image(t)
        BY <3>1
      <4> HIDE DEF Image, t
      <4> QED
        BY <4>1, <4>2, <4>3, SumAny
    <3>6. g[h[c]] = f[c]
      BY <3>1
    <3> HIDE DEF t, Image
    <3> QED
      BY <3>3, <3>4, <3>5, <3>6
  <2> QED
    BY <2>1, <2>2
<1>2. SUBSET S \subseteq P
  <2> HIDE DEF P
  <2> QED BY <1>1, SubsetInduction
<1>3. S \in P
  BY <1>2
<1> QED
  BY <1>3

=============================================================================
