------------------------------ MODULE SumProofs ------------------------------
(***************************************************************************)
(* Lemmas about the recursive functions the models are built from.  Most   *)
(* are about SumFunctionOnSet and SumFunction of the community module      *)
(* Functions: what a net quantity or a total becomes when one term is      *)
(* added, removed or changed.                                              *)
(*                                                                         *)
(* Those operators are folds, that is recursive functions on the subsets   *)
(* of a finite set.  Induction here is over the set of the subsets for     *)
(* which a statement holds, so that no operator has to be instantiated.    *)
(* The last section has the same for recursion along a sequence: that a    *)
(* function so defined exists, and induction up to its length.             *)
(***************************************************************************)
EXTENDS Integers, Functions, FiniteSetTheorems, TLAPS

(* A set Q that has every subset of S all of whose proper subsets it has,  *)
(* has every subset of S.                                                  *)
LEMMA SubsetInduction ==
  ASSUME NEW S, IsFiniteSet(S), NEW Q,
         \A T \in SUBSET S : (\A U \in SUBSET T : U # T => U \in Q) => T \in Q
  PROVE  SUBSET S \subseteq Q
<1> DEFINE Bad == {T \in SUBSET S : T \notin Q}
<1> SUFFICES ASSUME Bad # {} PROVE FALSE
  OBVIOUS
<1>1. IsWellFoundedOn(StrictSubsetOrdering(S), FiniteSubsetsOf(S))
  BY FS_StrictSubsetOrderingWellFounded
<1>2. PICK T \in Bad : \A U \in Bad : <<U, T>> \notin StrictSubsetOrdering(S)
  <2>1. Bad \subseteq FiniteSubsetsOf(S)
    BY FS_FiniteSubsetsOfFinite
  <2> DEFINE less == StrictSubsetOrdering(S)
             all == FiniteSubsetsOf(S)
  <2>2. IsWellFoundedOn(less, all) /\ Bad \subseteq all /\ Bad # {}
    BY <1>1, <2>1
  <2>3. \E T \in Bad : \A U \in Bad : ~(<<U, T>> \in less)
    <3> HIDE DEF Bad, less, all
    <3> QED BY <2>2, WFMin
  <2> QED BY <2>3
<1>3. ASSUME NEW U \in SUBSET T, U # T PROVE U \in Q
  <2>1. U \in SUBSET S /\ T \in SUBSET S
    OBVIOUS
  <2>2. <<U, T>> \in StrictSubsetOrdering(S)
    BY <1>3, <2>1 DEF StrictSubsetOrdering
  <2> QED BY <1>2, <2>1, <2>2
<1> QED BY <1>3

----------------------------------------------------------------------------
(* The recursive function a sum is a value of. *)
Pick(T) == CHOOSE x \in T : TRUE
Rest(T) == T \ {Pick(T)}
IsSum(g, f, S) ==
  g = [T \in SUBSET S |-> IF T = {} THEN 0 ELSE f[Pick(T)] + g[Rest(T)]]

(* A sum is a value of that function.                                      *)
LEMMA SumIsChosen ==
  ASSUME NEW f, NEW S
  PROVE  SumFunctionOnSet(f, S) = (CHOOSE g : IsSum(g, f, S))[S]
  BY DEF SumFunctionOnSet, FoldFunctionOnSet, MapThenFoldSet, IsSum, Pick, Rest

(* A set without its picked element is a proper subset.                    *)
LEMMA RestIsSmaller ==
  ASSUME NEW T, T # {}
  PROVE  Pick(T) \in T /\ Rest(T) \in SUBSET T /\ Rest(T) # T
  BY DEF Pick, Rest

(* Two such functions agree on the subsets both are defined on.            *)
LEMMA SumsAgree ==
  ASSUME NEW f, NEW A, NEW B, NEW g, NEW h, IsSum(g, f, A), IsSum(h, f, B),
         NEW S, IsFiniteSet(S), S \subseteq A, S \subseteq B
  PROVE  g[S] = h[S]
<1> DEFINE Q == {T \in SUBSET S : g[T] = h[T]}
<1>1. ASSUME NEW T \in SUBSET S, \A U \in SUBSET T : U # T => U \in Q
      PROVE  T \in Q
  <2>1. T \in SUBSET A /\ T \in SUBSET B
    OBVIOUS
  <2>2. /\ g[T] = IF T = {} THEN 0 ELSE f[Pick(T)] + g[Rest(T)]
        /\ h[T] = IF T = {} THEN 0 ELSE f[Pick(T)] + h[Rest(T)]
    BY <2>1 DEF IsSum
  <2> QED BY <1>1, <2>2, RestIsSmaller
<1>2. SUBSET S \subseteq Q
  <2> HIDE DEF Q
  <2> QED BY <1>1, SubsetInduction
<1> QED BY <1>2

(* There is one for every finite set.                                      *)
LEMMA SumExists ==
  ASSUME NEW f, NEW S, IsFiniteSet(S)
  PROVE  \E g : IsSum(g, f, S)
<1> DEFINE Q == {T \in SUBSET S : \E g : IsSum(g, f, T)}
<1>1. ASSUME NEW T \in SUBSET S, \A U \in SUBSET T : U # T => U \in Q
      PROVE  T \in Q
  <2> DEFINE h(U) == CHOOSE g : IsSum(g, f, U)
             g == [U \in SUBSET T |-> IF U = {} THEN 0 ELSE f[Pick(U)] + h(Rest(U))[Rest(U)]]
  <2>1. ASSUME NEW U \in SUBSET T, U # T PROVE IsSum(h(U), f, U)
    BY <1>1, <2>1
  <2>2. ASSUME NEW U \in SUBSET T, U # T PROVE g[U] = h(U)[U]
    <3>1. h(U)[U] = IF U = {} THEN 0 ELSE f[Pick(U)] + h(U)[Rest(U)]
      <4> HIDE DEF h
      <4> QED BY <2>1, <2>2 DEF IsSum
    <3>2. CASE U # {}
      <4>1. Rest(U) \in SUBSET T /\ Rest(U) # T /\ Rest(U) \subseteq U
        BY <2>2, <3>2, RestIsSmaller
      <4>2. IsSum(h(U), f, U) /\ IsSum(h(Rest(U)), f, Rest(U))
        BY <2>1, <2>2, <4>1
      <4>3. IsFiniteSet(Rest(U))
        BY <4>1, FS_Subset
      <4>4. h(U)[Rest(U)] = h(Rest(U))[Rest(U)]
        <5> HIDE DEF h
        <5> QED BY <4>1, <4>2, <4>3, SumsAgree
      <4> QED BY <3>1, <3>2, <4>4
    <3> QED BY <3>1, <3>2
  <2>3. ASSUME NEW U \in SUBSET T, U # {} PROVE g[Rest(U)] = h(Rest(U))[Rest(U)]
    <3> HIDE DEF g, h
    <3>1. Rest(U) \in SUBSET U /\ Rest(U) # U
      BY <2>3, RestIsSmaller
    <3>2. Rest(U) \in SUBSET T /\ Rest(U) # T
      BY <3>1
    <3> QED BY <2>2, <3>2
  <2>4. IsSum(g, f, T)
    <3> HIDE DEF h
    <3>1. g = [U \in SUBSET T |-> IF U = {} THEN 0 ELSE f[Pick(U)] + g[Rest(U)]]
      BY <2>3
    <3> QED BY <3>1 DEF IsSum
  <2> QED BY <2>4
<1>2. SUBSET S \subseteq Q
  <2> HIDE DEF Q
  <2> QED BY <1>1, SubsetInduction
<1> QED BY <1>2

----------------------------------------------------------------------------
(* The laws of sums over finite sets. *)

(* A sum is zero over nothing, and otherwise the picked term and the sum   *)
(* of the rest.                                                            *)
LEMMA SumUnfolds ==
  ASSUME NEW f, NEW S, IsFiniteSet(S)
  PROVE  SumFunctionOnSet(f, S) =
           IF S = {} THEN 0 ELSE f[Pick(S)] + SumFunctionOnSet(f, Rest(S))
<1> DEFINE g(T) == CHOOSE h : IsSum(h, f, T)
<1>1. \A T \in SUBSET S : IsSum(g(T), f, T) /\ SumFunctionOnSet(f, T) = g(T)[T]
  BY SumExists, SumIsChosen, FS_Subset
<1> HIDE DEF g
<1>2. g(S)[S] = IF S = {} THEN 0 ELSE f[Pick(S)] + g(S)[Rest(S)]
  <2>1. IsSum(g(S), f, S) /\ S \in SUBSET S
    BY <1>1
  <2> QED BY <2>1 DEF IsSum
<1>3. CASE S # {}
  <2>1. Rest(S) \in SUBSET S /\ Rest(S) \subseteq S /\ Rest(S) \subseteq Rest(S)
    BY <1>3, RestIsSmaller
  <2>2. IsSum(g(S), f, S) /\ IsSum(g(Rest(S)), f, Rest(S)) /\ IsFiniteSet(Rest(S))
    BY <1>1, <2>1, FS_Subset
  <2>3. g(S)[Rest(S)] = g(Rest(S))[Rest(S)]
    BY <2>1, <2>2, SumsAgree
  <2> QED BY <1>1, <1>2, <1>3, <2>1, <2>3
<1> QED BY <1>1, <1>2, <1>3

(* The sum of integers is an integer.                                      *)
LEMMA SumIsInt ==
  ASSUME NEW f, NEW S, IsFiniteSet(S), \A x \in S : f[x] \in Int
  PROVE  SumFunctionOnSet(f, S) \in Int
<1> DEFINE Q == {T \in SUBSET S : SumFunctionOnSet(f, T) \in Int}
<1>1. ASSUME NEW T \in SUBSET S, \A U \in SUBSET T : U # T => U \in Q
      PROVE  T \in Q
  <2>1. SumFunctionOnSet(f, T) = IF T = {} THEN 0 ELSE f[Pick(T)] + SumFunctionOnSet(f, Rest(T))
    BY SumUnfolds, FS_Subset
  <2> QED BY <1>1, <2>1, RestIsSmaller
<1>2. SUBSET S \subseteq Q
  <2> HIDE DEF Q
  <2> QED BY <1>1, SubsetInduction
<1> QED BY <1>2

(* The sum of natural numbers is a natural number.                         *)
LEMMA SumIsNat ==
  ASSUME NEW f, NEW S, IsFiniteSet(S), \A x \in S : f[x] \in Nat
  PROVE  SumFunctionOnSet(f, S) \in Nat
<1> DEFINE Q == {T \in SUBSET S : SumFunctionOnSet(f, T) \in Nat}
<1>1. ASSUME NEW T \in SUBSET S, \A U \in SUBSET T : U # T => U \in Q
      PROVE  T \in Q
  <2>1. SumFunctionOnSet(f, T) = IF T = {} THEN 0 ELSE f[Pick(T)] + SumFunctionOnSet(f, Rest(T))
    BY SumUnfolds, FS_Subset
  <2> QED BY <1>1, <2>1, RestIsSmaller
<1>2. SUBSET S \subseteq Q
  <2> HIDE DEF Q
  <2> QED BY <1>1, SubsetInduction
<1> QED BY <1>2

(* Equal terms give equal sums.                                            *)
LEMMA SumOfEqualTerms ==
  ASSUME NEW f, NEW g, NEW S, IsFiniteSet(S), \A x \in S : f[x] = g[x]
  PROVE  SumFunctionOnSet(f, S) = SumFunctionOnSet(g, S)
<1> DEFINE Q == {T \in SUBSET S : SumFunctionOnSet(f, T) = SumFunctionOnSet(g, T)}
<1>1. ASSUME NEW T \in SUBSET S, \A U \in SUBSET T : U # T => U \in Q
      PROVE  T \in Q
  <2>1. /\ SumFunctionOnSet(f, T) =
             IF T = {} THEN 0 ELSE f[Pick(T)] + SumFunctionOnSet(f, Rest(T))
        /\ SumFunctionOnSet(g, T) =
             IF T = {} THEN 0 ELSE g[Pick(T)] + SumFunctionOnSet(g, Rest(T))
    BY SumUnfolds, FS_Subset
  <2> QED BY <1>1, <2>1, RestIsSmaller
<1>2. SUBSET S \subseteq Q
  <2> HIDE DEF Q
  <2> QED BY <1>1, SubsetInduction
<1> QED BY <1>2

(* Any term can be taken out of a sum of integers, not only the picked     *)
(* one: the order of the additions does not matter.                        *)
LEMMA SumTakesOut ==
  ASSUME NEW f, NEW S, IsFiniteSet(S), \A x \in S : f[x] \in Int, NEW e \in S
  PROVE  SumFunctionOnSet(f, S) = f[e] + SumFunctionOnSet(f, S \ {e})
<1> DEFINE Q == {T \in SUBSET S : \A x \in T :
                   SumFunctionOnSet(f, T) = f[x] + SumFunctionOnSet(f, T \ {x})}
<1>1. ASSUME NEW T \in SUBSET S, \A U \in SUBSET T : U # T => U \in Q
      PROVE  T \in Q
  <2> SUFFICES ASSUME NEW x \in T
               PROVE  SumFunctionOnSet(f, T) = f[x] + SumFunctionOnSet(f, T \ {x})
    OBVIOUS
  <2> DEFINE p == Pick(T)
  <2>1. p \in T /\ Rest(T) = T \ {p}
    BY RestIsSmaller DEF Rest
  <2>2. SumFunctionOnSet(f, T) = f[p] + SumFunctionOnSet(f, T \ {p})
    BY <2>1, SumUnfolds, FS_Subset
  <2> HIDE DEF p
  <2>3. CASE x # p
    <3>1. SumFunctionOnSet(f, T \ {p}) = f[x] + SumFunctionOnSet(f, (T \ {p}) \ {x})
      <4>1. T \ {p} \in SUBSET T /\ T \ {p} # T /\ x \in T \ {p}
        BY <2>1, <2>3
      <4> QED BY <1>1, <4>1
    <3>2. SumFunctionOnSet(f, T \ {x}) = f[p] + SumFunctionOnSet(f, (T \ {x}) \ {p})
      <4>1. T \ {x} \in SUBSET T /\ T \ {x} # T /\ p \in T \ {x}
        BY <2>1, <2>3
      <4> QED BY <1>1, <4>1
    <3>3. (T \ {p}) \ {x} = (T \ {x}) \ {p}
      OBVIOUS
    <3>4. SumFunctionOnSet(f, (T \ {x}) \ {p}) \in Int
      BY SumIsInt, FS_Subset
    <3>5. f[p] \in Int /\ f[x] \in Int
      BY <2>1
    <3> DEFINE rest == SumFunctionOnSet(f, (T \ {x}) \ {p})
    <3>6. SumFunctionOnSet(f, T) = f[p] + (f[x] + rest)
      BY <2>2, <3>1, <3>3
    <3>7. SumFunctionOnSet(f, T \ {x}) = f[p] + rest /\ rest \in Int
      BY <3>2, <3>4
    <3>8. f[p] + (f[x] + rest) = f[x] + (f[p] + rest)
      <4> HIDE DEF rest
      <4> QED BY <3>5, <3>7
    <3> QED BY ONLY <3>6, <3>7, <3>8
  <2> QED BY <2>2, <2>3
<1>2. SUBSET S \subseteq Q
  <2> HIDE DEF Q
  <2> QED BY <1>1, SubsetInduction
<1> QED BY <1>2

(* A new term is added to the sum.                                         *)
LEMMA SumAddsOne ==
  ASSUME NEW f, NEW S, IsFiniteSet(S), NEW e, e \notin S, \A x \in S \cup {e} : f[x] \in Int
  PROVE  SumFunctionOnSet(f, S \cup {e}) = SumFunctionOnSet(f, S) + f[e]
<1>1. IsFiniteSet(S \cup {e}) /\ (S \cup {e}) \ {e} = S
  BY FS_AddElement
<1>2. SumFunctionOnSet(f, S \cup {e}) = f[e] + SumFunctionOnSet(f, (S \cup {e}) \ {e})
  BY <1>1, SumTakesOut
<1>3. SumFunctionOnSet(f, S) \in Int /\ f[e] \in Int
  BY SumIsInt
<1>4. SumFunctionOnSet(f, S \cup {e}) = f[e] + SumFunctionOnSet(f, S)
  BY ONLY <1>1, <1>2, Zenon
<1> QED BY ONLY <1>3, <1>4, SMT

(* No sum exceeds one whose terms are all at least as large.               *)
LEMMA SumIsMonotone ==
  ASSUME NEW f, NEW g, NEW S, IsFiniteSet(S),
         \A x \in S : f[x] \in Int /\ g[x] \in Int /\ f[x] <= g[x]
  PROVE  SumFunctionOnSet(f, S) <= SumFunctionOnSet(g, S)
<1> DEFINE Q == {T \in SUBSET S : SumFunctionOnSet(f, T) <= SumFunctionOnSet(g, T)}
<1>1. ASSUME NEW T \in SUBSET S, \A U \in SUBSET T : U # T => U \in Q
      PROVE  T \in Q
  <2>1. /\ SumFunctionOnSet(f, T) =
             IF T = {} THEN 0 ELSE f[Pick(T)] + SumFunctionOnSet(f, Rest(T))
        /\ SumFunctionOnSet(g, T) =
             IF T = {} THEN 0 ELSE g[Pick(T)] + SumFunctionOnSet(g, Rest(T))
    BY SumUnfolds, FS_Subset
  <2>2. CASE T # {}
    <3>1. Pick(T) \in T /\ Rest(T) \in SUBSET T /\ Rest(T) # T
      BY <2>2, RestIsSmaller
    <3>2. SumFunctionOnSet(f, Rest(T)) \in Int /\ SumFunctionOnSet(g, Rest(T)) \in Int
      BY <3>1, SumIsInt, FS_Subset
    <3>3. SumFunctionOnSet(f, Rest(T)) <= SumFunctionOnSet(g, Rest(T))
      BY <1>1, <3>1
    <3> QED BY <2>1, <2>2, <3>1, <3>2, <3>3
  <2> QED BY <2>1, <2>2
<1>2. SUBSET S \subseteq Q
  <2> HIDE DEF Q
  <2> QED BY <1>1, SubsetInduction
<1> QED BY <1>2

----------------------------------------------------------------------------
(* The same of SumFunction, the sum over a function's whole domain. *)

(* A total of integers is an integer.                                      *)
LEMMA TotalIsInt ==
  ASSUME NEW f, IsFiniteSet(DOMAIN f), \A x \in DOMAIN f : f[x] \in Int
  PROVE  SumFunction(f) \in Int
  BY SumIsInt DEF SumFunction

(* The total of nothing is zero.                                           *)
LEMMA TotalOfNone ==
  ASSUME NEW f, DOMAIN f = {}
  PROVE  SumFunction(f) = 0
<1>1. IsFiniteSet(DOMAIN f)
  BY FS_EmptySet
<1> QED BY <1>1, SumUnfolds DEF SumFunction

(* Functions that agree have the same total.                               *)
LEMMA TotalOfEqual ==
  ASSUME NEW f, NEW g, IsFiniteSet(DOMAIN f), DOMAIN g = DOMAIN f,
         \A x \in DOMAIN f : g[x] = f[x]
  PROVE  SumFunction(g) = SumFunction(f)
  BY SumOfEqualTerms DEF SumFunction

(* One value more is added to the total.                                   *)
LEMMA TotalAddsOne ==
  ASSUME NEW f, NEW g, NEW e, IsFiniteSet(DOMAIN f), e \notin DOMAIN f,
         DOMAIN g = DOMAIN f \cup {e}, \A x \in DOMAIN f : g[x] = f[x],
         \A x \in DOMAIN g : g[x] \in Int
  PROVE  SumFunction(g) = SumFunction(f) + g[e]
<1>1. SumFunction(g) = SumFunctionOnSet(g, DOMAIN f) + g[e]
  BY SumAddsOne DEF SumFunction
<1>2. SumFunctionOnSet(g, DOMAIN f) = SumFunction(f)
  BY SumOfEqualTerms DEF SumFunction
<1> QED BY <1>1, <1>2

----------------------------------------------------------------------------
(* Recursive functions on the numbers up to a length. *)

(* A set that has 0 and with every number below n the next one has 0..n.   *)
LEMMA CountUp ==
  ASSUME NEW n \in Nat, NEW Q, 0 \in Q, \A k \in 0..(n - 1) : k \in Q => k + 1 \in Q
  PROVE  0..n \subseteq Q
<1> DEFINE All == 1..n
           Good == {T \in SUBSET All : \A k \in 0..n : T = 1..k => k \in Q}
<1>1. ASSUME NEW T \in SUBSET All, \A U \in SUBSET T : U # T => U \in Good
      PROVE  T \in Good
  <2> SUFFICES ASSUME NEW k \in 0..n, T = 1..k PROVE k \in Q
    OBVIOUS
  <2>1. CASE k # 0
    <3>1. k - 1 \in 0..(n - 1) /\ k - 1 \in 0..n /\ 1..(k - 1) \in SUBSET T /\ k \in T
          /\ k \notin 1..(k - 1)
      BY <2>1
    <3>2. 1..(k - 1) \in Good
      BY <1>1, <3>1
    <3>3. k - 1 \in Q
      BY <3>1, <3>2
    <3> QED BY <3>1, <3>3
  <2> QED BY <2>1
<1>2. SUBSET All \subseteq Good
  <2>1. IsFiniteSet(All)
    BY FS_Interval
  <2> HIDE DEF Good, All
  <2> QED BY <1>1, <2>1, SubsetInduction
<1> SUFFICES ASSUME NEW k \in 0..n PROVE k \in Q
  OBVIOUS
<1>3. 1..k \in SUBSET All
  OBVIOUS
<1> QED BY <1>2, <1>3

(* A recursion over the numbers up to n, with values in V, has a solution. *)
Solves(f, n, a, G) == f[0] = a /\ \A k \in 1..n : f[k] = G[<<k, f[k - 1]>>]

(* Such a function exists. *)
LEMMA RecursionExists ==
  ASSUME NEW n \in Nat, NEW V, NEW a \in V, NEW G \in [(1..n) \X V -> V]
  PROVE  \E f \in [0..n -> V] : Solves(f, n, a, G)
<1> DEFINE Good == {m \in 0..n : \E f \in [0..m -> V] : Solves(f, m, a, G)}
<1>1. 0 \in Good
  <2> DEFINE f == [k \in 0..0 |-> a]
  <2>1. f \in [0..0 -> V] /\ Solves(f, 0, a, G)
    BY DEF Solves
  <2> HIDE DEF f
  <2> QED BY <2>1
<1>2. ASSUME NEW m \in 0..(n - 1), m \in Good PROVE m + 1 \in Good
  <2>1. PICK f \in [0..m -> V] : Solves(f, m, a, G)
    BY <1>2
  <2>2. m \in Nat /\ m + 1 \in 1..n /\ m \in 0..m
    OBVIOUS
  <2> DEFINE next == G[<<m + 1, f[m]>>]
             g == [k \in 0..(m + 1) |-> IF k = m + 1 THEN next ELSE f[k]]
  <2>3. next \in V
    BY <2>2
  <2>4. g \in [0..(m + 1) -> V]
    <3> HIDE DEF next
    <3> QED BY <2>2, <2>3
  <2>5. ASSUME NEW k \in 1..(m + 1) PROVE g[k] = G[<<k, g[k - 1]>>]
    <3>1. k - 1 \in 0..(m + 1) /\ k - 1 # m + 1 /\ g[k - 1] = f[k - 1]
      BY <2>2
    <3>2. CASE k = m + 1
      <4>1. g[k] = next /\ k - 1 = m
        BY <2>2, <3>2
      <4> QED BY <3>1, <3>2, <4>1
    <3>3. CASE k # m + 1
      <4>1. k \in 1..m /\ g[k] = f[k]
        BY <2>2, <3>3
      <4>2. f[k] = G[<<k, f[k - 1]>>]
        BY <2>1, <4>1 DEF Solves
      <4> QED BY <3>1, <4>1, <4>2
    <3> QED BY <3>2, <3>3
  <2>6. g[0] = a
    BY <2>1, <2>2 DEF Solves
  <2> HIDE DEF g
  <2> QED BY <2>2, <2>4, <2>5, <2>6 DEF Solves
<1>3. n \in Good
  <2> HIDE DEF Good
  <2>1. \A m \in 0..(n - 1) : m \in Good => m + 1 \in Good
    BY <1>2
  <2>2. 0..n \subseteq Good
    BY <1>1, <2>1, CountUp
  <2> QED BY <2>2
<1> QED BY <1>3
=============================================================================
