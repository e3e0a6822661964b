-------------------------------- MODULE Sums --------------------------------
(***************************************************************************)
(* Facts about sums over finite sets (SumFunctionOnSet), for the proofs     *)
(* about money and stock.  A sum is a fold that takes one element after     *)
(* another in an order nobody knows; here it is compared with a function    *)
(* that gives every subset its sum, which is unique, so the order does not  *)
(* matter.                                                                  *)
(***************************************************************************)
EXTENDS FiniteSetsExt, FiniteSetTheorems, WellFoundedInduction, TLAPS

\* F gives each subset of S the sum of g over it.
Additive(F, g, S) ==
  /\ F \in [SUBSET S -> Int] /\ F[{}] = 0
  /\ \A T \in SUBSET S : \A x \in S \ T : F[T \cup {x}] = F[T] + g[x]

-----------------------------------------------------------------------------
\* A nonempty family of subsets of a finite set has a member that includes no other one.
LEMMA SmallestSet ==
  ASSUME NEW S, IsFiniteSet(S), NEW T \in SUBSET (SUBSET S), T # {}
  PROVE  \E m \in T : \A n \in T : n \subseteq m => n = m
  <1>1. IsWellFoundedOn(StrictSubsetOrdering(S), SUBSET S)
    BY FS_StrictSubsetOrderingWellFounded, FS_FiniteSubsetsOfFinite
  <1>2. \E m \in T : \A n \in T : <<n, m>> \notin StrictSubsetOrdering(S)
    BY <1>1, WFMin
  <1> QED
    BY <1>2 DEF StrictSubsetOrdering

LEMMA AdditiveExists ==
  ASSUME NEW S, IsFiniteSet(S), NEW g, \A x \in S : g[x] \in Int
  PROVE  \E F : Additive(F, g, S)
  <1> DEFINE Bad == {T \in SUBSET S : ~ \E F : Additive(F, g, T)}
  <1>1. SUFFICES ASSUME Bad # {} PROVE FALSE
    OBVIOUS
  <1>2. PICK T \in Bad : \A U \in Bad : U \subseteq T => U = T
    <2>1. Bad \in SUBSET (SUBSET S)
      OBVIOUS
    <2> HIDE DEF Bad
    <2> QED
      BY <1>1, <2>1, SmallestSet
  <1>3. CASE T = {}
    <2>1. Additive([U \in SUBSET {} |-> 0], g, {})
      BY DEF Additive
    <2> QED
      BY <1>2, <1>3, <2>1
  <1>4. CASE T # {}
    <2>1. PICK a \in T : TRUE
      BY <1>4
    <2>2. T \ {a} \notin Bad
      BY <1>2, <2>1
    <2>3. PICK F : Additive(F, g, T \ {a})
      BY <1>2, <2>2
    <2> DEFINE G == [U \in SUBSET T |-> IF a \in U THEN F[U \ {a}] + g[a] ELSE F[U]]
    <2>4. \A U \in SUBSET T : a \notin U => U \in SUBSET (T \ {a})
      OBVIOUS
    <2>5. \A U \in SUBSET T : U \ {a} \in SUBSET (T \ {a})
      OBVIOUS
    <2>6. G \in [SUBSET T -> Int] /\ G[{}] = 0
      BY <1>2, <2>1, <2>3, <2>4, <2>5 DEF Additive
    <2>7. ASSUME NEW U \in SUBSET T, NEW x \in T \ U PROVE G[U \cup {x}] = G[U] + g[x]
      <3>1. g[x] \in Int /\ g[a] \in Int
        BY <1>2, <2>1
      <3>2. U \cup {x} \in SUBSET T
        OBVIOUS
      <3>3. CASE x = a
        <4>1. (U \cup {x}) \ {a} = U /\ U \in SUBSET (T \ {a})
          BY <3>3
        <4> QED
          BY <2>7, <3>2, <3>3, <4>1
      <3>4. CASE x # a /\ a \in U
        <4>1. (U \cup {x}) \ {a} = (U \ {a}) \cup {x} /\ x \in (T \ {a}) \ (U \ {a})
          BY <3>4
        <4>2. F[(U \ {a}) \cup {x}] = F[U \ {a}] + g[x] /\ F[U \ {a}] \in Int
          BY <2>3, <2>5, <4>1 DEF Additive
        <4>3. G[U \cup {x}] = F[(U \ {a}) \cup {x}] + g[a] /\ G[U] = F[U \ {a}] + g[a]
          BY <2>7, <3>2, <3>4, <4>1
        <4> QED
          BY <3>1, <4>2, <4>3
      <3>5. CASE x # a /\ a \notin U
        <4>1. x \in (T \ {a}) \ U /\ a \notin U \cup {x} /\ U \in SUBSET (T \ {a})
          BY <3>5
        <4>2. F[U \cup {x}] = F[U] + g[x]
          BY <2>3, <4>1 DEF Additive
        <4> QED
          BY <2>7, <3>2, <3>5, <4>1, <4>2
      <3> QED
        BY <3>3, <3>4, <3>5
    <2> HIDE DEF G
    <2>8. Additive(G, g, T)
      BY <2>6, <2>7 DEF Additive
    <2> QED
      BY <1>2, <2>8
  <1> QED
    BY <1>3, <1>4

\* The fold is that function, whatever it chooses.
LEMMA SumIsAdditive ==
  ASSUME NEW S, IsFiniteSet(S), NEW g, \A x \in S : g[x] \in Int, NEW F, Additive(F, g, S)
  PROVE  SumFunctionOnSet(g, S) = F[S]
  <1> DEFINE Iter(f) == f = [s \in SUBSET S |->
                               IF s = {} THEN 0
                               ELSE g[CHOOSE x \in s : TRUE] + f[s \ {CHOOSE x \in s : TRUE}]]
             iter == CHOOSE f : Iter(f)
  <1>1. SumFunctionOnSet(g, S) = iter[S]
    BY DEF SumFunctionOnSet, FoldFunctionOnSet, MapThenFoldSet
  <1>2. Iter(F)
    <2>1. ASSUME NEW s \in SUBSET S, s # {}
          PROVE  F[s] = g[CHOOSE x \in s : TRUE] + F[s \ {CHOOSE x \in s : TRUE}]
      <3> DEFINE x == CHOOSE x \in s : TRUE
      <3>1. x \in s
        BY <2>1
      <3> HIDE DEF x
      <3>2. (s \ {x}) \cup {x} = s /\ x \in S \ (s \ {x}) /\ s \ {x} \in SUBSET S
        BY <3>1
      <3>3. F[s] = F[s \ {x}] + g[x]
        BY <3>2 DEF Additive
      <3>4. F[s \ {x}] \in Int /\ g[x] \in Int
        BY <3>2 DEF Additive
      <3>5. F[s] = g[x] + F[s \ {x}]
        BY <3>3, <3>4
      <3> QED
        BY <3>5 DEF x
    <2> QED
      BY <2>1 DEF Additive
  <1>3. Iter(iter)
    BY <1>2
  <1> HIDE DEF iter
  <1> DEFINE Bad == {s \in SUBSET S : iter[s] # F[s]}
  <1>4. SUFFICES ASSUME Bad # {} PROVE FALSE
    BY <1>1
  <1>5. PICK s \in Bad : \A r \in Bad : r \subseteq s => r = s
    <2>1. Bad \in SUBSET (SUBSET S)
      OBVIOUS
    <2> HIDE DEF Bad
    <2> QED
      BY <1>4, <2>1, SmallestSet
  <1>6. CASE s = {}
    BY <1>3, <1>5, <1>6 DEF Additive
  <1>7. CASE s # {}
    <2> DEFINE x == CHOOSE x \in s : TRUE
    <2>1. x \in s
      BY <1>7
    <2>2. iter[s] = g[x] + iter[s \ {x}] /\ F[s] = g[x] + F[s \ {x}]
      BY <1>2, <1>3, <1>5, <1>7
    <2> HIDE DEF x
    <2>3. iter[s \ {x}] = F[s \ {x}]
      BY <1>5, <2>1
    <2> QED
      BY <1>5, <2>2, <2>3
  <1> QED
    BY <1>6, <1>7

-----------------------------------------------------------------------------
\* What is used of sums: they are integers, count each element once, and depend on the
\* values over the set only.
LEMMA SumType ==
  ASSUME NEW S, IsFiniteSet(S), NEW g, \A x \in S : g[x] \in Int
  PROVE  SumFunctionOnSet(g, S) \in Int
  <1>1. PICK F : Additive(F, g, S)
    BY AdditiveExists
  <1>2. F[S] \in Int
    BY <1>1 DEF Additive
  <1> QED
    BY <1>1, <1>2, SumIsAdditive

LEMMA SumEmpty == ASSUME NEW g PROVE SumFunctionOnSet(g, {}) = 0
  <1>1. IsFiniteSet({}) /\ \A x \in {} : g[x] \in Int
    BY FS_EmptySet
  <1>2. PICK F : Additive(F, g, {})
    BY <1>1, AdditiveExists
  <1> QED
    BY <1>1, <1>2, SumIsAdditive DEF Additive

LEMMA SumAdd ==
  ASSUME NEW S, IsFiniteSet(S), NEW a, a \notin S, NEW g, \A x \in S \cup {a} : g[x] \in Int
  PROVE  SumFunctionOnSet(g, S \cup {a}) = SumFunctionOnSet(g, S) + g[a]
  <1>1. IsFiniteSet(S \cup {a})
    BY FS_AddElement
  <1>2. PICK F : Additive(F, g, S \cup {a})
    BY <1>1, AdditiveExists
  <1>3. Additive([T \in SUBSET S |-> F[T]], g, S)
    BY <1>2 DEF Additive
  <1>4. SumFunctionOnSet(g, S) = F[S]
    BY <1>3, SumIsAdditive
  <1>5. SumFunctionOnSet(g, S \cup {a}) = F[S \cup {a}]
    BY <1>1, <1>2, SumIsAdditive
  <1>6. F[S \cup {a}] = F[S] + g[a]
    BY <1>2 DEF Additive
  <1> QED
    BY <1>4, <1>5, <1>6

LEMMA SumSame ==
  ASSUME NEW S, IsFiniteSet(S), NEW g, NEW h, \A x \in S : g[x] \in Int /\ h[x] = g[x]
  PROVE  SumFunctionOnSet(h, S) = SumFunctionOnSet(g, S)
  <1>1. PICK F : Additive(F, g, S)
    BY AdditiveExists
  <1>2. Additive(F, h, S)
    BY <1>1 DEF Additive
  <1> QED
    BY <1>1, <1>2, SumIsAdditive

\* One element may be taken out of a sum, or change in it.
LEMMA SumRemove ==
  ASSUME NEW S, IsFiniteSet(S), NEW a \in S, NEW g, \A x \in S : g[x] \in Int
  PROVE  SumFunctionOnSet(g, S) = SumFunctionOnSet(g, S \ {a}) + g[a]
  <1>1. IsFiniteSet(S \ {a}) /\ a \notin S \ {a} /\ (S \ {a}) \cup {a} = S
    BY FS_RemoveElement
  <1>2. \A x \in (S \ {a}) \cup {a} : g[x] \in Int
    BY <1>1
  <1>3. SumFunctionOnSet(g, (S \ {a}) \cup {a}) = SumFunctionOnSet(g, S \ {a}) + g[a]
    BY <1>1, <1>2, SumAdd
  <1> QED
    BY <1>1, <1>3

\* A sum grows with its set when no value is negative.
LEMMA SumGrows ==
  ASSUME NEW T, IsFiniteSet(T), NEW S \in SUBSET T, NEW g, \A x \in T : g[x] \in Nat
  PROVE  SumFunctionOnSet(g, S) <= SumFunctionOnSet(g, T)
  <1> DEFINE sum(U) == SumFunctionOnSet(g, U)
             Bad == {U \in SUBSET T : S \subseteq U /\ ~ sum(S) <= sum(U)}
  <1>1. \A U \in SUBSET T : IsFiniteSet(U) /\ sum(U) \in Int
    <2> SUFFICES ASSUME NEW U \in SUBSET T PROVE IsFiniteSet(U) /\ sum(U) \in Int
      OBVIOUS
    <2>1. IsFiniteSet(U)
      BY FS_Subset
    <2>2. \A x \in U : g[x] \in Int
      OBVIOUS
    <2> QED
      BY <2>1, <2>2, SumType
  <1>2. SUFFICES ASSUME Bad # {} PROVE FALSE
    OBVIOUS
  <1>3. PICK U \in Bad : \A V \in Bad : V \subseteq U => V = U
    <2>1. Bad \in SUBSET (SUBSET T)
      OBVIOUS
    <2> HIDE DEF Bad
    <2> QED
      BY <1>2, <2>1, SmallestSet
  <1>4. PICK a \in U : a \notin S
    <2>1. S # U
      <3>1. sum(S) <= sum(S)
        BY <1>1
      <3> QED
        BY <1>3, <3>1
    <2> QED
      BY <1>3, <2>1
  <1>5. sum(U) = sum(U \ {a}) + g[a]
    <2>1. IsFiniteSet(U) /\ \A x \in U : g[x] \in Int
      BY <1>1, <1>3
    <2> QED
      BY <2>1, <1>4, SumRemove
  <1>6. sum(S) <= sum(U \ {a})
    BY <1>3, <1>4
  <1>7. sum(S) \in Int /\ sum(U) \in Int /\ sum(U \ {a}) \in Int /\ g[a] \in Nat
    BY <1>1, <1>3, <1>4
  <1> HIDE DEF sum
  <1> QED
    BY <1>3, <1>5, <1>6, <1>7

LEMMA SumNat ==
  ASSUME NEW S, IsFiniteSet(S), NEW g, \A x \in S : g[x] \in Nat
  PROVE  SumFunctionOnSet(g, S) \in Nat
  <1>1. SumFunctionOnSet(g, {}) <= SumFunctionOnSet(g, S)
    BY SumGrows
  <1>2. SumFunctionOnSet(g, S) \in Int
    BY SumType
  <1> QED
    BY <1>1, <1>2, SumEmpty

----------------------------------------------------------------------------
(* Least and greatest elements                                             *)

LEMMA MinOfTwo ==
  ASSUME NEW a \in Int, NEW b \in Int PROVE Min({a, b}) = IF a <= b THEN a ELSE b
  BY DEF Min

LEMMA MaxOfTwo ==
  ASSUME NEW a \in Int, NEW b \in Int PROVE Max({a, b}) = IF a >= b THEN a ELSE b
  BY DEF Max

\* A finite set of numbers has a largest one.
LEMMA MaxExists ==
  ASSUME NEW S, IsFiniteSet(S), S # {}, \A x \in S : x \in Nat
  PROVE  \E m \in S : \A n \in S : n <= m
  <1> DEFINE from(m) == {n \in S : n >= m}
             T == {from(m) : m \in S}
  <1>1. T \in SUBSET (SUBSET S)
    OBVIOUS
  <1>6. T # {}
    OBVIOUS
  <1> HIDE DEF T
  <1>2. \E U \in T : \A V \in T : V \subseteq U => V = U
    BY <1>1, <1>6, SmallestSet
  <1>5. PICK U \in T : \A V \in T : V \subseteq U => V = U
    BY <1>2
  <1>3. PICK m \in S : U = from(m)
    BY DEF T
  <1>4. ASSUME NEW n \in S PROVE n <= m
    <2>1. CASE n >= m
      <3>1. from(n) \in T
        BY DEF T
      <3>2. from(n) \subseteq from(m)
        <4>1. ASSUME NEW k \in S, k >= n PROVE k >= m
          BY <2>1, <4>1
        <4> QED
          BY <4>1
      <3>3. from(n) = from(m)
        BY <1>3, <1>5, <3>1, <3>2
      <3>4. m \in from(m)
        OBVIOUS
      <3> QED
        BY <3>3, <3>4
    <2> QED
      BY <2>1
  <1> QED
    BY <1>4

LEMMA MaxType ==
  ASSUME NEW S, IsFiniteSet(S), S # {}, \A x \in S : x \in Nat
  PROVE  Max(S) \in S
  BY MaxExists DEF Max

LEMMA MinExists ==
  ASSUME NEW S, IsFiniteSet(S), S # {}, \A x \in S : x \in Nat
  PROVE  \E m \in S : \A n \in S : m <= n
  <1> DEFINE upto(m) == {n \in S : n <= m}
             T == {upto(m) : m \in S}
  <1>1. T \in SUBSET (SUBSET S)
    OBVIOUS
  <1>2. T # {}
    OBVIOUS
  <1> HIDE DEF T
  <1>3. \E U \in T : \A V \in T : V \subseteq U => V = U
    BY <1>1, <1>2, SmallestSet
  <1>4. PICK U \in T : \A V \in T : V \subseteq U => V = U
    BY <1>3
  <1>5. PICK m \in S : U = upto(m)
    BY DEF T
  <1>6. ASSUME NEW n \in S PROVE m <= n
    <2>1. CASE n <= m
      <3>1. upto(n) \in T
        BY DEF T
      <3>2. upto(n) \subseteq upto(m)
        <4>1. ASSUME NEW k \in S, k <= n PROVE k <= m
          BY <2>1, <4>1
        <4> QED
          BY <4>1
      <3>3. upto(n) = upto(m)
        BY <1>4, <1>5, <3>1, <3>2
      <3>4. m \in upto(m)
        OBVIOUS
      <3> QED
        BY <3>3, <3>4
    <2> QED
      BY <2>1
  <1> QED
    BY <1>6

----------------------------------------------------------------------------
(* Sums of sums                                                            *)

LEMMA SumZero ==
  ASSUME NEW S, IsFiniteSet(S), NEW g, \A x \in S : g[x] = 0
  PROVE  SumFunctionOnSet(g, S) = 0
  <1> DEFINE F == [T \in SUBSET S |-> 0]
  <1>1. Additive(F, g, S)
    BY DEF Additive
  <1> HIDE DEF F
  <1>2. SumFunctionOnSet(g, S) = F[S]
    BY <1>1, SumIsAdditive
  <1> QED
    BY <1>2 DEF F

LEMMA SumPlus ==
  ASSUME NEW S, IsFiniteSet(S), NEW g, NEW h, NEW k,
         \A x \in S : g[x] \in Int /\ h[x] \in Int /\ k[x] = g[x] + h[x]
  PROVE  SumFunctionOnSet(k, S) = SumFunctionOnSet(g, S) + SumFunctionOnSet(h, S)
  <1>1. PICK F : Additive(F, g, S)
    BY AdditiveExists
  <1>2. PICK G : Additive(G, h, S)
    BY AdditiveExists
  <1> DEFINE H == [T \in SUBSET S |-> F[T] + G[T]]
  <1>3. Additive(H, k, S)
    <2>1. H \in [SUBSET S -> Int] /\ H[{}] = 0
      BY <1>1, <1>2 DEF Additive
    <2>2. ASSUME NEW T \in SUBSET S, NEW x \in S \ T PROVE H[T \cup {x}] = H[T] + k[x]
      <3>1. F[T \cup {x}] = F[T] + g[x] /\ G[T \cup {x}] = G[T] + h[x]
        BY <1>1, <1>2 DEF Additive
      <3>2. F[T] \in Int /\ G[T] \in Int /\ g[x] \in Int /\ h[x] \in Int /\ k[x] = g[x] + h[x]
        BY <1>1, <1>2 DEF Additive
      <3>3. H[T \cup {x}] = F[T \cup {x}] + G[T \cup {x}] /\ H[T] = F[T] + G[T]
        OBVIOUS
      <3> HIDE DEF H
      <3> QED
        BY <3>1, <3>2, <3>3
    <2> HIDE DEF H
    <2> QED
      BY <2>1, <2>2 DEF Additive
  <1>4. SumFunctionOnSet(g, S) = F[S] /\ SumFunctionOnSet(h, S) = G[S]
    BY <1>1, <1>2, SumIsAdditive
  <1> HIDE DEF H
  <1>5. SumFunctionOnSet(k, S) = H[S]
    <2>1. \A x \in S : k[x] \in Int
      OBVIOUS
    <2> QED
      BY <1>3, <2>1, SumIsAdditive
  <1> QED
    BY <1>4, <1>5 DEF H

\* A sum grows with its values.
LEMMA SumLeq ==
  ASSUME NEW S, IsFiniteSet(S), NEW g, NEW h, \A x \in S : g[x] \in Int /\ h[x] \in Int /\ g[x] <= h[x]
  PROVE  SumFunctionOnSet(g, S) <= SumFunctionOnSet(h, S)
  <1> DEFINE d == [x \in S |-> h[x] - g[x]]
  <1>1. \A x \in S : d[x] \in Nat /\ h[x] = g[x] + d[x] /\ g[x] \in Int /\ d[x] \in Int
    OBVIOUS
  <1> HIDE DEF d
  <1>2. SumFunctionOnSet(h, S) = SumFunctionOnSet(g, S) + SumFunctionOnSet(d, S)
    BY <1>1, SumPlus
  <1>3. SumFunctionOnSet(d, S) \in Nat
    BY <1>1, SumNat
  <1>4. SumFunctionOnSet(g, S) \in Int
    BY SumType
  <1> QED
    BY <1>2, <1>3, <1>4

LEMMA SumUnion ==
  ASSUME NEW S, IsFiniteSet(S), NEW T, IsFiniteSet(T), S \cap T = {}, NEW g, \A x \in S \cup T : g[x] \in Int
  PROVE  SumFunctionOnSet(g, S \cup T) = SumFunctionOnSet(g, S) + SumFunctionOnSet(g, T)
  <1>1. IsFiniteSet(S \cup T)
    BY FS_Union
  <1>2. PICK F : Additive(F, g, S \cup T)
    BY <1>1, AdditiveExists
  <1> DEFINE G == [U \in SUBSET T |-> F[S \cup U] - F[S]]
             H == [U \in SUBSET S |-> F[U]]
  <1>3. F[S] \in Int /\ F[S \cup T] \in Int
    BY <1>2 DEF Additive
  <1>4. Additive(G, g, T)
    <2>1. G \in [SUBSET T -> Int]
      BY <1>2 DEF Additive
    <2>2. G[{}] = 0
      <3>1. S \cup {} = S
        OBVIOUS
      <3> QED
        BY <1>3, <3>1
    <2>3. ASSUME NEW U \in SUBSET T, NEW x \in T \ U PROVE G[U \cup {x}] = G[U] + g[x]
      <3>1. S \cup (U \cup {x}) = (S \cup U) \cup {x} /\ x \in (S \cup T) \ (S \cup U)
        OBVIOUS
      <3>2. F[(S \cup U) \cup {x}] = F[S \cup U] + g[x] /\ F[S \cup U] \in Int /\ g[x] \in Int
        BY <1>2, <3>1 DEF Additive
      <3>3. G[U \cup {x}] = F[S \cup (U \cup {x})] - F[S] /\ G[U] = F[S \cup U] - F[S]
        OBVIOUS
      <3>4. F[S \cup (U \cup {x})] = F[S \cup U] + g[x]
        BY <3>1, <3>2
      <3> HIDE DEF G
      <3> QED
        BY <1>3, <3>2, <3>3, <3>4
    <2> HIDE DEF G
    <2> QED
      BY <2>1, <2>2, <2>3 DEF Additive
  <1>5. Additive(H, g, S)
    BY <1>2 DEF Additive
  <1> HIDE DEF G, H
  <1>6. \A x \in S : g[x] \in Int
    OBVIOUS
  <1>7. \A x \in T : g[x] \in Int
    OBVIOUS
  <1>8. SumFunctionOnSet(g, S) = H[S]
    BY <1>5, <1>6, SumIsAdditive
  <1>9. SumFunctionOnSet(g, T) = G[T]
    BY <1>4, <1>7, SumIsAdditive
  <1>10. SumFunctionOnSet(g, S \cup T) = F[S \cup T]
    BY <1>1, <1>2, SumIsAdditive
  <1> QED
    BY <1>3, <1>8, <1>9, <1>10 DEF G, H

\* Numbering the elements of a set anew does not change a sum over it.
LEMMA SumImage ==
  ASSUME NEW S, IsFiniteSet(S), NEW f, \A x, y \in S : x # y => f[x] # f[y],
         NEW g, NEW h, \A x \in S : g[f[x]] \in Int /\ h[x] = g[f[x]]
  PROVE  SumFunctionOnSet(g, {f[x] : x \in S}) = SumFunctionOnSet(h, S)
  <1> DEFINE image(U) == {f[x] : x \in U}
             I == image(S)
  <1>1. IsFiniteSet(I)
    <2> DEFINE fn == [x \in S |-> f[x]]
    <2>1. fn \in Surjection(S, I)
      BY DEF Surjection
    <2> HIDE DEF fn, I
    <2> QED
      BY <2>1, FS_Surjection
  <1>2. \A y \in I : g[y] \in Int
    OBVIOUS
  <1> HIDE DEF I
  <1>3. PICK F : Additive(F, g, I)
    BY <1>1, <1>2, AdditiveExists
  <1> DEFINE H == [U \in SUBSET S |-> F[image(U)]]
  <1>4. Additive(H, h, S)
    <2>1. \A U \in SUBSET S : image(U) \in SUBSET I
      BY DEF I
    <2>2. H \in [SUBSET S -> Int]
      BY <1>3, <2>1 DEF Additive
    <2>3. H[{}] = 0
      <3>1. image({}) = {}
        OBVIOUS
      <3> QED
        BY <1>3, <3>1 DEF Additive
    <2>4. ASSUME NEW U \in SUBSET S, NEW x \in S \ U PROVE H[U \cup {x}] = H[U] + h[x]
      <3>1. image(U \cup {x}) = image(U) \cup {f[x]}
        OBVIOUS
      <3>2. f[x] \in I \ image(U)
        BY DEF I
      <3> HIDE DEF image
      <3>3. F[image(U) \cup {f[x]}] = F[image(U)] + g[f[x]]
        BY <1>3, <2>1, <3>2 DEF Additive
      <3> QED
        BY <3>1, <3>3
    <2> HIDE DEF H
    <2> QED
      BY <2>2, <2>3, <2>4 DEF Additive
  <1>5. \A x \in S : h[x] \in Int
    OBVIOUS
  <1>6. SumFunctionOnSet(g, I) = F[I]
    BY <1>1, <1>2, <1>3, SumIsAdditive
  <1> HIDE DEF H
  <1>7. SumFunctionOnSet(h, S) = H[S]
    BY <1>4, <1>5, SumIsAdditive
  <1> QED
    BY <1>6, <1>7 DEF H, I

=============================================================================
