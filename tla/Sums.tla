-------------------------------- MODULE Sums --------------------------------
(***************************************************************************)
(* Facts about SumFunctionOnSet, the community operator with which the     *)
(* models add up volumes, balances, fills and attempts.  They are proved   *)
(* by induction over the subsets of a finite set, in the form that needs   *)
(* no operator as a parameter: a family of subsets of a finite set that is *)
(* not empty has a minimal member (LeastSubset), so the set of             *)
(* counterexamples to a claim, if there is one, has a least one, and       *)
(* taking one element out of it gives a smaller one.  The last lemma uses  *)
(* the same argument for the largest and the smallest of a set of numbers. *)
(***************************************************************************)
EXTENDS Integers, FiniteSetTheorems, FunctionTheorems, TLAPS

\* The element by which the fold of the library splits a set.
Pick(s) == CHOOSE x \in s : TRUE

\* g is the function on the subsets of S that the fold defines.
Adds(g, f, S) ==
  g = [s \in SUBSET S |-> IF s = {} THEN 0 ELSE f[Pick(s)] + g[s \ {Pick(s)}]]

(* SumFunctionOnSet, its folds unfolded, picks such a function.            *)
LEMMA SumUnfold ==
  ASSUME NEW f, NEW S
  PROVE  SumFunctionOnSet(f, S) = (CHOOSE g : Adds(g, f, S))[S]
  BY DEF SumFunctionOnSet, FoldFunctionOnSet, MapThenFoldSet, Adds, Pick

(* A subset of a finite set that is minimal among those with a property.   *)
LEMMA LeastSubset ==
  ASSUME NEW S, IsFiniteSet(S), NEW F \in SUBSET SUBSET S, F # {}
  PROVE  \E T \in F : \A U \in F : U \subseteq T => U = T
  <1>1. IsWellFoundedOn(StrictSubsetOrdering(S), FiniteSubsetsOf(S))
    BY FS_StrictSubsetOrderingWellFounded
  <1>2. F \subseteq FiniteSubsetsOf(S)
    BY FS_FiniteSubsetsOfFinite
  <1>3. PICK T \in F : \A U \in F : ~(<<U, T>> \in StrictSubsetOrdering(S))
    BY <1>1, <1>2, WFMin
  <1>4. QED
    BY <1>3 DEF StrictSubsetOrdering

(* Two such functions, one for a set and one for a subset of it, agree on  *)
(* the subset.                                                             *)
LEMMA AddsUnique ==
  ASSUME NEW S, IsFiniteSet(S), NEW T \in SUBSET S, NEW f,
         NEW g, Adds(g, f, S), NEW h, Adds(h, f, T)
  PROVE  g[T] = h[T]
  <1> DEFINE Bad == {s \in SUBSET T : g[s] # h[s]}
  <1>1. SUFFICES ASSUME Bad # {} PROVE FALSE
    BY DEF Bad
  <1>2. Bad \in SUBSET SUBSET S
    OBVIOUS
  <1>3. PICK s \in Bad : \A u \in Bad : u \subseteq s => u = s
    <2> HIDE DEF Bad
    <2> QED BY <1>1, <1>2, LeastSubset
  <1>4. s \in SUBSET S /\ s \in SUBSET T /\ g[s] # h[s]
    OBVIOUS
  <1>5. s # {}
    BY <1>4 DEF Adds
  <1>6. Pick(s) \in s
    BY <1>5 DEF Pick
  <1>7. g[s \ {Pick(s)}] = h[s \ {Pick(s)}]
    BY <1>3, <1>6
  <1>8. QED
    BY <1>4, <1>5, <1>7 DEF Adds

(* Such a function exists for every finite set, so what the library        *)
(* chooses is one.                                                         *)
LEMMA AddsExists ==
  ASSUME NEW S, IsFiniteSet(S), NEW f
  PROVE  \E g : Adds(g, f, S)
  <1> DEFINE Bad == {s \in SUBSET S : ~\E g : Adds(g, f, s)}
  <1>1. SUFFICES ASSUME Bad # {} PROVE FALSE
    OBVIOUS
  <1>3. PICK T \in Bad : \A u \in Bad : u \subseteq T => u = T
    <2>1. Bad \in SUBSET SUBSET S
      OBVIOUS
    <2> HIDE DEF Bad
    <2> QED BY <1>1, <2>1, LeastSubset
  <1> DEFINE c(s) == CHOOSE g : Adds(g, f, s)
             val(s) == c(s)[s]
             rest(s) == s \ {Pick(s)}
             k == [s \in SUBSET T |->
                     IF s = {} THEN 0 ELSE f[Pick(s)] + val(rest(s))]
  <1>4. ASSUME NEW s \in SUBSET T, s # {} PROVE Adds(c(rest(s)), f, rest(s))
    <2>1. Pick(s) \in s
      BY <1>4 DEF Pick
    <2>2. rest(s) # T /\ rest(s) \in SUBSET S /\ rest(s) \subseteq T
      BY <2>1
    <2>3. \E g : Adds(g, f, rest(s))
      BY <2>2, <1>3
    <2>4. QED
      BY <2>3
  <1>5. ASSUME NEW s \in SUBSET T, s # {} PROVE k[rest(s)] = val(rest(s))
    <2> DEFINE r == rest(s)
    <2>1. Adds(c(r), f, r)
      BY <1>4, <1>5
    <2>2. r \in SUBSET T
      OBVIOUS
    <2>3. CASE r = {}
      <3>1. val(r) = 0
        BY <2>1, <2>3 DEF Adds
      <3>2. QED BY <2>2, <2>3, <3>1
    <2>4. CASE r # {}
      <3>1. val(r) = f[Pick(r)] + c(r)[rest(r)]
        <4> HIDE DEF r
        <4> QED BY <2>1, <2>4 DEF Adds
      <3>2. Adds(c(rest(r)), f, rest(r))
        BY <1>4, <2>2, <2>4
      <3>3. IsFiniteSet(r)
        BY FS_Subset
      <3>4. c(r)[rest(r)] = val(rest(r))
        <4>1. rest(r) \in SUBSET r
          OBVIOUS
        <4> HIDE DEF r, c, rest
        <4> QED BY <4>1, <2>1, <3>2, <3>3, AddsUnique
      <3>5. QED
        BY <2>2, <2>4, <3>1, <3>4
    <2>5. QED BY <2>3, <2>4
  <1>6. k = [s \in SUBSET T |-> IF s = {} THEN 0 ELSE f[Pick(s)] + k[s \ {Pick(s)}]]
    <2> HIDE DEF val
    <2> QED BY <1>5
  <1>7. Adds(k, f, T)
    BY <1>6 DEF Adds
  <1>8. QED
    BY <1>3, <1>7

-----------------------------------------------------------------------------
(* What SumFunctionOnSet computes.                                         *)

(* The sum over no index is 0.                                             *)
LEMMA SumEmpty == ASSUME NEW f PROVE SumFunctionOnSet(f, {}) = 0
  <1>1. Adds(CHOOSE g : Adds(g, f, {}), f, {})
    BY AddsExists, FS_EmptySet
  <1>2. QED
    BY <1>1, SumUnfold DEF Adds

(* The sum over a set splits at the element the library picks.             *)
LEMMA SumPicked ==
  ASSUME NEW f, NEW S, IsFiniteSet(S), S # {}
  PROVE  SumFunctionOnSet(f, S)
           = f[Pick(S)] + SumFunctionOnSet(f, S \ {Pick(S)})
  <1> DEFINE T == S \ {Pick(S)}
             c(s) == CHOOSE g : Adds(g, f, s)
  <1>1. Adds(c(S), f, S)
    BY AddsExists
  <1>2. IsFiniteSet(T) /\ T \in SUBSET S
    BY FS_Subset
  <1>3. Adds(c(T), f, T)
    BY <1>2, AddsExists
  <1>4. c(S)[T] = c(T)[T]
    <2> HIDE DEF T, c
    <2> QED BY <1>1, <1>2, <1>3, AddsUnique
  <1>5. c(S)[S] = f[Pick(S)] + c(S)[T]
    <2> HIDE DEF c
    <2> QED BY <1>1 DEF Adds
  <1>6. QED
    BY <1>4, <1>5, SumUnfold

(* A finite sum of integers is an integer.                                 *)
LEMMA SumInt ==
  ASSUME NEW S, IsFiniteSet(S), NEW f, \A x \in S : f[x] \in Int
  PROVE  SumFunctionOnSet(f, S) \in Int
  <1> DEFINE Bad == {s \in SUBSET S : SumFunctionOnSet(f, s) \notin Int}
  <1>1. SUFFICES ASSUME Bad # {} PROVE FALSE
    OBVIOUS
  <1>2. PICK T \in Bad : \A u \in Bad : u \subseteq T => u = T
    <2>1. Bad \in SUBSET SUBSET S
      OBVIOUS
    <2> HIDE DEF Bad
    <2> QED BY <1>1, <2>1, LeastSubset
  <1>3. T # {} /\ IsFiniteSet(T)
    <2>1. SumFunctionOnSet(f, {}) \in Int
      BY SumEmpty
    <2>2. {} \notin Bad
      BY <2>1
    <2>3. IsFiniteSet(T)
      BY FS_Subset
    <2>4. QED
      BY <2>2, <2>3
  <1>4. Pick(T) \in T
    BY <1>3 DEF Pick
  <1>5. SumFunctionOnSet(f, T \ {Pick(T)}) \in Int
    BY <1>2, <1>4
  <1>6. QED
    BY <1>3, <1>4, <1>5, SumPicked

(* Any element may be taken out of a sum.                                  *)
LEMMA SumTake ==
  ASSUME NEW S, IsFiniteSet(S), NEW f, \A x \in S : f[x] \in Int,
         NEW a \in S
  PROVE  SumFunctionOnSet(f, S) = f[a] + SumFunctionOnSet(f, S \ {a})
  <1> DEFINE Sum(s) == SumFunctionOnSet(f, s)
             Bad == {s \in SUBSET S :
                       \E x \in s : Sum(s) # f[x] + Sum(s \ {x})}
  <1>1. SUFFICES ASSUME Bad # {} PROVE FALSE
    OBVIOUS
  <1>2. PICK T \in Bad : \A u \in Bad : u \subseteq T => u = T
    <2>1. Bad \in SUBSET SUBSET S
      OBVIOUS
    <2> HIDE DEF Bad
    <2> QED BY <1>1, <2>1, LeastSubset
  <1>3. PICK x \in T : Sum(T) # f[x] + Sum(T \ {x})
    BY <1>2
  <1> DEFINE p == Pick(T)
             R == (T \ {x}) \ {p}
  <1>4. p \in T
    BY <1>3 DEF Pick
  <1>5. IsFiniteSet(T) /\ IsFiniteSet(R) /\ \A y \in T : f[y] \in Int
    BY FS_Subset
  <1>6. Sum(T) = f[p] + Sum(T \ {p})
    BY <1>3, <1>5, SumPicked
  <1>7. x # p
    BY <1>3, <1>6
  <1>a. ASSUME NEW u \in SUBSET T, u # T, NEW y \in u
        PROVE  Sum(u) = f[y] + Sum(u \ {y})
    <2>1. u \notin Bad /\ u \in SUBSET S
      <3> HIDE DEF Sum
      <3> QED BY <1>2, <1>a
    <2>2. QED
      <3> HIDE DEF Sum
      <3> QED BY <2>1
  <1>8. Sum(T \ {p}) = f[x] + Sum((T \ {p}) \ {x})
    <2>1. T \ {p} \in SUBSET T /\ T \ {p} # T /\ x \in T \ {p}
      BY <1>4, <1>7
    <2> HIDE DEF Sum, p
    <2> QED BY <1>a, <2>1
  <1>9. Sum(T \ {x}) = f[p] + Sum(R)
    <2>1. T \ {x} \in SUBSET T /\ T \ {x} # T /\ p \in T \ {x}
      BY <1>4, <1>7
    <2> HIDE DEF Sum, p
    <2> QED BY <1>a, <2>1
  <1>10. R = (T \ {p}) \ {x}
    OBVIOUS
  <1>11. Sum(R) \in Int
    BY <1>5, SumInt
  <1> HIDE DEF Sum, R, p
  <1>12. f[x] \in Int /\ f[p] \in Int
    BY <1>4, <1>5
  <1>13. Sum(T) = f[p] + (f[x] + Sum(R))
    BY <1>6, <1>8, <1>10
  <1>14. Sum(T \ {x}) = f[p] + Sum(R)
    BY <1>9
  <1>15. QED
    BY <1>3, <1>11, <1>12, <1>13, <1>14

(* Adding an element.                                                      *)
LEMMA SumAdd ==
  ASSUME NEW S, IsFiniteSet(S), NEW a, a \notin S,
         NEW f, \A x \in S \cup {a} : f[x] \in Int
  PROVE  SumFunctionOnSet(f, S \cup {a}) = SumFunctionOnSet(f, S) + f[a]
  <1>1. IsFiniteSet(S \cup {a})
    BY FS_AddElement
  <1>2. SumFunctionOnSet(f, S \cup {a})
          = f[a] + SumFunctionOnSet(f, (S \cup {a}) \ {a})
    BY <1>1, SumTake
  <1>3. (S \cup {a}) \ {a} = S
    OBVIOUS
  <1>4. SumFunctionOnSet(f, S) \in Int /\ f[a] \in Int
    BY SumInt
  <1>5. SumFunctionOnSet(f, S \cup {a}) = f[a] + SumFunctionOnSet(f, S)
    BY <1>2, <1>3
  <1>6. QED
    BY <1>4, <1>5

(* Functions that agree on a set have the same sum there.                  *)
LEMMA SumAgree ==
  ASSUME NEW S, IsFiniteSet(S), NEW f, NEW g, \A x \in S : f[x] = g[x]
  PROVE  SumFunctionOnSet(f, S) = SumFunctionOnSet(g, S)
  <1> DEFINE Bad == {s \in SUBSET S :
                       SumFunctionOnSet(f, s) # SumFunctionOnSet(g, s)}
  <1>1. SUFFICES ASSUME Bad # {} PROVE FALSE
    OBVIOUS
  <1>2. PICK T \in Bad : \A u \in Bad : u \subseteq T => u = T
    <2>1. Bad \in SUBSET SUBSET S
      OBVIOUS
    <2> HIDE DEF Bad
    <2> QED BY <1>1, <2>1, LeastSubset
  <1>3. T # {} /\ IsFiniteSet(T)
    <2>1. SumFunctionOnSet(f, {}) = SumFunctionOnSet(g, {})
      BY SumEmpty
    <2>2. {} \notin Bad
      BY <2>1
    <2>3. IsFiniteSet(T)
      BY FS_Subset
    <2>4. QED
      BY <2>2, <2>3
  <1>4. Pick(T) \in T
    BY <1>3 DEF Pick
  <1>5. SumFunctionOnSet(f, T \ {Pick(T)}) = SumFunctionOnSet(g, T \ {Pick(T)})
    BY <1>2, <1>4
  <1>6. QED
    BY <1>2, <1>3, <1>4, <1>5, SumPicked

(* Sums are monotone in the summands.                                      *)
LEMMA SumMonotone ==
  ASSUME NEW S, IsFiniteSet(S), NEW f, NEW g,
         \A x \in S : f[x] \in Int /\ g[x] \in Int /\ f[x] <= g[x]
  PROVE  SumFunctionOnSet(f, S) <= SumFunctionOnSet(g, S)
  <1> DEFINE F(s) == SumFunctionOnSet(f, s)
             G(s) == SumFunctionOnSet(g, s)
             Bad == {s \in SUBSET S : ~(F(s) <= G(s))}
  <1>1. SUFFICES ASSUME Bad # {} PROVE FALSE
    OBVIOUS
  <1>2. PICK T \in Bad : \A u \in Bad : u \subseteq T => u = T
    <2>1. Bad \in SUBSET SUBSET S
      OBVIOUS
    <2> HIDE DEF Bad
    <2> QED BY <1>1, <2>1, LeastSubset
  <1>3. T # {} /\ IsFiniteSet(T)
    <2>1. F({}) <= G({})
      BY SumEmpty
    <2>2. {} \notin Bad
      BY <2>1
    <2>3. IsFiniteSet(T)
      BY FS_Subset
    <2>4. QED
      BY <2>2, <2>3
  <1> DEFINE p == Pick(T)
             R == T \ {p}
  <1>4. p \in T
    BY <1>3 DEF Pick
  <1>5. F(R) <= G(R)
    BY <1>2, <1>4
  <1>6. F(R) \in Int /\ G(R) \in Int
    <2>1. IsFiniteSet(R)
      BY <1>3, FS_RemoveElement
    <2>2. QED
      BY <2>1, SumInt
  <1>7. F(T) = f[p] + F(R) /\ G(T) = g[p] + G(R)
    BY <1>3, SumPicked
  <1>8. f[p] \in Int /\ g[p] \in Int /\ f[p] <= g[p]
    BY <1>4
  <1>9. ~(F(T) <= G(T))
    BY <1>2
  <1> HIDE DEF F, G, p, R
  <1>10. QED
    BY <1>5, <1>6, <1>7, <1>8, <1>9

(* A finite sum of naturals is a natural.                                  *)
LEMMA SumNat ==
  ASSUME NEW S, IsFiniteSet(S), NEW f, \A x \in S : f[x] \in Nat
  PROVE  SumFunctionOnSet(f, S) \in Nat
  <1> DEFINE Bad == {s \in SUBSET S : SumFunctionOnSet(f, s) \notin Nat}
  <1>1. SUFFICES ASSUME Bad # {} PROVE FALSE
    OBVIOUS
  <1>2. PICK T \in Bad : \A u \in Bad : u \subseteq T => u = T
    <2>1. Bad \in SUBSET SUBSET S
      OBVIOUS
    <2> HIDE DEF Bad
    <2> QED BY <1>1, <2>1, LeastSubset
  <1>3. T # {} /\ IsFiniteSet(T)
    <2>1. SumFunctionOnSet(f, {}) \in Nat
      BY SumEmpty
    <2>2. {} \notin Bad
      BY <2>1
    <2>3. IsFiniteSet(T)
      BY FS_Subset
    <2>4. QED
      BY <2>2, <2>3
  <1>4. Pick(T) \in T
    BY <1>3 DEF Pick
  <1>5. SumFunctionOnSet(f, T \ {Pick(T)}) \in Nat
    BY <1>2, <1>4
  <1>6. QED
    BY <1>3, <1>4, <1>5, SumPicked

(* A natural summand is at most the sum.                                   *)
LEMMA SumAtLeast ==
  ASSUME NEW S, IsFiniteSet(S), NEW f, \A x \in S : f[x] \in Nat,
         NEW a \in S
  PROVE  f[a] <= SumFunctionOnSet(f, S)
  <1>1. IsFiniteSet(S \ {a})
    BY FS_RemoveElement
  <1>2. SumFunctionOnSet(f, S \ {a}) \in Nat
    BY <1>1, SumNat
  <1>3. SumFunctionOnSet(f, S) = f[a] + SumFunctionOnSet(f, S \ {a})
    BY SumTake
  <1>4. QED
    BY <1>2, <1>3

(* The sum over a set is that over any set in one-to-one correspondence.   *)
LEMMA SumRenamed ==
  ASSUME NEW S, IsFiniteSet(S), NEW T, NEW h \in Bijection(S, T),
         NEW f, \A y \in T : f[y] \in Int
  PROVE  SumFunctionOnSet(f, T) = SumFunctionOnSet([x \in S |-> f[h[x]]], S)
  <1> DEFINE g == [x \in S |-> f[h[x]]]
             image(s) == {h[x] : x \in s}
             Bad == {s \in SUBSET S :
                       SumFunctionOnSet(f, image(s)) # SumFunctionOnSet(g, s)}
  <1>0. /\ h \in [S -> T]
        /\ \A a, b \in S : h[a] = h[b] => a = b
        /\ \A t \in T : \E s \in S : h[s] = t
    BY Fun_BijectionProperties
  <1>f. IsFiniteSet(T)
    BY FS_Bijection DEF ExistsBijection
  <1>1. image(S) = T
    BY <1>0
  <1>2. SUFFICES ASSUME Bad # {} PROVE FALSE
    <2>1. CASE Bad = {}
      <3>1. S \notin Bad
        BY <2>1
      <3>2. SumFunctionOnSet(f, image(S)) = SumFunctionOnSet(g, S)
        BY <3>1
      <3>3. QED
        BY <1>1, <3>2
    <2>2. QED BY <2>1
  <1>3. PICK s \in Bad : \A u \in Bad : u \subseteq s => u = s
    <2>1. Bad \in SUBSET SUBSET S
      OBVIOUS
    <2> HIDE DEF Bad
    <2> QED BY <1>2, <2>1, LeastSubset
  <1>4. IsFiniteSet(s) /\ s \in SUBSET S
    BY FS_Subset
  <1>5. s # {}
    <2>1. image({}) = {}
      OBVIOUS
    <2>2. SumFunctionOnSet(f, image({})) = SumFunctionOnSet(g, {})
      BY <2>1, SumEmpty
    <2>3. QED
      BY <1>3, <2>2
  <1> DEFINE p == Pick(s)
             r == s \ {p}
  <1>6. p \in s
    BY <1>5 DEF Pick
  <1>7. SumFunctionOnSet(g, s) = g[p] + SumFunctionOnSet(g, r)
    BY <1>4, <1>5, SumPicked
  <1>8. SumFunctionOnSet(f, image(r)) = SumFunctionOnSet(g, r)
    BY <1>3, <1>6
  <1>9. image(r) = image(s) \ {h[p]} /\ h[p] \in image(s) /\ image(s) \subseteq T
    BY <1>0, <1>4, <1>6
  <1>10. IsFiniteSet(image(s))
    BY <1>9, <1>f, FS_Subset
  <1>11. SumFunctionOnSet(f, image(s)) = f[h[p]] + SumFunctionOnSet(f, image(s) \ {h[p]})
    <2>1. \A y \in image(s) : f[y] \in Int
      BY <1>9
    <2> HIDE DEF image, p
    <2> QED BY <1>9, <1>10, <2>1, SumTake
  <1>12. g[p] = f[h[p]]
    BY <1>4, <1>6
  <1>13. QED
    BY <1>3, <1>7, <1>8, <1>9, <1>11, <1>12

(* A finite set of numbers has a largest and a smallest.                   *)
LEMMA Extremes ==
  ASSUME NEW S, \A x \in S : x \in Nat, IsFiniteSet(S), S # {}
  PROVE  /\ \E m \in S : \A x \in S : x <= m
         /\ \E m \in S : \A x \in S : m <= x
<1> DEFINE up(x) == {y \in S : y >= x}
           down(x) == {y \in S : y <= x}
           U == {up(x) : x \in S}
           D == {down(x) : x \in S}
<1>11. U \in SUBSET SUBSET S
  OBVIOUS
<1>12. U # {}
  <2>1. PICK x \in S : TRUE
    OBVIOUS
  <2>2. up(x) \in U
    OBVIOUS
  <2> QED
    BY <2>2
<1>13. PICK T \in U : \A V \in U : V \subseteq T => V = T
  <2> HIDE DEF U
  <2> QED
    BY <1>11, <1>12, LeastSubset
<1>14. PICK m \in S : T = up(m)
  OBVIOUS
<1>15. \A x \in S : x <= m
  <2> SUFFICES ASSUME NEW x \in S, x > m PROVE FALSE
    OBVIOUS
  <2>1. x \in Nat /\ m \in Nat
    OBVIOUS
  <2>2. up(x) \subseteq up(m)
    <3> SUFFICES ASSUME NEW y \in S, y >= x PROVE y >= m
      OBVIOUS
    <3> QED
      BY <2>1, y \in Nat
  <2>3. up(x) \in U
    OBVIOUS
  <2>4. m \in up(m) /\ m \notin up(x)
    BY <2>1
  <2> HIDE DEF up, U
  <2>5. up(x) = up(m)
    BY <2>2, <2>3, <1>13, <1>14
  <2> QED
    BY <2>4, <2>5
<1>21. D \in SUBSET SUBSET S
  OBVIOUS
<1>22. D # {}
  <2>1. PICK x \in S : TRUE
    OBVIOUS
  <2>2. down(x) \in D
    OBVIOUS
  <2> QED
    BY <2>2
<1>23. PICK B \in D : \A V \in D : V \subseteq B => V = B
  <2> HIDE DEF D
  <2> QED
    BY <1>21, <1>22, LeastSubset
<1>24. PICK n \in S : B = down(n)
  OBVIOUS
<1>25. \A x \in S : n <= x
  <2> SUFFICES ASSUME NEW x \in S, n > x PROVE FALSE
    OBVIOUS
  <2>1. x \in Nat /\ n \in Nat
    OBVIOUS
  <2>2. down(x) \subseteq down(n)
    <3> SUFFICES ASSUME NEW y \in S, y <= x PROVE y <= n
      OBVIOUS
    <3> QED
      BY <2>1, y \in Nat
  <2>3. down(x) \in D
    OBVIOUS
  <2>4. n \in down(n) /\ n \notin down(x)
    BY <2>1
  <2> HIDE DEF down, D
  <2>5. down(x) = down(n)
    BY <2>2, <2>3, <1>23, <1>24
  <2> QED
    BY <2>4, <2>5
<1> QED
  BY <1>15, <1>25
=============================================================================
