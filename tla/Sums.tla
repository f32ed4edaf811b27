-------------------------------- MODULE Sums --------------------------------
(***************************************************************************)
(* What the proofs need of a sum over a finite set: SumFunctionOnSet of    *)
(* the community modules is a fold, that is a CHOOSE of a recursive        *)
(* function.  The schemas of induction take an operator and cannot be      *)
(* used; instead, of the sets for which a statement fails a smallest one   *)
(* is taken, and shown not to be.                                          *)
(***************************************************************************)
EXTENDS Integers, FiniteSets, Functions, FiniteSetTheorems, TLAPS

\* The element a sum is taken apart at, as in the definition of the fold.
Some(S) == CHOOSE x \in S : TRUE

\* h sums f over every subset of S.
IsSum(f, S, h) ==
  h = [s \in SUBSET S |-> IF s = {} THEN 0 ELSE f[Some(s)] + h[s \ {Some(s)}]]

Unfolds(f, s) ==
  SumFunctionOnSet(f, s) =
    IF s = {} THEN 0 ELSE f[Some(s)] + SumFunctionOnSet(f, s \ {Some(s)})

\* If some function sums f over every subset, then the fold is the value of one.
LEMMA SumIs ==
  ASSUME NEW f, NEW S, NEW g, IsSum(f, S, g)
  PROVE \E h : IsSum(f, S, h) /\ SumFunctionOnSet(f, S) = h[S]
<1>1. SumFunctionOnSet(f, S) = (CHOOSE h : IsSum(f, S, h))[S]
  BY Zenon DEF SumFunctionOnSet, FoldFunctionOnSet, MapThenFoldSet, IsSum, Some
<1>2. IsSum(f, S, CHOOSE h : IsSum(f, S, h)) BY Zenon
<1> QED BY <1>1, <1>2

\* Induction on finite sets: a set of subsets of a finite set has a smallest one.
LEMMA Smallest ==
  ASSUME NEW S, IsFiniteSet(S), NEW T \in SUBSET SUBSET S, T # {}
  PROVE  \E x \in T : \A y \in SUBSET x : y # x => y \notin T
<1>1. IsWellFoundedOn(StrictSubsetOrdering(S), SUBSET S)
  BY FS_StrictSubsetOrderingWellFounded, FS_FiniteSubsetsOfFinite
<1>2. PICK x \in T : \A y \in T : ~ (<<y, x>> \in StrictSubsetOrdering(S))
  <2> DEFINE R == StrictSubsetOrdering(S)
  <2>1. IsWellFoundedOn(R, SUBSET S) /\ T \subseteq SUBSET S BY <1>1
  <2> HIDE DEF R
  <2>2. \E x \in T : \A y \in T : ~ (<<y, x>> \in R) BY <2>1, WFMin, Zenon
  <2> QED BY <2>2 DEF R
<1>3. \A y \in SUBSET x : y # x /\ y \in T => <<y, x>> \in StrictSubsetOrdering(S)
  BY DEF StrictSubsetOrdering
<1>4. \A y \in SUBSET x : y # x => y \notin T BY <1>2, <1>3
<1> QED BY <1>4

\* The recursive equation of a sum.
LEMMA SumUnfolds ==
  ASSUME NEW f, NEW S, IsFiniteSet(S)
  PROVE  Unfolds(f, S)
<1> DEFINE Bad == {s \in SUBSET S : ~ Unfolds(f, s)}
<1> SUFFICES ASSUME Bad # {} PROVE FALSE OBVIOUS
<1>1. PICK s \in Bad : \A t \in SUBSET s : t # s => t \notin Bad
  <2>1. Bad \in SUBSET SUBSET S OBVIOUS
  <2> HIDE DEF Bad
  <2> QED BY <2>1, Smallest
<1>2. \A t \in SUBSET s : t # s => Unfolds(f, t) BY <1>1
<1> DEFINE g == [t \in SUBSET s |-> IF t = {} THEN 0
                   ELSE f[Some(t)] + SumFunctionOnSet(f, t \ {Some(t)})]
<1>3. \A t : t # {} => Some(t) \in t BY DEF Some
<1>4. \A t \in SUBSET s : t # {} => t \ {Some(t)} \in SUBSET s /\ t \ {Some(t)} # s
  BY <1>3
<1>5. \A t \in SUBSET s : t # s => g[t] = SumFunctionOnSet(f, t) BY <1>2 DEF Unfolds
<1>6. IsSum(f, s, g)
  <2>1. \A t \in SUBSET s : t # {} => g[t \ {Some(t)}] = SumFunctionOnSet(f, t \ {Some(t)})
    BY <1>4, <1>5
  <2>2. g = [t \in SUBSET s |-> IF t = {} THEN 0 ELSE f[Some(t)] + g[t \ {Some(t)}]]
    BY <2>1
  <2> QED BY <2>2, Zenon DEF IsSum
<1> HIDE DEF g
<1>7. PICK h : IsSum(f, s, h) /\ SumFunctionOnSet(f, s) = h[s] BY <1>6, SumIs
<1>8. \A t \in SUBSET s : h[t] = IF t = {} THEN 0 ELSE f[Some(t)] + h[t \ {Some(t)}]
  BY <1>7 DEF IsSum
<1>9. \A t \in SUBSET s : t # s => h[t] = SumFunctionOnSet(f, t)
  <2> DEFINE Differ == {t \in SUBSET s : t # s /\ h[t] # SumFunctionOnSet(f, t)}
  <2> SUFFICES ASSUME Differ # {} PROVE FALSE OBVIOUS
  <2>0. IsFiniteSet(s) BY FS_Subset
  <2>1. PICK t \in Differ : \A u \in SUBSET t : u # t => u \notin Differ
    <3>1. Differ \in SUBSET SUBSET s OBVIOUS
    <3> HIDE DEF Differ
    <3> QED BY <2>0, <3>1, Smallest
  <2>2. t # {} => h[t \ {Some(t)}] = SumFunctionOnSet(f, t \ {Some(t)})
    BY <1>3, <1>4, <2>1
  <2> QED BY <1>2, <1>8, <2>1, <2>2 DEF Unfolds
<1>10. SumFunctionOnSet(f, s) =
         IF s = {} THEN 0 ELSE f[Some(s)] + SumFunctionOnSet(f, s \ {Some(s)})
  BY <1>4, <1>7, <1>8, <1>9
<1> QED BY <1>1, <1>10 DEF Unfolds

\* Nothing sums up to 0.
LEMMA SumEmpty == ASSUME NEW f PROVE SumFunctionOnSet(f, {}) = 0
BY SumUnfolds, FS_EmptySet DEF Unfolds

\* A sum of integers is one.
LEMMA SumInt ==
  ASSUME NEW S, IsFiniteSet(S), NEW f, \A x \in S : f[x] \in Int
  PROVE  SumFunctionOnSet(f, S) \in Int
<1> DEFINE Bad == {s \in SUBSET S : SumFunctionOnSet(f, s) \notin Int}
<1> SUFFICES ASSUME Bad # {} PROVE FALSE OBVIOUS
<1>1. PICK s \in Bad : \A t \in SUBSET s : t # s => t \notin Bad
  <2>1. Bad \in SUBSET SUBSET S OBVIOUS
  <2> HIDE DEF Bad
  <2> QED BY <2>1, Smallest
<1>2. Unfolds(f, s) BY SumUnfolds, FS_Subset
<1>3. s # {} => Some(s) \in s BY DEF Some
<1>4. s # {} => SumFunctionOnSet(f, s \ {Some(s)}) \in Int BY <1>1, <1>3
<1> QED BY <1>1, <1>2, <1>3, <1>4 DEF Unfolds

\* A sum is any of its terms and the sum of the others.
LEMMA SumRemove ==
  ASSUME NEW S, IsFiniteSet(S), NEW f, \A x \in S : f[x] \in Int, NEW y \in S
  PROVE  SumFunctionOnSet(f, S) = f[y] + SumFunctionOnSet(f, S \ {y})
<1> DEFINE Sum(s) == SumFunctionOnSet(f, s)
           Bad == {s \in SUBSET S : \E x \in s : Sum(s) # f[x] + Sum(s \ {x})}
<1> SUFFICES ASSUME Bad # {} PROVE FALSE OBVIOUS
<1>1. PICK s \in Bad : \A t \in SUBSET s : t # s => t \notin Bad
  <2>1. Bad \in SUBSET SUBSET S OBVIOUS
  <2> HIDE DEF Bad
  <2> QED BY <2>1, Smallest
<1>2. PICK x \in s : Sum(s) # f[x] + Sum(s \ {x}) BY <1>1
<1>3. Unfolds(f, s) BY SumUnfolds, FS_Subset
<1> DEFINE c == Some(s)
<1>4. c \in s BY <1>2 DEF Some
<1> HIDE DEF c
<1>5. Sum(s) = f[c] + Sum(s \ {c}) BY <1>2, <1>3 DEF Unfolds, c
<1>6. c # x BY <1>2, <1>5
<1>7. Sum(s \ {c}) = f[x] + Sum((s \ {c}) \ {x}) BY <1>1, <1>2, <1>4, <1>6
<1>8. Sum(s \ {x}) = f[c] + Sum((s \ {x}) \ {c}) BY <1>1, <1>2, <1>4, <1>6
<1>9. (s \ {c}) \ {x} = (s \ {x}) \ {c} OBVIOUS
<1>10. Sum((s \ {c}) \ {x}) \in Int BY SumInt, FS_Subset
<1>11. f[x] \in Int /\ f[c] \in Int BY <1>2, <1>4
<1> HIDE DEF Sum
<1> QED BY <1>2, <1>5, <1>7, <1>8, <1>9, <1>10, <1>11

\* Equal terms have equal sums.
LEMMA SumEqual ==
  ASSUME NEW S, IsFiniteSet(S), NEW f, NEW g, \A x \in S : f[x] = g[x]
  PROVE  SumFunctionOnSet(f, S) = SumFunctionOnSet(g, S)
<1> DEFINE Bad == {s \in SUBSET S : SumFunctionOnSet(f, s) # SumFunctionOnSet(g, s)}
<1> SUFFICES ASSUME Bad # {} PROVE FALSE OBVIOUS
<1>1. PICK s \in Bad : \A t \in SUBSET s : t # s => t \notin Bad
  <2>1. Bad \in SUBSET SUBSET S OBVIOUS
  <2> HIDE DEF Bad
  <2> QED BY <2>1, Smallest
<1>2. Unfolds(f, s) /\ Unfolds(g, s) BY SumUnfolds, FS_Subset
<1>3. s # {} => Some(s) \in s BY DEF Some
<1>4. s # {} => SumFunctionOnSet(f, s \ {Some(s)}) = SumFunctionOnSet(g, s \ {Some(s)})
  BY <1>1, <1>3
<1> QED BY <1>1, <1>2, <1>3, <1>4 DEF Unfolds

\* A sum of natural numbers is one, and at least each of its terms.
LEMMA SumNat ==
  ASSUME NEW S, IsFiniteSet(S), NEW f, \A x \in S : f[x] \in Nat
  PROVE  /\ SumFunctionOnSet(f, S) \in Nat
         /\ \A x \in S : f[x] <= SumFunctionOnSet(f, S)
<1>1. ASSUME NEW T \in SUBSET S PROVE SumFunctionOnSet(f, T) \in Nat
  <2> DEFINE Bad == {s \in SUBSET S : SumFunctionOnSet(f, s) \notin Nat}
  <2> SUFFICES ASSUME Bad # {} PROVE FALSE OBVIOUS
  <2>1. PICK s \in Bad : \A t \in SUBSET s : t # s => t \notin Bad
    <3>1. Bad \in SUBSET SUBSET S OBVIOUS
    <3> HIDE DEF Bad
    <3> QED BY <3>1, Smallest
  <2>2. Unfolds(f, s) BY SumUnfolds, FS_Subset
  <2>3. s # {} => Some(s) \in s BY DEF Some
  <2>4. s # {} => SumFunctionOnSet(f, s \ {Some(s)}) \in Nat BY <2>1, <2>3
  <2> QED BY <2>1, <2>2, <2>3, <2>4 DEF Unfolds
<1>2. ASSUME NEW x \in S PROVE f[x] <= SumFunctionOnSet(f, S)
  <2>1. SumFunctionOnSet(f, S) = f[x] + SumFunctionOnSet(f, S \ {x}) BY SumRemove
  <2>2. SumFunctionOnSet(f, S \ {x}) \in Nat BY <1>1
  <2> QED BY <2>1, <2>2
<1> QED BY <1>1, <1>2

\* One more term.
LEMMA SumInsert ==
  ASSUME NEW S, IsFiniteSet(S), NEW y, y \notin S, NEW f,
         \A x \in S \cup {y} : f[x] \in Int
  PROVE  SumFunctionOnSet(f, S \cup {y}) = f[y] + SumFunctionOnSet(f, S)
<1>1. IsFiniteSet(S \cup {y}) BY FS_AddElement
<1>2. (S \cup {y}) \ {y} = S OBVIOUS
<1> QED BY <1>1, <1>2, SumRemove

\* One term that changes.
LEMMA SumChange ==
  ASSUME NEW S, IsFiniteSet(S), NEW f, NEW g, NEW y \in S,
         \A x \in S : f[x] \in Int /\ g[x] \in Int,
         \A x \in S \ {y} : f[x] = g[x]
  PROVE  SumFunctionOnSet(g, S) = SumFunctionOnSet(f, S) - f[y] + g[y]
<1>1. SumFunctionOnSet(f, S) = f[y] + SumFunctionOnSet(f, S \ {y}) BY SumRemove
<1>2. SumFunctionOnSet(g, S) = g[y] + SumFunctionOnSet(g, S \ {y}) BY SumRemove
<1>3. IsFiniteSet(S \ {y}) BY FS_Subset
<1>4. SumFunctionOnSet(f, S \ {y}) = SumFunctionOnSet(g, S \ {y}) BY <1>3, SumEqual
<1>5. SumFunctionOnSet(f, S \ {y}) \in Int BY <1>3, SumInt
<1> QED BY <1>1, <1>2, <1>4, <1>5

\* Terms that grow.
LEMMA SumGrows ==
  ASSUME NEW S, IsFiniteSet(S), NEW f, NEW g,
         \A x \in S : f[x] \in Int /\ g[x] \in Int /\ f[x] <= g[x]
  PROVE  SumFunctionOnSet(f, S) <= SumFunctionOnSet(g, S)
<1> DEFINE Bad == {s \in SUBSET S : ~(SumFunctionOnSet(f, s) <= SumFunctionOnSet(g, s))}
<1> SUFFICES ASSUME Bad # {} PROVE FALSE OBVIOUS
<1>1. PICK s \in Bad : \A t \in SUBSET s : t # s => t \notin Bad
  <2>1. Bad \in SUBSET SUBSET S OBVIOUS
  <2> HIDE DEF Bad
  <2> QED BY <2>1, Smallest
<1>2. Unfolds(f, s) /\ Unfolds(g, s) BY SumUnfolds, FS_Subset
<1>3. s # {} => Some(s) \in s BY DEF Some
<1>4. s # {} => SumFunctionOnSet(f, s \ {Some(s)}) <= SumFunctionOnSet(g, s \ {Some(s)})
  BY <1>1, <1>3
<1>5. IsFiniteSet(s \ {Some(s)}) BY FS_Subset
<1>6. SumFunctionOnSet(f, s \ {Some(s)}) \in Int /\ SumFunctionOnSet(g, s \ {Some(s)}) \in Int
  BY <1>1, <1>5, SumInt
<1> QED BY <1>1, <1>2, <1>3, <1>4, <1>6 DEF Unfolds

\* Terms that are all 0.
LEMMA SumZero ==
  ASSUME NEW S, IsFiniteSet(S), NEW f, \A x \in S : f[x] = 0
  PROVE  SumFunctionOnSet(f, S) = 0
<1> DEFINE Bad == {s \in SUBSET S : SumFunctionOnSet(f, s) # 0}
<1> SUFFICES ASSUME Bad # {} PROVE FALSE OBVIOUS
<1>1. PICK s \in Bad : \A t \in SUBSET s : t # s => t \notin Bad
  <2>1. Bad \in SUBSET SUBSET S OBVIOUS
  <2> HIDE DEF Bad
  <2> QED BY <2>1, Smallest
<1>2. Unfolds(f, s) BY SumUnfolds, FS_Subset
<1>3. s # {} => Some(s) \in s BY DEF Some
<1>4. s # {} => SumFunctionOnSet(f, s \ {Some(s)}) = 0 BY <1>1, <1>3
<1> QED BY <1>1, <1>2, <1>3, <1>4 DEF Unfolds

\* Every term of h is one of f, weighed by a, and one of g, weighed by b.
Weighted(S, h, a, f, b, g) ==
  \A x \in S : f[x] \in Int /\ g[x] \in Int /\ h[x] = a * f[x] + b * g[x]

\* A weighted sum of two sums.
LEMMA SumLinear ==
  ASSUME NEW S, IsFiniteSet(S), NEW f, NEW g, NEW h, NEW a \in Int, NEW b \in Int,
         Weighted(S, h, a, f, b, g)
  PROVE  SumFunctionOnSet(h, S) = a * SumFunctionOnSet(f, S) + b * SumFunctionOnSet(g, S)
<1> DEFINE Sum(k, s) == SumFunctionOnSet(k, s)
           Bad == {s \in SUBSET S : Sum(h, s) # a * Sum(f, s) + b * Sum(g, s)}
<1> USE DEF Weighted
<1> SUFFICES ASSUME Bad # {} PROVE FALSE OBVIOUS
<1>1. PICK s \in Bad : \A t \in SUBSET s : t # s => t \notin Bad
  <2>1. Bad \in SUBSET SUBSET S OBVIOUS
  <2> HIDE DEF Bad
  <2> QED BY <2>1, Smallest
<1>2. Unfolds(f, s) /\ Unfolds(g, s) /\ Unfolds(h, s) BY SumUnfolds, FS_Subset
<1>3. s # {}
  <2> SUFFICES ASSUME s = {} PROVE FALSE OBVIOUS
  <2>1. Sum(f, s) = 0 /\ Sum(g, s) = 0 /\ Sum(h, s) = 0 BY SumEmpty
  <2>2. Sum(h, s) # a * Sum(f, s) + b * Sum(g, s) BY <1>1
  <2> HIDE DEF Sum
  <2> QED BY <2>1, <2>2
<1> DEFINE x == Some(s)
           r == s \ {x}
<1>4. x \in s /\ r \in SUBSET S /\ r # s BY <1>1, <1>3 DEF Some
<1>5. /\ Sum(f, s) = f[x] + Sum(f, r) /\ Sum(g, s) = g[x] + Sum(g, r)
      /\ Sum(h, s) = h[x] + Sum(h, r)
  BY <1>2, <1>3 DEF Unfolds
<1>6. Sum(f, r) \in Int /\ Sum(g, r) \in Int BY <1>4, SumInt, FS_Subset
<1>7. Sum(h, r) = a * Sum(f, r) + b * Sum(g, r) BY <1>1, <1>4
<1>8. f[x] \in Int /\ g[x] \in Int /\ h[x] = a * f[x] + b * g[x] BY <1>1, <1>4
<1>9. Sum(h, s) # a * Sum(f, s) + b * Sum(g, s) BY <1>1
<1> HIDE DEF Sum, x, r
<1>10. /\ a * (f[x] + Sum(f, r)) = a * f[x] + a * Sum(f, r)
       /\ b * (g[x] + Sum(g, r)) = b * g[x] + b * Sum(g, r)
  BY <1>6, <1>8
<1>11. /\ a * f[x] \in Int /\ a * Sum(f, r) \in Int /\ b * g[x] \in Int /\ b * Sum(g, r) \in Int
  BY <1>6, <1>8
<1> QED BY <1>5, <1>7, <1>8, <1>9, <1>10, <1>11

\* As many terms, none above a bound.
LEMMA SumBound ==
  ASSUME NEW S, IsFiniteSet(S), NEW f, NEW b \in Int, \A x \in S : f[x] \in Int /\ f[x] <= b
  PROVE  SumFunctionOnSet(f, S) <= b * Cardinality(S)
<1> DEFINE Sum(s) == SumFunctionOnSet(f, s)
           Bad == {s \in SUBSET S : ~ (Sum(s) <= b * Cardinality(s))}
<1> SUFFICES ASSUME Bad # {} PROVE FALSE OBVIOUS
<1>1. PICK s \in Bad : \A t \in SUBSET s : t # s => t \notin Bad
  <2>1. Bad \in SUBSET SUBSET S OBVIOUS
  <2> HIDE DEF Bad
  <2> QED BY <2>1, Smallest
<1>2. Unfolds(f, s) BY SumUnfolds, FS_Subset
<1>3. s # {}
  <2> SUFFICES ASSUME s = {} PROVE FALSE OBVIOUS
  <2>1. Sum(s) = 0 /\ Cardinality(s) = 0 BY SumEmpty, FS_EmptySet
  <2>2. ~ (Sum(s) <= b * Cardinality(s)) BY <1>1
  <2> HIDE DEF Sum
  <2> QED BY <2>1, <2>2
<1> DEFINE x == Some(s)
           r == s \ {x}
<1>4. x \in s /\ r \in SUBSET S /\ r # s BY <1>1, <1>3 DEF Some
<1>5. Sum(s) = f[x] + Sum(r) BY <1>2, <1>3 DEF Unfolds
<1>6. Sum(r) \in Int BY <1>4, SumInt, FS_Subset
<1>7. IsFiniteSet(s) /\ Cardinality(r) \in Nat BY <1>4, FS_Subset, FS_CardinalityType
<1>8. Cardinality(s) = Cardinality(r) + 1
  <2>1. Cardinality(r) = Cardinality(s) - 1 BY <1>4, <1>7, FS_RemoveElement
  <2>2. Cardinality(s) \in Nat BY <1>7, FS_CardinalityType
  <2> QED BY <2>1, <2>2
<1>9. Sum(r) <= b * Cardinality(r) BY <1>1, <1>4
<1>10. f[x] \in Int /\ f[x] <= b BY <1>1, <1>4
<1>11. ~ (Sum(s) <= b * Cardinality(s)) BY <1>1
<1> HIDE DEF Sum, x, r
<1>12. b * (Cardinality(r) + 1) = b * Cardinality(r) + b BY <1>7
<1>13. b * Cardinality(r) \in Int BY <1>7
<1> QED BY <1>5, <1>6, <1>8, <1>9, <1>10, <1>11, <1>12, <1>13

\* More terms that are all 0.
LEMMA SumMore ==
  ASSUME NEW S, IsFiniteSet(S), NEW T \in SUBSET S, NEW f,
         \A x \in S : f[x] \in Int, \A x \in S \ T : f[x] = 0
  PROVE  SumFunctionOnSet(f, S) = SumFunctionOnSet(f, T)
<1> DEFINE Sum(s) == SumFunctionOnSet(f, s)
           Bad == {s \in SUBSET S : T \subseteq s /\ Sum(s) # Sum(T)}
<1> SUFFICES ASSUME Bad # {} PROVE FALSE OBVIOUS
<1>1. PICK s \in Bad : \A t \in SUBSET s : t # s => t \notin Bad
  <2>1. Bad \in SUBSET SUBSET S OBVIOUS
  <2> HIDE DEF Bad
  <2> QED BY <2>1, Smallest
<1>2. PICK x \in s : x \notin T
  <2>1. T \subseteq s /\ SumFunctionOnSet(f, s) # SumFunctionOnSet(f, T) BY <1>1
  <2>2. s # T BY <2>1
  <2> QED BY <2>1, <2>2
<1>3. IsFiniteSet(s) BY FS_Subset
<1>4. Sum(s) = f[x] + Sum(s \ {x}) BY <1>3, SumRemove
<1>5. Sum(s \ {x}) = Sum(T) BY <1>1, <1>2
<1>6. Sum(T) \in Int BY SumInt, FS_Subset
<1>7. f[x] = 0 BY <1>1, <1>2
<1> QED BY <1>1, <1>4, <1>5, <1>6, <1>7

Named(name, S) == {name[x] : x \in S}

\* Every term of f is the one of g under another name, and no two have the same name.
SameTerms(S, f, g, name) ==
  /\ \A x \in S : f[x] \in Int /\ g[name[x]] = f[x]
  /\ \A x, y \in S : name[x] = name[y] => x = y

\* The same terms under other names.
LEMMA SumRenamed ==
  ASSUME NEW S, IsFiniteSet(S), NEW f, NEW g, NEW name,
         SameTerms(S, f, g, name)
  PROVE  SumFunctionOnSet(g, Named(name, S)) = SumFunctionOnSet(f, S)
<1> USE DEF Named, SameTerms
<1> DEFINE Bad == {s \in SUBSET S : SumFunctionOnSet(g, Named(name, s)) # SumFunctionOnSet(f, s)}
<1> SUFFICES ASSUME Bad # {} PROVE FALSE OBVIOUS
<1>1. PICK s \in Bad : \A t \in SUBSET s : t # s => t \notin Bad
  <2>1. Bad \in SUBSET SUBSET S OBVIOUS
  <2> HIDE DEF Bad
  <2> QED BY <2>1, Smallest
<1>2. s # {} BY <1>1, SumEmpty
<1>3. PICK x : x \in s BY <1>2
<1>4. IsFiniteSet(s) /\ IsFiniteSet(s \ {x}) BY FS_Subset
<1>5. SumFunctionOnSet(f, s) = f[x] + SumFunctionOnSet(f, s \ {x}) BY <1>3, <1>4, SumRemove
<1>6. SumFunctionOnSet(g, Named(name, s \ {x})) = SumFunctionOnSet(f, s \ {x}) BY <1>1, <1>3
<1>7. Named(name, s) = Named(name, s \ {x}) \cup {name[x]} BY <1>3
<1>8. name[x] \notin Named(name, s \ {x}) BY <1>1, <1>3
<1>9. IsFiniteSet(Named(name, s \ {x}))
  <2> DEFINE onto == [y \in s \ {x} |-> name[y]]
  <2>1. onto \in Surjection(s \ {x}, Named(name, s \ {x})) BY DEF Surjection
  <2> HIDE DEF onto
  <2> QED BY <1>4, <2>1, FS_Surjection
<1>10. \A y \in Named(name, s \ {x}) \cup {name[x]} : g[y] \in Int BY <1>1, <1>3
<1>11. SumFunctionOnSet(g, Named(name, s)) = g[name[x]] + SumFunctionOnSet(g, Named(name, s \ {x}))
  <2> DEFINE rest == Named(name, s \ {x})
  <2>1. IsFiniteSet(rest) /\ name[x] \notin rest /\ \A y \in rest \cup {name[x]} : g[y] \in Int
    BY <1>8, <1>9, <1>10
  <2> HIDE DEF rest
  <2>2. SumFunctionOnSet(g, rest \cup {name[x]}) = g[name[x]] + SumFunctionOnSet(g, rest)
    BY <2>1, SumInsert
  <2> QED BY <1>7, <2>2 DEF rest
<1>12. g[name[x]] = f[x] BY <1>1, <1>3
<1> QED BY <1>1, <1>5, <1>6, <1>11, <1>12
=============================================================================
