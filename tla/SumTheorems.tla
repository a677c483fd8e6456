---------------------------- MODULE SumTheorems -----------------------------
(***************************************************************************)
(* What SumOver computes, for every finite set. SumOver is a fold that     *)
(* removes one chosen element at a time; the lemmas below free it from     *)
(* that choice: any element may be removed (SumRemove), so a row inserted  *)
(* into a table adds its value to the sum (SumInsert), rows that are not   *)
(* negative never lower it (SumMonotone), and only the values on the rows  *)
(* count (SumAgree). Induction on finite sets is replaced throughout by    *)
(* taking a smallest counterexample.                                       *)
(***************************************************************************)
EXTENDS Sums, FiniteSetTheorems, TLAPS

Pick(s) == CHOOSE x \in s : TRUE

\* A non-empty family of subsets of a finite set has a minimal member.
LEMMA MinimalSubset ==
  ASSUME NEW S, IsFiniteSet(S), NEW P, P \subseteq SUBSET S, P # {}
  PROVE  \E T \in P : \A U \in P : ~(U \subseteq T /\ U # T)
<1>1. IsWellFoundedOn(StrictSubsetOrdering(S), SUBSET S)
  BY FS_FiniteSubsetsOfFinite, FS_StrictSubsetOrderingWellFounded
<1>2. \E T \in P : \A U \in P : ~(<<U, T>> \in StrictSubsetOrdering(S))
  BY <1>1, WFMin
<1> QED
  BY <1>2 DEF StrictSubsetOrdering

\* The sum over no rows is 0: COALESCE(SUM(...), 0) on an empty result.
LEMMA SumEmpty ==
  ASSUME NEW f
  PROVE  SumOver(f, {}) = 0
<1> DEFINE iter[s \in SUBSET {}] ==
      IF s = {} THEN 0 ELSE LET x == Pick(s) IN f[x] + iter[s \ {x}]
<1>1. SumOver(f, {}) = iter[{}]
  BY DEF SumOver, MapThenSumSet, MapThenFoldSet, Pick
<1>2. iter = [s \in SUBSET {} |->
                IF s = {} THEN 0 ELSE LET x == Pick(s) IN f[x] + iter[s \ {x}]]
  <2> DEFINE g == [s \in SUBSET {} |-> 0]
  <2>1. g = [s \in SUBSET {} |->
                IF s = {} THEN 0 ELSE LET x == Pick(s) IN f[x] + g[s \ {x}]]
    OBVIOUS
  <2> QED
    BY <2>1
<1> QED
  BY <1>1, <1>2

\* The fold's own equation: the chosen element is taken out first.
LEMMA SumUnfold ==
  ASSUME NEW f, NEW S, IsFiniteSet(S), S # {}
  PROVE  SumOver(f, S) = f[Pick(S)] + SumOver(f, S \ {Pick(S)})
<1> DEFINE Unfolds(T) ==
      T # {} => SumOver(f, T) = f[Pick(T)] + SumOver(f, T \ {Pick(T)})
<1> DEFINE Bad == {T \in SUBSET S : ~Unfolds(T)}
<1>1. SUFFICES ASSUME Bad # {} PROVE FALSE
  OBVIOUS
<1>2. PICK T \in Bad : \A U \in Bad : ~(U \subseteq T /\ U # T)
  <2>1. Bad \subseteq SUBSET S
    OBVIOUS
  <2> HIDE DEF Bad
  <2> QED
    BY <1>1, <2>1, MinimalSubset
<1>3. T # {} /\ T \subseteq S /\ \A U \in SUBSET T : U # T => Unfolds(U)
  BY <1>2
<1> DEFINE Body(g) == [s \in SUBSET T |->
      IF s = {} THEN 0 ELSE LET x == Pick(s) IN f[x] + g[s \ {x}]]
<1> DEFINE h == [s \in SUBSET T |->
      IF s = T THEN f[Pick(T)] + SumOver(f, T \ {Pick(T)}) ELSE SumOver(f, s)]
<1>4. \A s \in SUBSET T : s # {} => Pick(s) \in s
  BY DEF Pick
<1>5. h = Body(h)
  <2>1. ASSUME NEW s \in SUBSET T, s # {}
        PROVE  h[s] = f[Pick(s)] + h[s \ {Pick(s)}]
    <3>1. s \ {Pick(s)} \in SUBSET T /\ s \ {Pick(s)} # T
      BY <2>1, <1>4
    <3>2. h[s \ {Pick(s)}] = SumOver(f, s \ {Pick(s)})
      BY <3>1
    <3>3. h[s] = f[Pick(s)] + SumOver(f, s \ {Pick(s)})
      BY <2>1, <1>3
    <3> QED
      BY <3>2, <3>3
  <2>2. h[{}] = 0
    BY <1>3, SumEmpty
  <2> HIDE DEF h
  <2>3. h = [s \in SUBSET T |-> h[s]]
    BY DEF h
  <2>4. \A s \in SUBSET T : h[s] = Body(h)[s]
    BY <2>1, <2>2
  <2> QED
    BY <2>3, <2>4
<1> DEFINE g == CHOOSE g : g = Body(g)
<1>6. g = Body(g)
  BY <1>5
<1>7. SumOver(f, T) = g[T]
  BY DEF SumOver, MapThenSumSet, MapThenFoldSet, Pick
<1> HIDE DEF g, h
<1>8. \A s \in SUBSET T : g[s] = h[s]
  <2> DEFINE Diff == {s \in SUBSET T : g[s] # h[s]}
  <2>1. SUFFICES ASSUME Diff # {} PROVE FALSE
    OBVIOUS
  <2>2. IsFiniteSet(T)
    BY <1>3, FS_Subset
  <2>3. PICK s \in Diff : \A u \in Diff : ~(u \subseteq s /\ u # s)
    <3>1. Diff \subseteq SUBSET T
      OBVIOUS
    <3> HIDE DEF Diff
    <3> QED
      BY <2>1, <2>2, <3>1, MinimalSubset
  <2>4. CASE s = {}
    <3>1. g[s] = 0 /\ h[s] = 0
      BY <2>4, <1>5, <1>6
    <3> QED
      BY <3>1, <2>3
  <2>5. CASE s # {}
    <3>1. g[s] = f[Pick(s)] + g[s \ {Pick(s)}]
      BY <2>3, <2>5, <1>6
    <3>2. h[s] = f[Pick(s)] + h[s \ {Pick(s)}]
      BY <2>3, <2>5, <1>5
    <3>3. g[s \ {Pick(s)}] = h[s \ {Pick(s)}]
      BY <2>3, <2>5, <1>4
    <3> QED
      BY <3>1, <3>2, <3>3, <2>3
  <2> QED
    BY <2>4, <2>5
<1>9. g[T] = f[Pick(T)] + SumOver(f, T \ {Pick(T)})
  BY <1>8 DEF h
<1> QED
  BY <1>2, <1>7, <1>9

\* The sum of a column of integers is an integer.
LEMMA SumInt ==
  ASSUME NEW f, NEW S, IsFiniteSet(S), \A x \in S : f[x] \in Int
  PROVE  SumOver(f, S) \in Int
<1> DEFINE Bad == {T \in SUBSET S : SumOver(f, T) \notin Int}
<1>1. SUFFICES ASSUME Bad # {} PROVE FALSE
  OBVIOUS
<1>2. PICK T \in Bad : \A U \in Bad : ~(U \subseteq T /\ U # T)
  <2>1. Bad \subseteq SUBSET S
    OBVIOUS
  <2> HIDE DEF Bad
  <2> QED
    BY <1>1, <2>1, MinimalSubset
<1>3. T # {} /\ T \subseteq S /\ IsFiniteSet(T)
  <2>1. SumOver(f, T) \notin Int /\ T \subseteq S
    BY <1>2
  <2>2. SumOver(f, {}) \in Int
    BY SumEmpty
  <2>3. IsFiniteSet(T)
    BY <2>1, FS_Subset
  <2> QED
    BY <2>1, <2>2, <2>3
<1> DEFINE c == Pick(T)
<1>4. c \in T
  BY <1>3 DEF Pick
<1>5. SumOver(f, T) = f[c] + SumOver(f, T \ {c})
  BY <1>3, SumUnfold
<1>6. SumOver(f, T \ {c}) \in Int
  BY <1>2, <1>3, <1>4
<1> QED
  BY <1>2, <1>3, <1>4, <1>5, <1>6

\* If no row is negative, neither is the sum.
LEMMA SumNat ==
  ASSUME NEW f, NEW S, IsFiniteSet(S), \A x \in S : f[x] \in Nat
  PROVE  SumOver(f, S) \in Nat
<1> DEFINE Bad == {T \in SUBSET S : SumOver(f, T) \notin Nat}
<1>1. SUFFICES ASSUME Bad # {} PROVE FALSE
  OBVIOUS
<1>2. PICK T \in Bad : \A U \in Bad : ~(U \subseteq T /\ U # T)
  <2>1. Bad \subseteq SUBSET S
    OBVIOUS
  <2> HIDE DEF Bad
  <2> QED
    BY <1>1, <2>1, MinimalSubset
<1>3. T # {} /\ T \subseteq S /\ IsFiniteSet(T)
  <2>1. SumOver(f, T) \notin Nat /\ T \subseteq S
    BY <1>2
  <2>2. SumOver(f, {}) \in Nat
    BY SumEmpty
  <2>3. IsFiniteSet(T)
    BY <2>1, FS_Subset
  <2> QED
    BY <2>1, <2>2, <2>3
<1> DEFINE c == Pick(T)
<1>4. c \in T
  BY <1>3 DEF Pick
<1>5. SumOver(f, T) = f[c] + SumOver(f, T \ {c})
  BY <1>3, SumUnfold
<1>6. SumOver(f, T \ {c}) \in Nat
  BY <1>2, <1>3, <1>4
<1> QED
  BY <1>2, <1>3, <1>4, <1>5, <1>6

\* Any element may be taken out of the sum, not only the chosen one.
LEMMA SumRemove ==
  ASSUME NEW f, NEW S, IsFiniteSet(S), \A x \in S : f[x] \in Int,
         NEW e \in S
  PROVE  SumOver(f, S) = f[e] + SumOver(f, S \ {e})
<1> DEFINE Removes(T) ==
      \A x \in T : SumOver(f, T) = f[x] + SumOver(f, T \ {x})
<1> DEFINE Bad == {T \in SUBSET S : ~Removes(T)}
<1>1. SUFFICES ASSUME Bad # {} PROVE FALSE
  OBVIOUS
<1>2. PICK T \in Bad : \A U \in Bad : ~(U \subseteq T /\ U # T)
  <2>1. Bad \subseteq SUBSET S
    OBVIOUS
  <2> HIDE DEF Bad
  <2> QED
    BY <1>1, <2>1, MinimalSubset
<1>3. T \subseteq S /\ \A U \in SUBSET T : U # T => Removes(U)
  BY <1>2
<1>4. PICK x \in T : SumOver(f, T) # f[x] + SumOver(f, T \ {x})
  BY <1>2
<1> DEFINE c == Pick(T)
<1> DEFINE rest == T \ {c, x}
<1>5. c \in T
  BY <1>4 DEF Pick
<1> HIDE DEF c
<1>6. SumOver(f, T) = f[c] + SumOver(f, T \ {c})
  BY <1>3, <1>4, SumUnfold, FS_Subset DEF c
<1>7. c # x
  BY <1>4, <1>6
<1>8. SumOver(f, T \ {c}) = f[x] + SumOver(f, rest)
  <2>1. T \ {c} \in SUBSET T /\ T \ {c} # T /\ x \in T \ {c}
    BY <1>4, <1>5, <1>7
  <2>2. SumOver(f, T \ {c}) = f[x] + SumOver(f, (T \ {c}) \ {x})
    BY <1>3, <2>1
  <2>3. (T \ {c}) \ {x} = rest
    OBVIOUS
  <2> QED
    BY <2>2, <2>3
<1>9. SumOver(f, T \ {x}) = f[c] + SumOver(f, rest)
  <2>1. T \ {x} \in SUBSET T /\ T \ {x} # T /\ c \in T \ {x}
    BY <1>4, <1>5, <1>7
  <2>2. SumOver(f, T \ {x}) = f[c] + SumOver(f, (T \ {x}) \ {c})
    BY <1>3, <2>1
  <2>3. (T \ {x}) \ {c} = rest
    OBVIOUS
  <2> QED
    BY <2>2, <2>3
<1>10. SumOver(f, rest) \in Int /\ f[c] \in Int /\ f[x] \in Int
  <2>1. IsFiniteSet(rest) /\ \A y \in rest : f[y] \in Int
    BY <1>3, FS_Subset
  <2> QED
    BY <2>1, <1>3, <1>4, <1>5, SumInt
<1> QED
  BY <1>4, <1>6, <1>8, <1>9, <1>10

\* A new row adds its value to the sum of the column.
LEMMA SumInsert ==
  ASSUME NEW f, NEW S, IsFiniteSet(S), \A x \in S : f[x] \in Int,
         NEW e, e \notin S, f[e] \in Int
  PROVE  SumOver(f, S \cup {e}) = SumOver(f, S) + f[e]
<1>1. IsFiniteSet(S \cup {e})
  BY FS_AddElement
<1>2. SumOver(f, S \cup {e}) = f[e] + SumOver(f, (S \cup {e}) \ {e})
  BY <1>1, SumRemove
<1>3. (S \cup {e}) \ {e} = S
  OBVIOUS
<1>4. SumOver(f, S \cup {e}) = f[e] + SumOver(f, S)
  BY <1>2, <1>3
<1>5. SumOver(f, S) \in Int /\ f[e] \in Int
  BY SumInt
<1> HIDE <1>1, <1>2, <1>3
<1> QED
  BY <1>4, <1>5

\* The sum depends only on the values of the rows it ranges over.
LEMMA SumAgree ==
  ASSUME NEW S, IsFiniteSet(S), NEW f, NEW g, \A x \in S : f[x] = g[x]
  PROVE  SumOver(f, S) = SumOver(g, S)
<1> DEFINE Bad == {T \in SUBSET S : SumOver(f, T) # SumOver(g, T)}
<1>1. SUFFICES ASSUME Bad # {} PROVE FALSE
  OBVIOUS
<1>2. PICK T \in Bad : \A U \in Bad : ~(U \subseteq T /\ U # T)
  <2>1. Bad \subseteq SUBSET S
    OBVIOUS
  <2> HIDE DEF Bad
  <2> QED
    BY <1>1, <2>1, MinimalSubset
<1>3. T # {} /\ T \subseteq S /\ IsFiniteSet(T)
  BY <1>2, SumEmpty, FS_Subset
<1> DEFINE c == Pick(T)
<1>4. c \in T
  BY <1>3 DEF Pick
<1>5. /\ SumOver(f, T) = f[c] + SumOver(f, T \ {c})
      /\ SumOver(g, T) = g[c] + SumOver(g, T \ {c})
  BY <1>3, SumUnfold
<1>6. SumOver(f, T \ {c}) = SumOver(g, T \ {c})
  BY <1>2, <1>3, <1>4
<1> QED
  BY <1>2, <1>3, <1>4, <1>5, <1>6

\* A table that only grows by rows that are not negative has a sum that never
\* shrinks.
LEMMA SumMonotone ==
  ASSUME NEW f, NEW S, IsFiniteSet(S), \A x \in S : f[x] \in Int,
         NEW R \in SUBSET S, \A x \in S \ R : f[x] >= 0
  PROVE  SumOver(f, R) \leq SumOver(f, S)
<1> DEFINE Bad == {T \in SUBSET S :
                     R \subseteq T /\ ~(SumOver(f, R) \leq SumOver(f, T))}
<1>1. SUFFICES ASSUME Bad # {} PROVE FALSE
  OBVIOUS
<1>2. PICK T \in Bad : \A U \in Bad : ~(U \subseteq T /\ U # T)
  <2>1. Bad \subseteq SUBSET S
    OBVIOUS
  <2> HIDE DEF Bad
  <2> QED
    BY <1>1, <2>1, MinimalSubset
<1>3. /\ T \subseteq S /\ IsFiniteSet(T) /\ IsFiniteSet(R) /\ R \subseteq T
      /\ ~(SumOver(f, R) \leq SumOver(f, T))
  BY <1>2, FS_Subset
<1>4. SumOver(f, R) \in Int /\ \A U \in SUBSET T : SumOver(f, U) \in Int
  BY <1>3, SumInt, FS_Subset
<1>5. PICK x \in T : x \notin R
  <2>1. T # R
    BY <1>3, <1>4
  <2> QED
    BY <1>3, <2>1
<1>6. SumOver(f, T) = f[x] + SumOver(f, T \ {x})
  BY <1>3, SumRemove
<1>7. SumOver(f, R) \leq SumOver(f, T \ {x})
  BY <1>2, <1>3, <1>5
<1>8. f[x] \in Int /\ f[x] >= 0
  BY <1>3, <1>5
<1> QED
  BY <1>3, <1>4, <1>6, <1>7, <1>8

\* A column of negative values has a sum that is not positive.
LEMMA SumNotPositive ==
  ASSUME NEW f, NEW S, IsFiniteSet(S), \A x \in S : f[x] \in Int /\ f[x] < 0
  PROVE  SumOver(f, S) <= 0
<1> DEFINE Bad == {T \in SUBSET S : ~(SumOver(f, T) <= 0)}
<1>1. SUFFICES ASSUME Bad # {} PROVE FALSE
  OBVIOUS
<1>2. PICK T \in Bad : \A U \in Bad : ~(U \subseteq T /\ U # T)
  <2>1. Bad \subseteq SUBSET S
    OBVIOUS
  <2> HIDE DEF Bad
  <2> QED
    BY <1>1, <2>1, MinimalSubset
<1>3. T # {} /\ T \subseteq S /\ IsFiniteSet(T)
  <2>1. ~(SumOver(f, T) <= 0) /\ T \subseteq S
    BY <1>2
  <2>2. SumOver(f, {}) = 0
    BY SumEmpty
  <2>3. SumOver(f, {}) <= 0
    BY <2>2
  <2>4. IsFiniteSet(T)
    BY <2>1, FS_Subset
  <2> QED
    BY <2>1, <2>3, <2>4
<1>4. PICK x \in T : TRUE
  BY <1>3
<1>5. SumOver(f, T) = f[x] + SumOver(f, T \ {x})
  BY <1>3, SumRemove
<1>6. SumOver(f, T \ {x}) <= 0 /\ SumOver(f, T \ {x}) \in Int
  <2>1. T \ {x} \subseteq S /\ IsFiniteSet(T \ {x})
    BY <1>3, FS_Subset
  <2>2. SumOver(f, T \ {x}) \in Int
    BY <2>1, SumInt
  <2> QED
    BY <1>2, <1>4, <2>1, <2>2
<1> QED
  BY <1>2, <1>3, <1>5, <1>6

\* A table is the sum of a part of it and the rest.
LEMMA SumSplit ==
  ASSUME NEW f, NEW S, IsFiniteSet(S), \A x \in S : f[x] \in Int,
         NEW R \in SUBSET S
  PROVE  SumOver(f, S) = SumOver(f, R) + SumOver(f, S \ R)
<1> DEFINE Splits(T) == SumOver(f, T) = SumOver(f, R) + SumOver(f, T \ R)
           Bad == {T \in SUBSET S : R \subseteq T /\ ~Splits(T)}
<1>1. SUFFICES ASSUME Bad # {} PROVE FALSE
  OBVIOUS
<1>2. PICK T \in Bad : \A U \in Bad : ~(U \subseteq T /\ U # T)
  <2>1. Bad \subseteq SUBSET S
    OBVIOUS
  <2> HIDE DEF Bad
  <2> QED
    BY <1>1, <2>1, MinimalSubset
<1>3. T \subseteq S /\ IsFiniteSet(T) /\ R \subseteq T /\ ~Splits(T)
  BY <1>2, FS_Subset
<1>4. \A U \in SUBSET T : IsFiniteSet(U) /\ SumOver(f, U) \in Int
  BY <1>3, SumInt, FS_Subset
<1>5. PICK x \in T : x \notin R
  <2>1. T # R
    <3>1. R \ R = {} /\ SumOver(f, {}) = 0
      BY SumEmpty
    <3>2. Splits(R)
      BY <1>3, <1>4, <3>1
    <3> QED
      BY <1>3, <3>2
  <2> QED
    BY <1>3, <2>1
<1>6. SumOver(f, T) = f[x] + SumOver(f, T \ {x})
  BY <1>3, SumRemove
<1>7. SumOver(f, T \ R) = f[x] + SumOver(f, (T \ R) \ {x})
  <2>1. IsFiniteSet(T \ R) /\ x \in T \ R /\ \A y \in T \ R : f[y] \in Int
    BY <1>3, <1>4, <1>5
  <2> QED
    BY <2>1, SumRemove
<1>8. (T \ {x}) \ R = (T \ R) \ {x}
  OBVIOUS
<1>9. Splits(T \ {x})
  BY <1>2, <1>3, <1>5
<1>10. f[x] \in Int /\ SumOver(f, R) \in Int /\ SumOver(f, (T \ R) \ {x}) \in Int
  <2>1. (T \ R) \ {x} \in SUBSET T /\ R \in SUBSET T
    BY <1>3
  <2> QED
    BY <1>3, <1>4, <2>1
<1>11. SumOver(f, T \ {x}) = SumOver(f, R) + SumOver(f, (T \ R) \ {x})
  BY <1>8, <1>9
<1>12. Splits(T)
  BY <1>6, <1>7, <1>10, <1>11
<1> QED
  BY <1>3, <1>12

=============================================================================
