-------------------------- MODULE InductionLemmas --------------------------
(***************************************************************************)
(* Facts that need induction: least elements of sets of naturals, and sums *)
(* of the values of a function with a finite domain, as FoldFunction       *)
(* computes them.  The induction theorems of the library take the property *)
(* as a parameter, which no installed prover instantiates; every induction *)
(* here looks at a least counterexample, in the well-founded order of the  *)
(* subsets of a finite set.                                                *)
(***************************************************************************)
EXTENDS Integers, FiniteSets, Functions, TLAPS, FiniteSetTheorems, WellFoundedInduction

(* A least element of a set of finite sets.                                  *)
LEMMA LeastSet ==
  ASSUME NEW D, IsFiniteSet(D), NEW Bad \in SUBSET SUBSET D, Bad # {}
  PROVE  \E T \in Bad : \A U \in SUBSET T : U # T => U \notin Bad
<1>1. Bad \subseteq FiniteSubsetsOf(D)
  BY FS_Subset DEF FiniteSubsetsOf
<1>2. PICK T \in Bad : \A U \in Bad : ~ (<<U, T>> \in StrictSubsetOrdering(D))
  BY <1>1, FS_StrictSubsetOrderingWellFounded, WFMin
<1>3. ASSUME NEW U \in SUBSET T, U # T, U \in Bad PROVE FALSE
  BY <1>2, <1>3 DEF StrictSubsetOrdering
<1>4. QED BY <1>3

(* A non-empty finite set of naturals has a least element.                   *)
LEMMA FiniteLeast ==
  ASSUME NEW S \in SUBSET Nat, IsFiniteSet(S), S # {}
  PROVE  \E m \in S : \A x \in S : m <= x
<1> DEFINE Bad == {T \in SUBSET S : T # {} /\ \A m \in T : \E x \in T : x < m}
<1>1. SUFFICES ASSUME Bad # {} PROVE FALSE
  <2>1. S \in SUBSET S OBVIOUS
  <2>2. CASE S \notin Bad BY <2>1, <2>2
  <2>3. QED BY <1>1, <2>2
<1>2. Bad \in SUBSET SUBSET S
  OBVIOUS
<1> HIDE DEF Bad
<1>3. PICK T \in Bad : \A U \in SUBSET T : U # T => U \notin Bad
  BY <1>1, <1>2, LeastSet
<1>4. PICK m \in T : TRUE
  BY <1>3 DEF Bad
<1> DEFINE U == T \ {m}
<1>5. U \in SUBSET T /\ U # T
  BY <1>4
<1>6. T \in SUBSET Nat /\ \A n \in T : \E x \in T : x < n
  BY <1>3 DEF Bad
<1>7. PICK x \in T : x < m
  BY <1>4, <1>6
<1>8. U \in SUBSET S /\ x \in U
  <2>1. T \in SUBSET S BY <1>3 DEF Bad
  <2>2. x # m BY <1>4, <1>6, <1>7
  <2>3. QED BY <1>7, <2>1, <2>2
<1>9. ASSUME NEW n \in U PROVE \E y \in U : y < n
  <2>1. PICK y \in T : y < n BY <1>6, <1>9
  <2>2. CASE y = m BY <1>4, <1>6, <1>7, <1>8, <1>9, <2>1, <2>2
  <2>3. CASE y # m BY <2>1, <2>3
  <2>4. QED BY <2>2, <2>3
<1>10. U \in Bad
  BY <1>8, <1>9 DEF Bad
<1>11. QED BY <1>3, <1>5, <1>10

(* Every non-empty set of naturals has a least element.                      *)
LEMMA Least ==
  ASSUME NEW S \in SUBSET Nat, S # {}
  PROVE  \E m \in S : \A x \in S : m <= x
<1>1. PICK n \in S : TRUE OBVIOUS
<1> DEFINE T == S \cap 0 .. n
<1>2. IsFiniteSet(T) /\ T \in SUBSET Nat /\ n \in T
  <2>1. IsFiniteSet(0 .. n) BY <1>1, FS_Interval
  <2>2. IsFiniteSet(T) BY <2>1, FS_Intersection
  <2>3. QED BY <1>1, <2>2
<1>3. PICK m \in T : \A x \in T : m <= x
  BY <1>2, FiniteLeast
<1>4. \A x \in S : m <= x
  BY <1>1, <1>2, <1>3
<1>5. QED BY <1>3, <1>4

(* Products and quotients of naturals are monotone.                          *)
LEMMA ProductMonotone ==
  ASSUME NEW a \in Nat, NEW b \in Nat, NEW c \in Nat, a <= b
  PROVE  a * c \in Nat /\ b * c \in Nat /\ a * c <= b * c
OBVIOUS

LEMMA QuotientMonotone ==
  ASSUME NEW a \in Nat, NEW b \in Nat, NEW c \in Nat \ {0}, a <= b
  PROVE  a \div c \in Nat /\ b \div c \in Nat /\ a \div c <= b \div c
OBVIOUS

-----------------------------------------------------------------------------
(* The recursion of FoldFunction with addition.                              *)
Total(g) == FoldFunction(LAMBDA a, b : a + b, 0, g)

Pick(s) == CHOOSE x \in s : TRUE

(* it is the function that FoldFunction recurs over, on the subsets of T.    *)
Sums(g, it, T) ==
  it = [s \in SUBSET T |-> IF s = {} THEN 0 ELSE g[Pick(s)] + it[s \ {Pick(s)}]]

LEMMA SumsUnfold ==
  ASSUME NEW g
  PROVE  Total(g) = (CHOOSE it : Sums(g, it, DOMAIN g))[DOMAIN g]
BY DEF Total, FoldFunction, FoldFunctionOnSet, MapThenFoldSet, Sums, Pick

(* What the recursion says of one set.                                       *)
LEMMA SumsStep ==
  ASSUME NEW g, NEW T, NEW it, Sums(g, it, T), NEW s \in SUBSET T
  PROVE  /\ s = {} => it[s] = 0
         /\ s # {} => /\ Pick(s) \in s
                      /\ s \ {Pick(s)} \in SUBSET T
                      /\ it[s] = g[Pick(s)] + it[s \ {Pick(s)}]
<1>1. s # {} => Pick(s) \in s
  BY DEF Pick
<1>2. it[s] = IF s = {} THEN 0 ELSE g[Pick(s)] + it[s \ {Pick(s)}]
  BY DEF Sums
<1>3. QED BY <1>1, <1>2

(* Two such functions agree where what they add agrees.                      *)
LEMMA SumsAgree ==
  ASSUME NEW g, NEW h, NEW T, NEW U, NEW i, NEW j,
         Sums(g, i, T), Sums(h, j, U), IsFiniteSet(T),
         \A x \in T \cap U : g[x] = h[x]
  PROVE  \A s \in SUBSET (T \cap U) : i[s] = j[s]
<1> DEFINE Bad == {s \in SUBSET (T \cap U) : i[s] # j[s]}
<1>1. SUFFICES ASSUME Bad # {} PROVE FALSE
  OBVIOUS
<1>2. IsFiniteSet(T \cap U) /\ Bad \in SUBSET SUBSET (T \cap U)
  BY FS_Intersection
<1> HIDE DEF Bad
<1>3. PICK s \in Bad : \A r \in SUBSET s : r # s => r \notin Bad
  BY <1>1, <1>2, LeastSet
<1>4. s \in SUBSET T /\ s \in SUBSET U /\ s \in SUBSET (T \cap U) /\ i[s] # j[s]
  BY <1>3 DEF Bad
<1>5. s # {}
  <2>1. s = {} => i[s] = 0 BY <1>4 DEF Sums
  <2>2. s = {} => j[s] = 0 BY <1>4 DEF Sums
  <2>3. QED BY <1>4, <2>1, <2>2
<1> DEFINE r == s \ {Pick(s)}
<1>6. /\ Pick(s) \in s /\ r \in SUBSET s /\ r # s /\ r \in SUBSET (T \cap U)
      /\ i[s] = g[Pick(s)] + i[r] /\ j[s] = h[Pick(s)] + j[r]
  <2>1. Pick(s) \in s /\ i[s] = g[Pick(s)] + i[s \ {Pick(s)}]
    BY <1>4, <1>5, SumsStep
  <2>2. j[s] = h[Pick(s)] + j[s \ {Pick(s)}]
    BY <1>4, <1>5, SumsStep
  <2>3. QED BY <1>4, <2>1, <2>2
<1> HIDE DEF r
<1>7. i[r] = j[r]
  BY <1>3, <1>6 DEF Bad
<1>8. g[Pick(s)] = h[Pick(s)]
  BY <1>4, <1>6
<1>9. QED BY <1>4, <1>6, <1>7, <1>8

(* The recursion has a solution.                                             *)
LEMMA SumsExist ==
  ASSUME NEW g, NEW D, IsFiniteSet(D)
  PROVE  \E it : Sums(g, it, D)
<1> DEFINE Bad == {T \in SUBSET D : ~ \E it : Sums(g, it, T)}
<1>1. SUFFICES ASSUME Bad # {} PROVE FALSE
  OBVIOUS
<1>2. Bad \in SUBSET SUBSET D
  OBVIOUS
<1> HIDE DEF Bad
<1>3. PICK T \in Bad : \A U \in SUBSET T : U # T => U \notin Bad
  BY <1>1, <1>2, LeastSet
<1>4. T \in SUBSET D /\ IsFiniteSet(T) /\ ~ \E it : Sums(g, it, T)
  BY <1>3, FS_Subset DEF Bad
<1> DEFINE part(U) == CHOOSE it : Sums(g, it, U)
<1>5. ASSUME NEW U \in SUBSET T, U # T
      PROVE  Sums(g, part(U), U)
  <2>1. \E it : Sums(g, it, U)
    BY <1>3, <1>4, <1>5 DEF Bad
  <2>2. QED BY <2>1
<1>6. ASSUME NEW U \in SUBSET T, U # T, NEW V \in SUBSET U
      PROVE  part(U)[V] = part(V)[V]
  <2>1. V \in SUBSET T /\ V # T BY <1>6
  <2>2. Sums(g, part(U), U) /\ Sums(g, part(V), V)
    BY <1>5, <1>6, <2>1
  <2>3. IsFiniteSet(U)
    BY <1>4, <1>6, FS_Subset
  <2> HIDE DEF part
  <2>4. \A s \in SUBSET (U \cap V) : part(U)[s] = part(V)[s]
    BY <2>2, <2>3, SumsAgree
  <2>5. V \in SUBSET (U \cap V) OBVIOUS
  <2>6. QED BY <2>4, <2>5
<1> DEFINE rest(s) == s \ {Pick(s)}
           value(s) == IF s = {} THEN 0 ELSE g[Pick(s)] + part(rest(s))[rest(s)]
           new == [s \in SUBSET T |-> value(s)]
<1>7. ASSUME NEW s \in SUBSET T, s # {}
      PROVE  new[rest(s)] = part(rest(s))[rest(s)]
  <2>1. Pick(s) \in s BY <1>7 DEF Pick
  <2>2. rest(s) \in SUBSET T /\ rest(s) # T /\ rest(s) \in SUBSET rest(s)
    BY <2>1
  <2> DEFINE r == rest(s)
  <2>3. Sums(g, part(r), r)
    BY <1>5, <2>2
  <2> HIDE DEF part, rest
  <2>4. CASE r = {}
    <3>1. part(r)[r] = 0
      BY <2>2, <2>3, <2>4, SumsStep
    <3>2. new[r] = 0
      BY <2>2, <2>4
    <3>3. QED BY <3>1, <3>2
  <2>5. CASE r # {}
    <3>1. /\ rest(r) \in SUBSET r
          /\ part(r)[r] = g[Pick(r)] + part(r)[rest(r)]
      <4>1. r \in SUBSET r OBVIOUS
      <4> DEFINE it == part(r)
      <4>2. Sums(g, it, r) BY <2>3
      <4> HIDE DEF it
      <4>3. /\ Pick(r) \in r /\ it[r] = g[Pick(r)] + it[r \ {Pick(r)}]
        BY <2>5, <4>1, <4>2, SumsStep
      <4>4. QED BY <4>3 DEF rest, it
    <3>2. part(r)[rest(r)] = part(rest(r))[rest(r)]
      BY <1>6, <2>2, <3>1
    <3>3. new[r] = g[Pick(r)] + part(rest(r))[rest(r)]
      BY <2>2, <2>5
    <3>4. QED BY <3>1, <3>2, <3>3
  <2>6. QED BY <2>4, <2>5
<1>8. \A s \in SUBSET T :
        value(s) = IF s = {} THEN 0 ELSE g[Pick(s)] + new[s \ {Pick(s)}]
  <2> SUFFICES ASSUME NEW s \in SUBSET T
               PROVE  value(s) = IF s = {} THEN 0 ELSE g[Pick(s)] + new[rest(s)]
    OBVIOUS
  <2>1. s # {} => new[rest(s)] = part(rest(s))[rest(s)]
    BY <1>7
  <2> HIDE DEF new, rest, part
  <2>2. QED BY <2>1
<1>9. Sums(g, new, T)
  <2> HIDE DEF value
  <2>1. new = [s \in SUBSET T |-> IF s = {} THEN 0 ELSE g[Pick(s)] + new[s \ {Pick(s)}]]
    BY <1>8
  <2>2. QED BY <2>1 DEF Sums
<1>10. QED BY <1>4, <1>9

-----------------------------------------------------------------------------
(* The sum of g over a subset of its domain.                                 *)
SumOver(g, S) == (CHOOSE it : Sums(g, it, DOMAIN g))[S]

LEMMA SumOverSums ==
  ASSUME NEW g, IsFiniteSet(DOMAIN g)
  PROVE  \E it : /\ Sums(g, it, DOMAIN g)
                 /\ \A S \in SUBSET DOMAIN g : SumOver(g, S) = it[S]
BY SumsExist DEF SumOver

LEMMA TotalIsSumOver ==
  ASSUME NEW g
  PROVE  Total(g) = SumOver(g, DOMAIN g)
BY SumsUnfold DEF SumOver

LEMMA SumOverStep ==
  ASSUME NEW g, IsFiniteSet(DOMAIN g), NEW S \in SUBSET DOMAIN g
  PROVE  /\ S = {} => SumOver(g, S) = 0
         /\ S # {} => /\ Pick(S) \in S
                      /\ SumOver(g, S) = g[Pick(S)] + SumOver(g, S \ {Pick(S)})
<1>1. PICK it : /\ Sums(g, it, DOMAIN g)
                /\ \A U \in SUBSET DOMAIN g : SumOver(g, U) = it[U]
  BY SumOverSums
<1>2. /\ S = {} => it[S] = 0
      /\ S # {} => /\ Pick(S) \in S
                   /\ it[S] = g[Pick(S)] + it[S \ {Pick(S)}]
  BY <1>1, SumsStep
<1>3. S \ {Pick(S)} \in SUBSET DOMAIN g
  OBVIOUS
<1>4. QED BY <1>1, <1>2, <1>3

(* Functions that agree on S have the same sum over S.                       *)
LEMMA SumOverAgrees ==
  ASSUME NEW g, IsFiniteSet(DOMAIN g), NEW h, IsFiniteSet(DOMAIN h),
         NEW S \in SUBSET (DOMAIN g \cap DOMAIN h), \A x \in S : g[x] = h[x]
  PROVE  SumOver(g, S) = SumOver(h, S)
<1> DEFINE Bad == {U \in SUBSET S : SumOver(g, U) # SumOver(h, U)}
<1>1. SUFFICES ASSUME Bad # {} PROVE FALSE
  OBVIOUS
<1>2. IsFiniteSet(S) /\ Bad \in SUBSET SUBSET S
  <2>1. S \in SUBSET DOMAIN g OBVIOUS
  <2>2. IsFiniteSet(S) BY <2>1, FS_Subset
  <2>3. QED BY <2>2
<1> HIDE DEF Bad
<1>3. PICK U \in Bad : \A V \in SUBSET U : V # U => V \notin Bad
  BY <1>1, <1>2, LeastSet
<1>4. /\ U \in SUBSET S /\ U \in SUBSET DOMAIN g /\ U \in SUBSET DOMAIN h
      /\ SumOver(g, U) # SumOver(h, U)
  BY <1>3 DEF Bad
<1>5. /\ U = {} => SumOver(g, U) = 0
      /\ U # {} => Pick(U) \in U /\ SumOver(g, U) = g[Pick(U)] + SumOver(g, U \ {Pick(U)})
  BY <1>4, SumOverStep
<1>6. /\ U = {} => SumOver(h, U) = 0
      /\ U # {} => SumOver(h, U) = h[Pick(U)] + SumOver(h, U \ {Pick(U)})
  BY <1>4, SumOverStep
<1>7. U # {} => SumOver(g, U \ {Pick(U)}) = SumOver(h, U \ {Pick(U)})
  BY <1>3, <1>4, <1>5 DEF Bad
<1>8. QED BY <1>4, <1>5, <1>6, <1>7

(* A sum of integers is an integer, and any element can be taken out of it   *)
(* first.                                                                    *)
LEMMA SumOverInt ==
  ASSUME NEW g, IsFiniteSet(DOMAIN g), g \in [DOMAIN g -> Int], NEW S \in SUBSET DOMAIN g
  PROVE  SumOver(g, S) \in Int
<1> DEFINE Bad == {U \in SUBSET S : SumOver(g, U) \notin Int}
<1>1. SUFFICES ASSUME Bad # {} PROVE FALSE
  OBVIOUS
<1>2. IsFiniteSet(S) /\ Bad \in SUBSET SUBSET S
  BY FS_Subset
<1> HIDE DEF Bad
<1>3. PICK U \in Bad : \A V \in SUBSET U : V # U => V \notin Bad
  BY <1>1, <1>2, LeastSet
<1>4. U \in SUBSET S /\ U \in SUBSET DOMAIN g /\ SumOver(g, U) \notin Int
  BY <1>3 DEF Bad
<1>5. /\ U = {} => SumOver(g, U) = 0
      /\ U # {} => Pick(U) \in U /\ SumOver(g, U) = g[Pick(U)] + SumOver(g, U \ {Pick(U)})
  BY <1>4, SumOverStep
<1>6. U # {} => SumOver(g, U \ {Pick(U)}) \in Int
  BY <1>3, <1>4, <1>5 DEF Bad
<1>7. U # {} => g[Pick(U)] \in Int
  BY <1>4, <1>5
<1>8. QED BY <1>4, <1>5, <1>6, <1>7

LEMMA SumOverRemove ==
  ASSUME NEW g, IsFiniteSet(DOMAIN g), g \in [DOMAIN g -> Int], NEW S \in SUBSET DOMAIN g
  PROVE  \A x \in S : SumOver(g, S) = g[x] + SumOver(g, S \ {x})
<1> DEFINE Bad == {U \in SUBSET S : \E x \in U : SumOver(g, U) # g[x] + SumOver(g, U \ {x})}
<1>1. SUFFICES ASSUME Bad # {} PROVE FALSE
  <2>1. S \in SUBSET S OBVIOUS
  <2>2. QED BY <1>1, <2>1
<1>2. IsFiniteSet(S) /\ Bad \in SUBSET SUBSET S
  BY FS_Subset
<1> HIDE DEF Bad
<1>3. PICK U \in Bad : \A V \in SUBSET U : V # U => V \notin Bad
  BY <1>1, <1>2, LeastSet
<1>4. PICK x \in U : SumOver(g, U) # g[x] + SumOver(g, U \ {x})
  BY <1>3 DEF Bad
<1>5. U \in SUBSET S /\ U \in SUBSET DOMAIN g
  BY <1>3 DEF Bad
<1> DEFINE p == Pick(U)
           V == U \ {p}
           W == U \ {x}
           R == V \ {x}
<1>6. p \in U /\ SumOver(g, U) = g[p] + SumOver(g, V)
  <2>1. U # {} BY <1>4
  <2>2. QED BY <1>5, <2>1, SumOverStep
<1>7. p # x
  BY <1>4, <1>6
<1>8. /\ V \in SUBSET U /\ V # U /\ x \in V
      /\ W \in SUBSET U /\ W # U /\ p \in W
      /\ R = W \ {p} /\ R \in SUBSET DOMAIN g
      /\ R = V \ {x}
  BY <1>4, <1>5, <1>6, <1>7
<1> HIDE DEF V, W, R, p
<1>9. SumOver(g, V) = g[x] + SumOver(g, R)
  <2>1. V \notin Bad /\ V \in SUBSET S
    BY <1>3, <1>5, <1>8
  <2>2. QED BY <1>8, <2>1 DEF Bad
<1>10. SumOver(g, W) = g[p] + SumOver(g, R)
  <2>1. W \notin Bad /\ W \in SUBSET S
    BY <1>3, <1>5, <1>8
  <2>2. QED BY <1>8, <2>1 DEF Bad
<1>11. g[p] \in Int /\ g[x] \in Int /\ SumOver(g, R) \in Int
  <2>1. SumOver(g, R) \in Int BY <1>8, SumOverInt
  <2>2. QED BY <1>4, <1>5, <1>6, <2>1
<1>12. SumOver(g, U) # g[x] + SumOver(g, W)
  BY <1>4 DEF W
<1>13. QED BY <1>6, <1>9, <1>10, <1>11, <1>12

-----------------------------------------------------------------------------
(* The sum over the whole domain.                                            *)

(* What a function sums to is an integer, 0 if its domain is empty.          *)
LEMMA TotalInt ==
  ASSUME NEW g, IsFiniteSet(DOMAIN g), g \in [DOMAIN g -> Int]
  PROVE  /\ Total(g) \in Int
         /\ DOMAIN g = {} => Total(g) = 0
<1>1. DOMAIN g \in SUBSET DOMAIN g OBVIOUS
<1>2. SumOver(g, DOMAIN g) \in Int BY <1>1, SumOverInt
<1>3. DOMAIN g = {} => SumOver(g, DOMAIN g) = 0 BY <1>1, SumOverStep
<1>4. QED BY <1>2, <1>3, TotalIsSumOver

(* One element taken out: h is g without x.                                  *)
LEMMA TotalRemove ==
  ASSUME NEW g, IsFiniteSet(DOMAIN g), g \in [DOMAIN g -> Int], NEW x \in DOMAIN g,
         NEW h, DOMAIN h = DOMAIN g \ {x}, \A y \in DOMAIN h : h[y] = g[y]
  PROVE  Total(g) = g[x] + Total(h)
<1>1. SumOver(g, DOMAIN g) = g[x] + SumOver(g, DOMAIN h)
  BY SumOverRemove
<1>2. IsFiniteSet(DOMAIN h) /\ DOMAIN h \in SUBSET (DOMAIN g \cap DOMAIN h)
  BY FS_Subset
<1>3. SumOver(g, DOMAIN h) = SumOver(h, DOMAIN h)
  BY <1>2, SumOverAgrees
<1>4. QED BY <1>1, <1>3, TotalIsSumOver

(* Two functions that differ at x alone.                                     *)
LEMMA TotalChange ==
  ASSUME NEW g, IsFiniteSet(DOMAIN g), g \in [DOMAIN g -> Int],
         NEW h, h \in [DOMAIN g -> Int], NEW x \in DOMAIN g,
         \A y \in DOMAIN g \ {x} : h[y] = g[y]
  PROVE  Total(h) = Total(g) - g[x] + h[x]
<1> DEFINE rest == [y \in DOMAIN g \ {x} |-> g[y]]
<1>1. DOMAIN h = DOMAIN g /\ h \in [DOMAIN h -> Int]
  OBVIOUS
<1>2. DOMAIN rest = DOMAIN g \ {x} /\ \A y \in DOMAIN rest : rest[y] = g[y] /\ rest[y] = h[y]
  OBVIOUS
<1>3. IsFiniteSet(DOMAIN rest) /\ rest \in [DOMAIN rest -> Int]
  BY FS_Subset
<1> HIDE DEF rest
<1>4. Total(g) = g[x] + Total(rest)
  BY <1>2, TotalRemove
<1>5. Total(h) = h[x] + Total(rest)
  BY <1>1, <1>2, TotalRemove
<1>6. Total(rest) \in Int
  BY <1>3, TotalInt
<1>7. g[x] \in Int /\ h[x] \in Int
  OBVIOUS
<1>8. QED BY <1>4, <1>5, <1>6, <1>7

(* The domain cut in two.                                                    *)
LEMMA TotalSplit ==
  ASSUME NEW f, IsFiniteSet(DOMAIN f), f \in [DOMAIN f -> Int],
         NEW g, NEW h, DOMAIN g \cup DOMAIN h = DOMAIN f, DOMAIN g \cap DOMAIN h = {},
         \A x \in DOMAIN g : g[x] = f[x], \A x \in DOMAIN h : h[x] = f[x]
  PROVE  Total(f) = Total(g) + Total(h)
<1>0. /\ DOMAIN g \in SUBSET DOMAIN f /\ DOMAIN h \in SUBSET DOMAIN f
      /\ IsFiniteSet(DOMAIN g) /\ IsFiniteSet(DOMAIN h)
  <2>1. DOMAIN g \in SUBSET DOMAIN f /\ DOMAIN h \in SUBSET DOMAIN f OBVIOUS
  <2>2. QED BY <2>1, FS_Subset
<1> DEFINE Bad == {U \in SUBSET DOMAIN g :
                     SumOver(f, U \cup DOMAIN h) # SumOver(f, U) + SumOver(f, DOMAIN h)}
<1>1. Bad = {}
  <2>1. SUFFICES ASSUME Bad # {} PROVE FALSE
    OBVIOUS
  <2>2. Bad \in SUBSET SUBSET DOMAIN g
    OBVIOUS
  <2> HIDE DEF Bad
  <2>3. PICK U \in Bad : \A V \in SUBSET U : V # U => V \notin Bad
    BY <1>0, <2>1, <2>2, LeastSet
  <2> DEFINE B == U \cup DOMAIN h
  <2>4. /\ U \in SUBSET DOMAIN g /\ U \in SUBSET DOMAIN f /\ B \in SUBSET DOMAIN f
        /\ SumOver(f, B) # SumOver(f, U) + SumOver(f, DOMAIN h)
    BY <1>0, <2>3 DEF Bad
  <2>5. SumOver(f, DOMAIN h) \in Int
    BY <1>0, SumOverInt
  <2>6. U # {}
    <3>1. SUFFICES ASSUME U = {} PROVE FALSE OBVIOUS
    <3>2. SumOver(f, U) = 0 BY <2>4, <3>1, SumOverStep
    <3>3. B = DOMAIN h BY <3>1
    <3>4. QED BY <2>4, <2>5, <3>2, <3>3
  <2>7. PICK x \in U : TRUE
    BY <2>6
  <2> DEFINE V == U \ {x}
  <2>8. V \in SUBSET U /\ V # U /\ V \in SUBSET DOMAIN f /\ V \in SUBSET DOMAIN g
        /\ x \in B /\ B \ {x} = V \cup DOMAIN h
    BY <2>4, <2>7
  <2>9. SumOver(f, V \cup DOMAIN h) = SumOver(f, V) + SumOver(f, DOMAIN h)
    BY <2>3, <2>8 DEF Bad
  <2>10. SumOver(f, U) = f[x] + SumOver(f, V)
    BY <2>4, <2>7, SumOverRemove
  <2>11. SumOver(f, B) = f[x] + SumOver(f, V \cup DOMAIN h)
    BY <2>4, <2>8, SumOverRemove
  <2>12. SumOver(f, V) \in Int /\ f[x] \in Int
    <3>1. SumOver(f, V) \in Int BY <2>8, SumOverInt
    <3>2. QED BY <2>4, <2>7, <3>1
  <2>13. QED BY <2>4, <2>5, <2>9, <2>10, <2>11, <2>12
<1>2. SumOver(f, DOMAIN g \cup DOMAIN h) = SumOver(f, DOMAIN g) + SumOver(f, DOMAIN h)
  BY <1>1
<1>3. SumOver(f, DOMAIN g) = SumOver(g, DOMAIN g)
  BY <1>0, SumOverAgrees
<1>4. SumOver(f, DOMAIN h) = SumOver(h, DOMAIN h)
  BY <1>0, SumOverAgrees
<1>5. QED BY <1>2, <1>3, <1>4, TotalIsSumOver

(* Nothing adds up to nothing.                                               *)
LEMMA TotalZero ==
  ASSUME NEW g, IsFiniteSet(DOMAIN g), \A x \in DOMAIN g : g[x] = 0
  PROVE  Total(g) = 0
<1> DEFINE Bad == {U \in SUBSET DOMAIN g : SumOver(g, U) # 0}
<1>1. SUFFICES ASSUME Bad # {} PROVE FALSE
  BY TotalIsSumOver
<1>2. Bad \in SUBSET SUBSET DOMAIN g
  OBVIOUS
<1> HIDE DEF Bad
<1>3. PICK U \in Bad : \A V \in SUBSET U : V # U => V \notin Bad
  BY <1>1, <1>2, LeastSet
<1>4. U \in SUBSET DOMAIN g /\ SumOver(g, U) # 0
  BY <1>3 DEF Bad
<1>5. U # {} /\ Pick(U) \in U /\ SumOver(g, U) = g[Pick(U)] + SumOver(g, U \ {Pick(U)})
  BY <1>4, SumOverStep
<1>6. SumOver(g, U \ {Pick(U)}) = 0
  BY <1>3, <1>4, <1>5 DEF Bad
<1>7. QED BY <1>4, <1>5, <1>6
=============================================================================
