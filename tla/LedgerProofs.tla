----------------------------- MODULE LedgerProofs -----------------------------
(***************************************************************************)
(* What holds of the amounts, and that the indexer is the ledger it        *)
(* promises to be, for every universe of blocks and transactions.          *)
(***************************************************************************)
EXTENDS BlkIndexerProofs, FiniteSetTheorems

(* Induction, in the form of sets: the provers take no operator as argument. *)
LEMMA LeastNumber ==
    ASSUME NEW T \in SUBSET Nat, T # {}
    PROVE  \E m \in T : \A k \in T : m <= k
<1> DEFINE R == {ss \in Nat \X Nat : ss[1] < ss[2]}
<1>1. IsWellFoundedOn(R, Nat)
  BY NatLessThanWellFounded DEF OpToRel
<1>2. PICK m \in T : \A k \in T : ~(<<k, m>> \in R)
  BY <1>1, WFMin
<1>3. ASSUME NEW k \in T PROVE m <= k
  <2>1. k \in Nat /\ m \in Nat /\ <<k, m>> \in Nat \X Nat
    OBVIOUS
  <2>2. ~(k < m)
    BY <1>2, <2>1
  <2>3. QED BY <2>1, <2>2
<1>4. QED BY <1>3

LEMMA NatInd ==
    ASSUME NEW C, 0 \in C, \A n \in Nat : n \in C => n + 1 \in C
    PROVE  \A n \in Nat : n \in C
<1> DEFINE Bad == {n \in Nat : n \notin C}
<1>1. SUFFICES ASSUME Bad # {} PROVE FALSE
  OBVIOUS
<1>2. PICK m \in Bad : \A k \in Bad : m <= k
  BY <1>1, LeastNumber
<1>3. m \in Nat /\ m # 0
  OBVIOUS
<1>4. m - 1 \in Nat /\ m - 1 \notin Bad
  BY <1>2, <1>3
<1>5. QED BY <1>3, <1>4

LEMMA FiniteInd ==
    ASSUME NEW S, IsFiniteSet(S), NEW C, {} \in C,
           \A T \in SUBSET S : \A x \in S \ T : T \in C => T \cup {x} \in C
    PROVE  \A T \in SUBSET S : T \in C
<1> DEFINE Bad == {T \in SUBSET S : T \notin C}
           N == {Cardinality(T) : T \in Bad}
<1>1. SUFFICES ASSUME Bad # {} PROVE FALSE
  OBVIOUS
<1>2. \A T \in SUBSET S : IsFiniteSet(T) /\ Cardinality(T) \in Nat
  BY FS_Subset, FS_CardinalityType
<1>3. N \in SUBSET Nat /\ N # {}
  BY <1>1, <1>2
<1>4. PICK m \in N : \A k \in N : m <= k
  <2> HIDE DEF N
  <2> QED BY <1>3, LeastNumber
<1>5. PICK T \in Bad : m = Cardinality(T)
  OBVIOUS
<1>6. PICK x \in T : TRUE
  OBVIOUS
<1>7. T \ {x} \in SUBSET S /\ x \in S \ (T \ {x}) /\ T = (T \ {x}) \cup {x}
  OBVIOUS
<1>8. Cardinality(T \ {x}) = Cardinality(T) - 1
  BY <1>2, FS_RemoveElement
<1>9. T \ {x} \in C
  <2>1. SUFFICES ASSUME T \ {x} \in Bad PROVE FALSE
    BY <1>7
  <2>2. m <= Cardinality(T \ {x})
    BY <1>4, <2>1
  <2>3. QED BY <1>2, <1>5, <1>8, <2>2
<1>10. QED BY <1>7, <1>9

-----------------------------------------------------------------------------
(* SumFunctionOnSet (module Functions) takes the elements of a set one by   *)
(* one: g holds the sums of f over the subsets of S.                        *)
Pick(s) == CHOOSE x \in s : TRUE

IsSum(f, S, g) ==
    g = [s \in SUBSET S |-> IF s = {} THEN 0
                            ELSE f[Pick(s)] + g[s \ {Pick(s)}]]

LEMMA SumIsChosen == ASSUME NEW f, NEW S PROVE SumFunctionOnSet(f, S) = (CHOOSE g : IsSum(f, S, g))[S]
BY DEF SumFunctionOnSet, FoldFunctionOnSet, MapThenFoldSet, IsSum, Pick

(* The recursion of a sum has a solution: built up by the size of the set.  *)
LEMMA SumExists ==
    ASSUME NEW S, IsFiniteSet(S), NEW f, \A x \in S : f[x] \in Int
    PROVE  \E g \in [SUBSET S -> Int] : IsSum(f, S, g)
<1> DEFINE Upto(n, g) == \A s \in SUBSET S : Cardinality(s) <= n =>
                            g[s] = IF s = {} THEN 0 ELSE f[Pick(s)] + g[s \ {Pick(s)}]
           C == {n \in Nat : \E g \in [SUBSET S -> Int] : Upto(n, g)}
<1>1. \A s \in SUBSET S : IsFiniteSet(s) /\ Cardinality(s) \in Nat
                          /\ (Cardinality(s) = 0 <=> s = {})
  BY FS_Subset, FS_CardinalityType, FS_EmptySet
<1>2. \A s \in SUBSET S : s # {} =>
         Pick(s) \in s /\ s \ {Pick(s)} \in SUBSET S
         /\ Cardinality(s \ {Pick(s)}) = Cardinality(s) - 1
  BY <1>1, FS_RemoveElement DEF Pick
<1>3. 0 \in C
  <2> DEFINE g == [s \in SUBSET S |-> 0]
  <2>1. g \in [SUBSET S -> Int]
    OBVIOUS
  <2>2. Upto(0, g)
    BY <1>1
  <2>3. QED BY <2>1, <2>2
<1>4. ASSUME NEW n \in Nat, n \in C PROVE n + 1 \in C
  <2>1. PICK g \in [SUBSET S -> Int] : Upto(n, g)
    BY <1>4
  <2> DEFINE h == [s \in SUBSET S |-> IF Cardinality(s) = n + 1
                                      THEN f[Pick(s)] + g[s \ {Pick(s)}] ELSE g[s]]
  <2>2. h \in [SUBSET S -> Int]
    <3>1. ASSUME NEW s \in SUBSET S, Cardinality(s) = n + 1
          PROVE f[Pick(s)] + g[s \ {Pick(s)}] \in Int
      <4>1. s # {}
        BY <1>1, <3>1
      <4>2. f[Pick(s)] \in Int /\ g[s \ {Pick(s)}] \in Int
        BY <1>2, <4>1
      <4>3. QED BY <4>2
    <3>2. QED BY <3>1
  <2>3. ASSUME NEW s \in SUBSET S, Cardinality(s) <= n + 1
        PROVE  h[s] = IF s = {} THEN 0 ELSE f[Pick(s)] + h[s \ {Pick(s)}]
    <3>1. CASE s = {}
      <4>1. Cardinality(s) = 0
        BY <1>1, <3>1
      <4>2. h[s] = g[s]
        BY <4>1
      <4>3. QED BY <2>1, <3>1, <4>1, <4>2
    <3>2. CASE s # {}
      <4>1. /\ s \ {Pick(s)} \in SUBSET S 
            /\ Cardinality(s \ {Pick(s)}) = Cardinality(s) - 1 /\ Cardinality(s) \in Nat
        BY <1>1, <1>2, <3>2
      <4>2. h[s \ {Pick(s)}] = g[s \ {Pick(s)}]
        <5>1. Cardinality(s \ {Pick(s)}) # n + 1
          BY <2>3, <4>1
        <5>2. QED BY <4>1, <5>1
      <4>3. CASE Cardinality(s) = n + 1
        BY <3>2, <4>2, <4>3
      <4>4. CASE Cardinality(s) # n + 1
        <5>1. Cardinality(s) <= n
          BY <2>3, <4>1, <4>4
        <5>2. QED BY <2>1, <3>2, <4>2, <4>4, <5>1
      <4>5. QED BY <4>3, <4>4
    <3>3. QED BY <3>1, <3>2
  <2>4. Upto(n + 1, h)
    BY <2>3
  <2>5. n + 1 \in Nat
    OBVIOUS
  <2> HIDE DEF Upto, h
  <2>6. QED BY <2>2, <2>4, <2>5
<1>5. Cardinality(S) \in C
  <2> HIDE DEF C
  <2> QED BY <1>1, <1>3, <1>4, NatInd
<1>6. PICK g \in [SUBSET S -> Int] : Upto(Cardinality(S), g)
  BY <1>5
<1>7. \A s \in SUBSET S : Cardinality(s) <= Cardinality(S)
  BY FS_Subset
<1>8. \A s \in SUBSET S : g[s] = IF s = {} THEN 0 ELSE f[Pick(s)] + g[s \ {Pick(s)}]
  BY <1>6, <1>7
<1>9. g = [s \in SUBSET S |-> IF s = {} THEN 0 ELSE f[Pick(s)] + g[s \ {Pick(s)}]]
  BY <1>8
<1>10. IsSum(f, S, g)
  BY <1>9 DEF IsSum
<1>11. QED BY <1>10

(* Over a subset it has the same value, whichever solution is chosen.      *)
LEMMA SumUnique ==
    ASSUME NEW S, IsFiniteSet(S), NEW T \in SUBSET S, NEW f, NEW g, NEW h, IsSum(f, S, g), IsSum(f, T, h)
    PROVE  g[T] = h[T]
<1> DEFINE N == {n \in Nat : \A s \in SUBSET T : Cardinality(s) = n => g[s] = h[s]}
<1>1. \A s \in SUBSET T : IsFiniteSet(s) /\ Cardinality(s) \in Nat
                          /\ (Cardinality(s) = 0 <=> s = {})
  BY FS_Subset, FS_CardinalityType, FS_EmptySet
<1>2. \A s \in SUBSET T : s # {} =>
         Pick(s) \in s /\ s \ {Pick(s)} \in SUBSET T
         /\ Cardinality(s \ {Pick(s)}) = Cardinality(s) - 1
  BY <1>1, FS_RemoveElement DEF Pick
<1>3. \A s \in SUBSET T : /\ g[s] = IF s = {} THEN 0 ELSE f[Pick(s)] + g[s \ {Pick(s)}]
                          /\ h[s] = IF s = {} THEN 0 ELSE f[Pick(s)] + h[s \ {Pick(s)}]
  <2>1. g = [s \in SUBSET S |-> IF s = {} THEN 0 ELSE f[Pick(s)] + g[s \ {Pick(s)}]]
    BY DEF IsSum
  <2>2. h = [s \in SUBSET T |-> IF s = {} THEN 0 ELSE f[Pick(s)] + h[s \ {Pick(s)}]]
    BY DEF IsSum
    <2>3. SUBSET T \subseteq SUBSET S
    OBVIOUS
  <2>4. QED BY <2>1, <2>2, <2>3
<1>4. 0 \in N
  BY <1>1, <1>3
<1>5. ASSUME NEW n \in Nat, n \in N PROVE n + 1 \in N
  <2>1. ASSUME NEW s \in SUBSET T, Cardinality(s) = n + 1 PROVE g[s] = h[s]
    <3>1. s # {}
      BY <1>1, <2>1
    <3>2. s \ {Pick(s)} \in SUBSET T /\ Cardinality(s \ {Pick(s)}) = n
      BY <1>2, <2>1, <3>1
    <3>3. g[s \ {Pick(s)}] = h[s \ {Pick(s)}]
      BY <1>5, <3>2
    <3>4. QED BY <1>3, <3>1, <3>3
  <2>2. QED BY <2>1
<1>6. Cardinality(T) \in N
  <2> HIDE DEF N
  <2> QED BY <1>1, <1>4, <1>5, NatInd
<1>7. QED BY <1>6

LEMMA SumUnfold ==
    ASSUME NEW S, IsFiniteSet(S), NEW f, \A x \in S : f[x] \in Int
    PROVE  \A T \in SUBSET S :
              /\ SumFunctionOnSet(f, T) \in Int
              /\ SumFunctionOnSet(f, T) =
                    IF T = {} THEN 0
                    ELSE f[Pick(T)]
                         + SumFunctionOnSet(f, T \ {Pick(T)})
<1>1. PICK g \in [SUBSET S -> Int] : IsSum(f, S, g)
  BY SumExists
<1>2. ASSUME NEW T \in SUBSET S PROVE SumFunctionOnSet(f, T) = g[T]
  <2>1. IsFiniteSet(T) /\ \A x \in T : f[x] \in Int
    BY FS_Subset
  <2>2. \E h : IsSum(f, T, h)
    BY <2>1, SumExists
  <2>3. IsSum(f, T, CHOOSE h : IsSum(f, T, h))
    BY <2>2
  <2>4. QED BY <1>1, <2>3, SumUnique, SumIsChosen
<1>3. ASSUME NEW T \in SUBSET S
      PROVE  /\ g[T] \in Int
             /\ g[T] = IF T = {} THEN 0
                       ELSE f[Pick(T)] + g[T \ {Pick(T)}]
  BY <1>1 DEF IsSum
<1>4. \A T \in SUBSET S : T \ {Pick(T)} \in SUBSET S
  OBVIOUS
<1>5. QED BY <1>2, <1>3, <1>4

(* Any element may be taken first, not only the one the recursion picks.   *)
LEMMA SumRemove ==
    ASSUME NEW S, IsFiniteSet(S), NEW f, \A x \in S : f[x] \in Int
    PROVE  \A T \in SUBSET S : \A x \in T :
              SumFunctionOnSet(f, T) = f[x] + SumFunctionOnSet(f, T \ {x})
<1> DEFINE Sum(s) == SumFunctionOnSet(f, s)
           N == {n \in Nat : \A T \in SUBSET S : Cardinality(T) = n =>
                                \A x \in T : Sum(T) = f[x] + Sum(T \ {x})}
<1>1. \A s \in SUBSET S : IsFiniteSet(s) /\ Cardinality(s) \in Nat
                          /\ (Cardinality(s) = 0 <=> s = {})
  BY FS_Subset, FS_CardinalityType, FS_EmptySet
<1>2. \A s \in SUBSET S : \A x \in s :
         s \ {x} \in SUBSET S /\ Cardinality(s \ {x}) = Cardinality(s) - 1
  BY <1>1, FS_RemoveElement DEF Pick
<1>3. \A s \in SUBSET S : s # {} => Pick(s) \in s
  BY DEF Pick
<1>4. \A T \in SUBSET S :
         /\ Sum(T) \in Int
         /\ Sum(T) = IF T = {} THEN 0 ELSE f[Pick(T)] + Sum(T \ {Pick(T)})
  BY SumUnfold
<1> HIDE DEF Sum
<1>5. 0 \in N
  BY <1>1
<1>6. ASSUME NEW n \in Nat, n \in N PROVE n + 1 \in N
  <2>1. ASSUME NEW T \in SUBSET S, Cardinality(T) = n + 1, NEW x \in T
        PROVE  Sum(T) = f[x] + Sum(T \ {x})
    <3> DEFINE p == Pick(T)
    <3>1. p \in T /\ Sum(T) = f[p] + Sum(T \ {p})
      BY <1>3, <1>4
    <3>2. CASE p = x
      BY <3>1, <3>2
    <3>3. CASE p # x
      <4> HIDE DEF p
      <4> DEFINE r == (T \ {x}) \ {p}
      <4>1. x \in T \ {p} /\ p \in T \ {x} /\ (T \ {p}) \ {x} = r
        BY <3>1, <3>3
      <4>2. /\ T \ {p} \in SUBSET S /\ Cardinality(T \ {p}) = n
            /\ T \ {x} \in SUBSET S /\ Cardinality(T \ {x}) = n
        BY <1>2, <2>1, <3>1
      <4>3. Sum(T \ {p}) = f[x] + Sum(r)
        BY <1>6, <4>1, <4>2
      <4>4. Sum(T \ {x}) = f[p] + Sum(r)
        BY <1>6, <4>1, <4>2
      <4>5. r \in SUBSET S /\ f[p] \in Int /\ f[x] \in Int
        BY <3>1
      <4> HIDE DEF r
      <4>6. Sum(r) \in Int
        BY <1>4, <4>5
      <4>7. QED BY <3>1, <4>1, <4>3, <4>4, <4>5, <4>6
    <3>4. QED BY <3>2, <3>3
  <2>2. QED BY <2>1
<1>7. \A n \in Nat : n \in N
  <2> HIDE DEF N
  <2> QED BY <1>5, <1>6, NatInd
<1>8. QED BY <1>1, <1>7 DEF Sum

LEMMA SumType ==
    ASSUME NEW S, IsFiniteSet(S), NEW f, \A x \in S : f[x] \in Int
    PROVE  SumFunctionOnSet(f, S) \in Int
<1>1. \A T \in SUBSET S : SumFunctionOnSet(f, T) \in Int
  BY SumUnfold
<1>2. S \in SUBSET S
  OBVIOUS
<1>3. QED BY <1>1, <1>2

LEMMA SumEmpty == ASSUME NEW f PROVE SumFunctionOnSet(f, {}) = 0
<1>1. IsFiniteSet({}) /\ {} \in SUBSET {}
  BY FS_EmptySet
<1>2. \A T \in SUBSET {} :
         SumFunctionOnSet(f, T) = IF T = {} THEN 0 ELSE f[Pick(T)] + SumFunctionOnSet(f, T \ {Pick(T)})
  BY <1>1, SumUnfold
<1>3. QED BY <1>1, <1>2

LEMMA SumTake ==
    ASSUME NEW S, IsFiniteSet(S), NEW f, \A x \in S : f[x] \in Int, NEW x \in S
    PROVE  SumFunctionOnSet(f, S) = f[x] + SumFunctionOnSet(f, S \ {x})
<1>1. S \in SUBSET S
  OBVIOUS
<1>2. QED BY <1>1, SumRemove

LEMMA SumAdd ==
    ASSUME NEW S, IsFiniteSet(S), NEW x, x \notin S,
           NEW f, \A y \in S \cup {x} : f[y] \in Int
    PROVE  SumFunctionOnSet(f, S \cup {x}) = f[x] + SumFunctionOnSet(f, S)
<1> DEFINE T == S \cup {x}
<1>1. IsFiniteSet(T)
  BY FS_AddElement
<1>2. (\A y \in T : f[y] \in Int) /\ x \in T /\ T \ {x} = S
  OBVIOUS
<1>3. SumFunctionOnSet(f, T) = f[x] + SumFunctionOnSet(f, T \ {x})
  <2> HIDE DEF T
  <2> QED BY <1>1, <1>2, SumTake
<1>4. QED BY <1>2, <1>3

(* One step of an induction over the summed set. *)
LEMMA SumStep ==
    ASSUME NEW S, IsFiniteSet(S), NEW f, \A y \in S : f[y] \in Int,
           NEW T \in SUBSET S, NEW x \in S \ T
    PROVE  /\ SumFunctionOnSet(f, T \cup {x}) = f[x] + SumFunctionOnSet(f, T)
           /\ SumFunctionOnSet(f, T) \in Int
           /\ f[x] \in Int
<1>1. IsFiniteSet(T) /\ x \notin T /\ (\A y \in T \cup {x} : f[y] \in Int)
      /\ \A y \in T : f[y] \in Int
  BY FS_Subset
<1>2. SumFunctionOnSet(f, T \cup {x}) = f[x] + SumFunctionOnSet(f, T)
  BY <1>1, SumAdd
<1>3. SumFunctionOnSet(f, T) \in Int
  BY <1>1, SumType
<1>4. QED BY <1>1, <1>2, <1>3

LEMMA SumEqual ==
    ASSUME NEW S, IsFiniteSet(S), NEW f, NEW g, \A x \in S : f[x] \in Int /\ f[x] = g[x]
    PROVE  SumFunctionOnSet(f, S) = SumFunctionOnSet(g, S)
<1> DEFINE C == {T \in SUBSET S : SumFunctionOnSet(f, T) = SumFunctionOnSet(g, T)}
<1>1. {} \in C
  BY SumEmpty
<1>2. ASSUME NEW T \in SUBSET S, NEW x \in S \ T, T \in C PROVE T \cup {x} \in C
  <2>1. SumFunctionOnSet(f, T \cup {x}) = f[x] + SumFunctionOnSet(f, T)
    BY SumStep
  <2>2. SumFunctionOnSet(g, T \cup {x}) = g[x] + SumFunctionOnSet(g, T)
    BY SumStep
  <2>3. QED BY <1>2, <2>1, <2>2
<1>3. S \in C
  <2> HIDE DEF C
  <2>1. \A T \in SUBSET S : T \in C
    BY <1>1, <1>2, FiniteInd
  <2>2. QED BY <2>1
<1>4. QED BY <1>3

LEMMA SumMonotone ==
    ASSUME NEW S, IsFiniteSet(S), NEW f, NEW g,
           \A x \in S : f[x] \in Int /\ g[x] \in Int /\ f[x] <= g[x]
    PROVE  SumFunctionOnSet(f, S) <= SumFunctionOnSet(g, S)
<1> DEFINE C == {T \in SUBSET S : SumFunctionOnSet(f, T) <= SumFunctionOnSet(g, T)}
<1>1. {} \in C
  BY SumEmpty
<1>2. ASSUME NEW T \in SUBSET S, NEW x \in S \ T, T \in C PROVE T \cup {x} \in C
  <2>1. /\ SumFunctionOnSet(f, T \cup {x}) = f[x] + SumFunctionOnSet(f, T)
        /\ SumFunctionOnSet(f, T) \in Int /\ f[x] \in Int
    BY SumStep
  <2>2. /\ SumFunctionOnSet(g, T \cup {x}) = g[x] + SumFunctionOnSet(g, T)
        /\ SumFunctionOnSet(g, T) \in Int /\ g[x] \in Int
    BY SumStep
  <2>3. SumFunctionOnSet(f, T) <= SumFunctionOnSet(g, T) /\ f[x] <= g[x]
    BY <1>2
  <2>4. SumFunctionOnSet(f, T \cup {x}) <= SumFunctionOnSet(g, T \cup {x})
    BY <2>1, <2>2, <2>3
  <2>5. QED BY <2>4
<1>3. S \in C
  <2> HIDE DEF C
  <2>1. \A T \in SUBSET S : T \in C
    BY <1>1, <1>2, FiniteInd
  <2>2. QED BY <2>1
<1>4. QED BY <1>3

LEMMA SumMinus ==
    ASSUME NEW S, IsFiniteSet(S), NEW f, NEW g, NEW h,
           \A x \in S : f[x] \in Int /\ g[x] \in Int /\ h[x] = f[x] - g[x]
    PROVE  SumFunctionOnSet(h, S) = SumFunctionOnSet(f, S) - SumFunctionOnSet(g, S)
<1> DEFINE C == {T \in SUBSET S :
                   SumFunctionOnSet(h, T) = SumFunctionOnSet(f, T) - SumFunctionOnSet(g, T)}
<1>1. {} \in C
  BY SumEmpty
<1>2. ASSUME NEW T \in SUBSET S, NEW x \in S \ T, T \in C PROVE T \cup {x} \in C
  <2>1. /\ SumFunctionOnSet(f, T \cup {x}) = f[x] + SumFunctionOnSet(f, T)
        /\ SumFunctionOnSet(f, T) \in Int /\ f[x] \in Int
    BY SumStep
  <2>2. /\ SumFunctionOnSet(g, T \cup {x}) = g[x] + SumFunctionOnSet(g, T)
        /\ SumFunctionOnSet(g, T) \in Int /\ g[x] \in Int
    BY SumStep
  <2>3. /\ SumFunctionOnSet(h, T \cup {x}) = h[x] + SumFunctionOnSet(h, T)
        /\ SumFunctionOnSet(h, T) \in Int /\ h[x] \in Int
    BY SumStep
  <2>4. /\ SumFunctionOnSet(h, T) = SumFunctionOnSet(f, T) - SumFunctionOnSet(g, T)
        /\ h[x] = f[x] - g[x]
    BY <1>2
  <2>5. SumFunctionOnSet(h, T \cup {x})
          = SumFunctionOnSet(f, T \cup {x}) - SumFunctionOnSet(g, T \cup {x})
    BY <2>1, <2>2, <2>3, <2>4
  <2>6. QED BY <2>5
<1>3. S \in C
  <2> HIDE DEF C
  <2>1. \A T \in SUBSET S : T \in C
    BY <1>1, <1>2, FiniteInd
  <2>2. QED BY <2>1
<1>4. QED BY <1>3

LEMMA SumDisjoint ==
    ASSUME NEW S, IsFiniteSet(S), NEW R, IsFiniteSet(R), S \cap R = {},
           NEW f, \A x \in S \cup R : f[x] \in Int
    PROVE  SumFunctionOnSet(f, S \cup R) = SumFunctionOnSet(f, S) + SumFunctionOnSet(f, R)
<1> DEFINE Sum(T) == SumFunctionOnSet(f, T)
           C == {T \in SUBSET S : Sum(T \cup R) = Sum(T) + Sum(R)}
<1>1. IsFiniteSet(S \cup R) /\ Sum(R) \in Int
  BY FS_Union, SumType
<1>2. {} \in C
  <2>1. Sum({}) = 0 /\ {} \cup R = R
    BY SumEmpty
  <2> HIDE DEF Sum
  <2>2. QED BY <1>1, <2>1
<1>3. ASSUME NEW T \in SUBSET S, NEW x \in S \ T, T \in C PROVE T \cup {x} \in C
  <2>1. Sum(T \cup {x}) = f[x] + Sum(T) /\ Sum(T) \in Int /\ f[x] \in Int
    BY SumStep
  <2> DEFINE All == S \cup R
             Some == T \cup R
  <2>2. /\ IsFiniteSet(All) /\ Some \in SUBSET All /\ x \in All \ Some
        /\ \A y \in All : f[y] \in Int
    BY <1>1
  <2>3. Sum(Some \cup {x}) = f[x] + Sum(Some) /\ Sum(Some) \in Int
    <3> HIDE DEF All, Some
    <3> QED BY <2>2, SumStep
  <2>4. (T \cup {x}) \cup R = (T \cup R) \cup {x}
    OBVIOUS
  <2>5. Sum(T \cup R) = Sum(T) + Sum(R)
    BY <1>3
  <2> HIDE DEF Sum
  <2>6. Sum((T \cup {x}) \cup R) = f[x] + Sum(T \cup R)
    BY <2>3, <2>4
  <2>7. Sum((T \cup {x}) \cup R) = Sum(T \cup {x}) + Sum(R)
    BY <1>1, <2>1, <2>3, <2>5, <2>6
  <2>8. QED BY <2>7
<1>4. S \in C
  <2> HIDE DEF C
  <2>1. \A T \in SUBSET S : T \in C
    BY <1>2, <1>3, FiniteInd
  <2>2. QED BY <2>1
<1>5. QED BY <1>4

LEMMA SumZero ==
    ASSUME NEW S, IsFiniteSet(S), NEW f, \A x \in S : f[x] = 0
    PROVE  SumFunctionOnSet(f, S) = 0
<1> DEFINE C == {T \in SUBSET S : SumFunctionOnSet(f, T) = 0}
<1>1. {} \in C
  BY SumEmpty
<1>2. ASSUME NEW T \in SUBSET S, NEW x \in S \ T, T \in C PROVE T \cup {x} \in C
  <2>1. SumFunctionOnSet(f, T \cup {x}) = f[x] + SumFunctionOnSet(f, T)
    BY SumStep
  <2>2. QED BY <1>2, <2>1
<1>3. S \in C
  <2> HIDE DEF C
  <2>1. \A T \in SUBSET S : T \in C
    BY <1>1, <1>2, FiniteInd
  <2>2. QED BY <2>1
<1>4. QED BY <1>3

LEMMA ImageFinite ==
    ASSUME NEW S, IsFiniteSet(S), NEW p
    PROVE  IsFiniteSet({p[x] : x \in S})
<1> DEFINE Image(T) == {p[x] : x \in T}
           C == {T \in SUBSET S : IsFiniteSet(Image(T))}
<1>1. {} \in C
  <2>1. Image({}) = {}
    OBVIOUS
  <2>2. QED BY <2>1, FS_EmptySet
<1>2. ASSUME NEW T \in SUBSET S, NEW x \in S \ T, T \in C PROVE T \cup {x} \in C
  <2>1. Image(T \cup {x}) = Image(T) \cup {p[x]}
    OBVIOUS
  <2> HIDE DEF Image
  <2>2. IsFiniteSet(Image(T) \cup {p[x]})
    BY <1>2, FS_AddElement
  <2>3. QED BY <2>1, <2>2
<1>3. S \in C
  <2> HIDE DEF C
  <2>1. \A T \in SUBSET S : T \in C
    BY <1>1, <1>2, FiniteInd
  <2>2. QED BY <2>1
<1>4. QED BY <1>3

(* A sum over the values of an injection is one over its arguments.        *)
LEMMA SumReindex ==
    ASSUME NEW S, IsFiniteSet(S), NEW p, \A x, y \in S : p[x] = p[y] => x = y,
           NEW f, NEW g, \A x \in S : g[x] \in Int /\ g[x] = f[p[x]]
    PROVE  SumFunctionOnSet(f, {p[x] : x \in S}) = SumFunctionOnSet(g, S)
<1> DEFINE Image(T) == {p[x] : x \in T}
           C == {T \in SUBSET S : SumFunctionOnSet(f, Image(T)) = SumFunctionOnSet(g, T)}
<1>1. {} \in C
  <2>1. Image({}) = {}
    OBVIOUS
  <2>2. QED BY <2>1, SumEmpty
<1>2. ASSUME NEW T \in SUBSET S, NEW x \in S \ T, T \in C PROVE T \cup {x} \in C
  <2>1. IsFiniteSet(T)
    BY FS_Subset
  <2>2. IsFiniteSet(Image(T))
    BY <2>1, ImageFinite
  <2>3. p[x] \notin Image(T) /\ Image(T \cup {x}) = Image(T) \cup {p[x]}
    OBVIOUS
  <2>4. \A y \in Image(T) \cup {p[x]} : f[y] \in Int
    OBVIOUS
  <2>5. SumFunctionOnSet(g, T \cup {x}) = g[x] + SumFunctionOnSet(g, T)
    BY SumStep
  <2> HIDE DEF Image
  <2>6. SumFunctionOnSet(f, Image(T) \cup {p[x]}) = f[p[x]] + SumFunctionOnSet(f, Image(T))
    BY <2>2, <2>3, <2>4, SumAdd
  <2>7. SumFunctionOnSet(f, Image(T \cup {x})) = SumFunctionOnSet(g, T \cup {x})
    BY <1>2, <2>3, <2>5, <2>6
  <2>8. QED BY <2>7
<1>3. S \in C
  <2> HIDE DEF C
  <2>1. \A T \in SUBSET S : T \in C
    BY <1>1, <1>2, FiniteInd
  <2>2. QED BY <2>1
<1>4. QED BY <1>3

(* A sum over the union of disjoint sets is the sum of their sums.         *)
LEMMA SumFamily ==
    ASSUME NEW I, IsFiniteSet(I), NEW A, \A i \in I : IsFiniteSet(A[i]),
           \A i, j \in I : i # j => A[i] \cap A[j] = {},
           NEW f, \A i \in I : \A x \in A[i] : f[x] \in Int,
           NEW g, \A i \in I : g[i] = SumFunctionOnSet(f, A[i])
    PROVE  /\ IsFiniteSet(UNION {A[i] : i \in I})
           /\ SumFunctionOnSet(f, UNION {A[i] : i \in I}) = SumFunctionOnSet(g, I)
<1> DEFINE All(T) == UNION {A[i] : i \in T}
           C == {T \in SUBSET I : /\ IsFiniteSet(All(T))
                                  /\ SumFunctionOnSet(f, All(T)) = SumFunctionOnSet(g, T)}
<1>1. {} \in C
  <2>1. All({}) = {}
    OBVIOUS
  <2>2. QED BY <2>1, SumEmpty, FS_EmptySet
<1>2. \A i \in I : g[i] \in Int
  BY SumType
<1>3. ASSUME NEW T \in SUBSET I, NEW x \in I \ T, T \in C PROVE T \cup {x} \in C
  <2>1. All(T \cup {x}) = All(T) \cup A[x]
    OBVIOUS
  <2>2. All(T) \cap A[x] = {}
    OBVIOUS
  <2>3. \A y \in All(T) \cup A[x] : f[y] \in Int
    OBVIOUS
  <2>4. SumFunctionOnSet(g, T \cup {x}) = g[x] + SumFunctionOnSet(g, T)
        /\ SumFunctionOnSet(g, T) \in Int
    BY <1>2, SumStep
  <2>5. IsFiniteSet(All(T)) /\ SumFunctionOnSet(f, All(T)) = SumFunctionOnSet(g, T)
    BY <1>3
  <2>6. IsFiniteSet(A[x]) /\ g[x] = SumFunctionOnSet(f, A[x]) /\ g[x] \in Int
    BY <1>2
  <2> HIDE DEF All
  <2>7. SumFunctionOnSet(f, All(T) \cup A[x])
          = SumFunctionOnSet(f, All(T)) + SumFunctionOnSet(f, A[x])
    BY <2>2, <2>3, <2>5, <2>6, SumDisjoint
  <2>8. IsFiniteSet(All(T \cup {x}))
    <3>1. IsFiniteSet(All(T) \cup A[x])
      BY <2>5, <2>6, FS_Union
    <3>2. QED BY <2>1, <3>1
  <2>9. SumFunctionOnSet(f, All(T \cup {x})) = SumFunctionOnSet(g, T \cup {x})
    <3>1. SumFunctionOnSet(f, All(T \cup {x})) = SumFunctionOnSet(g, T) + g[x]
      BY <2>1, <2>5, <2>6, <2>7
    <3>2. QED BY <2>4, <2>6, <3>1
  <2>10. QED BY <2>8, <2>9
<1>4. I \in C
  <2> HIDE DEF C
  <2>1. \A T \in SUBSET I : T \in C
    BY <1>1, <1>3, FiniteInd
  <2>2. QED BY <2>1
<1>5. QED BY <1>4

-----------------------------------------------------------------------------
(***************************************************************************)
(* Rewards and the amounts of one transaction.                             *)
(***************************************************************************)
LEMMA HalvedType ==
    ASSUME NEW n \in 0..63
    PROVE  Halved[n] \in Nat
<1> DEFINE D == 0..63
           F(g) == g = [i \in D |-> IF i = 0 THEN InitReward ELSE g[i - 1] \div 2]
           Upto(j, g) == \A i \in D : i <= j => g[i] = IF i = 0 THEN InitReward ELSE g[i - 1] \div 2
           C == {j \in Nat : \E g \in [D -> Nat] : Upto(j, g)}
<1>1. InitReward \in Nat
  BY BlocksAssumption
<1>2. 0 \in C
  <2> DEFINE g == [i \in D |-> InitReward]
  <2>1. g \in [D -> Nat] /\ Upto(0, g)
    BY <1>1
  <2>2. QED BY <2>1
<1>3. ASSUME NEW j \in Nat, j \in C PROVE j + 1 \in C
  <2>1. PICK g \in [D -> Nat] : Upto(j, g)
    BY <1>3
  <2> DEFINE h == [i \in D |-> IF i = j + 1 THEN g[j] \div 2 ELSE g[i]]
  <2>2. h \in [D -> Nat]
    <3>1. ASSUME j + 1 \in D PROVE g[j] \div 2 \in Nat
      <4>1. j \in D
        BY <3>1
      <4>2. g[j] \in Nat
        BY <4>1
      <4>3. QED BY <4>2
    <3>2. QED BY <3>1
  <2>3. ASSUME NEW i \in D, i <= j + 1
        PROVE  h[i] = IF i = 0 THEN InitReward ELSE h[i - 1] \div 2
    <3>1. CASE i = j + 1
      <4>1. i # 0 /\ i - 1 = j /\ j \in D
        BY <3>1
      <4>2. h[j] = g[j]
        BY <4>1
      <4>3. QED BY <3>1, <4>1, <4>2
    <3>2. CASE i # j + 1
      <4>0. i <= j /\ i \in Nat /\ i <= 63
        BY <2>3, <3>2
      <4>1. i <= j /\ h[i] = g[i]
        BY <4>0, <3>2
      <4>2. g[i] = IF i = 0 THEN InitReward ELSE g[i - 1] \div 2
        BY <2>1, <4>1
      <4>3. ASSUME i # 0 PROVE h[i - 1] = g[i - 1]
        <5>1. i - 1 \in Nat /\ i - 1 <= 63 /\ i - 1 # j + 1
          BY <4>0, <4>3
        <5>2. i - 1 \in D
          BY <5>1
        <5>3. QED BY <5>1, <5>2
      <4>4. QED BY <4>1, <4>2, <4>3
    <3>3. QED BY <3>1, <3>2
  <2>4. Upto(j + 1, h)
    BY <2>3
  <2>5. j + 1 \in Nat
    OBVIOUS
  <2> HIDE DEF Upto, h
  <2>6. QED BY <2>2, <2>4, <2>5
<1>4. 63 \in C
  <2> HIDE DEF C
  <2> QED BY <1>2, <1>3, NatInd
<1>5. PICK g \in [D -> Nat] : Upto(63, g)
  BY <1>4
<1>6. F(g)
  BY <1>5
<1>7. Halved = CHOOSE h : F(h)
  BY DEF Halved
<1>8. F(Halved)
  <2> HIDE DEF F
  <2> QED BY <1>6, <1>7
<1>9. \A i \in D : Halved[i] = IF i = 0 THEN InitReward ELSE Halved[i - 1] \div 2
  <2> HIDE DEF D
  <2> QED BY <1>8
<1> DEFINE Y == {j \in Nat : j \in D => Halved[j] \in Nat}
<1>10. 0 \in Y
  BY <1>1, <1>9
<1>11. ASSUME NEW j \in Nat, j \in Y PROVE j + 1 \in Y
  <2>1. ASSUME j + 1 \in D PROVE Halved[j + 1] \in Nat
    <3>1. Halved[j] \in Nat
      BY <1>11, <2>1
    <3>2. Halved[j + 1] = Halved[j] \div 2
      <4>1. j + 1 # 0 /\ (j + 1) - 1 = j
        OBVIOUS
      <4>2. QED BY <1>9, <2>1, <4>1
    <3>3. QED BY <3>1, <3>2
  <2>2. QED BY <2>1
<1>12. n \in Nat
  OBVIOUS
<1>13. n \in Y
  <2> HIDE DEF Y
  <2> QED BY <1>10, <1>11, <1>12, NatInd
<1>14. QED BY <1>13

LEMMA RewardType ==
    ASSUME NEW h \in Nat
    PROVE  Reward(h) \in Nat
<1>1. h \div Halving \in Nat
  BY BlocksAssumption
<1>2. h \div Halving < 64 => h \div Halving \in 0..63
  BY <1>1
<1>3. QED BY <1>1, <1>2, HalvedType DEF Reward

(* The value of each coin there can be, and what a transaction's coins are  *)
(* worth.                                                                   *)
Value == [k \in CoinKey |-> OutOf(k).value]

PaidBy(t) == SumFunction([k \in Spends(t) |-> OutOf(k).value])

LEMMA TxSets ==
    ASSUME NEW t \in Tx
    PROVE  /\ IsFiniteSet(DOMAIN Outs(t)) /\ IsFiniteSet(CostIns(t))
           /\ IsFiniteSet(Makes(t)) /\ IsFiniteSet(Spends(t))
           /\ \A i \in DOMAIN Outs(t) : /\ Outs(t)[i].value \in Int
                                        /\ <<t, i>> \in CoinKey
                                        /\ Value[<<t, i>>] = Outs(t)[i].value
<1>1. Outs(t) \in Seq(TxOut) /\ Ins(t) \in Seq(TxIn)
  BY BlocksAssumption DEF Outs, Ins
<1>2. DOMAIN Outs(t) = 1..Len(Outs(t)) /\ DOMAIN Ins(t) = 1..Len(Ins(t))
      /\ Len(Outs(t)) \in Nat /\ Len(Ins(t)) \in Nat
  BY <1>1
<1>3. IsFiniteSet(DOMAIN Outs(t)) /\ IsFiniteSet(DOMAIN Ins(t))
  <2>1. IsFiniteSet(1..Len(Outs(t))) /\ IsFiniteSet(1..Len(Ins(t)))
    BY <1>2, FS_Interval
  <2>2. QED BY <1>2, <2>1
<1>4. IsFiniteSet(CostIns(t))
  <2>1. CostIns(t) \subseteq DOMAIN Ins(t)
    BY DEF CostIns
  <2>2. QED BY <1>3, <2>1, FS_Subset
<1>5. IsFiniteSet(Makes(t))
  <2> DEFINE p == [i \in DOMAIN Outs(t) |-> <<t, i>>]
  <2>1. Makes(t) = {p[i] : i \in DOMAIN Outs(t)}
    BY DEF Makes
  <2>2. IsFiniteSet({p[i] : i \in DOMAIN Outs(t)})
    <3> HIDE DEF p
    <3> QED BY <1>3, ImageFinite
  <2>3. QED BY <2>1, <2>2
<1>6. IsFiniteSet(Spends(t))
  <2> DEFINE p == [i \in CostIns(t) |-> OutKey(Ins(t)[i])]
  <2>1. Spends(t) = {p[i] : i \in CostIns(t)}
    BY DEF Spends
  <2>2. IsFiniteSet({p[i] : i \in CostIns(t)})
    <3> HIDE DEF p
    <3> QED BY <1>4, ImageFinite
  <2>3. QED BY <2>1, <2>2
<1>7. ASSUME NEW i \in DOMAIN Outs(t)
      PROVE  /\ Outs(t)[i].value \in Int /\ <<t, i>> \in CoinKey
             /\ Value[<<t, i>>] = Outs(t)[i].value
  <2>1. <<t, i>> \in CoinKey
    BY DEF CoinKey, Makes
  <2>2. Outs(t)[i] \in TxOut
    BY <1>1
  <2>3. Value[<<t, i>>] = Outs(t)[i].value
    BY <2>1 DEF Value, OutOf
  <2>4. QED BY <2>1, <2>2, <2>3 DEF TxOut
<1>8. QED BY <1>3, <1>4, <1>5, <1>6, <1>7

LEMMA CoinSet ==
    IsFiniteSet(CoinKey) /\ \A k \in CoinKey : Value[k] \in Int
<1> DEFINE p == [t \in Tx |-> Makes(t)]
<1>1. CoinKey = UNION {p[t] : t \in Tx}
  BY DEF CoinKey
<1>2. IsFiniteSet({p[t] : t \in Tx})
  <2> HIDE DEF p
  <2> QED BY BlocksAssumption, ImageFinite
<1>3. \A T \in {p[t] : t \in Tx} : IsFiniteSet(T)
  BY TxSets
<1>4. IsFiniteSet(UNION {p[t] : t \in Tx})
  <2> HIDE DEF p
  <2> QED BY <1>2, <1>3, FS_UNION
<1>5. QED BY <1>1, <1>4, CoinFacts DEF Value

LEMMA MadeByTx ==
    ASSUME NEW t \in Tx
    PROVE  OutSum(t) \in Int /\ OutSum(t) = SumFunctionOnSet(Value, Makes(t))
<1> DEFINE S == DOMAIN Outs(t)
           g == [i \in S |-> Outs(t)[i].value]
           p == [i \in S |-> <<t, i>>]
<1>1. IsFiniteSet(S) /\ \A i \in S : g[i] \in Int /\ g[i] = Value[p[i]]
  BY TxSets
<1>2. \A x, y \in S : p[x] = p[y] => x = y
  OBVIOUS
<1>3. OutSum(t) = SumFunctionOnSet(g, S)
  BY DEF OutSum, SumFunction
<1>4. Makes(t) = {p[i] : i \in S}
  BY DEF Makes
<1> HIDE DEF S, g, p
<1>5. SumFunctionOnSet(Value, {p[i] : i \in S}) = SumFunctionOnSet(g, S)
  BY <1>1, <1>2, SumReindex
<1>6. SumFunctionOnSet(g, S) \in Int
  BY <1>1, SumType
<1>7. QED BY <1>3, <1>4, <1>5, <1>6

LEMMA PaidByTx ==
    ASSUME NEW t \in Tx, Spends(t) \subseteq CoinKey
    PROVE  PaidBy(t) \in Int /\ PaidBy(t) = SumFunctionOnSet(Value, Spends(t))
<1> DEFINE S == Spends(t)
           g == [k \in S |-> OutOf(k).value]
<1>1. IsFiniteSet(S) /\ \A k \in S : g[k] \in Int /\ g[k] = Value[k]
  BY TxSets, CoinSet DEF Value
<1>2. PaidBy(t) = SumFunctionOnSet(g, S)
  BY DEF PaidBy, SumFunction
<1> HIDE DEF S, g
<1>3. SumFunctionOnSet(g, S) \in Int /\ SumFunctionOnSet(g, S) = SumFunctionOnSet(Value, S)
  BY <1>1, SumType, SumEqual
<1>4. QED BY <1>2, <1>3 DEF S

-----------------------------------------------------------------------------
(***************************************************************************)
(* check_block_amount, in terms of the contents alone.                     *)
(***************************************************************************)
Ordinary(b) == {t \in BlockTxs(b) : ~IsCoinbase(t)}
Coinbases(b) == BlockTxs(b) \ Ordinary(b)

(* What a transaction makes beyond what it spends, and the reverse. *)
Net == [t \in Tx |-> OutSum(t) - PaidBy(t)]
Fee == [t \in Tx |-> PaidBy(t) - OutSum(t)]

LEMMA BlockTxSet ==
    ASSUME NEW b \in Block
    PROVE  /\ IsFiniteSet(DOMAIN Txs(b)) /\ IsFiniteSet(BlockTxs(b))
           /\ BlockTxs(b) = {Txs(b)[i] : i \in DOMAIN Txs(b)}
           /\ IsFiniteSet(Ordinary(b))
           /\ BlockTxs(b) = Ordinary(b) \cup Coinbases(b)
           /\ Ordinary(b) \cap Coinbases(b) = {}
<1>1. Txs(b) \in Seq(Tx)
  BY BlockFacts
<1>2. DOMAIN Txs(b) = 1..Len(Txs(b)) /\ Len(Txs(b)) \in Nat
  BY <1>1
<1>3. IsFiniteSet(1..Len(Txs(b)))
  BY <1>2, FS_Interval
<1>4. BlockTxs(b) = {Txs(b)[i] : i \in DOMAIN Txs(b)}
  BY DEF BlockTxs
<1>5. IsFiniteSet({Txs(b)[i] : i \in DOMAIN Txs(b)})
  BY <1>2, <1>3, ImageFinite
<1>6. Ordinary(b) \subseteq BlockTxs(b)
  BY DEF Ordinary
<1>7. IsFiniteSet(Ordinary(b))
  BY <1>4, <1>5, <1>6, FS_Subset
<1>8. QED BY <1>2, <1>3, <1>4, <1>5, <1>6, <1>7 DEF Coinbases

LEMMA OneCoinbase ==
    ASSUME NEW b \in Block, BlockCheckValue(b)
    PROVE  \E c \in BlockTxs(b) : IsCoinbase(c) /\ Coinbases(b) = {c}
<1> DEFINE I == {i \in DOMAIN Txs(b) : IsCoinbase(Txs(b)[i])}
<1>1. IsFiniteSet(I) /\ Cardinality(I) = 1
  <2>1. I \subseteq DOMAIN Txs(b)
    OBVIOUS
  <2>2. IsFiniteSet(I)
    BY <2>1, BlockTxSet, FS_Subset
  <2>3. QED BY <2>2 DEF BlockCheckValue
<1>2. PICK i : I = {i}
  <2> HIDE DEF I
  <2> QED BY <1>1, FS_Singleton
<1>3. i \in DOMAIN Txs(b) /\ IsCoinbase(Txs(b)[i])
  BY <1>2
<1>4. ASSUME NEW t \in BlockTxs(b), IsCoinbase(t) PROVE t = Txs(b)[i]
  <2>1. PICK j \in DOMAIN Txs(b) : t = Txs(b)[j]
    BY DEF BlockTxs
  <2>2. j \in I
    BY <1>4, <2>1
  <2>3. QED BY <1>2, <2>1, <2>2
<1>5. Txs(b)[i] \in BlockTxs(b)
  BY <1>3 DEF BlockTxs
<1>6. Coinbases(b) = {Txs(b)[i]}
  BY <1>3, <1>4, <1>5 DEF Coinbases, Ordinary
<1>7. QED BY <1>3, <1>5, <1>6

LEMMA CoinbaseSpends ==
    ASSUME NEW t \in Tx, TxCheckValue(t), IsCoinbase(t)
    PROVE  CostIns(t) = {} /\ Spends(t) = {}
<1>1. Ins(t) \in Seq(TxIn) /\ Len(Ins(t)) = 1 /\ IsCoinbaseIn(Ins(t)[1])
  BY BlocksAssumption DEF Ins, TxCheckValue, IsCoinbase
<1>2. CostIns(t) = {}
  BY <1>1 DEF CostIns
<1>3. QED BY <1>2 DEF Spends

(* An input of a block that can be linked is worth the coin it spends. *)
LEMMA InSumIsPaid ==
    ASSUME IndexInv, NEW b \in Block, LinkOk(b), NEW t \in BlockTxs(b)
    PROVE  /\ t \in Tx /\ TxCheckValue(t) /\ Spends(t) \subseteq CoinKey
           /\ PaidBy(t) \in Int /\ InSum(t) = PaidBy(t)
<1>1. t \in Tx /\ TxCheckValue(t) /\ CheckTxAmount(t, NextHeight)
  BY BlockFacts DEF LinkOk, BlockCheckValue, CheckBlockAmount
<1>2. Spends(t) \subseteq CoinKey
  BY LinkSpends
<1> DEFINE S == CostIns(t)
           p == [i \in S |-> OutKey(Ins(t)[i])]
           g == [i \in S |-> RefOut(OutKey(Ins(t)[i])).value]
<1>3. IsFiniteSet(S)
  BY <1>1, TxSets
<1>4. \A x, y \in S : p[x] = p[y] => x = y
  BY <1>1 DEF TxCheckValue, CostIns
<1>5. Spends(t) = {p[i] : i \in S}
  BY DEF Spends
<1>6. ASSUME NEW i \in S PROVE g[i] \in Int /\ g[i] = Value[p[i]]
  <2> DEFINE k == OutKey(Ins(t)[i])
  <2>1. k \in Spends(t)
    BY DEF Spends
  <2>2. k \in CoinKey /\ coin[k] = MadeCoin(k, HeightOf(k[1]))
    BY <2>1, LinkSpends
  <2>3. coin[k].value = RefOut(k).value
    BY <1>1 DEF CheckTxAmount, SpendOk
  <2>4. coin[k].value = OutOf(k).value
    BY <2>2 DEF MadeCoin
  <2>5. Value[k] = OutOf(k).value /\ Value[k] \in Int
    BY <2>2, CoinSet DEF Value
  <2> HIDE DEF k
  <2>6. RefOut(k).value = Value[k]
    BY <2>3, <2>4, <2>5
  <2>7. g[i] = RefOut(k).value /\ p[i] = k
    BY DEF k
  <2>8. QED BY <2>5, <2>6, <2>7
<1>7. InSum(t) = SumFunctionOnSet(g, S)
  BY DEF InSum, SumFunction
<1> HIDE DEF S, p, g
<1>8. SumFunctionOnSet(Value, {p[i] : i \in S}) = SumFunctionOnSet(g, S)
  BY <1>3, <1>4, <1>6, SumReindex
<1>9. PaidBy(t) \in Int /\ PaidBy(t) = SumFunctionOnSet(Value, Spends(t))
  BY <1>1, <1>2, PaidByTx
<1>10. QED BY <1>1, <1>2, <1>5, <1>7, <1>8, <1>9

(* The fees of a block that can be linked: its ordinary transactions'. *)
LEMMA FeeOfBlock ==
    ASSUME IndexInv, NEW b \in Block, LinkOk(b)
    PROVE  /\ BlockFee(b) = SumFunctionOnSet(Fee, Ordinary(b))
           /\ SumFunctionOnSet(Fee, Ordinary(b)) \in Int
           /\ \A t \in Ordinary(b) : Fee[t] \in Int /\ OutSum(t) <= PaidBy(t)
<1> DEFINE D == DOMAIN Txs(b)
           p == Txs(b)
           g == [i \in D |-> TxFee(Txs(b)[i])]
           f == [t \in BlockTxs(b) |-> TxFee(t)]
<1>1. BlockCheckValue(b)
  BY DEF LinkOk
<1>2. ASSUME NEW t \in BlockTxs(b)
      PROVE  /\ t \in Tx /\ TxFee(t) \in Int
             /\ t \in Ordinary(b) => TxFee(t) = Fee[t] /\ OutSum(t) <= PaidBy(t)
             /\ t \in Coinbases(b) => TxFee(t) = 0
  <2>1. t \in Tx /\ TxCheckValue(t) /\ PaidBy(t) \in Int /\ InSum(t) = PaidBy(t)
    BY InSumIsPaid
  <2>2. OutSum(t) \in Int
    BY <2>1, MadeByTx
  <2>3. Fee[t] = PaidBy(t) - OutSum(t)
    BY <2>1 DEF Fee
  <2>4. CASE IsCoinbase(t)
    <3>1. CostIns(t) = {}
      BY <2>1, <2>4, CoinbaseSpends
    <3>2. InSum(t) = 0
      <4> DEFINE e == [i \in CostIns(t) |-> RefOut(OutKey(Ins(t)[i])).value]
      <4>1. InSum(t) = SumFunctionOnSet(e, {})
        BY <3>1 DEF InSum, SumFunction
      <4> HIDE DEF e
      <4>2. QED BY <4>1, SumEmpty
    <3>3. QED BY <2>1, <2>4, <3>2 DEF TxFee, Ordinary
  <2>5. CASE ~IsCoinbase(t)
    <3>1. TxFee(t) = PaidBy(t) - OutSum(t)
      BY <2>1, <2>5 DEF TxFee
    <3>2. IsValidAmount(TxFee(t))
      BY DEF LinkOk, CheckBlockAmount, CheckTxAmount
    <3>3. OutSum(t) <= PaidBy(t)
      BY <2>1, <2>2, <3>1, <3>2 DEF IsValidAmount
    <3>4. QED BY <2>1, <2>2, <2>3, <2>5, <3>1, <3>3 DEF Coinbases, Ordinary
  <2>6. QED BY <2>4, <2>5
<1>3. BlockFee(b) = SumFunctionOnSet(g, D)
  BY DEF BlockFee, SumFunction
<1>4. IsFiniteSet(D) /\ BlockTxs(b) = {p[i] : i \in D} /\ IsFiniteSet(BlockTxs(b))
      /\ IsFiniteSet(Ordinary(b))
  BY BlockTxSet
<1>5. \A x, y \in D : p[x] = p[y] => x = y
  BY <1>1, DistinctTxs
<1>6. \A i \in D : g[i] \in Int /\ g[i] = f[p[i]]
  BY <1>2, <1>4
<1>7. SumFunctionOnSet(f, BlockTxs(b)) = SumFunctionOnSet(g, D)
  <2> HIDE DEF D, p, g, f
  <2>1. SumFunctionOnSet(f, {p[i] : i \in D}) = SumFunctionOnSet(g, D)
    BY <1>4, <1>5, <1>6, SumReindex
  <2>2. QED BY <1>4, <2>1
<1>8. PICK c \in BlockTxs(b) : Coinbases(b) = {c}
  BY <1>1, OneCoinbase
<1>9. BlockTxs(b) = Ordinary(b) \cup {c} /\ c \notin Ordinary(b) /\ c \in Coinbases(b)
  BY <1>8, BlockTxSet
<1>10. \A t \in Ordinary(b) \cup {c} : f[t] \in Int
  BY <1>2, <1>9
<1>11. f[c] = 0 /\ \A t \in Ordinary(b) : f[t] \in Int /\ f[t] = Fee[t] /\ Fee[t] \in Int
  BY <1>2, <1>9
<1> HIDE DEF D, p, g, f
<1>12. SumFunctionOnSet(f, Ordinary(b) \cup {c}) = f[c] + SumFunctionOnSet(f, Ordinary(b))
  BY <1>4, <1>9, <1>10, SumAdd
<1>13. /\ SumFunctionOnSet(f, Ordinary(b)) \in Int
       /\ SumFunctionOnSet(f, Ordinary(b)) = SumFunctionOnSet(Fee, Ordinary(b))
  BY <1>4, <1>11, SumType, SumEqual
<1>14. SumFunctionOnSet(f, BlockTxs(b)) = SumFunctionOnSet(f, Ordinary(b))
  BY <1>9, <1>11, <1>12, <1>13
<1>15. \A t \in Ordinary(b) : OutSum(t) <= PaidBy(t)
  BY <1>2, <1>9
<1>16. QED BY <1>3, <1>7, <1>11, <1>13, <1>14, <1>15

LEMMA MintOfBlock ==
    ASSUME NEW b \in Block, LinkOk(b), NEW c \in BlockTxs(b), IsCoinbase(c), Coinbases(b) = {c}
    PROVE  BlockCoinbaseFee(b) = OutSum(c) /\ OutSum(c) \in Int
<1> DEFINE D == DOMAIN Txs(b)
           p == Txs(b)
           g == [i \in D |-> CoinbaseFee(Txs(b)[i])]
           f == [t \in BlockTxs(b) |-> CoinbaseFee(t)]
<1>1. BlockCheckValue(b)
  BY DEF LinkOk
<1>2. ASSUME NEW t \in BlockTxs(b)
      PROVE  CoinbaseFee(t) \in Int /\ (t \in Ordinary(b) => CoinbaseFee(t) = 0)
  <2>1. OutSum(t) \in Int
    BY BlockFacts, MadeByTx
  <2>2. QED BY <2>1 DEF CoinbaseFee, Ordinary
<1>3. BlockCoinbaseFee(b) = SumFunctionOnSet(g, D)
  BY DEF BlockCoinbaseFee, SumFunction
<1>4. IsFiniteSet(D) /\ BlockTxs(b) = {p[i] : i \in D} /\ IsFiniteSet(Ordinary(b))
  BY BlockTxSet
<1>5. \A x, y \in D : p[x] = p[y] => x = y
  BY <1>1, DistinctTxs
<1>6. \A i \in D : g[i] \in Int /\ g[i] = f[p[i]]
  BY <1>2, <1>4
<1>7. SumFunctionOnSet(f, BlockTxs(b)) = SumFunctionOnSet(g, D)
  <2> HIDE DEF D, p, g, f
  <2>1. SumFunctionOnSet(f, {p[i] : i \in D}) = SumFunctionOnSet(g, D)
    BY <1>4, <1>5, <1>6, SumReindex
  <2>2. QED BY <1>4, <2>1
<1>8. BlockTxs(b) = Ordinary(b) \cup {c} /\ c \notin Ordinary(b)
  BY BlockTxSet
<1>9. \A t \in Ordinary(b) \cup {c} : f[t] \in Int
  BY <1>2, <1>8
<1>10. \A t \in Ordinary(b) : f[t] = 0
  BY <1>2, <1>8
<1>11. f[c] = OutSum(c) /\ OutSum(c) \in Int
  BY BlockFacts, MadeByTx DEF CoinbaseFee
<1> HIDE DEF D, p, g, f
<1>12. SumFunctionOnSet(f, Ordinary(b) \cup {c}) = f[c] + SumFunctionOnSet(f, Ordinary(b))
  BY <1>4, <1>8, <1>9, SumAdd
<1>13. SumFunctionOnSet(f, Ordinary(b)) = 0
  BY <1>4, <1>10, SumZero
<1>14. QED BY <1>3, <1>7, <1>8, <1>11, <1>12, <1>13

(* A block that can be linked makes no more than its reward beyond what it *)
(* spends: check_block_amount, in terms of the contents alone.             *)
LEMMA BlockAmounts ==
    ASSUME IndexInv, NEW b \in Block, LinkOk(b), NextHeight \in Nat
    PROVE  /\ BlockSpends(b) \subseteq CoinKey
           /\ SumFunction([t \in Coinbases(b) |-> OutSum(t)])
                <= Reward(NextHeight) + SumFunctionOnSet(Fee, Ordinary(b))
           /\ SumFunctionOnSet(Net, BlockTxs(b)) <= Reward(NextHeight)
<1>1. BlockCheckValue(b) /\ CheckBlockAmount(b, NextHeight)
  BY DEF LinkOk
<1>2. BlockSpends(b) \subseteq CoinKey
  BY InSumIsPaid DEF BlockSpends
<1>3. PICK c \in BlockTxs(b) : IsCoinbase(c) /\ Coinbases(b) = {c}
  BY <1>1, OneCoinbase
<1> DEFINE R == Reward(NextHeight)
           F == SumFunctionOnSet(Fee, Ordinary(b))
<1>4. BlockCoinbaseFee(b) = OutSum(c) /\ OutSum(c) \in Int
  BY <1>3, MintOfBlock
<1>5. BlockFee(b) = F /\ F \in Int
  BY FeeOfBlock
<1>6. R \in Int /\ OutSum(c) <= R + F
  BY <1>1, <1>4, <1>5, RewardType DEF CheckBlockAmount
<1> DEFINE m == [t \in Coinbases(b) |-> OutSum(t)]
<1>7. SumFunction(m) = OutSum(c)
  <2>1. SumFunction(m) = SumFunctionOnSet(m, {} \cup {c})
    BY <1>3 DEF SumFunction
  <2>2. m[c] = OutSum(c) /\ \A y \in {} \cup {c} : m[y] \in Int
    BY <1>3, <1>4
  <2> HIDE DEF m
  <2>3. SumFunctionOnSet(m, {} \cup {c}) = m[c] + SumFunctionOnSet(m, {})
    BY <2>2, FS_EmptySet, SumAdd
  <2>4. QED BY <1>4, <2>1, <2>2, <2>3, SumEmpty
<1>8. BlockTxs(b) = Ordinary(b) \cup {c} /\ c \notin Ordinary(b) /\ IsFiniteSet(Ordinary(b))
  BY <1>3, BlockTxSet
<1>9. ASSUME NEW t \in BlockTxs(b)
      PROVE  /\ t \in Tx /\ PaidBy(t) \in Int /\ OutSum(t) \in Int
             /\ Net[t] = OutSum(t) - PaidBy(t) /\ Fee[t] = PaidBy(t) - OutSum(t)
  BY InSumIsPaid, MadeByTx DEF Net, Fee
<1>10. Net[c] = OutSum(c)
  <2>1. Spends(c) = {}
    BY <1>3, <1>9, InSumIsPaid, CoinbaseSpends
  <2>2. PaidBy(c) = SumFunctionOnSet(Value, {})
    BY <1>9, <2>1, InSumIsPaid, PaidByTx
  <2>3. PaidBy(c) = 0
    BY <2>2, SumEmpty
  <2>4. QED BY <1>9, <2>3
<1>11. SumFunctionOnSet(Net, Ordinary(b)) = 0 - F
  <2> DEFINE z == [t \in Tx |-> 0]
  <2>1. \A t \in Ordinary(b) : z[t] = 0 /\ z[t] \in Int /\ Fee[t] \in Int /\ Net[t] = z[t] - Fee[t]
    BY <1>8, <1>9
  <2> HIDE DEF z
  <2>2. SumFunctionOnSet(Net, Ordinary(b))
          = SumFunctionOnSet(z, Ordinary(b)) - SumFunctionOnSet(Fee, Ordinary(b))
    BY <1>8, <2>1, SumMinus
  <2>3. SumFunctionOnSet(z, Ordinary(b)) = 0
    BY <1>8, <2>1, SumZero
  <2>4. QED BY <2>2, <2>3
<1>12. \A t \in Ordinary(b) \cup {c} : Net[t] \in Int
  BY <1>8, <1>9
<1>13. SumFunctionOnSet(Net, Ordinary(b) \cup {c}) = Net[c] + SumFunctionOnSet(Net, Ordinary(b))
  BY <1>8, <1>12, SumAdd
<1> HIDE DEF R, F, m
<1>14. SumFunctionOnSet(Net, BlockTxs(b)) <= R
  BY <1>4, <1>5, <1>6, <1>8, <1>10, <1>11, <1>13
<1>15. SumFunction(m) <= R + F
  BY <1>6, <1>7
<1>16. QED BY <1>2, <1>14, <1>15 DEF R, F, m

-----------------------------------------------------------------------------
(* What check_block_amount saw of a block of the chain stays true: of the   *)
(* coins only those of the contents are left.  It is this, and not the      *)
(* bound on the coins, that pop cannot spoil: a block may make less than    *)
(* its reward, and its coins may go.                                        *)
AmountsKept ==
    \A b \in Block : OnChain(b) =>
        /\ BlockSpends(b) \subseteq CoinKey
        /\ SumFunctionOnSet(Net, BlockTxs(b)) <= Reward(battr[b].height)

LEMMA AmountsStay ==
    ASSUME AmountsKept, UNCHANGED battr
    PROVE  AmountsKept'
BY DEF AmountsKept, OnChain, Net, PaidBy

LEMMA AmountsStep ==
    ASSUME IndexInv, AmountsKept, [Next]_vars
    PROVE  AmountsKept'
<1>1. ASSUME NEW b \in Block, Link(b) PROVE AmountsKept'
  <2>1. /\ LinkOk(b) /\ NextHeight \in Height
        /\ battr'[b] = [height |-> NextHeight, blk |-> PushAttr(blk, BlockData[b].len),
                        rev |-> PushAttr(rev, BlockData[b].revlen)]
        /\ \A c \in Block : c # b => battr'[c] = battr[c]
    BY <1>1, LinkEffect
  <2>2. battr'[b].height = NextHeight /\ NextHeight \in Nat
    BY <2>1 DEF Height
  <2>3. ASSUME NEW c \in Block, OnChain(c)'
        PROVE  /\ BlockSpends(c) \subseteq CoinKey
               /\ SumFunctionOnSet(Net, BlockTxs(c)) <= Reward(battr'[c].height)
    <3>1. CASE c = b
      BY <2>1, <2>2, <3>1, BlockAmounts
    <3>2. CASE c # b
      BY <2>1, <2>3, <3>2 DEF AmountsKept, OnChain
    <3>3. QED BY <3>1, <3>2
  <2>4. QED BY <2>3 DEF AmountsKept, Net, PaidBy
<1>2. ASSUME Pop PROVE AmountsKept'
  <2>1. battr' = [battr EXCEPT ![best.id] = NoAttr] /\ battr \in [Block -> BlkAttr \cup {NoAttr}]
    BY <1>2 DEF Pop, IndexInv, TypeOK
  <2>2. \A c \in Block : battr'[c] # NoAttr => battr'[c] = battr[c]
    BY <2>1
  <2>3. QED BY <2>2 DEF AmountsKept, OnChain, Net, PaidBy
<1>3. UNCHANGED battr => AmountsKept'
  BY AmountsStay
<1>4. QED
  BY <1>1, <1>2, <1>3
  DEF Next, LinkAborts, PopAborts, SetGenesis, AppendTx, RemoveTx, Get, Load, Restart, vars, dbVars

LEMMA LinkedNet ==
    ASSUME IndexInv, AmountsKept, NEW t \in Linked
    PROVE  /\ t \in Tx /\ Spends(t) \subseteq CoinKey
           /\ OutSum(t) \in Int /\ PaidBy(t) \in Int /\ Net[t] = OutSum(t) - PaidBy(t)
<1>1. t \in Tx /\ tattr[t].blk \in Block /\ OnChain(tattr[t].blk) /\ t \in BlockTxs(tattr[t].blk)
  BY LinkedTx DEF IndexInv
<1>2. Spends(t) \subseteq CoinKey
  BY <1>1 DEF AmountsKept, BlockSpends
<1>3. QED BY <1>1, <1>2, MadeByTx, PaidByTx DEF Net

(* The coins add up to what the chain's transactions make beyond what they *)
(* spend.                                                                  *)
LEMMA CoinsAddUp ==
    ASSUME IndexInv, AmountsKept
    PROVE  /\ IsFiniteSet(Linked)
           /\ SumFunction([k \in CoinKey |-> IF coin[k] = NoCoin THEN 0 ELSE coin[k].value])
                = SumFunctionOnSet(Net, Linked)
<1> DEFINE cv == [k \in CoinKey |-> IF coin[k] = NoCoin THEN 0 ELSE coin[k].value]
           mk == [t \in Tx |-> Makes(t)]
           sp == [t \in Tx |-> Spends(t)]
           made == [t \in Tx |-> OutSum(t)]
           paid == [t \in Tx |-> PaidBy(t)]
           M == UNION {mk[t] : t \in Linked}
           P == UNION {sp[t] : t \in Linked}
           U == M \ P
           O == CoinKey \ U
<1>1. Linked \subseteq Tx /\ IsFiniteSet(Linked)
  <2>1. Linked \subseteq Tx
    BY DEF Linked
  <2>2. QED BY <2>1, BlocksAssumption, FS_Subset
<1>2. /\ \A t \in Linked : /\ t \in Tx /\ IsFiniteSet(mk[t]) /\ IsFiniteSet(sp[t])
                           /\ mk[t] \subseteq CoinKey /\ sp[t] \subseteq CoinKey
                           /\ made[t] \in Int /\ paid[t] \in Int
                           /\ Net[t] = made[t] - paid[t]
  BY LinkedNet, TxSets, CoinFacts
<1>3. \A t \in Linked : made[t] = SumFunctionOnSet(Value, mk[t])
  BY <1>1, MadeByTx
<1>4. \A t \in Linked : paid[t] = SumFunctionOnSet(Value, sp[t])
  BY <1>1, LinkedNet, PaidByTx
<1>5. \A t, u \in Linked : t # u => mk[t] \cap mk[u] = {}
  BY <1>1, CoinFacts
<1>6. \A t, u \in Linked : t # u => sp[t] \cap sp[u] = {}
  <2>1. SUFFICES ASSUME NEW t \in Linked, NEW u \in Linked, t # u, NEW k \in sp[t], k \in sp[u]
                 PROVE  FALSE
    OBVIOUS
  <2>2. k \in Spends(t) /\ k \in Spends(u)
    BY <1>1, <2>1
  <2>3. QED BY <2>1, <2>2 DEF IndexInv, SpentOnceAndMature
<1>7. ASSUME NEW k \in CoinKey PROVE k \in M <=> k[1] \in Linked
  <2>1. k[1] \in Tx /\ k \in Makes(k[1])
    BY CoinFacts
  <2>2. ASSUME NEW t \in Linked, k \in mk[t] PROVE k[1] = t
    BY <1>1, <2>2, CoinFacts
  <2>3. k[1] \in Linked => k \in mk[k[1]]
    BY <2>1
  <2>4. QED BY <2>2, <2>3
<1>8. \A k \in CoinKey : k \in P <=> \E t \in Linked : k \in Spends(t)
  BY <1>1
<1>9. P \subseteq M
  <2>1. SUFFICES ASSUME NEW t \in Linked, NEW k \in sp[t] PROVE k \in M
    OBVIOUS
  <2>2. k \in Spends(t) /\ k \in CoinKey
    BY <1>1, <1>2
  <2>3. k[1] \in Linked
    BY <2>2 DEF IndexInv, SpentOnceAndMature
  <2>4. QED BY <1>7, <2>2, <2>3
<1>10. M \subseteq CoinKey
  BY <1>2
<1>11. ASSUME NEW k \in CoinKey
       PROVE  cv[k] \in Int /\ Value[k] \in Int /\ cv[k] = IF k \in U THEN Value[k] ELSE 0
  <2>1. coin[k] = IF k \in U THEN MadeCoin(k, HeightOf(k[1])) ELSE NoCoin
    BY <1>7, <1>8 DEF IndexInv, CoinsExact
  <2>2. Value[k] = OutOf(k).value /\ Value[k] \in Int
    BY CoinSet DEF Value
  <2>3. CASE k \in U
    <3>1. k[1] \in Linked
      BY <1>7, <2>3
    <3>2. HeightOf(k[1]) \in Height
      BY <3>1, LinkedTx DEF IndexInv
    <3>3. MadeCoin(k, HeightOf(k[1])) \in CoinAttr
      BY <2>2, <3>2 DEF MadeCoin, CoinAttr, IsCoinbase
    <3>4. coin[k] # NoCoin /\ coin[k].value = OutOf(k).value
      <4>1. MadeCoin(k, HeightOf(k[1])).value = OutOf(k).value
        BY DEF MadeCoin
      <4>2. QED BY <2>1, <2>3, <3>3, <4>1, IndexerAssumption
    <3>5. QED BY <2>2, <2>3, <3>4
  <2>4. CASE k \notin U
    BY <2>1, <2>2, <2>4
  <2>5. QED BY <2>3, <2>4
<1>12. SumFunction([k \in CoinKey |-> IF coin[k] = NoCoin THEN 0 ELSE coin[k].value])
         = SumFunctionOnSet(cv, CoinKey)
  BY DEF SumFunction
<1>13. \A t \in Linked : \A k \in mk[t] : Value[k] \in Int
  BY <1>2, CoinSet
<1>14. \A t \in Linked : \A k \in sp[t] : Value[k] \in Int
  BY <1>2, CoinSet
<1>15. IsFiniteSet(M) /\ SumFunctionOnSet(Value, M) = SumFunctionOnSet(made, Linked)
  <2>1. \A t \in Linked : IsFiniteSet(mk[t])
    BY <1>2
  <2> HIDE DEF mk, made
  <2>2. QED BY <1>1, <1>3, <1>5, <1>13, <2>1, SumFamily
<1>16. IsFiniteSet(P) /\ SumFunctionOnSet(Value, P) = SumFunctionOnSet(paid, Linked)
  <2>1. \A t \in Linked : IsFiniteSet(sp[t])
    BY <1>2
  <2> HIDE DEF sp, paid
  <2>2. QED BY <1>1, <1>4, <1>6, <1>14, <2>1, SumFamily
<1> HIDE DEF cv, mk, sp, made, paid, M, P
<1>17. /\ U \cup P = M /\ U \cap P = {} /\ U \subseteq CoinKey
       /\ U \cup O = CoinKey /\ U \cap O = {}
  BY <1>9, <1>10
<1>18. IsFiniteSet(U) /\ IsFiniteSet(O)
  BY <1>17, CoinSet, FS_Subset
<1>19. (\A k \in U : k \in CoinKey /\ k \in U) /\ (\A k \in O : k \in CoinKey /\ k \notin U)
  BY <1>17
<1>20. \A k \in U : cv[k] \in Int /\ cv[k] = Value[k] /\ Value[k] \in Int
  BY <1>11, <1>19
<1>21. \A k \in O : cv[k] = 0
  BY <1>11, <1>19
<1> HIDE DEF U, O
<1>22. SumFunctionOnSet(Value, U \cup P)
         = SumFunctionOnSet(Value, U) + SumFunctionOnSet(Value, P)
  <2>1. \A k \in U \cup P : Value[k] \in Int
    BY <1>10, <1>17, CoinSet
  <2>2. QED BY <1>16, <1>17, <1>18, <2>1, SumDisjoint
<1>23. SumFunctionOnSet(cv, U \cup O) = SumFunctionOnSet(cv, U) + SumFunctionOnSet(cv, O)
  <2>1. \A k \in U \cup O : cv[k] \in Int
    BY <1>11, <1>17
  <2>2. QED BY <1>17, <1>18, <2>1, SumDisjoint
<1>24. SumFunctionOnSet(cv, U) = SumFunctionOnSet(Value, U) /\ SumFunctionOnSet(Value, U) \in Int
  BY <1>18, <1>20, SumEqual, SumType
<1>25. SumFunctionOnSet(cv, O) = 0
  BY <1>18, <1>21, SumZero
<1>26. SumFunctionOnSet(Net, Linked)
         = SumFunctionOnSet(made, Linked) - SumFunctionOnSet(paid, Linked)
  BY <1>1, <1>2, SumMinus
<1>27. SumFunctionOnSet(made, Linked) \in Int /\ SumFunctionOnSet(paid, Linked) \in Int
  BY <1>1, <1>2, SumType
<1>28. SumFunctionOnSet(cv, CoinKey) = SumFunctionOnSet(Net, Linked)
  <2>1. SumFunctionOnSet(cv, CoinKey) = SumFunctionOnSet(Value, U)
    BY <1>17, <1>23, <1>24, <1>25
  <2>2. SumFunctionOnSet(made, Linked)
          = SumFunctionOnSet(Value, U) + SumFunctionOnSet(paid, Linked)
    BY <1>15, <1>16, <1>17, <1>22
  <2>3. QED BY <1>24, <1>26, <1>27, <2>1, <2>2
<1>29. QED BY <1>1, <1>12, <1>28

(* Block by block, that is no more than the rewards.                        *)
LEMMA SupplyLaw ==
    ASSUME IndexInv, AmountsKept
    PROVE  SupplyBounded
<1> DEFINE A == [h \in Height |-> IF hidx[h] = NoBlock THEN {} ELSE BlockTxs(hidx[h])]
           bn == [h \in Height |-> SumFunctionOnSet(Net, A[h])]
           rw == [h \in Height |-> IF hidx[h] = NoBlock THEN 0 ELSE Reward(h)]
<1>1. TypeOK /\ ChainShape /\ TxIndexExact
  BY DEF IndexInv
<1>2. ASSUME NEW h \in Height, hidx[h] # NoBlock
      PROVE  hidx[h] \in Block /\ OnChain(hidx[h]) /\ battr[hidx[h]].height = h
             /\ h \in Nat /\ A[h] = BlockTxs(hidx[h])
  BY <1>1, <1>2 DEF TypeOK, ChainShape, Height
<1>3. ASSUME NEW h \in Height, NEW t \in A[h]
      PROVE  t \in Linked /\ HeightOf(t) = h /\ Net[t] \in Int
  <2>1. hidx[h] # NoBlock
    BY <1>3
  <2>2. t \in BlockTxs(hidx[h])
    BY <1>2, <1>3, <2>1
  <2>3. t \in Linked /\ HeightOf(t) = h
    BY <1>1, <1>2, <2>1, <2>2, TxOfBlock
  <2>4. QED BY <2>3, LinkedNet
<1>4. ASSUME NEW t \in Linked PROVE \E h \in Height : t \in A[h]
  <2>1. tattr[t].blk \in Block /\ OnChain(tattr[t].blk) /\ t \in BlockTxs(tattr[t].blk)
    BY <1>1, LinkedTx
  <2>2. battr[tattr[t].blk].height \in Height /\ hidx[battr[tattr[t].blk].height] = tattr[t].blk
    BY <1>1, <2>1, BlockHeight
  <2>3. tattr[t].blk # NoBlock
    BY <2>1, BlocksAssumption
  <2>4. t \in A[battr[tattr[t].blk].height]
    BY <2>1, <2>2, <2>3
  <2>5. QED BY <2>2, <2>4
<1>5. UNION {A[h] : h \in Height} = Linked
  <2> HIDE DEF A
  <2> QED BY <1>3, <1>4
<1>6. \A h, i \in Height : h # i => A[h] \cap A[i] = {}
  <2> HIDE DEF A
  <2> QED BY <1>3
<1>7. IsFiniteSet(Height)
  BY IndexerAssumption, FS_Interval DEF Height
<1>8. \A h \in Height : IsFiniteSet(A[h])
  BY <1>2, BlockTxSet, FS_EmptySet
<1>9. \A h \in Height : bn[h] = SumFunctionOnSet(Net, A[h])
  OBVIOUS
<1>10. \A h \in Height : \A t \in A[h] : Net[t] \in Int
  <2> HIDE DEF A
  <2> QED BY <1>3
<1>11. ASSUME NEW h \in Height PROVE bn[h] \in Int /\ rw[h] \in Int /\ bn[h] <= rw[h]
  <2>1. bn[h] \in Int
    <3> HIDE DEF A, bn
    <3> QED BY <1>8, <1>9, <1>10, SumType
  <2>2. CASE hidx[h] = NoBlock
    <3>1. bn[h] = SumFunctionOnSet(Net, {})
      BY <2>2
    <3>2. bn[h] = 0 /\ rw[h] = 0
      BY <2>2, <3>1, SumEmpty
    <3>3. QED BY <3>2
  <2>3. CASE hidx[h] # NoBlock
    <3>1. bn[h] = SumFunctionOnSet(Net, BlockTxs(hidx[h])) /\ rw[h] = Reward(h)
      BY <2>3
    <3>2. Reward(h) \in Int
      BY <1>2, <2>3, RewardType
    <3>3. SumFunctionOnSet(Net, BlockTxs(hidx[h])) <= Reward(h)
      BY <1>2, <2>3 DEF AmountsKept
    <3>4. QED BY <2>1, <3>1, <3>2, <3>3
  <2>4. QED BY <2>2, <2>3
<1>12. SumFunction([h \in Height |-> IF hidx[h] = NoBlock THEN 0 ELSE Reward(h)])
         = SumFunctionOnSet(rw, Height)
  BY DEF SumFunction
<1> HIDE DEF A, bn, rw
<1>13. SumFunctionOnSet(Net, UNION {A[h] : h \in Height}) = SumFunctionOnSet(bn, Height)
  BY <1>6, <1>7, <1>8, <1>9, <1>10, SumFamily
<1>14. SumFunctionOnSet(bn, Height) <= SumFunctionOnSet(rw, Height)
  BY <1>7, <1>11, SumMonotone
<1>15. QED BY <1>5, <1>12, <1>13, <1>14, CoinsAddUp DEF SupplyBounded

(* Through links, pops and failures the coins never add up to more than the *)
(* rewards of the chain's blocks (check_block_amount, pop).                 *)
THEOREM NoMoneyFromNothing == Spec => []SupplyBounded
<1>1. Init => AmountsKept
  BY BlocksAssumption DEF Init, AmountsKept, OnChain
<1>2. IndexInv /\ AmountsKept /\ [Next]_vars => AmountsKept'
  BY AmountsStep
<1>3. IndexInv /\ AmountsKept => SupplyBounded
  BY SupplyLaw
<1>4. QED BY <1>1, <1>2, <1>3, IndexInvariant, PTL DEF Spec

-----------------------------------------------------------------------------
(***************************************************************************)
(* The refinement.  The ledger's operators are those of the indexer.       *)
(***************************************************************************)
Mapped == [i \in 1..NextHeight |-> hidx[i - 1]]

LEMMA LedgerOps ==
    /\ \A b : Ledger!Prev(b) = Prev(b) /\ Ledger!Txs(b) = Txs(b) /\ Ledger!BlockTxs(b) = BlockTxs(b)
    /\ \A t : Ledger!Ins(t) = Ins(t) /\ Ledger!Outs(t) = Outs(t) /\ Ledger!CostIns(t) = CostIns(t)
    /\ \A t : Ledger!Spends(t) = Spends(t) /\ Ledger!Makes(t) = Makes(t)
    /\ \A t : Ledger!IsCoinbase(t) = IsCoinbase(t)
    /\ \A k : Ledger!OutOf(k) = OutOf(k)
    /\ \A i : Ledger!OutKey(i) = OutKey(i)
    /\ \A f : Ledger!SumFunction(f) = SumFunction(f)
<1>1. \A b : Ledger!Prev(b) = Prev(b) /\ Ledger!Txs(b) = Txs(b)
  BY DEF Ledger!Prev, Ledger!Txs, Prev, Txs
<1>2. \A t : Ledger!Ins(t) = Ins(t) /\ Ledger!Outs(t) = Outs(t)
  BY DEF Ledger!Ins, Ledger!Outs, Ins, Outs
<1>3. \A i : Ledger!OutKey(i) = OutKey(i) /\ Ledger!IsCoinbaseIn(i) = IsCoinbaseIn(i)
  BY DEF Ledger!OutKey, OutKey, Ledger!IsCoinbaseIn, IsCoinbaseIn
<1>4. \A b : Ledger!BlockTxs(b) = BlockTxs(b)
  BY <1>1 DEF Ledger!BlockTxs, BlockTxs
<1>5. \A t : Ledger!CostIns(t) = CostIns(t)
  BY <1>2, <1>3 DEF Ledger!CostIns, CostIns
<1>6. \A t : Ledger!Spends(t) = Spends(t)
  BY <1>2, <1>3, <1>5 DEF Ledger!Spends, Spends
<1>7. \A t : Ledger!Makes(t) = Makes(t)
  BY <1>2 DEF Ledger!Makes, Makes
<1>8. \A t : Ledger!IsCoinbase(t) = IsCoinbase(t)
  BY DEF Ledger!IsCoinbase, IsCoinbase, Ledger!Ins, Ins, Ledger!IsCoinbaseIn, IsCoinbaseIn
<1>9. \A k : Ledger!OutOf(k) = OutOf(k)
  BY <1>2 DEF Ledger!OutOf, OutOf
<1>10. \A f : Ledger!SumFunction(f) = SumFunction(f)
  BY DEF Ledger!SumFunction, Ledger!SumFunctionOnSet, Ledger!FoldFunctionOnSet,
         Ledger!MapThenFoldSet, SumFunction, SumFunctionOnSet, FoldFunctionOnSet, MapThenFoldSet
<1>11. QED BY <1>1, <1>2, <1>3, <1>4, <1>5, <1>6, <1>7, <1>8, <1>9, <1>10

LEMMA LedgerAmounts ==
    /\ \A t : Ledger!OutSum(t) = OutSum(t) /\ Ledger!Paid(t) = PaidBy(t)
    /\ \A h : Ledger!Reward(h) = Reward(h)
<1>1. ASSUME NEW t PROVE Ledger!OutSum(t) = OutSum(t)
  <2>1. Ledger!OutSum(t) = Ledger!SumFunction([i \in DOMAIN Outs(t) |-> Outs(t)[i].value])
    BY LedgerOps DEF Ledger!OutSum
  <2>2. QED BY <2>1, LedgerOps DEF OutSum
<1>2. ASSUME NEW t PROVE Ledger!Paid(t) = PaidBy(t)
  <2>1. Ledger!Paid(t) = Ledger!SumFunction([k \in Spends(t) |-> OutOf(k).value])
    BY LedgerOps DEF Ledger!Paid
  <2>2. QED BY <2>1, LedgerOps DEF PaidBy
<1>3. \A h : Ledger!Reward(h) = Reward(h)
  BY DEF Ledger!Reward, Ledger!Halved, Reward, Halved
<1>4. QED BY <1>1, <1>2, <1>3


LEMMA LedgerSets == \A S : Ledger!Cardinality(S) = Cardinality(S)
BY DEF Ledger!Cardinality, Cardinality

-----------------------------------------------------------------------------
(* The mapped chain, in the terms of the indexer. *)
LEMMA MappedFacts ==
    ASSUME TypeOK, ChainShape
    PROVE  /\ NextHeight \in Nat
           /\ Mapped \in Seq(Block) /\ Len(Mapped) = NextHeight
           /\ DOMAIN Mapped = 1..NextHeight
           /\ \A i \in 1..NextHeight :
                 /\ Mapped[i] = hidx[i - 1] /\ Mapped[i] \in Block
                 /\ OnChain(Mapped[i]) /\ battr[Mapped[i]].height = i - 1
<1>1. NextHeight \in Nat
  BY NextHeightFacts
<1>2. ASSUME NEW i \in 1..NextHeight
      PROVE  /\ hidx[i - 1] \in Block
             /\ OnChain(hidx[i - 1]) /\ battr[hidx[i - 1]].height = i - 1
  <2>1. i \in Nat /\ i >= 1 /\ i <= NextHeight
    BY <1>1
  <2>2. best # NoBest /\ NextHeight = best.height + 1 /\ best.height \in Height
    BY <1>1, <2>1, NextHeightFacts
  <2>3. i - 1 \in Height /\ i - 1 <= best.height
    BY <2>1, <2>2, IndexerAssumption DEF Height
  <2>4. hidx[i - 1] # NoBlock
    BY <2>2, <2>3 DEF ChainShape
  <2>5. hidx[i - 1] \in Block
    BY <2>3, <2>4 DEF TypeOK
  <2>6. QED BY <2>3, <2>5 DEF ChainShape
<1>3. Mapped \in [1..NextHeight -> Block]
  BY <1>2 DEF Mapped
<1>4. Mapped \in Seq(Block)
  BY <1>1, <1>3
<1>5. Len(Mapped) = NextHeight
  BY <1>1, <1>3, <1>4
<1>6. QED BY <1>1, <1>2, <1>3, <1>4, <1>5 DEF Mapped

LEMMA MappedTxs ==
    ASSUME TypeOK, ChainShape, TxIndexExact
    PROVE  /\ Ledger!ChainTxs(Mapped) = Linked
           /\ \A t \in Linked : Ledger!HeightIn(Mapped, t) = HeightOf(t)
<1>1. Ledger!ChainTxs(Mapped) = UNION {BlockTxs(Mapped[i]) : i \in DOMAIN Mapped}
  BY LedgerOps DEF Ledger!ChainTxs
<1>2. ASSUME NEW i \in DOMAIN Mapped, NEW t \in BlockTxs(Mapped[i])
      PROVE  t \in Linked /\ HeightOf(t) = i - 1
  <2>1. i \in 1..NextHeight
    BY MappedFacts
  <2>2. Mapped[i] \in Block /\ OnChain(Mapped[i]) /\ battr[Mapped[i]].height = i - 1
    BY <2>1, MappedFacts
  <2>3. QED BY <2>2, TxOfBlock
<1>3. ASSUME NEW t \in Linked
      PROVE  /\ HeightOf(t) \in Nat /\ HeightOf(t) + 1 \in DOMAIN Mapped
             /\ t \in BlockTxs(Mapped[HeightOf(t) + 1])
  <2>1. /\ tattr[t].blk \in Block /\ OnChain(tattr[t].blk) /\ t \in BlockTxs(tattr[t].blk)
        /\ HeightOf(t) \in Height /\ best # NoBest /\ HeightOf(t) <= best.height
    BY LinkedTx
  <2>2. hidx[HeightOf(t)] = tattr[t].blk
    BY <2>1, BlockHeight DEF HeightOf
  <2> DEFINE h == HeightOf(t)
  <2>3. h \in Nat /\ best.height \in Nat /\ NextHeight = best.height + 1 /\ h <= best.height
    BY <2>1, NextHeightFacts DEF Height
  <2> HIDE DEF h
  <2>4. h + 1 \in 1..NextHeight /\ (h + 1) - 1 = h
    BY <2>3
  <2>5. h + 1 \in DOMAIN Mapped /\ Mapped[h + 1] = hidx[h]
    BY <2>4, MappedFacts
  <2>6. QED BY <2>1, <2>2, <2>3, <2>5 DEF h
<1>4. ASSUME NEW t \in Linked PROVE Ledger!HeightIn(Mapped, t) = HeightOf(t)
  <2> DEFINE i == CHOOSE j \in DOMAIN Mapped : t \in BlockTxs(Mapped[j])
  <2>1. Ledger!HeightIn(Mapped, t) = i - 1
    BY LedgerOps DEF Ledger!HeightIn
  <2>2. i \in DOMAIN Mapped /\ t \in BlockTxs(Mapped[i])
    BY <1>3
  <2> HIDE DEF i
  <2>3. HeightOf(t) = i - 1
    BY <1>2, <2>2
  <2>4. QED BY <2>1, <2>3
<1>5. Linked = UNION {BlockTxs(Mapped[i]) : i \in DOMAIN Mapped}
  BY <1>2, <1>3
<1>6. QED BY <1>1, <1>4, <1>5

-----------------------------------------------------------------------------
(* link is a step of the ledger. *)
LEMMA TxCount ==
    ASSUME NEW b \in Block, BlockCheckValue(b)
    PROVE  /\ Cardinality(BlockTxs(b)) = Len(Txs(b))
           /\ Cardinality(Coinbases(b)) = 1
<1>1. Txs(b) \in Seq(Tx)
  BY BlockFacts
<1>2. Len(Txs(b)) \in Nat /\ DOMAIN Txs(b) = 1..Len(Txs(b))
  BY <1>1
<1> DEFINE D == 1..Len(Txs(b))
<1>3. Txs(b) \in [D -> BlockTxs(b)]
  <2>1. Txs(b) = [i \in D |-> Txs(b)[i]]
    BY <1>1, <1>2
  <2>2. \A i \in D : Txs(b)[i] \in BlockTxs(b)
    BY <1>2 DEF BlockTxs
  <2>3. QED BY <2>1, <2>2
<1>4. \A x, y \in D : Txs(b)[x] = Txs(b)[y] => x = y
  BY <1>2, DistinctTxs
<1>5. \A t \in BlockTxs(b) : \E i \in D : Txs(b)[i] = t
  BY <1>2 DEF BlockTxs
<1>6. Txs(b) \in Bijection(D, BlockTxs(b))
  BY <1>3, <1>4, <1>5 DEF Bijection, Injection, Surjection, IsInjective
<1>7. ExistsBijection(D, BlockTxs(b))
  BY <1>6 DEF ExistsBijection
<1>8. Cardinality(BlockTxs(b)) = Len(Txs(b))
  BY <1>2, <1>7, FS_CountingElements
<1>9. Cardinality(Coinbases(b)) = 1
  BY OneCoinbase, FS_Singleton
<1>10. QED BY <1>8, <1>9

(* An input names the address of the output it spends. *)
LEMMA SpentAddress ==
    ASSUME IndexInv, NEW b \in Block, LinkOk(b), NEW t \in BlockTxs(b), NEW i \in CostIns(t)
    PROVE  Ins(t)[i].addr = OutOf(OutKey(Ins(t)[i])).addr
<1> DEFINE k == OutKey(Ins(t)[i])
           u == k[1]
           c == tattr[u].blk
<1>1. SpendOk(Ins(t)[i], NextHeight)
  BY DEF LinkOk, CheckBlockAmount, CheckTxAmount
<1>2. Ins(t)[i].addr = RefOut(k).addr /\ CanRef(k)
  BY <1>1 DEF SpendOk, HasRefOut
<1>3. k \in Spends(t)
  BY DEF Spends
<1>4. k \in CoinKey /\ u \in Linked
  BY <1>3, LinkSpends
<1>5. u \in Tx /\ c \in Block /\ OnChain(c) /\ u \in BlockTxs(c)
  BY <1>4, LinkedTx DEF IndexInv
<1>6. GetBlock(c) = c
  BY <1>2, <1>5, GetsBlock DEF CanRef, IndexInv
<1>7. PICK j \in DOMAIN Txs(c) : Txs(c)[j] = u
  BY <1>5 DEF BlockTxs
<1>8. tattr[u].idx = j
  <2>1. tattr[Txs(c)[j]] = [blk |-> c, idx |-> j]
    BY <1>5 DEF IndexInv, TxIndexExact
  <2>2. tattr[u] = [blk |-> c, idx |-> j]
    BY <1>7, <2>1
  <2>3. QED BY <2>2
<1>9. RefTx(k) = u
  BY <1>6, <1>7, <1>8 DEF RefTx
<1>10. RefOut(k) = OutOf(k)
  BY <1>9 DEF RefOut, OutOf
<1>11. QED BY <1>2, <1>10

LEMMA LinkAccepted ==
    ASSUME IndexInv, NEW b \in Block, Link(b)
    PROVE  Ledger!Accepts(Mapped, b)
<1>1. LinkOk(b) /\ BlockCheckValue(b) /\ NextHeight \in Nat /\ TypeOK /\ ChainShape
      /\ TxIndexExact /\ UndoOnDisk /\ CoinsExact
  BY LinkEffect, NextHeightFacts DEF IndexInv
<1>2. Len(Mapped) = NextHeight /\ Mapped \in Seq(Block)
  BY <1>1, MappedFacts
<1>3. Ledger!ChainTxs(Mapped) = Linked /\ \A t \in Linked : Ledger!HeightIn(Mapped, t) = HeightOf(t)
  BY <1>1, MappedTxs
<1>4. ASSUME Mapped # <<>> PROVE Prev(b) = Ledger!Last(Mapped)
  <2>1. NextHeight # 0
    BY <1>2, <1>4
  <2>2. best # NoBest /\ NextHeight = best.height + 1 /\ best.height \in Nat
    BY <1>1, <2>1, NextHeightFacts DEF Height
  <2>3. Prev(b) = GetBlock(best.id) /\ CanGet(best.id)
    BY <1>1, <2>2 DEF LinkOk
  <2>4. GetBlock(best.id) = best.id /\ hidx[best.height] = best.id
    BY <1>1, <2>2, <2>3, TopFacts, GetsBlock
  <2>5. NextHeight \in 1..NextHeight /\ NextHeight - 1 = best.height
    BY <1>1, <2>1, <2>2
  <2>6. Mapped[NextHeight] = hidx[best.height]
    BY <1>1, <2>5, MappedFacts
  <2>7. QED BY <1>2, <2>3, <2>4, <2>6 DEF Ledger!Last
<1>5. BlockTxs(b) \cap Linked = {}
  BY LinkEffect
<1>6. ASSUME NEW t \in BlockTxs(b), NEW k \in Spends(t)
      PROVE  /\ Ledger!Spendable(Mapped, k, NextHeight)
             /\ \A u \in BlockTxs(b) \ {t} : k \notin Spends(u)
  <2>1. /\ k \in CoinKey /\ k[1] \in Linked /\ \A u \in Linked : k \notin Spends(u)
        /\ IsCoinbase(k[1]) => NextHeight - HeightOf(k[1]) >= Maturity
    BY <1>1, LinkSpends
  <2>2. k \in Makes(k[1])
    BY <2>1, CoinFacts
  <2>3. Ledger!Unspent(Mapped, k)
    BY <1>3, <2>1, <2>2, LedgerOps DEF Ledger!Unspent
  <2>4. Ledger!Spendable(Mapped, k, NextHeight)
    BY <1>3, <2>1, <2>3, LedgerOps DEF Ledger!Spendable
  <2>5. QED BY <1>1, <2>4, SpendsApart
<1>7. Cardinality(BlockTxs(b)) = Len(Txs(b)) /\ Cardinality(Coinbases(b)) = 1
  BY <1>1, TxCount
<1>8. \A t \in BlockTxs(b) : \A i \in CostIns(t) :
         Ins(t)[i].addr = OutOf(OutKey(Ins(t)[i])).addr
  BY <1>1, SpentAddress
<1>9. \A t \in Ordinary(b) : OutSum(t) <= PaidBy(t)
  BY <1>1, FeeOfBlock
<1>10. SumFunction([t \in Coinbases(b) |-> OutSum(t)])
         <= Reward(NextHeight) + SumFunction([t \in Ordinary(b) |-> PaidBy(t) - OutSum(t)])
  <2> DEFINE f == [t \in Ordinary(b) |-> PaidBy(t) - OutSum(t)]
  <2>1. SumFunction(f) = SumFunctionOnSet(f, Ordinary(b))
    BY DEF SumFunction
  <2>2. \A t \in Ordinary(b) : f[t] \in Int /\ f[t] = Fee[t]
    <3>1. ASSUME NEW t \in Ordinary(b) PROVE t \in Tx /\ Fee[t] \in Int
      BY <1>1, BlockFacts, FeeOfBlock DEF Ordinary
    <3>2. QED BY <3>1 DEF Fee
  <2>3. IsFiniteSet(Ordinary(b))
    BY BlockTxSet
  <2> HIDE DEF f
  <2>4. SumFunctionOnSet(f, Ordinary(b)) = SumFunctionOnSet(Fee, Ordinary(b))
    BY <2>2, <2>3, SumEqual
  <2>5. SumFunction([t \in Coinbases(b) |-> OutSum(t)])
          <= Reward(NextHeight) + SumFunctionOnSet(Fee, Ordinary(b))
    BY <1>1, BlockAmounts
  <2>6. SumFunction([t \in Coinbases(b) |-> OutSum(t)]) <= Reward(NextHeight) + SumFunction(f)
    BY <2>1, <2>4, <2>5
  <2>7. QED BY <2>6 DEF f
<1> DEFINE ord == {t \in Ledger!BlockTxs(b) : ~Ledger!IsCoinbase(t)}
           mint == Ledger!BlockTxs(b) \ ord
<1>11. ord = Ordinary(b) /\ mint = Coinbases(b)
  BY LedgerOps DEF Ordinary, Coinbases
<1>12. Ledger!SumFunction([t \in mint |-> Ledger!OutSum(t)])
         <= Ledger!Reward(NextHeight)
            + Ledger!SumFunction([t \in ord |-> Ledger!Paid(t) - Ledger!OutSum(t)])
  <2>1. [t \in mint |-> Ledger!OutSum(t)] = [t \in Coinbases(b) |-> OutSum(t)]
    BY <1>11, LedgerAmounts
  <2>2. [t \in ord |-> Ledger!Paid(t) - Ledger!OutSum(t)]
          = [t \in Ordinary(b) |-> PaidBy(t) - OutSum(t)]
    BY <1>11, LedgerAmounts
  <2> HIDE DEF ord, mint
  <2>3. QED BY <1>10, <2>1, <2>2, LedgerOps, LedgerAmounts
<1>13. Mapped # <<>> => Ledger!Prev(b) = Ledger!Last(Mapped)
  BY <1>4, LedgerOps
<1>14. Ledger!BlockTxs(b) \cap Ledger!ChainTxs(Mapped) = {}
  BY <1>3, <1>5, LedgerOps
<1>15. Ledger!Cardinality(Ledger!BlockTxs(b)) = Len(Ledger!Txs(b))
       /\ Ledger!Cardinality(mint) = 1
  BY <1>7, <1>11, LedgerOps, LedgerSets
<1>16. \A t \in Ledger!BlockTxs(b) : \A k \in Ledger!Spends(t) :
          /\ Ledger!Spendable(Mapped, k, Len(Mapped))
          /\ \A u \in Ledger!BlockTxs(b) \ {t} : k \notin Ledger!Spends(u)
  BY <1>2, <1>6, LedgerOps
<1>17. \A t \in Ledger!BlockTxs(b) : \A i \in Ledger!CostIns(t) :
          Ledger!Ins(t)[i].addr = Ledger!OutOf(Ledger!OutKey(Ledger!Ins(t)[i])).addr
  BY <1>8, LedgerOps
<1>18. \A t \in ord : Ledger!OutSum(t) <= Ledger!Paid(t)
  BY <1>9, <1>11, LedgerAmounts
<1>19. QED
  BY <1>2, <1>12, <1>13, <1>14, <1>15, <1>16, <1>17, <1>18 DEF Ledger!Accepts

LEMMA LinkExtends ==
    ASSUME IndexInv, NEW b \in Block, Link(b)
    PROVE  Ledger!Accepts(Mapped, b) /\ Mapped' = Append(Mapped, b)
<1>1. /\ TypeOK /\ ChainShape /\ NextHeight \in Height
      /\ best' = [id |-> b, height |-> NextHeight] /\ hidx' = [hidx EXCEPT ![NextHeight] = b]
  BY LinkEffect DEF IndexInv
<1>2. NextHeight \in Nat /\ Mapped \in Seq(Block) /\ Len(Mapped) = NextHeight
      /\ DOMAIN Mapped = 1..NextHeight
  BY <1>1, MappedFacts
<1>3. NextHeight' = NextHeight + 1
  <2>1. [id |-> b, height |-> NextHeight] \in Best
    BY <1>1 DEF Best
  <2>2. best' # NoBest /\ best'.height = NextHeight
    BY <1>1, <2>1, IndexerAssumption
  <2>3. NextHeight' = IF best' = NoBest THEN 0 ELSE best'.height + 1
    BY DEF NextHeight
  <2>4. QED BY <2>2, <2>3
<1>4. Mapped' = [i \in 1..(NextHeight + 1) |-> hidx'[i - 1]]
  BY <1>3 DEF Mapped
<1>5. ASSUME NEW i \in 1..(NextHeight + 1)
      PROVE  hidx'[i - 1] = IF i = NextHeight + 1 THEN b ELSE Mapped[i]
  <2>1. hidx \in [Height -> Block \cup {NoBlock}]
    BY <1>1 DEF TypeOK
  <2>2. i - 1 \in Height
    BY <1>1, <1>2, IndexerAssumption DEF Height
  <2>3. CASE i = NextHeight + 1
    BY <1>1, <1>2, <2>1, <2>3
  <2>4. CASE i # NextHeight + 1
    <3>1. i \in 1..NextHeight /\ i - 1 # NextHeight
      BY <1>2, <2>4
    <3>2. Mapped[i] = hidx[i - 1]
      BY <1>1, <3>1, MappedFacts
    <3>3. QED BY <1>1, <2>1, <2>2, <2>4, <3>1, <3>2
  <2>5. QED BY <2>3, <2>4
<1>6. Append(Mapped, b) = [i \in 1..(NextHeight + 1) |-> IF i = NextHeight + 1 THEN b ELSE Mapped[i]]
  <2> HIDE DEF Mapped
  <2> DEFINE s == [i \in 1..(NextHeight + 1) |-> IF i = NextHeight + 1 THEN b ELSE Mapped[i]]
  <2> DEFINE a == Append(Mapped, b)
  <2>1. a \in Seq(Block) /\ Len(a) = NextHeight + 1
    BY <1>2
  <2>2. \A i \in 1..(NextHeight + 1) : a[i] = s[i]
    BY <1>2
  <2> HIDE DEF a
  <2>3. a = [i \in 1..(NextHeight + 1) |-> a[i]]
    BY <2>1
  <2>4. a = s
    BY <2>2, <2>3
  <2>5. QED BY <2>4 DEF a
<1>7. Mapped' = Append(Mapped, b)
  <2> HIDE DEF Mapped
  <2> QED BY <1>4, <1>5, <1>6
<1>8. QED BY <1>7, LinkAccepted

LEMMA PopRetracts ==
    ASSUME IndexInv, Pop
    PROVE  Mapped # <<>> /\ Mapped' = Ledger!Front(Mapped)
<1>1. /\ TypeOK /\ ChainShape /\ best # NoBest /\ best.height \in Height
      /\ best' = IF best.height = 0 THEN NoBest
                 ELSE [id |-> hidx[best.height - 1], height |-> best.height - 1]
      /\ hidx' = [hidx EXCEPT ![best.height] = NoBlock]
  BY PopEffect DEF IndexInv
<1>2. NextHeight \in Nat /\ Mapped \in Seq(Block) /\ Len(Mapped) = NextHeight
      /\ NextHeight = best.height + 1 /\ best.height \in Nat
  BY <1>1, MappedFacts, NextHeightFacts DEF Height
<1>3. NextHeight' = best.height
  <2>1. NextHeight' = IF best' = NoBest THEN 0 ELSE best'.height + 1
    BY DEF NextHeight
  <2>2. CASE best.height = 0
    BY <1>1, <2>1, <2>2
  <2>3. CASE best.height # 0
    <3>1. best' \in Best \cup {NoBest}
      BY PopType DEF IndexInv, TypeOK
    <3>2. best' = [id |-> hidx[best.height - 1], height |-> best.height - 1]
      BY <1>1, <2>3
    <3>3. hidx[best.height - 1] \in Block
      <4>1. best.height \in 1..NextHeight
        BY <1>2, <2>3
      <4>2. QED BY <1>1, <4>1, MappedFacts
    <3>4. best.height - 1 \in Height
      BY <1>1, <1>2, <2>3, IndexerAssumption DEF Height
    <3>5. [id |-> hidx[best.height - 1], height |-> best.height - 1] \in Best
      BY <3>3, <3>4 DEF Best
    <3>6. best' # NoBest /\ best'.height = best.height - 1
      BY <3>2, <3>5, IndexerAssumption
    <3>7. QED BY <1>2, <2>1, <3>6
  <2>4. QED BY <2>2, <2>3
<1>4. Mapped' = [i \in 1..best.height |-> hidx'[i - 1]]
  BY <1>3 DEF Mapped
<1>5. ASSUME NEW i \in 1..best.height PROVE hidx'[i - 1] = Mapped[i]
  <2>1. i \in 1..NextHeight /\ i - 1 # best.height /\ i - 1 \in Height
    <3>1. i \in Nat /\ 1 <= i /\ i <= best.height
      BY <1>2
    <3>2. i - 1 \in Height
      BY <1>1, <1>2, <3>1, IndexerAssumption DEF Height
    <3>3. QED BY <1>2, <3>1, <3>2
  <2>2. hidx'[i - 1] = hidx[i - 1]
    BY <1>1, <2>1 DEF TypeOK
  <2>3. QED BY <1>1, <2>1, <2>2, MappedFacts
<1>6. Ledger!Front(Mapped) = [i \in 1..best.height |-> Mapped[i]]
  <2>1. Ledger!Front(Mapped) = SubSeq(Mapped, 1, best.height)
    BY <1>2 DEF Ledger!Front
  <2> HIDE DEF Mapped
  <2>2. QED BY <1>2, <2>1
<1>7. Mapped' = Ledger!Front(Mapped)
  BY <1>4, <1>5, <1>6
<1>8. QED BY <1>2, <1>7

(* Every step of the indexer is a step of the ledger on the chain the       *)
(* height keys list, or leaves that chain alone: a block links only as the  *)
(* chain's own contents allow, and pop takes off the last (link, pop).      *)
THEOREM RefinesLedger == Spec => ImplementsLedger
<1>1. Init => Mapped = <<>>
  BY DEF Init, Mapped, NextHeight
<1>2. IndexInv /\ [Next]_vars =>
        [(\E b \in Block : Ledger!Extend(b)) \/ Ledger!Retract]_Mapped
  <2> SUFFICES ASSUME IndexInv, [Next]_vars
               PROVE  [(\E b \in Block : Ledger!Extend(b)) \/ Ledger!Retract]_Mapped
    OBVIOUS
  <2>1. ASSUME NEW b \in Block, Link(b) PROVE Ledger!Extend(b)
    BY <2>1, LinkExtends DEF Ledger!Extend, Mapped
  <2>2. ASSUME Pop PROVE Ledger!Retract
    BY <2>2, PopRetracts DEF Ledger!Retract, Mapped
  <2>3. UNCHANGED <<best, hidx>> => UNCHANGED Mapped
    BY DEF Mapped, NextHeight
  <2>4. QED
    BY <2>1, <2>2, <2>3
    DEF Next, LinkAborts, PopAborts, SetGenesis, AppendTx, RemoveTx, Get, Load, Restart, vars, dbVars
<1>3. QED BY <1>1, <1>2, IndexInvariant, PTL DEF Spec, ImplementsLedger, Ledger!LedgerSpec, Mapped
=============================================================================
