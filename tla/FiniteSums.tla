----------------------------- MODULE FiniteSums -----------------------------
(***************************************************************************)
(* Facts about sums over finite sets, such as the community modules' folds *)
(* MapThenSumSet and FoldFunctionOnSet compute them: take any element, add *)
(* its value to the sum of the rest.  The result does not depend on which  *)
(* element is taken.                                                       *)
(*                                                                         *)
(* Each proof is by a smallest set (FS_StrictSubsetOrderingWellFounded,    *)
(* WFMin): the sets on which a fact fails have no smallest member.         *)
(***************************************************************************)
EXTENDS Integers, FiniteSets, Functions, FiniteSetTheorems, TLAPS

\* The element a fold takes first.
Pick(s) == CHOOSE x \in s : TRUE

\* g maps every subset of S to the sum of f over it.
Sums(g, f, S) ==
    g = [s \in SUBSET S |-> IF s = {} THEN 0 ELSE f[Pick(s)] + g[s \ {Pick(s)}]]

SumOver(f, S) == (CHOOSE g : Sums(g, f, S))[S]

-----------------------------------------------------------------------------

\* A fold takes an element of its set.
LEMMA PickIn == ASSUME NEW s, s # {} PROVE Pick(s) \in s
BY DEF Pick

\* A family of subsets of a finite set has a smallest member.
LEMMA SmallestMember ==
  ASSUME NEW S, IsFiniteSet(S), NEW T, T \subseteq SUBSET S, T # {}
  PROVE  \E s \in T : \A t \in T : t \subseteq s => t = s
<1>1. IsWellFoundedOn(StrictSubsetOrdering(S), SUBSET S)
  BY FS_StrictSubsetOrderingWellFounded, FS_FiniteSubsetsOfFinite
<1>2. PICK s \in T : \A t \in T : ~(<<t, s>> \in StrictSubsetOrdering(S))
  BY <1>1, WFMin, Zenon
<1>3. \A t \in T : t \subseteq s => t = s
  BY <1>2 DEF StrictSubsetOrdering
<1> QED BY <1>3

\* Two sums of the same function agree on the sets both are defined for.
LEMMA SumsAgree ==
  ASSUME NEW S, IsFiniteSet(S), NEW T, NEW f, NEW g, NEW h,
         Sums(g, f, S), Sums(h, f, T), NEW u \in SUBSET S, u \in SUBSET T
  PROVE  g[u] = h[u]
<1> DEFINE Bad == {s \in SUBSET S : s \in SUBSET T /\ g[s] # h[s]}
<1>1. SUFFICES ASSUME Bad # {} PROVE FALSE
  OBVIOUS
<1>2. PICK s \in Bad : \A t \in Bad : t \subseteq s => t = s
  <2>1. Bad \subseteq SUBSET S
    OBVIOUS
  <2> HIDE DEF Bad
  <2> QED BY <1>1, <2>1, SmallestMember
<1>3. /\ g[s] = IF s = {} THEN 0 ELSE f[Pick(s)] + g[s \ {Pick(s)}]
      /\ h[s] = IF s = {} THEN 0 ELSE f[Pick(s)] + h[s \ {Pick(s)}]
  BY <1>2 DEF Sums
<1>4. s # {}
  BY <1>2, <1>3
<1>5. Pick(s) \in s
  BY <1>4, PickIn
<1>6. s \ {Pick(s)} \notin Bad
  BY <1>2, <1>5
<1>7. g[s \ {Pick(s)}] = h[s \ {Pick(s)}]
  BY <1>2, <1>6
<1> QED BY <1>2, <1>3, <1>7

\* A finite set has a sum.
LEMMA SumsExist ==
  ASSUME NEW S, IsFiniteSet(S), NEW f
  PROVE  \E g : Sums(g, f, S)
<1> DEFINE Bad == {s \in SUBSET S : ~\E g : Sums(g, f, s)}
<1>1. SUFFICES ASSUME Bad # {} PROVE FALSE
  OBVIOUS
<1>2. PICK s \in Bad : \A t \in Bad : t \subseteq s => t = s
  <2>1. Bad \subseteq SUBSET S
    OBVIOUS
  <2> HIDE DEF Bad
  <2> QED BY <1>1, <2>1, SmallestMember
<1> DEFINE Sol(t) == CHOOSE g : Sums(g, f, t)
           g == [t \in SUBSET s |-> IF t = {} THEN 0
                   ELSE f[Pick(t)] + Sol(t \ {Pick(t)})[t \ {Pick(t)}]]
<1>3. ASSUME NEW t \in SUBSET s, t # s PROVE Sums(Sol(t), f, t)
  BY <1>2, <1>3
<1>4. ASSUME NEW t \in SUBSET s, t # {} PROVE /\ Pick(t) \in t
                                             /\ t \ {Pick(t)} \in SUBSET s
                                             /\ t \ {Pick(t)} # s
  BY <1>4, PickIn
<1> HIDE DEF Sol
<1>5. ASSUME NEW t \in SUBSET s, t # s PROVE g[t] = Sol(t)[t]
  <2>1. Sums(Sol(t), f, t)
    BY <1>3, <1>5
  <2>2. Sol(t)[t] = IF t = {} THEN 0 ELSE f[Pick(t)] + Sol(t)[t \ {Pick(t)}]
    BY <2>1 DEF Sums
  <2>3. CASE t = {}
    BY <2>2, <2>3
  <2>4. CASE t # {}
    <3> DEFINE w == t \ {Pick(t)}
    <3>1. w \in SUBSET s /\ w # s /\ w \in SUBSET t
      BY <1>4, <2>4
    <3>2. Sums(Sol(w), f, w)
      BY <1>3, <3>1
    <3>3. IsFiniteSet(t)
      BY FS_Subset, <1>2
    <3>4. Sol(t)[w] = Sol(w)[w]
      BY <2>1, <3>1, <3>2, <3>3, SumsAgree
    <3> QED BY <2>2, <2>4, <3>4
  <2> QED BY <2>3, <2>4
<1>6. \A t \in SUBSET s : g[t] = IF t = {} THEN 0 ELSE f[Pick(t)] + g[t \ {Pick(t)}]
  <2> SUFFICES ASSUME NEW t \in SUBSET s, t # {}
               PROVE  g[t] = f[Pick(t)] + g[t \ {Pick(t)}]
    OBVIOUS
  <2>1. t \ {Pick(t)} \in SUBSET s /\ t \ {Pick(t)} # s
    BY <1>4
  <2>2. g[t \ {Pick(t)}] = Sol(t \ {Pick(t)})[t \ {Pick(t)}]
    BY <1>5, <2>1
  <2>3. g[t] = f[Pick(t)] + Sol(t \ {Pick(t)})[t \ {Pick(t)}]
    OBVIOUS
  <2> QED BY <2>2, <2>3
<1>7. g = [t \in SUBSET s |-> g[t]]
  OBVIOUS
<1> HIDE DEF g
<1>8. Sums(g, f, s)
  BY <1>6, <1>7 DEF Sums
<1> QED BY <1>2, <1>8

\* A sum is determined by what it is a sum of.
LEMMA SumsGive ==
  ASSUME NEW S, IsFiniteSet(S), NEW f, NEW g, Sums(g, f, S)
  PROVE  g[S] = SumOver(f, S)
<1>1. Sums(CHOOSE h : Sums(h, f, S), f, S)
  OBVIOUS
<1> QED BY <1>1, SumsAgree DEF SumOver

\* A sum is its first term and the sum of the others.
LEMMA SumUnfold ==
  ASSUME NEW S, IsFiniteSet(S), NEW f
  PROVE  /\ SumOver(f, {}) = 0
         /\ S # {} => SumOver(f, S) = f[Pick(S)] + SumOver(f, S \ {Pick(S)})
<1>1. ASSUME NEW T, IsFiniteSet(T) PROVE Sums(CHOOSE h : Sums(h, f, T), f, T)
  BY <1>1, SumsExist
<1>2. SumOver(f, {}) = 0
  <2>1. IsFiniteSet({})
    BY FS_EmptySet
  <2> QED BY <1>1, <2>1 DEF SumOver, Sums
<1>3. ASSUME S # {} PROVE SumOver(f, S) = f[Pick(S)] + SumOver(f, S \ {Pick(S)})
  <2> DEFINE g == CHOOSE h : Sums(h, f, S)
             T == S \ {Pick(S)}
  <2>1. Sums(g, f, S) /\ g[S] = SumOver(f, S)
    BY <1>1 DEF SumOver
  <2>2. IsFiniteSet(T) /\ T \in SUBSET S
    BY FS_Subset
  <2>3. Sums(CHOOSE h : Sums(h, f, T), f, T)
    BY <1>1, <2>2
  <2> HIDE DEF g, T
  <2>4. g[T] = SumOver(f, T)
    BY <2>1, <2>2, <2>3, SumsAgree DEF SumOver
  <2>5. g[S] = f[Pick(S)] + g[T]
    BY <1>3, <2>1 DEF Sums, T
  <2> QED BY <2>1, <2>4, <2>5 DEF T
<1> QED BY <1>2, <1>3

-----------------------------------------------------------------------------

\* Nothing adds up to nothing.
LEMMA SumEmpty == ASSUME NEW f PROVE SumOver(f, {}) = 0
BY SumUnfold, FS_EmptySet

\* It does not matter which element is added last.
LEMMA SumAdd ==
  ASSUME NEW S, IsFiniteSet(S), NEW f, \A x \in S : f[x] \in Int, NEW y \in S
  PROVE  /\ SumOver(f, S) \in Int
         /\ SumOver(f, S) = f[y] + SumOver(f, S \ {y})
<1> DEFINE Right(s) == /\ SumOver(f, s) \in Int
                       /\ \A x \in s : SumOver(f, s) = f[x] + SumOver(f, s \ {x})
           Bad == {s \in SUBSET S : ~Right(s)}
<1>1. SUFFICES ASSUME Bad # {} PROVE FALSE
  OBVIOUS
<1>2. PICK s \in Bad : \A t \in Bad : t \subseteq s => t = s
  <2>1. Bad \subseteq SUBSET S
    OBVIOUS
  <2> HIDE DEF Bad
  <2> QED BY <1>1, <2>1, SmallestMember
<1>3. \A t \in SUBSET s : t # s => Right(t)
  BY <1>2
<1>4. s # {}
  <2>1. Right({})
    BY SumEmpty
  <2> QED BY <1>2, <2>1
<1> DEFINE c == Pick(s)
<1>5. IsFiniteSet(s) /\ c \in s
  BY <1>2, <1>4, PickIn, FS_Subset
<1>6. SumOver(f, s) = f[c] + SumOver(f, s \ {c})
  BY <1>4, <1>5, SumUnfold
<1> HIDE DEF c
<1>7. \A t \in SUBSET s : t # s => SumOver(f, t) \in Int
  BY <1>3
<1>8. SumOver(f, s) \in Int
  BY <1>2, <1>5, <1>6, <1>7
<1>9. ASSUME NEW x \in s PROVE SumOver(f, s) = f[x] + SumOver(f, s \ {x})
  <2>1. CASE x = c
    BY <1>6, <2>1
  <2>2. CASE x # c
    <3> DEFINE r == s \ {c, x}
    <3>1. r = (s \ {c}) \ {x} /\ r = (s \ {x}) \ {c} /\ r \in SUBSET s /\ r # s
      BY <1>5
    <3>2. SumOver(f, s \ {c}) = f[x] + SumOver(f, r)
      <4>1. Right(s \ {c}) /\ x \in s \ {c}
        BY <1>3, <1>5, <2>2
      <4> QED BY <3>1, <4>1
    <3>3. SumOver(f, s \ {x}) = f[c] + SumOver(f, r)
      <4>1. Right(s \ {x}) /\ c \in s \ {x}
        BY <1>3, <1>5, <2>2
      <4> QED BY <3>1, <4>1
    <3>4. f[x] \in Int /\ f[c] \in Int /\ SumOver(f, r) \in Int
      BY <1>2, <1>5, <1>7, <3>1
    <3> HIDE DEF r
    <3> QED BY <1>6, <3>2, <3>3, <3>4
  <2> QED BY <2>1, <2>2
<1> QED BY <1>2, <1>8, <1>9

\* A sum of integers is an integer.
LEMMA SumInt ==
  ASSUME NEW S, IsFiniteSet(S), NEW f, \A x \in S : f[x] \in Int
  PROVE  SumOver(f, S) \in Int
<1>1. CASE S = {}
  BY <1>1, SumUnfold
<1>2. CASE S # {}
  BY <1>2, SumAdd
<1> QED BY <1>1, <1>2

\* Two sums compare as their terms do.
LEMMA SumLeq ==
  ASSUME NEW S, IsFiniteSet(S), NEW f, NEW g,
         \A x \in S : f[x] \in Int /\ g[x] \in Int /\ f[x] <= g[x]
  PROVE  SumOver(f, S) <= SumOver(g, S)
<1> DEFINE Bad == {s \in SUBSET S : ~(SumOver(f, s) <= SumOver(g, s))}
<1>1. SUFFICES ASSUME Bad # {} PROVE FALSE
  OBVIOUS
<1>2. PICK s \in Bad : \A t \in Bad : t \subseteq s => t = s
  <2>1. Bad \subseteq SUBSET S
    OBVIOUS
  <2> HIDE DEF Bad
  <2> QED BY <1>1, <2>1, SmallestMember
<1>3. s # {}
  <2>1. ASSUME s = {} PROVE SumOver(f, s) = 0 /\ SumOver(g, s) = 0
    BY <2>1, SumEmpty, Zenon
  <2> QED BY <1>2, <2>1
<1>4. PICK x \in s : TRUE
  BY <1>3
<1>5. IsFiniteSet(s) /\ IsFiniteSet(s \ {x}) /\ s \ {x} \in SUBSET S
  BY <1>2, FS_Subset
<1>6. /\ SumOver(f, s) = f[x] + SumOver(f, s \ {x})
      /\ SumOver(g, s) = g[x] + SumOver(g, s \ {x})
  BY <1>2, <1>5, SumAdd
<1>7. SumOver(f, s \ {x}) \in Int /\ SumOver(g, s \ {x}) \in Int
  BY <1>2, <1>5, SumInt
<1>8. SumOver(f, s \ {x}) <= SumOver(g, s \ {x})
  BY <1>2, <1>4, <1>5
<1>9. f[x] \in Int /\ g[x] \in Int /\ f[x] <= g[x]
  BY <1>2, <1>4
<1> HIDE DEF Bad
<1>10. SumOver(f, s) <= SumOver(g, s)
  BY <1>6, <1>7, <1>8, <1>9
<1> QED BY <1>2, <1>10 DEF Bad

\* The sum depends on the terms only.
LEMMA SumEqual ==
  ASSUME NEW S, IsFiniteSet(S), NEW f, NEW g,
         \A x \in S : f[x] \in Int /\ g[x] = f[x]
  PROVE  SumOver(f, S) = SumOver(g, S)
<1>1. SumOver(f, S) <= SumOver(g, S) /\ SumOver(g, S) <= SumOver(f, S)
  BY SumLeq
<1>2. SumOver(f, S) \in Int /\ SumOver(g, S) \in Int
  BY SumInt
<1> QED BY <1>1, <1>2

\* A sum to which at most one term contributes is that term.
LEMMA SumOne ==
  ASSUME NEW S, IsFiniteSet(S), NEW f, NEW y \in S, f[y] \in Int,
         \A x \in S \ {y} : f[x] = 0
  PROVE  SumOver(f, S) = f[y]
<1>1. ASSUME NEW T \in SUBSET S, \A x \in T : f[x] = 0 PROVE SumOver(f, T) = 0
  <2> DEFINE z == [x \in T |-> 0]
             Bad == {s \in SUBSET T : SumOver(f, s) # 0}
  <2>1. SUFFICES ASSUME Bad # {} PROVE FALSE
    OBVIOUS
  <2>2. IsFiniteSet(T)
    BY FS_Subset
  <2>3. PICK s \in Bad : \A t \in Bad : t \subseteq s => t = s
    <3>1. Bad \subseteq SUBSET T
      OBVIOUS
    <3> HIDE DEF Bad
    <3> QED BY <2>1, <2>2, <3>1, SmallestMember
  <2>4. IsFiniteSet(s) /\ s # {}
    BY <2>2, <2>3, FS_Subset, SumUnfold
  <2>5. Pick(s) \in s /\ SumOver(f, s) = f[Pick(s)] + SumOver(f, s \ {Pick(s)})
    BY <2>4, PickIn, SumUnfold
  <2>6. SumOver(f, s \ {Pick(s)}) = 0
    BY <2>3, <2>5
  <2> QED BY <1>1, <2>3, <2>5, <2>6
<1>2. SumOver(f, S \ {y}) = 0
  BY <1>1
<1>3. SumOver(f, S) = f[y] + SumOver(f, S \ {y})
  BY SumAdd
<1> QED BY <1>2, <1>3

\* A sum whose terms are at most `a` on C, and not positive elsewhere, is at most
\* `a` for each element of C.
LEMMA SumBounded ==
  ASSUME NEW S, IsFiniteSet(S), NEW C, C \subseteq S, NEW a \in Nat, NEW f,
         \A x \in S : /\ f[x] \in Int
                      /\ x \in C => f[x] <= a
                      /\ x \notin C => f[x] <= 0
  PROVE  SumOver(f, S) <= a * Cardinality(C)
<1> DEFINE Within(s) == SumOver(f, s) <= a * Cardinality(C \cap s)
           Bad == {s \in SUBSET S : ~Within(s)}
<1>1. SUFFICES ASSUME Bad # {} PROVE FALSE
  <2>1. C \cap S = C /\ S \in SUBSET S
    OBVIOUS
  <2> QED BY <2>1
<1>2. PICK s \in Bad : \A t \in Bad : t \subseteq s => t = s
  <2>1. Bad \subseteq SUBSET S
    OBVIOUS
  <2> HIDE DEF Bad
  <2> QED BY <1>1, <2>1, SmallestMember
<1>3. s # {}
  <2>1. ASSUME s = {} PROVE Within(s)
    <3>1. SumOver(f, s) = 0
      BY <2>1, SumEmpty, Zenon
    <3>2. C \cap s = {}
      BY <2>1
    <3>3. Cardinality(C \cap s) = 0
      BY <3>2, FS_EmptySet
    <3> QED BY <3>1, <3>3
  <2> QED BY <1>2, <2>1
<1>4. PICK x \in s : TRUE
  BY <1>3
<1> DEFINE r == s \ {x}
<1>5. IsFiniteSet(s) /\ r \in SUBSET S /\ r # s /\ r \subseteq s /\ IsFiniteSet(r)
      /\ IsFiniteSet(C \cap s) /\ IsFiniteSet(C \cap r)
  BY <1>2, <1>4, FS_Subset
<1>6. SumOver(f, s) = f[x] + SumOver(f, r) /\ SumOver(f, r) \in Int
  BY <1>2, <1>4, <1>5, SumAdd, SumInt
<1>7. SumOver(f, r) <= a * Cardinality(C \cap r)
  BY <1>2, <1>5
<1>8. /\ f[x] \in Int
      /\ x \in C => f[x] <= a
      /\ x \notin C => f[x] <= 0
  BY <1>2, <1>4
<1>9. Cardinality(C \cap r) = IF x \in C THEN Cardinality(C \cap s) - 1
                                       ELSE Cardinality(C \cap s)
  <2>1. C \cap r = (C \cap s) \ {x}
    OBVIOUS
  <2>2. x \in C \cap s <=> x \in C
    BY <1>4
  <2> DEFINE q == C \cap s
  <2>3. IsFiniteSet(q)
    BY <1>5
  <2> HIDE DEF r, q
  <2>4. Cardinality(q \ {x}) = IF x \in q THEN Cardinality(q) - 1 ELSE Cardinality(q)
    BY <2>3, FS_RemoveElement
  <2> QED BY <2>1, <2>2, <2>4 DEF q
<1>10. Cardinality(C \cap s) \in Nat /\ Cardinality(C \cap r) \in Nat
  BY <1>5, FS_CardinalityType
<1> HIDE DEF Bad, r
<1>11. Within(s)
  <2>1. CASE x \in C
    <3>1. a * Cardinality(C \cap s) = a * Cardinality(C \cap r) + a
      BY <1>9, <1>10, <2>1
    <3>2. a * Cardinality(C \cap r) \in Int
      BY <1>10
    <3> QED BY <1>6, <1>7, <1>8, <2>1, <3>1, <3>2
  <2>2. CASE x \notin C
    <3>1. a * Cardinality(C \cap r) \in Int
      BY <1>10
    <3> QED BY <1>6, <1>7, <1>8, <1>9, <2>2, <3>1
  <2> QED BY <2>1, <2>2
<1> QED BY <1>2, <1>11 DEF Bad

\* The sum of term-wise sums is the sum of the sums.
LEMMA SumPlus ==
  ASSUME NEW S, IsFiniteSet(S), NEW f, NEW g, NEW h,
         \A x \in S : f[x] \in Int /\ g[x] \in Int /\ h[x] = f[x] + g[x]
  PROVE  SumOver(h, S) = SumOver(f, S) + SumOver(g, S)
<1> DEFINE Right(s) == SumOver(h, s) = SumOver(f, s) + SumOver(g, s)
           Bad == {s \in SUBSET S : ~Right(s)}
<1>1. SUFFICES ASSUME Bad # {} PROVE FALSE
  OBVIOUS
<1>2. PICK s \in Bad : \A t \in Bad : t \subseteq s => t = s
  <2>1. Bad \subseteq SUBSET S
    OBVIOUS
  <2> HIDE DEF Bad
  <2> QED BY <1>1, <2>1, SmallestMember
<1>3. s # {}
  <2>1. ASSUME s = {} PROVE SumOver(f, s) = 0 /\ SumOver(g, s) = 0 /\ SumOver(h, s) = 0
    BY <2>1, SumEmpty, Zenon
  <2> QED BY <1>2, <2>1
<1>4. PICK x \in s : TRUE
  BY <1>3
<1>5. IsFiniteSet(s) /\ IsFiniteSet(s \ {x}) /\ s \ {x} \in SUBSET S /\ s \in SUBSET S
  BY <1>2, FS_Subset
<1>6. \A y \in s : f[y] \in Int /\ g[y] \in Int /\ h[y] \in Int /\ h[y] = f[y] + g[y]
  BY <1>5
<1>7. /\ SumOver(f, s) = f[x] + SumOver(f, s \ {x})
      /\ SumOver(g, s) = g[x] + SumOver(g, s \ {x})
      /\ SumOver(h, s) = h[x] + SumOver(h, s \ {x})
  BY <1>4, <1>5, <1>6, SumAdd
<1>8. SumOver(f, s \ {x}) \in Int /\ SumOver(g, s \ {x}) \in Int
  BY <1>5, <1>6, SumInt
<1>9. SumOver(h, s \ {x}) = SumOver(f, s \ {x}) + SumOver(g, s \ {x})
  BY <1>2, <1>4, <1>5
<1> HIDE DEF Bad
<1>10. SumOver(h, s) = SumOver(f, s) + SumOver(g, s)
  BY <1>4, <1>6, <1>7, <1>8, <1>9
<1> QED BY <1>2, <1>10 DEF Bad

\* One term that changes changes the sum by as much.
LEMMA SumChange ==
  ASSUME NEW S, IsFiniteSet(S), NEW f, NEW g, NEW y \in S,
         \A x \in S : f[x] \in Int /\ g[x] \in Int,
         \A x \in S \ {y} : g[x] = f[x]
  PROVE  SumOver(g, S) = SumOver(f, S) - f[y] + g[y]
<1>1. /\ SumOver(f, S) = f[y] + SumOver(f, S \ {y})
      /\ SumOver(g, S) = g[y] + SumOver(g, S \ {y})
  BY SumAdd
<1>2. IsFiniteSet(S \ {y}) /\ \A x \in S \ {y} : f[x] \in Int /\ g[x] = f[x]
  BY FS_RemoveElement
<1>3. SumOver(f, S \ {y}) = SumOver(g, S \ {y}) /\ SumOver(f, S \ {y}) \in Int
  BY <1>2, SumEqual, SumInt
<1> QED BY <1>1, <1>3

\* Zeros add up to zero.
LEMMA SumZero ==
  ASSUME NEW S, IsFiniteSet(S), NEW z, \A x \in S : z[x] = 0
  PROVE  SumOver(z, S) = 0
<1>1. SumOver(z, S) \in Int
  BY SumInt
<1>2. \A x \in S : z[x] \in Int /\ z[x] = z[x] + z[x]
  OBVIOUS
<1>3. SumOver(z, S) = SumOver(z, S) + SumOver(z, S)
  BY <1>2, SumPlus
<1>4. \A n \in Int : n = n + n => n = 0
  OBVIOUS
<1> QED BY <1>1, <1>3, <1>4

\* A sum of natural numbers is a natural number.
LEMMA SumNat ==
  ASSUME NEW S, IsFiniteSet(S), NEW f, \A x \in S : f[x] \in Nat
  PROVE  SumOver(f, S) \in Nat
<1> DEFINE z == [x \in S |-> 0]
<1>1. \A x \in S : z[x] \in Int /\ z[x] = 0 /\ f[x] \in Int /\ z[x] <= f[x]
  OBVIOUS
<1> HIDE DEF z
<1>2. SumOver(z, S) = 0
  BY <1>1, SumZero
<1>3. SumOver(z, S) <= SumOver(f, S)
  BY <1>1, SumLeq
<1>4. SumOver(f, S) \in Int
  BY <1>1, SumInt
<1> QED BY <1>2, <1>3, <1>4

\* Terms that are zero do not count.
LEMMA SumWhere ==
  ASSUME NEW S, IsFiniteSet(S), NEW T \in SUBSET S, NEW f, \A x \in S : f[x] \in Int,
         \A x \in S \ T : f[x] = 0
  PROVE  SumOver(f, S) = SumOver(f, T)
<1> DEFINE Bad == {s \in SUBSET S : SumOver(f, s) # SumOver(f, s \cap T)}
<1>1. SUFFICES ASSUME Bad # {} PROVE FALSE
  <2>1. S \cap T = T /\ S \in SUBSET S
    OBVIOUS
  <2> QED BY <2>1
<1>2. PICK s \in Bad : \A t \in Bad : t \subseteq s => t = s
  <2>1. Bad \subseteq SUBSET S
    OBVIOUS
  <2> HIDE DEF Bad
  <2> QED BY <1>1, <2>1, SmallestMember
<1>3. PICK x \in s : x \notin T
  <2>1. s \cap T # s
    BY <1>2
  <2> QED BY <2>1
<1> DEFINE r == s \ {x}
<1>4. IsFiniteSet(s) /\ r \in SUBSET S /\ r \subseteq s /\ r # s /\ r \cap T = s \cap T
      /\ s \in SUBSET S
  BY <1>2, <1>3, FS_Subset
<1>5. SumOver(f, r) = SumOver(f, s \cap T)
  BY <1>2, <1>4
<1>6. f[x] = 0 /\ \A y \in s : f[y] \in Int
  BY <1>3, <1>4
<1>7. SumOver(f, s) = f[x] + SumOver(f, r)
  BY <1>3, <1>4, <1>6, SumAdd
<1>8. SumOver(f, r) \in Int
  <2>1. IsFiniteSet(r) /\ \A y \in r : f[y] \in Int
    BY <1>4, <1>6, FS_Subset
  <2> HIDE DEF r
  <2> QED BY <2>1, SumInt
<1> HIDE DEF r
<1>9. SumOver(f, s) = SumOver(f, s \cap T)
  BY <1>5, <1>6, <1>7, <1>8
<1> QED BY <1>2, <1>9

\* The sum over a part is no more than the sum over the whole.
LEMMA SumPart ==
  ASSUME NEW S, IsFiniteSet(S), NEW T \in SUBSET S, NEW f, \A x \in S : f[x] \in Nat
  PROVE  SumOver(f, T) <= SumOver(f, S)
<1> DEFINE g == [x \in S |-> IF x \in T THEN f[x] ELSE 0]
<1>1. \A x \in S : g[x] \in Int /\ f[x] \in Int /\ g[x] <= f[x]
  OBVIOUS
<1>2. \A x \in S \ T : g[x] = 0
  OBVIOUS
<1>3. \A x \in T : g[x] \in Int /\ f[x] = g[x]
  OBVIOUS
<1> HIDE DEF g
<1>4. SumOver(g, S) <= SumOver(f, S)
  BY <1>1, SumLeq
<1>5. SumOver(g, S) = SumOver(g, T)
  BY <1>1, <1>2, SumWhere
<1>6. SumOver(g, T) = SumOver(f, T)
  <2>1. IsFiniteSet(T)
    BY FS_Subset
  <2> QED BY <1>3, <2>1, SumEqual
<1> QED BY <1>4, <1>5, <1>6

\* Ones add up to their number.
LEMMA SumOnes ==
  ASSUME NEW S, IsFiniteSet(S), NEW f, \A x \in S : f[x] = 1
  PROVE  SumOver(f, S) = Cardinality(S)
<1> DEFINE Bad == {s \in SUBSET S : SumOver(f, s) # Cardinality(s)}
<1>1. SUFFICES ASSUME Bad # {} PROVE FALSE
  OBVIOUS
<1>2. PICK s \in Bad : \A t \in Bad : t \subseteq s => t = s
  <2>1. Bad \subseteq SUBSET S
    OBVIOUS
  <2> HIDE DEF Bad
  <2> QED BY <1>1, <2>1, SmallestMember
<1>3. s # {}
  <2>1. ASSUME s = {} PROVE SumOver(f, s) = 0 /\ Cardinality(s) = 0
    BY <2>1, SumEmpty, FS_EmptySet, Zenon
  <2> QED BY <1>2, <2>1
<1>4. PICK x \in s : TRUE
  BY <1>3
<1> DEFINE r == s \ {x}
<1>5. IsFiniteSet(s) /\ r \in SUBSET S /\ r \subseteq s /\ r # s /\ IsFiniteSet(r)
  BY <1>2, <1>4, FS_Subset
<1>6. SumOver(f, r) = Cardinality(r)
  BY <1>2, <1>5
<1>7. f[x] = 1 /\ \A y \in s : f[y] \in Int
  BY <1>2, <1>4
<1>8. SumOver(f, s) = f[x] + SumOver(f, r)
  BY <1>4, <1>5, <1>7, SumAdd
<1>9. Cardinality(r) = Cardinality(s) - 1 /\ Cardinality(s) \in Nat
  BY <1>4, <1>5, FS_RemoveElement, FS_CardinalityType
<1> HIDE DEF r, Bad
<1>10. SumOver(f, s) = Cardinality(s)
  BY <1>6, <1>7, <1>8, <1>9
<1> QED BY <1>2, <1>10 DEF Bad

\* A sum over what one set is named in another: each name h[x] stands for one x.
LEMMA SumNamed ==
  ASSUME NEW S, IsFiniteSet(S), NEW f, \A x \in S : f[x] \in Int,
         NEW T, IsFiniteSet(T), NEW g, NEW h,
         \A x \in S : h[x] \in T /\ g[h[x]] = f[x],
         \A x, y \in S : h[x] = h[y] => x = y,
         \A z \in T : \E x \in S : h[x] = z
  PROVE  SumOver(f, S) = SumOver(g, T)
<1> DEFINE Names(s) == {h[x] : x \in s}
           Bad == {s \in SUBSET S : SumOver(f, s) # SumOver(g, Names(s))}
<1>1. SUFFICES ASSUME Bad # {} PROVE FALSE
  <2>1. Names(S) = T /\ S \in SUBSET S
    OBVIOUS
  <2> QED BY <2>1
<1>2. PICK s \in Bad : \A t \in Bad : t \subseteq s => t = s
  <2>1. Bad \subseteq SUBSET S
    OBVIOUS
  <2> HIDE DEF Bad
  <2> QED BY <1>1, <2>1, SmallestMember
<1>3. s # {}
  <2>1. ASSUME s = {} PROVE SumOver(f, s) = 0 /\ SumOver(g, Names(s)) = 0
    <3>1. Names(s) = {}
      BY <2>1
    <3> QED BY <2>1, <3>1, SumEmpty, Zenon
  <2> QED BY <1>2, <2>1
<1>4. PICK x \in s : TRUE
  BY <1>3
<1> DEFINE r == s \ {x}
<1>5. s \in SUBSET S /\ IsFiniteSet(s) /\ r \in SUBSET S /\ r \subseteq s /\ r # s /\ IsFiniteSet(r)
  BY <1>2, <1>4, FS_Subset
<1>6. SumOver(f, r) = SumOver(g, Names(r))
  BY <1>2, <1>5
<1>7. SumOver(f, s) = f[x] + SumOver(f, r)
  BY <1>4, <1>5, SumAdd
<1>8. Names(s) \in SUBSET T /\ h[x] \in Names(s) /\ Names(s) \ {h[x]} = Names(r) /\ g[h[x]] = f[x]
  BY <1>4, <1>5
<1>9. \A z \in T : g[z] \in Int
  OBVIOUS
<1>10. SumOver(g, Names(s)) = g[h[x]] + SumOver(g, Names(r))
  <2> DEFINE N == Names(s)
  <2>1. IsFiniteSet(N) /\ h[x] \in N /\ N \ {h[x]} = Names(r) /\ \A z \in N : g[z] \in Int
    BY <1>8, <1>9, FS_Subset
  <2> HIDE DEF N, Names
  <2>2. SumOver(g, N) = g[h[x]] + SumOver(g, N \ {h[x]})
    BY <2>1, SumAdd
  <2> QED BY <2>1, <2>2 DEF N
<1> HIDE DEF Names, r
<1>11. SumOver(f, s) = SumOver(g, Names(s))
  BY <1>6, <1>7, <1>8, <1>10
<1> QED BY <1>2, <1>11

\* Terms may be added up group by group.
LEMMA SumGroups ==
  ASSUME NEW S, IsFiniteSet(S), NEW f, \A x \in S : f[x] \in Int,
         NEW T, IsFiniteSet(T), NEW h, \A x \in S : h[x] \in T
  PROVE  SumOver(f, S) = SumOver([z \in T |-> SumOver(f, {x \in S : h[x] = z})], T)
<1> DEFINE Group(s, z) == {x \in s : h[x] = z}
           By(s) == [z \in T |-> SumOver(f, Group(s, z))]
           Bad == {s \in SUBSET S : SumOver(f, s) # SumOver(By(s), T)}
<1>1. SUFFICES ASSUME Bad # {} PROVE FALSE
  <2>1. S \in SUBSET S
    OBVIOUS
  <2> QED BY <2>1
<1>2. PICK s \in Bad : \A t \in Bad : t \subseteq s => t = s
  <2>1. Bad \subseteq SUBSET S
    OBVIOUS
  <2> HIDE DEF Bad
  <2> QED BY <1>1, <2>1, SmallestMember
<1>3. s # {}
  <2>1. ASSUME s = {} PROVE SumOver(f, s) = 0 /\ SumOver(By(s), T) = 0
    <3>1. \A z \in T : Group(s, z) = {}
      BY <2>1
    <3>2. \A z \in T : By(s)[z] = 0
      <4> HIDE DEF Group
      <4> QED BY <3>1, SumEmpty
    <3> HIDE DEF By
    <3> QED BY <2>1, <3>2, SumEmpty, SumZero, Zenon
  <2> QED BY <1>2, <2>1
<1>4. PICK x \in s : TRUE
  BY <1>3
<1> DEFINE r == s \ {x}
<1>5. /\ s \in SUBSET S /\ IsFiniteSet(s) /\ r \in SUBSET S /\ r \subseteq s /\ r # s
      /\ x \in S /\ h[x] \in T
  BY <1>2, <1>4, FS_Subset
<1>6. SumOver(f, r) = SumOver(By(r), T)
  BY <1>2, <1>5
<1>7. SumOver(f, s) = f[x] + SumOver(f, r)
  BY <1>4, <1>5, SumAdd
<1>8. \A t \in SUBSET S, z \in T : SumOver(f, Group(t, z)) \in Int
  <2> TAKE t \in SUBSET S, z \in T
  <2>1. Group(t, z) \in SUBSET S
    OBVIOUS
  <2> HIDE DEF Group
  <2>2. IsFiniteSet(Group(t, z)) /\ \A y \in Group(t, z) : f[y] \in Int
    BY <2>1, FS_Subset
  <2> QED BY <2>2, SumInt
<1>9. \A z \in T : By(s)[z] \in Int /\ By(r)[z] \in Int
  <2> HIDE DEF Group, r
  <2> QED BY <1>5, <1>8
<1>10. \A z \in T \ {h[x]} : By(s)[z] = By(r)[z]
  <2>1. \A z \in T \ {h[x]} : Group(s, z) = Group(r, z)
    BY <1>4
  <2> HIDE DEF Group, r
  <2> QED BY <2>1
<1>11. By(s)[h[x]] = f[x] + By(r)[h[x]]
  <2> DEFINE G == Group(s, h[x])
  <2>1. x \in G /\ G \ {x} = Group(r, h[x]) /\ G \in SUBSET S
    BY <1>4, <1>5
  <2> HIDE DEF Group, r, G
  <2>2. IsFiniteSet(G) /\ \A y \in G : f[y] \in Int
    BY <2>1, FS_Subset
  <2>3. SumOver(f, G) = f[x] + SumOver(f, G \ {x})
    BY <2>1, <2>2, SumAdd
  <2> QED BY <1>5, <2>1, <2>3 DEF G
<1> DEFINE u == By(s)
           w == By(r)
<1> HIDE DEF By
<1>12. SumOver(u, T) = SumOver(w, T) - w[h[x]] + u[h[x]]
  <2> HIDE DEF u, w
  <2>1. \A z \in T : w[z] \in Int /\ u[z] \in Int
    BY <1>9 DEF u, w
  <2>2. PICK k \in T : k = h[x]
    BY <1>5
  <2>3. \A z \in T \ {k} : u[z] = w[z]
    BY <1>10, <2>2 DEF u, w
  <2>4. SumOver(u, T) = SumOver(w, T) - w[k] + u[k]
    BY <2>1, <2>3, SumChange
  <2> QED BY <2>2, <2>4
<1>13. SumOver(w, T) \in Int
  <2> HIDE DEF u, w
  <2>1. \A z \in T : w[z] \in Int
    BY <1>9 DEF w
  <2> QED BY <2>1, SumInt
<1>14. u[h[x]] = f[x] + w[h[x]] /\ u[h[x]] \in Int /\ w[h[x]] \in Int /\ f[x] \in Int
  BY <1>5, <1>9, <1>11
<1> HIDE DEF r
<1>15. SumOver(f, s) = SumOver(u, T)
  <2>1. SumOver(f, s) = f[x] + SumOver(w, T)
    BY <1>6, <1>7
  <2> HIDE DEF u, w
  <2> QED BY <1>12, <1>13, <1>14, <2>1
<1> QED BY <1>2, <1>15

\* Functions that agree on a set have one sum over it.
LEMMA SumSame ==
  ASSUME NEW S, IsFiniteSet(S), NEW f, NEW g, \A x \in S : f[x] = g[x]
  PROVE  SumOver(f, S) = SumOver(g, S)
<1> DEFINE Bad == {s \in SUBSET S : SumOver(f, s) # SumOver(g, s)}
<1>1. SUFFICES ASSUME Bad # {} PROVE FALSE
  OBVIOUS
<1>2. PICK s \in Bad : \A t \in Bad : t \subseteq s => t = s
  <2>1. Bad \subseteq SUBSET S
    OBVIOUS
  <2> HIDE DEF Bad
  <2> QED BY <1>1, <2>1, SmallestMember
<1>3. IsFiniteSet(s) /\ s # {}
  BY <1>2, FS_Subset, SumUnfold
<1>4. /\ Pick(s) \in s
      /\ SumOver(f, s) = f[Pick(s)] + SumOver(f, s \ {Pick(s)})
      /\ SumOver(g, s) = g[Pick(s)] + SumOver(g, s \ {Pick(s)})
  BY <1>3, PickIn, SumUnfold
<1>5. SumOver(f, s \ {Pick(s)}) = SumOver(g, s \ {Pick(s)})
  BY <1>2, <1>4
<1>6. f[Pick(s)] = g[Pick(s)]
  BY <1>2, <1>4
<1> QED BY <1>2, <1>4, <1>5, <1>6

\* A common factor may be taken out.
LEMMA SumTimes ==
  ASSUME NEW S, IsFiniteSet(S), NEW a \in Int, NEW f, NEW h,
         \A x \in S : f[x] \in Int /\ h[x] = a * f[x]
  PROVE  SumOver(h, S) = a * SumOver(f, S)
<1> DEFINE Right(s) == SumOver(h, s) = a * SumOver(f, s)
           Bad == {s \in SUBSET S : ~Right(s)}
<1>1. SUFFICES ASSUME Bad # {} PROVE FALSE
  OBVIOUS
<1>2. PICK s \in Bad : \A t \in Bad : t \subseteq s => t = s
  <2>1. Bad \subseteq SUBSET S
    OBVIOUS
  <2> HIDE DEF Bad
  <2> QED BY <1>1, <2>1, SmallestMember
<1>3. s # {}
  <2>1. ASSUME s = {} PROVE SumOver(f, s) = 0 /\ SumOver(h, s) = 0
    BY <2>1, SumEmpty, Zenon
  <2>2. a * 0 = 0
    OBVIOUS
  <2> QED BY <1>2, <2>1, <2>2
<1>4. PICK x \in s : TRUE
  BY <1>3
<1>5. IsFiniteSet(s) /\ IsFiniteSet(s \ {x}) /\ s \ {x} \in SUBSET S /\ s \in SUBSET S
  BY <1>2, FS_Subset
<1>6. \A y \in s : f[y] \in Int /\ h[y] \in Int /\ h[y] = a * f[y]
  BY <1>5
<1>7. /\ SumOver(f, s) = f[x] + SumOver(f, s \ {x})
      /\ SumOver(h, s) = h[x] + SumOver(h, s \ {x})
  BY <1>4, <1>5, <1>6, SumAdd
<1>8. SumOver(f, s \ {x}) \in Int
  BY <1>5, <1>6, SumInt
<1>9. SumOver(h, s \ {x}) = a * SumOver(f, s \ {x})
  BY <1>2, <1>4, <1>5
<1> HIDE DEF Bad
<1>10. SumOver(h, s) = a * SumOver(f, s)
  <2>1. \A u, v \in Int : a * u + a * v = a * (u + v)
    OBVIOUS
  <2> QED BY <1>4, <1>6, <1>7, <1>8, <1>9, <2>1
<1> QED BY <1>2, <1>10 DEF Bad

\* A bound of each term, a common factor and a constant, is one of the sum.
LEMMA SumScaled ==
  ASSUME NEW S, IsFiniteSet(S), NEW a \in Int, NEW b \in Int, NEW c \in Int, NEW f, NEW g,
         \A x \in S : f[x] \in Int /\ g[x] \in Int /\ a * f[x] <= b * g[x] + c
  PROVE  a * SumOver(f, S) <= b * SumOver(g, S) + c * Cardinality(S)
<1> DEFINE af == [x \in S |-> a * f[x]]
           bg == [x \in S |-> b * g[x]]
           one == [x \in S |-> 1]
           cs == [x \in S |-> c * one[x]]
           bound == [x \in S |-> bg[x] + cs[x]]
<1>1. \A x \in S : /\ f[x] \in Int /\ g[x] \in Int /\ one[x] = 1
                   /\ af[x] \in Int /\ bg[x] \in Int /\ cs[x] \in Int /\ bound[x] \in Int
                   /\ af[x] = a * f[x] /\ bg[x] = b * g[x] /\ cs[x] = c * one[x]
                   /\ bound[x] = bg[x] + cs[x] /\ af[x] <= bound[x]
  OBVIOUS
<1> HIDE DEF af, bg, one, cs, bound
<1>2. SumOver(af, S) = a * SumOver(f, S) /\ SumOver(bg, S) = b * SumOver(g, S)
  BY <1>1, SumTimes
<1>3. SumOver(cs, S) = c * Cardinality(S)
  <2>1. SumOver(one, S) = Cardinality(S)
    BY <1>1, SumOnes
  <2>2. SumOver(cs, S) = c * SumOver(one, S)
    BY <1>1, SumTimes
  <2> QED BY <2>1, <2>2
<1>4. SumOver(bound, S) = SumOver(bg, S) + SumOver(cs, S)
  BY <1>1, SumPlus
<1>5. SumOver(af, S) <= SumOver(bound, S)
  BY <1>1, SumLeq
<1> QED BY <1>2, <1>3, <1>4, <1>5

-----------------------------------------------------------------------------

\* Sums of the community modules are the sums of this one.
LEMMA FunctionOnSetSum ==
  ASSUME NEW S, IsFiniteSet(S), NEW f PROVE SumFunctionOnSet(f, S) = SumOver(f, S)
<1> DEFINE
      Body(iter) == [s \in SUBSET S |->
                       IF s = {} THEN 0
                       ELSE f[CHOOSE x \in s : TRUE] + iter[s \ {CHOOSE x \in s : TRUE}]]
      fold == CHOOSE iter : iter = Body(iter)
<1>1. SumFunctionOnSet(f, S) = fold[S]
  BY DEF SumFunctionOnSet, FoldFunctionOnSet, MapThenFoldSet
<1>2. \A g : g = Body(g) <=> Sums(g, f, S)
  BY DEF Sums, Pick
<1>3. fold = Body(fold)
  <2>1. \E g : g = Body(g)
    <3>1. PICK g : Sums(g, f, S)
      BY SumsExist
    <3> HIDE DEF Body
    <3> QED BY <1>2, <3>1
  <2> HIDE DEF Body
  <2> QED BY <2>1
<1> HIDE DEF fold, Body
<1>4. Sums(fold, f, S)
  BY <1>2, <1>3
<1> QED BY <1>1, <1>4, SumsGive

LEMMA FunctionSum ==
  ASSUME NEW f, IsFiniteSet(DOMAIN f) PROVE SumFunction(f) = SumOver(f, DOMAIN f)
BY FunctionOnSetSum DEF SumFunction
=============================================================================
