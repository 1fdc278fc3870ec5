------------------------------ MODULE Induction ------------------------------
(***************************************************************************)
(* Induction over numbers and finite sets, as facts about sets: what holds *)
(* of all numbers is a set that holds nought and the next of each.  From   *)
(* it, what a fold over a finite set comes to, and what a sum is of a set, *)
(* whatever the order its elements are chosen in.                          *)
(***************************************************************************)
EXTENDS Integers, FiniteSets, Functions, FiniteSetTheorems, WellFoundedInduction, TLAPS

-----------------------------------------------------------------------------
\* A set of natural numbers has a least, unless it is empty.
LEMMA LeastNumber ==
    ASSUME NEW T \in SUBSET Nat, T # {}
    PROVE  \E x \in T : \A y \in T : x <= y
<1> DEFINE R == {s \in Nat \X Nat : s[1] < s[2]}
<1>1. IsWellFoundedOn(R, Nat)
    BY NatLessThanWellFounded DEF OpToRel
<1>2. PICK x \in T : \A y \in T : ~(<<y, x>> \in R)
    <2> HIDE DEF R
    <2> QED  BY <1>1, WFMin
<1>3. ASSUME NEW y \in T
      PROVE  x <= y
    <2>1. ~(<<y, x>> \in R) /\ x \in Nat /\ y \in Nat
        BY <1>2
    <2>2. ~(y < x)
        BY <2>1
    <2> QED  BY <2>1, <2>2
<1> QED  BY <1>3

\* A set that holds nought, and with every number the next, holds all.
LEMMA NumbersInduction ==
    ASSUME NEW T, 0 \in T, \A n \in Nat : n \in T => n + 1 \in T
    PROVE  Nat \subseteq T
<1> SUFFICES ASSUME Nat \ T # {} PROVE FALSE
    OBVIOUS
<1>1. PICK x \in Nat \ T : \A y \in Nat \ T : x <= y
    BY LeastNumber
<1>2. x # 0 /\ x - 1 \in Nat
    BY <1>1
<1>3. x - 1 \in T
    BY <1>1, <1>2
<1> QED  BY <1>1, <1>2, <1>3

\* A set of sets that holds each part of S of which it holds all but any one
\* element, holds every part of S.
LEMMA FiniteInduction ==
    ASSUME NEW S, IsFiniteSet(S), NEW T,
           \A A \in SUBSET S : (\A x \in A : A \ {x} \in T) => A \in T
    PROVE  SUBSET S \subseteq T
<1> DEFINE Sizes == {n \in Nat : \A A \in SUBSET S : Cardinality(A) = n => A \in T}
<1>1. \A A \in SUBSET S : IsFiniteSet(A) /\ Cardinality(A) \in Nat
    BY FS_Subset, FS_CardinalityType
<1>2. 0 \in Sizes
    BY <1>1, FS_EmptySet
<1>3. ASSUME NEW n \in Nat, n \in Sizes
      PROVE  n + 1 \in Sizes
    <2>1. ASSUME NEW A \in SUBSET S, Cardinality(A) = n + 1
          PROVE  A \in T
        <3>1. ASSUME NEW x \in A
              PROVE  A \ {x} \in T
            <4>1. IsFiniteSet(A)
                BY <1>1
            <4>2. Cardinality(A \ {x}) = Cardinality(A) - 1
                BY <3>1, <4>1, FS_RemoveElement
            <4> QED  BY <1>3, <2>1, <4>2
        <3> QED  BY <3>1
    <2> QED  BY <2>1
<1>4. Nat \subseteq Sizes
    <2> HIDE DEF Sizes
    <2> QED  BY <1>2, <1>3, NumbersInduction
<1> QED  BY <1>1, <1>4

-----------------------------------------------------------------------------
\* Folds.

\* What a fold over the parts of S is: from base, take what pick says of what is
\* left, and step.
FoldsOver(g, S, base, pick, step) ==
    g = [s \in SUBSET S |-> IF s = {} THEN base ELSE step[<<pick[s], g[s \ {pick[s]}]>>]]

\* There is such a function.
LEMMA FoldExists ==
    ASSUME NEW S, IsFiniteSet(S), NEW A, NEW base \in A,
           NEW pick, \A s \in SUBSET S : s # {} => pick[s] \in s,
           NEW step \in [S \X A -> A]
    PROVE  \E g \in [SUBSET S -> A] : FoldsOver(g, S, base, pick, step)
<1> DEFINE D(n) == {s \in SUBSET S : Cardinality(s) <= n}
           Next(g, s) == IF s = {} THEN base ELSE step[<<pick[s], g[s \ {pick[s]}]>>]
           Obeys(g, n) == g \in [D(n) -> A] /\ \A s \in D(n) : g[s] = Next(g, s)
           Depths == {n \in Nat : \E g : Obeys(g, n)}
<1>1. \A s \in SUBSET S : IsFiniteSet(s) /\ Cardinality(s) \in Nat /\ (Cardinality(s) = 0 <=> s = {})
    BY FS_Subset, FS_CardinalityType, FS_EmptySet
<1>2. ASSUME NEW n \in Nat, NEW s \in D(n + 1), s # {}
      PROVE  s \ {pick[s]} \in D(n) /\ pick[s] \in S
    <2>1. pick[s] \in s /\ IsFiniteSet(s)
        BY <1>1, <1>2
    <2>2. Cardinality(s \ {pick[s]}) = Cardinality(s) - 1
        BY <2>1, FS_RemoveElement
    <2> QED  BY <1>1, <1>2, <2>1, <2>2
<1>3. \E g : Obeys(g, 0)
    <2>1. \A s \in D(0) : s = {}
        BY <1>1
    <2>2. Obeys([s \in D(0) |-> base], 0)
        BY <2>1
    <2> QED  BY <2>2
<1>4. ASSUME NEW n \in Nat, \E g : Obeys(g, n)
      PROVE  \E g : Obeys(g, n + 1)
    <2>1. PICK g : Obeys(g, n)
        BY <1>4
    <2>2. PICK h : h = [s \in D(n + 1) |-> Next(g, s)]
        OBVIOUS
    <2>3. \A s \in D(n + 1) : Next(g, s) \in A
        BY <1>2, <2>1
    <2>4. h \in [D(n + 1) -> A]
        BY <2>2, <2>3
    <2>5. \A s \in D(n) : s \in D(n + 1) /\ h[s] = g[s]
        <3>1. \A s \in D(n) : s \in D(n + 1)
            BY <1>1
        <3>2. \A s \in D(n) : g[s] = Next(g, s)
            BY <2>1
        <3> HIDE DEF Next, D
        <3> QED  BY <2>2, <3>1, <3>2
    <2>6. \A s \in D(n + 1) : h[s] = Next(h, s)
        BY <1>2, <2>2, <2>5
    <2> QED  BY <2>4, <2>6
<1>5. Nat \subseteq Depths
    <2> HIDE DEF Obeys
    <2>1. 0 \in Depths
        BY <1>3
    <2>2. \A n \in Nat : n \in Depths => n + 1 \in Depths
        BY <1>4
    <2> HIDE DEF Depths
    <2> QED  BY <2>1, <2>2, NumbersInduction
<1>6. PICK n \in Nat : n = Cardinality(S)
    BY <1>1
<1>7. D(n) = SUBSET S
    BY <1>1, <1>6, FS_Subset
<1>8. PICK g : Obeys(g, n)
    BY <1>5, <1>6
<1>9. g \in [SUBSET S -> A] /\ \A s \in SUBSET S : g[s] = Next(g, s)
    BY <1>7, <1>8
<1>10. FoldsOver(g, S, base, pick, step)
    BY <1>9 DEF FoldsOver
<1> QED  BY <1>9, <1>10

-----------------------------------------------------------------------------
\* Sums.

AnyOf(s) == CHOOSE x \in s : TRUE

SumsOver(g, S, f) ==
    g = [s \in SUBSET S |-> IF s = {} THEN 0 ELSE f[AnyOf(s)] + g[s \ {AnyOf(s)}]]

\* Two sums agree on what is in both.
LEMMA SumsAgree ==
    ASSUME NEW S, IsFiniteSet(S), NEW f, NEW g, SumsOver(g, S, f),
           NEW R \in SUBSET S, NEW e, \A x \in R : e[x] = f[x], NEW h, SumsOver(h, R, e)
    PROVE  g[R] = h[R]
<1> DEFINE Same == {A \in SUBSET R : g[A] = h[A]}
<1>1. IsFiniteSet(R) /\ SUBSET R \subseteq SUBSET S
    BY FS_Subset
<1>2. /\ \A A \in SUBSET R : g[A] = IF A = {} THEN 0 ELSE f[AnyOf(A)] + g[A \ {AnyOf(A)}]
      /\ \A A \in SUBSET R : h[A] = IF A = {} THEN 0 ELSE e[AnyOf(A)] + h[A \ {AnyOf(A)}]
    BY <1>1 DEF SumsOver
<1>3. \A A \in SUBSET R : A # {} => AnyOf(A) \in A /\ AnyOf(A) \in R
    BY DEF AnyOf
<1>4. ASSUME NEW A \in SUBSET R, \A x \in A : A \ {x} \in Same
      PROVE  A \in Same
    BY <1>2, <1>3, <1>4
<1>5. SUBSET R \subseteq Same
    <2> HIDE DEF Same
    <2> QED  BY <1>1, <1>4, FiniteInduction
<1> QED  BY <1>5

\* The sum of numbers is what its definition says it is.
LEMMA SumObeys ==
    ASSUME NEW S, IsFiniteSet(S), NEW f, \A x \in S : f[x] \in Nat
    PROVE  \E g \in [SUBSET S -> Nat] : SumsOver(g, S, f) /\ SumFunctionOnSet(f, S) = g[S]
<1> DEFINE step == [p \in S \X Nat |-> f[p[1]] + p[2]]
           pick == [s \in SUBSET S |-> AnyOf(s)]
<1>1. \A s \in SUBSET S : s # {} => AnyOf(s) \in s /\ AnyOf(s) \in S
    BY DEF AnyOf
<1>2. step \in [S \X Nat -> Nat] /\ \A x \in S : \A m \in Nat : step[<<x, m>>] = f[x] + m
    OBVIOUS
<1>3. \A s \in SUBSET S : s # {} => pick[s] \in s
    BY <1>1
<1>4. PICK g \in [SUBSET S -> Nat] : FoldsOver(g, S, 0, pick, step)
    <2> HIDE DEF step, pick
    <2> QED  BY <1>2, <1>3, FoldExists
<1>5. SumsOver(g, S, f)
    <2>1. ASSUME NEW s \in SUBSET S
          PROVE  g[s] = IF s = {} THEN 0 ELSE f[AnyOf(s)] + g[s \ {AnyOf(s)}]
        <3>1. g[s] = IF s = {} THEN 0 ELSE step[<<pick[s], g[s \ {pick[s]}]>>]
            BY <1>4 DEF FoldsOver
        <3>2. pick[s] = AnyOf(s)
            OBVIOUS
        <3>3. g[s \ {AnyOf(s)}] \in Nat
            OBVIOUS
        <3> HIDE DEF step, pick
        <3> QED  BY <1>1, <1>2, <3>1, <3>2, <3>3
    <2> QED  BY <2>1 DEF SumsOver
<1> DEFINE it == CHOOSE h : SumsOver(h, S, f)
<1>6. SumsOver(it, S, f)
    BY <1>5
<1>7. SumFunctionOnSet(f, S) = it[S]
    BY DEF SumFunctionOnSet, FoldFunctionOnSet, MapThenFoldSet, SumsOver, AnyOf
<1>8. it[S] = g[S]
    <2> HIDE DEF it
    <2> QED  BY <1>5, <1>6, SumsAgree
<1> QED  BY <1>5, <1>7, <1>8

\* A sum is a number, and depends on nothing but what is summed.
LEMMA SumType ==
    ASSUME NEW S, IsFiniteSet(S), NEW f, \A x \in S : f[x] \in Nat
    PROVE  SumFunctionOnSet(f, S) \in Nat
<1>1. PICK g \in [SUBSET S -> Nat] : SumFunctionOnSet(f, S) = g[S]
    BY SumObeys
<1> QED  BY <1>1

LEMMA SumSame ==
    ASSUME NEW S, IsFiniteSet(S), NEW f, NEW e, \A x \in S : f[x] \in Nat /\ e[x] = f[x]
    PROVE  SumFunctionOnSet(f, S) = SumFunctionOnSet(e, S)
<1>1. PICK g \in [SUBSET S -> Nat] : SumsOver(g, S, f) /\ SumFunctionOnSet(f, S) = g[S]
    BY SumObeys
<1>2. PICK h \in [SUBSET S -> Nat] : SumsOver(h, S, e) /\ SumFunctionOnSet(e, S) = h[S]
    BY SumObeys
<1> QED  BY <1>1, <1>2, SumsAgree

LEMMA SumOfNone == \A f : SumFunctionOnSet(f, {}) = 0
<1> SUFFICES ASSUME NEW f PROVE SumFunctionOnSet(f, {}) = 0
    OBVIOUS
<1>1. PICK g \in [SUBSET {} -> Nat] : SumsOver(g, {}, f) /\ SumFunctionOnSet(f, {}) = g[{}]
    BY SumObeys, FS_EmptySet
<1> QED  BY <1>1 DEF SumsOver

\* Any element may be counted first.
LEMMA SumAny ==
    ASSUME NEW S, IsFiniteSet(S), NEW f, \A x \in S : f[x] \in Nat
    PROVE  \A x \in S : SumFunctionOnSet(f, S) = f[x] + SumFunctionOnSet(f, S \ {x})
<1> DEFINE Sum(A) == SumFunctionOnSet(f, A)
           Good == {A \in SUBSET S : \A x \in A : Sum(A) = f[x] + Sum(A \ {x})}
<1>1. \A A \in SUBSET S : IsFiniteSet(A) /\ Sum(A) \in Nat
    BY FS_Subset, SumType
<1>2. ASSUME NEW A \in SUBSET S, A # {}
      PROVE  AnyOf(A) \in A /\ Sum(A) = f[AnyOf(A)] + Sum(A \ {AnyOf(A)})
    <2>1. AnyOf(A) \in A
        BY <1>2 DEF AnyOf
    <2>2. PICK R : R = A \ {AnyOf(A)}
        OBVIOUS
    <2>3. IsFiniteSet(A) /\ IsFiniteSet(R) /\ R \in SUBSET A
        BY <1>1, <2>2
    <2>4. PICK g \in [SUBSET A -> Nat] : SumsOver(g, A, f) /\ Sum(A) = g[A]
        BY <1>1, SumObeys
    <2>5. PICK h \in [SUBSET R -> Nat] : SumsOver(h, R, f) /\ Sum(R) = h[R]
        BY <2>2, <2>3, SumObeys
    <2>6. g[R] = h[R]
        BY <2>3, <2>4, <2>5, SumsAgree
    <2>7. g[A] = f[AnyOf(A)] + g[R]
        BY <1>2, <2>2, <2>4 DEF SumsOver
    <2> QED  BY <2>1, <2>2, <2>4, <2>5, <2>6, <2>7
<1>3. ASSUME NEW A \in SUBSET S, \A x \in A : A \ {x} \in Good
      PROVE  A \in Good
    <2> SUFFICES ASSUME NEW x \in A PROVE Sum(A) = f[x] + Sum(A \ {x})
        OBVIOUS
    <2>1. PICK y : y = AnyOf(A)
        OBVIOUS
    <2>2. y \in A /\ Sum(A) = f[y] + Sum(A \ {y})
        BY <1>2, <2>1
    <2>3. CASE x = y
        BY <2>2, <2>3
    <2>4. CASE x # y
        <3>1. Sum(A \ {y}) = f[x] + Sum((A \ {y}) \ {x})
            BY <1>3, <2>2, <2>4
        <3>2. Sum(A \ {x}) = f[y] + Sum((A \ {x}) \ {y})
            BY <1>3, <2>2, <2>4
        <3>3. (A \ {x}) \ {y} = (A \ {y}) \ {x}
            OBVIOUS
        <3>4. PICK rest \in Nat : rest = Sum((A \ {y}) \ {x})
            BY <1>1
        <3>5. f[x] \in Nat /\ f[y] \in Nat
            BY <2>2
        <3> HIDE DEF Sum
        <3> QED  BY <2>2, <3>1, <3>2, <3>3, <3>4, <3>5
    <2> QED  BY <2>3, <2>4
<1>4. SUBSET S \subseteq Good
    <2> HIDE DEF Good
    <2> QED  BY <1>3, FiniteInduction
<1> QED  BY <1>4

LEMMA SumAdd ==
    ASSUME NEW S, IsFiniteSet(S), NEW x, x \notin S, NEW f, \A y \in S \cup {x} : f[y] \in Nat
    PROVE  SumFunctionOnSet(f, S \cup {x}) = SumFunctionOnSet(f, S) + f[x]
<1>1. IsFiniteSet(S \cup {x}) /\ (S \cup {x}) \ {x} = S
    BY FS_AddElement
<1>2. SumFunctionOnSet(f, S) \in Nat /\ f[x] \in Nat
    BY SumType
<1> QED  BY <1>1, <1>2, SumAny

\* What is in either is no more than what is in one and what is in the other, and
\* as much when nothing is in both.
LEMMA SumUnion ==
    ASSUME NEW S, IsFiniteSet(S), NEW R, IsFiniteSet(R), NEW f, \A x \in S \cup R : f[x] \in Nat
    PROVE  /\ SumFunctionOnSet(f, S \cup R) <= SumFunctionOnSet(f, S) + SumFunctionOnSet(f, R)
           /\ S \cap R = {} =>
                SumFunctionOnSet(f, S \cup R) = SumFunctionOnSet(f, S) + SumFunctionOnSet(f, R)
<1> DEFINE Sum(A) == SumFunctionOnSet(f, A)
           Good == {A \in SUBSET R : /\ Sum(S \cup A) <= Sum(S) + Sum(A)
                                     /\ S \cap A = {} => Sum(S \cup A) = Sum(S) + Sum(A)}
<1>1. \A A \in SUBSET R : /\ IsFiniteSet(A) /\ IsFiniteSet(S \cup A)
                          /\ Sum(A) \in Nat /\ Sum(S \cup A) \in Nat
    <2>1. \A A \in SUBSET R : IsFiniteSet(A) /\ IsFiniteSet(S \cup A)
        BY FS_Subset, FS_Union
    <2> QED  BY <2>1, SumType
<1>2. Sum(S) \in Nat
    BY SumType
<1>3. ASSUME NEW A \in SUBSET R, \A x \in A : A \ {x} \in Good
      PROVE  A \in Good
    <2>1. CASE A = {}
        BY <1>2, <2>1, SumOfNone
    <2>2. CASE A # {}
        <3>1. PICK x \in A : TRUE
            BY <2>2
        <3>2. PICK B : B = A \ {x}
            OBVIOUS
        <3>3. B \in Good /\ B \in SUBSET R /\ x \notin B /\ A = B \cup {x} /\ f[x] \in Nat
            BY <1>3, <3>1, <3>2
        <3>4. Sum(A) = Sum(B) + f[x]
            BY <1>1, <3>3, SumAdd
        <3>5. CASE x \in S
            <4>1. S \cup A = S \cup B
                BY <3>3, <3>5
            <4>2. Sum(S \cup B) \in Nat /\ Sum(B) \in Nat
                BY <1>1, <3>3
            <4>3. S \cap A # {} /\ Sum(S \cup B) <= Sum(S) + Sum(B)
                BY <3>1, <3>3, <3>5
            <4>4. Sum(S \cup A) = Sum(S \cup B)
                BY <4>1
            <4> HIDE DEF Sum
            <4> QED  BY <1>2, <3>3, <3>4, <4>2, <4>3, <4>4
        <3>6. CASE x \notin S
            <4>1. PICK C : C = S \cup B
                OBVIOUS
            <4>2. S \cup A = C \cup {x} /\ x \notin C /\ IsFiniteSet(C) /\ \A y \in C \cup {x} : f[y] \in Nat
                BY <1>1, <3>3, <3>6, <4>1
            <4>3. Sum(S \cup A) = Sum(C) + f[x]
                BY <4>2, SumAdd
            <4>4. Sum(C) \in Nat /\ Sum(B) \in Nat
                BY <1>1, <3>3, <4>1
            <4>5. /\ Sum(C) <= Sum(S) + Sum(B)
                  /\ S \cap A = {} => Sum(C) = Sum(S) + Sum(B)
                BY <3>3, <4>1
            <4> HIDE DEF Sum
            <4> QED  BY <1>2, <3>3, <3>4, <4>3, <4>4, <4>5
        <3> QED  BY <3>5, <3>6
    <2> QED  BY <2>1, <2>2
<1>4. SUBSET R \subseteq Good
    <2> HIDE DEF Good
    <2> QED  BY <1>3, FiniteInduction
<1> QED  BY <1>4

LEMMA SumMore ==
    ASSUME NEW R, IsFiniteSet(R), NEW S \in SUBSET R, NEW f, \A x \in R : f[x] \in Nat
    PROVE  SumFunctionOnSet(f, S) <= SumFunctionOnSet(f, R)
<1>1. PICK rest : rest = R \ S
    OBVIOUS
<1>2. /\ IsFiniteSet(S) /\ IsFiniteSet(rest) /\ S \cap rest = {} /\ S \cup rest = R
      /\ \A x \in S \cup rest : f[x] \in Nat
    BY <1>1, FS_Subset
<1>3. SumFunctionOnSet(f, R) = SumFunctionOnSet(f, S) + SumFunctionOnSet(f, rest)
    BY <1>2, SumUnion
<1>4. SumFunctionOnSet(f, S) \in Nat /\ SumFunctionOnSet(f, rest) \in Nat
    BY <1>2, SumType
<1> QED  BY <1>3, <1>4

\* The same of any number of sets.
LEMMA SumFamily ==
    ASSUME NEW I, IsFiniteSet(I), NEW J, \A i \in I : IsFiniteSet(J[i]),
           NEW f, \A i \in I : \A x \in J[i] : f[x] \in Nat,
           NEW sums, \A i \in I : sums[i] = SumFunctionOnSet(f, J[i])
    PROVE  /\ IsFiniteSet(UNION {J[i] : i \in I})
           /\ SumFunctionOnSet(f, UNION {J[i] : i \in I}) <= SumFunctionOnSet(sums, I)
           /\ (\A i, j \in I : i # j => J[i] \cap J[j] = {}) =>
                SumFunctionOnSet(f, UNION {J[i] : i \in I}) = SumFunctionOnSet(sums, I)
<1> DEFINE All(A) == UNION {J[i] : i \in A}
           Sum(A) == SumFunctionOnSet(f, All(A))
           Total(A) == SumFunctionOnSet(sums, A)
           Apart(A) == \A i, j \in A : i # j => J[i] \cap J[j] = {}
           Good == {A \in SUBSET I : /\ IsFiniteSet(All(A)) /\ Sum(A) <= Total(A)
                                     /\ Apart(A) => Sum(A) = Total(A)}
<1>1. \A i \in I : sums[i] \in Nat
    BY SumType
<1>2. \A A \in SUBSET I : IsFiniteSet(A) /\ Total(A) \in Nat
    BY <1>1, FS_Subset, SumType
<1>3. \A A \in SUBSET I : IsFiniteSet(All(A)) => Sum(A) \in Nat
    <2> SUFFICES ASSUME NEW A \in SUBSET I, IsFiniteSet(All(A)) PROVE Sum(A) \in Nat
        OBVIOUS
    <2>1. \A x \in All(A) : f[x] \in Nat
        OBVIOUS
    <2> QED  BY <2>1, SumType
<1>4. ASSUME NEW A \in SUBSET I, \A x \in A : A \ {x} \in Good
      PROVE  A \in Good
    <2>1. CASE A = {}
        <3>1. All(A) = {}
            BY <2>1
        <3> QED  BY <2>1, <3>1, SumOfNone, FS_EmptySet
    <2>2. CASE A # {}
        <3>1. PICK x \in A : TRUE
            BY <2>2
        <3>2. PICK B : B = A \ {x}
            OBVIOUS
        <3>3. B \in Good /\ B \in SUBSET I /\ x \notin B /\ A = B \cup {x} /\ x \in I
            BY <1>4, <3>1, <3>2
        <3>4. Total(A) = Total(B) + sums[x]
            BY <1>1, <1>2, <3>3, SumAdd
        <3>5. PICK S : S = All(B)
            OBVIOUS
        <3>6. PICK R : R = J[x]
            OBVIOUS
        <3>7. All(A) = S \cup R
            BY <3>3, <3>5, <3>6
        <3>8. IsFiniteSet(S) /\ IsFiniteSet(R) /\ \A y \in S \cup R : f[y] \in Nat
            BY <3>3, <3>5, <3>6
        <3>9. IsFiniteSet(All(A))
            <4>1. IsFiniteSet(S \cup R)
                BY <3>8, FS_Union
            <4> HIDE DEF All
            <4> QED  BY <3>7, <4>1
        <3>10. /\ Sum(A) <= Sum(B) + sums[x]
               /\ S \cap R = {} => Sum(A) = Sum(B) + sums[x]
            <4>1. sums[x] = SumFunctionOnSet(f, R)
                BY <3>3, <3>6
            <4>2. /\ SumFunctionOnSet(f, S \cup R) <= SumFunctionOnSet(f, S) + SumFunctionOnSet(f, R)
                  /\ S \cap R = {} =>
                       SumFunctionOnSet(f, S \cup R) = SumFunctionOnSet(f, S) + SumFunctionOnSet(f, R)
                BY <3>8, SumUnion
            <4> HIDE DEF All
            <4> QED  BY <3>5, <3>7, <4>1, <4>2
        <3>11. Apart(A) => Apart(B) /\ S \cap R = {}
            BY <3>3, <3>5, <3>6
        <3>12. Sum(B) \in Nat /\ Sum(A) \in Nat /\ Total(B) \in Nat /\ sums[x] \in Nat
            BY <1>1, <1>2, <1>3, <3>3, <3>5, <3>8, <3>9
        <3>13. Sum(B) <= Total(B) /\ (Apart(B) => Sum(B) = Total(B))
            BY <3>3
        <3>14. Sum(A) <= Total(A) /\ (Apart(A) => Sum(A) = Total(A))
            <4> HIDE DEF Sum, Total, Apart
            <4> QED  BY <3>4, <3>10, <3>11, <3>12, <3>13
        <3> QED  BY <3>9, <3>14
    <2> QED  BY <2>1, <2>2
<1>5. SUBSET I \subseteq Good
    <2> HIDE DEF Good
    <2> QED  BY <1>4, FiniteInduction
<1> QED  BY <1>5

\* What is no less, number by number, sums to no less.
LEMMA SumLess ==
    ASSUME NEW S, IsFiniteSet(S), NEW f, NEW e, \A x \in S : f[x] \in Nat /\ e[x] \in Nat /\ f[x] <= e[x]
    PROVE  SumFunctionOnSet(f, S) <= SumFunctionOnSet(e, S)
<1> DEFINE Less(A) == SumFunctionOnSet(f, A)
           More(A) == SumFunctionOnSet(e, A)
           Good == {A \in SUBSET S : Less(A) <= More(A)}
<1>1. \A A \in SUBSET S : IsFiniteSet(A) /\ Less(A) \in Nat /\ More(A) \in Nat
    BY FS_Subset, SumType
<1>2. ASSUME NEW A \in SUBSET S, \A x \in A : A \ {x} \in Good
      PROVE  A \in Good
    <2>1. CASE A = {}
        BY <2>1, SumOfNone
    <2>2. CASE A # {}
        <3>1. PICK x \in A : TRUE
            BY <2>2
        <3>2. PICK B : B = A \ {x}
            OBVIOUS
        <3>3. B \in Good /\ B \in SUBSET S
            BY <1>2, <3>1, <3>2
        <3>4. Less(A) = f[x] + Less(B) /\ More(A) = e[x] + More(B)
            BY <1>1, <3>1, <3>2, SumAny
        <3>5. Less(B) \in Nat /\ More(B) \in Nat /\ f[x] \in Nat /\ e[x] \in Nat /\ f[x] <= e[x]
            BY <1>1, <3>3
        <3>6. Less(B) <= More(B)
            BY <3>3
        <3>7. Less(A) <= More(A)
            <4> HIDE DEF Less, More
            <4> QED  BY <3>4, <3>5, <3>6
        <3> QED  BY <3>7
    <2> QED  BY <2>1, <2>2
<1>3. SUBSET S \subseteq Good
    <2> HIDE DEF Good
    <2> QED  BY <1>2, FiniteInduction
<1> QED  BY <1>3

\* A sum of numbers that have been cut at a limit, when it is cut there, is what
\* the sum of the numbers is when cut.
LEMMA SumOfCut ==
    ASSUME NEW S, IsFiniteSet(S), NEW limit \in Nat, NEW f, \A x \in S : f[x] \in Nat,
           NEW e, \A x \in S : e[x] = IF f[x] > limit THEN limit ELSE f[x]
    PROVE  \/ SumFunctionOnSet(f, S) = SumFunctionOnSet(e, S)
           \/ (SumFunctionOnSet(f, S) > limit /\ SumFunctionOnSet(e, S) >= limit)
<1> DEFINE Whole(A) == SumFunctionOnSet(f, A)
           Cut(A) == SumFunctionOnSet(e, A)
           Good == {A \in SUBSET S : \/ Whole(A) = Cut(A)
                                     \/ (Whole(A) > limit /\ Cut(A) >= limit)}
<1>1. \A x \in S : e[x] \in Nat
    OBVIOUS
<1>2. \A A \in SUBSET S : IsFiniteSet(A) /\ Whole(A) \in Nat /\ Cut(A) \in Nat
    BY <1>1, FS_Subset, SumType
<1>3. ASSUME NEW A \in SUBSET S, \A x \in A : A \ {x} \in Good
      PROVE  A \in Good
    <2>1. CASE A = {}
        BY <2>1, SumOfNone
    <2>2. CASE A # {}
        <3>1. PICK x \in A : TRUE
            BY <2>2
        <3>2. PICK B : B = A \ {x}
            OBVIOUS
        <3>3. B \in Good /\ B \in SUBSET S
            BY <1>3, <3>1, <3>2
        <3>4. Whole(A) = f[x] + Whole(B) /\ Cut(A) = e[x] + Cut(B)
            BY <1>1, <1>2, <3>1, <3>2, SumAny
        <3>5. Whole(B) \in Nat /\ Cut(B) \in Nat /\ f[x] \in Nat
            BY <1>2, <3>3
        <3>6. Whole(B) = Cut(B) \/ (Whole(B) > limit /\ Cut(B) >= limit)
            BY <3>3
        <3>7. Whole(A) = Cut(A) \/ (Whole(A) > limit /\ Cut(A) >= limit)
            <4> HIDE DEF Whole, Cut
            <4> QED  BY <3>4, <3>5, <3>6
        <3> QED  BY <3>7
    <2> QED  BY <2>1, <2>2
<1>4. SUBSET S \subseteq Good
    <2> HIDE DEF Good
    <2> QED  BY <1>3, FiniteInduction
<1> QED  BY <1>4
=============================================================================
