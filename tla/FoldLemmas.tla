----------------------------- MODULE FoldLemmas -----------------------------
(***************************************************************************)
(* Induction and recursion over finite data, for the proofs about folds.   *)
(* Induction is stated with a set in place of a predicate, so that it      *)
(* follows from the library's well-foundedness of the naturals; a fold is  *)
(* shown to satisfy its defining equation, and then to be what a proof     *)
(* needs of it: a total that can be taken in any order, or the last value  *)
(* of a sequence of accumulators.                                          *)
(***************************************************************************)
EXTENDS SequencesExt, FiniteSetTheorems, WellFoundedInduction, TLAPS

----------------------------------------------------------------------------
(* Induction                                                               *)

Below == {p \in Nat \X Nat : p[1] < p[2]}

LEMMA BelowIsWellFounded == IsWellFoundedOn(Below, Nat)
    BY NatLessThanWellFounded DEF OpToRel, Below

\* A set of numbers that is not empty has a least element.
LEMMA LeastNumber ==
    ASSUME NEW T, T \subseteq Nat, T # {}
    PROVE  \E n \in T : \A m \in T : n <= m
<1>1. PICK n \in T : \A m \in T : ~(<<m, n>> \in Below)
    BY BelowIsWellFounded, WFMin
<1>2. ASSUME NEW m \in T PROVE n <= m
    <2>1. <<m, n>> \notin Below /\ m \in Nat /\ n \in Nat
        BY <1>1
    <2> QED BY <2>1 DEF Below
<1> QED BY <1>2

\* A set that holds 0, and with every number the next, holds them all.
LEMMA CountingUp ==
    ASSUME NEW T, 0 \in T, \A n \in Nat : n \in T => n + 1 \in T
    PROVE  Nat \subseteq T
<1> SUFFICES ASSUME Nat \ T # {} PROVE FALSE
    OBVIOUS
<1>1. PICK n \in Nat \ T : \A m \in Nat \ T : n <= m
    BY LeastNumber
<1>2. n - 1 \in Nat /\ n - 1 \in T
    BY <1>1
<1> QED BY <1>1, <1>2

\* The same over finite sets: a family that holds {}, and with every finite set all of
\* those with one element more, holds every finite set there is.
LEMMA AddingUp ==
    ASSUME NEW S, IsFiniteSet(S), NEW F, {} \in F,
           \A s \in SUBSET S : \A x \in S \ s : s \in F => s \cup {x} \in F
    PROVE  S \in F
<1> DEFINE T == {n \in Nat : \A s \in SUBSET S : Cardinality(s) = n => s \in F}
<1>1. \A s \in SUBSET S : IsFiniteSet(s) /\ Cardinality(s) \in Nat
    BY FS_Subset, FS_CardinalityType
<1>2. 0 \in T
    BY <1>1, FS_EmptySet
<1>3. ASSUME NEW n \in Nat, n \in T
      PROVE  n + 1 \in T
    <2> SUFFICES ASSUME NEW s \in SUBSET S, Cardinality(s) = n + 1
                 PROVE  s \in F
        OBVIOUS
    <2>1. s # {}
        <3>1. Cardinality({}) = 0
            BY FS_EmptySet
        <3> QED BY <3>1
    <2>2. PICK x \in s : TRUE
        BY <2>1
    <2>3. Cardinality(s \ {x}) = n
        <3>1. IsFiniteSet(s)
            BY <1>1
        <3>2. Cardinality(s \ {x}) = Cardinality(s) - 1
            BY <3>1, FS_RemoveElement
        <3> QED BY <3>2
    <2>4. s \ {x} \in F
        BY <1>3, <2>3
    <2>5. s = (s \ {x}) \cup {x} /\ x \in S \ (s \ {x})
        OBVIOUS
    <2> QED BY <2>4, <2>5
<1> HIDE DEF T
<1>4. Cardinality(S) \in T
    BY <1>1, <1>2, <1>3, CountingUp
<1> QED BY <1>4 DEF T

----------------------------------------------------------------------------
(* Recursion: what MapThenFoldSet's equation defines exists                *)

Picks(pick, S) == \A s \in SUBSET S : s # {} => pick[s] \in s

Unfolds(g, D, base, pick, step) ==
    g = [s \in D |-> IF s = {} THEN base ELSE step[<<pick[s], g[s \ {pick[s]}]>>]]

LEMMA FoldExists ==
    ASSUME NEW S, IsFiniteSet(S), NEW A, NEW base \in A,
           NEW pick, Picks(pick, S),
           NEW step \in [S \X A -> A]
    PROVE  \E g \in [SUBSET S -> A] : Unfolds(g, SUBSET S, base, pick, step)
<1> DEFINE Small(n) == {s \in SUBSET S : Cardinality(s) <= n}
           T == {n \in Nat : \E g \in [Small(n) -> A] : Unfolds(g, Small(n), base, pick, step)}
<1>1. \A s \in SUBSET S : IsFiniteSet(s) /\ Cardinality(s) \in Nat
    BY FS_Subset, FS_CardinalityType
<1>2. 0 \in T
    <2>1. Small(0) = {{}}
        BY <1>1, FS_EmptySet
    <2>2. /\ [s \in Small(0) |-> base] \in [Small(0) -> A]
          /\ Unfolds([s \in Small(0) |-> base], Small(0), base, pick, step)
        BY <2>1 DEF Unfolds
    <2> QED BY <2>2
<1>3. ASSUME NEW n \in Nat, n \in T
      PROVE  n + 1 \in T
    <2>1. PICK g \in [Small(n) -> A] : Unfolds(g, Small(n), base, pick, step)
        BY <1>3
    <2> DEFINE h == [s \in Small(n + 1) |->
                       IF s = {} THEN base ELSE step[<<pick[s], g[s \ {pick[s]}]>>]]
    <2>2. ASSUME NEW s \in Small(n + 1), s # {}
          PROVE  s \ {pick[s]} \in Small(n) /\ pick[s] \in S
        <3>1. IsFiniteSet(s) /\ Cardinality(s) <= n + 1 /\ pick[s] \in s /\ Cardinality(s) \in Nat
            BY <1>1, <2>2 DEF Picks
        <3>2. Cardinality(s \ {pick[s]}) = Cardinality(s) - 1
            BY <3>1, FS_RemoveElement
        <3> QED BY <3>1, <3>2
    <2>3. h \in [Small(n + 1) -> A]
        BY <2>2
    <2>4. ASSUME NEW s \in Small(n)
          PROVE  s \in Small(n + 1) /\ h[s] = g[s]
        <3>1. s \in Small(n + 1)
            BY <1>1
        <3>2. g[s] = IF s = {} THEN base ELSE step[<<pick[s], g[s \ {pick[s]}]>>]
            <4> HIDE DEF Small
            <4> QED BY <2>1 DEF Unfolds
        <3> HIDE DEF Small
        <3> QED BY <3>1, <3>2
    <2>5. Unfolds(h, Small(n + 1), base, pick, step)
        <3> HIDE DEF Small
        <3> QED BY <2>2, <2>4 DEF Unfolds
    <2> HIDE DEF Small, h
    <2> QED BY <2>3, <2>5
<1>4. Cardinality(S) \in T
    <2> HIDE DEF T
    <2> QED BY <1>1, <1>2, <1>3, CountingUp
<1>5. Small(Cardinality(S)) = SUBSET S
    BY <1>1, FS_Subset
<1>6. PICK g \in [Small(Cardinality(S)) -> A] :
          Unfolds(g, Small(Cardinality(S)), base, pick, step)
    BY <1>4
<1> HIDE DEF Small
<1>7. g \in [SUBSET S -> A]
    BY <1>5, <1>6
<1>8. Unfolds(g, SUBSET S, base, pick, step)
    BY <1>5, <1>6, Zenon
<1> QED BY <1>7, <1>8

\* Two functions that start alike, and whose next values agree where the ones before do,
\* agree everywhere.
InStep(g, h, pick, S) ==
    /\ g[{}] = h[{}]
    /\ \A s \in SUBSET S : s # {} /\ g[s \ {pick[s]}] = h[s \ {pick[s]}] => g[s] = h[s]

LEMMA SameFold ==
    ASSUME NEW S, IsFiniteSet(S), NEW g, NEW h,
           NEW pick, Picks(pick, S), InStep(g, h, pick, S)
    PROVE  \A s \in SUBSET S : g[s] = h[s]
<1> DEFINE T == {n \in Nat : \A s \in SUBSET S : Cardinality(s) = n => g[s] = h[s]}
<1>1. \A s \in SUBSET S : IsFiniteSet(s) /\ Cardinality(s) \in Nat
    BY FS_Subset, FS_CardinalityType
<1>2. 0 \in T
    <2>1. \A s \in SUBSET S : Cardinality(s) = 0 => s = {}
        BY <1>1, FS_EmptySet
    <2> QED BY <2>1 DEF InStep
<1>3. ASSUME NEW n \in Nat, n \in T
      PROVE  n + 1 \in T
    <2> SUFFICES ASSUME NEW s \in SUBSET S, Cardinality(s) = n + 1
                 PROVE  g[s] = h[s]
        OBVIOUS
    <2>1. IsFiniteSet(s) /\ s # {}
        BY <1>1, FS_EmptySet
    <2>2. pick[s] \in s
        BY <2>1 DEF Picks
    <2>3. Cardinality(s \ {pick[s]}) = n
        <3>1. Cardinality(s \ {pick[s]}) = Cardinality(s) - 1
            BY <2>1, <2>2, FS_RemoveElement
        <3> QED BY <3>1
    <2>4. g[s \ {pick[s]}] = h[s \ {pick[s]}]
        BY <1>3, <2>3
    <2> QED BY <2>1, <2>4 DEF InStep
<1>4. \A s \in SUBSET S : Cardinality(s) \in T
    <2> HIDE DEF T
    <2> QED BY <1>1, <1>2, <1>3, CountingUp
<1> QED BY <1>4

----------------------------------------------------------------------------
(* Totals                                                                  *)

\* g[s] is the sum of f over s, for every s within S.
IsSum(g, f, S) ==
    /\ g \in [SUBSET S -> Int] /\ g[{}] = 0
    /\ \A s \in SUBSET S : \A x \in s : g[s] = g[s \ {x}] + f[x]

\* A fold that adds is a sum, whichever element it takes first.
LEMMA FoldIsSum ==
    ASSUME NEW S, IsFiniteSet(S), NEW f \in [S -> Int],
           NEW pick, Picks(pick, S),
           NEW g \in [SUBSET S -> Int],
           \A s \in SUBSET S : g[s] = IF s = {} THEN 0 ELSE f[pick[s]] + g[s \ {pick[s]}]
    PROVE  IsSum(g, f, S)
<1> DEFINE T == {n \in Nat : \A s \in SUBSET S : Cardinality(s) = n =>
                                 \A x \in s : g[s] = g[s \ {x}] + f[x]}
<1>1. \A s \in SUBSET S : IsFiniteSet(s) /\ Cardinality(s) \in Nat
    BY FS_Subset, FS_CardinalityType
<1>2. 0 \in T
    <2>1. \A s \in SUBSET S : Cardinality(s) = 0 => s = {}
        BY <1>1, FS_EmptySet
    <2> QED BY <2>1
<1>3. ASSUME NEW n \in Nat, n \in T
      PROVE  n + 1 \in T
    <2> SUFFICES ASSUME NEW s \in SUBSET S, Cardinality(s) = n + 1, NEW x \in s
                 PROVE  g[s] = g[s \ {x}] + f[x]
        OBVIOUS
    <2> DEFINE y == pick[s]
    <2>1. y \in s /\ g[s] = g[s \ {y}] + f[y] /\ IsFiniteSet(s)
        BY <1>1 DEF Picks
    <2> HIDE DEF y
    <2>2. CASE x = y
        BY <2>1, <2>2
    <2>3. CASE x # y
        <3>1. Cardinality(s \ {x}) = n /\ Cardinality(s \ {y}) = n
            <4>1. \A z \in s : Cardinality(s \ {z}) = Cardinality(s) - 1
                BY <2>1, FS_RemoveElement
            <4> QED BY <2>1, <4>1
        <3> DEFINE r == (s \ {x}) \ {y}
        <3>2. y \in s \ {x} /\ x \in s \ {y} /\ (s \ {y}) \ {x} = r
            BY <2>1, <2>3
        <3>3. g[s \ {x}] = g[r] + f[y]
            BY <1>3, <3>1, <3>2
        <3>4. g[s \ {y}] = g[r] + f[x]
            <4>1. g[s \ {y}] = g[(s \ {y}) \ {x}] + f[x]
                BY <1>3, <3>1, <3>2
            <4> HIDE DEF r
            <4> QED BY <4>1, <3>2
        <3>5. g[r] \in Int /\ f[x] \in Int /\ f[y] \in Int
            BY <2>1
        <3> HIDE DEF r
        <3> QED BY <2>1, <3>3, <3>4, <3>5
    <2> QED BY <2>2, <2>3
<1>4. \A s \in SUBSET S : Cardinality(s) \in T
    <2> HIDE DEF T
    <2> QED BY <1>1, <1>2, <1>3, CountingUp
<1> QED BY <1>4 DEF IsSum

AnyOf(s) == CHOOSE x \in s : TRUE

LEMMA TotalIsSum ==
    ASSUME NEW S, IsFiniteSet(S), NEW f, \A x \in S : f[x] \in Int
    PROVE  \E g : IsSum(g, f, S) /\ SumFunctionOnSet(f, S) = g[S]
<1> DEFINE pick == [s \in SUBSET S |-> AnyOf(s)]
           F == [x \in S |-> f[x]]
           step == [p \in S \X Int |-> F[p[1]] + p[2]]
           Sums(g) == g = [s \in SUBSET S |-> IF s = {} THEN 0 ELSE f[AnyOf(s)] + g[s \ {AnyOf(s)}]]
<1>1. \A s \in SUBSET S : s # {} => AnyOf(s) \in s /\ pick[s] = AnyOf(s)
    BY DEF AnyOf
<1>2. /\ F \in [S -> Int] /\ step \in [S \X Int -> Int] /\ 0 \in Int
      /\ \A x \in S : F[x] = f[x]
      /\ \A x \in S, a \in Int : step[<<x, a>>] = F[x] + a
    OBVIOUS
<1> HIDE DEF pick, F, step
<1>3. PICK h \in [SUBSET S -> Int] : Unfolds(h, SUBSET S, 0, pick, step)
    <2>1. Picks(pick, S)
        BY <1>1 DEF Picks
    <2>2. step \in [S \X Int -> Int] /\ 0 \in Int
        BY <1>2
    <2> QED BY <2>1, <2>2, FoldExists
<1>4. \A s \in SUBSET S : h[s] = IF s = {} THEN 0 ELSE F[AnyOf(s)] + h[s \ {AnyOf(s)}]
    <2>1. \A s \in SUBSET S : h[s] = IF s = {} THEN 0 ELSE step[<<pick[s], h[s \ {pick[s]}]>>]
        BY <1>3 DEF Unfolds
    <2>2. ASSUME NEW s \in SUBSET S, s # {}
          PROVE  step[<<pick[s], h[s \ {pick[s]}]>>] = F[AnyOf(s)] + h[s \ {AnyOf(s)}]
        <3>1. pick[s] = AnyOf(s) /\ AnyOf(s) \in S /\ h[s \ {AnyOf(s)}] \in Int
            BY <1>1, <2>2
        <3> QED BY <1>2, <3>1
    <2> QED BY <2>1, <2>2
<1>5. Sums(h)
    <2>1. \A s \in SUBSET S : s # {} => F[AnyOf(s)] = f[AnyOf(s)]
        BY <1>1, <1>2
    <2> QED BY <1>4, <2>1
<1> DEFINE g == CHOOSE g : Sums(g)
<1>6. Sums(g)
    <2> HIDE DEF Sums
    <2> QED BY <1>5
<1>7. SumFunctionOnSet(f, S) = g[S]
    BY DEF SumFunctionOnSet, FoldFunctionOnSet, MapThenFoldSet, AnyOf
<1> HIDE DEF g, Sums
<1>8. \A s \in SUBSET S : g[s] = h[s]
    <2>1. Picks(pick, S)
        BY <1>1 DEF Picks
    <2>2. /\ \A s \in SUBSET S : g[s] = IF s = {} THEN 0 ELSE f[AnyOf(s)] + g[s \ {AnyOf(s)}]
          /\ \A s \in SUBSET S : h[s] = IF s = {} THEN 0 ELSE f[AnyOf(s)] + h[s \ {AnyOf(s)}]
        BY <1>5, <1>6 DEF Sums
    <2>3. InStep(g, h, pick, S)
        BY <1>1, <2>2 DEF InStep
    <2> QED BY <2>1, <2>3, SameFold
<1>9. IsSum(h, F, S)
    <2>1. Picks(pick, S)
        BY <1>1 DEF Picks
    <2>2. \A s \in SUBSET S : h[s] = IF s = {} THEN 0 ELSE F[pick[s]] + h[s \ {pick[s]}]
        BY <1>1, <1>4
    <2> QED BY <1>2, <2>1, <2>2, FoldIsSum
<1>10. IsSum(h, f, S)
    BY <1>2, <1>9 DEF IsSum
<1> QED BY <1>7, <1>8, <1>10

LEMMA SumsCompare ==
    ASSUME NEW S, NEW T, NEW f, NEW e, NEW g, NEW h, IsSum(g, f, S), IsSum(h, e, T),
           NEW U, IsFiniteSet(U), U \subseteq S, U \subseteq T,
           \A x \in U : f[x] \in Int /\ e[x] \in Int /\ f[x] <= e[x]
    PROVE  g[U] <= h[U]
<1> DEFINE F == {s \in SUBSET U : g[s] <= h[s]}
<1>1. {} \in F
    BY DEF IsSum
<1>2. ASSUME NEW s \in SUBSET U, NEW x \in U \ s, s \in F
      PROVE  s \cup {x} \in F
    <2> DEFINE t == s \cup {x}
    <2>1. t \ {x} = s /\ t \in SUBSET S /\ t \in SUBSET T /\ x \in t
        OBVIOUS
    <2> HIDE DEF t
    <2>2. g[t] = g[t \ {x}] + f[x] /\ h[t] = h[t \ {x}] + e[x]
        BY <2>1 DEF IsSum
    <2>3. g[s] \in Int /\ h[s] \in Int /\ f[x] \in Int /\ e[x] \in Int /\ f[x] <= e[x]
        BY <2>1 DEF IsSum
    <2>4. g[t] <= h[t] /\ t \in SUBSET U
        BY <1>2, <2>1, <2>2, <2>3 DEF t
    <2> QED BY <2>4 DEF t
<1> HIDE DEF F
<1>3. U \in F
    BY <1>1, <1>2, AddingUp
<1> QED BY <1>3 DEF F

Ints(f, S) == \A x \in S : f[x] \in Int

LEMMA TotalCompares ==
    ASSUME NEW S, IsFiniteSet(S), NEW f, NEW e, Ints(f, S), Ints(e, S),
           \A x \in S : f[x] <= e[x]
    PROVE  SumFunctionOnSet(f, S) <= SumFunctionOnSet(e, S)
<1>1. PICK g : IsSum(g, f, S) /\ SumFunctionOnSet(f, S) = g[S]
    BY TotalIsSum DEF Ints
<1>2. PICK h : IsSum(h, e, S) /\ SumFunctionOnSet(e, S) = h[S]
    BY TotalIsSum DEF Ints
<1>3. \A x \in S : f[x] \in Int /\ e[x] \in Int /\ f[x] <= e[x]
    BY DEF Ints
<1>4. g[S] <= h[S]
    BY <1>1, <1>2, <1>3, SumsCompare
<1> QED BY <1>1, <1>2, <1>4

LEMMA TotalIsInt ==
    ASSUME NEW S, IsFiniteSet(S), NEW f, Ints(f, S)
    PROVE  SumFunctionOnSet(f, S) \in Int
<1>1. PICK g : IsSum(g, f, S) /\ SumFunctionOnSet(f, S) = g[S]
    BY TotalIsSum DEF Ints
<1> QED BY <1>1 DEF IsSum

LEMMA TotalOfNone == ASSUME NEW f PROVE SumFunctionOnSet(f, {}) = 0
<1>1. IsFiniteSet({})
    BY FS_EmptySet
<1>2. PICK g : IsSum(g, f, {}) /\ SumFunctionOnSet(f, {}) = g[{}]
    BY <1>1, TotalIsSum
<1> QED BY <1>2 DEF IsSum

LEMMA TotalSame ==
    ASSUME NEW S, IsFiniteSet(S), NEW f, NEW e, Ints(f, S), \A x \in S : f[x] = e[x]
    PROVE  SumFunctionOnSet(f, S) = SumFunctionOnSet(e, S)
<1>1. Ints(e, S) /\ \A x \in S : f[x] <= e[x] /\ e[x] <= f[x]
    BY DEF Ints
<1>2. SumFunctionOnSet(f, S) <= SumFunctionOnSet(e, S)
    BY <1>1, TotalCompares
<1>3. SumFunctionOnSet(e, S) <= SumFunctionOnSet(f, S)
    BY <1>1, TotalCompares
<1>4. SumFunctionOnSet(f, S) \in Int /\ SumFunctionOnSet(e, S) \in Int
    BY <1>1, TotalIsInt
<1> QED BY <1>2, <1>3, <1>4

LEMMA SumIsTotal == ASSUME NEW f PROVE SumFunction(f) = SumFunctionOnSet(f, DOMAIN f)
    BY DEF SumFunction

\* Any element may be counted last.
LEMMA TotalTakes ==
    ASSUME NEW S, IsFiniteSet(S), NEW f, Ints(f, S), NEW x \in S
    PROVE  SumFunctionOnSet(f, S) = SumFunctionOnSet(f, S \ {x}) + f[x]
<1> DEFINE R == S \ {x}
<1>1. IsFiniteSet(R) /\ Ints(f, R)
    BY FS_RemoveElement DEF Ints
<1>2. PICK g : IsSum(g, f, S) /\ SumFunctionOnSet(f, S) = g[S]
    BY TotalIsSum DEF Ints
<1>3. PICK h : IsSum(h, f, R) /\ SumFunctionOnSet(f, R) = h[R]
    BY <1>1, TotalIsSum DEF Ints
<1>4. g[S] = g[R] + f[x]
    BY <1>2 DEF IsSum
<1>5. R \subseteq S /\ R \subseteq R
    OBVIOUS
<1>6. \A y \in R : f[y] \in Int /\ f[y] \in Int /\ f[y] <= f[y]
    BY <1>1 DEF Ints
<1> HIDE DEF R
<1>7. g[R] <= h[R]
    BY <1>1, <1>2, <1>3, <1>5, <1>6, SumsCompare
<1>8. h[R] <= g[R]
    BY <1>1, <1>2, <1>3, <1>5, <1>6, SumsCompare
<1>9. g[R] \in Int /\ h[R] \in Int
    BY <1>2, <1>3, <1>5 DEF IsSum
<1>10. g[R] = h[R]
    BY <1>7, <1>8, <1>9
<1> QED BY <1>2, <1>3, <1>4, <1>10 DEF R

LEMMA TotalAdds ==
    ASSUME NEW S, IsFiniteSet(S), NEW x, x \notin S, NEW f, Ints(f, S \cup {x})
    PROVE  SumFunctionOnSet(f, S \cup {x}) = SumFunctionOnSet(f, S) + f[x]
<1>1. IsFiniteSet(S \cup {x}) /\ x \in S \cup {x} /\ (S \cup {x}) \ {x} = S
    BY FS_AddElement
<1>2. SumFunctionOnSet(f, S \cup {x}) = SumFunctionOnSet(f, (S \cup {x}) \ {x}) + f[x]
    BY <1>1, TotalTakes
<1> QED BY <1>1, <1>2

LEMMA TotalIsNat ==
    ASSUME NEW S, IsFiniteSet(S), NEW f, \A x \in S : f[x] \in Nat
    PROVE  SumFunctionOnSet(f, S) \in Nat
<1> DEFINE F == {s \in SUBSET S : SumFunctionOnSet(f, s) \in Nat}
<1>1. \A s \in SUBSET S : IsFiniteSet(s) /\ Ints(f, s)
    BY FS_Subset DEF Ints
<1>2. {} \in F
    BY TotalOfNone
<1>3. ASSUME NEW s \in SUBSET S, NEW x \in S \ s, s \in F
      PROVE  s \cup {x} \in F
    <2>1. SumFunctionOnSet(f, s \cup {x}) = SumFunctionOnSet(f, s) + f[x]
        <3>1. s \cup {x} \in SUBSET S
            OBVIOUS
        <3> QED BY <1>1, <3>1, TotalAdds
    <2> QED BY <1>3, <2>1
<1> HIDE DEF F
<1>4. S \in F
    BY <1>2, <1>3, AddingUp
<1> QED BY <1>4 DEF F

LEMMA TotalCutsInto ==
    ASSUME NEW S, IsFiniteSet(S), NEW f, Ints(f, S), NEW T \in SUBSET S
    PROVE  SumFunctionOnSet(f, S) = SumFunctionOnSet(f, T) + SumFunctionOnSet(f, S \ T)
<1> DEFINE F == {s \in SUBSET T : SumFunctionOnSet(f, S) = SumFunctionOnSet(f, s) + SumFunctionOnSet(f, S \ s)}
<1>1. \A s \in SUBSET S : IsFiniteSet(s) /\ Ints(f, s)
    BY FS_Subset DEF Ints
<1>2. {} \in F
    <2>1. SumFunctionOnSet(f, S) \in Int
        BY TotalIsInt
    <2> QED BY <2>1, TotalOfNone
<1>3. ASSUME NEW s \in SUBSET T, NEW x \in T \ s, s \in F
      PROVE  s \cup {x} \in F
    <2>1. s \in SUBSET S /\ s \cup {x} \in SUBSET S /\ S \ s \in SUBSET S /\ x \in S \ s
        OBVIOUS
    <2>2. SumFunctionOnSet(f, s \cup {x}) = SumFunctionOnSet(f, s) + f[x]
        BY <1>1, <2>1, TotalAdds
    <2>3. SumFunctionOnSet(f, S \ s) = SumFunctionOnSet(f, (S \ s) \ {x}) + f[x]
        BY <1>1, <2>1, TotalTakes
    <2>4. (S \ s) \ {x} = S \ (s \cup {x}) /\ S \ (s \cup {x}) \in SUBSET S
        OBVIOUS
    <2>5. /\ SumFunctionOnSet(f, s) \in Int /\ SumFunctionOnSet(f, S \ s) \in Int /\ SumFunctionOnSet(f, S \ (s \cup {x})) \in Int
          /\ f[x] \in Int
        BY <1>1, <2>1, <2>4, TotalIsInt DEF Ints
    <2>6. SumFunctionOnSet(f, S) = SumFunctionOnSet(f, s) + SumFunctionOnSet(f, S \ s)
        BY <1>3
    <2>7. SumFunctionOnSet(f, S) = SumFunctionOnSet(f, s \cup {x}) + SumFunctionOnSet(f, S \ (s \cup {x}))
        <3> HIDE DEF F
        <3> DEFINE R == S \ (s \cup {x})
        <3>1. SumFunctionOnSet(f, S \ s) = SumFunctionOnSet(f, R) + f[x]
            BY <2>3, <2>4, Zenon
        <3>2. SumFunctionOnSet(f, R) \in Int
            BY <2>5
        <3> HIDE DEF R
        <3>3. SumFunctionOnSet(f, S) = SumFunctionOnSet(f, s \cup {x}) + SumFunctionOnSet(f, R)
            BY <2>2, <2>5, <2>6, <3>1, <3>2
        <3> QED BY <3>3 DEF R
    <2> QED BY <2>7
<1> HIDE DEF F
<1>4. IsFiniteSet(T)
    BY <1>1
<1>5. T \in F
    BY <1>2, <1>3, <1>4, AddingUp
<1> QED BY <1>5 DEF F

LEMMA TotalCompareStrictly ==
    ASSUME NEW S, IsFiniteSet(S), NEW f, NEW e, Ints(f, S), Ints(e, S),
           \A x \in S : f[x] <= e[x], NEW y \in S, f[y] < e[y]
    PROVE  SumFunctionOnSet(f, S) < SumFunctionOnSet(e, S)
<1>1. IsFiniteSet(S \ {y}) /\ Ints(f, S \ {y}) /\ Ints(e, S \ {y})
    BY FS_RemoveElement DEF Ints
<1>2. SumFunctionOnSet(f, S \ {y}) <= SumFunctionOnSet(e, S \ {y})
    <2>1. \A x \in S \ {y} : f[x] <= e[x]
        OBVIOUS
    <2> QED BY <1>1, <2>1, TotalCompares
<1>3. SumFunctionOnSet(f, S) = SumFunctionOnSet(f, S \ {y}) + f[y] /\ SumFunctionOnSet(e, S) = SumFunctionOnSet(e, S \ {y}) + e[y]
    BY TotalTakes
<1>4. /\ SumFunctionOnSet(f, S \ {y}) \in Int /\ SumFunctionOnSet(e, S \ {y}) \in Int
      /\ f[y] \in Int /\ e[y] \in Int
    BY <1>1, TotalIsInt DEF Ints
<1> QED BY <1>2, <1>3, <1>4

----------------------------------------------------------------------------
(* Folds over a sequence, from the left                                    *)

LEMMA GreatestNumber ==
    ASSUME NEW n \in Nat, NEW T, T \subseteq 0..n, T # {}
    PROVE  Max(T) \in T /\ \A m \in T : m <= Max(T)
<1> DEFINE D == {k \in Nat : n - k \in T}
<1>1. D # {} /\ D \subseteq Nat
    <2>1. PICK m \in T : TRUE
        OBVIOUS
    <2>2. n - m \in Nat /\ n - (n - m) = m
        BY <2>1
    <2> QED BY <2>1, <2>2
<1>2. PICK k \in D : \A j \in D : k <= j
    <2> HIDE DEF D
    <2> QED BY <1>1, LeastNumber
<1>3. n - k \in T /\ \A m \in T : n - k >= m
    <2>1. \A m \in T : n - m \in Nat /\ n - (n - m) = m
        OBVIOUS
    <2>2. \A m \in T : n - m \in D
        BY <2>1
    <2> QED BY <1>2, <2>1, <2>2
<1>4. \E x \in T : \A y \in T : x >= y
    BY <1>3
<1>5. Max(T) \in T /\ \A y \in T : Max(T) >= y
    BY <1>4 DEF Max
<1> QED BY <1>5

LEMMA Initially ==
    /\ 1..0 = {}
    /\ \A i \in Nat \ {0} : /\ Max(1..i) = i /\ 1..i # {}
                            /\ (1..i) \ {Max(1..i)} = 1..(i - 1)
<1>1. ASSUME NEW i \in Nat \ {0}
      PROVE  Max(1..i) = i
    <2>1. 1..i # {} /\ 1..i \subseteq 1..i
        OBVIOUS
    <2>2. Max(1..i) \in 1..i /\ \A m \in 1..i : m <= Max(1..i)
        BY <2>1, GreatestNumber
    <2> QED BY <2>2
<1> QED BY <1>1

\* What FoldLeft's equation defines exists.
UnfoldsLeft(g, n, base, step) ==
    \A s \in SUBSET (1..n) : g[s] = IF s = {} THEN base ELSE step[<<Max(s), g[s \ {Max(s)}]>>]

LEMMA LeftFoldExists ==
    ASSUME NEW n \in Nat, NEW A, NEW base \in A, NEW step \in [(1..n) \X A -> A]
    PROVE  \E g \in [SUBSET (1..n) -> A] : UnfoldsLeft(g, n, base, step)
<1> DEFINE S == 1..n
           pick == [s \in SUBSET S |-> Max(s)]
<1>1. \A s \in SUBSET S : pick[s] = Max(s)
    OBVIOUS
<1>2. Picks(pick, S)
    <2>1. \A s \in SUBSET S : s \subseteq 0..n
        OBVIOUS
    <2> QED BY <1>1, <2>1, GreatestNumber DEF Picks
<1>3. IsFiniteSet(S)
    BY FS_Interval
<1> HIDE DEF pick, S
<1>4. PICK g \in [SUBSET S -> A] : Unfolds(g, SUBSET S, base, pick, step)
    <2>1. step \in [S \X A -> A]
        BY DEF S
    <2> QED BY <1>2, <1>3, <2>1, FoldExists
<1>5. \A s \in SUBSET S : g[s] = IF s = {} THEN base ELSE step[<<Max(s), g[s \ {Max(s)}]>>]
    BY <1>1, <1>4 DEF Unfolds
<1> QED BY <1>5 DEF S, UnfoldsLeft
=============================================================================
