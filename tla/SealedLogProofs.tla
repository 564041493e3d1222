--------------------------- MODULE SealedLogProofs ---------------------------
(***************************************************************************)
(* A recording, for any records, any size of chunk and any number of kills *)
(* and power losses: what was synced is read back, and a published file is *)
(* whole.  First what the writer and the reader of a sealed file compute:  *)
(* the writer folds byte by byte, so each fact about it is by induction    *)
(* over what it was given (FoldLemmas), and a finished file is laid out as *)
(* its length says (Laid).  Then the invariant, LogInv: a log's frames are *)
(* in order under one key, what is owed is in the log or in the file made  *)
(* of it, and a copy half made holds the beginning of what it is made of.  *)
(***************************************************************************)
EXTENDS SealedLog, FoldLemmas

----------------------------------------------------------------------------
(* Arithmetic                                                              *)

LEMMA TimesGrows ==
    ASSUME NEW a \in Nat, NEW b \in Nat, NEW d \in Nat, a <= b
    PROVE  a * d <= b * d /\ a * d \in Nat /\ b * d \in Nat
<1>1. b * d = a * d + (b - a) * d
    OBVIOUS
<1>2. (b - a) * d >= 0 /\ a * d \in Nat /\ b * d \in Nat
    OBVIOUS
<1> QED BY <1>1, <1>2

LEMMA Divides ==
    ASSUME NEW q \in Nat, NEW r \in Nat, NEW d \in Nat, r < d
    PROVE  (q * d + r) \div d = q /\ (q * d + r) % d = r
<1> DEFINE n == q * d + r
           p == n \div d
           s == n % d
<1>1. n \in Nat /\ d > 0 /\ q * d \in Nat
    OBVIOUS
<1> HIDE DEF n
<1>2. p \in Nat /\ s \in Nat /\ s < d /\ n = d * p + s
    BY <1>1
<1> HIDE DEF p, s
<1>3. n = p * d + s /\ n = q * d + r
    BY <1>2 DEF n
<1>4. ~(p < q)
    <2>1. SUFFICES ASSUME p + 1 <= q PROVE FALSE
        BY <1>2
    <2>2. (p + 1) * d <= q * d
        BY <1>2, <2>1, TimesGrows
    <2>3. (p + 1) * d = p * d + d /\ p * d \in Nat
        BY <1>2
    <2> QED BY <1>1, <1>2, <1>3, <2>2, <2>3
<1>5. ~(q < p)
    <2>1. SUFFICES ASSUME q + 1 <= p PROVE FALSE
        BY <1>2
    <2>2. (q + 1) * d <= p * d
        BY <1>2, <2>1, TimesGrows
    <2>3. (q + 1) * d = q * d + d /\ p * d \in Nat
        BY <1>2
    <2> QED BY <1>1, <1>2, <1>3, <2>2, <2>3
<1>6. p = q
    BY <1>2, <1>4, <1>5
<1> QED BY <1>1, <1>2, <1>3, <1>6 DEF p, s, n

LEMMA Quotient ==
    ASSUME NEW n \in Nat, NEW d \in Nat, d > 0
    PROVE  /\ n \div d \in Nat /\ n % d \in Nat /\ n % d < d
           /\ n = (n \div d) * d + (n % d)
    OBVIOUS

\* Division is monotone, and strictly across a multiple.
LEMMA DividesInOrder ==
    ASSUME NEW m \in Nat, NEW n \in Nat, NEW d \in Nat, d > 0, m <= n
    PROVE  m \div d <= n \div d
<1> DEFINE p == m \div d
           q == n \div d
<1>1. p \in Nat /\ m % d \in Nat /\ m % d < d /\ m = p * d + (m % d)
    BY Quotient
<1>2. q \in Nat /\ n % d \in Nat /\ n % d < d /\ n = q * d + (n % d)
    BY Quotient
<1> HIDE DEF p, q
<1>3. SUFFICES ASSUME q + 1 <= p PROVE FALSE
    BY <1>1, <1>2 DEF p, q
<1>4. (q + 1) * d <= p * d
    BY <1>1, <1>2, <1>3, TimesGrows
<1>5. (q + 1) * d = q * d + d
    BY <1>2
<1> QED BY <1>1, <1>2, <1>4, <1>5

----------------------------------------------------------------------------
(* Sequences                                                               *)

LEMMA SameSequence ==
    ASSUME NEW S, NEW T, NEW s \in Seq(S), NEW t \in Seq(T), Len(s) = Len(t),
           \A i \in 1..Len(s) : s[i] = t[i]
    PROVE  s = t
    OBVIOUS

\* Joining a sequence of sequences.
Flattens(f, seqs) == f = [i \in 1..Len(seqs) |-> IF i = 1 THEN seqs[i] ELSE f[i - 1] \o seqs[i]]

LEMMA JoinedIs ==
    ASSUME NEW S, NEW seqs \in Seq(Seq(S)), Len(seqs) # 0
    PROVE  \E f \in [1..Len(seqs) -> Seq(S)] : Flattens(f, seqs) /\ FlattenSeq(seqs) = f[Len(seqs)]
<1> DEFINE n == Len(seqs)
           A == Seq(S)
           step == [x \in (1..n) \X A |-> x[2] \o seqs[x[1]]]
           F(f) == Flattens(f, seqs)
<1>1. n \in Nat \ {0} /\ \A i \in 1..n : seqs[i] \in A
    OBVIOUS
<1>2. /\ step \in [(1..n) \X A -> A] /\ <<>> \in A
      /\ \A i \in 1..n, a \in A : step[<<i, a>>] = a \o seqs[i]
    <2>1. \A i \in 1..n, a \in A : a \o seqs[i] \in A
        BY <1>1
    <2>2. <<>> \in A
        OBVIOUS
    <2> HIDE DEF A, n
    <2>3. \A x \in (1..n) \X A : x[1] \in 1..n /\ x[2] \in A
        OBVIOUS
    <2>4. \A x \in (1..n) \X A : x[2] \o seqs[x[1]] \in A
        BY <2>1, <2>3
    <2>5. step \in [(1..n) \X A -> A]
        BY <2>4
    <2>6. \A i \in 1..n, a \in A : step[<<i, a>>] = a \o seqs[i]
        OBVIOUS
    <2> QED BY <2>2, <2>5, <2>6
<1> HIDE DEF A, n, step
<1>3. PICK g \in [SUBSET (1..n) -> A] : UnfoldsLeft(g, n, <<>>, step)
    BY <1>1, <1>2, LeftFoldExists
<1> DEFINE h == [i \in 1..n |-> g[1..i]]
<1>4. \A i \in 1..n : /\ 1..i \in SUBSET (1..n) /\ 1..i # {} /\ Max(1..i) = i
                      /\ (1..i) \ {Max(1..i)} = 1..(i - 1) /\ 1..(i - 1) \in SUBSET (1..n)
    <2>1. ASSUME NEW i \in 1..n
          PROVE  /\ 1..i \in SUBSET (1..n) /\ 1..i # {} /\ 1..(i - 1) \in SUBSET (1..n)
        <3>1. n \in Nat
            BY <1>1
        <3>2. i \in 1..i /\ \A k \in 1..i : k \in 1..n
            BY <3>1
        <3>3. \A k \in 1..(i - 1) : k \in 1..n
            BY <3>1
        <3> QED BY <3>2, <3>3
    <2>2. ASSUME NEW i \in 1..n PROVE Max(1..i) = i /\ (1..i) \ {Max(1..i)} = 1..(i - 1)
        <3>1. i \in Nat \ {0}
            BY <1>1
        <3> QED BY <3>1, Initially
    <2> QED BY <2>1, <2>2
<1>5. \A i \in 1..n : g[1..i] = g[1..(i - 1)] \o seqs[i]
    BY <1>2, <1>3, <1>4 DEF UnfoldsLeft
<1>6. g[1..0] = <<>> /\ \A a \in A : <<>> \o a = a
    <2>1. \A a \in A : <<>> \o a = a
        BY SameSequence DEF A
    <2> QED BY <1>1, <1>3, <2>1, Initially DEF UnfoldsLeft
<1>7. F(h)
    <2>1. \A i \in 1..n : h[i] = IF i = 1 THEN seqs[i] ELSE h[i - 1] \o seqs[i]
        <3>1. ASSUME NEW i \in 1..n, i = 1 PROVE h[i] = seqs[i]
            <4>1. h[i] = g[1..(i - 1)] \o seqs[i] /\ seqs[i] \in A
                BY <1>1, <1>5
            <4>2. 1..(i - 1) = 1..0
                BY <3>1
            <4> QED BY <1>6, <4>1, <4>2
        <3>2. ASSUME NEW i \in 1..n, i # 1 PROVE h[i] = h[i - 1] \o seqs[i]
            <4>1. i - 1 \in 1..n
                BY <1>1, <3>2
            <4> QED BY <1>5, <4>1
        <3> QED BY <3>1, <3>2
    <2> QED BY <2>1 DEF Flattens, n
<1> DEFINE f == CHOOSE f : F(f)
<1>8. F(f)
    <2> HIDE DEF F
    <2> QED BY <1>7
<1>9. FlattenSeq(seqs) = f[n]
    BY <1>1, Zenon DEF FlattenSeq, Flattens, n
<1> HIDE DEF f
<1>10. DOMAIN f = 1..n /\ f = [i \in 1..n |-> f[i]]
    BY <1>8 DEF Flattens, n
<1>14. /\ \A i \in 1..n : i = 1 => f[i] = seqs[i]
       /\ \A i \in 1..n : i # 1 => f[i] = f[i - 1] \o seqs[i]
    BY <1>8 DEF Flattens, n
<1> DEFINE T == {i \in Nat : i = 0 \/ i > n \/ f[i] \in A}
<1>11. ASSUME NEW i \in Nat, i \in T PROVE i + 1 \in T
    <2>1. SUFFICES ASSUME i + 1 \in 1..n PROVE f[i + 1] \in A
        BY <1>1
    <2>2. CASE i = 0
        BY <1>1, <1>14, <2>1, <2>2
    <2>3. CASE i # 0
        <3>1. i \in 1..n /\ f[i] \in A
            BY <1>1, <1>11, <2>1, <2>3
        <3>2. f[i + 1] = f[i] \o seqs[i + 1]
            <4>1. (i + 1) - 1 = i /\ i + 1 # 1
                BY <2>3
            <4> QED BY <1>14, <2>1, <4>1
        <3> QED BY <1>1, <2>1, <3>1, <3>2 DEF A
    <2> QED BY <2>2, <2>3
<1>12. Nat \subseteq T
    <2>1. 0 \in T
        OBVIOUS
    <2> HIDE DEF T
    <2> QED BY <1>11, <2>1, CountingUp
<1>13. \A i \in 1..n : f[i] \in A
    BY <1>1, <1>12
<1> QED BY <1>8, <1>9, <1>10, <1>13 DEF A, n


\* What the first i sequences join to.
Joins(f, seqs) ==
    f[0] = <<>> /\ \A i \in Nat : i + 1 <= Len(seqs) => f[i + 1] = f[i] \o seqs[i + 1]

LEMMA JoinIs ==
    ASSUME NEW S, NEW seqs \in Seq(Seq(S))
    PROVE  \E f \in [0..Len(seqs) -> Seq(S)] : Joins(f, seqs) /\ FlattenSeq(seqs) = f[Len(seqs)]
<1> DEFINE n == Len(seqs)
<1>1. n \in Nat /\ \A i \in 1..n : seqs[i] \in Seq(S)
    OBVIOUS
<1>2. CASE n = 0
    <2> DEFINE f == [i \in 0..n |-> <<>>]
    <2>1. seqs = <<>> /\ FlattenSeq(seqs) = seqs
        BY <1>2 DEF FlattenSeq
    <2>2. f \in [0..n -> Seq(S)] /\ f[0] = <<>> /\ f[n] = <<>>
        BY <1>2
    <2>3. Joins(f, seqs)
        BY <1>2, <2>2 DEF Joins
    <2> HIDE DEF f
    <2> QED BY <2>1, <2>2, <2>3
<1>3. CASE n # 0
    <2>1. PICK h \in [1..n -> Seq(S)] : Flattens(h, seqs) /\ FlattenSeq(seqs) = h[n]
        BY <1>3, JoinedIs
    <2>2. \A i \in 1..n : h[i] = IF i = 1 THEN seqs[i] ELSE h[i - 1] \o seqs[i]
        BY <2>1 DEF Flattens
    <2> DEFINE f == [i \in 0..n |-> IF i = 0 THEN <<>> ELSE h[i]]
    <2>3. /\ f \in [0..n -> Seq(S)] /\ f[0] = <<>> /\ f[n] = h[n]
          /\ \A i \in 1..n : f[i] = h[i]
        BY <1>1, <1>3, <2>1
    <2> HIDE DEF f
    <2>4. ASSUME NEW i \in Nat, i + 1 <= n PROVE f[i + 1] = f[i] \o seqs[i + 1]
        <3>1. i + 1 \in 1..n /\ (i + 1) - 1 = i /\ seqs[i + 1] \in Seq(S)
            BY <1>1, <2>4
        <3>2. h[i + 1] = IF i + 1 = 1 THEN seqs[i + 1] ELSE h[i] \o seqs[i + 1]
            BY <2>2, <3>1
        <3>3. CASE i = 0
            <4>1. <<>> \o seqs[i + 1] = seqs[i + 1]
                BY <3>1, SameSequence
            <4>2. f[i + 1] = h[i + 1] /\ f[i] = <<>>
                BY <2>3, <3>1, <3>3
            <4>3. h[i + 1] = seqs[i + 1]
                BY <3>2, <3>3
            <4> QED BY <4>1, <4>2, <4>3
        <3>4. CASE i # 0
            <4>1. i \in 1..n /\ i + 1 # 1
                BY <3>1, <3>4
            <4> QED BY <2>3, <3>1, <3>2, <4>1
        <3> QED BY <3>3, <3>4
    <2>5. Joins(f, seqs)
        BY <2>3, <2>4 DEF Joins
    <2> QED BY <2>1, <2>3, <2>5
<1> QED BY <1>2, <1>3

LEMMA JoinType ==
    ASSUME NEW S, NEW seqs \in Seq(Seq(S))
    PROVE  FlattenSeq(seqs) \in Seq(S)
<1>1. PICK f \in [0..Len(seqs) -> Seq(S)] : Joins(f, seqs) /\ FlattenSeq(seqs) = f[Len(seqs)]
    BY JoinIs
<1>2. Len(seqs) \in 0..Len(seqs)
    OBVIOUS
<1> QED BY <1>1, <1>2

LEMMA JoinOfNone == FlattenSeq(<<>>) = <<>>
    BY DEF FlattenSeq

\* The first is joined to the rest.
LEMMA JoinTakes ==
    ASSUME NEW S, NEW s \in Seq(Seq(S)), s # <<>>
    PROVE  /\ Head(s) \in Seq(S) /\ Tail(s) \in Seq(Seq(S))
           /\ FlattenSeq(s) = Head(s) \o FlattenSeq(Tail(s))
<1> DEFINE t == Tail(s)
           n == Len(t)
           first == Head(s)
<1>1. /\ first \in Seq(S) /\ t \in Seq(Seq(S)) /\ n \in Nat /\ Len(s) = n + 1
      /\ first = s[1] /\ \A i \in 1..n : t[i] = s[i + 1] /\ t[i] \in Seq(S)
    OBVIOUS
<1> HIDE DEF t, n, first
<1>2. PICK f \in [0..Len(s) -> Seq(S)] : Joins(f, s) /\ FlattenSeq(s) = f[Len(s)]
    BY JoinIs
<1>3. PICK g \in [0..n -> Seq(S)] : Joins(g, t) /\ FlattenSeq(t) = g[n]
    <2>1. t \in Seq(Seq(S))
        BY <1>1
    <2> QED BY <2>1, JoinIs DEF n
<1>4. f[0] = <<>> /\ \A i \in Nat : i + 1 <= n + 1 => f[i + 1] = f[i] \o s[i + 1]
    BY <1>1, <1>2 DEF Joins
<1>5. g[0] = <<>> /\ \A i \in Nat : i + 1 <= n => g[i + 1] = g[i] \o t[i + 1]
    BY <1>1, <1>3 DEF Joins, n
<1> DEFINE T == {i \in Nat : i <= n => f[i + 1] = first \o g[i]}
<1>6. 0 \in T
    <2>1. n \in Nat /\ 0 + 1 <= n + 1
        BY <1>1
    <2>2. f[0 + 1] = <<>> \o first
        <3>1. f[0 + 1] = f[0] \o s[0 + 1]
            BY <1>4, <2>1
        <3>2. s[0 + 1] = first
            BY <1>1
        <3> QED BY <1>4, <3>1, <3>2
    <2>3. <<>> \o first = first /\ first \o <<>> = first
        BY <1>1, SameSequence
    <2> QED BY <1>5, <2>2, <2>3
<1>7. ASSUME NEW i \in Nat, i \in T PROVE i + 1 \in T
    <2>1. SUFFICES ASSUME i + 1 <= n PROVE f[(i + 1) + 1] = first \o g[i + 1]
        OBVIOUS
    <2>2. /\ i + 1 \in Nat /\ i + 1 \in 1..n /\ (i + 1) + 1 <= n + 1 /\ i \in 0..n
        BY <1>1, <2>1
    <2>3. f[(i + 1) + 1] = f[i + 1] \o s[(i + 1) + 1]
        BY <1>4, <2>2
    <2>4. f[i + 1] = first \o g[i]
        <3>1. n \in Nat
            BY <1>1
        <3>2. i <= n
            BY <2>1, <3>1
        <3> QED BY <1>7, <3>2
    <2>5. s[(i + 1) + 1] = t[i + 1] /\ t[i + 1] \in Seq(S)
        BY <1>1, <2>2
    <2>6. g[i + 1] = g[i] \o t[i + 1] /\ g[i] \in Seq(S)
        BY <1>3, <1>5, <2>1, <2>2
    <2> DEFINE a == g[i]
               b == t[i + 1]
    <2>7. (first \o a) \o b = first \o (a \o b)
        <3>1. first \in Seq(S) /\ a \in Seq(S) /\ b \in Seq(S)
            BY <1>1, <2>5, <2>6
        <3> HIDE DEF a, b
        <3> DEFINE l == (first \o a) \o b
                   r == first \o (a \o b)
        <3>2. l \in Seq(S) /\ r \in Seq(S) /\ Len(l) = Len(r) /\ \A k \in 1..Len(l) : l[k] = r[k]
            BY <3>1
        <3> HIDE DEF l, r
        <3>3. l = r
            BY <3>2, SameSequence
        <3> QED BY <3>3 DEF l, r
    <2> QED BY <2>3, <2>4, <2>5, <2>6, <2>7
<1>8. Nat \subseteq T
    <2> HIDE DEF T
    <2> QED BY <1>6, <1>7, CountingUp
<1>9. f[n + 1] = first \o g[n]
    <2>1. n \in T
        BY <1>1, <1>8
    <2>2. n <= n
        BY <1>1
    <2> QED BY <2>1, <2>2
<1> QED BY <1>1, <1>2, <1>3, <1>9 DEF t, first

\* The start of a sequence.
Starts(s, t) == Len(s) <= Len(t) /\ \A i \in 1..Len(s) : s[i] = t[i]

LEMMA StartsIsPrefix ==
    ASSUME NEW S, NEW T, NEW s \in Seq(S), NEW t \in Seq(T), Starts(s, t)
    PROVE  IsPrefix(s, t)
<1> DEFINE n == Len(s)
<1>1. n \in Nat /\ n <= Len(t)
    BY DEF Starts
<1>2. SubSeq(s, 1, n) \in Seq(S) /\ SubSeq(t, 1, n) \in Seq(T)
    BY <1>1
<1>3. Len(SubSeq(s, 1, n)) = n /\ Len(SubSeq(t, 1, n)) = n
    BY <1>1
<1>4. \A i \in 1..n : SubSeq(s, 1, n)[i] = SubSeq(t, 1, n)[i]
    BY <1>1 DEF Starts
<1>5. SubSeq(s, 1, n) = SubSeq(t, 1, n)
    BY <1>2, <1>3, <1>4, SameSequence
<1> QED BY <1>1, <1>5 DEF IsPrefix

LEMMA JoinStarts ==
    ASSUME NEW S, NEW a \in Seq(Seq(S)), NEW b \in Seq(Seq(S)), Starts(a, b)
    PROVE  Starts(FlattenSeq(a), FlattenSeq(b))
<1> DEFINE k == Len(a)
           n == Len(b)
<1>1. k \in Nat /\ n \in Nat /\ k <= n /\ \A i \in 1..k : a[i] = b[i]
    BY DEF Starts
<1>2. PICK f \in [0..k -> Seq(S)] : Joins(f, a) /\ FlattenSeq(a) = f[k]
    BY JoinIs
<1>3. PICK g \in [0..n -> Seq(S)] : Joins(g, b) /\ FlattenSeq(b) = g[n]
    BY JoinIs
<1>4. f[0] = <<>> /\ \A i \in Nat : i + 1 <= k => f[i + 1] = f[i] \o a[i + 1]
    BY <1>2 DEF Joins
<1>5. g[0] = <<>> /\ \A i \in Nat : i + 1 <= n => g[i + 1] = g[i] \o b[i + 1]
    BY <1>3 DEF Joins
<1>6. \A i \in 0..n : g[i] \in Seq(S)
    BY <1>3
<1>7. \A i \in 1..n : b[i] \in Seq(S)
    OBVIOUS
<1> HIDE DEF k, n
<1> DEFINE T == {i \in Nat : i <= k => f[i] = g[i]}
<1>8. 0 \in T
    BY <1>4, <1>5
<1>9. ASSUME NEW i \in Nat, i \in T PROVE i + 1 \in T
    <2>1. SUFFICES ASSUME i + 1 <= k PROVE f[i + 1] = g[i + 1]
        OBVIOUS
    <2>2. f[i] = g[i] /\ i + 1 <= n /\ a[i + 1] = b[i + 1]
        BY <1>1, <1>9, <2>1
    <2>3. f[i + 1] = f[i] \o a[i + 1] /\ g[i + 1] = g[i] \o b[i + 1]
        BY <1>4, <1>5, <2>1, <2>2
    <2> QED BY <2>2, <2>3
<1>10. Nat \subseteq T
    <2> HIDE DEF T
    <2> QED BY <1>8, <1>9, CountingUp
<1>11. f[k] = g[k]
    BY <1>1, <1>10
<1> DEFINE U == {i \in Nat : k <= i /\ i <= n => Starts(g[k], g[i])}
<1>12. ASSUME NEW i \in Nat PROVE Starts(g[i], g[i])
    BY DEF Starts
<1>13. 0 \in U
    BY <1>1, <1>12
<1>14. ASSUME NEW i \in Nat, i \in U PROVE i + 1 \in U
    <2>1. SUFFICES ASSUME k <= i + 1, i + 1 <= n PROVE Starts(g[k], g[i + 1])
        OBVIOUS
    <2>2. CASE i + 1 = k
        BY <1>12, <2>2
    <2>3. CASE i + 1 # k
        <3>1. k <= i /\ i <= n /\ i \in 0..n /\ i + 1 \in 1..n /\ k \in 0..n
            BY <1>1, <2>1, <2>3
        <3>2. g[i + 1] = g[i] \o b[i + 1]
            BY <1>5, <2>1
        <3>3. Starts(g[k], g[i]) /\ g[i] \in Seq(S) /\ b[i + 1] \in Seq(S) /\ g[k] \in Seq(S)
            BY <1>6, <1>7, <1>14, <3>1
        <3> DEFINE x == g[k]
                   y == g[i]
                   z == b[i + 1]
        <3>4. Starts(x, y \o z)
            <4>1. x \in Seq(S) /\ y \in Seq(S) /\ z \in Seq(S) /\ Starts(x, y)
                BY <3>3
            <4> HIDE DEF x, y, z
            <4> QED BY <4>1 DEF Starts
        <3> QED BY <3>2, <3>4
    <2> QED BY <2>2, <2>3
<1>15. Nat \subseteq U
    <2> HIDE DEF U
    <2> QED BY <1>13, <1>14, CountingUp
<1>16. Starts(g[k], g[n])
    BY <1>1, <1>15
<1> QED BY <1>2, <1>3, <1>11, <1>16

----------------------------------------------------------------------------
(* The writer of a sealed file                                             *)

Chunk == [data : Seq(Bytes), last : BOOLEAN]
Writer == [key : {k1, k2}, chunks : Seq(Chunk), buffer : Seq(Bytes)]

\* The chunks sealed so far are full, and none is the last.
Unfinished(w) ==
    /\ w \in Writer /\ Len(w.buffer) <= ChunkSize
    /\ \A i \in 1..Len(w.chunks) : Len(w.chunks[i].data) = ChunkSize /\ ~w.chunks[i].last

\* The content of a writer: byte o of chunk i is byte (i - 1) * ChunkSize + o.
Holds(w, content) ==
    /\ Len(content) = Len(w.chunks) * ChunkSize + Len(w.buffer)
    /\ \A i \in 1..Len(w.chunks) : \A o \in 1..ChunkSize :
           w.chunks[i].data[o] = content[(i - 1) * ChunkSize + o]
    /\ \A o \in 1..Len(w.buffer) : w.buffer[o] = content[Len(w.chunks) * ChunkSize + o]

\* One byte more.
Taken(w, byte) == [MakeRoom(w) EXCEPT !.buffer = Append(@, byte)]

LEMMA Grown ==
    ASSUME NEW v, NEW key, NEW chunks, NEW buffer, NEW byte,
           v = [key |-> key, chunks |-> chunks, buffer |-> buffer]
    PROVE  [v EXCEPT !.buffer = Append(@, byte)]
           = [key |-> key, chunks |-> chunks, buffer |-> Append(buffer, byte)]
    OBVIOUS

LEMMA Within ==
    ASSUME NEW n \in Nat, NEW d \in Nat, NEW i \in 1..n, NEW o \in 1..d, NEW m \in Nat, n * d <= m
    PROVE  (i - 1) * d + o \in 1..m
<1>1. i - 1 \in Nat /\ i \in Nat /\ i <= n /\ o \in Nat /\ o >= 1 /\ o <= d
    OBVIOUS
<1>2. i * d <= n * d /\ i * d \in Nat /\ n * d \in Nat
    BY <1>1, TimesGrows
<1>3. (i - 1) * d \in Nat
    BY <1>1, TimesGrows
<1>4. i * d = (i - 1) * d + d
    BY <1>1
<1> QED BY <1>1, <1>2, <1>3, <1>4

LEMMA ByteTaken ==
    ASSUME NEW w, Unfinished(w), NEW byte \in Bytes
    PROVE  /\ Unfinished(Taken(w, byte)) /\ Taken(w, byte).key = w.key
           /\ \A content \in Seq(Bytes) :
                  Holds(w, content) => Holds(Taken(w, byte), Append(content, byte))
<1> DEFINE v == Taken(w, byte)
           n == Len(w.chunks)
<1>1. /\ w \in Writer /\ w.chunks \in Seq(Chunk) /\ w.buffer \in Seq(Bytes) /\ n \in Nat
      /\ Len(w.buffer) \in Nat /\ Len(w.buffer) <= ChunkSize /\ ChunkSize \in Nat \ {0}
      /\ w = [key |-> w.key, chunks |-> w.chunks, buffer |-> w.buffer] /\ w.key \in {k1, k2}
    BY SizesAssumption DEF Unfinished, Writer
<1>2. \A i \in 1..n : Len(w.chunks[i].data) = ChunkSize /\ ~w.chunks[i].last
    BY DEF Unfinished
<1>3. CASE Len(w.buffer) = ChunkSize
    <2> DEFINE full == [data |-> w.buffer, last |-> FALSE]
    <2>1. v = [key |-> w.key, chunks |-> Append(w.chunks, full), buffer |-> <<byte>>]
        <3>1. MakeRoom(w) = [key |-> w.key, chunks |-> Append(w.chunks, full), buffer |-> <<>>]
            BY <1>1, <1>3 DEF MakeRoom, SealChunk
        <3>2. Append(<<>>, byte) = <<byte>>
            OBVIOUS
        <3>3. Taken(w, byte)
              = [key |-> w.key, chunks |-> Append(w.chunks, full), buffer |-> Append(<<>>, byte)]
            <4> DEFINE m == MakeRoom(w)
            <4>1. Taken(w, byte) = [m EXCEPT !.buffer = Append(@, byte)]
                BY DEF Taken
            <4> HIDE DEF m
            <4>2. m = [key |-> w.key, chunks |-> Append(w.chunks, full), buffer |-> <<>>]
                BY <3>1 DEF m
            <4> QED BY <4>1, <4>2, Grown
        <3> QED BY <3>2, <3>3
    <2>2. full \in Chunk /\ full.data = w.buffer /\ full.last = FALSE
        BY <1>1 DEF Chunk
    <2> HIDE DEF full
    <2>3. /\ v.chunks = Append(w.chunks, full) /\ v.buffer = <<byte>> /\ v.key = w.key
          /\ v \in Writer
        BY <1>1, <2>1, <2>2 DEF Writer
    <2> HIDE DEF v
    <2>4. /\ Len(v.chunks) = n + 1 /\ v.chunks[n + 1] = full /\ \A i \in 1..n : v.chunks[i] = w.chunks[i]
          /\ Len(v.buffer) = 1 /\ v.buffer[1] = byte
        BY <1>1, <2>2, <2>3
    <2>5. Unfinished(v)
        <3>1. ASSUME NEW i \in 1..Len(v.chunks)
              PROVE  Len(v.chunks[i].data) = ChunkSize /\ ~v.chunks[i].last
            <4>1. CASE i = n + 1
                BY <1>3, <2>2, <2>4, <4>1
            <4>2. CASE i # n + 1
                <5>1. i \in 1..n
                    BY <1>1, <2>4, <4>2
                <5> QED BY <1>2, <2>4, <5>1
            <4> QED BY <4>1, <4>2
        <3> QED BY <1>1, <2>3, <2>4, <3>1 DEF Unfinished
    <2>6. ASSUME NEW content \in Seq(Bytes), Holds(w, content)
          PROVE  Holds(v, Append(content, byte))
        <3> DEFINE more == Append(content, byte)
        <3>1. /\ Len(content) = n * ChunkSize + ChunkSize
              /\ \A i \in 1..n : \A o \in 1..ChunkSize : w.chunks[i].data[o] = content[(i - 1) * ChunkSize + o]
              /\ \A o \in 1..ChunkSize : w.buffer[o] = content[n * ChunkSize + o]
            BY <1>3, <2>6 DEF Holds
        <3>2. /\ Len(more) = Len(content) + 1 /\ more[Len(content) + 1] = byte
              /\ \A j \in 1..Len(content) : more[j] = content[j]
            OBVIOUS
        <3>3. n * ChunkSize \in Nat /\ (n + 1) * ChunkSize = n * ChunkSize + ChunkSize
            BY <1>1
        <3> HIDE DEF more
        <3>4. Len(more) = Len(v.chunks) * ChunkSize + Len(v.buffer)
            BY <1>1, <2>4, <3>1, <3>2, <3>3
        <3>5. ASSUME NEW i \in 1..Len(v.chunks), NEW o \in 1..ChunkSize
              PROVE  v.chunks[i].data[o] = more[(i - 1) * ChunkSize + o]
            <4>1. CASE i = n + 1
                <5>1. (i - 1) * ChunkSize + o = n * ChunkSize + o /\ n * ChunkSize + o \in 1..Len(content)
                    BY <1>1, <3>1, <3>3, <4>1
                <5> QED BY <2>2, <2>4, <3>1, <3>2, <4>1, <5>1
            <4>2. CASE i # n + 1
                <5>1. i \in 1..n /\ i - 1 \in Nat /\ i \in Nat /\ i <= n
                    BY <1>1, <2>4, <4>2
                <5>2. i \in 1..n /\ o \in 1..ChunkSize /\ n * ChunkSize <= Len(content)
                             /\ ChunkSize \in Nat /\ Len(content) \in Nat
                    BY <1>1, <3>1, <3>3, <5>1
                <5>3. (i - 1) * ChunkSize + o \in 1..Len(content)
                    BY <1>1, <5>2, Within
                <5> DEFINE place == (i - 1) * ChunkSize + o
                <5>4. more[place] = content[place]
                    BY <3>2, <5>3
                <5>5. v.chunks[i] = w.chunks[i]
                    BY <2>4, <5>1
                <5>6. w.chunks[i].data[o] = content[place]
                    BY <3>1, <5>1
                <5> QED BY <5>4, <5>5, <5>6
            <4> QED BY <4>1, <4>2
        <3>6. ASSUME NEW o \in 1..Len(v.buffer)
              PROVE  v.buffer[o] = more[Len(v.chunks) * ChunkSize + o]
            <4>1. o = 1 /\ Len(v.chunks) * ChunkSize + o = Len(content) + 1
                BY <1>1, <2>4, <3>1, <3>3
            <4> QED BY <2>4, <3>2, <4>1
        <3> QED BY <3>4, <3>5, <3>6 DEF Holds, more
    <2> QED BY <2>3, <2>5, <2>6 DEF v
<1>4. CASE Len(w.buffer) # ChunkSize
    <2>1. v = [key |-> w.key, chunks |-> w.chunks, buffer |-> Append(w.buffer, byte)]
        <3>1. MakeRoom(w) = w
            BY <1>4 DEF MakeRoom
        <3>2. MakeRoom(w) = [key |-> w.key, chunks |-> w.chunks, buffer |-> w.buffer]
            BY <1>1, <3>1
        <3> DEFINE m == MakeRoom(w)
        <3>3. Taken(w, byte) = [m EXCEPT !.buffer = Append(@, byte)]
            BY DEF Taken
        <3> HIDE DEF m
        <3>4. m = [key |-> w.key, chunks |-> w.chunks, buffer |-> w.buffer]
            BY <3>2 DEF m
        <3> QED BY <3>3, <3>4, Grown
    <2>2. /\ v.chunks = w.chunks /\ v.buffer = Append(w.buffer, byte) /\ v.key = w.key
          /\ v \in Writer
        BY <1>1, <2>1 DEF Writer
    <2> HIDE DEF v
    <2>3. /\ Len(v.buffer) = Len(w.buffer) + 1 /\ v.buffer[Len(w.buffer) + 1] = byte
          /\ \A o \in 1..Len(w.buffer) : v.buffer[o] = w.buffer[o]
        BY <1>1, <2>2
    <2>4. Unfinished(v)
        BY <1>1, <1>2, <1>4, <2>2, <2>3 DEF Unfinished
    <2>5. ASSUME NEW content \in Seq(Bytes), Holds(w, content)
          PROVE  Holds(v, Append(content, byte))
        <3> DEFINE more == Append(content, byte)
                   r == Len(w.buffer)
        <3>1. /\ Len(content) = n * ChunkSize + r
              /\ \A i \in 1..n : \A o \in 1..ChunkSize : w.chunks[i].data[o] = content[(i - 1) * ChunkSize + o]
              /\ \A o \in 1..r : w.buffer[o] = content[n * ChunkSize + o]
            BY <2>5 DEF Holds
        <3>2. /\ Len(more) = Len(content) + 1 /\ more[Len(content) + 1] = byte
              /\ \A j \in 1..Len(content) : more[j] = content[j]
            OBVIOUS
        <3>3. n * ChunkSize \in Nat /\ r \in Nat
            BY <1>1
        <3> HIDE DEF more
        <3>4. Len(more) = n * ChunkSize + (r + 1)
            BY <3>1, <3>2, <3>3
        <3>5. ASSUME NEW i \in 1..n, NEW o \in 1..ChunkSize
              PROVE  w.chunks[i].data[o] = more[(i - 1) * ChunkSize + o]
            <4>1. n * ChunkSize <= Len(content) /\ Len(content) \in Nat
                BY <1>1, <3>1, <3>3
            <4>3. (i - 1) * ChunkSize + o \in 1..Len(content)
                BY <1>1, <4>1, Within
            <4> QED BY <3>1, <3>2, <4>3
        <3>6. ASSUME NEW o \in 1..(r + 1)
              PROVE  v.buffer[o] = more[n * ChunkSize + o]
            <4>1. CASE o = r + 1
                <5>1. n * ChunkSize + o = Len(content) + 1
                    BY <3>1, <3>3, <4>1
                <5> QED BY <2>3, <3>2, <4>1, <5>1
            <4>2. CASE o # r + 1
                <5>1. o \in 1..r /\ n * ChunkSize + o \in 1..Len(content)
                    BY <3>1, <3>3, <4>2
                <5> QED BY <2>3, <3>1, <3>2, <5>1
            <4> QED BY <4>1, <4>2
        <3> QED BY <2>2, <2>3, <3>4, <3>5, <3>6 DEF Holds, more
    <2> QED BY <2>2, <2>4, <2>5 DEF v
<1> QED BY <1>3, <1>4

LEMMA BeginningIs ==
    ASSUME NEW S, NEW t \in Seq(S), NEW i \in 0..Len(t)
    PROVE  /\ SubSeq(t, 1, i) \in Seq(S) /\ Len(SubSeq(t, 1, i)) = i
           /\ \A k \in 1..i : SubSeq(t, 1, i)[k] = t[k]
    OBVIOUS

LEMMA JoinedElements ==
    ASSUME NEW S, NEW s \in Seq(S), NEW t \in Seq(S)
    PROVE  /\ s \o t \in Seq(S) /\ Len(s \o t) = Len(s) + Len(t)
           /\ \A k \in 1..Len(s) : (s \o t)[k] = s[k]
           /\ \A k \in 1..Len(t) : (s \o t)[Len(s) + k] = t[k]
    OBVIOUS

LEMMA OneMore ==
    ASSUME NEW S, NEW s \in Seq(S), NEW t \in Seq(S), NEW i \in Nat, i + 1 <= Len(t)
    PROVE  /\ s \o SubSeq(t, 1, i) \in Seq(S) /\ t[i + 1] \in S
           /\ s \o SubSeq(t, 1, i + 1) = Append(s \o SubSeq(t, 1, i), t[i + 1])
<1> DEFINE a == SubSeq(t, 1, i)
           b == SubSeq(t, 1, i + 1)
           n == Len(s)
<1>0. i \in 0..Len(t) /\ i + 1 \in 0..Len(t) /\ t[i + 1] \in S /\ n \in Nat
    OBVIOUS
<1>1. /\ a \in Seq(S) /\ b \in Seq(S) /\ Len(a) = i /\ Len(b) = i + 1
      /\ \A k \in 1..i : a[k] = t[k]
      /\ \A k \in 1..(i + 1) : b[k] = t[k]
    BY <1>0, BeginningIs
<1> HIDE DEF a, b
<1> DEFINE l == s \o b
           m == s \o a
           r == Append(m, t[i + 1])
<1>21. /\ l \in Seq(S) /\ Len(l) = n + Len(b)
       /\ \A k \in 1..n : l[k] = s[k]
       /\ \A k \in 1..Len(b) : l[n + k] = b[k]
    <2>1. b \in Seq(S)
        BY <1>1
    <2> QED BY <2>1, JoinedElements
<1>31. /\ m \in Seq(S) /\ Len(m) = n + Len(a)
       /\ \A k \in 1..n : m[k] = s[k]
       /\ \A k \in 1..Len(a) : m[n + k] = a[k]
    <2>1. a \in Seq(S)
        BY <1>1
    <2> QED BY <2>1, JoinedElements
<1>2. /\ l \in Seq(S) /\ Len(l) = n + (i + 1)
      /\ \A k \in 1..n : l[k] = s[k]
      /\ \A k \in 1..(i + 1) : l[n + k] = b[k]
    BY <1>1, <1>21
<1>3. /\ m \in Seq(S) /\ Len(m) = n + i
      /\ \A k \in 1..n : m[k] = s[k]
      /\ \A k \in 1..i : m[n + k] = a[k]
    BY <1>1, <1>31
<1> HIDE DEF l, m, n
<1>4. /\ r \in Seq(S) /\ Len(r) = n + (i + 1) /\ r[n + (i + 1)] = t[i + 1]
      /\ \A k \in 1..(n + i) : r[k] = m[k]
    BY <1>0, <1>3
<1> HIDE DEF r
<1>5. ASSUME NEW k \in 1..Len(l) PROVE l[k] = r[k]
    <2>1. CASE k <= n
        BY <1>0, <1>2, <1>3, <1>4, <2>1
    <2>2. CASE k > n /\ k <= n + i
        <3> DEFINE o == k - n
        <3>1. o \in 1..i /\ o \in 1..(i + 1) /\ k = n + o /\ k \in 1..(n + i)
            BY <1>0, <2>2
        <3> HIDE DEF o
        <3>2. l[n + o] = b[o] /\ m[n + o] = a[o] /\ r[n + o] = m[n + o] /\ a[o] = t[o] /\ b[o] = t[o]
            <4>1. n + o \in 1..(n + i)
                BY <3>1
            <4> QED BY <1>1, <1>2, <1>3, <1>4, <3>1, <4>1
        <3> QED BY <3>1, <3>2
    <2>3. CASE k = n + (i + 1)
        <3>1. i + 1 \in 1..(i + 1)
            OBVIOUS
        <3> QED BY <1>1, <1>2, <1>4, <2>3, <3>1
    <2> QED BY <1>0, <1>2, <2>1, <2>2, <2>3
<1>6. l = r
    BY <1>2, <1>4, <1>5, SameSequence
<1> QED BY <1>0, <1>3, <1>6 DEF a, b, l, r, m

LEMMA NothingMore ==
    ASSUME NEW S, NEW s \in Seq(S), NEW t \in Seq(S)
    PROVE  s \o SubSeq(t, 1, 0) = s /\ SubSeq(t, 1, Len(t)) = t /\ s \o t \in Seq(S)
<1>1. SubSeq(t, 1, 0) = <<>> /\ s \o <<>> = s
    BY SameSequence
<1>2. SubSeq(t, 1, Len(t)) = t
    BY SameSequence
<1> QED BY <1>1, <1>2

\* What write_plain leaves.
LEMMA PlainWritten ==
    ASSUME NEW w, Unfinished(w), NEW data \in Seq(Bytes)
    PROVE  /\ Unfinished(WritePlain(w, data)) /\ WritePlain(w, data).key = w.key
           /\ \A content \in Seq(Bytes) :
                  Holds(w, content) => Holds(WritePlain(w, data), content \o data)
<1> DEFINE n == Len(data)
           A == {v \in Writer : Unfinished(v) /\ v.key = w.key}
           step == [x \in (1..n) \X A |-> Taken(x[2], data[x[1]])]
           Writes(g) == g = [s \in SUBSET (1..n) |->
                                IF s = {} THEN w ELSE Taken(g[s \ {Max(s)}], data[Max(s)])]
<1>1. n \in Nat /\ DOMAIN data = 1..n /\ \A i \in 1..n : data[i] \in Bytes
    OBVIOUS
<1>2. w \in A /\ \A v : v \in A <=> Unfinished(v) /\ v.key = w.key
    BY DEF Unfinished
<1>3. \A i \in 1..n, v \in A : Taken(v, data[i]) \in A
    <2>1. TAKE i \in 1..n, v \in A
    <2>2. Unfinished(v) /\ data[i] \in Bytes /\ v.key = w.key
        BY <1>1, <1>2
    <2>3. Unfinished(Taken(v, data[i])) /\ Taken(v, data[i]).key = v.key
        BY <2>2, ByteTaken
    <2> QED BY <1>2, <2>2, <2>3
<1> HIDE DEF A, n
<1>4. step \in [(1..n) \X A -> A] /\ \A i \in 1..n, v \in A : step[<<i, v>>] = Taken(v, data[i])
    BY <1>3
<1> HIDE DEF step
<1>5. PICK h \in [SUBSET (1..n) -> A] : UnfoldsLeft(h, n, w, step)
    BY <1>1, <1>2, <1>4, LeftFoldExists
<1>6. Writes(h)
    <2>1. ASSUME NEW s \in SUBSET (1..n), s # {}
          PROVE  step[<<Max(s), h[s \ {Max(s)}]>>] = Taken(h[s \ {Max(s)}], data[Max(s)])
        <3>1. n \in Nat /\ s \subseteq 1..n /\ s \subseteq 0..n
            BY <1>1, <2>1
        <3>2. Max(s) \in s
            BY <2>1, <3>1, GreatestNumber
        <3>3. Max(s) \in 1..n /\ s \ {Max(s)} \in SUBSET (1..n)
            BY <3>1, <3>2
        <3>4. h[s \ {Max(s)}] \in A
            BY <1>5, <3>3
        <3> QED BY <1>4, <3>3, <3>4
    <2>2. \A s \in SUBSET (1..n) : h[s] = IF s = {} THEN w ELSE step[<<Max(s), h[s \ {Max(s)}]>>]
        BY <1>5 DEF UnfoldsLeft
    <2> QED BY <2>1, <2>2
<1> DEFINE g == CHOOSE g : Writes(g)
<1>7. Writes(g)
    <2> HIDE DEF Writes
    <2> QED BY <1>6
<1>8. WritePlain(w, data) = g[1..n]
    BY <1>1, Zenon DEF WritePlain, FoldLeft, MapThenFoldSet, Taken
<1> HIDE DEF g
<1>9. \A s \in SUBSET (1..n) : g[s] = IF s = {} THEN w ELSE Taken(g[s \ {Max(s)}], data[Max(s)])
    BY <1>7 DEF Writes
<1> HIDE DEF Writes
<1> DEFINE Fits(i) == /\ g[1..i] \in A
                      /\ \A content \in Seq(Bytes) :
                             Holds(w, content) => Holds(g[1..i], content \o SubSeq(data, 1, i))
           T == {i \in Nat : i <= n => Fits(i)}
<1>10. 0 \in T
    <2>1. g[1..0] = w
        BY <1>1, <1>9, Initially
    <2>2. \A content \in Seq(Bytes) : content \o SubSeq(data, 1, 0) = content
        BY NothingMore
    <2> QED BY <1>2, <2>1, <2>2
<1>11. ASSUME NEW i \in Nat, i \in T PROVE i + 1 \in T
    <2>1. SUFFICES ASSUME i + 1 <= n PROVE Fits(i + 1)
        OBVIOUS
    <2>2. i + 1 \in Nat \ {0} /\ (i + 1) - 1 = i /\ i + 1 \in 1..n /\ 1..(i + 1) \in SUBSET (1..n)
        BY <1>1, <2>1
    <2>3. /\ Max(1..(i + 1)) = i + 1 /\ 1..(i + 1) # {}
          /\ (1..(i + 1)) \ {Max(1..(i + 1))} = 1..i
        BY <2>2, Initially
    <2>4. g[1..(i + 1)] = Taken(g[1..i], data[i + 1])
        BY <1>9, <2>2, <2>3
    <2>5. Fits(i)
        <3>1. i <= n
            BY <1>1, <2>1
        <3> QED BY <1>11, <3>1
    <2>6. g[1..(i + 1)] \in A
        BY <1>3, <2>2, <2>4, <2>5
    <2>7. ASSUME NEW content \in Seq(Bytes), Holds(w, content)
          PROVE  Holds(g[1..(i + 1)], content \o SubSeq(data, 1, i + 1))
        <3> DEFINE c == content \o SubSeq(data, 1, i)
                   v == g[1..i]
        <3>1. /\ c \in Seq(Bytes) /\ data[i + 1] \in Bytes
              /\ content \o SubSeq(data, 1, i + 1) = Append(c, data[i + 1])
            BY <2>1, OneMore DEF n
        <3>2. Holds(v, c) /\ Unfinished(v)
            BY <1>2, <2>5, <2>7
        <3> HIDE DEF c, v
        <3>3. Holds(Taken(v, data[i + 1]), Append(c, data[i + 1]))
            BY <3>1, <3>2, ByteTaken
        <3> QED BY <2>4, <3>1, <3>3 DEF v
    <2> QED BY <2>6, <2>7
<1>12. Fits(n)
    <2>1. n \in T
        <3> HIDE DEF T
        <3> QED BY <1>1, <1>10, <1>11, CountingUp
    <2>2. n <= n
        BY <1>1
    <2> QED BY <2>1, <2>2
<1>13. SubSeq(data, 1, n) = data
    BY NothingMore DEF n
<1> QED BY <1>2, <1>8, <1>12, <1>13

----------------------------------------------------------------------------
(* The finished file                                                       *)

\* The length of the first chunks, tags included.
Measures(f, chunks) ==
    f[0] = 0 /\ \A i \in Nat : i + 1 <= Len(chunks) => f[i + 1] = f[i] + Len(chunks[i + 1].data) + TagLen

LEMMA BodyIs ==
    ASSUME NEW chunks \in Seq(Chunk)
    PROVE  \E f \in [0..Len(chunks) -> Nat] : Measures(f, chunks) /\ BodyLen(chunks) = f[Len(chunks)]
<1> DEFINE n == Len(chunks)
           step == [x \in (1..n) \X Nat |-> x[2] + Len(chunks[x[1]].data) + TagLen]
           Adds(g) == g = [s \in SUBSET (1..n) |->
                              IF s = {} THEN 0 ELSE g[s \ {Max(s)}] + Len(chunks[Max(s)].data) + TagLen]
<1>1. n \in Nat /\ DOMAIN chunks = 1..n /\ \A i \in 1..n : chunks[i] \in Chunk
    OBVIOUS
<1>2. TagLen \in Nat /\ \A i \in 1..n : Len(chunks[i].data) \in Nat
    BY <1>1, SizesAssumption DEF Chunk
<1> HIDE DEF n
<1>3. /\ step \in [(1..n) \X Nat -> Nat] /\ 0 \in Nat
      /\ \A i \in 1..n, v \in Nat : step[<<i, v>>] = v + Len(chunks[i].data) + TagLen
    <2>1. \A i \in 1..n, v \in Nat : v + Len(chunks[i].data) + TagLen \in Nat
        BY <1>2
    <2>2. \A x \in (1..n) \X Nat : x[1] \in 1..n /\ x[2] \in Nat
        OBVIOUS
    <2>3. \A x \in (1..n) \X Nat : x[2] + Len(chunks[x[1]].data) + TagLen \in Nat
        BY <2>1, <2>2
    <2>4. step \in [(1..n) \X Nat -> Nat]
        BY <2>3
    <2>5. \A i \in 1..n, v \in Nat : step[<<i, v>>] = v + Len(chunks[i].data) + TagLen
        OBVIOUS
    <2> QED BY <2>4, <2>5
<1> HIDE DEF step
<1>4. PICK h \in [SUBSET (1..n) -> Nat] : UnfoldsLeft(h, n, 0, step)
    BY <1>1, <1>3, LeftFoldExists
<1>5. Adds(h)
    <2>1. ASSUME NEW s \in SUBSET (1..n), s # {}
          PROVE  step[<<Max(s), h[s \ {Max(s)}]>>]
                 = h[s \ {Max(s)}] + Len(chunks[Max(s)].data) + TagLen
        <3>1. n \in Nat /\ s \subseteq 1..n /\ s \subseteq 0..n
            BY <1>1, <2>1
        <3>2. Max(s) \in s
            BY <2>1, <3>1, GreatestNumber
        <3>3. Max(s) \in 1..n /\ s \ {Max(s)} \in SUBSET (1..n)
            BY <3>1, <3>2
        <3>4. h[s \ {Max(s)}] \in Nat
            BY <1>4, <3>3
        <3> QED BY <1>3, <3>3, <3>4
    <2>2. \A s \in SUBSET (1..n) : h[s] = IF s = {} THEN 0 ELSE step[<<Max(s), h[s \ {Max(s)}]>>]
        BY <1>4 DEF UnfoldsLeft
    <2> QED BY <2>1, <2>2
<1> DEFINE g == CHOOSE g : Adds(g)
<1>6. Adds(g)
    <2> HIDE DEF Adds
    <2> QED BY <1>5
<1>7. BodyLen(chunks) = g[1..n]
    BY <1>1, Zenon DEF BodyLen, FoldLeft, MapThenFoldSet
<1> HIDE DEF g
<1>8. \A s \in SUBSET (1..n) :
          g[s] = IF s = {} THEN 0 ELSE g[s \ {Max(s)}] + Len(chunks[Max(s)].data) + TagLen
    BY <1>6 DEF Adds
<1> HIDE DEF Adds
<1> DEFINE f == [i \in 0..n |-> g[1..i]]
           T == {i \in Nat : i <= n => g[1..i] \in Nat}
<1>9. g[1..0] = 0
    BY <1>1, <1>8, Initially
<1>10. ASSUME NEW i \in Nat, i + 1 <= n
       PROVE  g[1..(i + 1)] = g[1..i] + Len(chunks[i + 1].data) + TagLen
    <2>2. i + 1 \in Nat \ {0} /\ (i + 1) - 1 = i /\ i + 1 \in 1..n /\ 1..(i + 1) \in SUBSET (1..n)
        BY <1>1, <1>10
    <2>3. /\ Max(1..(i + 1)) = i + 1 /\ 1..(i + 1) # {}
          /\ (1..(i + 1)) \ {Max(1..(i + 1))} = 1..i
        BY <2>2, Initially
    <2> QED BY <1>8, <2>2, <2>3
<1>11. ASSUME NEW i \in Nat, i \in T PROVE i + 1 \in T
    <2>1. SUFFICES ASSUME i + 1 <= n PROVE g[1..(i + 1)] \in Nat
        OBVIOUS
    <2>2. i <= n /\ i + 1 \in 1..n
        BY <1>1, <2>1
    <2>3. g[1..i] \in Nat
        BY <1>11, <2>2
    <2>4. g[1..(i + 1)] = g[1..i] + Len(chunks[i + 1].data) + TagLen
        BY <1>10, <2>1
    <2>5. Len(chunks[i + 1].data) \in Nat
        BY <1>2, <2>2
    <2> QED BY <1>2, <2>3, <2>4, <2>5
<1>12. Nat \subseteq T
    <2>1. 0 \in T
        BY <1>9
    <2> HIDE DEF T
    <2> QED BY <1>11, <2>1, CountingUp
<1>13. f \in [0..n -> Nat]
    <2>1. \A i \in 0..n : g[1..i] \in Nat
        BY <1>1, <1>12
    <2> QED BY <2>1
<1>14. Measures(f, chunks)
    <2>1. f[0] = 0
        BY <1>1, <1>9
    <2>2. ASSUME NEW i \in Nat, i + 1 <= Len(chunks)
          PROVE  f[i + 1] = f[i] + Len(chunks[i + 1].data) + TagLen
        <3>1. i + 1 <= n /\ i \in 0..n /\ i + 1 \in 0..n
            BY <1>1, <2>2 DEF n
        <3> QED BY <1>10, <3>1
    <2> QED BY <2>1, <2>2 DEF Measures
<1>15. f[n] = g[1..n]
    BY <1>1
<1> HIDE DEF f
<1> QED BY <1>7, <1>13, <1>14, <1>15 DEF n

LEMMA ChunkSealed ==
    ASSUME NEW w, NEW key, NEW chunks, NEW buffer,
           w = [key |-> key, chunks |-> chunks, buffer |-> buffer]
    PROVE  SealChunk(w, TRUE)
           = [key |-> key, chunks |-> Append(chunks, [data |-> buffer, last |-> TRUE]), buffer |-> <<>>]
<1> DEFINE x == Append(chunks, [data |-> buffer, last |-> TRUE])
<1>1. w.chunks = chunks /\ w.buffer = buffer
    OBVIOUS
<1>2. SealChunk(w, TRUE) = [w EXCEPT !.chunks = x, !.buffer = <<>>]
    BY <1>1, Zenon DEF SealChunk
<1> HIDE DEF x
<1>3. [w EXCEPT !.chunks = x, !.buffer = <<>>] = [key |-> key, chunks |-> x, buffer |-> <<>>]
    <2> DEFINE m == [w EXCEPT !.chunks = x]
    <2>1. m = [key |-> key, chunks |-> x, buffer |-> buffer]
        OBVIOUS
    <2>2. [w EXCEPT !.chunks = x, !.buffer = <<>>] = [m EXCEPT !.buffer = <<>>]
        OBVIOUS
    <2> HIDE DEF m
    <2>3. [m EXCEPT !.buffer = <<>>] = [key |-> key, chunks |-> x, buffer |-> <<>>]
        BY <2>1
    <2> QED BY <2>2, <2>3
<1> QED BY <1>2, <1>3 DEF x

\* Full chunks and the one held back.
LEMMA SealedIs ==
    ASSUME NEW w, Unfinished(w)
    PROVE  LET v == SealChunk(w, TRUE)
               n == Len(w.chunks)
           IN /\ v = [key |-> w.key,
                      chunks |-> Append(w.chunks, [data |-> w.buffer, last |-> TRUE]), buffer |-> <<>>]
              /\ v.key = w.key /\ w.key \in {k1, k2} /\ n \in Nat /\ Len(w.buffer) \in 0..ChunkSize
              /\ Len(v.chunks) = n + 1
              /\ \A i \in 1..n : v.chunks[i] = w.chunks[i] /\ Len(v.chunks[i].data) = ChunkSize
                                 /\ v.chunks[i].last = FALSE
              /\ v.chunks[n + 1].data = w.buffer /\ v.chunks[n + 1].last = TRUE
              /\ BodyLen(v.chunks) = n * SealedChunk + (Len(w.buffer) + TagLen)
<1> DEFINE v == SealChunk(w, TRUE)
           n == Len(w.chunks)
           c == [data |-> w.buffer, last |-> TRUE]
           r == Len(w.buffer)
<1>1. /\ w \in Writer /\ w.chunks \in Seq(Chunk) /\ w.buffer \in Seq(Bytes) /\ n \in Nat
      /\ r \in Nat /\ r <= ChunkSize /\ ChunkSize \in Nat \ {0} /\ TagLen \in Nat \ {0}
      /\ w = [key |-> w.key, chunks |-> w.chunks, buffer |-> w.buffer] /\ w.key \in {k1, k2}
    BY SizesAssumption DEF Unfinished, Writer
<1>2. \A i \in 1..n : Len(w.chunks[i].data) = ChunkSize /\ w.chunks[i].last = FALSE
    <2>1. \A i \in 1..n : w.chunks[i] \in Chunk
        BY <1>1
    <2>2. \A i \in 1..n : w.chunks[i].last \in BOOLEAN
        BY <2>1 DEF Chunk
    <2> QED BY <2>2 DEF Unfinished
<1>3. v = [key |-> w.key, chunks |-> Append(w.chunks, c), buffer |-> <<>>]
    <2> DEFINE key == w.key
               chunks == w.chunks
               buffer == w.buffer
    <2>1. w = [key |-> key, chunks |-> chunks, buffer |-> buffer]
        BY <1>1
    <2> HIDE DEF key, chunks, buffer
    <2>2. SealChunk(w, TRUE)
          = [key |-> key, chunks |-> Append(chunks, [data |-> buffer, last |-> TRUE]), buffer |-> <<>>]
        BY <2>1, ChunkSealed, Zenon
    <2> QED BY <2>2 DEF key, chunks, buffer
<1>4. c \in Chunk /\ c.data = w.buffer /\ c.last = TRUE
    BY <1>1 DEF Chunk
<1> HIDE DEF v, c
<1>5. /\ v.chunks \in Seq(Chunk) /\ Len(v.chunks) = n + 1 /\ v.chunks[n + 1] = c /\ v.key = w.key
      /\ \A i \in 1..n : v.chunks[i] = w.chunks[i]
    BY <1>1, <1>3, <1>4
<1> HIDE DEF n, r
<1>6. BodyLen(v.chunks) = n * SealedChunk + (r + TagLen)
    <2>1. PICK f \in [0..Len(v.chunks) -> Nat] :
              Measures(f, v.chunks) /\ BodyLen(v.chunks) = f[Len(v.chunks)]
        BY <1>5, BodyIs
    <2>2. f[0] = 0 /\ \A i \in Nat : i + 1 <= n + 1 => f[i + 1] = f[i] + Len(v.chunks[i + 1].data) + TagLen
        BY <1>5, <2>1 DEF Measures
    <2> DEFINE T == {i \in Nat : i <= n => f[i] = i * SealedChunk}
    <2>3. 0 \in T
        BY <1>1, <2>2 DEF SealedChunk
    <2>4. ASSUME NEW i \in Nat, i \in T PROVE i + 1 \in T
        <3>1. SUFFICES ASSUME i + 1 <= n PROVE f[i + 1] = (i + 1) * SealedChunk
            OBVIOUS
        <3>2. i + 1 \in 1..n /\ i + 1 <= n + 1 /\ i <= n
            BY <1>1, <3>1
        <3>3. f[i] = i * SealedChunk
            BY <2>4, <3>2
        <3>4. f[i + 1] = f[i] + Len(v.chunks[i + 1].data) + TagLen
            BY <2>2, <3>2
        <3>5. Len(v.chunks[i + 1].data) = ChunkSize
            BY <1>2, <1>5, <3>2
        <3> DEFINE d == SealedChunk
        <3>6. d \in Nat /\ d = ChunkSize + TagLen
            BY <1>1 DEF SealedChunk
        <3> HIDE DEF d
        <3>7. f[i + 1] = i * d + ChunkSize + TagLen /\ i * d \in Nat /\ (i + 1) * d = i * d + d
            BY <3>3, <3>4, <3>5, <3>6 DEF d
        <3>8. f[i + 1] = (i + 1) * d
            BY <1>1, <3>6, <3>7
        <3> QED BY <3>8 DEF d
    <2>5. f[n] = n * SealedChunk
        <3>1. n \in T
            <4> HIDE DEF T
            <4> QED BY <1>1, <2>3, <2>4, CountingUp
        <3>2. n <= n
            BY <1>1
        <3> QED BY <3>1, <3>2
    <2>6. f[n + 1] = f[n] + Len(v.chunks[n + 1].data) + TagLen
        <3>1. n + 1 <= n + 1
            BY <1>1
        <3> QED BY <1>1, <2>2, <3>1
    <2>7. Len(v.chunks[n + 1].data) = r
        BY <1>4, <1>5 DEF r
    <2> DEFINE a == n * SealedChunk
    <2>8. a \in Nat /\ f[n + 1] = a + r + TagLen /\ BodyLen(v.chunks) = f[n + 1]
        <3>1. SealedChunk \in Nat
            BY <1>1 DEF SealedChunk
        <3>2. a \in Nat
            BY <1>1, <3>1
        <3> QED BY <1>5, <2>1, <2>5, <2>6, <2>7, <3>2
    <2> HIDE DEF a
    <2>9. BodyLen(v.chunks) = a + (r + TagLen)
        BY <1>1, <2>8
    <2> QED BY <2>9 DEF a
<1>7. r \in 0..ChunkSize
    BY <1>1
<1>8. \A i \in 1..n : v.chunks[i] = w.chunks[i] /\ Len(v.chunks[i].data) = ChunkSize /\ v.chunks[i].last = FALSE
    BY <1>2, <1>5
<1> QED BY <1>1, <1>3, <1>4, <1>5, <1>6, <1>7, <1>8 DEF v, n, r, c

LEMMA ChunkIsPositive ==
    /\ SealedChunk \in Nat /\ SealedChunk = ChunkSize + TagLen /\ SealedChunk > 0
    /\ ChunkSize \in Nat /\ ChunkSize > 0 /\ TagLen \in Nat /\ TagLen > 0
    BY SizesAssumption DEF SealedChunk

\* From the length alone: how many chunks, and how many bytes of content.
LEMMA LengthSays ==
    ASSUME NEW f, NEW n \in Nat, NEW r \in 0..ChunkSize, f.size = n * SealedChunk + (r + TagLen)
    PROVE  /\ f.size \in Nat /\ WellFormed(f) /\ ChunkCount(f) = n + 1
           /\ PlainLen(f) = n * ChunkSize + r /\ PlainLen(f) \in Nat
<1> DEFINE d == SealedChunk
           b == n * ChunkSize
<1>1. /\ d \in Nat /\ d = ChunkSize + TagLen /\ d > 0 /\ n * d \in Nat /\ b \in Nat
      /\ ChunkSize \in Nat /\ ChunkSize > 0 /\ TagLen \in Nat /\ TagLen > 0
    <2>1. /\ d \in Nat /\ d = ChunkSize + TagLen /\ d > 0
          /\ ChunkSize \in Nat /\ ChunkSize > 0 /\ TagLen \in Nat /\ TagLen > 0
        BY ChunkIsPositive
    <2> HIDE DEF d
    <2>2. n * d \in Nat /\ b \in Nat
        BY <2>1, TimesGrows
    <2> QED BY <2>1, <2>2
<1>2. Whole(f) = f.size \div d /\ Rest(f) = f.size % d /\ f.size = n * d + (r + TagLen)
    BY DEF Whole, Rest
<1>3. (n + 1) * ChunkSize = b + ChunkSize /\ (n + 1) * d = n * d + d
    <2>1. n + 1 \in Nat /\ ChunkSize \in Nat /\ d \in Nat
        BY <1>1
    <2> HIDE DEF d
    <2> QED BY <2>1
<1> HIDE DEF d, b
<1>4. f.size \in Nat /\ f.size >= TagLen
    BY <1>1, <1>2
<1>5. CASE r = ChunkSize
    <2>1. f.size = (n + 1) * d + 0 /\ n + 1 \in Nat /\ 0 < d
        BY <1>1, <1>2, <1>3, <1>5
    <2>2. Whole(f) = n + 1 /\ Rest(f) = 0
        BY <1>1, <1>2, <2>1, Divides
    <2>3. ChunkCount(f) = n + 1 /\ PlainLen(f) = (n + 1) * ChunkSize
        BY <2>2 DEF ChunkCount, PlainLen
    <2>4. WellFormed(f)
        BY <1>1, <1>4, <2>2 DEF WellFormed
    <2> QED BY <1>1, <1>3, <1>4, <1>5, <2>3, <2>4 DEF b
<1>6. CASE r # ChunkSize
    <2>1. r + TagLen \in Nat /\ r + TagLen < d /\ r + TagLen >= TagLen
        BY <1>1, <1>6
    <2>2. Whole(f) = n /\ Rest(f) = r + TagLen
        <3> DEFINE e == r + TagLen
        <3>1. e \in Nat /\ e < d /\ d \in Nat /\ f.size = n * d + e
            BY <1>1, <1>2, <2>1
        <3> HIDE DEF e
        <3>2. (n * d + e) \div d = n /\ (n * d + e) % d = e
            BY <3>1, Divides
        <3> QED BY <1>2, <3>1, <3>2 DEF e
    <2>3. ChunkCount(f) = n + 1 /\ PlainLen(f) = b + (r + TagLen) - TagLen
        <3>1. Rest(f) # 0
            BY <1>1, <2>1, <2>2
        <3> QED BY <2>2, <3>1 DEF ChunkCount, PlainLen, b
    <2>4. WellFormed(f)
        BY <1>1, <1>4, <2>1, <2>2 DEF WellFormed
    <2> QED BY <1>1, <1>4, <2>3, <2>4 DEF b
<1> QED BY <1>5, <1>6

\* And back: so many chunks, and so many bytes in the last, is one length only.
LEMMA LengthIsSaid ==
    ASSUME NEW f, f.size \in Nat, WellFormed(f)
    PROVE  /\ ChunkCount(f) \in Nat \ {0}
           /\ \A n \in Nat, r \in 0..ChunkSize :
                  ChunkCount(f) = n + 1 /\ PlainLen(f) - n * ChunkSize = r
                  => f.size = n * SealedChunk + (r + TagLen)
<1> DEFINE d == SealedChunk
           p == Whole(f)
           q == Rest(f)
<1>1. /\ d \in Nat /\ d = ChunkSize + TagLen /\ d > 0
      /\ ChunkSize \in Nat /\ ChunkSize > 0 /\ TagLen \in Nat /\ TagLen > 0
    BY ChunkIsPositive
<1>2. p \in Nat /\ q \in Nat /\ f.size = p * d + q /\ f.size >= TagLen
    <2> DEFINE s == f.size
    <2>1. s \in Nat /\ p = s \div d /\ q = s % d /\ s >= TagLen
        BY DEF WellFormed, Whole, Rest
    <2> HIDE DEF s, d
    <2>2. s \div d \in Nat /\ s % d \in Nat /\ s = (s \div d) * d + (s % d)
        BY <1>1, <2>1, Quotient
    <2> HIDE DEF p, q
    <2> QED BY <2>1, <2>2 DEF s
<1> HIDE DEF d
<1>3. ChunkCount(f) = IF q = 0 THEN p ELSE p + 1
    BY DEF ChunkCount
<1>4. PlainLen(f) = IF q = 0 THEN p * ChunkSize ELSE p * ChunkSize + q - TagLen
    BY DEF PlainLen
<1> HIDE DEF p, q
<1>5. ChunkCount(f) \in Nat \ {0}
    <2>1. p * d = 0 \/ p # 0
        BY <1>1, <1>2
    <2> QED BY <1>1, <1>2, <1>3, <2>1
<1>6. ASSUME NEW n \in Nat, NEW r \in 0..ChunkSize, ChunkCount(f) = n + 1, PlainLen(f) - n * ChunkSize = r
      PROVE  f.size = n * d + (r + TagLen)
    <2>1. CASE q = 0
        <3>1. p = n + 1 /\ p * ChunkSize - n * ChunkSize = r
            BY <1>3, <1>4, <1>6, <2>1
        <3>2. (n + 1) * ChunkSize = n * ChunkSize + ChunkSize /\ n * ChunkSize \in Nat
              /\ (n + 1) * d = n * d + d /\ n * d \in Nat
            BY <1>1
        <3>3. r = ChunkSize
            BY <1>1, <3>1, <3>2
        <3> QED BY <1>1, <1>2, <2>1, <3>1, <3>2, <3>3
    <2>2. CASE q # 0
        <3>1. p = n /\ (p * ChunkSize + q - TagLen) - n * ChunkSize = r
            <4>1. p + 1 = n + 1
                BY <1>3, <1>6, <2>2
            <4>2. p = n
                BY <1>2, <4>1
            <4>3. PlainLen(f) = p * ChunkSize + q - TagLen
                BY <1>4, <2>2
            <4>4. PlainLen(f) - n * ChunkSize = r
                BY <1>6
            <4> QED BY <4>2, <4>3, <4>4
        <3>2. n * ChunkSize \in Nat /\ n * d \in Nat
            BY <1>1
        <3>3. q = r + TagLen
            BY <1>1, <1>2, <3>1, <3>2
        <3> QED BY <1>2, <3>1, <3>3
    <2> QED BY <2>1, <2>2
<1> QED BY <1>5, <1>6 DEF d

\* A finished file: of `content`, under `key`.
FileOf(f, content) == \E w : Unfinished(w) /\ Holds(w, content) /\ f = Finish(w)

\* A finished file of n full chunks, and r bytes in the last.
Laid(f, content, n, r) ==
    /\ f.size = n * SealedChunk + (r + TagLen)
    /\ n \in Nat /\ r \in 0..ChunkSize
    /\ f.size \in Nat /\ WellFormed(f) /\ ChunkCount(f) = n + 1
    /\ PlainLen(f) = n * ChunkSize + r /\ PlainLen(f) = Len(content)
    /\ Len(f.chunks) = n + 1
    /\ \A i \in 1..n : Len(f.chunks[i].data) = ChunkSize /\ f.chunks[i].last = FALSE
    /\ Len(f.chunks[n + 1].data) = r /\ f.chunks[n + 1].last = TRUE
    /\ \A i \in 1..n : \A o \in 1..ChunkSize :
           f.chunks[i].data[o] = content[(i - 1) * ChunkSize + o]
    /\ \A o \in 1..r : f.chunks[n + 1].data[o] = content[n * ChunkSize + o]

LEMMA FileIs ==
    ASSUME NEW w, Unfinished(w), NEW content \in Seq(Bytes), Holds(w, content)
    PROVE  LET f == Finish(w) IN
           /\ f.key = w.key /\ f = [key |-> f.key, chunks |-> f.chunks, size |-> f.size]
           /\ Laid(f, content, Len(w.chunks), Len(w.buffer))
<1> DEFINE v == SealChunk(w, TRUE)
           f == Finish(w)
           n == Len(w.chunks)
           r == Len(w.buffer)
<1>1. /\ v.key = w.key /\ n \in Nat /\ r \in 0..ChunkSize
      /\ Len(v.chunks) = n + 1
      /\ \A i \in 1..n : v.chunks[i] = w.chunks[i] /\ Len(v.chunks[i].data) = ChunkSize
                         /\ v.chunks[i].last = FALSE
      /\ v.chunks[n + 1].data = w.buffer /\ v.chunks[n + 1].last = TRUE
      /\ BodyLen(v.chunks) = n * SealedChunk + (r + TagLen)
    BY SealedIs
<1>2. f = [key |-> v.key, chunks |-> v.chunks, size |-> BodyLen(v.chunks) - 0]
    BY DEF Finish, OnDisk
<1> HIDE DEF v, f
<1>3. /\ Len(content) = n * ChunkSize + r
      /\ \A i \in 1..n : \A o \in 1..ChunkSize : w.chunks[i].data[o] = content[(i - 1) * ChunkSize + o]
      /\ \A o \in 1..r : w.buffer[o] = content[n * ChunkSize + o]
    BY DEF Holds
<1> DEFINE s == n * SealedChunk + (r + TagLen)
<1>4. s \in Nat
    <2> DEFINE d == SealedChunk
    <2>1. n \in Nat /\ r \in 0..ChunkSize /\ d \in Nat /\ ChunkSize \in Nat /\ TagLen \in Nat
        BY <1>1, ChunkIsPositive
    <2> HIDE DEF d, n, r
    <2>2. n * d \in Nat /\ r + TagLen \in Nat
        BY <2>1, TimesGrows
    <2> QED BY <2>2 DEF d
<1>5. f.size = s /\ f.key = w.key /\ f.chunks = v.chunks
      /\ f = [key |-> f.key, chunks |-> f.chunks, size |-> f.size]
    <2> HIDE DEF s
    <2> QED BY <1>1, <1>2, <1>4 DEF s
<1> HIDE DEF n, r
<1>6. WellFormed(f) /\ ChunkCount(f) = n + 1 /\ PlainLen(f) = n * ChunkSize + r
    BY <1>1, <1>5, LengthSays
<1>7. \A i \in 1..n : \A o \in 1..ChunkSize : f.chunks[i].data[o] = content[(i - 1) * ChunkSize + o]
    <2>1. ASSUME NEW i \in 1..n PROVE f.chunks[i].data = w.chunks[i].data
        BY <1>1, <1>5
    <2> QED BY <1>3, <2>1
<1>8. /\ \A i \in 1..n : Len(f.chunks[i].data) = ChunkSize /\ f.chunks[i].last = FALSE
      /\ Len(f.chunks) = n + 1 /\ f.chunks[n + 1].data = w.buffer /\ f.chunks[n + 1].last = TRUE
    BY <1>1, <1>5
<1>9. /\ Len(f.chunks[n + 1].data) = r
      /\ \A o \in 1..r : f.chunks[n + 1].data[o] = content[n * ChunkSize + o]
    BY <1>3, <1>8 DEF r
<1>10. f.size = n * SealedChunk + (r + TagLen) /\ f.size \in Nat /\ n \in Nat /\ r \in 0..ChunkSize
       /\ PlainLen(f) = Len(content)
    BY <1>1, <1>3, <1>4, <1>5, <1>6
<1>11. Laid(f, content, n, r)
    <2> HIDE DEF s
    <2> QED BY <1>6, <1>7, <1>8, <1>9, <1>10 DEF Laid
<1> QED BY <1>5, <1>11 DEF f, n, r

LEMMA FileIsLaid ==
    ASSUME NEW f, NEW content \in Seq(Bytes), FileOf(f, content)
    PROVE  \E n, r : Laid(f, content, n, r)
<1>1. PICK w : Unfinished(w) /\ Holds(w, content) /\ f = Finish(w)
    BY DEF FileOf
<1> DEFINE n == Len(w.chunks)
           r == Len(w.buffer)
<1>2. Laid(Finish(w), content, n, r)
    BY <1>1, FileIs
<1> QED BY <1>1, <1>2

\* Every chunk loads.
LEMMA ChunksLoad ==
    ASSUME NEW f, NEW content \in Seq(Bytes), NEW n, NEW r, Laid(f, content, n, r), NEW i \in 0..n
    PROVE  Loads(f, i, f.key)
<1>1. /\ n \in Nat /\ r \in 0..ChunkSize /\ ChunkCount(f) = n + 1 /\ Len(f.chunks) = n + 1
      /\ PlainLen(f) = n * ChunkSize + r
    BY DEF Laid
<1>2. n * ChunkSize \in Nat /\ ChunkSize \in Nat
    BY <1>1, ChunkIsPositive, TimesGrows
<1>3. i < Len(f.chunks) /\ i \in Nat
    BY <1>1
<1>4. CASE i = n
    <2>1. ExpectedLen(f, i) = (n * ChunkSize + r) - n * ChunkSize
        BY <1>1, <1>4 DEF ExpectedLen
    <2>2. ExpectedLen(f, i) = r
        BY <1>1, <1>2, <2>1
    <2>3. Len(f.chunks[i + 1].data) = r /\ f.chunks[i + 1].last = TRUE
        BY <1>4 DEF Laid
    <2> QED BY <1>1, <1>3, <1>4, <2>2, <2>3 DEF Loads
<1>5. CASE i # n
    <2>1. i + 1 \in 1..n /\ i + 1 # n + 1
        BY <1>1, <1>5
    <2>2. ExpectedLen(f, i) = ChunkSize
        BY <1>1, <2>1 DEF ExpectedLen
    <2>3. Len(f.chunks[i + 1].data) = ChunkSize /\ f.chunks[i + 1].last = FALSE
        BY <2>1 DEF Laid
    <2> QED BY <1>1, <1>3, <2>1, <2>2, <2>3 DEF Loads
<1> QED BY <1>4, <1>5

LEMMA FileOpens ==
    ASSUME NEW f, NEW content \in Seq(Bytes), FileOf(f, content), NEW keys, f.key \in keys
    PROVE  Opens(f, keys)
<1>1. PICK n, r : Laid(f, content, n, r)
    BY FileIsLaid
<1>2. n \in Nat /\ WellFormed(f) /\ ChunkCount(f) = n + 1
    BY <1>1 DEF Laid
<1>3. n \in 0..n /\ ChunkCount(f) - 1 = n
    BY <1>2
<1>4. Loads(f, ChunkCount(f) - 1, f.key)
    BY <1>1, <1>3, ChunksLoad
<1> QED BY <1>2, <1>4 DEF Opens

\* Where byte j of the content is.
LEMMA ByteIsThere ==
    ASSUME NEW f, NEW content \in Seq(Bytes), NEW n, NEW r, Laid(f, content, n, r),
           NEW j \in Nat, j < Len(content)
    PROVE  /\ j \div ChunkSize \in 0..n
           /\ f.chunks[(j \div ChunkSize) + 1].data[(j % ChunkSize) + 1] = content[j + 1]
<1> DEFINE p == j \div ChunkSize
           q == j % ChunkSize
<1>1. /\ n \in Nat /\ r \in 0..ChunkSize /\ Len(content) = n * ChunkSize + r
      /\ \A i \in 1..n : \A o \in 1..ChunkSize : f.chunks[i].data[o] = content[(i - 1) * ChunkSize + o]
      /\ \A o \in 1..r : f.chunks[n + 1].data[o] = content[n * ChunkSize + o]
      /\ ChunkSize \in Nat /\ ChunkSize > 0
    BY ChunkIsPositive DEF Laid
<1>2. p \in Nat /\ q \in Nat /\ q < ChunkSize /\ j = p * ChunkSize + q
    BY <1>1, Quotient
<1> HIDE DEF p, q
<1>3. n * ChunkSize \in Nat /\ p * ChunkSize \in Nat
    BY <1>1, <1>2, TimesGrows
<1> DEFINE a == p * ChunkSize
           b == n * ChunkSize
<1>31. a \in Nat /\ b \in Nat /\ a + q < b + r /\ j = a + q
    BY <1>1, <1>2, <1>3
<1> HIDE DEF a, b
<1>4. CASE p >= n + 1
    <2>1. (n + 1) * ChunkSize <= a
        BY <1>1, <1>2, <1>4, TimesGrows DEF a
    <2>2. (n + 1) * ChunkSize = b + ChunkSize
        BY <1>1 DEF b
    <2>3. b + ChunkSize <= a
        BY <2>1, <2>2
    <2> QED BY <1>1, <1>2, <1>31, <2>3
<1>5. CASE p = n
    <2>1. a = b
        BY <1>5 DEF a, b
    <2>21. q + 1 \in 1..r /\ j + 1 = b + (q + 1)
        BY <1>1, <1>2, <1>31, <2>1
    <2>2. q + 1 \in 1..r /\ j + 1 = n * ChunkSize + (q + 1)
        BY <2>21 DEF b
    <2>3. f.chunks[n + 1].data[q + 1] = content[n * ChunkSize + (q + 1)]
        BY <1>1, <2>2
    <2>4. n \in 0..n
        BY <1>1
    <2> QED BY <1>5, <2>2, <2>3, <2>4 DEF p, q
<1>6. CASE p < n
    <2>1. p + 1 \in 1..n /\ q + 1 \in 1..ChunkSize /\ (p + 1) - 1 = p /\ p \in 0..n
        BY <1>1, <1>2, <1>6
    <2>2. f.chunks[p + 1].data[q + 1] = content[((p + 1) - 1) * ChunkSize + (q + 1)]
        BY <1>1, <2>1
    <2>3. j + 1 = p * ChunkSize + (q + 1)
        BY <1>2, <1>3
    <2> QED BY <2>1, <2>2, <2>3 DEF p, q
<1> QED BY <1>1, <1>2, <1>4, <1>5, <1>6

\* Any range of it reads, and is that range of the content.
LEMMA FileReads ==
    ASSUME NEW f, NEW content \in Seq(Bytes), FileOf(f, content), NEW start \in Nat, NEW len \in Nat
    PROVE  /\ RangeEnd(f, start, len) \in 0..Len(content)
           /\ Readable(f, start, len)
           /\ ReadRange(f, start, len) = SubSeq(content, start + 1, RangeEnd(f, start, len))
<1>1. PICK n, r : Laid(f, content, n, r)
    BY FileIsLaid
<1> DEFINE e == RangeEnd(f, start, len)
           c == Len(content)
<1>2. n \in Nat /\ PlainLen(f) = c /\ c \in Nat /\ ChunkSize \in Nat /\ ChunkSize > 0
    BY <1>1, ChunkIsPositive DEF Laid
<1>3. e \in Nat /\ e <= c
    BY <1>2 DEF RangeEnd
<1> HIDE DEF e, c
<1>4. Readable(f, start, len)
    <2>1. SUFFICES ASSUME NEW i \in Covered(f, start, len) PROVE Loads(f, i, f.key)
        BY DEF Readable
    <2>2. start < e /\ i \in (start \div ChunkSize)..((e - 1) \div ChunkSize)
        BY <1>3, <2>1 DEF Covered, e
    <2>3. e - 1 \in Nat /\ e - 1 < c
        BY <1>2, <1>3, <2>2
    <2>4. (e - 1) \div ChunkSize \in 0..n
        BY <1>1, <2>3, ByteIsThere DEF c
    <2>5. start \div ChunkSize \in Nat
        BY <1>2
    <2>6. i \in 0..n
        BY <1>2, <2>2, <2>4, <2>5
    <2> QED BY <1>1, <2>6, ChunksLoad
<1> DEFINE l == ReadRange(f, start, len)
           m == SubSeq(content, start + 1, e)
<1>5. l = [j \in 1..(e - start) |->
              f.chunks[((start + j - 1) \div ChunkSize) + 1].data[((start + j - 1) % ChunkSize) + 1]]
    BY DEF ReadRange, e
<1>6. CASE start < e
    <2>1. /\ m \in Seq(Bytes) /\ Len(m) = e - start /\ e - start \in Nat
          /\ \A j \in 1..(e - start) : m[j] = content[start + j] /\ content[start + j] \in Bytes
        BY <1>2, <1>3, <1>6 DEF c
    <2> HIDE DEF m
    <2>2. ASSUME NEW j \in 1..(e - start) PROVE l[j] = content[start + j]
        <3> DEFINE k == start + j - 1
        <3>1. k \in Nat /\ k < c /\ k + 1 = start + j
            BY <1>2, <1>3, <1>6
        <3>2. l[j] = f.chunks[(k \div ChunkSize) + 1].data[(k % ChunkSize) + 1]
            BY <1>5
        <3> HIDE DEF k
        <3>3. f.chunks[(k \div ChunkSize) + 1].data[(k % ChunkSize) + 1] = content[k + 1]
            BY <1>1, <3>1, ByteIsThere DEF c
        <3> QED BY <3>1, <3>2, <3>3
    <2> HIDE DEF l
    <2>3. DOMAIN l = 1..(e - start) /\ l = [j \in 1..(e - start) |-> l[j]]
        BY <1>5
    <2>4. l \in Seq(Bytes) /\ Len(l) = e - start
        <3>1. \A j \in 1..(e - start) : l[j] \in Bytes
            BY <2>1, <2>2
        <3> DEFINE k == e - start
        <3>2. l \in [1..k -> Bytes] /\ k \in Nat
            BY <2>1, <2>3, <3>1
        <3> HIDE DEF k
        <3>3. l \in Seq(Bytes) /\ Len(l) = k
            BY <3>2
        <3> QED BY <3>3 DEF k
    <2>5. l = m
        <3>1. \A j \in 1..Len(l) : l[j] = m[j]
            BY <2>1, <2>2, <2>4
        <3>2. Len(l) = Len(m)
            BY <2>1, <2>4
        <3> QED BY <2>1, <2>4, <3>1, <3>2, SameSequence
    <2>6. e \in 0..c
        BY <1>2, <1>3
    <2> QED BY <1>4, <2>5, <2>6 DEF l, m, e, c
<1>7. CASE e <= start
    <2>1. 1..(e - start) = {}
        BY <1>3, <1>7
    <2>2. l = <<>>
        BY <1>5, <2>1
    <2>3. m = <<>>
        BY <1>3, <1>7
    <2>4. e \in 0..c
        BY <1>2, <1>3
    <2>5. l = m
        BY <2>2, <2>3, Zenon
    <2> QED BY <1>4, <2>4, <2>5 DEF l, m, e, c
<1> QED BY <1>3, <1>6, <1>7

LEMMA FileReadsAll ==
    ASSUME NEW f, NEW content \in Seq(Bytes), FileOf(f, content)
    PROVE  ReadAll(f) = content
<1> DEFINE c == Len(content)
<1>1. PICK n, r : Laid(f, content, n, r)
    BY FileIsLaid
<1>2. PlainLen(f) = c /\ c \in Nat
    BY <1>1 DEF Laid
<1>3. RangeEnd(f, 0, c) = c
    BY <1>2 DEF RangeEnd
<1>4. ReadRange(f, 0, c) = SubSeq(content, 0 + 1, RangeEnd(f, 0, c))
    BY <1>2, FileReads
<1>5. SubSeq(content, 1, c) = content
    BY NothingMore
<1> QED BY <1>2, <1>3, <1>4, <1>5 DEF ReadAll

\* Cut anywhere it is refused: what is left either ends in a chunk that is not the last, or
\* has not the length of the one that is.
LEMMA CutIsRefused ==
    ASSUME NEW f, NEW content \in Seq(Bytes), FileOf(f, content), NEW lost \in 1..f.size, NEW keys
    PROVE  ~Opens([f EXCEPT !.size = @ - lost], keys)
<1> DEFINE g == [f EXCEPT !.size = @ - lost]
<1>1. PICK n, r : Laid(f, content, n, r)
    BY FileIsLaid
<1>2. /\ n \in Nat /\ r \in 0..ChunkSize /\ f.size = n * SealedChunk + (r + TagLen) /\ f.size \in Nat
      /\ Len(f.chunks) = n + 1
      /\ \A i \in 1..n : f.chunks[i].last = FALSE
      /\ Len(f.chunks[n + 1].data) = r
    BY <1>1 DEF Laid
<1>3. g.size = f.size - lost /\ g.chunks = f.chunks
    <2>1. PICK w : f = Finish(w)
        BY DEF FileOf
    <2>2. f = [key |-> f.key, chunks |-> f.chunks, size |-> f.size]
        BY <2>1 DEF Finish, OnDisk
    <2> QED BY <2>2
<1> HIDE DEF g
<1>4. g.size \in Nat /\ g.size # f.size
    BY <1>2, <1>3
<1>5. SUFFICES ASSUME Opens(g, keys) PROVE FALSE
    BY DEF g
<1>6. WellFormed(g) /\ \E key \in keys : Loads(g, ChunkCount(g) - 1, key)
    BY <1>5 DEF Opens
<1> DEFINE i == ChunkCount(g) - 1
<1>7. ChunkCount(g) \in Nat \ {0}
    BY <1>4, <1>6, LengthIsSaid
<1>8. i \in Nat /\ i + 1 = ChunkCount(g)
    BY <1>7
<1>9. /\ i < Len(g.chunks) /\ Len(g.chunks[i + 1].data) = ExpectedLen(g, i)
      /\ g.chunks[i + 1].last = (i + 1 = ChunkCount(g))
    BY <1>6 DEF Loads
<1> HIDE DEF i
<1>10. i = n
    <2>1. SUFFICES ASSUME i + 1 \in 1..n PROVE FALSE
        BY <1>2, <1>3, <1>8, <1>9
    <2> QED BY <1>2, <1>3, <1>8, <1>9, <2>1
<1>11. PlainLen(g) - n * ChunkSize = r
    BY <1>2, <1>3, <1>8, <1>9, <1>10 DEF ExpectedLen
<1>12. g.size = n * SealedChunk + (r + TagLen)
    BY <1>2, <1>4, <1>6, <1>8, <1>10, <1>11, LengthIsSaid
<1> QED BY <1>2, <1>4, <1>12

---------------------------------------------------------------------------
(* The invariant                                                           *)

\* Frames in order, all under one key.
InOrder(frames, key) == \A i \in 1..Len(frames) : OpensAt(frames, i, key)

LogOK ==
    log # NoFile =>
        /\ log \in LogFile /\ log.synced <= Len(log.frames)
        /\ \E key \in AllKeys : InOrder(log.frames, key)
        /\ ~log.header => log.frames = <<>>

\* What the caller may rely on is in the log, synced, or in the file published from it.
OwedOK ==
    /\ owed \in Seq(Seq(Bytes))
    /\ log # NoFile =>
           /\ Starts(owed, Texts(log.frames)) /\ Len(owed) <= log.synced
           /\ ~log.header => owed = <<>>
    /\ log = NoFile /\ owed # <<>> => IsPublished /\ dest.settled
    /\ IsPublished => Starts(FlattenSeq(owed), dest.of)

\* A plain file is not of a recording; a published one is whole, on the disk, and, until its
\* name is, the log it was made from is there.
NoRecording == log = NoFile /\ owed = <<>>
PublishedOK ==
    /\ dest \in Published /\ dest.synced /\ ~dest.garbled
    /\ dest.file.key \in AllKeys /\ FileOf(dest.file, dest.of)
    /\ ~dest.settled => /\ dest.old # NoFile => NoRecording
                        /\ owed # <<>> => log # NoFile
DestOK ==
    \/ dest = NoFile
    \/ dest \in PlainFile /\ NoRecording
    \/ PublishedOK

Creating ==
    /\ job \in [kind : {"create"}, key : AllKeys]
    /\ log = Fresh /\ dest = NoFile
Appending ==
    /\ job \in [kind : {"write"}, key : AllKeys, next : Nat, rec : Seq(Bytes), busy : BOOLEAN]
    /\ log # NoFile /\ log.header /\ InOrder(log.frames, job.key) /\ job.next = Len(log.frames)
    /\ dest = NoFile

\* What is sealed is the file, or all of the log.
FromFile == job.kind = "inplace" /\ dest \in PlainFile
FromLog ==
    /\ job.kind = "compact" /\ dest = NoFile
    /\ log # NoFile /\ log.header /\ job.of = FlattenSeq(Texts(log.frames))
\* What is written so far and what is left make up what is sealed.
Halfway ==
    /\ temp \in [w : Writer, synced : BOOLEAN, garbled : BOOLEAN]
    /\ Unfinished(temp.w) /\ temp.w.key \in AllKeys
    /\ \E content \in Seq(Bytes) :
           Holds(temp.w, content) /\ job.of = content \o FlattenSeq(job.todo)
Complete ==
    /\ \E w : Unfinished(w) /\ w.key \in AllKeys /\ Holds(w, job.of) /\ temp.w = SealChunk(w, TRUE)
    /\ temp.synced = TRUE /\ temp.garbled \in BOOLEAN
Stages == {"start", "write", "verify", "publish", "settle"}
SealingOK ==
    /\ job \in [kind : {"compact", "inplace"}, at : Stages, todo : Seq(Seq(Bytes)), of : Seq(Bytes)]
    /\ \/ job.at = "start" /\ job.of = FlattenSeq(job.todo) /\ (FromFile \/ FromLog)
       \/ job.at = "write" /\ Halfway /\ (FromFile \/ FromLog)
       \/ job.at = "verify" /\ Complete /\ (FromFile \/ FromLog)
       \/ job.at = "publish" /\ Complete /\ ~temp.garbled /\ (FromFile \/ FromLog)
       \/ job.at = "settle" /\ IsPublished

JobOK ==
    \/ job = Idle \/ job = [kind |-> "compacted"]
    \/ Creating \/ Appending \/ SealingOK

LogInv == current \in {k1, k2} /\ LogOK /\ OwedOK /\ DestOK /\ JobOK

----------------------------------------------------------------------------
(* Opening a log                                                           *)

Frame == [key : {k1, k2}, at : Nat, rec : Seq(Bytes)]

LEMMA LogFileIs ==
    ASSUME NEW l \in LogFile
    PROVE  /\ l.header \in BOOLEAN /\ l.frames \in Seq(Frame) /\ l.tail \in Tails /\ l.synced \in Nat
           /\ Len(l.frames) \in Nat /\ \A i \in 1..Len(l.frames) : l.frames[i] \in Frame
<1>1. l.header \in BOOLEAN /\ l.frames \in Seq(Frame) /\ l.tail \in Tails /\ l.synced \in Nat
    BY DEF LogFile, Frame
<1> QED BY <1>1

LEMMA TextsAre ==
    ASSUME NEW frames \in Seq(Frame)
    PROVE  /\ Texts(frames) \in Seq(Seq(Bytes)) /\ Len(Texts(frames)) = Len(frames)
           /\ \A i \in 1..Len(frames) : Texts(frames)[i] = frames[i].rec
<1>1. DOMAIN frames = 1..Len(frames) /\ Len(frames) \in Nat
      /\ \A i \in 1..Len(frames) : frames[i] \in Frame
    OBVIOUS
<1>2. \A i \in 1..Len(frames) : frames[i].rec \in Seq(Bytes)
    BY <1>1 DEF Frame
<1>3. Texts(frames) = [i \in 1..Len(frames) |-> frames[i].rec]
    BY <1>1 DEF Texts
<1> DEFINE n == Len(frames)
           t == Texts(frames)
<1>4. t \in [1..n -> Seq(Bytes)] /\ n \in Nat /\ \A i \in 1..n : t[i] = frames[i].rec
    BY <1>1, <1>2, <1>3
<1> HIDE DEF n, t
<1>5. t \in Seq(Seq(Bytes)) /\ Len(t) = n
    BY <1>4
<1> QED BY <1>4, <1>5 DEF n, t

LEMMA CommittedIs ==
    ASSUME NEW frames \in Seq(Frame), NEW key
    PROVE  /\ Committed(frames, key) \in 0..Len(frames)
           /\ InOrder(frames, key) => Committed(frames, key) = Len(frames)
           /\ Len(frames) > 0 /\ frames[1].key # key => Committed(frames, key) = 0
<1> DEFINE n == Len(frames)
           T == {m \in 0..n : \A i \in 1..m : OpensAt(frames, i, key)}
           c == Committed(frames, key)
<1>1. n \in Nat /\ T \subseteq 0..n /\ 0 \in T
    OBVIOUS
<1>2. c = Max(T)
    BY DEF Committed
<1>3. c \in T /\ \A m \in T : m <= c
    <2> HIDE DEF T, c, n
    <2>1. T # {}
        BY <1>1
    <2> QED BY <1>1, <1>2, <2>1, GreatestNumber
<1>4. c \in 0..n
    BY <1>3
<1>5. ASSUME InOrder(frames, key) PROVE c = n
    <2>1. n \in T
        BY <1>1, <1>5 DEF InOrder
    <2> HIDE DEF T, c
    <2> QED BY <1>1, <1>3, <1>4, <2>1
<1>6. ASSUME n > 0, frames[1].key # key PROVE c = 0
    <2>1. SUFFICES ASSUME c # 0 PROVE FALSE
        OBVIOUS
    <2>2. 1 \in 1..c
        BY <1>4, <2>1
    <2>3. OpensAt(frames, 1, key)
        BY <1>3, <2>2
    <2> QED BY <1>6, <2>3 DEF OpensAt
<1> QED BY <1>4, <1>5, <1>6

\* Only the key the frames are sealed under opens a log that has any.
LEMMA KeyIsFound ==
    ASSUME log # NoFile, LogOK, LogOpens(log)
    PROVE  /\ log \in LogFile /\ KeyOf(log) \in AllKeys /\ InOrder(log.frames, KeyOf(log))
           /\ Committed(log.frames, KeyOf(log)) = Len(log.frames)
           /\ TailOf(log, KeyOf(log)) = log.tail /\ log.header
           /\ Recovered(log) = Texts(log.frames)
<1>1. log \in LogFile /\ log.header \in BOOLEAN /\ log.frames \in Seq(Frame) /\ Len(log.frames) \in Nat
    BY LogFileIs DEF LogOK
<1>2. PICK key \in AllKeys : InOrder(log.frames, key)
    BY DEF LogOK
<1>3. InOrder(log.frames, KeyOf(log)) /\ KeyOf(log) \in AllKeys
    <2>1. KeyOf(log) \in AllKeys
        BY DEF KeyOf, AllKeys
    <2>2. CASE Len(log.frames) = 0
        BY <2>1, <2>2 DEF InOrder
    <2>3. CASE Len(log.frames) # 0
        <3>1. ASSUME NEW k, k # key PROVE ~Accepts(log, k)
            <4>1. 1 \in 1..Len(log.frames)
                BY <1>1, <2>3
            <4>2. log.frames[1].key = key
                BY <1>2, <4>1 DEF InOrder, OpensAt
            <4>3. Committed(log.frames, k) = 0
                BY <1>1, <2>3, <3>1, <4>2, CommittedIs
            <4>4. TailOf(log, k) \in {"final", "corrupt"}
                BY <1>1, <2>3, <4>3 DEF TailOf
            <4> QED BY <4>3, <4>4 DEF Accepts
        <3>2. \E k \in AllKeys : Accepts(log, k)
            BY DEF LogOpens
        <3>3. Accepts(log, key)
            BY <3>1, <3>2
        <3>4. KeyOf(log) = key
            BY <1>2, <3>1, <3>3 DEF KeyOf, AllKeys
        <3> QED BY <1>2, <3>4
    <2> QED BY <2>2, <2>3
<1>4. Committed(log.frames, KeyOf(log)) = Len(log.frames)
    BY <1>1, <1>3, CommittedIs
<1>5. TailOf(log, KeyOf(log)) = log.tail
    BY <1>4 DEF TailOf
<1>6. log.header
    BY DEF LogOpens, Accepts
<1>7. Recovered(log) = Texts(log.frames)
    <2>1. Texts(log.frames) \in Seq(Seq(Bytes)) /\ Len(Texts(log.frames)) = Len(log.frames)
        BY <1>1, TextsAre
    <2>2. SubSeq(Texts(log.frames), 1, Len(Texts(log.frames))) = Texts(log.frames)
        BY <2>1, NothingMore
    <2> QED BY <1>4, <2>1, <2>2 DEF Recovered
<1> QED BY <1>1, <1>3, <1>4, <1>5, <1>6, <1>7

\* A log with a record opens.
LEMMA LogStillOpens ==
    ASSUME log # NoFile, LogOK, log.header, Len(log.frames) # 0
    PROVE  LogOpens(log)
<1>1. log \in LogFile /\ log.frames \in Seq(Frame) /\ log.tail \in Tails /\ Len(log.frames) \in Nat
    BY LogFileIs DEF LogOK
<1>2. PICK key \in AllKeys : InOrder(log.frames, key)
    BY DEF LogOK
<1>3. Committed(log.frames, key) = Len(log.frames)
    BY <1>1, <1>2, CommittedIs
<1>4. TailOf(log, key) = log.tail
    BY <1>3 DEF TailOf
<1>5. Accepts(log, key)
    BY <1>1, <1>3, <1>4 DEF Accepts, Tails
<1> QED BY <1>2, <1>5 DEF LogOpens

----------------------------------------------------------------------------
(* What follows from it                                                    *)

LEMMA PublishedIsWhole == LogInv => PublishedWhole
<1>1. SUFFICES ASSUME LogInv, IsPublished PROVE PublishedWhole
    BY DEF PublishedWhole
<1>2. PublishedOK
    BY <1>1 DEF LogInv, DestOK, IsPublished, PlainFile
<1>3. /\ dest \in Published /\ ~dest.garbled /\ dest.file.key \in AllKeys /\ FileOf(dest.file, dest.of)
      /\ dest.of \in Seq(Bytes)
    BY <1>2 DEF PublishedOK, Published
<1>4. Opens(dest.file, AllKeys)
    BY <1>3, FileOpens
<1>5. ASSUME NEW start \in 0..(Len(dest.of) + 1), NEW len \in 0..(Len(dest.of) + 1)
      PROVE  /\ Readable(dest.file, start, len)
             /\ ReadRange(dest.file, start, len) = SubSeq(dest.of, start + 1, RangeEnd(dest.file, start, len))
    <2>1. start \in Nat /\ len \in Nat
        BY <1>3
    <2> QED BY <1>3, <2>1, FileReads
<1>6. ReadAll(dest.file) = dest.of
    BY <1>3, FileReadsAll
<1>7. ASSUME NEW lost \in 1..dest.file.size PROVE ~Opens([dest.file EXCEPT !.size = @ - lost], AllKeys)
    BY <1>3, CutIsRefused
<1> QED BY <1>3, <1>4, <1>5, <1>6, <1>7 DEF PublishedWhole

LEMMA SyncedIsKept == LogInv => SyncedKept
<1>1. SUFFICES ASSUME LogInv, owed # <<>> PROVE SyncedKept
    BY DEF SyncedKept
<1>2. LogOK /\ OwedOK /\ DestOK /\ owed \in Seq(Seq(Bytes)) /\ Len(owed) # 0
    BY <1>1 DEF LogInv, OwedOK
<1>3. CASE log # NoFile
    <2>1. /\ log \in LogFile /\ log.header \in BOOLEAN /\ log.frames \in Seq(Frame)
          /\ Starts(owed, Texts(log.frames)) /\ log.header
        BY <1>1, <1>2, <1>3, LogFileIs DEF LogOK, OwedOK
    <2>2. Texts(log.frames) \in Seq(Seq(Bytes)) /\ Len(Texts(log.frames)) = Len(log.frames)
        BY <2>1, TextsAre
    <2>3. Len(log.frames) # 0
        BY <1>2, <2>1, <2>2 DEF Starts
    <2>4. LogOpens(log)
        BY <1>2, <1>3, <2>1, <2>3, LogStillOpens
    <2>5. Recovered(log) = Texts(log.frames)
        BY <1>2, <1>3, <2>4, KeyIsFound
    <2>6. IsPrefix(owed, Texts(log.frames))
        BY <1>2, <2>1, <2>2, StartsIsPrefix
    <2> QED BY <2>4, <2>5, <2>6 DEF SyncedKept
<1>4. CASE log = NoFile
    <2>1. IsPublished /\ Starts(FlattenSeq(owed), dest.of)
        BY <1>1, <1>2, <1>4 DEF OwedOK
    <2>2. PublishedOK
        BY <1>2, <2>1 DEF DestOK, IsPublished, PlainFile
    <2>3. dest.of \in Seq(Bytes) /\ dest.file.key \in AllKeys /\ FileOf(dest.file, dest.of)
        BY <2>2 DEF PublishedOK, Published
    <2>4. Opens(dest.file, AllKeys) /\ ReadAll(dest.file) = dest.of
        BY <2>3, FileOpens, FileReadsAll
    <2>5. FlattenSeq(owed) \in Seq(Bytes)
        BY <1>2, JoinType
    <2>6. IsPrefix(FlattenSeq(owed), dest.of)
        BY <2>1, <2>3, <2>5, StartsIsPrefix
    <2> QED BY <1>4, <2>1, <2>4, <2>6 DEF SyncedKept
<1> QED BY <1>3, <1>4

----------------------------------------------------------------------------
(* Each step keeps it                                                      *)

\* A step of the job alone.
LEMMA OnlyTheJob ==
    ASSUME LogInv, UNCHANGED <<current, log, dest, owed>>, JobOK'
    PROVE  LogInv'
<1>1. current \in {k1, k2} /\ LogOK /\ OwedOK /\ DestOK
    BY DEF LogInv
<1>2. LogOK'
    BY <1>1 DEF LogOK, AllKeys
<1>3. OwedOK'
    BY <1>1 DEF OwedOK, IsPublished
<1>4. DestOK'
    BY <1>1 DEF DestOK, PublishedOK, NoRecording, AllKeys
<1> QED BY <1>1, <1>2, <1>3, <1>4 DEF LogInv

\* What a call under way says of the state, from its kind.
LEMMA JobIs ==
    ASSUME JobOK
    PROVE  /\ job.kind = "create" => Creating
           /\ job.kind = "write" => Appending
           /\ Seals => SealingOK
           /\ job = Idle => job.kind = "idle"
    BY DEF JobOK, Creating, Appending, SealingOK, Seals, Idle

\* A sealing call before its rename: what it seals is still there.
LEMMA SourceIs ==
    ASSUME LogInv, FromFile \/ FromLog
    PROVE  IF job.kind = "inplace" THEN dest \in PlainFile /\ NoRecording
           ELSE /\ dest = NoFile /\ log # NoFile
                /\ Starts(FlattenSeq(owed), job.of)
<1>1. CASE FromFile
    <2>1. DestOK /\ dest \in PlainFile
        BY <1>1 DEF LogInv, FromFile
    <2>2. dest # NoFile /\ dest.plain = TRUE
        BY <2>1, LogAssumption DEF PlainFile
    <2>3. NoRecording
        BY <2>1, <2>2 DEF DestOK, PublishedOK, Published
    <2> QED BY <1>1, <2>1, <2>3 DEF FromFile
<1>2. CASE FromLog
    <2>1. /\ job.kind = "compact" /\ dest = NoFile /\ log # NoFile
          /\ job.of = FlattenSeq(Texts(log.frames)) /\ LogOK /\ OwedOK
        BY <1>2 DEF FromLog, LogInv
    <2>2. log.frames \in Seq(Frame) /\ owed \in Seq(Seq(Bytes)) /\ Starts(owed, Texts(log.frames))
        BY <2>1, LogFileIs DEF LogOK, OwedOK
    <2>3. Texts(log.frames) \in Seq(Seq(Bytes))
        BY <2>2, TextsAre
    <2>4. Starts(FlattenSeq(owed), job.of)
        BY <2>1, <2>2, <2>3, JoinStarts
    <2> QED BY <2>1, <2>4
<1> QED BY <1>1, <1>2

LEMMA FreshIs ==
    /\ Fresh \in LogFile /\ Fresh.frames = <<>> /\ Fresh.synced = 0 /\ Fresh.header = FALSE
    /\ Len(Fresh.frames) = 0 /\ Fresh # NoFile
<1>1. /\ Fresh \in LogFile /\ Fresh.frames = <<>> /\ Fresh.synced = 0 /\ Fresh.header = FALSE
      /\ Len(Fresh.frames) = 0
    BY DEF Fresh, LogFile, Tails
<1> QED BY <1>1, LogAssumption

LEMMA LogInitially == LogInit => LogInv
<1> SUFFICES ASSUME LogInit PROVE LogInv
    OBVIOUS
<1>1. current \in {k1, k2} /\ log = NoFile /\ owed = <<>> /\ job = Idle
    BY DEF LogInit
<1>2. LogOK
    BY <1>1 DEF LogOK
<1>3. Plain \in Seq(Bytes)
    BY LogAssumption
<1>4. NoRecording /\ (dest = NoFile \/ dest \in PlainFile)
    <2>1. [plain |-> TRUE, bytes |-> Plain] \in PlainFile
        BY <1>3 DEF PlainFile
    <2>2. dest = NoFile \/ dest = [plain |-> TRUE, bytes |-> Plain]
        BY DEF LogInit
    <2>3. NoRecording
        BY <1>1 DEF NoRecording
    <2> QED BY <2>1, <2>2, <2>3
<1>5. DestOK /\ ~IsPublished
    BY <1>4 DEF DestOK, IsPublished, PlainFile
<1>6. OwedOK
    BY <1>1, <1>5 DEF OwedOK
<1> QED BY <1>1, <1>2, <1>5, <1>6 DEF LogInv, JobOK

LEMMA CreateStep == LogInv /\ Create => LogInv'
<1> SUFFICES ASSUME LogInv, Create PROVE LogInv'
    OBVIOUS
<1>1. /\ job = Idle /\ log = NoFile /\ dest = NoFile /\ log' = Fresh
      /\ job' = [kind |-> "create", key |-> current]
      /\ UNCHANGED <<current, dest, owed>>
    BY DEF Create
<1>2. owed = <<>>
    BY <1>1 DEF LogInv, OwedOK, IsPublished
<1>3. /\ Fresh \in LogFile /\ Fresh.frames = <<>> /\ Fresh.synced = 0 /\ Fresh.header = FALSE
      /\ Len(Fresh.frames) = 0
    BY FreshIs
<1>4. LogOK'
    <2>1. InOrder(Fresh.frames, k1) /\ k1 \in AllKeys'
        BY <1>3 DEF InOrder, AllKeys
    <2> QED BY <1>1, <1>3, <2>1 DEF LogOK
<1>5. OwedOK'
    <2>1. Starts(<<>>, Texts(Fresh.frames))
        <3>1. <<>> \in Seq(Frame)
            OBVIOUS
        <3> QED BY <1>3, <3>1, TextsAre DEF Starts
    <2>2. log' # NoFile
        BY <1>1, <1>3, LogAssumption
    <2> QED BY <1>1, <1>2, <1>3, <2>1, <2>2 DEF LogInv, OwedOK, IsPublished
<1>6. DestOK'
    BY <1>1 DEF DestOK
<1>7. Creating'
    BY <1>1 DEF Creating, AllKeys
<1> QED BY <1>1, <1>4, <1>5, <1>6, <1>7 DEF LogInv, JobOK

LEMMA WriteHeaderStep == LogInv /\ WriteHeader => LogInv'
<1> SUFFICES ASSUME LogInv, WriteHeader PROVE LogInv'
    OBVIOUS
<1>1. /\ job.kind = "create" /\ log' = [log EXCEPT !.header = TRUE]
      /\ job' = [kind |-> "write", key |-> job.key, next |-> 0, rec |-> <<>>, busy |-> FALSE]
      /\ UNCHANGED <<current, dest, owed>>
    BY DEF WriteHeader
<1>2. Creating
    BY <1>1, JobIs DEF LogInv
<1>3. log = Fresh /\ dest = NoFile /\ job.key \in AllKeys
    BY <1>2 DEF Creating
<1>4. log # NoFile /\ Fresh \in LogFile /\ Fresh.frames = <<>> /\ Fresh.synced = 0 /\ Fresh.header = FALSE
    BY <1>3, FreshIs
<1>5. owed = <<>>
    BY <1>3, <1>4 DEF LogInv, OwedOK
<1>6. log' \in LogFile /\ log'.frames = <<>> /\ log'.synced = 0 /\ log'.header = TRUE /\ Len(log'.frames) = 0
    BY <1>1, <1>3, <1>4 DEF LogFile
<1>7. log' # NoFile
    BY <1>6, LogAssumption
<1>8. LogOK'
    <2>1. InOrder(log'.frames, k1) /\ k1 \in AllKeys'
        BY <1>6 DEF InOrder, AllKeys
    <2> QED BY <1>6, <2>1 DEF LogOK
<1>9. OwedOK'
    <2>1. Starts(<<>>, Texts(<<>>))
        <3>1. <<>> \in Seq(Frame)
            OBVIOUS
        <3> QED BY <3>1, TextsAre DEF Starts
    <2> QED BY <1>1, <1>3, <1>5, <1>6, <1>7, <2>1 DEF LogInv, OwedOK, IsPublished
<1>10. DestOK'
    BY <1>1, <1>3 DEF DestOK
<1>11. Appending'
    <2>1. job' \in [kind : {"write"}, key : AllKeys', next : Nat, rec : Seq(Bytes), busy : BOOLEAN]
        BY <1>1, <1>3 DEF AllKeys
    <2>2. job'.key = job.key /\ job'.next = 0
        BY <1>1
    <2>3. InOrder(log'.frames, job'.key)
        BY <1>6 DEF InOrder
    <2> QED BY <1>1, <1>3, <1>6, <1>7, <2>1, <2>2, <2>3 DEF Appending
<1> QED BY <1>1, <1>8, <1>9, <1>10, <1>11 DEF LogInv, JobOK

LEMMA OpenAppendStep == LogInv /\ OpenAppend => LogInv'
<1> SUFFICES ASSUME LogInv, OpenAppend PROVE LogInv'
    OBVIOUS
<1> DEFINE key == KeyOf(log)
           n == Len(log.frames)
<1>1. /\ dest = NoFile /\ LogOpens(log) /\ log # NoFile /\ ~IsRetired(log) /\ UNCHANGED <<current, dest>>
      /\ log' = IF IsTorn(log)
                THEN [log EXCEPT !.frames = SubSeq(@, 1, Committed(@, KeyOf(log))),
                                 !.tail = "clean", !.synced = Committed(log.frames, KeyOf(log))]
                ELSE log
      /\ owed' = IF IsTorn(log) THEN Recovered(log) ELSE owed
      /\ job' = [kind |-> "write", key |-> KeyOf(log), next |-> CountRecords(log),
                 rec |-> <<>>, busy |-> FALSE]
    BY DEF OpenAppend, LogOpens
<1>2. LogOK /\ OwedOK /\ current \in {k1, k2}
    BY DEF LogInv
<1>3. /\ log \in LogFile /\ key \in AllKeys /\ InOrder(log.frames, key)
      /\ Committed(log.frames, key) = n /\ log.header /\ Recovered(log) = Texts(log.frames)
    BY <1>1, <1>2, KeyIsFound
<1>4. /\ log.header \in BOOLEAN /\ log.frames \in Seq(Frame) /\ log.synced \in Nat /\ n \in Nat
      /\ log.synced <= n
    <2>1. log.synced <= n
        BY <1>1, <1>2 DEF LogOK
    <2> QED BY <1>3, <2>1, LogFileIs
<1>5. Texts(log.frames) \in Seq(Seq(Bytes)) /\ Len(Texts(log.frames)) = n
    BY <1>4, TextsAre
<1>6. /\ log' \in LogFile /\ log'.frames = log.frames /\ log'.header = log.header
      /\ log'.synced \in Nat /\ log'.synced <= n
      /\ owed' \in Seq(Seq(Bytes)) /\ Starts(owed', Texts(log.frames)) /\ Len(owed') <= log'.synced
    <2>1. CASE ~IsTorn(log)
        BY <1>1, <1>2, <1>3, <1>4, <2>1 DEF OwedOK
    <2>2. CASE IsTorn(log)
        <3>1. SubSeq(log.frames, 1, n) = log.frames
            BY <1>4, NothingMore
        <3>2. log' = [log EXCEPT !.frames = log.frames, !.tail = "clean", !.synced = n]
            BY <1>1, <1>3, <2>2, <3>1
        <3>3. log' \in LogFile /\ log'.frames = log.frames /\ log'.header = log.header /\ log'.synced = n
            BY <1>3, <1>4, <3>2 DEF LogFile, Tails, Frame
        <3>4. owed' = Texts(log.frames)
            BY <1>1, <1>3, <2>2
        <3> QED BY <1>4, <1>5, <3>3, <3>4 DEF Starts
    <2> QED BY <2>1, <2>2
<1>7. log' # NoFile
    BY <1>6, LogAssumption
<1> HIDE DEF key, n
<1>8. LogOK'
    BY <1>1, <1>3, <1>6 DEF LogOK, AllKeys, n
<1>9. OwedOK'
    BY <1>1, <1>3, <1>6, <1>7 DEF OwedOK, IsPublished
<1>10. DestOK'
    BY <1>1 DEF DestOK
<1>11. Appending'
    <2>1. CountRecords(log) = n
        BY <1>3 DEF CountRecords, key
    <2>2. job' \in [kind : {"write"}, key : AllKeys', next : Nat, rec : Seq(Bytes), busy : BOOLEAN]
        BY <1>1, <1>3, <1>4, <2>1 DEF AllKeys, key
    <2>3. job'.key = key /\ job'.next = n
        BY <1>1, <2>1 DEF key
    <2> QED BY <1>1, <1>3, <1>6, <1>7, <2>2, <2>3 DEF Appending, n
<1> QED BY <1>1, <1>2, <1>8, <1>9, <1>10, <1>11 DEF LogInv, JobOK

LEMMA AppendingIs ==
    ASSUME LogInv, job.kind = "write"
    PROVE  /\ Appending /\ LogOK /\ OwedOK /\ current \in {k1, k2}
           /\ log # NoFile /\ log.header /\ log \in LogFile /\ log.frames \in Seq(Frame)
           /\ Len(log.frames) \in Nat /\ log.synced \in Nat /\ log.synced <= Len(log.frames)
           /\ dest = NoFile /\ job.key \in AllKeys /\ InOrder(log.frames, job.key)
           /\ job.next = Len(log.frames) /\ job.rec \in Seq(Bytes)
           /\ Starts(owed, Texts(log.frames)) /\ Len(owed) <= log.synced
           /\ owed \in Seq(Seq(Bytes)) /\ ~IsPublished
<1>1. Appending /\ LogOK /\ OwedOK /\ current \in {k1, k2}
    BY JobIs DEF LogInv
<1>2. /\ log # NoFile /\ log.header /\ dest = NoFile /\ job.key \in AllKeys
      /\ InOrder(log.frames, job.key) /\ job.next = Len(log.frames) /\ job.rec \in Seq(Bytes)
    BY <1>1 DEF Appending
<1>3. log \in LogFile /\ log.synced <= Len(log.frames)
    BY <1>1, <1>2 DEF LogOK
<1>4. log.frames \in Seq(Frame) /\ Len(log.frames) \in Nat /\ log.synced \in Nat
    BY <1>3, LogFileIs
<1>5. /\ Starts(owed, Texts(log.frames)) /\ Len(owed) <= log.synced /\ owed \in Seq(Seq(Bytes))
      /\ ~IsPublished
    BY <1>1, <1>2 DEF OwedOK, IsPublished
<1> QED BY <1>1, <1>2, <1>3, <1>4, <1>5

LEMMA AppendStartsStep == LogInv /\ AppendStarts => LogInv'
<1> SUFFICES ASSUME LogInv, AppendStarts PROVE LogInv'
    OBVIOUS
<1>1. PICK rec \in Records :
          /\ job.kind = "write" /\ job' = [job EXCEPT !.rec = rec, !.busy = TRUE]
          /\ log' = [log EXCEPT !.tail = "short"] /\ UNCHANGED <<current, dest, owed>>
    BY DEF AppendStarts
<1>2. /\ Appending /\ LogOK /\ OwedOK /\ log # NoFile /\ log \in LogFile /\ dest = NoFile
      /\ current \in {k1, k2}
    BY <1>1, AppendingIs
<1>3. /\ log' \in LogFile /\ log'.frames = log.frames /\ log'.header = log.header
      /\ log'.synced = log.synced
    BY <1>1, <1>2 DEF LogFile, Tails
<1>4. log' # NoFile
    BY <1>3, LogAssumption
<1>5. LogOK'
    BY <1>1, <1>2, <1>3 DEF LogOK, AllKeys
<1>6. OwedOK'
    BY <1>1, <1>2, <1>3, <1>4 DEF OwedOK, IsPublished
<1>7. DestOK'
    BY <1>1, <1>2 DEF DestOK
<1>8. Appending'
    <2>1. rec \in Seq(Bytes)
        BY <1>1, LogAssumption
    <2>2. job' \in [kind : {"write"}, key : AllKeys, next : Nat, rec : Seq(Bytes), busy : BOOLEAN]
          /\ job'.key = job.key /\ job'.next = job.next
        BY <1>1, <1>2, <2>1 DEF Appending
    <2>3. AllKeys' = AllKeys
        BY <1>1 DEF AllKeys
    <2> QED BY <1>1, <1>2, <1>3, <1>4, <2>2, <2>3 DEF Appending
<1> QED BY <1>1, <1>2, <1>5, <1>6, <1>7, <1>8 DEF LogInv, JobOK

LEMMA AppendEndsStep == LogInv /\ AppendEnds => LogInv'
<1> SUFFICES ASSUME LogInv, AppendEnds PROVE LogInv'
    OBVIOUS
<1> DEFINE frame == [key |-> job.key, at |-> job.next, rec |-> job.rec]
           n == Len(log.frames)
<1>1. /\ job.kind = "write" /\ job' = [job EXCEPT !.next = @ + 1, !.busy = FALSE, !.rec = <<>>]
      /\ log' = [log EXCEPT !.frames = Append(@, frame), !.tail = "clean"]
      /\ UNCHANGED <<current, dest, owed>>
    BY DEF AppendEnds
<1>2. /\ Appending /\ LogOK /\ OwedOK /\ log # NoFile /\ log \in LogFile /\ dest = NoFile
      /\ current \in {k1, k2} /\ log.frames \in Seq(Frame) /\ n \in Nat /\ log.synced \in Nat
      /\ log.synced <= n /\ job.key \in AllKeys /\ job.next = n /\ job.rec \in Seq(Bytes)
      /\ InOrder(log.frames, job.key) /\ Starts(owed, Texts(log.frames)) /\ log.header
      /\ Len(owed) <= log.synced /\ owed \in Seq(Seq(Bytes))
    BY <1>1, AppendingIs
<1>3. frame \in Frame /\ frame.key = job.key /\ frame.at = n /\ frame.rec = job.rec
    BY <1>2 DEF Frame, AllKeys
<1> HIDE DEF frame
<1>4. /\ log' \in LogFile /\ log'.frames = Append(log.frames, frame) /\ log'.header = log.header
      /\ log'.synced = log.synced
    <2>1. Append(log.frames, frame) \in Seq(Frame)
        BY <1>2, <1>3
    <2> QED BY <1>1, <1>2, <2>1 DEF LogFile, Tails, Frame
<1>5. log' # NoFile
    BY <1>4, LogAssumption
<1>6. /\ log'.frames \in Seq(Frame) /\ Len(log'.frames) = n + 1
      /\ \A i \in 1..n : log'.frames[i] = log.frames[i]
      /\ log'.frames[n + 1] = frame
    BY <1>2, <1>3, <1>4
<1>7. InOrder(log'.frames, job.key)
    <2>1. ASSUME NEW i \in 1..Len(log'.frames) PROVE OpensAt(log'.frames, i, job.key)
        <3>1. CASE i = n + 1
            <4>1. n = (n + 1) - 1
                BY <1>2
            <4> QED BY <1>3, <1>6, <3>1, <4>1 DEF OpensAt
        <3>2. CASE i # n + 1
            <4>1. i \in 1..n
                BY <1>2, <1>6, <3>2
            <4>2. OpensAt(log.frames, i, job.key)
                BY <1>2, <4>1 DEF InOrder
            <4> QED BY <1>6, <4>1, <4>2 DEF OpensAt
        <3> QED BY <3>1, <3>2
    <2> QED BY <2>1 DEF InOrder
<1>8. AllKeys' = AllKeys
    BY <1>1 DEF AllKeys
<1>9. LogOK'
    <2>1. log'.synced <= Len(log'.frames)
        BY <1>2, <1>4, <1>6
    <2> QED BY <1>2, <1>4, <1>7, <1>8, <2>1 DEF LogOK
<1>10. OwedOK'
    <2>1. Starts(owed, Texts(log'.frames))
        <3>1. /\ Len(Texts(log.frames)) = n /\ Len(Texts(log'.frames)) = n + 1
              /\ \A i \in 1..n : Texts(log.frames)[i] = log.frames[i].rec
              /\ \A i \in 1..(n + 1) : Texts(log'.frames)[i] = log'.frames[i].rec
            BY <1>2, <1>6, TextsAre
        <3>2. ASSUME NEW i \in 1..n PROVE Texts(log'.frames)[i] = Texts(log.frames)[i]
            <4>1. Texts(log.frames)[i] = log.frames[i].rec
                BY <3>1
            <4>2. i \in 1..(n + 1)
                BY <1>2
            <4>3. Texts(log'.frames)[i] = log'.frames[i].rec
                BY <3>1, <4>2
            <4>4. log'.frames[i] = log.frames[i]
                BY <1>6
            <4> QED BY <4>1, <4>3, <4>4
        <3>3. Len(owed) <= n /\ \A i \in 1..Len(owed) : owed[i] = Texts(log.frames)[i]
            BY <1>2, <3>1 DEF Starts
        <3>4. Len(owed) \in Nat /\ Len(owed) <= n + 1 /\ \A i \in 1..Len(owed) : i \in 1..n
            BY <1>2, <3>3
        <3>5. \A i \in 1..Len(owed) : owed[i] = Texts(log'.frames)[i]
            BY <3>2, <3>3, <3>4
        <3> QED BY <3>1, <3>4, <3>5 DEF Starts
    <2> QED BY <1>1, <1>2, <1>4, <1>5, <2>1 DEF OwedOK, IsPublished
<1>11. DestOK'
    BY <1>1, <1>2 DEF DestOK
<1>12. Appending'
    <2>1. job' \in [kind : {"write"}, key : AllKeys, next : Nat, rec : Seq(Bytes), busy : BOOLEAN]
          /\ job'.key = job.key /\ job'.next = job.next + 1
        <3>1. job \in [kind : {"write"}, key : AllKeys, next : Nat, rec : Seq(Bytes), busy : BOOLEAN]
            BY <1>2 DEF Appending
        <3>2. <<>> \in Seq(Bytes) /\ job.next + 1 \in Nat
            BY <1>2
        <3> QED BY <1>1, <3>1, <3>2
    <2> QED BY <1>1, <1>2, <1>4, <1>5, <1>6, <1>7, <1>8, <2>1 DEF Appending
<1> QED BY <1>1, <1>2, <1>9, <1>10, <1>11, <1>12 DEF LogInv, JobOK

LEMMA SyncStep == LogInv /\ Sync => LogInv'
<1> SUFFICES ASSUME LogInv, Sync PROVE LogInv'
    OBVIOUS
<1> DEFINE n == Len(log.frames)
<1>1. /\ job.kind = "write" /\ log' = [log EXCEPT !.synced = n]
      /\ owed' = Texts(log.frames) /\ UNCHANGED <<current, dest, job>>
    BY DEF Sync
<1>2. /\ Appending /\ LogOK /\ OwedOK /\ log # NoFile /\ log \in LogFile /\ dest = NoFile
      /\ current \in {k1, k2} /\ log.frames \in Seq(Frame) /\ n \in Nat /\ log.header
    BY <1>1, AppendingIs
<1>3. log' \in LogFile /\ log'.frames = log.frames /\ log'.header = log.header /\ log'.synced = n
    BY <1>1, <1>2 DEF LogFile
<1>4. log' # NoFile
    BY <1>3, LogAssumption
<1>5. LogOK'
    BY <1>1, <1>2, <1>3 DEF LogOK, AllKeys
<1>6. OwedOK'
    <2>1. Texts(log.frames) \in Seq(Seq(Bytes)) /\ Len(Texts(log.frames)) = n
        BY <1>2, TextsAre
    <2>2. Starts(owed', Texts(log'.frames)) /\ Len(owed') <= log'.synced
        BY <1>1, <1>2, <1>3, <2>1 DEF Starts
    <2> QED BY <1>1, <1>2, <1>3, <1>4, <2>1, <2>2 DEF OwedOK, IsPublished
<1>7. DestOK'
    BY <1>1, <1>2 DEF DestOK
<1>8. Appending'
    <2>1. AllKeys' = AllKeys
        BY <1>1 DEF AllKeys
    <2> QED BY <1>1, <1>2, <1>3, <1>4, <2>1 DEF Appending
<1> QED BY <1>1, <1>2, <1>5, <1>6, <1>7, <1>8 DEF LogInv, JobOK

\* The call ends, well or not, and leaves the files as they are.
LEMMA EndStep == LogInv /\ (AppendFails \/ Close \/ SealFails \/ Kill) => LogInv'
<1> SUFFICES ASSUME LogInv, AppendFails \/ Close \/ SealFails \/ Kill PROVE LogInv'
    OBVIOUS
<1>1. UNCHANGED <<current, log, dest, owed>> /\ job' = Idle
    BY DEF AppendFails, Close, SealFails, Kill
<1>2. JobOK'
    BY <1>1 DEF JobOK, Idle
<1> QED BY <1>1, <1>2, OnlyTheJob

SealingJob == [kind : {"compact", "inplace"}, at : Stages, todo : Seq(Seq(Bytes)), of : Seq(Bytes)]

\* A call that starts to seal, with its source in place.
LEMMA SealingStarts ==
    ASSUME LogInv, UNCHANGED <<current, log, dest, owed>>,
           NEW pieces \in Seq(Seq(Bytes)), NEW kind \in {"compact", "inplace"},
           job' = Sealing(pieces, kind), FromFile' \/ FromLog'
    PROVE  LogInv'
<1>1. FlattenSeq(pieces) \in Seq(Bytes)
    BY JoinType
<1>2. job' \in SealingJob /\ job'.at = "start" /\ job'.of = FlattenSeq(job'.todo)
    BY <1>1 DEF Sealing, SealingJob, Stages
<1>3. SealingOK'
    BY <1>2 DEF SealingOK, SealingJob
<1>4. JobOK'
    BY <1>3 DEF JobOK
<1> QED BY <1>4, OnlyTheJob

LEMMA CompactStep == LogInv /\ Compact => LogInv'
<1> SUFFICES ASSUME LogInv, Compact PROVE LogInv'
    OBVIOUS
<1>1. /\ dest = NoFile /\ LogOpens(log) /\ log # NoFile
      /\ job' = Sealing(Recovered(log), "compact") /\ UNCHANGED <<current, log, dest, owed>>
    BY DEF Compact, LogOpens
<1>2. LogOK
    BY DEF LogInv
<1>3. log \in LogFile /\ log.header /\ Recovered(log) = Texts(log.frames)
    BY <1>1, <1>2, KeyIsFound
<1>4. log.frames \in Seq(Frame)
    BY <1>3, LogFileIs
<1>5. Texts(log.frames) \in Seq(Seq(Bytes))
    BY <1>4, TextsAre
<1>6. job'.kind = "compact" /\ job'.of = FlattenSeq(Texts(log.frames))
    BY <1>1, <1>3 DEF Sealing
<1>7. FromLog'
    BY <1>1, <1>3, <1>6 DEF FromLog
<1> QED BY <1>1, <1>3, <1>5, <1>7, SealingStarts

LEMMA SealInPlaceStep == LogInv /\ SealInPlace => LogInv'
<1> SUFFICES ASSUME LogInv, SealInPlace PROVE LogInv'
    OBVIOUS
<1>1. /\ dest # NoFile /\ dest.plain
      /\ job' = Sealing(<<dest.bytes>>, "inplace") /\ UNCHANGED <<current, log, dest, owed>>
    BY DEF SealInPlace
<1>2. dest \in PlainFile
    BY <1>1 DEF LogInv, DestOK, PublishedOK, Published
<1>3. <<dest.bytes>> \in Seq(Seq(Bytes))
    BY <1>2 DEF PlainFile
<1>4. FromFile'
    BY <1>1, <1>2 DEF FromFile, Sealing
<1> QED BY <1>1, <1>3, <1>4, SealingStarts

\* A sealing call not yet renamed.
LEMMA SealingIs ==
    ASSUME LogInv, Seals
    PROVE  /\ SealingOK /\ job \in SealingJob
           /\ job.kind \in {"compact", "inplace"} /\ job.todo \in Seq(Seq(Bytes)) /\ job.of \in Seq(Bytes)
           /\ job.at = "start" => job.of = FlattenSeq(job.todo) /\ (FromFile \/ FromLog)
           /\ job.at = "write" => Halfway /\ (FromFile \/ FromLog)
           /\ job.at = "verify" => Complete /\ (FromFile \/ FromLog)
           /\ job.at = "publish" => Complete /\ ~temp.garbled /\ (FromFile \/ FromLog)
           /\ job.at = "settle" => IsPublished
<1>1. SealingOK
    BY JobIs DEF LogInv
<1>2. job \in SealingJob
    BY <1>1 DEF SealingOK, SealingJob
<1>3. job.kind \in {"compact", "inplace"} /\ job.todo \in Seq(Seq(Bytes)) /\ job.of \in Seq(Bytes)
    BY <1>2 DEF SealingJob
<1> QED BY <1>1, <1>2, <1>3 DEF SealingOK

\* It goes on, and so does what it seals.
LEMMA SealingGoesOn ==
    ASSUME LogInv, Seals, UNCHANGED <<current, log, dest, owed>>, FromFile \/ FromLog,
           job' \in SealingJob, job'.kind = job.kind, job'.of = job.of,
           \/ job'.at = "write" /\ Halfway'
           \/ job'.at = "verify" /\ Complete'
           \/ job'.at = "publish" /\ Complete' /\ ~temp'.garbled
    PROVE  LogInv'
<1>1. FromFile' \/ FromLog'
    BY DEF FromFile, FromLog
<1>2. SealingOK'
    BY <1>1 DEF SealingOK, SealingJob
<1>3. JobOK'
    BY <1>2 DEF JobOK
<1> QED BY <1>3, OnlyTheJob

LEMMA NewWriterIs ==
    ASSUME NEW key \in {k1, k2}
    PROVE  /\ Unfinished(NewWriter(key)) /\ NewWriter(key).key = key /\ Holds(NewWriter(key), <<>>)
<1>1. /\ NewWriter(key) \in Writer /\ NewWriter(key).key = key
      /\ NewWriter(key).chunks = <<>> /\ NewWriter(key).buffer = <<>>
    BY DEF NewWriter, Writer
<1>2. ChunkSize \in Nat
    BY ChunkIsPositive
<1>3. Unfinished(NewWriter(key))
    BY <1>1, <1>2 DEF Unfinished
<1>4. Holds(NewWriter(key), <<>>)
    BY <1>1, <1>2 DEF Holds
<1> QED BY <1>1, <1>3, <1>4

LEMMA CreateTempStep == LogInv /\ CreateTemp => LogInv'
<1> SUFFICES ASSUME LogInv, CreateTemp PROVE LogInv'
    OBVIOUS
<1>1. /\ Seals /\ job.at = "start"
      /\ temp' = [w |-> NewWriter(current), synced |-> FALSE, garbled |-> FALSE]
      /\ job' = [job EXCEPT !.at = "write"] /\ UNCHANGED <<current, log, dest, owed>>
    BY DEF CreateTemp
<1>2. /\ job \in SealingJob /\ job.todo \in Seq(Seq(Bytes)) /\ (FromFile \/ FromLog)
      /\ job.of = FlattenSeq(job.todo)
    BY <1>1, SealingIs
<1>3. job' \in SealingJob /\ job'.at = "write" /\ job'.kind = job.kind /\ job'.of = job.of /\ job'.todo = job.todo
    BY <1>1, <1>2 DEF SealingJob, Stages
<1>4. current \in {k1, k2}
    BY DEF LogInv
<1> DEFINE w == NewWriter(current)
<1>5. Unfinished(w) /\ w.key = current /\ Holds(w, <<>>)
    BY <1>4, NewWriterIs
<1> HIDE DEF w
<1>6. w \in Writer /\ current \in AllKeys'
    BY <1>1, <1>5 DEF Unfinished, AllKeys
<1>7. temp' \in [w : Writer, synced : BOOLEAN, garbled : BOOLEAN] /\ temp'.w = w
    BY <1>1, <1>6 DEF w
<1>8. <<>> \in Seq(Bytes) /\ job.of = <<>> \o FlattenSeq(job.todo)
    <2>1. FlattenSeq(job.todo) \in Seq(Bytes)
        BY <1>2, JoinType
    <2>2. \A s \in Seq(Bytes) : s = <<>> \o s
        OBVIOUS
    <2> QED BY <1>2, <2>1, <2>2
<1>9. Halfway'
    BY <1>3, <1>5, <1>6, <1>7, <1>8 DEF Halfway
<1> QED BY <1>1, <1>2, <1>3, <1>9, SealingGoesOn

LEMMA Regrouped ==
    ASSUME NEW S, NEW a \in Seq(S), NEW b \in Seq(S), NEW c \in Seq(S)
    PROVE  a \o (b \o c) = (a \o b) \o c
    OBVIOUS

LEMMA WritePieceStep == LogInv /\ WritePiece => LogInv'
<1> SUFFICES ASSUME LogInv, WritePiece PROVE LogInv'
    OBVIOUS
<1>1. /\ Seals /\ job.at = "write" /\ job.todo # <<>>
      /\ temp' = [temp EXCEPT !.w = WritePlain(@, Head(job.todo))]
      /\ job' = [job EXCEPT !.todo = Tail(@)] /\ UNCHANGED <<current, log, dest, owed>>
    BY DEF WritePiece
<1>2. job \in SealingJob /\ job.todo \in Seq(Seq(Bytes)) /\ (FromFile \/ FromLog) /\ Halfway
    BY <1>1, SealingIs
<1> DEFINE piece == Head(job.todo)
           rest == Tail(job.todo)
           v == WritePlain(temp.w, piece)
<1>3. piece \in Seq(Bytes) /\ rest \in Seq(Seq(Bytes)) /\ FlattenSeq(job.todo) = piece \o FlattenSeq(rest)
    BY <1>1, <1>2, JoinTakes
<1>4. FlattenSeq(rest) \in Seq(Bytes)
    BY <1>3, JoinType
<1> HIDE DEF piece, rest
<1>5. /\ job' \in SealingJob /\ job'.at = "write" /\ job'.kind = job.kind /\ job'.of = job.of
      /\ job'.todo = rest
    BY <1>1, <1>2, <1>3 DEF SealingJob, rest
<1>6. PICK content \in Seq(Bytes) : Holds(temp.w, content) /\ job.of = content \o FlattenSeq(job.todo)
    BY <1>2 DEF Halfway
<1>7. /\ temp \in [w : Writer, synced : BOOLEAN, garbled : BOOLEAN]
      /\ Unfinished(temp.w) /\ temp.w.key \in AllKeys
    BY <1>2 DEF Halfway
<1>8. Unfinished(v) /\ v.key = temp.w.key /\ Holds(v, content \o piece)
    BY <1>3, <1>6, <1>7, PlainWritten
<1>9. v \in Writer
    BY <1>8 DEF Unfinished
<1>10. temp' = [temp EXCEPT !.w = v]
    BY <1>1 DEF piece
<1> HIDE DEF v
<1>11. temp' \in [w : Writer, synced : BOOLEAN, garbled : BOOLEAN] /\ temp'.w = v
    <2>1. temp \in [w : Writer, synced : BOOLEAN, garbled : BOOLEAN]
        BY <1>7
    <2> QED BY <1>9, <1>10, <2>1
<1>12. content \o piece \in Seq(Bytes) /\ job.of = (content \o piece) \o FlattenSeq(rest)
    <2> DEFINE left == FlattenSeq(rest)
    <2>1. left \in Seq(Bytes) /\ piece \in Seq(Bytes) /\ FlattenSeq(job.todo) = piece \o left
        BY <1>3, <1>4
    <2> HIDE DEF left
    <2>2. content \o piece \in Seq(Bytes)
        BY <2>1
    <2>3. job.of = content \o (piece \o left)
        BY <1>6, <2>1
    <2>4. content \o (piece \o left) = (content \o piece) \o left
        BY <2>1, Regrouped
    <2>5. job.of = (content \o piece) \o left
        BY <2>3, <2>4
    <2> QED BY <2>2, <2>5 DEF left
<1>13. v.key \in AllKeys'
    BY <1>1, <1>7, <1>8 DEF AllKeys
<1>14. Halfway'
    BY <1>5, <1>8, <1>11, <1>12, <1>13 DEF Halfway
<1> QED BY <1>1, <1>2, <1>5, <1>14, SealingGoesOn

LEMMA FinishTempStep == LogInv /\ FinishTemp => LogInv'
<1> SUFFICES ASSUME LogInv, FinishTemp PROVE LogInv'
    OBVIOUS
<1>1. PICK garbled \in {FALSE, job.kind = "inplace"} :
          /\ Seals /\ job.at = "write" /\ job.todo = <<>>
          /\ temp' = [Finished(temp) EXCEPT !.garbled = garbled]
          /\ job' = [job EXCEPT !.at = IF job.kind = "inplace" THEN "verify" ELSE "publish"]
          /\ UNCHANGED <<current, log, dest, owed>>
    BY DEF FinishTemp
<1>2. /\ job \in SealingJob /\ job.kind \in {"compact", "inplace"} /\ (FromFile \/ FromLog) /\ Halfway
    BY <1>1, SealingIs
<1>3. PICK content \in Seq(Bytes) : Holds(temp.w, content) /\ job.of = content \o FlattenSeq(<<>>)
    BY <1>1, <1>2 DEF Halfway
<1>4. /\ temp \in [w : Writer, synced : BOOLEAN, garbled : BOOLEAN]
      /\ Unfinished(temp.w) /\ temp.w.key \in AllKeys
    BY <1>2 DEF Halfway
<1>5. Holds(temp.w, job.of)
    <2>1. content \o <<>> = content
        OBVIOUS
    <2> QED BY <1>3, <2>1, JoinOfNone
<1> DEFINE v == SealChunk(temp.w, TRUE)
<1>6. Finished(temp) = [temp EXCEPT !.w = v, !.synced = TRUE]
    BY DEF Finished
<1> HIDE DEF v
<1>7. temp'.w = v /\ temp'.synced = TRUE /\ temp'.garbled = garbled
    BY <1>1, <1>4, <1>6
<1>8. garbled \in BOOLEAN /\ (job.kind # "inplace" => ~garbled)
    BY <1>1
<1>9. /\ job' \in SealingJob /\ job'.kind = job.kind /\ job'.of = job.of
      /\ job'.at = IF job.kind = "inplace" THEN "verify" ELSE "publish"
    BY <1>1, <1>2 DEF SealingJob, Stages
<1>10. temp.w.key \in AllKeys'
    BY <1>1, <1>4 DEF AllKeys
<1>11. Complete'
    BY <1>4, <1>5, <1>7, <1>8, <1>9, <1>10 DEF Complete, v
<1>12. \/ job'.at = "verify" /\ Complete'
       \/ job'.at = "publish" /\ Complete' /\ ~temp'.garbled
    BY <1>7, <1>8, <1>9, <1>11
<1> QED BY <1>1, <1>2, <1>9, <1>12, SealingGoesOn

LEMMA VerifyStep == LogInv /\ Verify => LogInv'
<1> SUFFICES ASSUME LogInv, Verify PROVE LogInv'
    OBVIOUS
<1>1. /\ Seals /\ job.at = "verify" /\ ~temp.garbled
      /\ job' = [job EXCEPT !.at = "publish"] /\ UNCHANGED <<current, log, temp, dest, owed>>
    BY DEF Verify, Verifies
<1>2. job \in SealingJob /\ (FromFile \/ FromLog) /\ Complete
    BY <1>1, SealingIs
<1>3. job' \in SealingJob /\ job'.at = "publish" /\ job'.kind = job.kind /\ job'.of = job.of
    BY <1>1, <1>2 DEF SealingJob, Stages
<1>4. Complete'
    BY <1>1, <1>2, <1>3 DEF Complete, AllKeys
<1> QED BY <1>1, <1>2, <1>3, <1>4, SealingGoesOn

\* The file a complete copy becomes.
LEMMA PublishedFileIs ==
    ASSUME NEW w, Unfinished(w), NEW content \in Seq(Bytes), Holds(w, content)
    PROVE  LET f == OnDisk(SealChunk(w, TRUE), 0)
           IN /\ FileOf(f, content) /\ f.key = w.key
              /\ f \in [key : {k1, k2}, chunks : Seq([data : Seq(Bytes), last : BOOLEAN]), size : Nat]
<1> DEFINE f == Finish(w)
<1>1. f = OnDisk(SealChunk(w, TRUE), 0)
    BY DEF Finish
<1>2. FileOf(f, content)
    BY DEF FileOf
<1>3. /\ f.key = w.key /\ f = [key |-> f.key, chunks |-> f.chunks, size |-> f.size]
      /\ Laid(f, content, Len(w.chunks), Len(w.buffer))
    BY FileIs
<1>4. f.size \in Nat
    BY <1>3 DEF Laid
<1>5. w.key \in {k1, k2} /\ w.chunks \in Seq(Chunk) /\ w.buffer \in Seq(Bytes)
    BY DEF Unfinished, Writer
<1>6. f.chunks \in Seq(Chunk)
    <2> DEFINE v == SealChunk(w, TRUE)
               c == [data |-> w.buffer, last |-> TRUE]
    <2>1. v = [key |-> w.key, chunks |-> Append(w.chunks, c), buffer |-> <<>>]
        BY SealedIs
    <2>2. c \in Chunk
        BY <1>5 DEF Chunk
    <2>3. f.chunks = v.chunks
        BY DEF Finish, OnDisk
    <2> HIDE DEF f, v, c
    <2>4. v.chunks = Append(w.chunks, c)
        BY <2>1
    <2>5. Append(w.chunks, c) \in Seq(Chunk)
        BY <1>5, <2>2
    <2> QED BY <2>3, <2>4, <2>5
<1> HIDE DEF f
<1>7. f \in [key : {k1, k2}, chunks : Seq(Chunk), size : Nat]
    BY <1>3, <1>4, <1>5, <1>6
<1> QED BY <1>1, <1>2, <1>3, <1>7 DEF Chunk

LEMMA RenameStep == LogInv /\ Rename => LogInv'
<1> SUFFICES ASSUME LogInv, Rename PROVE LogInv'
    OBVIOUS
<1> DEFINE f == OnDisk(temp.w, 0)
<1>1. /\ Seals /\ job.at = "publish"
      /\ dest' = [plain |-> FALSE, file |-> f, synced |-> temp.synced,
                  garbled |-> temp.garbled, of |-> job.of, settled |-> FALSE, old |-> dest]
      /\ job' = [job EXCEPT !.at = "settle"] /\ UNCHANGED <<current, log, owed>>
    BY DEF Rename
<1>2. /\ job \in SealingJob /\ job.kind \in {"compact", "inplace"} /\ job.of \in Seq(Bytes)
      /\ (FromFile \/ FromLog) /\ Complete /\ ~temp.garbled
    BY <1>1, SealingIs
<1>3. LogOK /\ OwedOK /\ current \in {k1, k2}
    BY DEF LogInv
<1>4. temp.synced = TRUE /\ temp.garbled = FALSE
    BY <1>2 DEF Complete
<1>5. PICK w : Unfinished(w) /\ w.key \in AllKeys /\ Holds(w, job.of) /\ temp.w = SealChunk(w, TRUE)
    BY <1>2 DEF Complete
<1>6. /\ FileOf(f, job.of) /\ f.key \in AllKeys
      /\ f \in [key : {k1, k2}, chunks : Seq([data : Seq(Bytes), last : BOOLEAN]), size : Nat]
    BY <1>2, <1>5, PublishedFileIs
<1> HIDE DEF f
<1>7. IF job.kind = "inplace" THEN dest \in PlainFile /\ NoRecording
      ELSE dest = NoFile /\ log # NoFile /\ Starts(FlattenSeq(owed), job.of)
    BY <1>2, SourceIs
<1>8. /\ dest \in {NoFile} \cup PlainFile /\ (dest # NoFile => NoRecording)
      /\ (owed # <<>> => log # NoFile) /\ Starts(FlattenSeq(owed), job.of)
    <2>1. CASE job.kind = "inplace"
        <3>1. dest \in PlainFile /\ NoRecording /\ owed = <<>>
            BY <1>7, <2>1 DEF NoRecording
        <3>2. Starts(FlattenSeq(owed), job.of)
            BY <1>2, <3>1, JoinOfNone DEF Starts
        <3> QED BY <3>1, <3>2
    <2>2. CASE job.kind # "inplace"
        BY <1>7, <2>2
    <2> QED BY <2>1, <2>2
<1>9. dest' \in Published
    BY <1>1, <1>2, <1>4, <1>6, <1>8 DEF Published
<1>10. /\ dest'.plain = FALSE /\ dest'.file = f /\ dest'.synced = TRUE /\ dest'.garbled = FALSE
       /\ dest'.of = job.of /\ dest'.settled = FALSE /\ dest'.old = dest
    BY <1>1, <1>4
<1>11. dest' # NoFile
    BY <1>9, LogAssumption
<1>12. IsPublished'
    BY <1>10, <1>11 DEF IsPublished
<1>13. LogOK'
    BY <1>1, <1>3 DEF LogOK, AllKeys
<1>14. OwedOK'
    BY <1>1, <1>3, <1>8, <1>10 DEF OwedOK
<1>15. DestOK'
    BY <1>1, <1>6, <1>8, <1>9, <1>10 DEF DestOK, PublishedOK, AllKeys, NoRecording
<1>16. JobOK'
    <2>1. job' \in SealingJob /\ job'.at = "settle"
        BY <1>1, <1>2 DEF SealingJob, Stages
    <2> QED BY <1>12, <2>1 DEF JobOK, SealingOK, SealingJob
<1> QED BY <1>1, <1>3, <1>13, <1>14, <1>15, <1>16 DEF LogInv

\* The name of a published file is on the disk.
LEMMA SettledIs ==
    ASSUME PublishedOK
    PROVE  LET d == [dest EXCEPT !.settled = TRUE, !.old = NoFile]
           IN /\ d \in Published /\ d # NoFile /\ d.plain = FALSE /\ d.settled = TRUE /\ d.of = dest.of
              /\ d.synced = dest.synced /\ d.garbled = dest.garbled /\ d.file = dest.file
<1> DEFINE d == [dest EXCEPT !.settled = TRUE, !.old = NoFile]
<1>1. dest \in Published
    BY DEF PublishedOK
<1>2. /\ d \in Published /\ d.plain = FALSE /\ d.settled = TRUE /\ d.of = dest.of
      /\ d.synced = dest.synced /\ d.garbled = dest.garbled /\ d.file = dest.file
    BY <1>1 DEF Published
<1> HIDE DEF d
<1>3. d # NoFile
    BY <1>2, LogAssumption
<1> QED BY <1>2, <1>3 DEF d

LEMMA IsPublishedOK ==
    ASSUME DestOK, dest # NoFile, ~(dest \in PlainFile)
    PROVE  PublishedOK
    BY DEF DestOK

LEMMA SettleStep == LogInv /\ Settle => LogInv'
<1> SUFFICES ASSUME LogInv, Settle PROVE LogInv'
    OBVIOUS
<1>1. /\ Seals /\ job.at = "settle"
      /\ dest' = [dest EXCEPT !.settled = TRUE, !.old = NoFile]
      /\ job' = [kind |-> IF job.kind = "compact" THEN "compacted" ELSE "idle"]
      /\ UNCHANGED <<current, log, owed>>
    BY DEF Settle
<1>2. IsPublished
    BY <1>1, SealingIs
<1>3. LogOK /\ OwedOK /\ DestOK /\ current \in {k1, k2}
    BY DEF LogInv
<1>4. PublishedOK
    BY <1>2, <1>3 DEF DestOK, IsPublished, PlainFile
<1>5. /\ dest' \in Published /\ dest' # NoFile /\ dest'.plain = FALSE /\ dest'.settled = TRUE
      /\ dest'.of = dest.of /\ dest'.synced = dest.synced /\ dest'.garbled = dest.garbled
      /\ dest'.file = dest.file
    BY <1>1, <1>4, SettledIs
<1>6. LogOK'
    BY <1>1, <1>3 DEF LogOK, AllKeys
<1>7. IsPublished'
    BY <1>5 DEF IsPublished
<1>8. OwedOK'
    BY <1>1, <1>2, <1>3, <1>5, <1>7 DEF OwedOK
<1>9. DestOK'
    BY <1>1, <1>4, <1>5 DEF DestOK, PublishedOK, AllKeys
<1>10. JobOK'
    BY <1>1 DEF JobOK, Idle
<1> QED BY <1>1, <1>3, <1>6, <1>8, <1>9, <1>10 DEF LogInv

LEMMA DeleteLogStep == LogInv /\ DeleteLog => LogInv'
<1> SUFFICES ASSUME LogInv, DeleteLog PROVE LogInv'
    OBVIOUS
<1>1. /\ log # NoFile /\ dest # NoFile /\ log' = NoFile /\ job' = Idle
      /\ dest' = [dest EXCEPT !.settled = TRUE, !.old = NoFile] /\ UNCHANGED <<current, owed>>
    BY DEF DeleteLog
<1>2. OwedOK /\ DestOK /\ current \in {k1, k2}
    BY DEF LogInv
<1>3. PublishedOK
    BY <1>1, <1>2 DEF DestOK, NoRecording
<1>4. /\ dest' \in Published /\ dest' # NoFile /\ dest'.plain = FALSE /\ dest'.settled = TRUE
      /\ dest'.of = dest.of /\ dest'.synced = dest.synced /\ dest'.garbled = dest.garbled
      /\ dest'.file = dest.file
    BY <1>1, <1>3, SettledIs
<1>5. LogOK'
    BY <1>1 DEF LogOK
<1>6. IsPublished /\ IsPublished'
    BY <1>1, <1>3, <1>4 DEF IsPublished, PublishedOK, Published
<1>7. OwedOK'
    BY <1>1, <1>2, <1>4, <1>6 DEF OwedOK
<1>8. DestOK'
    BY <1>1, <1>3, <1>4 DEF DestOK, PublishedOK, AllKeys
<1> QED BY <1>1, <1>2, <1>5, <1>7, <1>8 DEF LogInv, JobOK

LEMMA RotateStep == LogInv /\ Rotate => LogInv'
<1> SUFFICES ASSUME LogInv, Rotate PROVE LogInv'
    OBVIOUS
<1>1. job = Idle /\ current = k1 /\ current' = k2 /\ UNCHANGED <<log, dest, job, owed>>
    BY DEF Rotate
<1>2. \A key \in AllKeys : key \in AllKeys'
    BY <1>1 DEF AllKeys
<1>3. LogOK /\ OwedOK /\ DestOK
    BY DEF LogInv
<1>4. LogOK'
    BY <1>1, <1>2, <1>3 DEF LogOK
<1>5. OwedOK'
    BY <1>1, <1>3 DEF OwedOK, IsPublished
<1>6. DestOK'
    BY <1>1, <1>2, <1>3 DEF DestOK, PublishedOK, NoRecording
<1>7. JobOK'
    BY <1>1 DEF JobOK, Idle
<1> QED BY <1>1, <1>4, <1>5, <1>6, <1>7 DEF LogInv

\* The frames that a power loss leaves are the first ones, all that were synced among them.
LEMMA LogsLeftAre ==
    ASSUME log # NoFile, LogOK, OwedOK, NEW l \in LogsLeft
    PROVE  /\ l \in LogFile /\ l.header = log.header /\ l.synced = log.synced
           /\ l.frames \in Seq(Frame) /\ l.synced \in Nat /\ l.synced <= Len(l.frames)
           /\ \E key \in AllKeys : InOrder(l.frames, key)
           /\ Starts(owed, Texts(l.frames)) /\ (~l.header => l.frames = <<>>)
<1>1. /\ log \in LogFile /\ log.synced <= Len(log.frames) /\ (~log.header => log.frames = <<>>)
      /\ Starts(owed, Texts(log.frames)) /\ Len(owed) <= log.synced /\ owed \in Seq(Seq(Bytes))
    BY DEF LogOK, OwedOK
<1>2. log.frames \in Seq(Frame) /\ Len(log.frames) \in Nat /\ log.synced \in Nat
    BY <1>1, LogFileIs
<1>3. PICK cut \in Cuts : l = [log EXCEPT !.frames = SubSeq(@, 1, cut.frames), !.tail = cut.tail]
    BY DEF LogsLeft, TornAt
<1> DEFINE n == cut.frames
           frames == SubSeq(log.frames, 1, n)
<1>4. n \in Nat /\ n \in 0..Len(log.frames) /\ log.synced <= n /\ cut.tail \in Tails
    BY <1>2, <1>3 DEF Cuts
<1>5. /\ frames \in Seq(Frame) /\ Len(frames) = n /\ \A i \in 1..n : frames[i] = log.frames[i]
    BY <1>2, <1>4, BeginningIs
<1> HIDE DEF frames
<1>6. /\ l \in LogFile /\ l.frames = frames /\ l.header = log.header /\ l.synced = log.synced
    <2>1. l = [log EXCEPT !.frames = frames, !.tail = cut.tail]
        BY <1>3 DEF frames
    <2> QED BY <1>1, <1>4, <1>5, <2>1 DEF LogFile, Frame
<1>7. \E key \in AllKeys : InOrder(frames, key)
    <2>1. PICK key \in AllKeys : InOrder(log.frames, key)
        BY DEF LogOK
    <2>2. ASSUME NEW i \in 1..n PROVE OpensAt(frames, i, key)
        <3>1. i \in 1..Len(log.frames)
            BY <1>2, <1>4
        <3>2. OpensAt(log.frames, i, key)
            BY <2>1, <3>1 DEF InOrder
        <3> QED BY <1>5, <3>2 DEF OpensAt
    <2> QED BY <1>5, <2>2 DEF InOrder
<1>8. Starts(owed, Texts(frames))
    <2>1. /\ Len(Texts(log.frames)) = Len(log.frames) /\ Len(Texts(frames)) = n
          /\ \A i \in 1..Len(log.frames) : Texts(log.frames)[i] = log.frames[i].rec
          /\ \A i \in 1..n : Texts(frames)[i] = frames[i].rec
        BY <1>2, <1>5, TextsAre
    <2>2. Len(owed) \in Nat /\ Len(owed) <= n
        BY <1>1, <1>2, <1>4
    <2>3. ASSUME NEW i \in 1..Len(owed) PROVE owed[i] = Texts(frames)[i]
        <3>1. i \in 1..n /\ i \in 1..Len(log.frames)
            BY <1>2, <1>4, <2>2
        <3>2. owed[i] = Texts(log.frames)[i]
            BY <1>1 DEF Starts
        <3> QED BY <1>5, <2>1, <3>1, <3>2
    <2> QED BY <2>1, <2>2, <2>3 DEF Starts
<1>9. ~log.header => frames = <<>>
    <2>1. ASSUME ~log.header PROVE frames = <<>>
        <3>1. Len(frames) = 0
            BY <1>1, <1>4, <1>5, <2>1
        <3> QED BY <1>5, <3>1
    <2> QED BY <2>1
<1>10. l.synced <= Len(l.frames)
    BY <1>4, <1>5, <1>6
<1> QED BY <1>2, <1>5, <1>6, <1>7, <1>8, <1>9, <1>10

LEMMA PowerLossStep == LogInv /\ PowerLoss => LogInv'
<1> SUFFICES ASSUME LogInv, PowerLoss PROVE LogInv'
    OBVIOUS
<1>1. PICK l \in LogsLeft : log' = IF l # NoFile /\ ~l.header THEN NoFile ELSE l
    BY DEF PowerLoss
<1>2. PICK d \in DestsLeft :
          dest' = IF d = NoFile \/ d.plain THEN d ELSE [d EXCEPT !.settled = TRUE, !.old = NoFile]
    BY DEF PowerLoss
<1>3. job' = Idle /\ UNCHANGED <<current, owed>>
    BY DEF PowerLoss
<1>4. LogOK /\ OwedOK /\ DestOK /\ current \in {k1, k2} /\ AllKeys' = AllKeys
    BY <1>3 DEF LogInv, AllKeys
\* The log: gone if it was, or if nothing of its header is left.
<1>5. /\ log = NoFile => log' = NoFile
      /\ log # NoFile /\ log' = NoFile => owed = <<>>
      /\ log' # NoFile =>
             /\ log # NoFile /\ log' \in LogFile /\ log'.header /\ log'.synced <= Len(log'.frames)
             /\ \E key \in AllKeys : InOrder(log'.frames, key)
             /\ Starts(owed, Texts(log'.frames)) /\ Len(owed) <= log'.synced
    <2>1. CASE log = NoFile
        BY <1>1, <2>1 DEF LogsLeft
    <2>2. CASE log # NoFile
        <3>1. /\ l \in LogFile /\ l.header = log.header /\ l.synced = log.synced
              /\ l.synced <= Len(l.frames) /\ (\E key \in AllKeys : InOrder(l.frames, key))
              /\ Starts(owed, Texts(l.frames))
            BY <1>4, <2>2, LogsLeftAre
        <3>2. l # NoFile
            BY <3>1, LogAssumption
        <3>3. Len(owed) <= log.synced /\ (~log.header => owed = <<>>)
            BY <1>4, <2>2 DEF OwedOK
        <3>4. CASE l.header
            <4>1. log' = l
                BY <1>1, <3>4
            <4> QED BY <2>2, <3>1, <3>2, <3>3, <3>4, <4>1
        <3>5. CASE ~l.header
            <4>1. log' = NoFile
                BY <1>1, <3>2, <3>5
            <4> QED BY <2>2, <3>1, <3>3, <3>5, <4>1
        <3> QED BY <3>4, <3>5
    <2> QED BY <2>1, <2>2
<1>6. LogOK'
    BY <1>4, <1>5 DEF LogOK
\* The file: as it was, or not yet renamed.
<1>7. \/ dest' = NoFile /\ (log = NoFile => owed = <<>>)
      \/ dest' \in PlainFile /\ NoRecording
      \/ PublishedOK /\ dest' = [dest EXCEPT !.settled = TRUE, !.old = NoFile]
    <2>1. CASE dest = NoFile
        <3>1. dest' = NoFile
            BY <1>2, <2>1 DEF DestsLeft
        <3> QED BY <1>4, <2>1, <3>1 DEF OwedOK, IsPublished
    <2>2. CASE dest \in PlainFile /\ NoRecording
        <3>1. dest.plain
            BY <2>2 DEF PlainFile
        <3>2. d = dest
            BY <3>1 DEF DestsLeft
        <3> QED BY <1>2, <2>2, <3>1, <3>2
    <2>3. CASE dest # NoFile /\ PublishedOK
        <3>1. /\ dest \in Published /\ dest.plain = FALSE /\ dest.synced = TRUE
              /\ dest.settled \in BOOLEAN /\ dest.old \in {NoFile} \cup PlainFile
            BY <2>3 DEF PublishedOK, Published
        <3>2. d \in {dest} \cup (IF dest.settled THEN {} ELSE {dest.old})
            BY <2>3, <3>1 DEF DestsLeft
        <3>3. CASE d = dest
            BY <1>2, <2>3, <3>1, <3>3
        <3>4. CASE d # dest
            <4>1. ~dest.settled /\ d = dest.old
                BY <3>1, <3>2, <3>4
            <4>2. (dest.old # NoFile => NoRecording) /\ (owed # <<>> => log # NoFile)
                BY <2>3, <4>1 DEF PublishedOK
            <4>3. CASE d = NoFile
                BY <1>2, <4>2, <4>3
            <4>4. CASE d # NoFile
                <5>1. d \in PlainFile /\ NoRecording
                    BY <3>1, <4>1, <4>2, <4>4
                <5>2. d.plain
                    BY <5>1 DEF PlainFile
                <5> QED BY <1>2, <5>1, <5>2
            <4> QED BY <4>3, <4>4
        <3> QED BY <3>3, <3>4
    <2> QED BY <1>4, <2>1, <2>2, <2>3 DEF DestOK
<1>8. ASSUME PublishedOK, dest' = [dest EXCEPT !.settled = TRUE, !.old = NoFile]
      PROVE  /\ dest' \in Published /\ dest' # NoFile /\ dest'.plain = FALSE /\ dest'.settled = TRUE
             /\ dest'.of = dest.of /\ dest'.synced = dest.synced /\ dest'.garbled = dest.garbled
             /\ dest'.file = dest.file /\ IsPublished /\ IsPublished'
    <2>1. /\ dest' \in Published /\ dest' # NoFile /\ dest'.plain = FALSE /\ dest'.settled = TRUE
          /\ dest'.of = dest.of /\ dest'.synced = dest.synced /\ dest'.garbled = dest.garbled
          /\ dest'.file = dest.file
        BY <1>8, SettledIs
    <2>2. dest # NoFile /\ dest.plain = FALSE
        BY <1>8, LogAssumption DEF PublishedOK, Published
    <2> QED BY <2>1, <2>2 DEF IsPublished
<1>9. DestOK'
    <2>1. CASE dest' = NoFile
        BY <2>1 DEF DestOK
    <2>2. CASE dest' \in PlainFile /\ NoRecording
        BY <1>3, <1>5, <2>2 DEF DestOK, NoRecording
    <2>3. CASE PublishedOK /\ dest' = [dest EXCEPT !.settled = TRUE, !.old = NoFile]
        <3>1. /\ dest' \in Published /\ dest'.settled = TRUE /\ dest'.of = dest.of
              /\ dest'.synced = dest.synced /\ dest'.garbled = dest.garbled /\ dest'.file = dest.file
            BY <1>8, <2>3
        <3> QED BY <1>4, <2>3, <3>1 DEF DestOK, PublishedOK
    <2> QED BY <1>7, <2>1, <2>2, <2>3
<1>10. OwedOK'
    <2>1. /\ owed \in Seq(Seq(Bytes))
          /\ log' # NoFile => Starts(owed, Texts(log'.frames)) /\ Len(owed) <= log'.synced /\ log'.header
        BY <1>4, <1>5 DEF OwedOK
    <2>2. /\ log' = NoFile /\ owed # <<>> => IsPublished' /\ dest'.settled
          /\ IsPublished' => Starts(FlattenSeq(owed), dest'.of)
        <3>1. CASE dest' = NoFile /\ (log = NoFile => owed = <<>>)
            BY <1>5, <3>1 DEF IsPublished
        <3>2. CASE dest' \in PlainFile /\ NoRecording
            BY <3>2 DEF IsPublished, NoRecording, PlainFile
        <3>3. CASE PublishedOK /\ dest' = [dest EXCEPT !.settled = TRUE, !.old = NoFile]
            <4>1. dest'.settled = TRUE /\ dest'.of = dest.of /\ IsPublished /\ IsPublished'
                BY <1>8, <3>3
            <4>2. Starts(FlattenSeq(owed), dest.of)
                BY <1>4, <4>1 DEF OwedOK
            <4> QED BY <4>1, <4>2
        <3> QED BY <1>7, <3>1, <3>2, <3>3
    <2> QED BY <1>3, <2>1, <2>2 DEF OwedOK
<1> QED BY <1>3, <1>4, <1>6, <1>9, <1>10 DEF LogInv, JobOK

---------------------------------------------------------------------------
(* The theorems                                                            *)

LEMMA LogInvIsKept == LogInv /\ [LogNext]_logVars => LogInv'
<1>1. ASSUME LogInv, LogNext PROVE LogInv'
    BY <1>1, CreateStep, WriteHeaderStep, OpenAppendStep, AppendStartsStep, AppendEndsStep, SyncStep,
       EndStep, CompactStep, SealInPlaceStep, CreateTempStep, WritePieceStep, FinishTempStep,
       VerifyStep, RenameStep, SettleStep, DeleteLogStep, PowerLossStep, RotateStep
    DEF LogNext
<1>2. ASSUME LogInv, UNCHANGED logVars PROVE LogInv'
    <2>1. UNCHANGED <<current, log, temp, dest, job, owed, stops>>
        BY <1>2 DEF logVars
    <2>2. Creating' = Creating /\ Appending' = Appending
        BY <2>1 DEF Creating, Appending, AllKeys
    <2>3. FromFile' = FromFile /\ FromLog' = FromLog /\ IsPublished' = IsPublished
        BY <2>1 DEF FromFile, FromLog, IsPublished
    <2>4. Halfway' = Halfway /\ Complete' = Complete
        BY <2>1 DEF Halfway, Complete, AllKeys
    <2>5. SealingOK' = SealingOK
        BY <2>1, <2>3, <2>4 DEF SealingOK
    <2>6. JobOK'
        BY <1>2, <2>1, <2>2, <2>5 DEF LogInv, JobOK
    <2> QED BY <1>2, <2>1, <2>6, OnlyTheJob
<1> QED BY <1>1, <1>2

\* What the calls, the disk and the machine do to a recording keeps the invariant above.
THEOREM LogInvHolds == LogSpec => []LogInv
    BY LogInitially, LogInvIsKept, PTL DEF LogSpec

\* Whatever is killed, full or cut off, every record that a sync answered for can be read back,
\* from the log or from the file made of it (SealedLogWriter::sync, open_recovering,
\* compact_to_sealed_file): for any records, any size of chunk, and any number of stops.
THEOREM RecordsAreKept == LogSpec => []SyncedKept
    BY LogInvHolds, SyncedIsKept, PTL

\* A file under its final name (finish, then the rename) opens, reads as what it was made of at
\* every range, and is refused when any of its end is missing.
THEOREM FilesAreWhole == LogSpec => []PublishedWhole
    BY LogInvHolds, PublishedIsWhole, PTL
=============================================================================
