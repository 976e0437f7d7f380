--------------------------- MODULE SequenceFacts ----------------------------
(***************************************************************************)
(* What the proofs of other modules use about data: induction over the     *)
(* natural numbers, stated for sets, that a function may be defined by     *)
(* recursion over them, what FlattenSeq of the community modules returns,  *)
(* and that concatenations may be regrouped.                               *)
(***************************************************************************)
EXTENDS Integers, SequencesExt, SequenceTheorems, WellFoundedInduction, TLAPS

-----------------------------------------------------------------------------
(* Induction *)

\* A set of natural numbers that is not empty has a least one.
LEMMA LeastOf ==
  ASSUME NEW T, T \subseteq Nat, T # {}
  PROVE  \E x \in T : \A y \in T : x <= y
<1> DEFINE R == OpToRel(<, Nat)
<1>1. IsWellFoundedOn(R, Nat)
  BY NatLessThanWellFounded
<1>2. \A x, y \in Nat : y < x => <<y, x>> \in R
  BY DEF OpToRel
<1> HIDE DEF R
<1>3. PICK x \in T : \A y \in T : ~ (<<y, x>> \in R)
  BY <1>1, WFMin
<1>4. \A y \in T : ~ (y < x)
  BY <1>2, <1>3
<1>5. \A y \in T : x \in Nat /\ y \in Nat
  OBVIOUS
<1> QED BY <1>4, <1>5, SMT

\* A set with 0 in it, and with every number the next one, has them all.
LEMMA InductionOver ==
  ASSUME NEW S, 0 \in S, \A n \in Nat : n \in S => n + 1 \in S
  PROVE  Nat \subseteq S
<1> SUFFICES ASSUME Nat \ S # {}
             PROVE  FALSE
  OBVIOUS
<1>1. PICK x \in Nat \ S : \A y \in Nat \ S : x <= y
  BY LeastOf
<1>2. x - 1 \in Nat /\ (x - 1) + 1 = x
  <2>1. x # 0
    BY <1>1
  <2> QED BY <2>1, SMT
<1>3. x - 1 \in S
  BY <1>1, <1>2, SMT
<1> QED BY <1>1, <1>2, <1>3

-----------------------------------------------------------------------------
(* Recursion *)

\* f is defined up to n by its first value and the step F.
Recurs(f, n, f0, F) ==
  f[0] = f0 /\ \A i \in 0..(n - 1) : f[i + 1] = F[<<f[i], i + 1>>]

RecursOn(f, f0, F) ==
  f[0] = f0 /\ \A i \in Nat : f[i + 1] = F[<<f[i], i + 1>>]

LEMMA RecursAgree ==
  ASSUME NEW f0, NEW F, NEW f, NEW g, NEW n \in Nat, NEW m \in Nat, n <= m,
         Recurs(f, n, f0, F), Recurs(g, m, f0, F)
  PROVE  \A i \in 0..n : f[i] = g[i]
<1> DEFINE S == {i \in Nat : i <= n => f[i] = g[i]}
<1>1. 0 \in S
  BY DEF Recurs
<1>2. ASSUME NEW i \in Nat, i \in S
      PROVE  i + 1 \in S
  <2> SUFFICES ASSUME i + 1 <= n
               PROVE  f[i + 1] = g[i + 1]
    OBVIOUS
  <2>1. i \in 0..(n - 1) /\ i \in 0..(m - 1) /\ i <= n
    BY SMT
  <2> QED BY <1>2, <2>1 DEF Recurs
<1> HIDE DEF S
<1>3. Nat \subseteq S
  BY <1>1, <1>2, InductionOver
<1>4. \A i \in 0..n : i \in Nat /\ i <= n
  OBVIOUS
<1> QED BY <1>3, <1>4 DEF S

LEMMA RecursUpTo ==
  ASSUME NEW T, NEW f0 \in T, NEW F \in [T \X Nat -> T], NEW n \in Nat
  PROVE  \E f \in [0..n -> T] : Recurs(f, n, f0, F)
<1> DEFINE S == {k \in Nat : \E f \in [0..k -> T] : Recurs(f, k, f0, F)}
<1>1. 0 \in S
  <2> DEFINE f == [i \in 0..0 |-> f0]
  <2>1. f \in [0..0 -> T] /\ f[0] = f0
    OBVIOUS
  <2>2. \A i \in 0..(0 - 1) : FALSE
    BY SMT
  <2> HIDE DEF f
  <2>3. Recurs(f, 0, f0, F)
    BY <2>1, <2>2 DEF Recurs
  <2> QED BY <2>1, <2>3
<1>2. ASSUME NEW k \in Nat, k \in S
      PROVE  k + 1 \in S
  <2>1. PICK f \in [0..k -> T] : Recurs(f, k, f0, F)
    BY <1>2
  <2> DEFINE g == [i \in 0..(k + 1) |-> IF i <= k THEN f[i] ELSE F[<<f[k], k + 1>>]]
  <2>2. k \in 0..k /\ k + 1 \in Nat /\ f[k] \in T
    OBVIOUS
  <2>3. F[<<f[k], k + 1>>] \in T
    BY <2>2
  <2>4. \A i \in 0..(k + 1) : i <= k => f[i] \in T
    BY SMT
  <2>5. g \in [0..(k + 1) -> T]
    BY <2>3, <2>4
  <2>6. g[0] = f0
    BY <2>1, SMT DEF Recurs
  <2>7. ASSUME NEW i \in 0..k
        PROVE  g[i + 1] = F[<<g[i], i + 1>>]
    <3>1. g[i] = f[i]
      BY SMT
    <3>2. CASE i = k
      <4>1. g[i + 1] = F[<<f[k], k + 1>>]
        BY <3>2, SMT
      <4> QED BY <3>1, <3>2, <4>1
    <3>3. CASE i # k
      <4>1. i \in 0..(k - 1) /\ i + 1 \in 0..(k + 1) /\ i + 1 <= k
        BY <3>3, SMT
      <4>2. g[i + 1] = f[i + 1]
        BY <4>1
      <4>3. f[i + 1] = F[<<f[i], i + 1>>]
        BY <2>1, <4>1 DEF Recurs
      <4> HIDE DEF g
      <4> QED BY <3>1, <4>2, <4>3
    <3> QED BY <3>2, <3>3
  <2>8. (k + 1) - 1 = k
    BY SMT
  <2> HIDE DEF g
  <2>9. Recurs(g, k + 1, f0, F)
    BY <2>6, <2>7, <2>8 DEF Recurs
  <2> QED BY <2>2, <2>5, <2>9
<1> HIDE DEF S
<1>3. Nat \subseteq S
  BY <1>1, <1>2, InductionOver
<1> QED BY <1>3 DEF S

\* A first value and a step make a function of the natural numbers.
LEMMA RecursiveFunction ==
  ASSUME NEW T, NEW f0 \in T, NEW F \in [T \X Nat -> T]
  PROVE  \E f \in [Nat -> T] : RecursOn(f, f0, F)
<1> DEFINE UpTo(n) == CHOOSE f \in [0..n -> T] : Recurs(f, n, f0, F)
           f == [n \in Nat |-> UpTo(n)[n]]
<1>1. \A n \in Nat : UpTo(n) \in [0..n -> T] /\ Recurs(UpTo(n), n, f0, F)
  BY RecursUpTo
<1> HIDE DEF UpTo
<1>2. \A n \in Nat : n \in 0..n /\ UpTo(n)[n] \in T
  BY <1>1
<1>3. f \in [Nat -> T]
  BY <1>2
<1>4. f[0] = f0
  BY <1>1 DEF Recurs
<1>5. ASSUME NEW i \in Nat
      PROVE  f[i + 1] = F[<<f[i], i + 1>>]
  <2>1. i + 1 \in Nat /\ i <= i + 1 /\ i \in 0..((i + 1) - 1) /\ i \in 0..i
    BY SMT
  <2>2. UpTo(i)[i] = UpTo(i + 1)[i]
    <3>1. \A k \in 0..i : UpTo(i)[k] = UpTo(i + 1)[k]
      BY <1>1, <2>1, RecursAgree
    <3> QED BY <2>1, <3>1
  <2>3. UpTo(i + 1)[i + 1] = F[<<UpTo(i + 1)[i], i + 1>>]
    BY <1>1, <2>1 DEF Recurs
  <2> QED BY <2>1, <2>2, <2>3
<1> HIDE DEF f
<1> QED BY <1>3, <1>4, <1>5 DEF RecursOn

-----------------------------------------------------------------------------
(* FlattenSeq *)

LEMMA AppendType ==
  ASSUME NEW T, NEW s \in Seq(T), NEW e \in T
  PROVE  Append(s, e) \in Seq(T)
OBVIOUS

\* The function FlattenSeq is defined with
Flattened(seqs) ==
  CHOOSE f : f = [i \in 1..Len(seqs) |->
                    IF i = 1 THEN seqs[i] ELSE f[i - 1] \o seqs[i]]

LEMMA FlattenIs ==
  ASSUME NEW S, NEW seqs \in Seq(Seq(S)), Len(seqs) > 0
  PROVE  FlattenSeq(seqs) = Flattened(seqs)[Len(seqs)]
BY DEF FlattenSeq, Flattened

LEMMA FlattenedRecurs ==
  ASSUME NEW S, NEW seqs \in Seq(Seq(S))
  PROVE  \A i \in 1..Len(seqs) :
           /\ Flattened(seqs)[i] \in Seq(S)
           /\ i = 1 => Flattened(seqs)[i] = seqs[i]
           /\ i > 1 => Flattened(seqs)[i] = Flattened(seqs)[i - 1] \o seqs[i]
<1> DEFINE L == Len(seqs)
           T == Seq(S)
           F == [p \in T \X Nat |-> IF p[2] \in 1..L THEN p[1] \o seqs[p[2]] ELSE p[1]]
<1>1. <<>> \in T /\ L \in Nat /\ \A i \in 1..L : seqs[i] \in T
  OBVIOUS
<1>2. \A s, t \in T : s \o t \in T /\ <<>> \o t = t
  OBVIOUS
<1> HIDE DEF T, L
<1>3. F \in [T \X Nat -> T]
  BY <1>1, <1>2
<1>4. \A s \in T, i \in 1..L : i \in Nat /\ F[<<s, i>>] = s \o seqs[i]
  <2>1. \A i \in 1..L : i \in Nat
    BY <1>1, SMT
  <2>2. \A p \in T \X Nat : p[2] \in 1..L => F[p] = p[1] \o seqs[p[2]]
    OBVIOUS
  <2>3. \A s \in T, i \in Nat : <<s, i>> \in T \X Nat /\ <<s, i>>[1] = s /\ <<s, i>>[2] = i
    OBVIOUS
  <2> HIDE DEF F
  <2> QED BY <2>1, <2>2, <2>3
<1> HIDE DEF F
<1>5. PICK f \in [Nat -> T] : f[0] = <<>> /\ \A i \in Nat : f[i + 1] = F[<<f[i], i + 1>>]
  <2>1. <<>> \in T
    BY <1>1
  <2>2. \E f \in [Nat -> T] : RecursOn(f, <<>>, F)
    BY <1>3, <2>1, RecursiveFunction
  <2> QED BY <2>2 DEF RecursOn
<1>6. ASSUME NEW i \in 1..L
      PROVE  f[i] \in T /\ f[i] = f[i - 1] \o seqs[i]
  <2>1. i - 1 \in Nat /\ (i - 1) + 1 = i /\ i \in Nat
    BY <1>1, SMT
  <2>2. f[i] = F[<<f[i - 1], i>>] /\ f[i - 1] \in T /\ f[i] \in T
    BY <1>5, <2>1
  <2> QED BY <1>4, <2>2
<1> DEFINE g == [i \in 1..L |-> f[i]]
           Def(h) == [i \in 1..L |-> IF i = 1 THEN seqs[i] ELSE h[i - 1] \o seqs[i]]
<1>7. g = Def(g)
  <2>1. ASSUME NEW i \in 1..L
        PROVE  f[i] = IF i = 1 THEN seqs[i] ELSE g[i - 1] \o seqs[i]
    <3>1. CASE i = 1
      <4>1. f[1 - 1] = <<>> 
        BY <1>5
      <4> QED BY <1>1, <1>2, <1>6, <3>1, <4>1
    <3>2. CASE i # 1
      <4>1. i - 1 \in 1..L
        BY <1>1, <3>2, SMT
      <4> QED BY <1>6, <3>2, <4>1
    <3> QED BY <3>1, <3>2
  <2> QED BY <2>1
<1>8. Flattened(seqs) = Def(Flattened(seqs))
  <2>1. \E h : h = Def(h)
    BY <1>7
  <2>2. Flattened(seqs) = CHOOSE h : h = Def(h)
    BY DEF Flattened, L
  <2> HIDE DEF Def
  <2> QED BY <2>1, <2>2
<1> HIDE DEF g
<1> DEFINE h == Flattened(seqs)
<1>9. \A i \in 1..L : h[i] = IF i = 1 THEN seqs[i] ELSE h[i - 1] \o seqs[i]
  BY <1>8
<1> HIDE DEF h, Def
<1> DEFINE K == {n \in Nat : n \in 1..L => h[n] \in T}
<1>10. 0 \in K
  BY <1>1, SMT
<1>11. ASSUME NEW n \in Nat, n \in K
       PROVE  n + 1 \in K
  <2> SUFFICES ASSUME n + 1 \in 1..L
               PROVE  h[n + 1] \in T
    OBVIOUS
  <2>1. CASE n = 0
    BY <1>1, <1>9, <2>1
  <2>2. CASE n # 0
    <3>1. n \in 1..L /\ n + 1 # 1 /\ (n + 1) - 1 = n
      BY <1>1, <2>2, SMT
    <3> QED BY <1>1, <1>2, <1>9, <1>11, <3>1
  <2> QED BY <2>1, <2>2
<1> HIDE DEF K
<1>12. Nat \subseteq K
  BY <1>10, <1>11, InductionOver
<1>13. \A i \in 1..L : i \in Nat /\ (i > 1 => i # 1)
  BY <1>1, SMT
<1> QED BY <1>9, <1>12, <1>13 DEF K, L, T, h

LEMMA FlattenEmpty == FlattenSeq(<<>>) = <<>>
BY DEF FlattenSeq

LEMMA FlattenType ==
  ASSUME NEW S, NEW seqs \in Seq(Seq(S))
  PROVE  FlattenSeq(seqs) \in Seq(S)
<1>1. CASE seqs = <<>>
  <2>1. <<>> \in Seq(S)
    OBVIOUS
  <2> QED BY <1>1, <2>1, FlattenEmpty, Zenon
<1>2. CASE seqs # <<>>
  <2>1. Len(seqs) > 0 /\ Len(seqs) \in 1..Len(seqs)
    BY <1>2
  <2>2. Flattened(seqs)[Len(seqs)] \in Seq(S)
    <3>1. \A i \in 1..Len(seqs) : Flattened(seqs)[i] \in Seq(S)
      BY FlattenedRecurs, Zenon
    <3> QED BY <2>1, <3>1, Zenon
  <2>3. FlattenSeq(seqs) = Flattened(seqs)[Len(seqs)]
    BY <2>1, FlattenIs, Zenon
  <2> QED BY <2>2, <2>3, Zenon
<1> QED BY <1>1, <1>2

\* One more sequence is put behind the others.
LEMMA FlattenAppend ==
  ASSUME NEW S, NEW seqs \in Seq(Seq(S)), NEW e \in Seq(S)
  PROVE  FlattenSeq(Append(seqs, e)) = FlattenSeq(seqs) \o e
<1> DEFINE L == Len(seqs)
           more == Append(seqs, e)
           f == Flattened(seqs)
           g == Flattened(more)
<1>1. /\ L \in Nat /\ more \in Seq(Seq(S)) /\ Len(more) = L + 1
      /\ more[L + 1] = e /\ \A i \in 1..L : more[i] = seqs[i]
  OBVIOUS
<1>2. \A i \in 1..L : /\ i = 1 => f[i] = seqs[i]
                      /\ i > 1 => f[i] = f[i - 1] \o seqs[i]
  BY FlattenedRecurs
<1> HIDE DEF more
<1>3. \A i \in 1..(L + 1) : /\ i = 1 => g[i] = more[i]
                            /\ i > 1 => g[i] = g[i - 1] \o more[i]
  BY <1>1, FlattenedRecurs
<1> DEFINE K == {n \in Nat : n \in 1..L => g[n] = f[n]}
<1> HIDE DEF L, f, g
<1>4. 0 \in K
  BY <1>1, SMT
<1>5. ASSUME NEW n \in Nat, n \in K
      PROVE  n + 1 \in K
  <2> SUFFICES ASSUME n + 1 \in 1..L
               PROVE  g[n + 1] = f[n + 1]
    OBVIOUS
  <2>1. n + 1 \in 1..(L + 1)
    BY <1>1, SMT
  <2>2. CASE n = 0
    <3>1. n + 1 = 1
      BY <2>2, SMT
    <3>2. 1 \in 1..L /\ 1 \in 1..(L + 1)
      BY <2>1, <3>1
    <3>3. f[1] = seqs[1] /\ g[1] = more[1] /\ more[1] = seqs[1]
      BY <1>1, <1>2, <1>3, <3>2
    <3> QED BY <3>1, <3>3
  <2>3. CASE n # 0
    <3>1. n \in 1..L /\ n + 1 > 1 /\ (n + 1) - 1 = n
      BY <1>1, <2>3, SMT
    <3>2. f[n + 1] = f[n] \o seqs[n + 1]
      <4>1. n + 1 \in 1..L
        OBVIOUS
      <4> QED BY <1>2, <3>1, <4>1
    <3>3. g[n + 1] = g[n] \o more[n + 1]
      BY <1>3, <2>1, <3>1
    <3> QED BY <1>1, <1>5, <3>1, <3>2, <3>3
  <2> QED BY <2>2, <2>3
<1> HIDE DEF K
<1>6. Nat \subseteq K
  BY <1>4, <1>5, InductionOver
<1>7. FlattenSeq(more) = g[L + 1]
  <2>1. Len(more) > 0
    BY <1>1, SMT
  <2> QED BY <1>1, <2>1, FlattenIs DEF g
<1>8. CASE L = 0
  <2>1. seqs = <<>> /\ <<>> \o e = e
    BY <1>8 DEF L
  <2>2. g[L + 1] = e
    BY <1>1, <1>3, <1>8
  <2> QED BY <1>7, <2>1, <2>2, FlattenEmpty DEF more
<1>9. CASE L # 0
  <2>1. L \in 1..L /\ L + 1 \in 1..(L + 1) /\ L + 1 > 1 /\ (L + 1) - 1 = L /\ Len(seqs) > 0
    BY <1>1, <1>9, SMT DEF L
  <2>2. g[L] = f[L]
    BY <1>1, <1>6, <2>1 DEF K
  <2>3. FlattenSeq(seqs) = f[L]
    BY <2>1, FlattenIs DEF f, L
  <2>4. g[L + 1] = g[L] \o e
    BY <1>1, <1>3, <2>1
  <2> QED BY <1>7, <2>2, <2>3, <2>4 DEF more
<1> QED BY <1>8, <1>9

-----------------------------------------------------------------------------
(* Concatenation *)

\* A name that stays closed: the provers then regroup without looking inside.
Join(x, y) == x \o y

LEMMA Regroup ==
  ASSUME NEW S
  PROVE  /\ \A x, y \in Seq(S) : Join(x, y) \in Seq(S)
         /\ \A x, y, z \in Seq(S) : Join(Join(x, y), z) = Join(x, Join(y, z))
<1>1. \A x, y \in Seq(S) : Join(x, y) \in Seq(S)
  BY ConcatProperties DEF Join
<1>2. \A x, y, z \in Seq(S) : Join(Join(x, y), z) = Join(x, Join(y, z))
  <2> TAKE x, y, z \in Seq(S)
  <2> QED BY ConcatAssociative DEF Join
<1> QED BY <1>1, <1>2

\* The first element is the head's, the rest is the rest's.
LEMMA SameHead ==
  ASSUME NEW S, NEW a \in S, NEW b \in S, NEW x \in Seq(S), NEW y \in Seq(S),
         <<a>> \o x = <<b>> \o y
  PROVE  a = b /\ x = y
<1> DEFINE u == <<a>>
           v == <<b>>
<1>1. /\ u \in Seq(S) /\ v \in Seq(S) /\ Len(u) = 1 /\ Len(v) = 1
      /\ u[1] = a /\ v[1] = b /\ 1 \in 1..1
  OBVIOUS
<1>2. u \o x = v \o y
  OBVIOUS
<1> HIDE DEF u, v
<1>3. /\ (u \o x)[1] = u[1] /\ (v \o y)[1] = v[1]
  <2>1. \A w, z \in Seq(S) : Len(w) = 1 => (w \o z)[1] = w[1]
    BY ConcatProperties, LenProperties
  <2> QED BY <1>1, <2>1
<1>4. a = b
  BY <1>1, <1>2, <1>3
<1>5. u = v
  BY <1>4 DEF u, v
<1> QED BY <1>1, <1>2, <1>4, <1>5, ConcatSimplifications

=============================================================================
