---------------------------- MODULE DataTheorems ----------------------------
(***************************************************************************)
(* Facts about numbers, functions and sequences that the proofs keep       *)
(* needing.                                                                *)
(*                                                                         *)
(* Induction is over a set of numbers here, not over a predicate: a set is *)
(* a value, which first-order provers can instantiate.                     *)
(***************************************************************************)
EXTENDS SequencesExt, FiniteSetTheorems, WellFoundedInduction, TLAPS

(* A set of natural numbers has a least one: the induction principle.      *)
LEMMA LeastNatural ==
  ASSUME NEW T \in SUBSET Nat, T # {}
  PROVE  \E n \in T : \A m \in T : n <= m
<1> DEFINE R == OpToRel(<, Nat)
<1>1. IsWellFoundedOn(R, Nat)
  BY NatLessThanWellFounded
<1>2. \A x, y \in Nat : x < y => <<x, y>> \in R
  BY DEF OpToRel
<1> HIDE DEF R
<1>3. PICK n \in T : \A m \in T : <<m, n>> \notin R
  BY <1>1, WFMin
<1>4. \A m \in T : n <= m
  <2> TAKE m \in T
  <2>1. ~(m < n) /\ m \in Nat /\ n \in Nat
    BY <1>2, <1>3
  <2> QED
    BY <2>1
<1> QED
  BY <1>4

(* A set with 0, and with every number after one it has, has all of them.  *)
LEMMA SetInduction ==
  ASSUME NEW S, 0 \in S, \A n \in Nat : n \in S => n + 1 \in S
  PROVE  Nat \subseteq S
<1> DEFINE T == Nat \ S
<1>1. SUFFICES ASSUME T # {} PROVE FALSE
  OBVIOUS
<1>2. PICK n \in T : \A m \in T : n <= m
  BY <1>1, LeastNatural
<1>3. n \in Nat \ {0}
  BY <1>2
<1>4. n - 1 \in Nat /\ n - 1 \notin T
  BY <1>2, <1>3
<1> QED
  BY <1>2, <1>3, <1>4

(* A bounded set of natural numbers has a greatest one. *)
LEMMA GreatestNatural ==
  ASSUME NEW T \in SUBSET Nat, T # {}, NEW b \in Nat, \A m \in T : m <= b
  PROVE  \E n \in T : \A m \in T : m <= n
<1> DEFINE U == {b - m : m \in T}
<1>1. U \in SUBSET Nat /\ U # {}
  <2>1. ASSUME NEW m \in T PROVE b - m \in Nat
    <3>1. m \in Nat /\ m <= b
      OBVIOUS
    <3> QED
      BY <3>1
  <2> QED
    BY <2>1
<1>2. PICK u \in U : \A v \in U : u <= v
  BY <1>1, LeastNatural
<1>3. PICK n \in T : u = b - n
  BY <1>2
<1>4. \A m \in T : m <= n
  <2> TAKE m \in T
  <2>1. b - n <= b - m
    BY <1>2, <1>3
  <2>2. m \in Nat /\ n \in Nat
    OBVIOUS
  <2> QED
    BY <2>1, <2>2
<1> QED
  BY <1>4

(* What Max and Min are for such sets. *)
LEMMA MaxOfBounded ==
  ASSUME NEW T \in SUBSET Nat, T # {}, NEW b \in Nat, \A m \in T : m <= b
  PROVE  Max(T) \in T /\ \A m \in T : m <= Max(T)
<1>1. \E n \in T : \A m \in T : n >= m
  BY GreatestNatural
<1> QED
  BY <1>1 DEF Max

LEMMA MinOfNaturals ==
  ASSUME NEW T \in SUBSET Nat, T # {}
  PROVE  Min(T) \in T /\ \A m \in T : Min(T) <= m
<1>1. \E n \in T : \A m \in T : n <= m
  BY LeastNatural
<1> QED
  BY <1>1 DEF Min

LEMMA MinOfTwo ==
  ASSUME NEW a \in Nat, NEW b \in Nat
  PROVE  Min({a, b}) = IF a <= b THEN a ELSE b
<1> DEFINE T == {a, b}
<1>1. T \in SUBSET Nat /\ T # {} /\ a \in T /\ b \in T /\ \A m \in T : m = a \/ m = b
  OBVIOUS
<1> HIDE DEF T
<1>2. Min(T) \in T /\ Min(T) <= a /\ Min(T) <= b
  BY <1>1, MinOfNaturals
<1>3. Min(T) = a \/ Min(T) = b
  BY <1>1, <1>2
<1> QED
  BY <1>2, <1>3 DEF T
-----------------------------------------------------------------------------
(* A function may be defined by recursion over an interval. *)
StepsOver(n, S) == [1..n -> [S -> S]]

Iterates(f, n, S, base, step) ==
  f \in [0..n -> S] /\ f[0] = base /\ \A i \in 1..n : f[i] = step[i][f[i - 1]]

LEMMA IntervalRecursion ==
  ASSUME NEW S, NEW base \in S, NEW n \in Nat, NEW step \in StepsOver(n, S)
  PROVE  \E f : Iterates(f, n, S, base, step)
<1> USE DEF StepsOver
<1> DEFINE Solves(f, k) == f[0] = base /\ \A i \in 1..k : f[i] = step[i][f[i - 1]]
           K == {k \in Nat : k <= n => \E f \in [0..k -> S] : Solves(f, k)}
<1>1. 0 \in K
  <2> DEFINE g == [i \in 0..0 |-> base]
  <2>1. g \in [0..0 -> S] /\ Solves(g, 0)
    OBVIOUS
  <2> HIDE DEF g, Solves
  <2> QED
    BY <2>1
<1>2. ASSUME NEW k \in Nat, k \in K PROVE k + 1 \in K
  <2>1. SUFFICES ASSUME k + 1 <= n PROVE \E f \in [0..(k + 1) -> S] : Solves(f, k + 1)
    <3> HIDE DEF Solves
    <3> QED
      OBVIOUS
  <2>2. PICK f \in [0..k -> S] : Solves(f, k)
    <3> HIDE DEF Solves
    <3> QED
      BY <1>2, <2>1
  <2> DEFINE g == [i \in 0..(k + 1) |-> IF i <= k THEN f[i] ELSE step[k + 1][f[k]]]
  <2>4. f[k] \in S /\ k + 1 \in 1..n
    BY <2>1, <2>2
  <2>5. step[k + 1][f[k]] \in S
    BY <2>4
  <2>6. g \in [0..(k + 1) -> S]
    BY <2>5
  <2>7. ASSUME NEW i \in 1..(k + 1) PROVE g[i] = step[i][g[i - 1]]
    <3>1. CASE i <= k
      BY <2>2, <3>1
    <3>2. CASE i = k + 1
      BY <2>2, <3>2
    <3> QED
      BY <3>1, <3>2
  <2>8. g[0] = base
    BY <2>2
  <2> HIDE DEF g
  <2> QED
    BY <2>6, <2>7, <2>8
<1>3. n \in K
  <2> HIDE DEF K
  <2> QED
    BY <1>1, <1>2, SetInduction
<1> HIDE DEF Solves
<1>4. \E f \in [0..n -> S] : Solves(f, n)
  BY <1>3
<1> QED
  BY <1>4 DEF Solves, Iterates
-----------------------------------------------------------------------------
(* FlattenSeq is the last of the concatenations of ever more of its argument. *)
LEMMA FlattenDefined ==
  ASSUME NEW S, NEW seqs \in Seq(Seq(S)), seqs # <<>>
  PROVE  \E f \in [1..Len(seqs) -> Seq(S)] :
           /\ f[1] = seqs[1]
           /\ \A i \in 2..Len(seqs) : f[i] = f[i - 1] \o seqs[i]
           /\ FlattenSeq(seqs) = f[Len(seqs)]
<1> DEFINE n == Len(seqs)
           T == Seq(S)
           empty == <<>>
           step == [i \in 1..n |-> [s \in Seq(S) |-> s \o seqs[i]]]
           D(f) == [i \in 1..n |-> IF i = 1 THEN seqs[i] ELSE f[i - 1] \o seqs[i]]
           F == CHOOSE f : f = D(f)
<1>1. n \in Nat \ {0} /\ \A i \in 1..n : seqs[i] \in Seq(S)
  OBVIOUS
<1>2. PICK g : g \in [0..n -> T] /\ g[0] = empty /\ \A i \in 1..n : g[i] = step[i][g[i - 1]]
  <2>1. step \in StepsOver(n, T)
    BY <1>1 DEF StepsOver
  <2>2. empty \in T /\ n \in Nat
    BY <1>1
  <2> HIDE DEF step, n, T, empty
  <2>3. \E f : Iterates(f, n, T, empty, step)
    BY <2>1, <2>2, IntervalRecursion
  <2> QED
    BY <2>3 DEF Iterates
<1> DEFINE h == [i \in 1..n |-> g[i]]
<1>3. ASSUME NEW i \in 1..n PROVE g[i] = g[i - 1] \o seqs[i]
  <2>1. i - 1 \in 0..n
    BY <1>1
  <2>2. g[i - 1] \in T
    <3> HIDE DEF T, n, step
    <3> QED
      BY <1>2, <2>1
  <2>3. g[i] = step[i][g[i - 1]]
    BY <1>2
  <2> QED
    BY <2>2, <2>3
<1>4. h = D(h)
  <2>1. ASSUME NEW i \in 1..n PROVE h[i] = IF i = 1 THEN seqs[i] ELSE h[i - 1] \o seqs[i]
    <3>0. g[i] = g[i - 1] \o seqs[i] /\ seqs[i] \in Seq(S) /\ h[i] = g[i]
      BY <1>1, <1>3
    <3>1. CASE i = 1
      <4>1. g[0] = <<>>
        BY <1>2
      <4>2. h[i] = <<>> \o seqs[i] /\ seqs[i] \in Seq(S)
        <5>1. i - 1 = 0
          BY <3>1
        <5> HIDE DEF h, n
        <5> QED
          BY <3>0, <4>1, <5>1
      <4>3. <<>> \o seqs[i] = seqs[i]
        BY <4>2
      <4> QED
        BY <3>1, <4>2, <4>3
    <3>2. CASE i # 1
      <4>1. i - 1 \in 1..n
        BY <1>1, <3>2
      <4>2. h[i - 1] = g[i - 1]
        BY <4>1
      <4> QED
        BY <3>0, <3>2, <4>2
    <3> QED
      BY <3>1, <3>2
  <2> QED
    BY <2>1
<1>5. F = D(F)
  <2> HIDE DEF D, h
  <2> QED
    BY <1>4
<1>6. ASSUME NEW i \in 1..n PROVE F[i] = IF i = 1 THEN seqs[i] ELSE F[i - 1] \o seqs[i]
  <2> HIDE DEF F
  <2> QED
    BY <1>5
<1>7. \A i \in 1..n : F[i] \in Seq(S)
  <2> HIDE DEF F
  <2> DEFINE K == {k \in Nat : k + 1 \in 1..n => F[k + 1] \in Seq(S)}
  <2>1. 0 \in K
    BY <1>1, <1>6
  <2>2. ASSUME NEW k \in Nat, k \in K PROVE k + 1 \in K
    <3>1. SUFFICES ASSUME k + 2 \in 1..n PROVE F[k + 2] \in Seq(S)
      OBVIOUS
    <3>2. F[k + 2] = F[k + 1] \o seqs[k + 2]
      <4>1. (k + 2) - 1 = k + 1 /\ k + 2 # 1
        OBVIOUS
      <4> HIDE DEF n
      <4> QED
        BY <1>6, <3>1, <4>1
    <3>3. F[k + 1] \in Seq(S) /\ seqs[k + 2] \in Seq(S)
      BY <1>1, <2>2, <3>1
    <3> QED
      BY <3>2, <3>3
  <2>3. Nat \subseteq K
    <3> HIDE DEF K
    <3> QED
      BY <2>1, <2>2, SetInduction
  <2>4. ASSUME NEW i \in 1..n PROVE F[i] \in Seq(S)
    <3>1. i - 1 \in Nat /\ (i - 1) + 1 = i
      BY <1>1
    <3>2. i - 1 \in K
      <4> HIDE DEF K, n
      <4> QED
        BY <2>3, <3>1
    <3> QED
      BY <3>1, <3>2
  <2> QED
    BY <2>4
<1>8. F \in [1..n -> Seq(S)]
  <2> HIDE DEF F
  <2> QED
    BY <1>5, <1>7
<1>9. FlattenSeq(seqs) = F[n]
  BY <1>1 DEF FlattenSeq
<1> HIDE DEF F
<1>10. F[1] = seqs[1] /\ \A i \in 2..n : F[i] = F[i - 1] \o seqs[i]
  <2>1. 1 \in 1..n /\ \A i \in 2..n : i \in 1..n /\ i # 1
    BY <1>1
  <2> HIDE DEF n
  <2> QED
    BY <1>6, <2>1
<1> HIDE DEF n
<1>11. \E f \in [1..n -> Seq(S)] :
          /\ f[1] = seqs[1]
          /\ \A i \in 2..n : f[i] = f[i - 1] \o seqs[i]
          /\ FlattenSeq(seqs) = f[n]
  BY <1>8, <1>9, <1>10
<1> QED
  BY <1>11 DEF n

Has(s, x) == \E k \in DOMAIN s : s[k] = x

LEMMA ConcatenationHas ==
  ASSUME NEW S, NEW s \in Seq(S), NEW t \in Seq(S), NEW x
  PROVE  Has(s \o t, x) <=> Has(s, x) \/ Has(t, x)
<1>1. ASSUME Has(s \o t, x) PROVE Has(s, x) \/ Has(t, x)
  <2>1. PICK m \in DOMAIN (s \o t) : (s \o t)[m] = x
    BY <1>1 DEF Has
  <2>2. CASE m <= Len(s)
    BY <2>1, <2>2 DEF Has
  <2>3. CASE ~(m <= Len(s))
    <3>1. m - Len(s) \in DOMAIN t /\ t[m - Len(s)] = x
      BY <2>1, <2>3
    <3> QED
      BY <3>1 DEF Has
  <2> QED
    BY <2>2, <2>3
<1>2. ASSUME Has(s, x) PROVE Has(s \o t, x)
  <2>1. PICK m \in DOMAIN s : s[m] = x
    BY <1>2 DEF Has
  <2>2. m \in DOMAIN (s \o t) /\ (s \o t)[m] = x
    BY <2>1
  <2> QED
    BY <2>2 DEF Has
<1>3. ASSUME Has(t, x) PROVE Has(s \o t, x)
  <2>1. PICK m \in DOMAIN t : t[m] = x
    BY <1>3 DEF Has
  <2>2. Len(s) + m \in DOMAIN (s \o t) /\ (s \o t)[Len(s) + m] = x
    BY <2>1
  <2> QED
    BY <2>2 DEF Has
<1> QED
  BY <1>1, <1>2, <1>3

(* The first i of the sequences, one after the other. *)
Concatenates(f, seqs, S) ==
  /\ f \in [1..Len(seqs) -> Seq(S)]
  /\ f[1] = seqs[1]
  /\ \A i \in 2..Len(seqs) : f[i] = f[i - 1] \o seqs[i]

LEMMA ConcatenatesTyped ==
  ASSUME NEW S, NEW seqs \in Seq(Seq(S)), NEW f, Concatenates(f, seqs, S), seqs # <<>>
  PROVE  /\ Len(seqs) \in Nat \ {0} /\ DOMAIN seqs = 1..Len(seqs)
         /\ \A j \in 1..Len(seqs) : seqs[j] \in Seq(S) /\ f[j] \in Seq(S)
<1>1. /\ Len(seqs) \in Nat \ {0} /\ DOMAIN seqs = 1..Len(seqs)
      /\ \A j \in 1..Len(seqs) : seqs[j] \in Seq(S)
  OBVIOUS
<1> DEFINE T == Seq(S)
<1>2. f \in [1..Len(seqs) -> T]
  BY DEF Concatenates
<1> HIDE DEF T
<1>3. \A j \in 1..Len(seqs) : f[j] \in T
  BY <1>2
<1> QED
  BY <1>1, <1>3 DEF T

HasUpTo(seqs, i, x) == \E j \in 1..i : Has(seqs[j], x)

LEMMA PrefixHas ==
  ASSUME NEW S, NEW seqs \in Seq(Seq(S)), NEW f, Concatenates(f, seqs, S),
         NEW i \in 1..Len(seqs)
  PROVE  \A x : Has(f[i], x) <=> HasUpTo(seqs, i, x)
<1> DEFINE n == Len(seqs)
           K == {k \in Nat : k + 1 \in 1..n => \A x : Has(f[k + 1], x) <=> HasUpTo(seqs, k + 1, x)}
<1>1. n \in Nat \ {0} /\ \A j \in 1..n : seqs[j] \in Seq(S) /\ f[j] \in Seq(S)
  BY ConcatenatesTyped
<1>2. 0 \in K
  <2>1. \A x : HasUpTo(seqs, 1, x) <=> Has(seqs[1], x)
    BY DEF HasUpTo
  <2> QED
    BY <2>1 DEF Concatenates
<1>3. ASSUME NEW k \in Nat, k \in K PROVE k + 1 \in K
  <2>1. SUFFICES ASSUME k + 2 \in 1..n, NEW x
                 PROVE  Has(f[k + 2], x) <=> HasUpTo(seqs, k + 2, x)
    <3>1. (k + 1) + 1 = k + 2 /\ k + 1 \in Nat
      OBVIOUS
    <3> HIDE DEF n
    <3> QED
      BY <3>1
  <2>2. k + 1 \in 1..n /\ k + 2 \in 2..n /\ (k + 2) - 1 = k + 1
    BY <1>1, <2>1
  <2>3. Has(f[k + 1], x) <=> HasUpTo(seqs, k + 1, x)
    BY <1>3, <2>2
  <2>4. HasUpTo(seqs, k + 2, x) <=> HasUpTo(seqs, k + 1, x) \/ Has(seqs[k + 2], x)
    BY DEF HasUpTo
  <2>5. f[k + 2] = f[k + 1] \o seqs[k + 2]
    <3>1. \A j \in 2..n : f[j] = f[j - 1] \o seqs[j]
      BY DEF Concatenates
    <3> HIDE DEF n
    <3> QED
      BY <2>2, <3>1
  <2>6. f[k + 1] \in Seq(S) /\ seqs[k + 2] \in Seq(S)
    <3> HIDE DEF n
    <3> QED
      BY <1>1, <2>1, <2>2
  <2>7. Has(f[k + 2], x) <=> Has(f[k + 1], x) \/ Has(seqs[k + 2], x)
    BY <2>5, <2>6, ConcatenationHas
  <2> QED
    BY <2>3, <2>4, <2>7
<1>4. i - 1 \in K /\ (i - 1) + 1 = i
  <2>1. i - 1 \in Nat /\ (i - 1) + 1 = i
    BY <1>1
  <2> HIDE DEF K
  <2>2. Nat \subseteq K
    BY <1>2, <1>3, SetInduction
  <2> QED
    BY <2>1, <2>2
<1> QED
  BY <1>4

(* Its elements are those of the sequences. *)
LEMMA FlattenElements ==
  ASSUME NEW S, NEW seqs \in Seq(Seq(S))
  PROVE  /\ FlattenSeq(seqs) \in Seq(S)
         /\ \A x : (\E k \in DOMAIN FlattenSeq(seqs) : FlattenSeq(seqs)[k] = x)
                  <=> \E i \in DOMAIN seqs : \E j \in DOMAIN seqs[i] : seqs[i][j] = x
<1>1. CASE seqs = <<>>
  BY <1>1 DEF FlattenSeq
<1>2. CASE seqs # <<>>
  <2>1. PICK f : Concatenates(f, seqs, S) /\ FlattenSeq(seqs) = f[Len(seqs)]
    BY <1>2, FlattenDefined DEF Concatenates
  <2>2. Len(seqs) \in 1..Len(seqs) /\ DOMAIN seqs = 1..Len(seqs)
    BY <1>2
  <2>3. f[Len(seqs)] \in Seq(S)
    BY <2>1, <2>2 DEF Concatenates
  <2>4. \A x : Has(f[Len(seqs)], x) <=> HasUpTo(seqs, Len(seqs), x)
    BY <2>1, <2>2, PrefixHas
  <2> QED
    BY <2>1, <2>2, <2>3, <2>4 DEF Has, HasUpTo
<1> QED
  BY <1>1, <1>2

LEMMA FlattenOne ==
  ASSUME NEW S, NEW s \in Seq(S)
  PROVE  FlattenSeq(<<s>>) = s
<1> DEFINE seqs == <<s>>
<1>1. seqs \in Seq(Seq(S)) /\ seqs # <<>> /\ Len(seqs) = 1 /\ seqs[1] = s
  OBVIOUS
<1> HIDE DEF seqs
<1>2. PICK f \in [1..Len(seqs) -> Seq(S)] : f[1] = seqs[1] /\ FlattenSeq(seqs) = f[Len(seqs)]
  BY <1>1, FlattenDefined
<1> QED
  BY <1>1, <1>2 DEF seqs

(* If no two of them share an element, and none has two, nothing is listed twice. *)
LEMMA FlattenInjective ==
  ASSUME NEW S, NEW seqs \in Seq(Seq(S)),
         \A i \in DOMAIN seqs : Len(seqs[i]) <= 1,
         \A i, j \in DOMAIN seqs : \A x : Has(seqs[i], x) /\ Has(seqs[j], x) => i = j
  PROVE  \A a, b \in DOMAIN FlattenSeq(seqs) :
           FlattenSeq(seqs)[a] = FlattenSeq(seqs)[b] => a = b
<1>1. CASE seqs = <<>>
  BY <1>1 DEF FlattenSeq
<1>2. CASE seqs # <<>>
  <2>1. PICK f : Concatenates(f, seqs, S) /\ FlattenSeq(seqs) = f[Len(seqs)]
    BY <1>2, FlattenDefined DEF Concatenates
  <2> DEFINE n == Len(seqs)
             Distinct(s) == \A a, b \in DOMAIN s : s[a] = s[b] => a = b
             K == {k \in Nat : k + 1 \in 1..n => Distinct(f[k + 1])}
  <2>2. /\ n \in Nat \ {0} /\ DOMAIN seqs = 1..n
        /\ \A j \in 1..n : seqs[j] \in Seq(S) /\ f[j] \in Seq(S)
    BY <1>2, <2>1, ConcatenatesTyped
  <2>3. \A j \in 1..n : Distinct(seqs[j])
    <3> TAKE j \in 1..n
    <3>1. seqs[j] \in Seq(S) /\ Len(seqs[j]) <= 1
      BY <2>2
    <3>2. \A a, b \in DOMAIN seqs[j] : a = b
      BY <3>1
    <3> QED
      BY <3>2
  <2>4. 0 \in K
    BY <2>1, <2>3 DEF Concatenates
  <2>5. ASSUME NEW k \in Nat, k \in K PROVE k + 1 \in K
    <3>1. SUFFICES ASSUME k + 2 \in 1..n PROVE Distinct(f[k + 2])
      <4>1. (k + 1) + 1 = k + 2 /\ k + 1 \in Nat
        OBVIOUS
      <4> HIDE DEF n, Distinct
      <4> QED
        BY <4>1
    <3>2. k + 1 \in 1..n /\ k + 2 \in 2..n /\ (k + 2) - 1 = k + 1
      BY <2>2, <3>1
    <3>3. Distinct(f[k + 1]) /\ Distinct(seqs[k + 2])
      <4> HIDE DEF Distinct, n
      <4> QED
        BY <2>3, <2>5, <3>1, <3>2
    <3>4. f[k + 2] = f[k + 1] \o seqs[k + 2]
      <4>1. \A j \in 2..n : f[j] = f[j - 1] \o seqs[j]
        BY <2>1 DEF Concatenates
      <4> HIDE DEF n
      <4> QED
        BY <3>2, <4>1
    <3>5. \A x : ~(Has(f[k + 1], x) /\ Has(seqs[k + 2], x))
      <4> SUFFICES ASSUME NEW x, Has(f[k + 1], x), Has(seqs[k + 2], x) PROVE FALSE
        OBVIOUS
      <4>1. HasUpTo(seqs, k + 1, x)
        BY <2>1, <3>2, PrefixHas
      <4>2. PICK j \in 1..(k + 1) : Has(seqs[j], x)
        BY <4>1 DEF HasUpTo
      <4>3. j \in DOMAIN seqs /\ k + 2 \in DOMAIN seqs /\ j # k + 2
        BY <2>2, <3>1
      <4> QED
        BY <4>2, <4>3
    <3> DEFINE s == f[k + 1]
               t == seqs[k + 2]
    <3>6. s \in Seq(S) /\ t \in Seq(S)
      <4> HIDE DEF n
      <4> QED
        BY <2>2, <3>1, <3>2
    <3>7. \A a \in DOMAIN s, b \in DOMAIN t : s[a] # t[b]
      BY <3>5 DEF Has
    <3> HIDE DEF s, t, n
    <3>8. Distinct(s) /\ Distinct(t)
      BY <3>3 DEF s, t
    <3>9. Distinct(s \o t)
      <4> SUFFICES ASSUME NEW a \in DOMAIN (s \o t), NEW b \in DOMAIN (s \o t),
                          (s \o t)[a] = (s \o t)[b]
                   PROVE  a = b
        OBVIOUS
      <4>1. CASE a <= Len(s) /\ b <= Len(s)
        <5>1. a \in DOMAIN s /\ b \in DOMAIN s /\ s[a] = s[b]
          BY <3>6, <4>1
        <5> QED
          BY <3>8, <5>1
      <4>2. CASE ~(a <= Len(s)) /\ ~(b <= Len(s))
        <5>1. /\ a - Len(s) \in DOMAIN t /\ b - Len(s) \in DOMAIN t
              /\ t[a - Len(s)] = t[b - Len(s)]
          BY <3>6, <4>2
        <5>2. a - Len(s) = b - Len(s)
          BY <3>8, <5>1
        <5> QED
          BY <3>6, <5>2
      <4>3. CASE a <= Len(s) /\ ~(b <= Len(s))
        <5>1. a \in DOMAIN s /\ b - Len(s) \in DOMAIN t /\ s[a] = t[b - Len(s)]
          BY <3>6, <4>3
        <5> QED
          BY <3>7, <5>1
      <4>4. CASE ~(a <= Len(s)) /\ b <= Len(s)
        <5>1. b \in DOMAIN s /\ a - Len(s) \in DOMAIN t /\ s[b] = t[a - Len(s)]
          BY <3>6, <4>4
        <5> QED
          BY <3>7, <5>1
      <4> QED
        BY <4>1, <4>2, <4>3, <4>4
    <3> QED
      BY <3>4, <3>9 DEF s, t
  <2>6. n - 1 \in K /\ (n - 1) + 1 = n
    <3>1. n - 1 \in Nat /\ (n - 1) + 1 = n
      BY <2>2
    <3> HIDE DEF K, n
    <3>2. Nat \subseteq K
      BY <2>4, <2>5, SetInduction
    <3> QED
      BY <3>1, <3>2
  <2>7. Distinct(f[n])
    <3>1. n \in 1..n
      BY <2>2
    <3> HIDE DEF n, Distinct
    <3> QED
      BY <2>6, <3>1
  <2> QED
    BY <2>1, <2>7
<1> QED
  BY <1>1, <1>2
-----------------------------------------------------------------------------
(* What is appended and then overwritten might as well have been appended. *)
LEMMA AppendOverwritten ==
  ASSUME NEW S, NEW s \in Seq(S), NEW x \in S, NEW y \in S
  PROVE  [Append(s, x) EXCEPT ![Len(s) + 1] = y] = Append(s, y)
<1> DEFINE a == Append(s, x)
           b == [a EXCEPT ![Len(s) + 1] = y]
           c == Append(s, y)
<1>1. /\ a \in Seq(S) /\ Len(a) = Len(s) + 1
      /\ \A i \in 1..Len(s) : a[i] = s[i]
  OBVIOUS
<1>2. /\ c \in Seq(S) /\ Len(c) = Len(s) + 1 /\ c[Len(s) + 1] = y
      /\ \A i \in 1..Len(s) : c[i] = s[i]
  OBVIOUS
<1>3. Len(s) \in Nat
  OBVIOUS
<1> HIDE DEF a, c
<1>4. b \in Seq(S) /\ Len(b) = Len(s) + 1
  BY <1>1, <1>3
<1>5. ASSUME NEW i \in 1..(Len(s) + 1) PROVE b[i] = c[i]
  <2>1. CASE i = Len(s) + 1
    BY <1>1, <1>2, <1>3, <2>1
  <2>2. CASE i # Len(s) + 1
    BY <1>1, <1>2, <1>3, <2>2
  <2> QED
    BY <2>1, <2>2
<1> HIDE DEF b
<1>6. b = c
  BY <1>2, <1>3, <1>4, <1>5
<1> QED
  BY <1>6 DEF a, b, c
-----------------------------------------------------------------------------
(* A fold over a sequence goes through the sets of its indices, the last of *)
(* them first: the function it is defined by exists.                       *)
Folds(f, n, base, step) ==
  \A s \in SUBSET (1..n) :
    f[s] = IF s = {} THEN base ELSE step[Max(s)][f[s \ {Max(s)}]]

LEMMA MaxOfPrefix ==
  ASSUME NEW k \in Nat, NEW s \in SUBSET (1..k), s # {}
  PROVE  /\ Max(s) \in s /\ Max(s) \in 1..k
         /\ k \in s => Max(s) = k
<1>1. s \in SUBSET Nat /\ \A m \in s : m <= k
  OBVIOUS
<1>2. Max(s) \in s /\ \A m \in s : m <= Max(s)
  BY <1>1, MaxOfBounded
<1>3. Max(s) \in 1..k
  BY <1>2
<1>4. k \in s => Max(s) = k
  BY <1>2, <1>3
<1> QED
  BY <1>2, <1>3, <1>4

LEMMA FoldExists ==
  ASSUME NEW S, NEW base \in S, NEW n \in Nat, NEW step \in StepsOver(n, S)
  PROVE  \E f \in [SUBSET (1..n) -> S] : Folds(f, n, base, step)
<1> DEFINE P(k) == \E f \in [SUBSET (1..k) -> S] : Folds(f, k, base, step)
           K == {k \in Nat : k <= n => P(k)}
<1>1. 0 \in K
  <2> DEFINE g == [s \in SUBSET (1..0) |-> base]
  <2>1. SUBSET (1..0) = {{}}
    OBVIOUS
  <2>2. g \in [SUBSET (1..0) -> S] /\ Folds(g, 0, base, step)
    BY <2>1 DEF Folds
  <2> HIDE DEF g
  <2> QED
    BY <2>2
<1>2. ASSUME NEW k \in Nat, k \in K PROVE k + 1 \in K
  <2>1. SUFFICES ASSUME k + 1 <= n
                 PROVE  P(k + 1)
    <3> HIDE DEF P
    <3> QED
      OBVIOUS
  <2>2. PICK f \in [SUBSET (1..k) -> S] : Folds(f, k, base, step)
    <3>1. P(k)
      <4> HIDE DEF P
      <4> QED
        BY <1>2, <2>1
    <3> QED
      BY <3>1
  <2> DEFINE T == SUBSET (1..k)
             U == SUBSET (1..(k + 1))
             g == [s \in U |-> IF k + 1 \in s THEN step[k + 1][f[s \ {k + 1}]] ELSE f[s]]
  <2>3. \A s \in U : s \ {k + 1} \in T /\ (k + 1 \notin s => s \in T) /\ (s \in T => k + 1 \notin s)
    OBVIOUS
  <2>4. T \subseteq U
    OBVIOUS
  <2>5. step[k + 1] \in [S -> S]
    BY <2>1 DEF StepsOver
  <2> DEFINE last == step[k + 1]
  <2>6. g \in [U -> S]
    <3> HIDE DEF T, U, last
    <3>1. \A s \in U : (IF k + 1 \in s THEN last[f[s \ {k + 1}]] ELSE f[s]) \in S
      BY <2>2, <2>3, <2>5 DEF T, last
    <3> QED
      BY <3>1 DEF last
  <2>7. ASSUME NEW s \in U
        PROVE  g[s] = IF s = {} THEN base ELSE step[Max(s)][g[s \ {Max(s)}]]
    <3>1. CASE k + 1 \in s
      <4>1. Max(s) = k + 1
        BY <3>1, MaxOfPrefix
      <4>2. s \ {k + 1} \in T
        BY <2>3
      <4>3. g[s \ {k + 1}] = f[s \ {k + 1}]
        <5> DEFINE r == s \ {k + 1}
        <5>1. r \in U /\ k + 1 \notin r
          BY <2>4, <4>2
        <5> HIDE DEF r, T, U
        <5>2. g[r] = f[r]
          BY <5>1
        <5> QED
          BY <5>2 DEF r
      <4>4. g[s] = step[k + 1][f[s \ {k + 1}]]
        <5> HIDE DEF U
        <5> QED
          BY <3>1
      <4> HIDE DEF g
      <4> QED
        BY <3>1, <4>1, <4>3, <4>4
    <3>2. CASE k + 1 \notin s
      <4>1. s \in T
        BY <2>3, <3>2
      <4>2. g[s] = f[s]
        <5> HIDE DEF U
        <5> QED
          BY <3>2
      <4>3. f[s] = IF s = {} THEN base ELSE step[Max(s)][f[s \ {Max(s)}]]
        BY <2>2, <4>1 DEF Folds
      <4>4. g[s \ {Max(s)}] = f[s \ {Max(s)}]
        <5> DEFINE r == s \ {Max(s)}
        <5>1. r \in U /\ k + 1 \notin r
          BY <2>4, <3>2, <4>1
        <5> HIDE DEF r, T, U
        <5>2. g[r] = f[r]
          BY <5>1
        <5> QED
          BY <5>2 DEF r
      <4> HIDE DEF g
      <4> QED
        BY <4>2, <4>3, <4>4
    <3> QED
      BY <3>1, <3>2
  <2> HIDE DEF g
  <2> QED
    BY <2>6, <2>7 DEF Folds
<1>3. n \in K
  <2> HIDE DEF K
  <2> QED
    BY <1>1, <1>2, SetInduction
<1>4. P(n)
  <2> HIDE DEF P
  <2> QED
    BY <1>3
<1> QED
  BY <1>4

(* The sums of the first, the first two, ... of n numbers, and the fold    *)
(* that adds them up.                                                      *)
SumsTo(f, n, a) ==
  f \in [0..n -> Nat] /\ f[0] = 0 /\ \A i \in 1..n : f[i] = f[i - 1] + a[i]

FoldsSum(f, n, a) ==
  \A s \in SUBSET (1..n) :
    f[s] = IF s = {} THEN 0 ELSE f[s \ {Max(s)}] + a[Max(s)]

LEMMA SumFoldExists ==
  ASSUME NEW n \in Nat, NEW a \in [1..n -> Nat]
  PROVE  \E f \in [SUBSET (1..n) -> Nat] : FoldsSum(f, n, a)
<1> DEFINE step == [i \in 1..n |-> [x \in Nat |-> x + a[i]]]
           base == 0
<1>1. step \in StepsOver(n, Nat)
  BY DEF StepsOver
<1>2. PICK g \in [SUBSET (1..n) -> Nat] : Folds(g, n, base, step)
  <2> HIDE DEF step
  <2> QED
    BY <1>1, FoldExists
<1>3. ASSUME NEW s \in SUBSET (1..n)
      PROVE  g[s] = IF s = {} THEN base ELSE g[s \ {Max(s)}] + a[Max(s)]
  <2>1. g[s] = IF s = {} THEN base ELSE step[Max(s)][g[s \ {Max(s)}]]
    BY <1>2 DEF Folds
  <2>2. ASSUME s # {} PROVE step[Max(s)][g[s \ {Max(s)}]] = g[s \ {Max(s)}] + a[Max(s)]
    <3>1. Max(s) \in 1..n
      BY <2>2, MaxOfPrefix
    <3>2. s \ {Max(s)} \in SUBSET (1..n)
      OBVIOUS
    <3>3. g[s \ {Max(s)}] \in Nat
      BY <1>2, <3>2
    <3> QED
      BY <3>1, <3>3
  <2> HIDE DEF step
  <2> QED
    BY <2>1, <2>2
<1> HIDE DEF step
<1> QED
  BY <1>2, <1>3 DEF FoldsSum

LEMMA FoldedSum ==
  ASSUME NEW n \in Nat, NEW a \in [1..n -> Nat], NEW F, FoldsSum(F, n, a)
  PROVE  \E h : SumsTo(h, n, a) /\ F[1..n] = h[n]
<1> DEFINE h == [i \in 0..n |-> F[1..i]]
<1>1. h[0] = 0
  <2>1. 1..0 = {} /\ {} \in SUBSET (1..n) /\ 0 \in 0..n
    OBVIOUS
  <2>2. F[{}] = 0
    BY <2>1 DEF FoldsSum
  <2> QED
    BY <2>1, <2>2
<1>2. ASSUME NEW i \in 1..n PROVE h[i] = h[i - 1] + a[i]
  <2> DEFINE s == 1..i
  <2>1. s \in SUBSET (1..n) /\ s # {} /\ i \in s /\ i \in Nat
    <3>1. i \in Nat /\ i <= n /\ 1 <= i
      OBVIOUS
    <3>2. i \in s
      BY <3>1
    <3>3. s \subseteq 1..n
      BY <3>1
    <3> QED
      BY <3>1, <3>2, <3>3
  <2>2. Max(s) = i
    BY <2>1, MaxOfPrefix
  <2>3. s \ {i} = 1..(i - 1)
    OBVIOUS
  <2>4. F[s] = F[s \ {Max(s)}] + a[Max(s)]
    <3> HIDE DEF s
    <3> QED
      BY <2>1 DEF FoldsSum
  <2>5. h[i] = F[s] /\ h[i - 1] = F[1..(i - 1)]
    OBVIOUS
  <2> HIDE DEF h, s
  <2> QED
    BY <2>2, <2>3, <2>4, <2>5
<1>3. h \in [0..n -> Nat]
  <2> DEFINE K == {k \in Nat : k <= n => h[k] \in Nat}
  <2> HIDE DEF h
  <2>1. 0 \in K
    BY <1>1
  <2>2. ASSUME NEW k \in Nat, k \in K PROVE k + 1 \in K
    <3>1. SUFFICES ASSUME k + 1 <= n PROVE h[k + 1] \in Nat
      OBVIOUS
    <3>2. k + 1 \in 1..n /\ (k + 1) - 1 = k /\ k <= n
      BY <3>1
    <3>3. h[k] \in Nat /\ a[k + 1] \in Nat
      BY <2>2, <3>2
    <3>4. h[k + 1] = h[k] + a[k + 1]
      BY <1>2, <3>2
    <3> QED
      BY <3>3, <3>4
  <2>3. Nat \subseteq K
    <3> HIDE DEF K
    <3> QED
      BY <2>1, <2>2, SetInduction
  <2>4. \A k \in 0..n : h[k] \in Nat
    BY <2>3
  <2>5. h = [i \in 0..n |-> h[i]]
    BY DEF h
  <2> QED
    BY <2>4, <2>5
<1>4. SumsTo(h, n, a) /\ F[1..n] = h[n]
  <2>1. h[n] = F[1..n]
    OBVIOUS
  <2> HIDE DEF h
  <2> QED
    BY <1>1, <1>2, <1>3, <2>1 DEF SumsTo
<1> QED
  BY <1>4

(* There is one such list of sums. *)
LEMMA SumsAreUnique ==
  ASSUME NEW n \in Nat, NEW a, NEW f, NEW g, SumsTo(f, n, a), SumsTo(g, n, a)
  PROVE  f[n] = g[n]
<1> DEFINE K == {k \in Nat : k <= n => f[k] = g[k]}
<1>1. 0 \in K
  BY DEF SumsTo
<1>2. ASSUME NEW k \in Nat, k \in K PROVE k + 1 \in K
  <2>1. SUFFICES ASSUME k + 1 <= n PROVE f[k + 1] = g[k + 1]
    OBVIOUS
  <2>2. k + 1 \in 1..n /\ (k + 1) - 1 = k
    BY <2>1
  <2> QED
    BY <1>2, <2>2 DEF SumsTo
<1>3. Nat \subseteq K
  <2> HIDE DEF K
  <2> QED
    BY <1>1, <1>2, SetInduction
<1> QED
  BY <1>3

(* The sums grow. *)
LEMMA SumsGrow ==
  ASSUME NEW n \in Nat, NEW a \in [1..n -> Nat], NEW f, SumsTo(f, n, a),
         NEW i \in 0..n, NEW j \in 0..n, i <= j
  PROVE  f[i] <= f[j]
<1> DEFINE K == {k \in Nat : i + k <= n => f[i] <= f[i + k]}
<1>1. \A k \in 0..n : f[k] \in Nat
  BY DEF SumsTo
<1>2. 0 \in K
  BY <1>1
<1>3. ASSUME NEW k \in Nat, k \in K PROVE k + 1 \in K
  <2>1. SUFFICES ASSUME i + (k + 1) <= n PROVE f[i] <= f[i + (k + 1)]
    OBVIOUS
  <2>2. /\ i + k \in 0..n /\ i + (k + 1) \in 1..n /\ i + (k + 1) \in 0..n
        /\ (i + (k + 1)) - 1 = i + k /\ i + k <= n
    BY <2>1
  <2>3. f[i + (k + 1)] = f[i + k] + a[i + (k + 1)] /\ a[i + (k + 1)] \in Nat
    BY <2>2 DEF SumsTo
  <2>4. f[i] <= f[i + k]
    BY <1>3, <2>2
  <2> QED
    BY <1>1, <2>2, <2>3, <2>4
<1>4. j - i \in K /\ i + (j - i) = j
  <2>1. j - i \in Nat /\ i + (j - i) = j
    OBVIOUS
  <2> HIDE DEF K
  <2> QED
    BY <1>2, <1>3, <2>1, SetInduction
<1> QED
  BY <1>4

(* The sum of terms that are all the same. *)
LEMMA SumOfSame ==
  ASSUME NEW n \in Nat, NEW w \in Nat, NEW a, \A i \in 1..n : a[i] = w,
         NEW h, SumsTo(h, n, a)
  PROVE  h[n] = w * n
<1> DEFINE K == {k \in Nat : k <= n => h[k] = w * k}
<1>1. 0 \in K
  <2>1. h[0] = 0 /\ w * 0 = 0
    BY DEF SumsTo
  <2> QED
    BY <2>1
<1>2. ASSUME NEW k \in Nat, k \in K PROVE k + 1 \in K
  <2>1. SUFFICES ASSUME k + 1 <= n PROVE h[k + 1] = w * (k + 1)
    OBVIOUS
  <2>2. h[k] = w * k /\ k + 1 \in 1..n /\ (k + 1) - 1 = k
    BY <1>2, <2>1
  <2>3. h[k + 1] = w * k + w
    BY <2>2 DEF SumsTo
  <2>4. w * k + w = w * (k + 1)
    OBVIOUS
  <2> QED
    BY <2>3, <2>4
<1> QED
  <2> HIDE DEF K
  <2>1. n \in K
    BY <1>1, <1>2, SetInduction
  <2> QED
    BY <2>1 DEF K

(* A part of a sequence: from m on, the first k elements, the last j of n. *)
LEMMA SliceOf ==
  ASSUME NEW S, NEW s \in Seq(S), NEW m \in Nat, NEW n \in Nat, m + n <= Len(s)
  PROVE  /\ SubSeq(s, m + 1, m + n) \in Seq(S) /\ Len(SubSeq(s, m + 1, m + n)) = n
         /\ \A i \in 1..n : SubSeq(s, m + 1, m + n)[i] = s[m + i]
<1> DEFINE t == SubSeq(s, m + 1, m + n)
<1>1. t = [i \in 1..n |-> s[m + i]]
  <2>1. (m + n) - (m + 1) + 1 = n /\ \A i \in 1..n : i + (m + 1) - 1 = m + i
    OBVIOUS
  <2>2. t = [i \in 1..((m + n) - (m + 1) + 1) |-> s[i + (m + 1) - 1]]
    OBVIOUS
  <2> QED
    BY <2>1, <2>2
<1>2. \A i \in 1..n : s[m + i] \in S
  <2> TAKE i \in 1..n
  <2>1. m + i \in 1..Len(s)
    OBVIOUS
  <2> QED
    BY <2>1
<1> HIDE DEF t
<1>3. t \in [1..n -> S]
  BY <1>1, <1>2
<1>4. t \in Seq(S) /\ Len(t) = n
  BY <1>3
<1> QED
  BY <1>1, <1>4 DEF t

UpTo(x, k) == [j \in 1..k |-> x[j]]

LEMMA UpToNext ==
  ASSUME NEW x, NEW k \in Nat
  PROVE  Append(UpTo(x, k), x[k + 1]) = UpTo(x, k + 1)
<1> DEFINE S == {x[j] : j \in 1..(k + 1)}
           s == UpTo(x, k)
<1>1. PICK m \in 1..(k + 1) : m = k + 1
  OBVIOUS
<1>2. x[k + 1] \in S
  BY <1>1
<1>3. \A j \in 1..k : x[j] \in S
  <2> TAKE j \in 1..k
  <2>1. j \in 1..(k + 1)
    OBVIOUS
  <2> QED
    BY <2>1
<1> HIDE DEF S
<1>4. s \in [1..k -> S]
  BY <1>3 DEF UpTo
<1>5. s \in Seq(S) /\ Len(s) = k /\ \A j \in 1..k : s[j] = x[j]
  BY <1>3, <1>4 DEF UpTo
<1> HIDE DEF s
<1> DEFINE t == Append(s, x[k + 1])
<1>6. t \in Seq(S) /\ Len(t) = k + 1 /\ t[k + 1] = x[k + 1] /\ \A j \in 1..k : t[j] = s[j]
  BY <1>2, <1>5
<1> HIDE DEF t
<1>7. t = [j \in 1..(k + 1) |-> t[j]]
  BY <1>6
<1>8. ASSUME NEW j \in 1..(k + 1) PROVE t[j] = x[j]
  <2>1. j \in 1..k \/ j = k + 1
    OBVIOUS
  <2> QED
    BY <1>5, <1>6, <2>1
<1>9. t = [j \in 1..(k + 1) |-> x[j]]
  BY <1>7, <1>8
<1> QED
  BY <1>9 DEF t, s, UpTo

LastOf(v, n, j) == [i \in 1..j |-> v[(n - j) + i]]

LEMMA LastOfNext ==
  ASSUME NEW v, NEW n \in Nat, NEW j \in Nat, j + 1 <= n, NEW i, i = n - j
  PROVE  <<v[i]>> \o LastOf(v, n, j) = LastOf(v, n, j + 1)
<1> DEFINE S == {v[k] : k \in 1..n}
           s == LastOf(v, n, j)
           t == <<v[i]>> \o s
           u == LastOf(v, n, j + 1)
<1>1. i \in 1..n /\ v[i] \in S
  OBVIOUS
<1>2. \A k \in 1..j : v[(n - j) + k] \in S
  <2> TAKE k \in 1..j
  <2>1. (n - j) + k \in 1..n
    OBVIOUS
  <2> QED
    BY <2>1
<1>3. \A k \in 1..(j + 1) : v[(n - (j + 1)) + k] \in S
  <2> TAKE k \in 1..(j + 1)
  <2>1. (n - (j + 1)) + k \in 1..n
    OBVIOUS
  <2> QED
    BY <2>1
<1> HIDE DEF S
<1>4. s \in Seq(S) /\ Len(s) = j /\ \A k \in 1..j : s[k] = v[(n - j) + k]
  <2>1. s \in [1..j -> S]
    BY <1>2 DEF LastOf
  <2>2. \A k \in 1..j : s[k] = v[(n - j) + k]
    BY DEF LastOf
  <2> HIDE DEF s
  <2> QED
    BY <2>1, <2>2
<1>5. u \in Seq(S) /\ Len(u) = j + 1 /\ \A k \in 1..(j + 1) : u[k] = v[(n - (j + 1)) + k]
  <2>1. u \in [1..(j + 1) -> S]
    BY <1>3 DEF LastOf
  <2>2. \A k \in 1..(j + 1) : u[k] = v[(n - (j + 1)) + k]
    BY DEF LastOf
  <2> HIDE DEF u
  <2> QED
    BY <2>1, <2>2
<1> HIDE DEF s, u
<1>6. t \in Seq(S) /\ Len(t) = j + 1 /\ t[1] = v[i] /\ \A k \in 1..j : t[k + 1] = s[k]
  BY <1>1, <1>4
<1> HIDE DEF t
<1>7. ASSUME NEW k \in 1..(j + 1) PROVE t[k] = u[k]
  <2>1. CASE k = 1
    <3>1. (n - (j + 1)) + 1 = i
      OBVIOUS
    <3>2. 1 \in 1..(j + 1)
      OBVIOUS
    <3> QED
      BY <1>5, <1>6, <2>1, <3>1, <3>2
  <2>2. CASE k # 1
    <3>1. PICK m \in 1..j : k = m + 1
      BY <2>2
    <3>2. (n - (j + 1)) + (m + 1) = (n - j) + m
      OBVIOUS
    <3>3. t[m + 1] = v[(n - j) + m]
      BY <1>4, <1>6
    <3>4. u[m + 1] = v[(n - j) + m]
      BY <1>5, <3>1, <3>2
    <3> QED
      BY <3>1, <3>3, <3>4
  <2> QED
    BY <2>1, <2>2
<1>8. t = u
  BY <1>5, <1>6, <1>7
<1> QED
  BY <1>8 DEF t, u, s

(* What a sequence that has grown by one is made of, and what is in it. *)
Appended(seq, x, new) ==
  /\ Len(seq) \in Nat /\ Len(new) = Len(seq) + 1 /\ new[Len(seq) + 1] = x
  /\ \A i \in 1..Len(seq) : new[i] = seq[i]

LEMMA AppendParts ==
  ASSUME NEW S, NEW seq \in Seq(S), NEW x \in S
  PROVE  Appended(seq, x, Append(seq, x))
BY DEF Appended

LEMMA RangeOfAppend ==
  ASSUME NEW S, NEW seq \in Seq(S), NEW x \in S
  PROVE  Range(Append(seq, x)) = Range(seq) \cup {x}
<1>1. /\ DOMAIN Append(seq, x) = 1..(Len(seq) + 1) /\ DOMAIN seq = 1..Len(seq) /\ Len(seq) \in Nat
      /\ \A i \in 1..Len(seq) : Append(seq, x)[i] = seq[i]
      /\ Append(seq, x)[Len(seq) + 1] = x
  OBVIOUS
<1> DEFINE a == Append(seq, x)
           n == Len(seq)
<1> HIDE DEF a, n
<1>2. ASSUME NEW y \in Range(a) PROVE y \in Range(seq) \cup {x}
  <2>1. PICK i \in 1..(n + 1) : y = a[i]
    BY <1>1 DEF Range, a, n
  <2>2. i = n + 1 \/ i \in 1..n
    BY <1>1 DEF n
  <2> QED
    BY <1>1, <2>1, <2>2 DEF Range, a, n
<1>3. ASSUME NEW y \in Range(seq) PROVE y \in Range(a)
  <2>1. PICK i \in 1..n : y = seq[i]
    BY <1>1 DEF Range, n
  <2>2. i \in 1..(n + 1)
    BY <1>1 DEF n
  <2> QED
    BY <1>1, <2>1, <2>2 DEF Range, a, n
<1>4. x \in Range(a)
  <2>1. n + 1 \in 1..(n + 1)
    BY <1>1 DEF n
  <2> QED
    BY <1>1, <2>1 DEF Range, a, n
<1> QED
  BY <1>2, <1>3, <1>4 DEF a
-----------------------------------------------------------------------------
(* A function may be defined by recursion on smaller numbers. *)
Descends(f, k, base, stop, step, down) ==
  \A n \in 0..k : f[n] = IF n \in stop THEN base[n] ELSE step[n][f[down[n]]]

Falls(down, stop) == down \in [Nat -> Nat] /\ \A n \in Nat \ stop : down[n] < n

LEMMA DescentExists ==
  ASSUME NEW S, NEW base \in [Nat -> S], NEW stop, NEW step \in [Nat -> [S -> S]],
         NEW down, Falls(down, stop),
         NEW k \in Nat
  PROVE  \E f \in [0..k -> S] : Descends(f, k, base, stop, step, down)
<1>0. down \in [Nat -> Nat] /\ \A n \in Nat \ stop : down[n] < n
  BY DEF Falls
<1> DEFINE P(m) == \E f \in [0..m -> S] : Descends(f, m, base, stop, step, down)
           K == {m \in Nat : P(m)}
<1>1. 0 \in K
  <2>1. 0 \in stop
    <3>1. \A m \in Nat : ~(m < 0)
      OBVIOUS
    <3> QED
      BY <1>0, <3>1
  <2> DEFINE g == [n \in 0..0 |-> base[n]]
  <2>2. g \in [0..0 -> S] /\ Descends(g, 0, base, stop, step, down)
    BY <2>1 DEF Descends
  <2> HIDE DEF g
  <2> QED
    BY <2>2
<1>2. ASSUME NEW m \in Nat, m \in K PROVE m + 1 \in K
  <2>1. PICK f \in [0..m -> S] : Descends(f, m, base, stop, step, down)
    BY <1>2
  <2> DEFINE last == IF m + 1 \in stop THEN base[m + 1] ELSE step[m + 1][f[down[m + 1]]]
             g == [n \in 0..(m + 1) |-> IF n <= m THEN f[n] ELSE last]
  <2>2. last \in S
    <3>1. CASE m + 1 \in stop
      BY <3>1
    <3>2. CASE m + 1 \notin stop
      <4>1. down[m + 1] \in 0..m
        BY <1>0, <3>2
      <4>2. f[down[m + 1]] \in S /\ step[m + 1] \in [S -> S]
        BY <4>1
      <4> QED
        BY <3>2, <4>2
    <3> QED
      BY <3>1, <3>2
  <2> HIDE DEF last
  <2>3. g \in [0..(m + 1) -> S]
    BY <2>2
  <2>4. g[m + 1] = last /\ \A n \in 0..m : g[n] = f[n]
    OBVIOUS
  <2> HIDE DEF g
  <2>5. ASSUME NEW n \in 0..(m + 1)
        PROVE  g[n] = IF n \in stop THEN base[n] ELSE step[n][g[down[n]]]
    <3>1. n \notin stop => down[n] \in 0..m
      BY <1>0, <2>5
    <3>2. CASE n <= m
      <4>1. n \in 0..m
        BY <3>2
      <4>2. f[n] = IF n \in stop THEN base[n] ELSE step[n][f[down[n]]]
        BY <2>1, <4>1 DEF Descends
      <4> QED
        BY <2>4, <3>1, <4>1, <4>2
    <3>3. CASE n = m + 1
      BY <2>4, <3>1, <3>3 DEF last
    <3> QED
      BY <3>2, <3>3
  <2>6. Descends(g, m + 1, base, stop, step, down)
    BY <2>5 DEF Descends
  <2>7. P(m + 1)
    BY <2>3, <2>6
  <2> HIDE DEF P
  <2> QED
    BY <2>7
<1>3. k \in K
  <2> HIDE DEF K
  <2> QED
    BY <1>1, <1>2, SetInduction
<1> QED
  BY <1>3

(* Two such functions agree as far as both are defined. *)
LEMMA DescentIsUnique ==
  ASSUME NEW base, NEW stop, NEW step,
         NEW down, Falls(down, stop),
         NEW k \in Nat, NEW f, Descends(f, k, base, stop, step, down),
         NEW m \in Nat, NEW g, Descends(g, m, base, stop, step, down)
  PROVE  \A n \in Nat : n <= k /\ n <= m => f[n] = g[n]
<1>0. down \in [Nat -> Nat] /\ \A n \in Nat \ stop : down[n] < n
  BY DEF Falls
<1> DEFINE T == {n \in Nat : n <= k /\ n <= m /\ f[n] # g[n]}
<1>1. SUFFICES ASSUME T # {} PROVE FALSE
  OBVIOUS
<1>2. PICK n \in T : \A i \in T : n <= i
  BY <1>1, LeastNatural
<1>3. n \in 0..k /\ n \in 0..m /\ n \in Nat
  BY <1>2
<1>4. f[n] = IF n \in stop THEN base[n] ELSE step[n][f[down[n]]]
  BY <1>3 DEF Descends
<1>5. g[n] = IF n \in stop THEN base[n] ELSE step[n][g[down[n]]]
  BY <1>3 DEF Descends
<1>6. n \notin stop
  BY <1>2, <1>4, <1>5
<1>7. down[n] \in Nat /\ down[n] < n
  BY <1>0, <1>3, <1>6
<1>8. down[n] \notin T
  <2>1. ASSUME down[n] \in T PROVE n <= down[n]
    BY <1>2, <2>1
  <2> QED
    BY <1>3, <1>7, <2>1
<1>9. f[down[n]] = g[down[n]]
  BY <1>3, <1>7, <1>8
<1> QED
  BY <1>2, <1>4, <1>5, <1>9

DescendsForever(f, base, stop, step, down) ==
  \A n \in Nat : f[n] = IF n \in stop THEN base[n] ELSE step[n][f[down[n]]]

LEMMA DescendingRecursion ==
  ASSUME NEW S, NEW base \in [Nat -> S], NEW stop, NEW step \in [Nat -> [S -> S]],
         NEW down, Falls(down, stop)
  PROVE  \E f \in [Nat -> S] : DescendsForever(f, base, stop, step, down)
<1>0. down \in [Nat -> Nat] /\ \A n \in Nat \ stop : down[n] < n
  BY DEF Falls
<1> DEFINE c == [k \in Nat |-> CHOOSE f \in [0..k -> S] : Descends(f, k, base, stop, step, down)]
           F == [n \in Nat |-> c[n][n]]
<1>1. ASSUME NEW k \in Nat
      PROVE  c[k] \in [0..k -> S] /\ Descends(c[k], k, base, stop, step, down)
  <2>1. \E f \in [0..k -> S] : Descends(f, k, base, stop, step, down)
    BY DescentExists
  <2> QED
    BY <2>1
<1> HIDE DEF c
<1>2. F \in [Nat -> S]
  <2>1. ASSUME NEW n \in Nat PROVE c[n][n] \in S
    <3>1. n \in 0..n
      OBVIOUS
    <3> QED
      BY <1>1, <3>1
  <2> QED
    BY <2>1
<1>3. ASSUME NEW n \in Nat
      PROVE  F[n] = IF n \in stop THEN base[n] ELSE step[n][F[down[n]]]
  <2>1. n \in 0..n
    OBVIOUS
  <2>2. c[n][n] = IF n \in stop THEN base[n] ELSE step[n][c[n][down[n]]]
    BY <1>1, <2>1 DEF Descends
  <2>3. ASSUME n \notin stop PROVE c[n][down[n]] = c[down[n]][down[n]]
    <3>1. down[n] \in Nat /\ down[n] <= n /\ down[n] <= down[n]
      BY <1>0, <2>3
    <3>2. Descends(c[n], n, base, stop, step, down)
          /\ Descends(c[down[n]], down[n], base, stop, step, down)
      BY <1>1, <3>1
    <3>3. \A i \in Nat : i <= n /\ i <= down[n] => c[n][i] = c[down[n]][i]
      <4> DEFINE a == c[n]
                 d == down[n]
                 b == c[d]
      <4>1. Descends(a, n, base, stop, step, down) /\ Descends(b, d, base, stop, step, down)
            /\ d \in Nat
        BY <3>1, <3>2
      <4> HIDE DEF a, b, d
      <4>2. \A i \in Nat : i <= n /\ i <= d => a[i] = b[i]
        BY <4>1, DescentIsUnique
      <4> QED
        BY <4>2 DEF a, b, d
    <3> QED
      BY <3>1, <3>3
  <2>4. n \notin stop => F[down[n]] = c[down[n]][down[n]]
    BY <1>0
  <2> QED
    BY <2>2, <2>3, <2>4
<1> HIDE DEF F
<1>4. DescendsForever(F, base, stop, step, down)
  BY <1>3 DEF DescendsForever
<1> QED
  BY <1>2, <1>4
-----------------------------------------------------------------------------
(* A power of two counts the sets of so many things, so one more doubles it. *)
LEMMA PowerOfTwo ==
  ASSUME NEW n \in Nat
  PROVE  2 ^ n \in Nat \ {0} /\ 2 ^ (n + 1) = 2 * 2 ^ n
<1> DEFINE s == 1..n
           t == 1..(n + 1)
           with == {x \cup {n + 1} : x \in SUBSET s}
<1>1. IsFiniteSet(s) /\ Cardinality(s) = n /\ IsFiniteSet(t) /\ Cardinality(t) = n + 1
  BY FS_Interval
<1>2. t = s \cup {n + 1} /\ n + 1 \notin s
  OBVIOUS
<1> HIDE DEF s, t
<1>3. IsFiniteSet(SUBSET s) /\ Cardinality(SUBSET s) = 2 ^ n
  BY <1>1, FS_SUBSET
<1>4. IsFiniteSet(SUBSET t) /\ Cardinality(SUBSET t) = 2 ^ (n + 1)
  BY <1>1, FS_SUBSET
<1>5. ExistsBijection(SUBSET s, with)
  <2> DEFINE f == [x \in SUBSET s |-> x \cup {n + 1}]
  <2>1. f \in [SUBSET s -> with]
    OBVIOUS
  <2>2. ASSUME NEW x \in SUBSET s, NEW y \in SUBSET s, f[x] = f[y] PROVE x = y
    <3>1. x \cup {n + 1} = y \cup {n + 1} /\ n + 1 \notin x /\ n + 1 \notin y
      BY <1>2, <2>2
    <3> QED
      BY <3>1
  <2>3. \A y \in with : \E x \in SUBSET s : f[x] = y
    OBVIOUS
  <2> HIDE DEF f, with
  <2>4. f \in Bijection(SUBSET s, with)
    BY <2>1, <2>2, <2>3 DEF Bijection, Injection, Surjection, IsInjective
  <2> QED
    BY <2>4 DEF ExistsBijection
<1>6. IsFiniteSet(with) /\ Cardinality(with) = 2 ^ n
  BY <1>3, <1>5, FS_Bijection
<1>7. SUBSET t = (SUBSET s) \cup with
  <2>1. ASSUME NEW x \in SUBSET t PROVE x \in SUBSET s \/ x \in with
    <3>1. CASE n + 1 \in x
      <4>1. x = (x \ {n + 1}) \cup {n + 1} /\ x \ {n + 1} \in SUBSET s
        BY <1>2, <3>1
      <4> QED
        BY <4>1
    <3>2. CASE n + 1 \notin x
      BY <1>2, <3>2
    <3> QED
      BY <3>1, <3>2
  <2>2. \A x \in with : x \in SUBSET t
    BY <1>2
  <2> QED
    BY <1>2, <2>1, <2>2
<1>8. (SUBSET s) \cap with = {}
  BY <1>2
<1> HIDE DEF with
<1>9. Cardinality(SUBSET t) = Cardinality(SUBSET s) + Cardinality(with) - Cardinality({})
  BY <1>3, <1>6, <1>7, <1>8, FS_Union
<1>10. Cardinality({}) = 0 /\ 2 ^ n \in Nat
  BY <1>3, FS_EmptySet, FS_CardinalityType
<1>11. 2 ^ n # 0
  <2>1. {} \in SUBSET s
    OBVIOUS
  <2>2. Cardinality(SUBSET s) # 0
    BY <1>3, <2>1, FS_EmptySet
  <2> QED
    BY <1>3, <2>2
<1> DEFINE p == 2 ^ n
<1>12. 2 ^ (n + 1) = p + p - 0 /\ p \in Nat
  BY <1>3, <1>4, <1>6, <1>9, <1>10
<1> HIDE DEF p
<1>13. p + p - 0 = 2 * p
  BY <1>12
<1> QED
  BY <1>10, <1>11, <1>12, <1>13 DEF p

LEMMA PowersOfTwo ==
  /\ 2 ^ 0 = 1 /\ 2 ^ 1 = 2 /\ 2 ^ 2 = 4 /\ 2 ^ 3 = 8
  /\ 2 ^ 4 = 16 /\ 2 ^ 5 = 32 /\ 2 ^ 6 = 64 /\ 2 ^ 7 = 128
<1> DEFINE P(n) == 2 ^ n
<1>1. \A n \in Nat : P(n) \in Nat /\ P(n + 1) = 2 * P(n)
  BY PowerOfTwo
<1>2. P(0) = 1
  OBVIOUS
<1> HIDE DEF P
<1>3. P(1) = 2
  <2>1. P(0 + 1) = 2 * P(0)
    BY <1>1
  <2> QED
    BY <1>2, <2>1
<1>4. P(2) = 4
  <2>1. P(1 + 1) = 2 * P(1)
    BY <1>1
  <2> QED
    BY <1>3, <2>1
<1>5. P(3) = 8
  <2>1. P(2 + 1) = 2 * P(2)
    BY <1>1
  <2> QED
    BY <1>4, <2>1
<1>6. P(4) = 16
  <2>1. P(3 + 1) = 2 * P(3)
    BY <1>1
  <2> QED
    BY <1>5, <2>1
<1>7. P(5) = 32
  <2>1. P(4 + 1) = 2 * P(4)
    BY <1>1
  <2> QED
    BY <1>6, <2>1
<1>8. P(6) = 64
  <2>1. P(5 + 1) = 2 * P(5)
    BY <1>1
  <2> QED
    BY <1>7, <2>1
<1>9. P(7) = 128
  <2>1. P(6 + 1) = 2 * P(6)
    BY <1>1
  <2> QED
    BY <1>8, <2>1
<1> QED
  BY <1>2, <1>3, <1>4, <1>5, <1>6, <1>7, <1>8, <1>9 DEF P

(* Products divided by one of their factors, and what is left over. *)
LEMMA SmallRest ==
  ASSUME NEW x \in Nat, NEW y \in Nat, x < y
  PROVE  x % y = x
OBVIOUS

LEMMA DivExact ==
  ASSUME NEW w \in Nat \ {0}, NEW n \in Nat
  PROVE  (w * n) \div w = n /\ n * w = w * n
<1> DEFINE K == {k \in Nat : (w * k) \div w = k}
<1>1. 0 \in K
  OBVIOUS
<1>2. ASSUME NEW k \in Nat, k \in K PROVE k + 1 \in K
  <2> PICK m \in Nat : m = w * k
    OBVIOUS
  <2>1. w * (k + 1) = m + w
    OBVIOUS
  <2>2. (m + w) \div w = (m \div w) + 1
    OBVIOUS
  <2> QED
    BY <1>2, <2>1, <2>2
<1>3. n \in K
  <2> HIDE DEF K
  <2> QED
    BY <1>1, <1>2, SetInduction
<1>4. n * w = w * n
  OBVIOUS
<1> QED
  BY <1>3, <1>4

LEMMA DivCounts ==
  ASSUME NEW w \in Nat \ {0}, NEW l \in Nat, NEW k \in Nat, k * w <= l
  PROVE  /\ k <= l \div w
         /\ l - k * w < w => l \div w = k
         /\ l = k * w => l % w = 0
<1> PICK q \in Nat, d \in Nat : q = l \div w /\ d = l % w
  OBVIOUS
<1>1. l = w * q + d /\ d < w
  OBVIOUS
<1>2. k <= q
  <2> SUFFICES ASSUME q + 1 <= k PROVE FALSE
    OBVIOUS
  <2>1. PICK j \in Nat : k = (q + 1) + j
    <3>1. k - (q + 1) \in Nat /\ k = (q + 1) + (k - (q + 1))
      OBVIOUS
    <3> QED
      BY <3>1
  <2>2. k * w = w * q + w + w * j /\ w * j >= 0
    BY <2>1
  <2> QED
    BY <1>1, <2>2
<1>3. ASSUME l - k * w < w PROVE q = k
  <2>1. PICK j \in Nat : q = k + j
    <3>1. q - k \in Nat /\ q = k + (q - k)
      BY <1>2
    <3> QED
      BY <3>1
  <2>2. CASE j = 0
    BY <2>1, <2>2
  <2>3. CASE j # 0
    <3>1. PICK m \in Nat : j = m + 1
      <4>1. j - 1 \in Nat /\ j = (j - 1) + 1
        BY <2>3
      <4> QED
        BY <4>1
    <3>2. w * q = k * w + w + w * m /\ w * m >= 0
      BY <2>1, <3>1
    <3> QED
      BY <1>1, <1>3, <3>2
  <2> QED
    BY <2>2, <2>3
<1>4. ASSUME l = k * w PROVE d = 0
  <2>1. q = k
    BY <1>3, <1>4
  <2>2. k * w = w * q
    BY <2>1
  <2> QED
    BY <1>1, <1>4, <2>2
<1> QED
  BY <1>2, <1>3, <1>4

(* What decreases by this order cannot decrease forever. *)
Less(n) == LexProductOrdering(OpToRel(<, Nat), Nat, n)

LEMMA NoEndlessDescent == \A n \in Nat : IsWellFoundedOn(Less(n), [1..n -> Nat])
BY NatLessThanWellFounded, WFLexProductOrdering DEF Less

LEMMA LessOfFour ==
  ASSUME NEW a \in Nat, NEW b \in Nat, NEW c \in Nat, NEW d \in Nat,
         NEW p \in Nat, NEW q \in Nat, NEW r \in Nat, NEW s \in Nat,
         \/ a < p
         \/ a = p /\ b < q
         \/ a = p /\ b = q /\ c < r
         \/ a = p /\ b = q /\ c = r /\ d < s
  PROVE  <<<<a, b, c, d>>, <<p, q, r, s>>>> \in Less(4)
<1> DEFINE m == <<a, b, c, d>>
           n == <<p, q, r, s>>
<1>1. m \in [1..4 -> Nat] /\ n \in [1..4 -> Nat]
  OBVIOUS
<1>2. m[1] = a /\ m[2] = b /\ m[3] = c /\ m[4] = d /\ n[1] = p /\ n[2] = q /\ n[3] = r /\ n[4] = s
  OBVIOUS
<1> HIDE DEF m, n
<1>3. \E j \in 1..4 : (\A i \in 1..(j - 1) : m[i] = n[i]) /\ m[j] < n[j] /\ m[j] \in Nat /\ n[j] \in Nat
  <2>1. CASE a < p
    BY <1>2, <2>1
  <2>2. CASE a = p /\ b < q
    BY <1>2, <2>2
  <2>3. CASE a = p /\ b = q /\ c < r
    BY <1>2, <2>3
  <2>4. CASE a = p /\ b = q /\ c = r /\ d < s
    BY <1>2, <2>4
  <2> QED
    BY <2>1, <2>2, <2>3, <2>4
<1>4. PICK j \in 1..4 : (\A i \in 1..(j - 1) : m[i] = n[i]) /\ m[j] < n[j] /\ m[j] \in Nat /\ n[j] \in Nat
  BY <1>3
<1>5. <<m[j], n[j]>> \in OpToRel(<, Nat)
  BY <1>4 DEF OpToRel
<1> DEFINE R == OpToRel(<, Nat)
<1> HIDE DEF R
<1>6. <<m, n>> \in LexProductOrdering(R, Nat, 4)
  BY <1>1, <1>4, <1>5 DEF LexProductOrdering, R
<1> QED
  BY <1>6 DEF Less, R, m, n
=============================================================================
