----------------------------- MODULE CodecProofs -----------------------------
(***************************************************************************)
(* Theorems about generated types, for any validated schema and any value  *)
(* of one of its types: what prepare() announces is what encode() writes,  *)
(* a value is refused for the lengths it is said to be refused for, and    *)
(* decode() returns what was encoded, or finds that it has been cut off.   *)
(* And for bytes of any origin: neither decoders nor the readers of        *)
(* streams leave them, whatever else than a value or an error they return  *)
(* is accounted for, and a reader returns the elements, each once.         *)
(***************************************************************************)
EXTENDS Codec, SchemaTheorems

(* What is written is a list of bytes; lists one after the other are one. *)
LEMMA ListParts ==
  ASSUME NEW v, IsList(v)
  PROVE  v \in Seq(Range(v)) /\ DOMAIN v = 1..Len(v) /\ Len(v) \in Nat
<1>1. Len(v) \in Nat /\ v = [i \in 1..Len(v) |-> v[i]]
  BY DEF IsList
<1> DEFINE n == Len(v)
<1>2. n \in Nat /\ v = [i \in 1..n |-> v[i]]
  BY <1>1
<1> HIDE DEF n
<1>3. DOMAIN v = 1..n
  BY <1>2
<1>4. \A i \in 1..n : v[i] \in Range(v)
  BY <1>3 DEF Range
<1>5. v \in [1..n -> Range(v)]
  BY <1>2, <1>4
<1>6. v \in Seq(Range(v))
  BY <1>2, <1>5
<1> QED
  BY <1>2, <1>3, <1>6 DEF n

LEMMA SeqIsList ==
  ASSUME NEW S, NEW v \in Seq(S)
  PROVE  IsList(v)
BY DEF IsList

LEMMA Tabulated ==
  ASSUME NEW n \in Nat, NEW f, f = [i \in 1..n |-> f[i]]
  PROVE  IsList(f) /\ Len(f) = n
<1> DEFINE S == {f[i] : i \in 1..n}
<1>1. f \in [1..n -> S]
  OBVIOUS
<1>2. f \in Seq(S) /\ Len(f) = n
  BY <1>1
<1> QED
  BY <1>2, SeqIsList

LEMMA ListsConcatenate ==
  ASSUME NEW a, NEW b, IsList(a), IsList(b)
  PROVE  IsList(a \o b) /\ Len(a \o b) = Len(a) + Len(b)
<1> DEFINE S == Range(a) \cup Range(b)
<1>1. a \in Seq(Range(a)) /\ b \in Seq(Range(b))
  BY ListParts
<1>2. a \in Seq(S) /\ b \in Seq(S)
  BY <1>1
<1> HIDE DEF S
<1>3. a \o b \in Seq(S) /\ Len(a \o b) = Len(a) + Len(b)
  BY <1>2
<1> QED
  BY <1>3, SeqIsList

AreLists(seqs, n) == seqs = [i \in 1..n |-> seqs[i]] /\ \A i \in 1..n : IsList(seqs[i])

Lengths(seqs, n) == [i \in 1..n |-> Len(seqs[i])]

LEMMA ListsFlatten ==
  ASSUME NEW n \in Nat, NEW seqs, AreLists(seqs, n)
  PROVE  /\ Lengths(seqs, n) \in [1..n -> Nat]
         /\ IsList(FlattenSeq(seqs))
         /\ \E h : SumsTo(h, n, Lengths(seqs, n)) /\ Len(FlattenSeq(seqs)) = h[n]
<1> DEFINE S == UNION {Range(seqs[i]) : i \in 1..n}
<1>1. seqs = [i \in 1..n |-> seqs[i]] /\ \A i \in 1..n : IsList(seqs[i])
  BY DEF AreLists
<1>2. ASSUME NEW i \in 1..n PROVE seqs[i] \in Seq(S) /\ Len(seqs[i]) \in Nat
  <2>1. seqs[i] \in Seq(Range(seqs[i])) /\ Len(seqs[i]) \in Nat
    BY <1>1, ListParts
  <2>2. Range(seqs[i]) \subseteq S
    OBVIOUS
  <2> QED
    BY <2>1, <2>2
<1> HIDE DEF S
<1>3. seqs \in [1..n -> Seq(S)]
  BY <1>1, <1>2
<1>4. seqs \in Seq(Seq(S)) /\ Len(seqs) = n
  BY <1>3
<1> DEFINE a == Lengths(seqs, n)
<1>5. a \in [1..n -> Nat] /\ \A i \in 1..n : a[i] = Len(seqs[i])
  BY <1>2 DEF Lengths
<1> HIDE DEF a
<1>6. CASE n = 0
  <2>1. seqs = <<>>
    BY <1>4, <1>6
  <2>2. FlattenSeq(seqs) = <<>>
    BY <2>1 DEF FlattenSeq
  <2> DEFINE h == [i \in 0..0 |-> 0]
  <2>3. SumsTo(h, n, a) /\ h[n] = 0
    BY <1>6 DEF SumsTo
  <2>4. IsList(<<>>) /\ Len(<<>>) = 0
    BY DEF IsList
  <2> HIDE DEF h
  <2> QED
    BY <1>5, <2>2, <2>3, <2>4 DEF a
<1>7. CASE n # 0
  <2>1. seqs # <<>>
    BY <1>4, <1>7
  <2>2. PICK f \in [1..Len(seqs) -> Seq(S)] :
          /\ f[1] = seqs[1]
          /\ \A i \in 2..Len(seqs) : f[i] = f[i - 1] \o seqs[i]
          /\ FlattenSeq(seqs) = f[Len(seqs)]
    BY <1>4, <2>1, FlattenDefined
  <2> DEFINE T == Seq(S)
  <2>3. f \in [1..n -> T] /\ f[1] = seqs[1] /\ FlattenSeq(seqs) = f[n]
        /\ \A i \in 2..n : f[i] = f[i - 1] \o seqs[i]
    BY <1>4, <2>2
  <2>4. ASSUME NEW i \in 1..n PROVE f[i] \in Seq(S) /\ Len(f[i]) \in Nat
    <3>1. f[i] \in T
      <4> HIDE DEF T
      <4> QED
        BY <2>3
    <3> QED
      BY <3>1
  <2> DEFINE h == [i \in 0..n |-> IF i = 0 THEN 0 ELSE Len(f[i])]
  <2>5. h \in [0..n -> Nat] /\ h[0] = 0 /\ \A i \in 1..n : h[i] = Len(f[i])
    BY <2>4
  <2> HIDE DEF h, T
  <2>6. ASSUME NEW i \in 1..n PROVE h[i] = h[i - 1] + a[i]
    <3>1. CASE i = 1
      <4>1. h[1] = Len(seqs[1]) /\ h[1 - 1] = 0 /\ a[1] = Len(seqs[1]) /\ Len(seqs[1]) \in Nat
        BY <1>2, <1>5, <1>7, <2>3, <2>5
      <4> QED
        BY <3>1, <4>1
    <3>2. CASE i # 1
      <4>1. i \in 2..n /\ i - 1 \in 1..n
        BY <3>2
      <4>2. f[i] = f[i - 1] \o seqs[i] /\ f[i - 1] \in Seq(S) /\ seqs[i] \in Seq(S)
        BY <1>2, <2>3, <2>4, <4>1
      <4>3. Len(f[i]) = Len(f[i - 1]) + Len(seqs[i])
        BY <4>2
      <4> QED
        BY <1>5, <2>5, <4>1, <4>3
    <3> QED
      BY <3>1, <3>2
  <2>7. SumsTo(h, n, a)
    BY <2>5, <2>6 DEF SumsTo
  <2>8. n \in 1..n
    BY <1>7
  <2>9. FlattenSeq(seqs) \in Seq(S) /\ Len(FlattenSeq(seqs)) = h[n]
    BY <2>3, <2>4, <2>5, <2>8
  <2> QED
    BY <1>5, <2>7, <2>9, SeqIsList DEF a
<1> QED
  BY <1>6, <1>7

-----------------------------------------------------------------------------
(***************************************************************************)
(* Varints.  prepare() computes their size from the highest bit, encode()  *)
(* writes a byte for every seven bits: the two agree.                      *)
(***************************************************************************)
LEMMA BitLengthDefined ==
  /\ BitLength \in [Nat -> Nat]
  /\ \A v \in Nat : BitLength[v] = IF v = 0 THEN 0 ELSE 1 + BitLength[v \div 2]
<1> DEFINE base == [v \in Nat |-> 0]
           step == [v \in Nat |-> [x \in Nat |-> 1 + x]]
           down == [v \in Nat |-> v \div 2]
           stop == {0}
           D(f) == [v \in Nat |-> IF v = 0 THEN 0 ELSE 1 + f[v \div 2]]
           F == CHOOSE f : f = D(f)
<1>1. base \in [Nat -> Nat] /\ step \in [Nat -> [Nat -> Nat]]
  OBVIOUS
<1>2. Falls(down, stop)
  <2>1. \A v \in Nat : v \div 2 \in Nat
    OBVIOUS
  <2>2. \A v \in Nat \ {0} : v \div 2 < v
    OBVIOUS
  <2> QED
    BY <2>1, <2>2 DEF Falls
<1>3. \A v \in Nat : base[v] = 0 /\ down[v] = v \div 2 /\ v \div 2 \in Nat
                     /\ (v \in stop <=> v = 0)
                     /\ \A x \in Nat : step[v][x] = 1 + x
  OBVIOUS
<1> HIDE DEF base, step, down, stop
<1>4. PICK g \in [Nat -> Nat] : DescendsForever(g, base, stop, step, down)
  BY <1>1, <1>2, DescendingRecursion
<1>5. \A v \in Nat : g[v] = IF v = 0 THEN 0 ELSE 1 + g[v \div 2]
  <2> TAKE v \in Nat
  <2>1. g[v] = IF v \in stop THEN base[v] ELSE step[v][g[down[v]]]
    BY <1>4 DEF DescendsForever
  <2>2. base[v] = 0 /\ down[v] = v \div 2 /\ (v \in stop <=> v = 0) /\ v \div 2 \in Nat
    BY <1>3
  <2>3. g[v \div 2] \in Nat
    BY <2>2
  <2>4. step[v][g[v \div 2]] = 1 + g[v \div 2]
    BY <1>3, <2>3
  <2> QED
    BY <2>1, <2>2, <2>4
<1>6. g = D(g)
  BY <1>4, <1>5
<1>7. F = D(F)
  <2> HIDE DEF D
  <2> QED
    BY <1>6
<1>8. BitLength = F
  BY DEF BitLength
<1> HIDE DEF F
<1>9. \A v \in Nat : F[v] = IF v = 0 THEN 0 ELSE 1 + F[v \div 2]
  BY <1>7
<1>10. F \in [Nat -> Nat]
  <2>1. F = [v \in Nat |-> F[v]]
    BY <1>7
  <2> DEFINE K == {v \in Nat : F[v] \notin Nat}
  <2>2. ASSUME K # {} PROVE FALSE
    <3>1. PICK v \in K : \A u \in K : v <= u
      BY <2>2, LeastNatural
    <3>2. v \in Nat /\ F[v] \notin Nat
      OBVIOUS
    <3>3. v # 0
      BY <1>9, <3>2
    <3>4. v \div 2 \in Nat /\ v \div 2 < v
      BY <3>2, <3>3
    <3>5. F[v \div 2] \in Nat
      <4>1. v \div 2 \in K => v <= v \div 2
        BY <3>1
      <4> QED
        BY <3>2, <3>4, <4>1
    <3> QED
      BY <1>9, <3>2, <3>3, <3>5
  <2> QED
    BY <2>1, <2>2
<1> QED
  BY <1>8, <1>9, <1>10

LEMMA Leb128Defined ==
  \A v \in Nat : Leb128[v] = IF v < 128 THEN <<v>> ELSE <<(v % 128) + 128>> \o Leb128[v \div 128]
<1> DEFINE S == Seq(Nat)
           base == [v \in Nat |-> <<v>>]
           step == [v \in Nat |-> [x \in S |-> <<(v % 128) + 128>> \o x]]
           down == [v \in Nat |-> v \div 128]
           stop == {v \in Nat : v < 128}
           D(f) == [v \in Nat |-> IF v < 128 THEN <<v>> ELSE <<(v % 128) + 128>> \o f[v \div 128]]
           F == CHOOSE f : f = D(f)
<1>1. base \in [Nat -> S] /\ step \in [Nat -> [S -> S]]
  <2>1. \A v \in Nat : <<v>> \in Seq(Nat) /\ <<(v % 128) + 128>> \in Seq(Nat)
    OBVIOUS
  <2>2. \A v \in Nat : \A x \in Seq(Nat) : <<(v % 128) + 128>> \o x \in Seq(Nat)
    BY <2>1
  <2> QED
    BY <2>1, <2>2
<1>2. Falls(down, stop)
  <2>1. \A v \in Nat : v \div 128 \in Nat
    OBVIOUS
  <2>2. \A v \in Nat : ~(v < 128) => v \div 128 < v
    OBVIOUS
  <2> QED
    BY <2>1, <2>2 DEF Falls
<1>3. \A v \in Nat : base[v] = <<v>> /\ down[v] = v \div 128 /\ v \div 128 \in Nat
                     /\ (v \in stop <=> v < 128)
                     /\ \A x \in S : step[v][x] = <<(v % 128) + 128>> \o x
  <2>1. \A v \in Nat : v \div 128 \in Nat
    OBVIOUS
  <2> HIDE DEF S
  <2> QED
    BY <2>1
<1> HIDE DEF base, step, down, stop, S
<1>4. PICK g \in [Nat -> S] : DescendsForever(g, base, stop, step, down)
  BY <1>1, <1>2, DescendingRecursion
<1>5. \A v \in Nat : g[v] = IF v < 128 THEN <<v>> ELSE <<(v % 128) + 128>> \o g[v \div 128]
  <2> TAKE v \in Nat
  <2>1. g[v] = IF v \in stop THEN base[v] ELSE step[v][g[down[v]]]
    BY <1>4 DEF DescendsForever
  <2>2. base[v] = <<v>> /\ down[v] = v \div 128 /\ (v \in stop <=> v < 128)
        /\ v \div 128 \in Nat
    BY <1>3
  <2>3. g[v \div 128] \in S
    BY <2>2
  <2>4. step[v][g[v \div 128]] = <<(v % 128) + 128>> \o g[v \div 128]
    BY <1>3, <2>3
  <2> QED
    BY <2>1, <2>2, <2>4
<1>6. g = D(g)
  BY <1>4, <1>5
<1>7. F = D(F)
  <2> HIDE DEF D
  <2> QED
    BY <1>6
<1>8. Leb128 = F
  BY DEF Leb128
<1> HIDE DEF F
<1>9. \A v \in Nat : F[v] = IF v < 128 THEN <<v>> ELSE <<(v % 128) + 128>> \o F[v \div 128]
  BY <1>7
<1> QED
  BY <1>8, <1>9

(* A shift by a group takes seven bits away. *)
LEMMA BitLengthOfGroup ==
  ASSUME NEW v \in Nat, v >= 128
  PROVE  BitLength[v] = 7 + BitLength[v \div 128] /\ BitLength[v \div 128] >= 1
<1>1. /\ v \div 2 \in Nat /\ v \div 4 \in Nat /\ v \div 8 \in Nat /\ v \div 16 \in Nat
      /\ v \div 32 \in Nat /\ v \div 64 \in Nat /\ v \div 128 \in Nat
  OBVIOUS
<1>2. /\ (v \div 2) \div 2 = v \div 4 /\ (v \div 4) \div 2 = v \div 8
      /\ (v \div 8) \div 2 = v \div 16 /\ (v \div 16) \div 2 = v \div 32
      /\ (v \div 32) \div 2 = v \div 64 /\ (v \div 64) \div 2 = v \div 128
  OBVIOUS
<1>3. /\ v # 0 /\ v \div 2 # 0 /\ v \div 4 # 0 /\ v \div 8 # 0 /\ v \div 16 # 0
      /\ v \div 32 # 0 /\ v \div 64 # 0 /\ v \div 128 # 0
  OBVIOUS
<1>4. \A u \in Nat : u # 0 => BitLength[u] = 1 + BitLength[u \div 2]
  BY BitLengthDefined
<1>5. BitLength[v \div 128] \in Nat \ {0}
  <2>1. (v \div 128) \div 2 \in Nat
    BY <1>1
  <2>2. BitLength[v \div 128] = 1 + BitLength[(v \div 128) \div 2]
        /\ BitLength[(v \div 128) \div 2] \in Nat
    BY <1>1, <1>3, <2>1, BitLengthDefined
  <2> QED
    BY <2>2
<1> DEFINE x == BitLength[v \div 128]
<1>6. BitLength[v] = 1 + (1 + (1 + (1 + (1 + (1 + (1 + x))))))
  <2>1. BitLength[v] = 1 + BitLength[v \div 2]
    BY <1>1, <1>2, <1>3, <1>4
  <2>2. BitLength[v \div 2] = 1 + BitLength[v \div 4]
    BY <1>1, <1>2, <1>3, <1>4
  <2>3. BitLength[v \div 4] = 1 + BitLength[v \div 8]
    BY <1>1, <1>2, <1>3, <1>4
  <2>4. BitLength[v \div 8] = 1 + BitLength[v \div 16]
    BY <1>1, <1>2, <1>3, <1>4
  <2>5. BitLength[v \div 16] = 1 + BitLength[v \div 32]
    BY <1>1, <1>2, <1>3, <1>4
  <2>6. BitLength[v \div 32] = 1 + BitLength[v \div 64]
    BY <1>1, <1>2, <1>3, <1>4
  <2>7. BitLength[v \div 64] = 1 + BitLength[v \div 128]
    BY <1>1, <1>2, <1>3, <1>4
  <2> QED
    BY <2>1, <2>2, <2>3, <2>4, <2>5, <2>6, <2>7
<1>7. x \in Nat \ {0}
  BY <1>5
<1> HIDE DEF x
<1>8. BitLength[v] = 7 + x
  BY <1>6, <1>7
<1> QED
  BY <1>7, <1>8 DEF x

LEMMA BitLengthOfLast ==
  ASSUME NEW v \in Nat, v < 128
  PROVE  BitLength[v] \in 0..7
<1> DEFINE B == BitLength
<1>1. \A u \in Nat : B[u] \in Nat /\ B[u] = IF u = 0 THEN 0 ELSE 1 + B[u \div 2]
  BY BitLengthDefined
<1> HIDE DEF B
<1>2. \A u \in Nat : u < 1 => B[u] <= 0
  BY <1>1
<1>3. \A u \in Nat : u < 2 => B[u] <= 1
  <2> TAKE u \in Nat
  <2>1. u \div 2 \in Nat /\ (u < 2 => u \div 2 < 1)
    OBVIOUS
  <2> QED
    BY <1>1, <1>2, <2>1
<1>4. \A u \in Nat : u < 4 => B[u] <= 2
  <2> TAKE u \in Nat
  <2>1. u \div 2 \in Nat /\ (u < 4 => u \div 2 < 2)
    OBVIOUS
  <2> QED
    BY <1>1, <1>3, <2>1
<1>5. \A u \in Nat : u < 8 => B[u] <= 3
  <2> TAKE u \in Nat
  <2>1. u \div 2 \in Nat /\ (u < 8 => u \div 2 < 4)
    OBVIOUS
  <2> QED
    BY <1>1, <1>4, <2>1
<1>6. \A u \in Nat : u < 16 => B[u] <= 4
  <2> TAKE u \in Nat
  <2>1. u \div 2 \in Nat /\ (u < 16 => u \div 2 < 8)
    OBVIOUS
  <2> QED
    BY <1>1, <1>5, <2>1
<1>7. \A u \in Nat : u < 32 => B[u] <= 5
  <2> TAKE u \in Nat
  <2>1. u \div 2 \in Nat /\ (u < 32 => u \div 2 < 16)
    OBVIOUS
  <2> QED
    BY <1>1, <1>6, <2>1
<1>8. \A u \in Nat : u < 64 => B[u] <= 6
  <2> TAKE u \in Nat
  <2>1. u \div 2 \in Nat /\ (u < 64 => u \div 2 < 32)
    OBVIOUS
  <2> QED
    BY <1>1, <1>7, <2>1
<1>9. v \div 2 \in Nat /\ v \div 2 < 64
  OBVIOUS
<1>10. B[v] \in Nat /\ B[v] <= 7
  BY <1>1, <1>8, <1>9
<1> QED
  BY <1>10 DEF B

LEMMA VarintLenExact ==
  ASSUME NEW v \in Nat
  PROVE  IsList(Leb128[v]) /\ Len(Leb128[v]) = VarintLen(v) /\ VarintLen(v) \in Nat
<1> DEFINE Exact(u) == IsList(Leb128[u]) /\ Len(Leb128[u]) = VarintLen(u)
                       /\ VarintLen(u) \in Nat
           K == {u \in Nat : ~Exact(u)}
<1>1. SUFFICES ASSUME K # {} PROVE FALSE
  <2>1. K = {} => Exact(v)
    <3> HIDE DEF Exact
    <3> QED
      OBVIOUS
  <2> QED
    BY <2>1
<1>2. PICK u \in K : \A w \in K : u <= w
  BY <1>1, LeastNatural
<1>3. u \in Nat /\ ~Exact(u)
  OBVIOUS
<1>4. CASE u < 128
  <2>1. Leb128[u] = <<u>>
    BY <1>3, <1>4, Leb128Defined
  <2>2. BitLength[u] \in 0..7
    BY <1>3, <1>4, BitLengthOfLast
  <2>3. VarintLen(u) = 1
    BY <2>2 DEF VarintLen
  <2>4. IsList(<<u>>) /\ Len(<<u>>) = 1
    BY DEF IsList
  <2> QED
    BY <1>3, <2>1, <2>3, <2>4
<1>5. CASE u >= 128
  <2> DEFINE w == u \div 128
  <2>1. w \in Nat /\ w < u
    BY <1>3, <1>5
  <2>2. Exact(w)
    <3>1. w \notin K
      <4>1. w \in K => u <= w
        BY <1>2
      <4> QED
        BY <1>3, <2>1, <4>1
    <3> HIDE DEF w, Exact
    <3> QED
      BY <2>1, <3>1
  <2>3. Leb128[u] = <<(u % 128) + 128>> \o Leb128[w]
    <3>1. ~(u < 128)
      BY <1>3, <1>5
    <3> QED
      BY <1>3, <3>1, Leb128Defined
  <2>4. IsList(<<(u % 128) + 128>>) /\ Len(<<(u % 128) + 128>>) = 1
    BY DEF IsList
  <2>5. BitLength[u] = 7 + BitLength[w] /\ BitLength[w] \in Nat \ {0}
    <3>1. BitLength[u] = 7 + BitLength[w] /\ BitLength[w] >= 1
      BY <1>3, <1>5, BitLengthOfGroup
    <3>2. BitLength[w] \in Nat
      <4> HIDE DEF w
      <4> QED
        BY <2>1, BitLengthDefined
    <3> HIDE DEF w
    <3> QED
      BY <3>1, <3>2
  <2> HIDE DEF w
  <2>6. IsList(Leb128[u]) /\ Len(Leb128[u]) = 1 + Len(Leb128[w])
    BY <2>2, <2>3, <2>4, ListsConcatenate
  <2>7. PICK x \in Nat \ {0} : x = BitLength[w] /\ BitLength[u] = 7 + x
    BY <2>5
  <2>8. VarintLen(w) = (x + 6) \div 7
    <3>1. (x + 6) \div 7 >= 1 /\ (x + 6) \div 7 \in Nat
      BY <2>7
    <3> QED
      BY <2>7, <3>1 DEF VarintLen
  <2>9. VarintLen(u) = 1 + ((x + 6) \div 7)
    <3>1. ((7 + x) + 6) \div 7 = 1 + ((x + 6) \div 7) /\ (x + 6) \div 7 >= 1
          /\ (x + 6) \div 7 \in Nat
      BY <2>7
    <3> QED
      BY <2>7, <3>1 DEF VarintLen
  <2> QED
    BY <1>3, <2>2, <2>6, <2>8, <2>9
<1> QED
  BY <1>3, <1>4, <1>5
-----------------------------------------------------------------------------
(***************************************************************************)
(* What prepare() returns is a size or one of two failures.  A sum is a    *)
(* size if all terms are, and the first failure among them otherwise.      *)
(***************************************************************************)
Outcome == {k \in Int : k >= -2}

LEMMA OutcomesKnown ==
  ASSUME NEW k \in Outcome
  PROVE  /\ k \in Int
         /\ k \in Nat <=> ~(k < 0)
         /\ k \in Nat \/ k = Refused \/ k = Undefined
         /\ Refused \notin Nat /\ Undefined \notin Nat /\ Refused # Undefined
BY DEF Outcome, Refused, Undefined

LEMMA OutcomeOf ==
  Nat \subseteq Outcome /\ Refused \in Outcome /\ Undefined \in Outcome
BY DEF Outcome, Refused, Undefined

LEMMA PlusOutcome ==
  ASSUME NEW a \in Outcome, NEW b \in Outcome
  PROVE  /\ Plus(a, b) \in Outcome
         /\ Plus(a, b) \in Nat <=> a \in Nat /\ b \in Nat
         /\ a \in Nat /\ b \in Nat => Plus(a, b) = a + b
         /\ a \notin Nat => Plus(a, b) = a
         /\ a \in Nat /\ b \notin Nat => Plus(a, b) = b
BY DEF Outcome, Plus

LEMMA SumOfTerms ==
  ASSUME NEW n \in Nat, NEW terms \in [1..n -> Outcome]
  PROVE  /\ SumOf(terms) \in Outcome
         /\ SumOf(terms) \in Nat => \A i \in 1..n : terms[i] \in Nat
         /\ SumOf(terms) \notin Nat => \E i \in 1..n : terms[i] = SumOf(terms)
         /\ (\A i \in 1..n : terms[i] \in Nat) =>
              \E h : SumsTo(h, n, terms) /\ SumOf(terms) = h[n]
<1> DEFINE D(f) == [i \in 0..n |-> IF i = 0 THEN 0 ELSE Plus(f[i - 1], terms[i])]
           F == CHOOSE f : f = D(f)
           step == [i \in 1..n |-> [x \in Outcome |-> Plus(x, terms[i])]]
           base == 0
<1>1. Len(terms) = n
  OBVIOUS
<1>2. SumOf(terms) = F[n]
  BY <1>1 DEF SumOf
<1>3. \A i \in 1..n : terms[i] \in Outcome
  OBVIOUS
<1>4. step \in StepsOver(n, Outcome) /\ base \in Outcome
  BY <1>3, PlusOutcome, OutcomeOf DEF StepsOver
<1>5. \A i \in 1..n : \A x \in Outcome : step[i][x] = Plus(x, terms[i])
  OBVIOUS
<1> HIDE DEF step, F
<1>6. PICK g : Iterates(g, n, Outcome, base, step)
  BY <1>4, IntervalRecursion
<1>7. g \in [0..n -> Outcome] /\ g[0] = 0 /\ \A i \in 1..n : g[i] = step[i][g[i - 1]]
  BY <1>6 DEF Iterates
<1>8. ASSUME NEW i \in 1..n PROVE g[i] = Plus(g[i - 1], terms[i])
  <2>1. g[i - 1] \in Outcome
    BY <1>7
  <2> QED
    BY <1>5, <1>7, <2>1
<1>9. g = D(g)
  BY <1>7, <1>8
<1>10. F = D(F)
  <2> HIDE DEF D
  <2> QED
    BY <1>9 DEF F
<1>11. F[0] = 0 /\ \A i \in 1..n : F[i] = Plus(F[i - 1], terms[i])
  BY <1>10
<1> DEFINE Told(k) ==
             /\ F[k] \in Outcome
             /\ F[k] \in Nat => \A i \in 1..k : terms[i] \in Nat
             /\ F[k] \notin Nat => \E i \in 1..k : terms[i] = F[k]
           K == {k \in Nat : k <= n => Told(k)}
<1>12. 0 \in K
  BY <1>11, OutcomeOf
<1>13. ASSUME NEW k \in Nat, k \in K PROVE k + 1 \in K
  <2>1. SUFFICES ASSUME k + 1 <= n PROVE Told(k + 1)
    OBVIOUS
  <2>2. Told(k) /\ k + 1 \in 1..n /\ (k + 1) - 1 = k
    BY <1>13, <2>1
  <2> DEFINE a == F[k]
             b == terms[k + 1]
  <2>3. a \in Outcome /\ b \in Outcome /\ F[k + 1] = Plus(a, b)
    BY <1>3, <1>11, <2>2
  <2>4. (a \in Nat => \A i \in 1..k : terms[i] \in Nat)
        /\ (a \notin Nat => \E i \in 1..k : terms[i] = a)
    BY <2>2
  <2> HIDE DEF a
  <2>5. F[k + 1] \in Outcome
    BY <2>3, PlusOutcome
  <2>6. ASSUME F[k + 1] \in Nat, NEW i \in 1..(k + 1) PROVE terms[i] \in Nat
    <3>1. a \in Nat /\ b \in Nat
      BY <2>3, <2>6, PlusOutcome
    <3>2. i \in 1..k \/ i = k + 1
      OBVIOUS
    <3> QED
      BY <2>4, <3>1, <3>2
  <2>7. ASSUME F[k + 1] \notin Nat PROVE \E i \in 1..(k + 1) : terms[i] = F[k + 1]
    <3>1. CASE a \notin Nat
      <4>1. F[k + 1] = a
        BY <2>3, <3>1, PlusOutcome
      <4>2. PICK i \in 1..k : terms[i] = a
        BY <2>4, <3>1
      <4>3. i \in 1..(k + 1)
        OBVIOUS
      <4> QED
        BY <4>1, <4>2, <4>3
    <3>2. CASE a \in Nat
      <4>1. b \notin Nat
        BY <2>3, <2>7, <3>2, PlusOutcome
      <4>2. F[k + 1] = b
        BY <2>3, <3>2, <4>1, PlusOutcome
      <4>3. k + 1 \in 1..(k + 1)
        OBVIOUS
      <4> QED
        BY <4>2, <4>3
    <3> QED
      BY <3>1, <3>2
  <2> QED
    BY <2>5, <2>6, <2>7
<1>14. Told(n)
  <2>1. n \in K
    <3> HIDE DEF K
    <3> QED
      BY <1>12, <1>13, SetInduction
  <2> HIDE DEF Told
  <2> QED
    BY <2>1
<1>15. ASSUME \A i \in 1..n : terms[i] \in Nat
       PROVE  \E h : SumsTo(h, n, terms) /\ SumOf(terms) = h[n]
  <2> DEFINE J == {k \in Nat : k <= n => F[k] \in Nat}
  <2>1. 0 \in J
    BY <1>11
  <2>2. ASSUME NEW k \in Nat, k \in J PROVE k + 1 \in J
    <3>1. SUFFICES ASSUME k + 1 <= n PROVE F[k + 1] \in Nat
      OBVIOUS
    <3>2. F[k] \in Nat /\ k + 1 \in 1..n /\ (k + 1) - 1 = k
      BY <2>2, <3>1
    <3>3. F[k + 1] = Plus(F[k], terms[k + 1]) /\ terms[k + 1] \in Nat
      BY <1>11, <1>15, <3>2
    <3> QED
      BY <3>2, <3>3, OutcomeOf, PlusOutcome
  <2>3. Nat \subseteq J
    <3> HIDE DEF J
    <3> QED
      BY <2>1, <2>2, SetInduction
  <2>4. \A k \in 0..n : F[k] \in Nat
    BY <2>3
  <2> DEFINE h == [k \in 0..n |-> F[k]]
  <2>5. h \in [0..n -> Nat] /\ h[0] = 0 /\ h[n] = F[n]
    BY <1>11, <2>4
  <2>6. ASSUME NEW i \in 1..n PROVE h[i] = h[i - 1] + terms[i]
    <3>1. F[i - 1] \in Nat /\ terms[i] \in Nat /\ F[i] = Plus(F[i - 1], terms[i])
      BY <1>11, <1>15, <2>4
    <3>2. F[i] = F[i - 1] + terms[i]
      BY <3>1, OutcomeOf, PlusOutcome
    <3> QED
      BY <3>2
  <2> HIDE DEF h
  <2>7. SumsTo(h, n, terms)
    BY <2>5, <2>6 DEF SumsTo
  <2> QED
    BY <1>2, <2>5, <2>7
<1> QED
  BY <1>2, <1>14, <1>15
-----------------------------------------------------------------------------
(***************************************************************************)
(* The levels of a value, and what prepare() and encode() make of them,    *)
(* are what their recursive definitions say.                               *)
(***************************************************************************)
NextLevel(c, level) == UNION {Range(PartsOf(c, p)) : p \in level}

LEMMA LevelsDefined ==
  ASSUME NEW c, NEW part
  PROVE  /\ Levels(c, part)[0] = {part}
         /\ \A n \in 1..(MaxDepth + 1) : Levels(c, part)[n] = NextLevel(c, Levels(c, part)[n - 1])
<1> DEFINE D(f, k) == [n \in 0..k |-> IF n = 0 THEN {part} ELSE NextLevel(c, f[n - 1])]
           K == {k \in Nat : \E f : f = D(f, k)}
           F == CHOOSE f : f = D(f, MaxDepth + 1)
<1>1. 0 \in K
  <2> DEFINE g == [n \in 0..0 |-> {part}]
  <2>1. g = D(g, 0)
    OBVIOUS
  <2> QED
    BY <2>1
<1>2. ASSUME NEW k \in Nat, k \in K PROVE k + 1 \in K
  <2>1. PICK f : f = D(f, k)
    BY <1>2
  <2> DEFINE g == [n \in 0..(k + 1) |-> IF n <= k THEN f[n] ELSE NextLevel(c, f[k])]
  <2>2. ASSUME NEW n \in 0..(k + 1)
        PROVE  g[n] = IF n = 0 THEN {part} ELSE NextLevel(c, g[n - 1])
    <3>1. CASE n = 0
      BY <2>1, <3>1
    <3>2. CASE n \in 1..k
      <4>1. n \in 0..k /\ n # 0 /\ n - 1 \in 0..k
        BY <3>2
      <4>2. f[n] = NextLevel(c, f[n - 1])
        BY <2>1, <4>1
      <4> QED
        BY <3>2, <4>1, <4>2
    <3>3. CASE n = k + 1
      BY <3>3
    <3> QED
      BY <3>1, <3>2, <3>3
  <2>3. g = D(g, k + 1)
    BY <2>2
  <2> HIDE DEF D, g
  <2> QED
    BY <2>3
<1>3. MaxDepth + 1 \in K
  <2> HIDE DEF K
  <2>1. Nat \subseteq K
    BY <1>1, <1>2, SetInduction
  <2> QED
    BY <2>1, MaxDepthAssumption
<1>4. F = D(F, MaxDepth + 1)
  <2> HIDE DEF D
  <2> QED
    BY <1>3
<1>5. Levels(c, part) = F
  BY DEF Levels, NextLevel
<1> HIDE DEF F
<1>6. F[0] = {part} /\ \A n \in 1..(MaxDepth + 1) : F[n] = NextLevel(c, F[n - 1])
  <2> DEFINE top == MaxDepth + 1
  <2>1. top \in Nat /\ F = D(F, top)
    <3>1. top \in Nat
      BY MaxDepthAssumption
    <3>2. F = D(F, top)
      <4> HIDE DEF D
      <4> QED
        BY <1>4
    <3> QED
      BY <3>1, <3>2
  <2> HIDE DEF top
  <2>2. \A n \in 0..top : F[n] = IF n = 0 THEN {part} ELSE NextLevel(c, F[n - 1])
    BY <2>1
  <2>3. 0 \in 0..top /\ \A n \in 1..top : n \in 0..top /\ n # 0
    BY <2>1
  <2>4. F[0] = {part} /\ \A n \in 1..top : F[n] = NextLevel(c, F[n - 1])
    BY <2>2, <2>3
  <2> QED
    BY <2>4 DEF top
<1> QED
  BY <1>5, <1>6

LEMMA SizesDefined ==
  ASSUME NEW c, NEW part, NEW n \in 0..MaxDepth
  PROVE  Sizes(c, part)[n] =
           [p \in Levels(c, part)[MaxDepth - n] |-> PrepareType(c, Below(Sizes(c, part), n), p)]
<1> DEFINE Step(f, m) == [p \in Levels(c, part)[MaxDepth - m] |-> PrepareType(c, Below(f, m), p)]
           D(f, k) == [m \in 0..k |-> Step(f, m)]
           K == {k \in Nat : \E f : f = D(f, k)}
           F == CHOOSE f : f = D(f, MaxDepth)
<1>1. 0 \in K
  <2> DEFINE g == [m \in 0..0 |-> Step(<<>>, 0)]
  <2>1. Below(g, 0) = Below(<<>>, 0)
    BY DEF Below
  <2>2. g = D(g, 0)
    BY <2>1
  <2> QED
    BY <2>2
<1>2. ASSUME NEW k \in Nat, k \in K PROVE k + 1 \in K
  <2>1. PICK f : f = D(f, k)
    BY <1>2
  <2> DEFINE g == [m \in 0..(k + 1) |-> IF m <= k THEN f[m] ELSE Step(f, k + 1)]
  <2>2. ASSUME NEW m \in 0..(k + 1) PROVE Below(g, m) = Below(f, m)
    <3>1. m # 0 => m - 1 \in 0..k
      OBVIOUS
    <3> QED
      BY <3>1 DEF Below
  <2>3. ASSUME NEW m \in 0..(k + 1) PROVE g[m] = Step(g, m)
    <3>1. Step(g, m) = Step(f, m)
      BY <2>2
    <3>2. CASE m \in 0..k
      <4>1. f[m] = Step(f, m)
        <5> HIDE DEF Step
        <5> QED
          BY <2>1, <3>2
      <4> HIDE DEF Step
      <4> QED
        BY <3>1, <3>2, <4>1
    <3>3. CASE m = k + 1
      <4> HIDE DEF Step
      <4> QED
        BY <3>1, <3>3
    <3> QED
      BY <3>2, <3>3
  <2>4. g = D(g, k + 1)
    <3> HIDE DEF Step
    <3> QED
      BY <2>3
  <2> HIDE DEF D, g
  <2> QED
    BY <2>4
<1>3. MaxDepth \in K
  <2> HIDE DEF K
  <2>1. Nat \subseteq K
    BY <1>1, <1>2, SetInduction
  <2> QED
    BY <2>1, MaxDepthAssumption
<1>4. F = D(F, MaxDepth)
  <2> HIDE DEF D
  <2> QED
    BY <1>3
<1>5. Sizes(c, part) = F
  BY DEF Sizes
<1> HIDE DEF F
<1>6. F[n] = Step(F, n)
  <2> HIDE DEF Step
  <2> QED
    BY <1>4
<1> QED
  BY <1>5, <1>6

LEMMA BytesDefined ==
  ASSUME NEW c, NEW part, NEW n \in 0..MaxDepth
  PROVE  Bytes(c, part)[n] =
           [p \in Levels(c, part)[MaxDepth - n] |->
              EncodeType(c, Below(Sizes(c, part), n), Below(Bytes(c, part), n), p)]
<1> DEFINE Step(f, m) == [p \in Levels(c, part)[MaxDepth - m] |->
                            EncodeType(c, Below(Sizes(c, part), m), Below(f, m), p)]
           D(f, k) == [m \in 0..k |-> Step(f, m)]
           K == {k \in Nat : \E f : f = D(f, k)}
           F == CHOOSE f : f = D(f, MaxDepth)
<1>1. 0 \in K
  <2> DEFINE g == [m \in 0..0 |-> Step(<<>>, 0)]
  <2>1. Below(g, 0) = Below(<<>>, 0)
    BY DEF Below
  <2>2. g = D(g, 0)
    BY <2>1
  <2> QED
    BY <2>2
<1>2. ASSUME NEW k \in Nat, k \in K PROVE k + 1 \in K
  <2>1. PICK f : f = D(f, k)
    BY <1>2
  <2> DEFINE g == [m \in 0..(k + 1) |-> IF m <= k THEN f[m] ELSE Step(f, k + 1)]
  <2>2. ASSUME NEW m \in 0..(k + 1) PROVE Below(g, m) = Below(f, m)
    <3>1. m # 0 => m - 1 \in 0..k
      OBVIOUS
    <3> QED
      BY <3>1 DEF Below
  <2>3. ASSUME NEW m \in 0..(k + 1) PROVE g[m] = Step(g, m)
    <3>1. Step(g, m) = Step(f, m)
      BY <2>2
    <3>2. CASE m \in 0..k
      <4>1. f[m] = Step(f, m)
        <5> HIDE DEF Step
        <5> QED
          BY <2>1, <3>2
      <4> HIDE DEF Step
      <4> QED
        BY <3>1, <3>2, <4>1
    <3>3. CASE m = k + 1
      <4> HIDE DEF Step
      <4> QED
        BY <3>1, <3>3
    <3> QED
      BY <3>2, <3>3
  <2>4. g = D(g, k + 1)
    <3> HIDE DEF Step
    <3> QED
      BY <2>3
  <2> HIDE DEF D, g
  <2> QED
    BY <2>4
<1>3. MaxDepth \in K
  <2> HIDE DEF K
  <2>1. Nat \subseteq K
    BY <1>1, <1>2, SetInduction
  <2> QED
    BY <2>1, MaxDepthAssumption
<1>4. F = D(F, MaxDepth)
  <2> HIDE DEF D
  <2> QED
    BY <1>3
<1>5. Bytes(c, part) = F
  BY DEF Bytes
<1> HIDE DEF F
<1>6. F[n] = Step(F, n)
  <2> HIDE DEF Step
  <2> QED
    BY <1>4
<1> QED
  BY <1>5, <1>6
-----------------------------------------------------------------------------
(* A sum of whole bytes, counted in bits. *)
LEMMA SumOfBytes ==
  ASSUME NEW n \in Nat, NEW b \in [1..n -> FixedWidths], \A i \in 1..n : b[i].bits % 8 = 0,
         NEW a, \A i \in 1..n : a[i] = b[i].bits \div 8,
         NEW h, SumsTo(h, n, a)
  PROVE  h[n] = TotalBits(b) \div 8
<1>1. PICK f : Sums(f, n, b) /\ TotalBits(b) = f[n]
  BY TotalIsSum
<1> DEFINE K == {k \in Nat : k <= n => h[k] \in Nat /\ f[k] = 8 * h[k]}
<1>2. 0 \in K
  BY <1>1 DEF Sums, SumsTo
<1>3. ASSUME NEW k \in Nat, k \in K PROVE k + 1 \in K
  <2>1. SUFFICES ASSUME k + 1 <= n PROVE h[k + 1] \in Nat /\ f[k + 1] = 8 * h[k + 1]
    OBVIOUS
  <2>2. h[k] \in Nat /\ f[k] = 8 * h[k] /\ k + 1 \in 1..n /\ (k + 1) - 1 = k
    BY <1>3, <2>1
  <2>3. h[k + 1] = h[k] + a[k + 1] /\ f[k + 1] = f[k] + b[k + 1].bits
    BY <1>1, <2>2 DEF Sums, SumsTo
  <2>4. b[k + 1].bits \in Nat /\ b[k + 1].bits % 8 = 0 /\ a[k + 1] = b[k + 1].bits \div 8
    BY <2>2, FixedWidth DEF FixedWidths
  <2>5. PICK x \in Nat : x = h[k]
    BY <2>2
  <2>6. PICK y \in Nat : y = b[k + 1].bits
    BY <2>4
  <2>7. h[k + 1] = x + (y \div 8) /\ f[k + 1] = 8 * x + y /\ y % 8 = 0
    BY <2>2, <2>3, <2>4, <2>5, <2>6
  <2>8. 8 * x + y = 8 * (x + (y \div 8)) /\ x + (y \div 8) \in Nat
    BY <2>7
  <2> QED
    BY <2>7, <2>8
<1>4. h[n] \in Nat /\ f[n] = 8 * h[n]
  <2>1. n \in K
    <3> HIDE DEF K
    <3> QED
      BY <1>2, <1>3, SetInduction
  <2> QED
    BY <2>1
<1>5. PICK x \in Nat : x = h[n]
  BY <1>4
<1>6. (8 * x) \div 8 = x
  OBVIOUS
<1> QED
  BY <1>1, <1>4, <1>5, <1>6
-----------------------------------------------------------------------------
(* What is written by one of the helpers is as long as it says. *)
LEMMA LittleEndianExact ==
  ASSUME NEW v, NEW n \in Nat
  PROVE  IsList(LittleEndian(v, n)) /\ Len(LittleEndian(v, n)) = n
<1> DEFINE f == LittleEndian(v, n)
<1>1. f = [i \in 1..n |-> f[i]]
  BY DEF LittleEndian
<1> HIDE DEF f
<1>2. IsList(f) /\ Len(f) = n
  BY <1>1, Tabulated
<1> QED
  BY <1>2 DEF f

LEMMA BitmapExact ==
  ASSUME NEW def, NEW v, def.index_ty \in Nat
  PROVE  IsList(Bitmap(def, v)) /\ Len(Bitmap(def, v)) = def.index_ty
<1> DEFINE f == Bitmap(def, v)
           n == def.index_ty
<1>1. f = [i \in 1..n |-> f[i]] /\ n \in Nat
  BY DEF Bitmap, Bits
<1> HIDE DEF f, n
<1>2. IsList(f) /\ Len(f) = n
  BY <1>1, Tabulated
<1> QED
  BY <1>2 DEF f, n

LEMMA LengthExact ==
  ASSUME NEW len_ty \in LenType, NEW n \in Nat
  PROVE  /\ LenSize(len_ty, n) \in Nat
         /\ IsList(LenBytes(len_ty, n)) /\ Len(LenBytes(len_ty, n)) = LenSize(len_ty, n)
<1>1. len_ty \in Nat
  BY DEF LenType, VarintSize
<1>2. CASE IsVarint(len_ty)
  BY <1>2, VarintLenExact DEF LenSize, LenBytes
<1>3. CASE ~IsVarint(len_ty)
  BY <1>1, <1>3, LittleEndianExact DEF LenSize, LenBytes
<1> QED
  BY <1>2, <1>3
-----------------------------------------------------------------------------
(***************************************************************************)
(* A part is exact if it takes the bytes it is prepared for, and those of  *)
(* its type where that is fixed: the inductive invariant of the two walks. *)
(***************************************************************************)
TypeIn(c, ty) == ty \in Type /\ (ty.tag = "allocated" => ty.handle \in DOMAIN c.schema)

Ready(c, p) == Validated(c) /\ TypeIn(c, p.ty) /\ WellTyped(c, p)

Exact(c, p, s, b) ==
  /\ s \in Outcome
  /\ s \in Nat => IsList(b) /\ Len(b) = s
  /\ IsFixedSize(c, p.ty) => s \in Nat /\ s = FixedSize(c, p.ty)

PartsExact(c, p, sizes, bytes) ==
  \A q \in Range(PartsOf(c, p)) : Exact(c, q, sizes[q], bytes[q])

Listed(parts, n) == n \in Nat /\ parts = [i \in 1..n |-> parts[i]]

SizesOf(parts, n, sizes) == [i \in 1..n |-> sizes[parts[i]]]

(* The sizes of n parts add up to s, or fail for one of them, and to the   *)
(* length of b.                                                            *)
AddUp(parts, n, sizes, s, b) ==
  /\ s \in Outcome
  /\ s \in Nat => IsList(b) /\ Len(b) = s /\ \A i \in 1..n : sizes[parts[i]] \in Nat
  /\ s \notin Nat => \E i \in 1..n : sizes[parts[i]] = s
  /\ (\A i \in 1..n : sizes[parts[i]] \in Nat) =>
       IsList(b) /\ \E h : SumsTo(h, n, SizesOf(parts, n, sizes)) /\ s = h[n] /\ Len(b) = h[n]

(* The parts of a part are added up as they are written. *)
LEMMA PartsAddUp ==
  ASSUME NEW c, NEW p, NEW sizes, NEW bytes, NEW n, Listed(PartsOf(c, p), n),
         PartsExact(c, p, sizes, bytes)
  PROVE  AddUp(PartsOf(c, p), n, sizes, PrepareParts(c, sizes, p), EncodeParts(c, bytes, p))
<1> DEFINE parts == PartsOf(c, p)
           terms == SizesOf(parts, n, sizes)
           seqs == [i \in 1..n |-> bytes[parts[i]]]
<1>1. n \in Nat /\ DOMAIN parts = 1..n
  BY DEF Listed
<1>2. \A i \in 1..n : parts[i] \in Range(parts)
  BY <1>1 DEF Range
<1>3. \A i \in 1..n : Exact(c, parts[i], sizes[parts[i]], bytes[parts[i]])
  BY <1>2 DEF PartsExact
<1>4. PrepareParts(c, sizes, p) = SumOf(terms) /\ EncodeParts(c, bytes, p) = FlattenSeq(seqs)
  BY <1>1 DEF PrepareParts, EncodeParts, SizesOf
<1> HIDE DEF parts
<1>5. terms \in [1..n -> Outcome] /\ \A i \in 1..n : terms[i] = sizes[parts[i]]
  BY <1>3 DEF SizesOf, Exact
<1>6. (\A i \in 1..n : terms[i] \in Nat) => AreLists(seqs, n)
  BY <1>3, <1>5 DEF AreLists, Exact
<1>7. \A i \in 1..n : seqs[i] = bytes[parts[i]]
  OBVIOUS
<1> HIDE DEF terms, seqs
<1> DEFINE s == SumOf(terms)
           b == FlattenSeq(seqs)
<1>8. /\ s \in Outcome
      /\ s \in Nat => \A i \in 1..n : terms[i] \in Nat
      /\ s \notin Nat => \E i \in 1..n : terms[i] = s
      /\ (\A i \in 1..n : terms[i] \in Nat) => \E h : SumsTo(h, n, terms) /\ s = h[n]
  BY <1>1, <1>5, SumOfTerms
<1>9. AreLists(seqs, n) => IsList(b) /\ \E h : SumsTo(h, n, Lengths(seqs, n)) /\ Len(b) = h[n]
  BY <1>1, ListsFlatten
<1> HIDE DEF s, b
<1>10. ASSUME \A i \in 1..n : terms[i] \in Nat
       PROVE  IsList(b) /\ \E h : SumsTo(h, n, terms) /\ s = h[n] /\ Len(b) = h[n]
  <2>1. PICK h : SumsTo(h, n, terms) /\ s = h[n]
    BY <1>8, <1>10
  <2>2. PICK g : SumsTo(g, n, Lengths(seqs, n)) /\ Len(b) = g[n]
    BY <1>6, <1>9, <1>10
  <2>3. Lengths(seqs, n) = [i \in 1..n |-> terms[i]]
    <3>1. ASSUME NEW i \in 1..n PROVE Len(seqs[i]) = terms[i]
      <4>1. terms[i] \in Nat /\ terms[i] = sizes[parts[i]] /\ seqs[i] = bytes[parts[i]]
        BY <1>5, <1>7, <1>10
      <4>2. Exact(c, parts[i], terms[i], seqs[i])
        BY <1>3, <4>1
      <4> QED
        BY <4>1, <4>2 DEF Exact
    <3> QED
      BY <3>1 DEF Lengths
  <2>4. Lengths(seqs, n) = terms
    BY <1>5, <2>3
  <2>5. g[n] = h[n]
    BY <1>1, <2>1, <2>2, <2>4, SumsAreUnique
  <2> QED
    BY <1>6, <1>9, <1>10, <2>1, <2>2, <2>5
<1>11. s \in Nat => /\ IsList(b) /\ Len(b) = s
                    /\ \A i \in 1..n : sizes[parts[i]] \in Nat
  BY <1>5, <1>8, <1>10
<1>12. s \notin Nat => \E i \in 1..n : sizes[parts[i]] = s
  BY <1>5, <1>8
<1>13. (\A i \in 1..n : sizes[parts[i]] \in Nat) =>
         IsList(b) /\ \E h : SumsTo(h, n, terms) /\ s = h[n] /\ Len(b) = h[n]
  BY <1>5, <1>10
<1>14. s \in Outcome
  BY <1>8
<1>15. AddUp(parts, n, sizes, s, b)
  BY <1>11, <1>12, <1>13, <1>14 DEF AddUp, terms
<1> QED
  BY <1>4, <1>15 DEF s, b, parts
-----------------------------------------------------------------------------
(* A validated definition has the width of the rule, a type that of what   *)
(* it mentions, so that a size is fixed or depends on the value.           *)
LEMMA WidthIsWidth ==
  ASSUME NEW c, Validated(c), NEW ty, TypeIn(c, ty)
  PROVE  /\ WidthOfType(ty, c.bit_width) \in BitWidth
         /\ IsFixedSize(c, ty) => /\ WidthOfType(ty, c.bit_width) \in FixedWidths
                                  /\ FixedSize(c, ty) \in Nat
<1>1. ty \in Type /\ (ty.tag = "allocated" => ty.handle \in DOMAIN c.schema)
      /\ c.bit_width \in [DOMAIN c.schema -> BitWidth]
  BY DEF TypeIn, Validated
<1>2. CASE ty.tag = "integer"
  <2>1. ty.bits \in Nat
    BY <1>1, <1>2, TagOfType, U16IsNat
  <2> QED
    BY <1>2, <2>1, FixedIsWidth DEF WidthOfType, IsFixedSize, FixedSize, Fixed, FixedWidths
<1>3. CASE ty.tag = "varint"
  BY <1>3, VariableIsWidth DEF WidthOfType, IsFixedSize
<1>4. CASE ty.tag = "allocated"
  <2>1. WidthOfType(ty, c.bit_width) = c.bit_width[ty.handle] /\ c.bit_width[ty.handle] \in BitWidth
    BY <1>1, <1>4 DEF WidthOfType
  <2>2. c.bit_width[ty.handle] # Variable => c.bit_width[ty.handle].bits \in Nat
    BY <2>1, FixedWidth
  <2> QED
    BY <2>1, <2>2 DEF IsFixedSize, FixedSize, FixedWidths
<1> QED
  BY <1>1, <1>2, <1>3, <1>4, TagOfType

LEMMA DefinitionOfPart ==
  ASSUME NEW c, NEW p, Ready(c, p), p.ty.tag = "allocated"
  PROVE  /\ DefinitionOf(c, p) \in Definition
         /\ c.bit_width[p.ty.handle] = WidthByRule(DefinitionOf(c, p), c.bit_width)
         /\ WidthOfType(p.ty, c.bit_width) = c.bit_width[p.ty.handle]
         /\ DefinitionOf(c, p).kind = "packed" =>
              Variable \notin WidthsOfTypes(DefinitionOf(c, p), c.bit_width)
         /\ \A i \in DOMAIN TypesOf(DefinitionOf(c, p)) : TypeIn(c, TypesOf(DefinitionOf(c, p))[i])
<1>1. p.ty.handle \in DOMAIN c.schema /\ Validated(c)
  BY DEF Ready, TypeIn
<1>2. c.schema \in Seq(Definition) /\ HandlesInRange(c.schema)
  BY <1>1 DEF Validated
<1>3. DefinitionOf(c, p) \in Definition
  BY <1>1, <1>2 DEF DefinitionOf
<1>4. ASSUME NEW i \in DOMAIN TypesOf(DefinitionOf(c, p))
      PROVE  TypeIn(c, TypesOf(DefinitionOf(c, p))[i])
  <2>1. TypesOf(DefinitionOf(c, p)) \in Seq(Type)
    BY <1>3, TypesOfDefinition
  <2>2. TypesOf(DefinitionOf(c, p))[i] \in Type
    BY <2>1
  <2> QED
    BY <1>1, <1>2, <2>2 DEF DefinitionOf, HandlesInRange, TypeIn
<1> QED
  BY <1>1, <1>3, <1>4 DEF Validated, DefinitionOf, WidthOfType

(* The parts that a part has. *)
LEMMA ElementsListed ==
  ASSUME NEW c, NEW p, Ready(c, p), p.ty.tag = "allocated", IsSequence(DefinitionOf(c, p))
  PROVE  /\ Listed(PartsOf(c, p), Len(p.datum)) /\ TypeIn(c, DefinitionOf(c, p).elem_ty)
         /\ \A i \in 1..Len(p.datum) :
              /\ PartsOf(c, p)[i].ty = DefinitionOf(c, p).elem_ty
              /\ PartsOf(c, p)[i].place = "element"
<1> DEFINE def == DefinitionOf(c, p)
<1>1. def \in Definition /\ def.kind \in {"vector", "stream"}
  BY DefinitionOfPart DEF IsSequence
<1>2. IsList(p.datum)
  BY <1>1 DEF Ready, WellTyped, IsSequence
<1>3. DOMAIN p.datum = 1..Len(p.datum) /\ Len(p.datum) \in Nat
  BY <1>2, ListParts
<1>4. PartsOf(c, p) = [i \in 1..Len(p.datum) |-> Part(def.elem_ty, p.datum[i], "element")]
  BY <1>1, <1>3 DEF PartsOf, Elements, IsSequence
<1>5. TypesOf(def) = <<def.elem_ty>>
  BY <1>1 DEF TypesOf, IsSequence
<1>6. TypeIn(c, def.elem_ty)
  <2>1. TypeIn(c, TypesOf(def)[1]) /\ TypesOf(def)[1] = def.elem_ty
    BY <1>5, DefinitionOfPart
  <2> QED
    BY <2>1
<1> QED
  BY <1>3, <1>4, <1>6 DEF Listed, Part

LEMMA LengthTypeOf ==
  ASSUME NEW c, NEW p, Ready(c, p), p.ty.tag = "allocated", IsSequence(DefinitionOf(c, p))
  PROVE  DefinitionOf(c, p).len_ty \in LenType
<1> DEFINE def == DefinitionOf(c, p)
<1>1. def \in Definition /\ def.kind \in {"vector", "stream"}
  BY DefinitionOfPart DEF IsSequence
<1> HIDE DEF def
<1>2. def \in Sequence
  BY <1>1 DEF Definition, Primitive, Extern, StructLike, IndexedStructLike
<1>3. def.len_ty \in LenType
  BY <1>2 DEF Sequence
<1> QED
  BY <1>3 DEF def

IsStructLike(c, def) == def.kind = "struct" \/ (def.kind = "packed" /\ ~IsBitfield(c, def))

LEMMA MembersOf ==
  ASSUME NEW def \in Definition, def.kind \in {"struct", "packed", "enum", "dict"}
  PROVE  /\ Len(def.members) \in Nat /\ DOMAIN def.members = 1..Len(def.members)
         /\ DOMAIN TypesOf(def) = 1..Len(def.members)
         /\ \A i \in 1..Len(def.members) : TypesOf(def)[i] = def.members[i].ty
<1>1. PICK M : def.members \in Seq(M)
  BY KindOfDefinition
<1>2. TypesOf(def) = [i \in DOMAIN def.members |-> def.members[i].ty]
  BY DEF TypesOf, IsSequence
<1> QED
  BY <1>1, <1>2

PlaceOfMember(p) == IF p.place = "member" THEN "member" ELSE "within"

LEMMA StructMembersListed ==
  ASSUME NEW c, NEW p, Ready(c, p), p.ty.tag = "allocated", IsStructLike(c, DefinitionOf(c, p))
  PROVE  /\ Listed(PartsOf(c, p), Len(DefinitionOf(c, p).members))
         /\ \A i \in 1..Len(DefinitionOf(c, p).members) :
              /\ PartsOf(c, p)[i].ty = TypesOf(DefinitionOf(c, p))[i]
              /\ PartsOf(c, p)[i].place = PlaceOfMember(p)
<1> DEFINE def == DefinitionOf(c, p)
           n == Len(def.members)
<1>1. def \in Definition /\ def.kind \in {"struct", "packed"} /\ ~IsSequence(def)
  BY DefinitionOfPart DEF IsStructLike, IsSequence
<1>2. IsList(p.datum) /\ Len(p.datum) = n
  BY <1>1 DEF Ready, WellTyped, IsStructLike
<1>3. DOMAIN p.datum = 1..n /\ n \in Nat
  BY <1>2, ListParts
<1>4. PartsOf(c, p) = [i \in 1..n |-> MemberPart(c, p, i, p.datum[i])]
  BY <1>1, <1>3 DEF PartsOf, StructMembers, IsStructLike
<1>5. \A i \in 1..n : TypesOf(def)[i] = def.members[i].ty
  BY <1>1, MembersOf
<1> HIDE DEF n
<1>6. \A i \in 1..n : PartsOf(c, p)[i].ty = def.members[i].ty
                      /\ PartsOf(c, p)[i].place = PlaceOfMember(p)
  BY <1>4 DEF MemberPart, Part, PlaceOfMember
<1>7. Listed(PartsOf(c, p), n)
  BY <1>3, <1>4 DEF Listed
<1> QED
  BY <1>5, <1>6, <1>7 DEF n

LEMMA VariantListed ==
  ASSUME NEW c, NEW p, Ready(c, p), p.ty.tag = "allocated", DefinitionOf(c, p).kind = "enum"
  PROVE  /\ Listed(PartsOf(c, p), 1)
         /\ p.datum.variant \in DOMAIN TypesOf(DefinitionOf(c, p))
         /\ PartsOf(c, p)[1].ty = TypesOf(DefinitionOf(c, p))[p.datum.variant]
         /\ PartsOf(c, p)[1].place = PlaceOfMember(p)
<1> DEFINE def == DefinitionOf(c, p)
           x == MemberPart(c, p, p.datum.variant, p.datum.value)
<1>1. def \in Definition /\ ~IsSequence(def)
  BY DefinitionOfPart DEF IsSequence
<1>2. p.datum.variant \in DOMAIN def.members
  BY <1>1 DEF Ready, WellTyped
<1>3. PartsOf(c, p) = <<x>>
  BY <1>1 DEF PartsOf, Variant
<1>4. x.ty = def.members[p.datum.variant].ty /\ x.place = PlaceOfMember(p)
  BY DEF MemberPart, Part, PlaceOfMember
<1> HIDE DEF x
<1> QED
  BY <1>1, <1>2, <1>3, <1>4, MembersOf DEF Listed

LEMMA DictMembersListed ==
  ASSUME NEW c, NEW p, Ready(c, p), p.ty.tag = "allocated", DefinitionOf(c, p).kind = "dict"
  PROVE  /\ Listed(PartsOf(c, p), Len(DefinitionOf(c, p).members))
         /\ \A i \in 1..Len(DefinitionOf(c, p).members) :
              \/ /\ PartsOf(c, p)[i].ty = TypesOf(DefinitionOf(c, p))[i]
                 /\ PartsOf(c, p)[i].place = PlaceOfMember(p)
              \/ PartsOf(c, p)[i].ty = Integer(0) /\ PartsOf(c, p)[i].place = "member"
<1> DEFINE def == DefinitionOf(c, p)
           n == Len(def.members)
           x(i) == IF p.datum[i] = <<>> THEN Part(Integer(0), 0, "member")
                   ELSE MemberPart(c, p, i, p.datum[i][1])
<1>1. def \in Definition /\ ~IsSequence(def)
  BY DefinitionOfPart DEF IsSequence
<1>2. IsList(p.datum) /\ Len(p.datum) = n
  BY <1>1 DEF Ready, WellTyped
<1>3. DOMAIN p.datum = 1..n /\ n \in Nat
  BY <1>2, ListParts
<1>4. PartsOf(c, p) = [i \in 1..n |-> x(i)]
  BY <1>1, <1>3 DEF PartsOf, DictMembers
<1>5. \A i \in 1..n : TypesOf(def)[i] = def.members[i].ty
  BY <1>1, MembersOf
<1> HIDE DEF n
<1>6. ASSUME NEW i \in 1..n
      PROVE  \/ x(i).ty = def.members[i].ty /\ x(i).place = PlaceOfMember(p)
             \/ x(i).ty = Integer(0) /\ x(i).place = "member"
  BY DEF MemberPart, Part, PlaceOfMember
<1> HIDE DEF x
<1>7. Listed(PartsOf(c, p), n)
  BY <1>3, <1>4 DEF Listed
<1>8. \A i \in 1..n : PartsOf(c, p)[i] = x(i)
  BY <1>4
<1> QED
  BY <1>5, <1>6, <1>7, <1>8 DEF n

LEMMA NoParts ==
  ASSUME NEW c, NEW p,
         \/ p.ty.tag # "allocated"
         \/ DefinitionOf(c, p).kind \in {"primitive", "extern"}
         \/ DefinitionOf(c, p).kind = "packed" /\ IsBitfield(c, DefinitionOf(c, p))
  PROVE  PartsOf(c, p) = <<>>
BY DEF PartsOf, IsSequence

(* The parts that a part has are again of types of the schema. *)
LEMMA PartsAreTyped ==
  ASSUME NEW c, NEW p, Ready(c, p)
  PROVE  \A q \in Range(PartsOf(c, p)) : TypeIn(c, q.ty)
<1> DEFINE def == DefinitionOf(c, p)
<1>1. TypeIn(c, Integer(0))
  BY DEF TypeIn, Integer, Type, IntegerType, U16, MaxU16
<1>2. CASE PartsOf(c, p) = <<>>
  BY <1>2 DEF Range
<1>3. CASE p.ty.tag = "allocated" /\ IsSequence(def)
  BY <1>3, ElementsListed DEF Range, Listed
<1>4. CASE p.ty.tag = "allocated" /\ def.kind \in {"packed", "struct", "enum", "dict"}
  <2>1. def \in Definition /\ \A i \in DOMAIN TypesOf(def) : TypeIn(c, TypesOf(def)[i])
    BY <1>4, DefinitionOfPart
  <2>2. DOMAIN TypesOf(def) = 1..Len(def.members)
    BY <1>4, <2>1, MembersOf
  <2>3. CASE IsStructLike(c, def)
    <3>1. Listed(PartsOf(c, p), Len(def.members))
          /\ \A i \in 1..Len(def.members) : PartsOf(c, p)[i].ty = TypesOf(def)[i]
      BY <1>4, <2>3, StructMembersListed
    <3> QED
      BY <2>1, <2>2, <3>1 DEF Range, Listed
  <2>4. CASE def.kind = "packed" /\ IsBitfield(c, def)
    BY <1>2, <2>4, NoParts
  <2>5. CASE def.kind = "enum"
    <3>1. Listed(PartsOf(c, p), 1) /\ TypeIn(c, PartsOf(c, p)[1].ty)
      BY <1>4, <2>1, <2>5, VariantListed
    <3>2. 1..1 = {1}
      OBVIOUS
    <3> QED
      BY <3>1, <3>2 DEF Range, Listed
  <2>6. CASE def.kind = "dict"
    <3>1. Listed(PartsOf(c, p), Len(def.members))
          /\ \A i \in 1..Len(def.members) : PartsOf(c, p)[i].ty = TypesOf(def)[i]
                                            \/ PartsOf(c, p)[i].ty = Integer(0)
      BY <1>4, <2>6, DictMembersListed
    <3> QED
      BY <1>1, <2>1, <2>2, <3>1 DEF Range, Listed
  <2> QED
    BY <1>4, <2>3, <2>4, <2>5, <2>6 DEF IsStructLike
<1>5. CASE p.ty.tag # "allocated" \/ def.kind \in {"primitive", "extern"}
  BY <1>2, <1>5, NoParts
<1>6. p.ty.tag = "allocated" => def \in Definition
  BY DefinitionOfPart
<1>7. p.ty.tag = "allocated" => def.kind \in {"primitive", "extern", "vector", "stream", "packed",
                                             "struct", "enum", "dict"}
  BY <1>6, KindOfDefinition
<1> HIDE DEF def
<1> QED
  BY <1>3, <1>4, <1>5, <1>7 DEF IsSequence
-----------------------------------------------------------------------------
(***************************************************************************)
(* Each kind of part is exact if its parts are.                            *)
(***************************************************************************)
LEMMA IntegerExact ==
  ASSUME NEW c, NEW p, Ready(c, p), p.ty.tag = "integer", NEW sizes, NEW bytes
  PROVE  Exact(c, p, PrepareType(c, sizes, p), EncodeType(c, sizes, bytes, p))
<1>1. p.ty.bits \in Nat
  BY TagOfType, U16IsNat DEF Ready, TypeIn
<1>2. PICK n \in Nat : n = p.ty.bits \div 8
  BY <1>1
<1>3. PrepareType(c, sizes, p) = n /\ EncodeType(c, sizes, bytes, p) = LittleEndian(p.datum, n)
  BY <1>2 DEF PrepareType, EncodeType, EncodeInteger
<1>4. FixedSize(c, p.ty) = n
  BY <1>2 DEF FixedSize, WidthOfType, Fixed
<1> QED
  BY <1>3, <1>4, LittleEndianExact, OutcomeOf DEF Exact

LEMMA VarintExact ==
  ASSUME NEW c, NEW p, Ready(c, p), p.ty.tag = "varint", NEW sizes, NEW bytes
  PROVE  Exact(c, p, PrepareType(c, sizes, p), EncodeType(c, sizes, bytes, p))
<1>1. p.datum \in Nat
  BY DEF Ready, WellTyped, Holds
<1>2. PrepareType(c, sizes, p) = VarintLen(p.datum) /\ EncodeType(c, sizes, bytes, p) = Leb128[p.datum]
  BY DEF PrepareType, EncodeType
<1>3. ~IsFixedSize(c, p.ty)
  BY DEF IsFixedSize, WidthOfType
<1> QED
  BY <1>1, <1>2, <1>3, VarintLenExact, OutcomeOf DEF Exact

LEMMA PrimitiveExact ==
  ASSUME NEW c, NEW p, Ready(c, p), p.ty.tag = "allocated", DefinitionOf(c, p).kind = "primitive",
         NEW sizes, NEW bytes
  PROVE  Exact(c, p, PrepareType(c, sizes, p), EncodeType(c, sizes, bytes, p))
<1> DEFINE def == DefinitionOf(c, p)
<1>1. def \in Definition
  BY DefinitionOfPart
<1>2. def.bits \in Nat
  BY <1>1, KindOfDefinition, U16IsNat
<1>3. PICK n \in Nat : n = def.bits \div 8
  BY <1>2
<1>4. PrepareType(c, sizes, p) = n /\ EncodeType(c, sizes, bytes, p) = LittleEndian(p.datum, n)
  BY <1>3 DEF PrepareType, EncodeType, IsSequence
<1>5. WidthOfType(p.ty, c.bit_width) = Fixed(def.bits)
  BY DefinitionOfPart DEF WidthByRule
<1>6. FixedSize(c, p.ty) = n
  BY <1>3, <1>5 DEF FixedSize, Fixed
<1> QED
  BY <1>4, <1>6, LittleEndianExact, OutcomeOf DEF Exact

(* Only primitives, packed, enums and dicts have a fixed size. *)
LEMMA NeverFixed ==
  ASSUME NEW c, NEW p, Ready(c, p), p.ty.tag = "allocated",
         DefinitionOf(c, p).kind \in {"vector", "stream", "struct"}
  PROVE  ~IsFixedSize(c, p.ty)
BY DefinitionOfPart DEF WidthByRule, IsFixedSize

LEMMA VectorExact ==
  ASSUME NEW c, NEW p, Ready(c, p), p.ty.tag = "allocated", DefinitionOf(c, p).kind = "vector",
         NEW sizes, NEW bytes, PartsExact(c, p, sizes, bytes)
  PROVE  Exact(c, p, PrepareType(c, sizes, p), EncodeType(c, sizes, bytes, p))
<1> DEFINE def == DefinitionOf(c, p)
           n == Len(p.datum)
           parts == PartsOf(c, p)
           s == PrepareParts(c, sizes, p)
           b == EncodeParts(c, bytes, p)
           elements == IF IsFixedSize(c, def.elem_ty) THEN FixedSize(c, def.elem_ty) * n ELSE s
           prefix == LenSize(def.len_ty, n)
<1>1. def \in Definition /\ IsSequence(def)
  BY DefinitionOfPart DEF IsSequence
<1>2. def.len_ty \in LenType
  BY <1>1, LengthTypeOf
<1>3. Listed(parts, n) /\ \A i \in 1..n : parts[i].ty = def.elem_ty
  BY <1>1, ElementsListed
<1>4. n \in Nat
  BY <1>3 DEF Listed
<1>5. /\ s \in Outcome
      /\ s \in Nat => IsList(b) /\ Len(b) = s
      /\ (\A i \in 1..n : sizes[parts[i]] \in Nat) =>
           IsList(b) /\ \E h : SumsTo(h, n, SizesOf(parts, n, sizes)) /\ s = h[n] /\ Len(b) = h[n]
  <2>1. AddUp(parts, n, sizes, s, b)
    BY <1>3, PartsAddUp
  <2> HIDE DEF parts, n, s, b
  <2> QED
    BY <2>1 DEF AddUp
<1>6. elements \in Outcome /\ (elements \in Nat => IsList(b) /\ Len(b) = elements)
  <2>1. CASE ~IsFixedSize(c, def.elem_ty)
    BY <1>5, <2>1
  <2>2. CASE IsFixedSize(c, def.elem_ty)
    <3>1. PICK w \in Nat : w = FixedSize(c, def.elem_ty)
      BY <1>1, <2>2, ElementsListed, WidthIsWidth DEF Ready
    <3>2. ASSUME NEW i \in 1..n PROVE sizes[parts[i]] = w
      <4>1. parts[i] \in Range(parts) /\ parts[i].ty = def.elem_ty
        BY <1>3 DEF Range, Listed
      <4>2. Exact(c, parts[i], sizes[parts[i]], bytes[parts[i]])
        BY <4>1 DEF PartsExact
      <4> QED
        BY <2>2, <3>1, <4>1, <4>2 DEF Exact
    <3>3. PICK h : SumsTo(h, n, SizesOf(parts, n, sizes)) /\ Len(b) = h[n] /\ IsList(b)
      BY <1>5, <3>2
    <3>4. \A i \in 1..n : SizesOf(parts, n, sizes)[i] = w
      BY <3>2 DEF SizesOf
    <3> HIDE DEF n, parts, b
    <3>5. h[n] = w * n
      BY <1>4, <3>3, <3>4, SumOfSame
    <3>6. w * n \in Nat
      BY <1>4
    <3> QED
      BY <2>2, <3>1, <3>3, <3>5, <3>6, OutcomeOf
  <2> QED
    BY <2>1, <2>2
<1>7. prefix \in Nat /\ IsList(LenBytes(def.len_ty, n)) /\ Len(LenBytes(def.len_ty, n)) = prefix
  BY <1>2, <1>4, LengthExact
<1>8. PrepareType(c, sizes, p) = IF ChecksLength(p) /\ TooLong(def.len_ty, n) THEN Refused
                                 ELSE Plus(prefix, elements)
  BY DEF PrepareType, PrepareVector
<1>9. EncodeType(c, sizes, bytes, p) = LenBytes(def.len_ty, n) \o b
  BY DEF EncodeType, EncodeSequence, IsSequence
<1>10. ~IsFixedSize(c, p.ty)
  BY NeverFixed
<1> HIDE DEF def, n, parts, s, b, elements, prefix
<1>11. ASSUME elements \in Nat
       PROVE  IsList(LenBytes(def.len_ty, n) \o b)
              /\ Len(LenBytes(def.len_ty, n) \o b) = prefix + elements
  BY <1>6, <1>7, <1>11, ListsConcatenate
<1>12. /\ Plus(prefix, elements) \in Outcome
       /\ Plus(prefix, elements) \in Nat => elements \in Nat /\ Plus(prefix, elements) = prefix + elements
  BY <1>6, <1>7, OutcomeOf, PlusOutcome
<1>13. Refused \in Outcome /\ Refused \notin Nat
  BY OutcomeOf, OutcomesKnown
<1>14. /\ PrepareType(c, sizes, p) \in Outcome
       /\ PrepareType(c, sizes, p) \in Nat =>
            elements \in Nat /\ PrepareType(c, sizes, p) = prefix + elements
  BY <1>8, <1>12, <1>13
<1> QED
  BY <1>9, <1>10, <1>11, <1>14 DEF Exact

LEMMA StreamExact ==
  ASSUME NEW c, NEW p, Ready(c, p), p.ty.tag = "allocated", DefinitionOf(c, p).kind = "stream",
         NEW sizes, NEW bytes, PartsExact(c, p, sizes, bytes)
  PROVE  Exact(c, p, PrepareType(c, sizes, p), EncodeType(c, sizes, bytes, p))
<1> DEFINE def == DefinitionOf(c, p)
           s == PrepareParts(c, sizes, p)
           b == EncodeParts(c, bytes, p)
           prefix == LenSize(def.len_ty, s)
           head == LenBytes(def.len_ty, s)
           result == PrepareType(c, sizes, p)
<1>1. IsSequence(def)
  BY DEF IsSequence
<1>2. def.len_ty \in LenType
  BY <1>1, LengthTypeOf
<1>3. Listed(PartsOf(c, p), Len(p.datum))
  BY <1>1, ElementsListed
<1>4. s \in Outcome /\ (s \in Nat => IsList(b) /\ Len(b) = s)
  <2>1. AddUp(PartsOf(c, p), Len(p.datum), sizes, s, b)
    BY <1>3, PartsAddUp
  <2> HIDE DEF s, b
  <2> QED
    BY <2>1 DEF AddUp
<1>5. result = IF s < 0 THEN s
               ELSE IF ChecksLength(p) /\ TooLong(def.len_ty, s) THEN Refused
               ELSE prefix + s
  BY DEF PrepareType, PrepareStream
<1>6. EncodeType(c, sizes, bytes, p) = head \o b
  BY DEF EncodeType, EncodeSequence, IsSequence
<1>7. ~IsFixedSize(c, p.ty)
  BY NeverFixed
<1> HIDE DEF def, s, b, prefix, head, result
<1>8. s \in Nat => prefix \in Nat /\ IsList(head) /\ Len(head) = prefix
  BY <1>2, LengthExact DEF prefix, head
<1>9. ASSUME s \in Nat PROVE IsList(head \o b) /\ Len(head \o b) = prefix + s
  BY <1>4, <1>8, <1>9, ListsConcatenate
<1>10. (s < 0 => s \notin Nat) /\ (~(s < 0) => s \in Nat) /\ Refused \in Outcome /\ Refused \notin Nat
  BY <1>4, OutcomeOf, OutcomesKnown
<1>11. s \in Nat => prefix + s \in Outcome
  <2>1. s \in Nat => prefix + s \in Nat
    BY <1>8
  <2> QED
    BY <2>1, OutcomeOf
<1>12. /\ result \in Outcome
       /\ result \in Nat => s \in Nat /\ result = prefix + s
  BY <1>4, <1>5, <1>10, <1>11
<1> QED
  BY <1>6, <1>7, <1>9, <1>12 DEF Exact, result

(* The members of a struct are added up. *)
LEMMA StructExact ==
  ASSUME NEW c, NEW p, Ready(c, p), p.ty.tag = "allocated", DefinitionOf(c, p).kind = "struct",
         NEW sizes, NEW bytes, PartsExact(c, p, sizes, bytes)
  PROVE  Exact(c, p, PrepareNamed(c, sizes, p), EncodeNamed(c, bytes, p))
<1>1. Listed(PartsOf(c, p), Len(DefinitionOf(c, p).members))
  BY StructMembersListed DEF IsStructLike
<1>2. PrepareNamed(c, sizes, p) = PrepareParts(c, sizes, p) /\ EncodeNamed(c, bytes, p) = EncodeParts(c, bytes, p)
  BY DEF PrepareNamed, EncodeNamed, PrepareStruct, EncodeStruct
<1>3. ~IsFixedSize(c, p.ty)
  BY NeverFixed
<1>4. AddUp(PartsOf(c, p), Len(DefinitionOf(c, p).members), sizes, PrepareParts(c, sizes, p),
            EncodeParts(c, bytes, p))
  BY <1>1, PartsAddUp
<1> QED
  BY <1>2, <1>3, <1>4 DEF Exact, AddUp

(***************************************************************************)
(* A packed has the bytes of its width, whatever it is made of: without a  *)
(* bit-field all of its members are whole bytes.                           *)
(***************************************************************************)
LEMMA PackedExact ==
  ASSUME NEW c, NEW p, Ready(c, p), p.ty.tag = "allocated", DefinitionOf(c, p).kind = "packed",
         NEW sizes, NEW bytes, PartsExact(c, p, sizes, bytes)
  PROVE  Exact(c, p, PrepareNamed(c, sizes, p), EncodeNamed(c, bytes, p))
<1> DEFINE def == DefinitionOf(c, p)
           n == Len(def.members)
           width == [i \in 1..n |-> WidthOfType(TypesOf(def)[i], c.bit_width)]
           s == PreparePacked(c, p)
<1>1. def \in Definition /\ Validated(c)
  BY DefinitionOfPart DEF Ready
<1>2. /\ n \in Nat /\ DOMAIN TypesOf(def) = 1..n /\ DOMAIN def.members = 1..n
      /\ \A i \in 1..n : TypesOf(def)[i] = def.members[i].ty
  BY <1>1, MembersOf
<1> HIDE DEF n
<1>3. ASSUME NEW i \in 1..n
      PROVE  TypeIn(c, TypesOf(def)[i]) /\ width[i] \in FixedWidths /\ IsFixedSize(c, TypesOf(def)[i])
  <2>1. TypeIn(c, TypesOf(def)[i])
    BY <1>2, DefinitionOfPart
  <2>2. WidthOfType(TypesOf(def)[i], c.bit_width) # Variable
    BY <1>2, DefinitionOfPart DEF WidthsOfTypes
  <2>3. IsFixedSize(c, TypesOf(def)[i])
    BY <2>2 DEF IsFixedSize
  <2> QED
    BY <1>1, <2>1, <2>3, WidthIsWidth
<1>4. width \in [1..n -> FixedWidths]
  BY <1>3
<1>5. WidthOfType(p.ty, c.bit_width) = Fixed(TotalBits(width))
      /\ c.bit_width[p.ty.handle] = Fixed(TotalBits(width))
  <2>1. width = [i \in DOMAIN TypesOf(def) |-> WidthOfType(TypesOf(def)[i], c.bit_width)]
    BY <1>2
  <2> HIDE DEF width
  <2>2. WidthByRule(def, c.bit_width) = Fixed(TotalBits(width))
    BY <2>1 DEF WidthByRule
  <2> QED
    BY <2>2, DefinitionOfPart
<1>6. s = TotalBits(width) \div 8 /\ FixedSize(c, p.ty) = s /\ TotalBits(width) \in Nat
  <2>1. PICK f : Sums(f, n, width) /\ TotalBits(width) = f[n]
    BY <1>2, <1>4, TotalIsSum
  <2>2. f[n] \in Nat
    BY <1>2, <2>1 DEF Sums
  <2> HIDE DEF width
  <2> QED
    BY <1>5, <2>1, <2>2 DEF PreparePacked, FixedSize, Fixed
<1>7. s \in Nat
  <2> HIDE DEF width, s
  <2> QED
    BY <1>6
<1>8. PrepareNamed(c, sizes, p) = s /\ EncodeNamed(c, bytes, p) = EncodePacked(c, bytes, p)
  BY DEF PrepareNamed, EncodeNamed
<1>9. CASE IsBitfield(c, def)
  <2>1. EncodeNamed(c, bytes, p) = LittleEndian(p.datum, s)
    BY <1>8, <1>9 DEF EncodePacked
  <2> HIDE DEF s
  <2> QED
    BY <1>6, <1>7, <1>8, <2>1, LittleEndianExact, OutcomeOf DEF Exact
<1>10. CASE ~IsBitfield(c, def)
  <2> DEFINE parts == PartsOf(c, p)
             b == EncodeParts(c, bytes, p)
             a == SizesOf(parts, n, sizes)
  <2>1. EncodeNamed(c, bytes, p) = b
    BY <1>8, <1>10 DEF EncodePacked
  <2>2. Listed(parts, n) /\ \A i \in 1..n : parts[i].ty = TypesOf(def)[i]
    BY <1>10, StructMembersListed DEF IsStructLike, n
  <2>3. ASSUME NEW i \in 1..n
        PROVE  sizes[parts[i]] \in Nat /\ sizes[parts[i]] = width[i].bits \div 8
    <3>1. parts[i] \in Range(parts) /\ parts[i].ty = TypesOf(def)[i]
      BY <2>2 DEF Range, Listed
    <3>2. Exact(c, parts[i], sizes[parts[i]], bytes[parts[i]])
      BY <3>1 DEF PartsExact
    <3> QED
      BY <1>3, <3>1, <3>2 DEF Exact, FixedSize
  <2>4. ASSUME NEW i \in 1..n PROVE width[i].bits % 8 = 0
    <3>1. ~Misaligned(width[i])
      BY <1>2, <1>10 DEF IsBitfield
    <3>2. width[i] = Fixed(width[i].bits)
      BY <1>3, FixedWidth DEF FixedWidths
    <3> QED
      BY <3>1, <3>2 DEF Misaligned, Fixed
  <2>5. IsList(b) /\ \E h : SumsTo(h, n, a) /\ Len(b) = h[n]
    <3>1. AddUp(parts, n, sizes, PrepareParts(c, sizes, p), b)
      BY <2>2, PartsAddUp
    <3> HIDE DEF parts, b
    <3> QED
      BY <2>3, <3>1 DEF AddUp
  <2>6. \A i \in 1..n : a[i] = width[i].bits \div 8
    BY <2>3 DEF SizesOf
  <2>7. PICK h : SumsTo(h, n, a) /\ Len(b) = h[n]
    BY <2>5
  <2> HIDE DEF width, a, b, s, parts
  <2>8. h[n] = TotalBits(width) \div 8
    BY <1>2, <1>4, <2>4, <2>6, <2>7, SumOfBytes
  <2> QED
    BY <1>6, <1>7, <1>8, <2>1, <2>5, <2>7, <2>8, OutcomeOf DEF Exact
<1> QED
  BY <1>9, <1>10

LEMMA IndexTypeOf ==
  ASSUME NEW def \in Definition, def.kind \in {"enum", "dict"}
  PROVE  def.index_ty \in Nat
BY KindOfDefinition

(* All variants of an enum of a fixed size have that of the one in it. *)
LEMMA EnumExact ==
  ASSUME NEW c, NEW p, Ready(c, p), p.ty.tag = "allocated", DefinitionOf(c, p).kind = "enum",
         NEW sizes, NEW bytes, PartsExact(c, p, sizes, bytes)
  PROVE  Exact(c, p, PrepareNamed(c, sizes, p), EncodeNamed(c, bytes, p))
<1> DEFINE def == DefinitionOf(c, p)
           parts == PartsOf(c, p)
           s == PrepareParts(c, sizes, p)
           b == EncodeParts(c, bytes, p)
           variant == p.datum.variant
           width == WidthOfType(TypesOf(def)[variant], c.bit_width)
           tag == LittleEndian(def.members[variant].index, def.index_ty)
<1>1. def \in Definition /\ Validated(c)
  BY DefinitionOfPart DEF Ready
<1>2. PICK k \in Nat : k = def.index_ty
  BY <1>1, IndexTypeOf
<1>3. Listed(parts, 1) /\ variant \in DOMAIN TypesOf(def) /\ parts[1].ty = TypesOf(def)[variant]
  BY VariantListed
<1>4. AddUp(parts, 1, sizes, s, b)
  BY <1>3, PartsAddUp
<1>5. PrepareNamed(c, sizes, p) = Plus(k, s) /\ EncodeNamed(c, bytes, p) = tag \o b
  BY <1>2 DEF PrepareNamed, EncodeNamed, PrepareEnum, EncodeEnum
<1>6. IsList(tag) /\ Len(tag) = k
  BY <1>2, LittleEndianExact
<1>7. TypeIn(c, TypesOf(def)[variant])
  BY <1>3, DefinitionOfPart
<1>8. ASSUME IsFixedSize(c, p.ty)
      PROVE  /\ IsFixedSize(c, TypesOf(def)[variant])
             /\ WidthOfType(p.ty, c.bit_width) = Fixed(8 * k + width.bits)
  <2> DEFINE widths == WidthsOfTypes(def, c.bit_width)
             x == CHOOSE y \in widths : TRUE
  <2>1. width \in widths
    BY <1>3 DEF WidthsOfTypes
  <2>2. WidthByRule(def, c.bit_width) # Variable
    BY <1>8, DefinitionOfPart DEF IsFixedSize
  <2> HIDE DEF width
  <2>3. (\E w \in widths \ {Variable} : widths = {w})
        /\ WidthByRule(def, c.bit_width) = Fixed(8 * def.index_ty + x.bits)
    BY <2>1, <2>2 DEF WidthByRule
  <2> HIDE DEF widths
  <2>4. width # Variable /\ x = width
    BY <2>1, <2>3
  <2> HIDE DEF x
  <2> QED
    BY <1>2, <2>3, <2>4, DefinitionOfPart DEF IsFixedSize, width
<1>9. ASSUME IsFixedSize(c, p.ty) PROVE s \in Nat /\ FixedSize(c, p.ty) = k + s
  <2>1. parts[1] \in Range(parts)
    BY <1>3 DEF Range, Listed
  <2>2. Exact(c, parts[1], sizes[parts[1]], bytes[parts[1]])
    BY <2>1 DEF PartsExact
  <2>3. PICK y \in Nat : y = width.bits
    BY <1>1, <1>7, <1>8, <1>9, WidthIsWidth, FixedWidth DEF FixedWidths
  <2>4. sizes[parts[1]] = y \div 8 /\ y \div 8 \in Nat
    BY <1>3, <1>8, <1>9, <2>2, <2>3 DEF Exact, FixedSize
  <2>5. \A i \in 1..1 : sizes[parts[i]] = y \div 8
    BY <2>4
  <2> DEFINE a == SizesOf(parts, 1, sizes)
  <2>6. PICK h : SumsTo(h, 1, a) /\ s = h[1]
    <3> HIDE DEF s, b, parts
    <3> QED
      BY <1>4, <2>4, <2>5 DEF AddUp
  <2>7. \A i \in 1..1 : a[i] = y \div 8
    BY <2>5 DEF SizesOf
  <2> HIDE DEF a, parts, s
  <2>8. h[1] = (y \div 8) * 1
    BY <2>4, <2>6, <2>7, SumOfSame
  <2>9. FixedSize(c, p.ty) = (8 * k + y) \div 8
    BY <1>8, <1>9, <2>3 DEF FixedSize, Fixed
  <2>10. (8 * k + y) \div 8 = k + (y \div 8) /\ (y \div 8) * 1 = y \div 8
    OBVIOUS
  <2> QED
    BY <2>4, <2>6, <2>8, <2>9, <2>10
<1> HIDE DEF def, parts, s, b, tag
<1>10. s \in Outcome /\ (s \in Nat => IsList(b) /\ Len(b) = s)
  BY <1>4 DEF AddUp
<1>11. ASSUME s \in Nat PROVE IsList(tag \o b) /\ Len(tag \o b) = k + s
  BY <1>6, <1>10, <1>11, ListsConcatenate
<1>12. /\ Plus(k, s) \in Outcome
       /\ Plus(k, s) \in Nat <=> s \in Nat
       /\ s \in Nat => Plus(k, s) = k + s
  BY <1>2, <1>10, OutcomeOf, PlusOutcome
<1> QED
  BY <1>5, <1>9, <1>11, <1>12 DEF Exact

(* A dict of a fixed size has only members without bytes. *)
LEMMA DictExact ==
  ASSUME NEW c, NEW p, Ready(c, p), p.ty.tag = "allocated", DefinitionOf(c, p).kind = "dict",
         NEW sizes, NEW bytes, PartsExact(c, p, sizes, bytes)
  PROVE  Exact(c, p, PrepareNamed(c, sizes, p), EncodeNamed(c, bytes, p))
<1> DEFINE def == DefinitionOf(c, p)
           parts == PartsOf(c, p)
           n == Len(def.members)
           s == PrepareParts(c, sizes, p)
           b == EncodeParts(c, bytes, p)
           bitmap == Bitmap(def, p.datum)
<1>1. def \in Definition /\ Validated(c)
  BY DefinitionOfPart DEF Ready
<1>2. PICK k \in Nat : k = def.index_ty
  BY <1>1, IndexTypeOf
<1>3. Listed(parts, n) /\ \A i \in 1..n : parts[i].ty = TypesOf(def)[i] \/ parts[i].ty = Integer(0)
  BY DictMembersListed
<1>4. AddUp(parts, n, sizes, s, b)
  BY <1>3, PartsAddUp
<1>5. PrepareNamed(c, sizes, p) = Plus(k, s) /\ EncodeNamed(c, bytes, p) = bitmap \o b
  BY <1>2 DEF PrepareNamed, EncodeNamed, PrepareDict, EncodeDict
<1>6. IsList(bitmap) /\ Len(bitmap) = k
  BY <1>2, BitmapExact
<1>7. n \in Nat /\ DOMAIN TypesOf(def) = 1..n
  BY <1>1, MembersOf
<1>8. ASSUME IsFixedSize(c, p.ty)
      PROVE  /\ WidthsOfTypes(def, c.bit_width) \subseteq {Fixed(0)}
             /\ WidthOfType(p.ty, c.bit_width) = Fixed(8 * k)
  <2>1. WidthByRule(def, c.bit_width) # Variable
    BY <1>8, DefinitionOfPart DEF IsFixedSize
  <2>2. WidthsOfTypes(def, c.bit_width) \subseteq {Fixed(0)}
        /\ WidthByRule(def, c.bit_width) = Fixed(8 * def.index_ty)
    BY <2>1 DEF WidthByRule
  <2> QED
    BY <1>2, <2>2, DefinitionOfPart
<1>9. ASSUME IsFixedSize(c, p.ty) PROVE s \in Nat /\ FixedSize(c, p.ty) = k + s
  <2>1. ASSUME NEW i \in 1..n PROVE sizes[parts[i]] = 0
    <3>1. parts[i] \in Range(parts)
      BY <1>3 DEF Range, Listed
    <3>2. Exact(c, parts[i], sizes[parts[i]], bytes[parts[i]])
      BY <3>1 DEF PartsExact
    <3>3. WidthOfType(parts[i].ty, c.bit_width) = Fixed(0)
      <4>1. CASE parts[i].ty = TypesOf(def)[i]
        BY <1>7, <1>8, <1>9, <4>1 DEF WidthsOfTypes
      <4>2. CASE parts[i].ty = Integer(0)
        BY <4>2 DEF WidthOfType, Integer
      <4> QED
        BY <1>3, <4>1, <4>2
    <3>4. Fixed(0) # Variable /\ Fixed(0).bits \div 8 = 0
      BY DEF Fixed, Variable
    <3> QED
      BY <3>2, <3>3, <3>4 DEF Exact, IsFixedSize, FixedSize
  <2> DEFINE a == SizesOf(parts, n, sizes)
  <2>2. PICK h : SumsTo(h, n, a) /\ s = h[n]
    <3> HIDE DEF s, b, parts, n
    <3> QED
      BY <1>4, <2>1 DEF AddUp
  <2>3. \A i \in 1..n : a[i] = 0
    BY <2>1 DEF SizesOf
  <2> HIDE DEF a, parts, s, n
  <2>4. h[n] = 0 * n
    BY <1>7, <2>2, <2>3, SumOfSame
  <2>5. FixedSize(c, p.ty) = (8 * k) \div 8
    BY <1>8, <1>9 DEF FixedSize, Fixed
  <2>6. (8 * k) \div 8 = k /\ 0 * n = 0
    BY <1>7
  <2> QED
    BY <2>2, <2>4, <2>5, <2>6
<1> HIDE DEF def, parts, s, b, bitmap, n
<1>10. s \in Outcome /\ (s \in Nat => IsList(b) /\ Len(b) = s)
  BY <1>4 DEF AddUp
<1>11. ASSUME s \in Nat PROVE IsList(bitmap \o b) /\ Len(bitmap \o b) = k + s
  BY <1>6, <1>10, <1>11, ListsConcatenate
<1>12. /\ Plus(k, s) \in Outcome
       /\ Plus(k, s) \in Nat <=> s \in Nat
       /\ s \in Nat => Plus(k, s) = k + s
  BY <1>2, <1>10, OutcomeOf, PlusOutcome
<1> QED
  BY <1>5, <1>9, <1>11, <1>12 DEF Exact

(* A part is exact if its parts are, whatever it is. *)
LEMMA PartExact ==
  ASSUME NEW c, NEW p, Ready(c, p), NEW sizes, NEW bytes, PartsExact(c, p, sizes, bytes)
  PROVE  Exact(c, p, PrepareType(c, sizes, p), EncodeType(c, sizes, bytes, p))
<1> DEFINE def == DefinitionOf(c, p)
           s == PrepareNamed(c, sizes, p)
           b == EncodeNamed(c, bytes, p)
<1>1. p.ty.tag \in {"integer", "varint", "allocated"}
  BY TagOfType DEF Ready, TypeIn
<1>2. CASE p.ty.tag = "integer"
  BY <1>2, IntegerExact
<1>3. CASE p.ty.tag = "varint"
  BY <1>3, VarintExact
<1>4. CASE p.ty.tag = "allocated" /\ def.kind = "primitive"
  BY <1>4, PrimitiveExact
<1>5. CASE p.ty.tag = "allocated" /\ def.kind = "vector"
  BY <1>5, VectorExact
<1>6. CASE p.ty.tag = "allocated" /\ def.kind = "stream"
  BY <1>6, StreamExact
<1>7. CASE p.ty.tag = "allocated" /\ def.kind \in {"packed", "struct", "enum", "dict"}
  <2>1. Exact(c, p, s, b)
    BY <1>7, PackedExact, StructExact, EnumExact, DictExact
  <2>2. /\ PrepareType(c, sizes, p) = IF s = Refused /\ ~ChecksLength(p) THEN Undefined ELSE s
        /\ EncodeType(c, sizes, bytes, p) = b
    BY <1>7 DEF PrepareType, EncodeType, PrepareAllocated, IsSequence
  <2> HIDE DEF s, b
  <2>3. Refused \notin Nat /\ Undefined \notin Nat /\ Undefined \in Outcome
    BY OutcomeOf, OutcomesKnown
  <2> QED
    BY <2>1, <2>2, <2>3 DEF Exact
<1>8. ASSUME p.ty.tag = "allocated" PROVE def.kind # "extern" /\ def \in Definition
  <2>1. def \in Definition
    BY <1>8, DefinitionOfPart
  <2>2. WellTyped(c, p)
    BY DEF Ready
  <2> QED
    BY <1>8, <2>1, <2>2 DEF WellTyped, IsSequence
<1>9. p.ty.tag = "allocated" => def.kind \in {"primitive", "vector", "stream", "packed", "struct",
                                             "enum", "dict"}
  BY <1>8, KindOfDefinition
<1> QED
  BY <1>1, <1>2, <1>3, <1>4, <1>5, <1>6, <1>7, <1>9
-----------------------------------------------------------------------------
(***************************************************************************)
(* From the parts that have none, level by level to the whole.             *)
(***************************************************************************)
LEMMA PartsBelow ==
  ASSUME NEW c, NEW part, NEW n \in 0..MaxDepth, NEW p \in Levels(c, part)[n]
  PROVE  Range(PartsOf(c, p)) \subseteq Levels(c, part)[n + 1]
<1>1. n + 1 \in 1..(MaxDepth + 1) /\ (n + 1) - 1 = n
  BY MaxDepthAssumption
<1>2. Levels(c, part)[n + 1] = NextLevel(c, Levels(c, part)[n])
  BY <1>1, LevelsDefined
<1> QED
  BY <1>2 DEF NextLevel

LEMMA LevelsReady ==
  ASSUME NEW c, NEW part, Encodable(c, part), TypeIn(c, part.ty)
  PROVE  \A n \in 0..MaxDepth : \A p \in Levels(c, part)[n] : Ready(c, p)
<1> DEFINE L == Levels(c, part)
           Good(n) == \A p \in L[n] : TypeIn(c, p.ty)
           K == {n \in Nat : n <= MaxDepth => Good(n)}
<1>1. Validated(c) /\ \A n \in 0..MaxDepth : \A p \in L[n] : WellTyped(c, p)
  BY DEF Encodable
<1>2. L[0] = {part} /\ \A n \in 1..(MaxDepth + 1) : L[n] = NextLevel(c, L[n - 1])
  BY LevelsDefined
<1>3. MaxDepth \in Nat
  BY MaxDepthAssumption
<1> HIDE DEF L
<1>4. 0 \in K
  BY <1>2
<1>5. ASSUME NEW n \in Nat, n \in K PROVE n + 1 \in K
  <2>1. SUFFICES ASSUME n + 1 <= MaxDepth PROVE Good(n + 1)
    OBVIOUS
  <2>2. n \in 0..MaxDepth /\ n + 1 \in 1..(MaxDepth + 1) /\ (n + 1) - 1 = n /\ Good(n)
    BY <1>3, <1>5, <2>1
  <2>3. L[n + 1] = NextLevel(c, L[n])
    BY <1>2, <2>2
  <2>4. ASSUME NEW q \in L[n + 1] PROVE TypeIn(c, q.ty)
    <3>1. PICK p \in L[n] : q \in Range(PartsOf(c, p))
      BY <2>3 DEF NextLevel
    <3>2. Ready(c, p)
      BY <1>1, <2>2 DEF Ready
    <3> QED
      BY <3>1, <3>2, PartsAreTyped
  <2> QED
    BY <2>4
<1>6. Nat \subseteq K
  <2> HIDE DEF K
  <2> QED
    BY <1>4, <1>5, SetInduction
<1>7. \A n \in 0..MaxDepth : Good(n)
  BY <1>3, <1>6
<1> QED
  BY <1>1, <1>7 DEF Ready, L

ExactAt(c, part, n) ==
  \A p \in Levels(c, part)[MaxDepth - n] : Exact(c, p, Sizes(c, part)[n][p], Bytes(c, part)[n][p])

LEMMA BelowExact ==
  ASSUME NEW c, NEW part, Encodable(c, part), NEW n \in 0..MaxDepth,
         n # 0 => ExactAt(c, part, n - 1), NEW p \in Levels(c, part)[MaxDepth - n]
  PROVE  PartsExact(c, p, Below(Sizes(c, part), n), Below(Bytes(c, part), n))
<1> DEFINE L == Levels(c, part)
<1>1. MaxDepth - n \in 0..MaxDepth
  BY MaxDepthAssumption
<1>2. Range(PartsOf(c, p)) \subseteq L[(MaxDepth - n) + 1]
  BY <1>1, PartsBelow
<1>3. CASE n = 0
  <2>1. (MaxDepth - n) + 1 = MaxDepth + 1 /\ L[MaxDepth + 1] = {}
    BY <1>3, MaxDepthAssumption DEF Encodable
  <2>2. Range(PartsOf(c, p)) = {}
    BY <1>2, <2>1
  <2> QED
    BY <2>2 DEF PartsExact
<1>4. CASE n # 0
  <2>1. (MaxDepth - n) + 1 = MaxDepth - (n - 1)
    BY MaxDepthAssumption
  <2>2. ExactAt(c, part, n - 1) /\ Range(PartsOf(c, p)) \subseteq L[MaxDepth - (n - 1)]
    BY <1>2, <1>4, <2>1
  <2> QED
    BY <1>4, <2>2 DEF PartsExact, ExactAt, Below
<1> QED
  BY <1>3, <1>4

LEMMA LevelsExact ==
  ASSUME NEW c, NEW part, Encodable(c, part), TypeIn(c, part.ty)
  PROVE  \A n \in 0..MaxDepth : ExactAt(c, part, n)
<1> DEFINE K == {n \in Nat : n <= MaxDepth => ExactAt(c, part, n)}
<1>1. ASSUME NEW n \in 0..MaxDepth, n # 0 => ExactAt(c, part, n - 1)
      PROVE  ExactAt(c, part, n)
  <2>1. SUFFICES ASSUME NEW p \in Levels(c, part)[MaxDepth - n]
                 PROVE  Exact(c, p, Sizes(c, part)[n][p], Bytes(c, part)[n][p])
    BY DEF ExactAt
  <2> DEFINE sizes == Below(Sizes(c, part), n)
             bytes == Below(Bytes(c, part), n)
  <2>2. PartsExact(c, p, sizes, bytes)
    BY <1>1, BelowExact
  <2>3. Ready(c, p)
    <3>1. MaxDepth - n \in 0..MaxDepth
      BY MaxDepthAssumption
    <3> QED
      BY <3>1, LevelsReady
  <2> DEFINE S == Sizes(c, part)
             B == Bytes(c, part)
             level == Levels(c, part)[MaxDepth - n]
  <2>4. S[n][p] = PrepareType(c, sizes, p)
    <3>1. S[n] = [q \in level |-> PrepareType(c, Below(S, n), q)]
      BY SizesDefined
    <3>2. p \in level
      BY <2>1
    <3> HIDE DEF S, level
    <3>3. S[n][p] = PrepareType(c, Below(S, n), p)
      BY <3>1, <3>2
    <3> QED
      BY <3>3 DEF S
  <2>5. B[n][p] = EncodeType(c, sizes, bytes, p)
    <3>1. B[n] = [q \in level |-> EncodeType(c, Below(S, n), Below(B, n), q)]
      BY BytesDefined
    <3>2. p \in level
      BY <2>1
    <3> HIDE DEF S, B, level
    <3>3. B[n][p] = EncodeType(c, Below(S, n), Below(B, n), p)
      BY <3>1, <3>2
    <3> QED
      BY <3>3 DEF S, B
  <2> HIDE DEF sizes, bytes
  <2> QED
    BY <2>2, <2>3, <2>4, <2>5, PartExact
<1>2. 0 \in K
  BY <1>1, MaxDepthAssumption
<1>3. ASSUME NEW n \in Nat, n \in K PROVE n + 1 \in K
  <2>1. SUFFICES ASSUME n + 1 <= MaxDepth PROVE ExactAt(c, part, n + 1)
    OBVIOUS
  <2>2. n + 1 \in 0..MaxDepth /\ (n + 1) - 1 = n /\ ExactAt(c, part, n)
    BY <1>3, <2>1, MaxDepthAssumption
  <2> QED
    BY <1>1, <2>2
<1>4. Nat \subseteq K
  <2> HIDE DEF K
  <2> QED
    BY <1>2, <1>3, SetInduction
<1> QED
  BY <1>4, MaxDepthAssumption

(* The whole of an encodable value. *)
LEMMA WholeTyped ==
  ASSUME NEW c, NEW h, NEW v, Encodable(c, Whole(h, v))
  PROVE  TypeIn(c, Whole(h, v).ty)
<1> DEFINE part == Whole(h, v)
<1>1. part.ty = Allocated(h)
  BY DEF Whole, Part
<1>2. part \in Levels(c, part)[0] /\ 0 \in 0..MaxDepth
  BY LevelsDefined, MaxDepthAssumption
<1>3. WellTyped(c, part) /\ Validated(c)
  BY <1>2 DEF Encodable
<1>4. h \in DOMAIN c.schema
  BY <1>1, <1>3 DEF WellTyped, Allocated
<1>5. h \in Nat \ {0}
  <2>1. c.schema \in Seq(Definition)
    BY <1>3 DEF Validated
  <2> QED
    BY <1>4, <2>1
<1> HIDE DEF part
<1>6. TypeIn(c, part.ty)
  BY <1>1, <1>4, <1>5 DEF TypeIn, Allocated, Type, AllocatedType, Handle
<1> QED
  BY <1>6 DEF part

LEMMA WholeExact ==
  ASSUME NEW c, NEW h, NEW v, Encodable(c, Whole(h, v)), Prepared(c, Whole(h, v)) \in Nat
  PROVE  Len(Encoded(c, Whole(h, v))) = Prepared(c, Whole(h, v))
<1> DEFINE part == Whole(h, v)
<1>1. ExactAt(c, part, MaxDepth)
  BY WholeTyped, LevelsExact, MaxDepthAssumption
<1>2. part \in Levels(c, part)[MaxDepth - MaxDepth]
  BY LevelsDefined, MaxDepthAssumption
<1>3. Exact(c, part, Prepared(c, part), Encoded(c, part))
  BY <1>1, <1>2 DEF ExactAt, Prepared, Encoded
<1> QED
  BY <1>3 DEF Exact
-----------------------------------------------------------------------------
(***************************************************************************)
(* The sender has a value that is one of its type, of a validated schema,  *)
(* and what prepare() and encode() have returned is about that value.      *)
(***************************************************************************)
Sending ==
  /\ Encodable(ctx, Whole(root, value))
  /\ sending \in {"preparing", "encoding", "sent", "ContainerLengthOverflow", "undefined"}
  /\ sending \in {"encoding", "sent"} => size \in Nat /\ size = Prepared(ctx, Whole(root, value))
  /\ sending = "ContainerLengthOverflow" => Prepared(ctx, Whole(root, value)) = Refused
  /\ sending = "undefined" => Prepared(ctx, Whole(root, value)) = Undefined
  /\ sending = "sent" => buf = Encoded(ctx, Whole(root, value))

LEMMA SendingStart == InitMessage => Sending
<1> SUFFICES ASSUME InitMessage PROVE Sending
  OBVIOUS
<1>1. PICK m \in Messages : ctx = Context(m.schema) /\ root = m.root /\ value = m.value
  BY DEF InitMessage
<1>2. Encodable(ctx, Whole(root, value))
  BY <1>1, MessagesAssumption
<1> QED
  BY <1>2 DEF InitMessage, Sending

LEMMA SendingStep == Sending /\ [Send]_sender => Sending'
<1> SUFFICES ASSUME Sending, [Send]_sender PROVE Sending'
  OBVIOUS
<1> DEFINE whole == Whole(root, value)
<1>1. CASE Prepare
  <2>1. UNCHANGED <<ctx, root, value, buf>>
    BY <1>1 DEF Prepare
  <2>2. Encodable(ctx, whole)' /\ (Prepared(ctx, whole)' = Prepared(ctx, whole))
    BY <2>1 DEF Sending
  <2>3. \/ Prepared(ctx, whole) = Refused /\ sending' = "ContainerLengthOverflow"
        \/ Prepared(ctx, whole) = Undefined /\ sending' = "undefined"
        \/ Prepared(ctx, whole) \in Nat /\ sending' = "encoding" /\ size' = Prepared(ctx, whole)
    BY <1>1 DEF Prepare
  <2> QED
    BY <2>2, <2>3 DEF Sending
<1>2. CASE Encode
  <2>1. UNCHANGED <<ctx, root, value, size>> /\ sending = "encoding" /\ sending' = "sent"
        /\ buf' = Encoded(ctx, whole)
    BY <1>2 DEF Encode
  <2> QED
    BY <2>1 DEF Sending
<1>3. CASE UNCHANGED sender
  BY <1>3 DEF sender, Sending
<1> QED
  BY <1>1, <1>2, <1>3 DEF Send

-----------------------------------------------------------------------------
(***************************************************************************)
(* What the answer of prepare() says of the lengths in a value.            *)
(***************************************************************************)
LengthOf(c, bytes, p) ==
  IF DefinitionOf(c, p).kind = "vector" THEN Len(p.datum) ELSE Len(EncodeParts(c, bytes, p))

IsOne(c, p) == p.ty.tag = "allocated" /\ IsSequence(DefinitionOf(c, p))

Exceeds(len_ty, n) == 2 * n >= 2 ^ LenBits(len_ty)

IsOver(c, bytes, p) == IsOne(c, p) /\ Exceeds(DefinitionOf(c, p).len_ty, LengthOf(c, bytes, p))

(* max_size is half of the range of the length type. *)
LEMMA TooLongExceeds ==
  ASSUME NEW len_ty \in LenType, NEW n \in Nat
  PROVE  TooLong(len_ty, n) <=> Exceeds(len_ty, n)
<1>1. len_ty \in Nat /\ len_ty >= 1 /\ (len_ty > 8 => len_ty >= 10)
  BY DEF LenType, VarintSize
<1> DEFINE bits == LenBits(len_ty)
<1>2. bits \in Nat /\ bits >= 8
  BY <1>1 DEF LenBits, IsVarint
<1> HIDE DEF bits
<1>3. bits - 1 \in Nat /\ (bits - 1) + 1 = bits
  BY <1>2
<1> DEFINE half == 2 ^ (bits - 1)
           all == 2 ^ bits
<1>4. half \in Nat /\ 2 ^ ((bits - 1) + 1) = 2 * half
  BY <1>3, PowerOfTwo
<1>5. all = 2 * half
  BY <1>3, <1>4
<1>6. TooLong(len_ty, n) <=> n > half - 1
  BY DEF TooLong, bits
<1>7. Exceeds(len_ty, n) <=> 2 * n >= all
  BY DEF Exceeds, bits
<1> HIDE DEF half, all
<1> QED
  BY <1>4, <1>5, <1>6, <1>7

(* over has the places of the lengths that are over their limits.  A part  *)
(* that is refused is no element, and one of them is at or in it; none of  *)
(* the undefined behaviour is without one in an element.                   *)
Justified(over, p, s) ==
  /\ s = Refused => p.place # "element" /\ PlaceOfMember(p) \in over
  /\ s = Undefined => "within" \in over

PartsJustified(c, over, p, sizes) ==
  \A q \in Range(PartsOf(c, p)) : Justified(over, q, sizes[q])

Placed(p) == p.place \in {"member", "element", "within"}

(* The first of the parts that fails is what the sum fails with. *)
LEMMA SumJustified ==
  ASSUME NEW c, NEW over, NEW p, NEW sizes, NEW bytes, NEW n, Listed(PartsOf(c, p), n),
         PartsExact(c, p, sizes, bytes), PartsJustified(c, over, p, sizes)
  PROVE  LET s == PrepareParts(c, sizes, p)
         IN  /\ s \in Outcome
             /\ s = Undefined => "within" \in over
             /\ s = Refused => \E i \in 1..n : /\ sizes[PartsOf(c, p)[i]] = Refused
                                               /\ PartsOf(c, p)[i].place # "element"
                                               /\ PlaceOfMember(PartsOf(c, p)[i]) \in over
<1> DEFINE parts == PartsOf(c, p)
           s == PrepareParts(c, sizes, p)
<1>1. AddUp(parts, n, sizes, s, EncodeParts(c, bytes, p))
  BY PartsAddUp
<1>2. \A i \in 1..n : Justified(over, parts[i], sizes[parts[i]])
  BY DEF PartsJustified, Range, Listed
<1> HIDE DEF parts, s
<1>3. s \in Outcome /\ (s \notin Nat => \E i \in 1..n : sizes[parts[i]] = s)
  BY <1>1 DEF AddUp
<1>4. Refused \notin Nat /\ Undefined \notin Nat
  BY OutcomeOf, OutcomesKnown
<1>5. /\ s = Undefined => "within" \in over
      /\ s = Refused => \E i \in 1..n : /\ sizes[parts[i]] = Refused
                                        /\ parts[i].place # "element"
                                        /\ PlaceOfMember(parts[i]) \in over
  BY <1>2, <1>3, <1>4 DEF Justified
<1> QED
  BY <1>3, <1>5 DEF parts, s

(* An element is not refused: what fails within one is not handed on.      *)
LEMMA SequenceJustified ==
  ASSUME NEW c, NEW over, NEW p, Ready(c, p), Placed(p), NEW sizes, NEW bytes,
         p.ty.tag = "allocated", IsSequence(DefinitionOf(c, p)),
         PartsExact(c, p, sizes, bytes), PartsJustified(c, over, p, sizes),
         IsOver(c, bytes, p) => p.place \in over
  PROVE  Justified(over, p, PrepareType(c, sizes, p))
<1> DEFINE def == DefinitionOf(c, p)
           n == Len(p.datum)
           parts == PartsOf(c, p)
           s == PrepareParts(c, sizes, p)
           b == EncodeParts(c, bytes, p)
           result == PrepareType(c, sizes, p)
<1>1. def.len_ty \in LenType
  BY LengthTypeOf
<1>2. Listed(parts, n) /\ TypeIn(c, def.elem_ty) /\ \A i \in 1..n : parts[i].place = "element"
  BY ElementsListed
<1>3. s \in Outcome /\ (s = Undefined => "within" \in over) /\ s # Refused
  BY <1>2, SumJustified
<1>4. AddUp(parts, n, sizes, s, b)
  BY <1>2, PartsAddUp
<1>5. n \in Nat
  BY <1>2 DEF Listed
<1>6. s \in Nat => Len(b) = s
  <2> HIDE DEF parts, n, s, b
  <2> QED
    BY <1>4 DEF AddUp
<1>7. Refused # Undefined /\ Refused \notin Nat /\ Undefined \notin Nat
      /\ Refused \in Outcome /\ (s < 0 => s \notin Nat)
  BY <1>3, OutcomeOf, OutcomesKnown
<1>8. ASSUME ChecksLength(p), Exceeds(def.len_ty, LengthOf(c, bytes, p))
      PROVE  p.place # "element" /\ PlaceOfMember(p) \in over
  BY <1>8 DEF ChecksLength, IsOver, IsOne, Placed, PlaceOfMember
<1>9. CASE def.kind = "vector"
  <2> DEFINE elements == IF IsFixedSize(c, def.elem_ty) THEN FixedSize(c, def.elem_ty) * n ELSE s
             prefix == LenSize(def.len_ty, n)
  <2>1. result = IF ChecksLength(p) /\ TooLong(def.len_ty, n) THEN Refused ELSE Plus(prefix, elements)
    BY <1>9 DEF PrepareType, PrepareVector
  <2>2. prefix \in Nat
    BY <1>1, <1>5, LengthExact
  <2>3. elements \in Outcome /\ elements # Refused /\ (elements = Undefined => "within" \in over)
    <3>1. CASE IsFixedSize(c, def.elem_ty)
      <4>1. PICK w \in Nat : w = FixedSize(c, def.elem_ty)
        BY <1>2, <3>1, WidthIsWidth DEF Ready
      <4>2. w * n \in Nat
        BY <1>5
      <4>3. elements \in Nat
        BY <3>1, <4>1, <4>2
      <4> QED
        BY <1>7, <4>3, OutcomeOf
    <3>2. CASE ~IsFixedSize(c, def.elem_ty)
      BY <1>3, <3>2
    <3> QED
      BY <3>1, <3>2
  <2>4. LengthOf(c, bytes, p) = n
    BY <1>9 DEF LengthOf
  <2>5. TooLong(def.len_ty, n) <=> Exceeds(def.len_ty, n)
    BY <1>1, <1>5, TooLongExceeds
  <2> HIDE DEF elements, prefix, def, n, s, parts, b, result
  <2>6. Plus(prefix, elements) \in Nat \/ Plus(prefix, elements) = elements
    BY <2>2, <2>3, OutcomeOf, PlusOutcome
  <2>7. result = Refused => ChecksLength(p) /\ Exceeds(def.len_ty, LengthOf(c, bytes, p))
    BY <1>7, <2>1, <2>3, <2>4, <2>5, <2>6
  <2>8. result = Undefined => "within" \in over
    BY <1>7, <2>1, <2>3, <2>6
  <2> QED
    BY <1>8, <2>7, <2>8 DEF Justified, result
<1>10. CASE def.kind = "stream"
  <2> DEFINE prefix == LenSize(def.len_ty, s)
  <2>1. result = IF s < 0 THEN s
                 ELSE IF ChecksLength(p) /\ TooLong(def.len_ty, s) THEN Refused
                 ELSE prefix + s
    BY <1>10 DEF PrepareType, PrepareStream
  <2>2. ASSUME s \in Nat
        PROVE  /\ prefix + s \in Nat
               /\ LengthOf(c, bytes, p) = s
               /\ TooLong(def.len_ty, s) <=> Exceeds(def.len_ty, s)
    <3>1. prefix \in Nat
      BY <1>1, <2>2, LengthExact
    <3>2. LengthOf(c, bytes, p) = s
      BY <1>6, <1>10, <2>2 DEF LengthOf
    <3>3. TooLong(def.len_ty, s) <=> Exceeds(def.len_ty, s)
      BY <1>1, <2>2, TooLongExceeds
    <3> HIDE DEF prefix, s
    <3> QED
      BY <2>2, <3>1, <3>2, <3>3
  <2>3. ~(s < 0) => s \in Nat
    BY <1>3, OutcomesKnown
  <2> HIDE DEF prefix, def, n, s, parts, b, result
  <2>4. result = Refused => ChecksLength(p) /\ Exceeds(def.len_ty, LengthOf(c, bytes, p))
    BY <1>3, <1>7, <2>1, <2>2, <2>3
  <2>5. result = Undefined => "within" \in over
    BY <1>3, <1>7, <2>1, <2>2, <2>3
  <2> QED
    BY <1>8, <2>4, <2>5 DEF Justified, result
<1> QED
  BY <1>9, <1>10 DEF IsSequence

(* A named type is refused for what it has itself. *)
LEMMA MembersJustified ==
  ASSUME NEW c, NEW over, NEW p, Ready(c, p), NEW sizes, NEW bytes, p.ty.tag = "allocated",
         DefinitionOf(c, p).kind \in {"packed", "struct", "enum", "dict"},
         PartsExact(c, p, sizes, bytes), PartsJustified(c, over, p, sizes)
  PROVE  LET s == PrepareNamed(c, sizes, p)
         IN  /\ s = Refused => PlaceOfMember(p) \in over
             /\ s = Undefined => "within" \in over
<1> DEFINE def == DefinitionOf(c, p)
           parts == PartsOf(c, p)
           s == PrepareParts(c, sizes, p)
           result == PrepareNamed(c, sizes, p)
<1>1. def \in Definition
  BY DefinitionOfPart
<1>2. Refused # Undefined /\ Refused \notin Nat /\ Undefined \notin Nat
  BY OutcomeOf, OutcomesKnown
<1>3. \A q : q.place = PlaceOfMember(p) => PlaceOfMember(q) = PlaceOfMember(p)
  BY DEF PlaceOfMember
<1>4. CASE def.kind = "packed"
  <2>1. result \in Outcome /\ IsFixedSize(c, p.ty) /\ Exact(c, p, result, EncodeNamed(c, bytes, p))
    <3>1. WidthByRule(def, c.bit_width) # Variable
      BY <1>4 DEF WidthByRule, Fixed, Variable
    <3>2. IsFixedSize(c, p.ty)
      BY <3>1, DefinitionOfPart DEF IsFixedSize
    <3> QED
      BY <1>4, <3>2, PackedExact DEF Exact
  <2> HIDE DEF result
  <2>2. result \in Nat
    BY <2>1 DEF Exact
  <2> QED
    BY <1>2, <2>2 DEF result
<1>5. ASSUME NEW n, Listed(parts, n),
             \A i \in 1..n : parts[i].place = PlaceOfMember(p) \/ sizes[parts[i]] \in Nat,
             result = s \/ \E k \in Nat : result = Plus(k, s)
      PROVE  /\ result = Refused => PlaceOfMember(p) \in over
             /\ result = Undefined => "within" \in over
  <2>1. /\ s \in Outcome
        /\ s = Undefined => "within" \in over
        /\ s = Refused => \E i \in 1..n : /\ sizes[parts[i]] = Refused
                                          /\ PlaceOfMember(parts[i]) \in over
    BY <1>5, SumJustified
  <2> HIDE DEF s, parts, result, def
  <2>2. s = Refused => PlaceOfMember(p) \in over
    BY <1>2, <1>3, <1>5, <2>1
  <2>3. result \in Nat \/ result = s
    <3>1. ASSUME NEW k \in Nat, result = Plus(k, s) PROVE result \in Nat \/ result = s
      <4>1. k \in Outcome
        BY OutcomeOf
      <4>2. s \notin Nat => Plus(k, s) = s
        BY <2>1, <4>1, PlusOutcome
      <4>3. s \in Nat => Plus(k, s) \in Nat
        BY <2>1, <4>1, PlusOutcome
      <4> QED
        BY <3>1, <4>2, <4>3
    <3> QED
      BY <1>5, <3>1
  <2> QED
    BY <1>2, <2>1, <2>2, <2>3
<1>6. CASE def.kind = "struct"
  <2>1. Listed(parts, Len(def.members))
        /\ \A i \in 1..Len(def.members) : parts[i].place = PlaceOfMember(p)
    BY <1>6, StructMembersListed DEF IsStructLike
  <2>2. result = s
    BY <1>6 DEF PrepareNamed, PrepareStruct
  <2> HIDE DEF s, parts, result, def
  <2> QED
    BY <1>5, <2>1, <2>2 DEF result
<1>7. CASE def.kind = "enum"
  <2>1. Listed(parts, 1) /\ parts[1].place = PlaceOfMember(p)
    BY <1>7, VariantListed
  <2>2. result = Plus(def.index_ty, s) /\ def.index_ty \in Nat
    BY <1>1, <1>7, IndexTypeOf DEF PrepareNamed, PrepareEnum
  <2>3. \A i \in 1..1 : parts[i].place = PlaceOfMember(p)
    BY <2>1
  <2> HIDE DEF s, parts, result, def
  <2> QED
    BY <1>5, <2>1, <2>2, <2>3 DEF result
<1>8. CASE def.kind = "dict"
  <2>1. /\ Listed(parts, Len(def.members))
        /\ \A i \in 1..Len(def.members) : parts[i].place = PlaceOfMember(p) \/ parts[i].ty = Integer(0)
    BY <1>8, DictMembersListed
  <2>2. result = Plus(def.index_ty, s) /\ def.index_ty \in Nat
    BY <1>1, <1>8, IndexTypeOf DEF PrepareNamed, PrepareDict
  <2>3. ASSUME NEW i \in 1..Len(def.members), parts[i].ty = Integer(0) PROVE sizes[parts[i]] \in Nat
    <3>1. Exact(c, parts[i], sizes[parts[i]], bytes[parts[i]])
      BY <2>1 DEF PartsExact, Range, Listed
    <3>2. IsFixedSize(c, parts[i].ty)
      BY <2>3 DEF IsFixedSize, WidthOfType, Integer, Fixed, Variable
    <3> QED
      BY <3>1, <3>2 DEF Exact
  <2> HIDE DEF s, parts, result, def
  <2> QED
    BY <1>5, <2>1, <2>2, <2>3 DEF result
<1> QED
  BY <1>4, <1>6, <1>7, <1>8

LEMMA PartJustified ==
  ASSUME NEW c, NEW over, NEW p, Ready(c, p), Placed(p), NEW sizes, NEW bytes,
         PartsExact(c, p, sizes, bytes), PartsJustified(c, over, p, sizes),
         IsOver(c, bytes, p) => p.place \in over
  PROVE  Justified(over, p, PrepareType(c, sizes, p))
<1> DEFINE def == DefinitionOf(c, p)
           s == PrepareNamed(c, sizes, p)
           result == PrepareType(c, sizes, p)
<1>1. CASE p.ty.tag = "allocated" /\ IsSequence(def)
  BY <1>1, SequenceJustified
<1>2. CASE p.ty.tag = "allocated" /\ def.kind \in {"packed", "struct", "enum", "dict"}
  <2>1. result = IF s = Refused /\ ~ChecksLength(p) THEN Undefined ELSE s
    BY <1>2 DEF PrepareType, PrepareAllocated
  <2>2. /\ s = Refused => PlaceOfMember(p) \in over
        /\ s = Undefined => "within" \in over
    BY <1>2, MembersJustified
  <2>3. Refused # Undefined
    BY OutcomeOf, OutcomesKnown
  <2> HIDE DEF s, result, def
  <2>4. p.place = "element" => PlaceOfMember(p) = "within"
    BY DEF PlaceOfMember
  <2>5. /\ result = Refused => p.place # "element" /\ PlaceOfMember(p) \in over
        /\ result = Undefined => "within" \in over
    BY <2>1, <2>2, <2>3, <2>4 DEF ChecksLength
  <2> QED
    BY <2>5 DEF Justified, result
<1>3. CASE p.ty.tag # "allocated" \/ def.kind = "primitive"
  <2>1. Exact(c, p, result, EncodeType(c, sizes, bytes, p))
    BY PartExact
  <2>2. result \in Nat
    <3>1. CASE p.ty.tag = "varint"
      <4>1. result = VarintLen(p.datum) /\ p.datum \in Nat
        BY <3>1 DEF PrepareType, Ready, WellTyped, Holds
      <4> QED
        BY <4>1, VarintLenExact
    <3>2. CASE p.ty.tag = "integer"
      <4>1. IsFixedSize(c, p.ty)
        BY <3>2 DEF IsFixedSize, WidthOfType, Fixed, Variable
      <4> QED
        BY <2>1, <4>1 DEF Exact
    <3>3. CASE p.ty.tag = "allocated" /\ def.kind = "primitive"
      <4>1. WidthByRule(def, c.bit_width) # Variable
        BY <3>3 DEF WidthByRule, Fixed, Variable
      <4>2. IsFixedSize(c, p.ty)
        BY <3>3, <4>1, DefinitionOfPart DEF IsFixedSize
      <4> QED
        BY <2>1, <4>2 DEF Exact
    <3>4. p.ty.tag \in {"integer", "varint", "allocated"}
      BY TagOfType DEF Ready, TypeIn
    <3> QED
      BY <1>3, <3>1, <3>2, <3>3, <3>4
  <2> HIDE DEF result
  <2>3. Refused \notin Nat /\ Undefined \notin Nat
    BY OutcomeOf, OutcomesKnown
  <2> QED
    BY <2>2, <2>3 DEF Justified, result
<1>4. p.ty.tag = "allocated" => def \in Definition /\ def.kind # "extern"
  <2>1. p.ty.tag = "allocated" => def \in Definition
    BY DefinitionOfPart
  <2>2. WellTyped(c, p)
    BY DEF Ready
  <2> QED
    BY <2>1, <2>2 DEF WellTyped, IsSequence
<1>5. p.ty.tag = "allocated" => def.kind \in {"primitive", "vector", "stream", "packed", "struct",
                                             "enum", "dict"}
  BY <1>4, KindOfDefinition
<1> QED
  BY <1>1, <1>2, <1>3, <1>5 DEF IsSequence

LEMMA PartsArePlaced ==
  ASSUME NEW c, NEW p, NEW q \in Range(PartsOf(c, p))
  PROVE  Placed(q)
<1> DEFINE def == DefinitionOf(c, p)
<1>1. ASSUME NEW ty, NEW datum, NEW place \in {"member", "element", "within"}
      PROVE  Placed(Part(ty, datum, place))
  BY DEF Placed, Part
<1>2. ASSUME NEW i, NEW datum PROVE Placed(MemberPart(c, p, i, datum))
  BY <1>1 DEF MemberPart
<1>3. CASE q \in Range(Elements(c, p))
  BY <1>1, <1>3 DEF Range, Elements
<1>4. CASE q \in Range(StructMembers(c, p))
  BY <1>2, <1>4 DEF Range, StructMembers
<1>5. CASE q \in Range(Variant(c, p))
  <2> DEFINE x == MemberPart(c, p, p.datum.variant, p.datum.value)
  <2>1. Variant(c, p) = <<x>>
    BY DEF Variant
  <2> HIDE DEF x
  <2>2. q = x
    BY <1>5, <2>1 DEF Range
  <2> QED
    BY <1>2, <2>2 DEF x
<1>6. CASE q \in Range(DictMembers(c, p))
  <2>1. PICK i \in DOMAIN p.datum :
          q = IF p.datum[i] = <<>> THEN Part(Integer(0), 0, "member")
              ELSE MemberPart(c, p, i, p.datum[i][1])
    BY <1>6 DEF Range, DictMembers
  <2>2. Placed(Part(Integer(0), 0, "member"))
    BY <1>1
  <2>3. Placed(MemberPart(c, p, i, p.datum[i][1]))
    BY <1>2
  <2> QED
    BY <2>1, <2>2, <2>3
<1>7. PartsOf(c, p) \in {<<>>, Elements(c, p), StructMembers(c, p), Variant(c, p), DictMembers(c, p)}
  BY DEF PartsOf
<1> HIDE DEF def
<1>8. Range(<<>>) = {}
  BY DEF Range
<1> QED
  BY <1>3, <1>4, <1>5, <1>6, <1>7, <1>8

LEMMA LevelsPlaced ==
  ASSUME NEW c, NEW part, Placed(part), NEW n \in 0..MaxDepth, NEW p \in Levels(c, part)[n]
  PROVE  Placed(p)
<1>1. CASE n = 0
  BY <1>1, LevelsDefined
<1>2. CASE n # 0
  <2>1. n \in 1..(MaxDepth + 1)
    BY <1>2, MaxDepthAssumption
  <2>2. PICK q \in Levels(c, part)[n - 1] : p \in Range(PartsOf(c, q))
    BY <2>1, LevelsDefined DEF NextLevel
  <2> QED
    BY <2>2, PartsArePlaced
<1> QED
  BY <1>1, <1>2

(* The places of the lengths in a value that are over their limits. *)
OverAt(c, part, place) ==
  \E n \in 0..MaxDepth : \E p \in Levels(c, part)[MaxDepth - n] :
    p.place = place /\ IsOver(c, Below(Bytes(c, part), n), p)

JustifiedAt(c, part, over, n) ==
  \A p \in Levels(c, part)[MaxDepth - n] : Justified(over, p, Sizes(c, part)[n][p])

(* What a level has is prepared from the sizes of the one below. *)
LEMMA PreparedBelow ==
  ASSUME NEW c, NEW part, NEW n \in 0..MaxDepth, NEW p \in Levels(c, part)[MaxDepth - n]
  PROVE  Sizes(c, part)[n][p] = PrepareType(c, Below(Sizes(c, part), n), p)
<1> DEFINE S == Sizes(c, part)
           level == Levels(c, part)[MaxDepth - n]
<1>1. S[n] = [q \in level |-> PrepareType(c, Below(S, n), q)]
  BY SizesDefined
<1>2. p \in level
  OBVIOUS
<1> HIDE DEF S, level
<1>3. S[n][p] = PrepareType(c, Below(S, n), p)
  BY <1>1, <1>2
<1> QED
  BY <1>3 DEF S

(* The parts of what a level has are on the level below. *)
LEMMA LevelBelow ==
  ASSUME NEW c, NEW part, Encodable(c, part), NEW n \in 0..MaxDepth,
         NEW p \in Levels(c, part)[MaxDepth - n], NEW q \in Range(PartsOf(c, p))
  PROVE  n - 1 \in 0..MaxDepth /\ n # 0 /\ q \in Levels(c, part)[MaxDepth - (n - 1)]
<1>1. MaxDepth - n \in 0..MaxDepth
  BY MaxDepthAssumption
<1>2. q \in Levels(c, part)[(MaxDepth - n) + 1]
  BY <1>1, PartsBelow
<1>3. n # 0
  <2>1. SUFFICES ASSUME n = 0 PROVE FALSE
    OBVIOUS
  <2>2. (MaxDepth - n) + 1 = MaxDepth + 1
    BY <2>1, MaxDepthAssumption
  <2> QED
    BY <1>2, <2>2 DEF Encodable
<1>4. (MaxDepth - n) + 1 = MaxDepth - (n - 1) /\ n - 1 \in 0..MaxDepth
  BY <1>3, MaxDepthAssumption
<1> QED
  BY <1>2, <1>3, <1>4

LEMMA LevelsJustified ==
  ASSUME NEW c, NEW part, Encodable(c, part), TypeIn(c, part.ty), Placed(part),
         NEW over, over = {place \in {"member", "element", "within"} : OverAt(c, part, place)}
  PROVE  \A n \in 0..MaxDepth : JustifiedAt(c, part, over, n)
<1> DEFINE K == {n \in Nat : n <= MaxDepth => JustifiedAt(c, part, over, n)}
<1>1. ASSUME NEW n \in 0..MaxDepth, n # 0 => JustifiedAt(c, part, over, n - 1)
      PROVE  JustifiedAt(c, part, over, n)
  <2>1. SUFFICES ASSUME NEW p \in Levels(c, part)[MaxDepth - n]
                 PROVE  Justified(over, p, Sizes(c, part)[n][p])
    BY DEF JustifiedAt
  <2> DEFINE sizes == Below(Sizes(c, part), n)
             bytes == Below(Bytes(c, part), n)
  <2>2. n # 0 => ExactAt(c, part, n - 1)
    <3>1. n # 0 => n - 1 \in 0..MaxDepth
      BY MaxDepthAssumption
    <3> QED
      BY <3>1, LevelsExact
  <2>3. PartsExact(c, p, sizes, bytes)
    BY <2>1, <2>2, BelowExact
  <2>4. Ready(c, p) /\ Placed(p)
    <3>1. MaxDepth - n \in 0..MaxDepth
      BY MaxDepthAssumption
    <3> QED
      BY <2>1, <3>1, LevelsReady, LevelsPlaced
  <2>5. Sizes(c, part)[n][p] = PrepareType(c, sizes, p)
    BY <2>1, PreparedBelow
  <2>6. PartsJustified(c, over, p, sizes)
    <3>1. SUFFICES ASSUME NEW q \in Range(PartsOf(c, p)) PROVE Justified(over, q, sizes[q])
      BY DEF PartsJustified
    <3>2. n # 0 /\ q \in Levels(c, part)[MaxDepth - (n - 1)]
      BY <2>1, <3>1, LevelBelow
    <3> QED
      BY <1>1, <3>2 DEF JustifiedAt, Below
  <2>7. IsOver(c, bytes, p) => p.place \in over
    BY <2>1, <2>4 DEF OverAt, Placed
  <2> HIDE DEF sizes, bytes
  <2> QED
    BY <2>3, <2>4, <2>5, <2>6, <2>7, PartJustified
<1>2. 0 \in K
  BY <1>1, MaxDepthAssumption
<1>3. ASSUME NEW n \in Nat, n \in K PROVE n + 1 \in K
  <2>1. SUFFICES ASSUME n + 1 <= MaxDepth PROVE JustifiedAt(c, part, over, n + 1)
    OBVIOUS
  <2>2. n + 1 \in 0..MaxDepth /\ (n + 1) - 1 = n /\ JustifiedAt(c, part, over, n)
    BY <1>3, <2>1, MaxDepthAssumption
  <2> QED
    BY <1>1, <2>2
<1>4. Nat \subseteq K
  <2> HIDE DEF K
  <2> QED
    BY <1>2, <1>3, SetInduction
<1> QED
  BY <1>4, MaxDepthAssumption

(***************************************************************************)
(* A part that has a size is accepted, and so are its parts: those that    *)
(* are not asked for their sizes have fixed ones.                          *)
(***************************************************************************)
LEMMA PartsAccepted ==
  ASSUME NEW c, NEW p, Ready(c, p), NEW sizes, NEW bytes, PartsExact(c, p, sizes, bytes),
         PrepareType(c, sizes, p) \in Nat, NEW q \in Range(PartsOf(c, p))
  PROVE  sizes[q] \in Nat
<1> DEFINE def == DefinitionOf(c, p)
           parts == PartsOf(c, p)
           s == PrepareParts(c, sizes, p)
           result == PrepareType(c, sizes, p)
<1>1. Exact(c, q, sizes[q], bytes[q])
  BY DEF PartsExact
<1>2. p.ty.tag = "allocated" /\ def.kind \notin {"primitive", "extern"}
      /\ ~(def.kind = "packed" /\ IsBitfield(c, def))
  BY NoParts DEF Range
<1>3. def \in Definition
  BY <1>2, DefinitionOfPart
<1>4. def.kind \in {"vector", "stream", "packed", "struct", "enum", "dict"}
  BY <1>2, <1>3, KindOfDefinition
<1>5. Refused \notin Nat /\ Undefined \notin Nat
  BY OutcomeOf, OutcomesKnown
<1>6. ASSUME NEW n, Listed(parts, n), s \in Outcome => s \in Nat PROVE sizes[q] \in Nat
  <2>1. AddUp(parts, n, sizes, s, EncodeParts(c, bytes, p))
    BY <1>6, PartsAddUp
  <2>2. PICK i \in 1..n : q = parts[i]
    BY <1>6 DEF Listed, Range
  <2> HIDE DEF parts, s
  <2> QED
    BY <1>6, <2>1, <2>2 DEF AddUp
<1>7. CASE def.kind = "vector"
  <2>1. /\ Listed(parts, Len(p.datum)) /\ TypeIn(c, def.elem_ty)
        /\ \A i \in 1..Len(p.datum) : parts[i].ty = def.elem_ty
    BY <1>2, <1>7, ElementsListed DEF IsSequence
  <2>2. CASE IsFixedSize(c, def.elem_ty)
    <3>1. q.ty = def.elem_ty
      BY <2>1 DEF Listed, Range
    <3> QED
      BY <1>1, <2>2, <3>1 DEF Exact
  <2>3. CASE ~IsFixedSize(c, def.elem_ty)
    <3>1. result = IF ChecksLength(p) /\ TooLong(def.len_ty, Len(p.datum)) THEN Refused
                   ELSE Plus(LenSize(def.len_ty, Len(p.datum)), s)
      BY <1>2, <1>7, <2>3 DEF PrepareType, PrepareVector
    <3>2. LenSize(def.len_ty, Len(p.datum)) \in Nat
      BY <1>2, <1>7, <2>1, LengthTypeOf, LengthExact DEF IsSequence, Listed
    <3> HIDE DEF s, result, def
    <3>3. s \in Outcome => s \in Nat
      <4>1. result \in Nat
        BY DEF result
      <4> QED
        BY <1>5, <3>1, <3>2, <4>1, OutcomeOf, PlusOutcome
    <3> QED
      BY <1>6, <2>1, <3>3
  <2> QED
    BY <2>2, <2>3
<1>8. CASE def.kind = "stream"
  <2>1. Listed(parts, Len(p.datum))
    BY <1>2, <1>8, ElementsListed DEF IsSequence
  <2>2. result = IF s < 0 THEN s
                 ELSE IF ChecksLength(p) /\ TooLong(def.len_ty, s) THEN Refused
                 ELSE LenSize(def.len_ty, s) + s
    BY <1>2, <1>8 DEF PrepareType, PrepareStream
  <2> HIDE DEF s, result, def
  <2>3. s \in Outcome => s \in Nat
    <3>1. result \in Nat
      BY DEF result
    <3> QED
      BY <2>2, <3>1, OutcomesKnown
  <2> QED
    BY <1>6, <2>1, <2>3
<1> DEFINE named == PrepareNamed(c, sizes, p)
<1>9. def.kind \in {"packed", "struct", "enum", "dict"} => named \in Nat
  <2>1. def.kind \in {"packed", "struct", "enum", "dict"} =>
          result = IF named = Refused /\ ~ChecksLength(p) THEN Undefined ELSE named
    BY <1>2 DEF PrepareType, PrepareAllocated
  <2> HIDE DEF named, def, result
  <2>2. result \in Nat
    BY DEF result
  <2> QED
    BY <1>5, <2>1, <2>2
<1>10. ASSUME NEW k \in Nat, named = Plus(k, s), named \in Nat PROVE s \in Outcome => s \in Nat
  <2> HIDE DEF named, s
  <2> QED
    BY <1>10, OutcomeOf, PlusOutcome
<1>11. CASE def.kind = "packed"
  <2>1. /\ Listed(parts, Len(def.members))
        /\ \A i \in 1..Len(def.members) : parts[i].ty = TypesOf(def)[i]
    BY <1>2, <1>11, StructMembersListed DEF IsStructLike
  <2>2. PICK i \in 1..Len(def.members) : q = parts[i]
    BY <2>1 DEF Listed, Range
  <2>3. DOMAIN TypesOf(def) = 1..Len(def.members)
    BY <1>3, <1>11, MembersOf
  <2>4. WidthOfType(q.ty, c.bit_width) \in WidthsOfTypes(def, c.bit_width)
    BY <2>1, <2>2, <2>3 DEF WidthsOfTypes
  <2>5. WidthOfType(q.ty, c.bit_width) # Variable
    BY <1>2, <1>11, <2>4, DefinitionOfPart
  <2> QED
    BY <1>1, <2>5 DEF Exact, IsFixedSize
<1>12. CASE def.kind = "struct"
  <2>1. Listed(parts, Len(def.members))
    BY <1>2, <1>12, StructMembersListed DEF IsStructLike
  <2>2. named = s
    BY <1>12 DEF PrepareNamed, PrepareStruct
  <2> HIDE DEF named, s
  <2> QED
    BY <1>6, <1>9, <1>12, <2>1, <2>2
<1>13. CASE def.kind = "enum"
  <2>1. Listed(parts, 1)
    BY <1>2, <1>13, VariantListed
  <2>2. named = Plus(def.index_ty, s) /\ def.index_ty \in Nat
    BY <1>3, <1>13, IndexTypeOf DEF PrepareNamed, PrepareEnum
  <2> HIDE DEF named, s
  <2> QED
    BY <1>6, <1>9, <1>10, <1>13, <2>1, <2>2
<1>14. CASE def.kind = "dict"
  <2>1. Listed(parts, Len(def.members))
    BY <1>2, <1>14, DictMembersListed
  <2>2. named = Plus(def.index_ty, s) /\ def.index_ty \in Nat
    BY <1>3, <1>14, IndexTypeOf DEF PrepareNamed, PrepareDict
  <2> HIDE DEF named, s
  <2> QED
    BY <1>6, <1>9, <1>10, <1>14, <2>1, <2>2
<1> QED
  BY <1>4, <1>7, <1>8, <1>11, <1>12, <1>13, <1>14

(* A sequence that has a size is not over its limit, or an element. *)
LEMMA AcceptedFits ==
  ASSUME NEW c, NEW p, Ready(c, p), NEW sizes, NEW bytes, PartsExact(c, p, sizes, bytes),
         PrepareType(c, sizes, p) \in Nat, IsOver(c, bytes, p)
  PROVE  p.place = "element"
<1> DEFINE def == DefinitionOf(c, p)
           n == Len(p.datum)
           s == PrepareParts(c, sizes, p)
           b == EncodeParts(c, bytes, p)
           result == PrepareType(c, sizes, p)
<1>1. p.ty.tag = "allocated" /\ IsSequence(def) /\ Exceeds(def.len_ty, LengthOf(c, bytes, p))
  BY DEF IsOver, IsOne
<1>2. def.len_ty \in LenType /\ Listed(PartsOf(c, p), n)
  BY <1>1, LengthTypeOf, ElementsListed
<1>3. Refused \notin Nat
  BY OutcomeOf, OutcomesKnown
<1>4. CASE def.kind = "vector"
  <2>1. result = IF ChecksLength(p) /\ TooLong(def.len_ty, n) THEN Refused
                 ELSE Plus(LenSize(def.len_ty, n),
                           IF IsFixedSize(c, def.elem_ty) THEN FixedSize(c, def.elem_ty) * n ELSE s)
    BY <1>1, <1>4 DEF PrepareType, PrepareVector
  <2>2. LengthOf(c, bytes, p) = n /\ n \in Nat
    BY <1>2, <1>4 DEF LengthOf, Listed
  <2>3. TooLong(def.len_ty, n)
    BY <1>1, <1>2, <2>2, TooLongExceeds
  <2>4. ~ChecksLength(p)
    <3> HIDE DEF n, s, def
    <3> QED
      BY <1>3, <2>1, <2>3
  <2> QED
    BY <2>4 DEF ChecksLength
<1>5. CASE def.kind = "stream"
  <2>1. result = IF s < 0 THEN s
                 ELSE IF ChecksLength(p) /\ TooLong(def.len_ty, s) THEN Refused
                 ELSE LenSize(def.len_ty, s) + s
    BY <1>1, <1>5 DEF PrepareType, PrepareStream
  <2>2. AddUp(PartsOf(c, p), n, sizes, s, b)
    BY <1>2, PartsAddUp
  <2>3. s \in Outcome /\ (s \in Nat => Len(b) = s)
    <3> HIDE DEF n, s, b
    <3> QED
      BY <2>2 DEF AddUp
  <2>4. ~(s < 0) /\ s \in Nat
    <3>1. result \in Nat
      OBVIOUS
    <3> HIDE DEF s, result, def
    <3> QED
      BY <2>1, <2>3, <3>1, OutcomesKnown
  <2>5. LengthOf(c, bytes, p) = s
    BY <1>5, <2>3, <2>4 DEF LengthOf
  <2>6. TooLong(def.len_ty, s)
    BY <1>1, <1>2, <2>4, <2>5, TooLongExceeds
  <2>7. ~ChecksLength(p)
    <3> HIDE DEF n, s, def
    <3> QED
      BY <1>3, <2>1, <2>4, <2>6
  <2> QED
    BY <2>7 DEF ChecksLength
<1> QED
  BY <1>1, <1>4, <1>5 DEF IsSequence

(* Of what is on a level: its size, and the parts it is prepared from. *)
LEMMA LevelPrepared ==
  ASSUME NEW c, NEW part, Encodable(c, part), TypeIn(c, part.ty),
         NEW n \in 0..MaxDepth, NEW p \in Levels(c, part)[MaxDepth - n]
  PROVE  /\ Ready(c, p)
         /\ PartsExact(c, p, Below(Sizes(c, part), n), Below(Bytes(c, part), n))
         /\ Sizes(c, part)[n][p] = PrepareType(c, Below(Sizes(c, part), n), p)
<1>1. MaxDepth - n \in 0..MaxDepth /\ (n # 0 => n - 1 \in 0..MaxDepth)
  BY MaxDepthAssumption
<1>2. n # 0 => ExactAt(c, part, n - 1)
  BY <1>1, LevelsExact
<1> QED
  BY <1>1, <1>2, LevelsReady, BelowExact, PreparedBelow

LEMMA LevelsAccepted ==
  ASSUME NEW c, NEW part, Encodable(c, part), TypeIn(c, part.ty), Prepared(c, part) \in Nat
  PROVE  \A n \in 0..MaxDepth : \A p \in Levels(c, part)[n] : Sizes(c, part)[MaxDepth - n][p] \in Nat
<1> DEFINE L == Levels(c, part)
           S == Sizes(c, part)
           Good(n) == \A p \in L[n] : S[MaxDepth - n][p] \in Nat
           K == {n \in Nat : n <= MaxDepth => Good(n)}
<1>1. 0 \in K
  <2>1. L[0] = {part} /\ MaxDepth - 0 = MaxDepth
    BY LevelsDefined, MaxDepthAssumption
  <2> QED
    BY <2>1 DEF Prepared
<1>2. ASSUME NEW n \in Nat, n \in K PROVE n + 1 \in K
  <2>1. SUFFICES ASSUME n + 1 <= MaxDepth, NEW q \in L[n + 1] PROVE S[MaxDepth - (n + 1)][q] \in Nat
    OBVIOUS
  <2>2. n + 1 \in 1..(MaxDepth + 1) /\ (n + 1) - 1 = n /\ Good(n)
    BY <1>2, <2>1, MaxDepthAssumption
  <2>3. PICK p \in L[n] : q \in Range(PartsOf(c, p))
    BY <2>1, <2>2, LevelsDefined DEF NextLevel
  <2>4. PICK m \in 0..MaxDepth : m = MaxDepth - n /\ MaxDepth - m = n /\ m # 0
                                 /\ MaxDepth - (n + 1) = m - 1
    BY <2>1, MaxDepthAssumption
  <2>5. p \in L[MaxDepth - m] /\ S[m][p] \in Nat
    BY <2>2, <2>3, <2>4
  <2> DEFINE sizes == Below(S, m)
             bytes == Below(Bytes(c, part), m)
  <2>6. Ready(c, p) /\ PartsExact(c, p, sizes, bytes) /\ PrepareType(c, sizes, p) \in Nat
    BY <2>5, LevelPrepared
  <2> HIDE DEF sizes, bytes
  <2>7. sizes[q] \in Nat
    BY <2>3, <2>6, PartsAccepted
  <2>8. sizes = S[m - 1]
    BY <2>4 DEF sizes, Below
  <2> QED
    BY <2>4, <2>7, <2>8
<1>3. Nat \subseteq K
  <2> HIDE DEF K
  <2> QED
    BY <1>1, <1>2, SetInduction
<1> QED
  BY <1>3, MaxDepthAssumption

LEMMA NoneOver ==
  ASSUME NEW c, NEW part, Encodable(c, part), TypeIn(c, part.ty), Prepared(c, part) \in Nat,
         NEW place, OverAt(c, part, place)
  PROVE  place = "element"
<1> DEFINE S == Sizes(c, part)
           B == Bytes(c, part)
<1>1. PICK n \in 0..MaxDepth : \E p \in Levels(c, part)[MaxDepth - n] :
              p.place = place /\ IsOver(c, Below(B, n), p)
  BY DEF OverAt
<1>2. PICK p \in Levels(c, part)[MaxDepth - n] : p.place = place /\ IsOver(c, Below(B, n), p)
  BY <1>1
<1>3. MaxDepth - n \in 0..MaxDepth /\ MaxDepth - (MaxDepth - n) = n
  BY MaxDepthAssumption
<1>4. S[n][p] \in Nat
  BY <1>3, LevelsAccepted
<1>5. Ready(c, p) /\ PartsExact(c, p, Below(S, n), Below(B, n)) /\ PrepareType(c, Below(S, n), p) \in Nat
  BY <1>4, LevelPrepared
<1> HIDE DEF S, B
<1> QED
  BY <1>2, <1>5, AcceptedFits

(* OverAt is what a length in a value is over its limit for. *)
LEMMA OverLimitAt ==
  ASSUME NEW place
  PROVE  OverLimit(place) <=> OverAt(ctx, Whole(root, value), place)
<1> DEFINE whole == Whole(root, value)
           L == Levels(ctx, whole)
           B == Bytes(ctx, whole)
           Found(p, n) == [len_ty |-> DefinitionOf(ctx, p).len_ty,
                           length |-> LengthOf(ctx, Below(B, n), p), place |-> p.place]
<1>1. LengthsOfValue =
        UNION {{Found(p, n) : p \in {q \in L[MaxDepth - n] : IsOne(ctx, q)}} : n \in 0..MaxDepth}
  BY DEF LengthsOfValue, LengthOf, IsOne
<1> HIDE DEF L, B
<1>2. OverLimit(place) <=> \E n \in 0..MaxDepth : \E p \in L[MaxDepth - n] :
        /\ IsOne(ctx, p)
        /\ Found(p, n).place = place
        /\ 2 * Found(p, n).length >= 2 ^ LenBits(Found(p, n).len_ty)
  <2> HIDE DEF Found
  <2> QED
    BY <1>1 DEF OverLimit
<1>3. OverAt(ctx, whole, place) <=> \E n \in 0..MaxDepth : \E p \in L[MaxDepth - n] :
        /\ p.place = place
        /\ IsOne(ctx, p) /\ Exceeds(DefinitionOf(ctx, p).len_ty, LengthOf(ctx, Below(B, n), p))
  BY DEF OverAt, IsOver, L, B
<1>4. ASSUME NEW p, NEW n
      PROVE  /\ Found(p, n).place = p.place
             /\ 2 * Found(p, n).length >= 2 ^ LenBits(Found(p, n).len_ty)
                  <=> Exceeds(DefinitionOf(ctx, p).len_ty, LengthOf(ctx, Below(B, n), p))
  BY DEF Exceeds
<1> HIDE DEF Found, whole
<1>5. OverLimit(place) <=> OverAt(ctx, whole, place)
  BY <1>2, <1>3, <1>4
<1> QED
  BY <1>5 DEF whole

LEMMA WholeJustified ==
  ASSUME NEW c, NEW h, NEW v, Encodable(c, Whole(h, v))
  PROVE  /\ Prepared(c, Whole(h, v)) = Refused => OverAt(c, Whole(h, v), "member")
         /\ Prepared(c, Whole(h, v)) = Undefined => OverAt(c, Whole(h, v), "within")
<1> DEFINE part == Whole(h, v)
           over == {place \in {"member", "element", "within"} : OverAt(c, part, place)}
<1>1. Placed(part) /\ PlaceOfMember(part) = "member"
  BY DEF Whole, Part, Placed, PlaceOfMember
<1>2. JustifiedAt(c, part, over, MaxDepth)
  BY <1>1, WholeTyped, LevelsJustified, MaxDepthAssumption
<1>3. part \in Levels(c, part)[MaxDepth - MaxDepth]
  BY LevelsDefined, MaxDepthAssumption
<1>4. Justified(over, part, Prepared(c, part))
  BY <1>2, <1>3 DEF JustifiedAt, Prepared
<1> QED
  BY <1>1, <1>4 DEF Justified

LEMMA SendingVerdict == Sending => LengthVerdict
<1> SUFFICES ASSUME Sending PROVE LengthVerdict
  OBVIOUS
<1> DEFINE whole == Whole(root, value)
<1>1. Encodable(ctx, whole) /\ TypeIn(ctx, whole.ty)
  BY WholeTyped DEF Sending
<1>2. sending = "ContainerLengthOverflow" => OverLimit("member")
  BY <1>1, WholeJustified, OverLimitAt DEF Sending
<1>3. sending = "undefined" => OverLimit("within")
  BY <1>1, WholeJustified, OverLimitAt DEF Sending
<1>4. ASSUME sending = "encoding", NEW place \in {"member", "within"} PROVE ~OverLimit(place)
  <2>1. Prepared(ctx, whole) \in Nat
    BY <1>4 DEF Sending
  <2> QED
    BY <1>1, <1>4, <2>1, NoneOver, OverLimitAt
<1> QED
  BY <1>2, <1>3, <1>4 DEF LengthVerdict
-----------------------------------------------------------------------------
(***************************************************************************)
(* Numbers.  They are read from the digits they were written as.           *)
(***************************************************************************)
(* The rests of a number that its digits are taken from. *)
Digits(rest, v, n, base, digits) ==
  /\ rest \in [0..n -> Nat] /\ rest[0] = v
  /\ \A i \in 1..n : rest[i] = rest[i - 1] \div base /\ digits[i] = rest[i - 1] % base

LEMMA RestsFall ==
  ASSUME NEW v \in Nat, NEW n \in Nat, NEW base \in Nat \ {0}, NEW digits,
         NEW rest, Digits(rest, v, n, base, digits)
  PROVE  \A i \in 0..n : rest[i] \in Nat /\ rest[i] <= v
<1> DEFINE K == {k \in Nat : k <= n => rest[k] <= v}
<1>1. 0 \in K
  BY DEF Digits
<1>2. ASSUME NEW k \in Nat, k \in K PROVE k + 1 \in K
  <2>1. SUFFICES ASSUME k + 1 <= n PROVE rest[k + 1] <= v
    OBVIOUS
  <2>2. k + 1 \in 1..n /\ (k + 1) - 1 = k /\ k \in 0..n /\ rest[k] <= v
    BY <1>2, <2>1
  <2>3. rest[k + 1] = rest[k] \div base /\ rest[k] \in Nat
    BY <2>2 DEF Digits
  <2>4. \A x \in Nat : x \div base <= x
    OBVIOUS
  <2>5. rest[k] \div base <= rest[k] /\ rest[k] \div base \in Nat
    BY <2>3, <2>4
  <2> QED
    BY <2>2, <2>3, <2>5
<1>3. Nat \subseteq K
  <2> HIDE DEF K
  <2> QED
    BY <1>1, <1>2, SetInduction
<1>4. \A i \in 0..n : i \in Nat /\ i <= n /\ rest[i] \in Nat
  BY DEF Digits
<1> QED
  BY <1>3, <1>4

AreDigits(digits, n) == Len(digits) = n /\ \A i \in 1..n : digits[i] \in Nat

Reading(number, digits, n, base) ==
  /\ number \in [0..n -> Nat] /\ number[0] = 0
  /\ \A i \in 1..n : number[i] = Capped[digits[n + 1 - i] + base * number[i - 1]]
  /\ FromDigits(digits, base) = number[n]

LEMMA DigitsDefined ==
  ASSUME NEW digits, NEW n \in Nat, AreDigits(digits, n), NEW base \in Nat
  PROVE  \E number : Reading(number, digits, n, base)
<1> DEFINE step == [i \in 1..n |-> [x \in Nat |-> Capped[digits[n + 1 - i] + base * x]]]
           D(f) == [i \in 0..n |-> IF i = 0 THEN 0 ELSE Capped[digits[n + 1 - i] + base * f[i - 1]]]
           F == CHOOSE f : f = D(f)
<1> USE DEF AreDigits
<1>1. Capped \in [Nat -> Nat]
  BY HugeAssumption DEF Capped
<1>2. ASSUME NEW i \in 1..n, NEW x \in Nat
      PROVE  digits[n + 1 - i] + base * x \in Nat /\ n + 1 - i \in 1..n
  <2>1. n + 1 - i \in 1..n /\ base * x \in Nat
    OBVIOUS
  <2> QED
    BY <2>1
<1>3. step \in StepsOver(n, Nat)
  BY <1>1, <1>2 DEF StepsOver
<1>4. PICK g : Iterates(g, n, Nat, 0, step)
  <2> HIDE DEF step
  <2> QED
    BY <1>3, IntervalRecursion
<1>5. g \in [0..n -> Nat] /\ g[0] = 0
  BY <1>4 DEF Iterates
<1>6. ASSUME NEW i \in 1..n PROVE g[i] = Capped[digits[n + 1 - i] + base * g[i - 1]]
  <2>1. g[i] = step[i][g[i - 1]]
    BY <1>4 DEF Iterates
  <2>2. i - 1 \in 0..n /\ g[i - 1] \in Nat
    BY <1>5
  <2> QED
    BY <2>1, <2>2
<1>7. g = D(g)
  <2> DEFINE NextOf(i) == Capped[digits[n + 1 - i] + base * g[i - 1]]
  <2>1. \A i \in 1..n : g[i] = NextOf(i)
    BY <1>6
  <2>2. g = [i \in 0..n |-> g[i]] /\ \A i \in 0..n : i = 0 \/ i \in 1..n
    BY <1>5
  <2> HIDE DEF NextOf, step
  <2>3. g = [i \in 0..n |-> IF i = 0 THEN 0 ELSE NextOf(i)]
    BY <1>5, <2>1, <2>2
  <2> QED
    BY <2>3 DEF NextOf
<1>8. F = D(F)
  <2> HIDE DEF D
  <2> QED
    BY <1>7
<1>9. FromDigits(digits, base) = F[n]
  BY DEF FromDigits
<1> HIDE DEF F, step
<1>10. F[0] = 0 /\ \A i \in 1..n : F[i] = Capped[digits[n + 1 - i] + base * F[i - 1]]
  <2>1. 0 \in 0..n /\ \A i \in 1..n : i \in 0..n /\ i # 0
    OBVIOUS
  <2> QED
    BY <1>8, <2>1
<1> DEFINE K == {k \in Nat : k <= n => F[k] = g[k]}
<1>11. 0 \in K
  BY <1>5, <1>10
<1>12. ASSUME NEW k \in Nat, k \in K PROVE k + 1 \in K
  <2>1. SUFFICES ASSUME k + 1 <= n PROVE F[k + 1] = g[k + 1]
    OBVIOUS
  <2>2. PICK i \in 1..n : i = k + 1 /\ i - 1 = k /\ F[i - 1] = g[i - 1]
    BY <1>12, <2>1
  <2>3. F[i] = Capped[digits[n + 1 - i] + base * F[i - 1]]
    BY <1>10
  <2>4. g[i] = Capped[digits[n + 1 - i] + base * g[i - 1]]
    BY <1>6
  <2> QED
    BY <2>2, <2>3, <2>4
<1>13. Nat \subseteq K
  <2> HIDE DEF K
  <2> QED
    BY <1>11, <1>12, SetInduction
<1>14. FromDigits(digits, base) = g[n]
  BY <1>9, <1>13
<1> QED
  BY <1>5, <1>6, <1>14 DEF Reading

LEMMA DigitsRead ==
  ASSUME NEW v \in Nat, v < Huge, NEW n \in Nat, NEW base \in Nat \ {0}, NEW digits,
         Len(digits) = n, NEW rest, Digits(rest, v, n, base, digits), rest[n] = 0
  PROVE  FromDigits(digits, base) = v
<1>1. \A i \in 0..n : rest[i] \in Nat /\ rest[i] < Huge
  <2>1. \A i \in 0..n : rest[i] \in Nat /\ rest[i] <= v
    BY RestsFall
  <2> QED
    BY <2>1, HugeAssumption
<1>2. ASSUME NEW i \in 1..n PROVE digits[i] \in Nat /\ digits[i] + base * rest[i] = rest[i - 1]
  <2>1. rest[i] = rest[i - 1] \div base /\ digits[i] = rest[i - 1] % base
    BY DEF Digits
  <2>2. rest[i - 1] \in Nat
    <3>1. i - 1 \in 0..n
      OBVIOUS
    <3> QED
      BY <1>1, <3>1
  <2>3. \A x \in Nat : x % base \in Nat /\ (x % base) + base * (x \div base) = x
    OBVIOUS
  <2> QED
    BY <2>1, <2>2, <2>3
<1>3. PICK number : Reading(number, digits, n, base)
  <2>1. AreDigits(digits, n)
    BY <1>2 DEF AreDigits
  <2>2. base \in Nat
    OBVIOUS
  <2> QED
    BY <2>1, <2>2, DigitsDefined
<1> DEFINE K == {k \in Nat : k <= n => number[k] = rest[n - k]}
<1>4. 0 \in K
  BY <1>3 DEF Reading
<1>5. ASSUME NEW k \in Nat, k \in K PROVE k + 1 \in K
  <2>1. SUFFICES ASSUME k + 1 <= n PROVE number[k + 1] = rest[n - (k + 1)]
    OBVIOUS
  <2>2. PICK i \in 1..n : i = n - k
    BY <2>1
  <2>3. k + 1 \in 1..n /\ (k + 1) - 1 = k /\ n + 1 - (k + 1) = i /\ n - (k + 1) = i - 1
    BY <2>1, <2>2
  <2>4. number[k + 1] = Capped[digits[i] + base * number[k]]
    BY <1>3, <2>3 DEF Reading
  <2>5. number[k] = rest[i]
    BY <1>5, <2>1, <2>2
  <2>6. digits[i] + base * number[k] = rest[i - 1]
    BY <1>2, <2>5
  <2>7. rest[i - 1] \in Nat /\ rest[i - 1] < Huge
    <3>1. i - 1 \in 0..n
      OBVIOUS
    <3> QED
      BY <1>1, <3>1
  <2>8. Capped[rest[i - 1]] = rest[i - 1]
    BY <2>7 DEF Capped
  <2> QED
    BY <2>3, <2>4, <2>6, <2>8
<1>6. Nat \subseteq K
  <2> HIDE DEF K
  <2> QED
    BY <1>4, <1>5, SetInduction
<1>7. number[n] = rest[0]
  <2>1. n - n = 0
    OBVIOUS
  <2> QED
    BY <1>6, <2>1
<1> QED
  BY <1>3, <1>7 DEF Digits, Reading
-----------------------------------------------------------------------------
(* A number that n bytes hold is read from them. *)
LEMMA BitLengthOfByte ==
  ASSUME NEW v \in Nat, NEW k \in Nat, BitLength[v] <= 8 + k
  PROVE  v \div 256 \in Nat /\ BitLength[v \div 256] <= k
<1>1. /\ v \div 2 \in Nat /\ v \div 128 \in Nat /\ v \div 256 \in Nat
      /\ (v \div 128) \div 2 = v \div 256
  OBVIOUS
<1>2. \A u \in Nat : BitLength[u] \in Nat /\ BitLength[u] = IF u = 0 THEN 0 ELSE 1 + BitLength[u \div 2]
  BY BitLengthDefined
<1>3. CASE v < 256
  <2>1. v \div 256 = 0
    BY <1>3
  <2>2. BitLength[0] = 0
    BY <1>2
  <2> QED
    BY <1>1, <2>1, <2>2
<1>4. CASE v >= 256
  <2>1. v \div 128 # 0 /\ v >= 128
    BY <1>4
  <2>2. BitLength[v] = 7 + BitLength[v \div 128]
    BY <2>1, BitLengthOfGroup
  <2>3. BitLength[v \div 128] = 1 + BitLength[v \div 256]
    BY <1>1, <1>2, <2>1
  <2>4. PICK x \in Nat : x = BitLength[v \div 256]
    BY <1>1, <1>2
  <2>5. BitLength[v] = 7 + (1 + x)
    BY <2>2, <2>3, <2>4
  <2>6. BitLength[v] \in Nat
    BY <1>2
  <2>7. x <= k
    BY <2>5, <2>6
  <2> QED
    BY <1>1, <2>4, <2>7
<1> QED
  BY <1>3, <1>4

LEMMA NoBits ==
  ASSUME NEW v \in Nat, BitLength[v] <= 0
  PROVE  v = 0
<1>1. v # 0 => BitLength[v] = 1 + BitLength[v \div 2] /\ BitLength[v \div 2] \in Nat
  <2>1. v \div 2 \in Nat
    OBVIOUS
  <2> QED
    BY <2>1, BitLengthDefined
<1> QED
  BY <1>1

LEMMA LittleEndianDigits ==
  ASSUME NEW v \in Nat, NEW n \in Nat
  PROVE  \E rest : Digits(rest, v, n, 256, LittleEndian(v, n))
<1> DEFINE step == [i \in 1..n |-> [x \in Nat |-> x \div 256]]
           D(f) == [i \in 0..n |-> IF i = 0 THEN v ELSE f[i - 1] \div 256]
           F == CHOOSE f : f = D(f)
<1>1. step \in StepsOver(n, Nat)
  <2>1. \A x \in Nat : x \div 256 \in Nat
    OBVIOUS
  <2> QED
    BY <2>1 DEF StepsOver
<1>2. PICK g : Iterates(g, n, Nat, v, step)
  <2> HIDE DEF step
  <2> QED
    BY <1>1, IntervalRecursion
<1>3. g \in [0..n -> Nat] /\ g[0] = v
  BY <1>2 DEF Iterates
<1>4. ASSUME NEW i \in 1..n PROVE g[i] = g[i - 1] \div 256
  <2>1. g[i] = step[i][g[i - 1]]
    BY <1>2 DEF Iterates
  <2>2. i - 1 \in 0..n /\ g[i - 1] \in Nat
    BY <1>3
  <2> QED
    BY <2>1, <2>2
<1>5. g = D(g)
  <2> DEFINE NextOf(i) == g[i - 1] \div 256
  <2>1. \A i \in 1..n : g[i] = NextOf(i)
    BY <1>4
  <2>2. g = [i \in 0..n |-> g[i]] /\ \A i \in 0..n : i = 0 \/ i \in 1..n
    BY <1>3
  <2> HIDE DEF NextOf, step
  <2>3. g = [i \in 0..n |-> IF i = 0 THEN v ELSE NextOf(i)]
    BY <1>3, <2>1, <2>2
  <2> QED
    BY <2>3 DEF NextOf
<1>6. F = D(F)
  <2> HIDE DEF D
  <2> QED
    BY <1>5
<1>7. LittleEndian(v, n) = [i \in 1..n |-> F[i - 1] % 256]
  BY DEF LittleEndian
<1> HIDE DEF F, step
<1> DEFINE K == {k \in Nat : k <= n => F[k] \in Nat}
<1>8. F[0] = v /\ \A i \in 1..n : F[i] = F[i - 1] \div 256
  <2>1. 0 \in 0..n /\ \A i \in 1..n : i \in 0..n /\ i # 0
    OBVIOUS
  <2> QED
    BY <1>6, <2>1
<1>9. 0 \in K
  BY <1>8
<1>10. ASSUME NEW k \in Nat, k \in K PROVE k + 1 \in K
  <2>1. SUFFICES ASSUME k + 1 <= n PROVE F[k + 1] \in Nat
    OBVIOUS
  <2>2. PICK i \in 1..n : i = k + 1 /\ i - 1 = k /\ F[i - 1] \in Nat
    BY <1>10, <2>1
  <2>3. F[i] = F[i - 1] \div 256
    BY <1>8
  <2> QED
    BY <2>2, <2>3
<1>11. Nat \subseteq K
  <2> HIDE DEF K
  <2> QED
    BY <1>9, <1>10, SetInduction
<1>12. F \in [0..n -> Nat]
  <2>1. F = [i \in 0..n |-> F[i]]
    BY <1>6
  <2>2. \A i \in 0..n : F[i] \in Nat
    BY <1>11
  <2> QED
    BY <2>1, <2>2
<1> QED
  BY <1>7, <1>8, <1>12 DEF Digits

LEMMA NumberRead ==
  ASSUME NEW v, NEW n \in Nat, Holds(n, v)
  PROVE  FromLittleEndian(LittleEndian(v, n)) = v
<1>1. v \in Nat /\ v < Huge /\ BitLength[v] <= 8 * n
  BY DEF Holds
<1> DEFINE b == LittleEndian(v, n)
<1>2. PICK rest : Digits(rest, v, n, 256, b)
  BY <1>1, LittleEndianDigits
<1>3. Len(b) = n
  BY LittleEndianExact
<1>4. \A i \in 0..n : rest[i] \in Nat
  BY <1>2 DEF Digits
<1> DEFINE K == {k \in Nat : k <= n => BitLength[rest[k]] <= 8 * (n - k)}
<1>5. 0 \in K
  BY <1>1, <1>2 DEF Digits
<1>6. ASSUME NEW k \in Nat, k \in K PROVE k + 1 \in K
  <2>1. SUFFICES ASSUME k + 1 <= n PROVE BitLength[rest[k + 1]] <= 8 * (n - (k + 1))
    OBVIOUS
  <2>2. PICK i \in 1..n : i = k + 1 /\ i - 1 = k
    BY <2>1
  <2>3. rest[i] = rest[i - 1] \div 256 /\ rest[i - 1] \in Nat
    <3>1. i - 1 \in 0..n
      OBVIOUS
    <3> QED
      BY <1>2, <1>4, <3>1 DEF Digits
  <2>4. PICK m \in Nat : m = 8 * (n - i) /\ 8 * (n - k) = 8 + m
    BY <2>2
  <2>5. BitLength[rest[i - 1]] <= 8 + m
    BY <1>6, <2>1, <2>2, <2>4
  <2>6. BitLength[rest[i - 1] \div 256] <= m
    BY <2>3, <2>5, BitLengthOfByte
  <2> QED
    BY <2>2, <2>3, <2>4, <2>6
<1>7. Nat \subseteq K
  <2> HIDE DEF K
  <2> QED
    BY <1>5, <1>6, SetInduction
<1>8. BitLength[rest[n]] <= 0
  <2>1. n \in K /\ 8 * (n - n) = 0
    BY <1>7
  <2> QED
    BY <2>1
<1>9. rest[n] = 0
  BY <1>4, <1>8, NoBits
<1> HIDE DEF b
<1>10. FromDigits(b, 256) = v
  BY <1>1, <1>2, <1>3, <1>9, DigitsRead
<1> QED
  BY <1>10 DEF FromLittleEndian, b

LEMMA BitLengthBound ==
  ASSUME NEW k \in Nat, NEW v \in Nat, v < 2 ^ k
  PROVE  BitLength[v] <= k
<1> DEFINE K == {j \in Nat : \A u \in Nat : u < 2 ^ j => BitLength[u] <= j}
<1>1. 0 \in K
  <2>1. 2 ^ 0 = 1
    OBVIOUS
  <2>2. BitLength[0] = 0
    BY BitLengthDefined
  <2> QED
    BY <2>1, <2>2
<1>2. ASSUME NEW j \in Nat, j \in K PROVE j + 1 \in K
  <2>1. SUFFICES ASSUME NEW u \in Nat, u < 2 ^ (j + 1) PROVE BitLength[u] <= j + 1
    OBVIOUS
  <2>2. PICK m \in Nat : m = 2 ^ j /\ 2 ^ (j + 1) = 2 * m
    BY PowerOfTwo
  <2>3. u < 2 * m
    BY <2>1, <2>2
  <2>4. u \div 2 \in Nat /\ u \div 2 < m
    BY <2>3
  <2>5. BitLength[u \div 2] <= j
    BY <1>2, <2>2, <2>4
  <2>6. BitLength[u] = (IF u = 0 THEN 0 ELSE 1 + BitLength[u \div 2]) /\ BitLength[u \div 2] \in Nat
    BY <2>4, BitLengthDefined
  <2> QED
    BY <2>5, <2>6
<1>3. Nat \subseteq K
  <2> HIDE DEF K
  <2> QED
    BY <1>1, <1>2, SetInduction
<1> QED
  BY <1>3
-----------------------------------------------------------------------------
LEMMA LittleEndianBytes ==
  ASSUME NEW v \in Nat, NEW n \in Nat
  PROVE  LittleEndian(v, n) \in Seq(Byte) /\ Len(LittleEndian(v, n)) = n
<1> DEFINE b == LittleEndian(v, n)
<1>1. PICK rest : Digits(rest, v, n, 256, b)
  BY LittleEndianDigits
<1>2. \A i \in 1..n : b[i] \in Byte
  <2> TAKE i \in 1..n
  <2>1. i - 1 \in 0..n
    OBVIOUS
  <2>2. b[i] = rest[i - 1] % 256 /\ rest[i - 1] \in Nat
    BY <1>1, <2>1 DEF Digits
  <2>3. \A x \in Nat : x % 256 \in 0..255
    OBVIOUS
  <2> QED
    BY <2>2, <2>3 DEF Byte
<1>3. b = [i \in 1..n |-> b[i]]
  BY DEF LittleEndian
<1> HIDE DEF b
<1>4. b \in [1..n -> Byte]
  BY <1>2, <1>3
<1> QED
  BY <1>4 DEF b

(* A varint is written in groups, all but the last of which are marked. *)
Marked(s, n) == \A i \in 1..n : s[i] \in Byte /\ (s[i] < 128 <=> i = n)

Groups(rest, v, s, n) ==
  /\ rest \in [0..n -> Nat] /\ rest[0] = v /\ rest[n] = 0
  /\ \A i \in 1..n : rest[i] = rest[i - 1] \div 128 /\ s[i] % 128 = rest[i - 1] % 128

Grouped(v, s) ==
  \E n \in Nat \ {0} : s \in Seq(Nat) /\ Len(s) = n /\ Marked(s, n) /\ \E rest : Groups(rest, v, s, n)

LEMMA GroupBefore ==
  ASSUME NEW v \in Nat, v >= 128, NEW s, Grouped(v \div 128, s)
  PROVE  Grouped(v, <<(v % 128) + 128>> \o s)
<1> DEFINE w == v \div 128
           x == (v % 128) + 128
           t == <<x>> \o s
<1>1. PICK n \in Nat \ {0} : s \in Seq(Nat) /\ Len(s) = n /\ Marked(s, n) /\ \E rest : Groups(rest, w, s, n)
  BY DEF Grouped
<1>2. PICK rest : Groups(rest, w, s, n)
  BY <1>1
<1>3. x \in Nat /\ x \in 128..255 /\ x % 128 = v % 128 /\ w \in Nat
  OBVIOUS
<1> HIDE DEF x, w
<1>4. t \in Seq(Nat) /\ Len(t) = n + 1 /\ t[1] = x /\ \A i \in 2..(n + 1) : t[i] = s[i - 1]
  BY <1>1, <1>3
<1> HIDE DEF t
<1>5. Marked(t, n + 1)
  <2> SUFFICES ASSUME NEW i \in 1..(n + 1) PROVE t[i] \in Byte /\ (t[i] < 128 <=> i = n + 1)
    BY DEF Marked
  <2>1. CASE i = 1
    <3>1. t[i] = x /\ i # n + 1
      BY <1>1, <1>4, <2>1
    <3>2. x \in 0..255 /\ ~(x < 128)
      BY <1>3
    <3> QED
      BY <3>1, <3>2 DEF Byte
  <2>2. CASE i # 1
    <3>1. i \in 2..(n + 1) /\ i - 1 \in 1..n /\ (i - 1 = n <=> i = n + 1)
      BY <2>2
    <3> QED
      BY <1>1, <1>4, <3>1 DEF Marked
  <2> QED
    BY <2>1, <2>2
<1> DEFINE r == [i \in 0..(n + 1) |-> IF i = 0 THEN v ELSE rest[i - 1]]
<1>6. r \in [0..(n + 1) -> Nat] /\ r[0] = v /\ r[n + 1] = 0
      /\ \A i \in 1..(n + 1) : r[i] = rest[i - 1]
  <2>1. rest \in [0..n -> Nat] /\ rest[n] = 0
    BY <1>2 DEF Groups
  <2>2. \A i \in 0..(n + 1) : i = 0 \/ (i \in 1..(n + 1) /\ i - 1 \in 0..n)
    OBVIOUS
  <2>3. \A i \in 0..(n + 1) : r[i] = (IF i = 0 THEN v ELSE rest[i - 1]) /\ r[i] \in Nat
    BY <2>1, <2>2
  <2>4. r = [i \in 0..(n + 1) |-> r[i]]
    OBVIOUS
  <2> HIDE DEF r
  <2>5. r \in [0..(n + 1) -> Nat]
    BY <2>3, <2>4
  <2>6. 0 \in 0..(n + 1) /\ n + 1 \in 0..(n + 1) /\ (n + 1) - 1 = n /\ n + 1 # 0
        /\ \A i \in 1..(n + 1) : i \in 0..(n + 1) /\ i # 0
    OBVIOUS
  <2> QED
    BY <2>1, <2>3, <2>5, <2>6
<1> HIDE DEF r
<1>7. ASSUME NEW i \in 1..(n + 1) PROVE r[i] = r[i - 1] \div 128 /\ t[i] % 128 = r[i - 1] % 128
  <2>1. CASE i = 1
    <3>1. r[1] = rest[0] /\ r[0] = v /\ rest[0] = w
      BY <1>2, <1>6, <2>1 DEF Groups
    <3>2. i - 1 = 0 /\ w = v \div 128
      BY <2>1 DEF w
    <3> QED
      BY <1>3, <1>4, <2>1, <3>1, <3>2
  <2>2. CASE i # 1
    <3>1. PICK j \in 1..n : j = i - 1 /\ j \in 1..(n + 1) /\ i \in 2..(n + 1)
      BY <2>2
    <3>2. r[i] = rest[j] /\ r[j] = rest[j - 1] /\ t[i] = s[j]
      BY <1>4, <1>6, <3>1
    <3>3. rest[j] = rest[j - 1] \div 128 /\ s[j] % 128 = rest[j - 1] % 128
      BY <1>2 DEF Groups
    <3> QED
      BY <3>1, <3>2, <3>3
  <2> QED
    BY <2>1, <2>2
<1>8. Groups(r, v, t, n + 1)
  BY <1>6, <1>7 DEF Groups
<1>9. n + 1 \in Nat \ {0}
  OBVIOUS
<1>10. Grouped(v, t)
  BY <1>4, <1>5, <1>8, <1>9 DEF Grouped
<1> QED
  BY <1>10 DEF t, x

LEMMA Leb128Grouped ==
  ASSUME NEW v \in Nat
  PROVE  Grouped(v, Leb128[v])
<1> DEFINE K == {u \in Nat : ~Grouped(u, Leb128[u])}
<1>1. SUFFICES ASSUME K # {} PROVE FALSE
  OBVIOUS
<1>2. PICK u \in K : \A w \in K : u <= w
  BY <1>1, LeastNatural
<1>3. u \in Nat /\ ~Grouped(u, Leb128[u])
  OBVIOUS
<1>4. CASE u < 128
  <2> DEFINE s == <<u>>
             rest == [i \in 0..1 |-> IF i = 0 THEN u ELSE 0]
  <2>1. Leb128[u] = s
    BY <1>3, <1>4, Leb128Defined
  <2>2. s \in Seq(Nat) /\ Len(s) = 1 /\ s[1] = u
    BY <1>3
  <2>3. Marked(s, 1)
    BY <1>3, <1>4 DEF Marked, Byte
  <2>4. Groups(rest, u, s, 1)
    <3>1. u \div 128 = 0
      BY <1>3, <1>4
    <3>2. rest \in [0..1 -> Nat] /\ rest[0] = u /\ rest[1] = 0 /\ \A i \in 1..1 : i = 1 /\ i - 1 = 0
      BY <1>3
    <3> HIDE DEF rest
    <3> QED
      BY <2>2, <3>1, <3>2 DEF Groups
  <2> HIDE DEF s, rest
  <2>5. Grouped(u, s)
    BY <2>2, <2>3, <2>4 DEF Grouped
  <2> QED
    BY <1>3, <2>1, <2>5
<1>5. CASE u >= 128
  <2>1. PICK w \in Nat : w = u \div 128 /\ w < u
    BY <1>3, <1>5
  <2>2. Grouped(w, Leb128[w])
    <3>1. w \in K => u <= w
      BY <1>2
    <3>2. w \notin K
      BY <1>3, <2>1, <3>1
    <3> QED
      BY <2>1, <3>2
  <2>3. Leb128[u] = <<(u % 128) + 128>> \o Leb128[w]
    <3>1. ~(u < 128)
      BY <1>3, <1>5
    <3> QED
      BY <1>3, <2>1, <3>1, Leb128Defined
  <2> QED
    BY <1>3, <1>5, <2>1, <2>2, <2>3, GroupBefore
<1> QED
  BY <1>3, <1>4, <1>5
-----------------------------------------------------------------------------
(***************************************************************************)
(* What is written is found in the input, from a position on, as far as    *)
(* the input goes; and is read, or missed if it is cut off.                *)
(***************************************************************************)
Agrees(bytes, pos, b) == \A i \in 1..Len(b) : pos + i <= Len(bytes) => bytes[pos + i] = b[i]

Complete(bytes, pos, b) == pos + Len(b) <= Len(bytes)

Recovers(r, bytes, pos, b, x) ==
  IF Complete(bytes, pos, b) THEN r.status = "ok" /\ r.read = {x} /\ r.pos = pos + Len(b)
  ELSE r.status = "UnexpectedEnd"

(* The value itself is one that is read, and not a view. *)
Returns(r, bytes, pos, b, x) ==
  Recovers(r, bytes, pos, b, x) /\ (Complete(bytes, pos, b) => r.value = x)

LEMMA PlainReturns ==
  ASSUME NEW bytes, NEW pos, NEW b, NEW x, Complete(bytes, pos, b)
  PROVE  Returns(Plain(x, pos + Len(b)), bytes, pos, b, x)
BY DEF Returns, Recovers, Plain, Ok

LEMMA ErrReturns ==
  ASSUME NEW bytes, NEW pos, NEW b, NEW x, ~Complete(bytes, pos, b), NEW at
  PROVE  Returns(Err("UnexpectedEnd", at), bytes, pos, b, x)
BY DEF Returns, Recovers, Err

LEMMA BytesReturned ==
  ASSUME NEW bytes \in Seq(Byte), NEW pos \in 0..Len(bytes), NEW b \in Seq(Byte), Agrees(bytes, pos, b)
  PROVE  Returns(NextBytes(bytes, pos, Len(b)), bytes, pos, b, b)
<1> DEFINE n == Len(b)
           s == SubSeq(bytes, pos + 1, pos + n)
<1>1. n \in Nat /\ pos \in Nat /\ Len(bytes) \in Nat
  OBVIOUS
<1>2. CASE Complete(bytes, pos, b)
  <2>1. pos + n <= Len(bytes) /\ ~(Len(bytes) - pos < n)
    BY <1>1, <1>2 DEF Complete
  <2>2. s \in Seq(Byte) /\ Len(s) = n /\ \A i \in 1..n : s[i] = bytes[pos + i]
    <3> HIDE DEF n
    <3> QED
      BY <1>1, <2>1, SliceOf
  <2>3. \A i \in 1..n : s[i] = b[i]
    BY <1>1, <2>1, <2>2 DEF Agrees
  <2>4. s = b
    <3>1. s = [i \in 1..n |-> s[i]] /\ b = [i \in 1..n |-> b[i]]
      <4> HIDE DEF s
      <4> QED
        BY <2>2
    <3> HIDE DEF s
    <3> QED
      BY <2>3, <3>1
  <2>5. NextBytes(bytes, pos, n) = Plain(b, pos + n)
    BY <2>1, <2>4 DEF NextBytes
  <2> QED
    BY <1>2, <2>5, PlainReturns
<1>3. CASE ~Complete(bytes, pos, b)
  <2>1. Len(bytes) - pos < n
    BY <1>1, <1>3 DEF Complete
  <2>2. NextBytes(bytes, pos, n) = Err("UnexpectedEnd", pos)
    BY <2>1 DEF NextBytes
  <2> QED
    BY <1>3, <2>2, ErrReturns
<1> QED
  BY <1>2, <1>3

LEMMA NumberReturned ==
  ASSUME NEW bytes \in Seq(Byte), NEW pos \in 0..Len(bytes), NEW n \in Nat, NEW v, Holds(n, v),
         Agrees(bytes, pos, LittleEndian(v, n))
  PROVE  Returns(NextNumber(bytes, pos, n), bytes, pos, LittleEndian(v, n), v)
<1> DEFINE b == LittleEndian(v, n)
           image == NextBytes(bytes, pos, n)
<1>1. b \in Seq(Byte) /\ Len(b) = n
  BY LittleEndianBytes DEF Holds
<1>2. FromLittleEndian(b) = v
  BY NumberRead
<1>3. NextNumber(bytes, pos, n) =
        IF image.status = "ok" THEN Plain(FromLittleEndian(image.value), image.pos) ELSE image
  BY DEF NextNumber
<1>4. Agrees(bytes, pos, b)
  OBVIOUS
<1> HIDE DEF b
<1>5. Returns(image, bytes, pos, b, b)
  <2>1. Returns(NextBytes(bytes, pos, Len(b)), bytes, pos, b, b)
    BY <1>1, <1>4, BytesReturned
  <2> QED
    BY <1>1, <2>1
<1> HIDE DEF image
<1>6. CASE Complete(bytes, pos, b)
  <2>1. image.status = "ok" /\ image.value = b /\ image.pos = pos + Len(b)
    BY <1>5, <1>6 DEF Returns, Recovers
  <2> QED
    BY <1>2, <1>3, <1>6, <2>1, PlainReturns DEF b
<1>7. CASE ~Complete(bytes, pos, b)
  <2>1. image.status = "UnexpectedEnd"
    BY <1>5, <1>7 DEF Returns, Recovers
  <2> QED
    BY <1>3, <1>5, <1>7, <2>1 DEF b, Returns, Recovers
<1> QED
  BY <1>6, <1>7
-----------------------------------------------------------------------------
LEMMA Leb128Bytes ==
  ASSUME NEW v \in Nat
  PROVE  Leb128[v] \in Seq(Byte)
<1>1. PICK n \in Nat \ {0} : Leb128[v] \in Seq(Nat) /\ Len(Leb128[v]) = n /\ Marked(Leb128[v], n)
  BY Leb128Grouped DEF Grouped
<1>2. \A i \in 1..n : Leb128[v][i] \in Byte
  BY <1>1 DEF Marked
<1> DEFINE s == Leb128[v]
<1> HIDE DEF s
<1>3. s \in Seq(Nat) /\ Len(s) = n /\ \A i \in 1..n : s[i] \in Byte
  BY <1>1, <1>2 DEF s
<1>4. s \in Seq(Byte)
  <2>1. s = [i \in 1..n |-> s[i]]
    BY <1>3
  <2>2. s \in [1..n -> Byte]
    BY <1>3, <2>1
  <2> QED
    BY <2>2
<1> QED
  BY <1>4 DEF s

(* The groups of a varint end before the decoder gives up. *)
LEMMA VarintLenBound ==
  ASSUME NEW v \in Nat, NEW width \in Nat, BitLength[v] <= width
  PROVE  VarintLen(v) <= width \div 7 + 1
<1>1. BitLength[v] \in Nat
  BY BitLengthDefined
<1> DEFINE k == BitLength[v]
<1> HIDE DEF k
<1>2. k \in Nat /\ k <= width
  BY <1>1 DEF k
<1>3. (k + 6) \div 7 <= width \div 7 + 1 /\ 1 <= width \div 7 + 1
  BY <1>2
<1>4. VarintLen(v) = IF (k + 6) \div 7 > 1 THEN (k + 6) \div 7 ELSE 1
  BY DEF VarintLen, k
<1> QED
  BY <1>3, <1>4

(* Nor are bits cut from them by a type that holds the number. *)
LEMMA HeldByBits ==
  ASSUME NEW k \in Nat, NEW v \in Nat, BitLength[v] <= k
  PROVE  v < 2 ^ k
<1> DEFINE K == {j \in Nat : \A u \in Nat : BitLength[u] <= j => u < 2 ^ j}
<1>1. 0 \in K
  <2>1. 2 ^ 0 = 1
    OBVIOUS
  <2> QED
    BY <2>1, NoBits
<1>2. ASSUME NEW j \in Nat, j \in K PROVE j + 1 \in K
  <2>1. SUFFICES ASSUME NEW u \in Nat, BitLength[u] <= j + 1 PROVE u < 2 ^ (j + 1)
    OBVIOUS
  <2>2. PICK m \in Nat \ {0} : m = 2 ^ j /\ 2 ^ (j + 1) = 2 * m
    BY PowerOfTwo
  <2>3. u \div 2 \in Nat
    OBVIOUS
  <2>4. BitLength[u] = (IF u = 0 THEN 0 ELSE 1 + BitLength[u \div 2]) /\ BitLength[u \div 2] \in Nat
    BY <2>3, BitLengthDefined
  <2>5. u # 0 => u \div 2 < m
    BY <1>2, <2>1, <2>2, <2>3, <2>4
  <2>6. u # 0 => u < 2 * m
    BY <2>3, <2>5
  <2> QED
    BY <2>2, <2>6
<1>3. Nat \subseteq K
  <2> HIDE DEF K
  <2> QED
    BY <1>1, <1>2, SetInduction
<1> QED
  BY <1>3

LEMMA GroupsHeld ==
  ASSUME NEW v \in Nat, NEW n \in Nat, NEW s, NEW rest, Groups(rest, v, s, n),
         NEW bits \in Nat, BitLength[v] <= bits
  PROVE  \A i \in 0..n : rest[i] = 0 \/ BitLength[rest[i]] + 7 * i <= bits
<1> DEFINE K == {k \in Nat : k <= n => rest[k] = 0 \/ BitLength[rest[k]] + 7 * k <= bits}
<1>1. 0 \in K
  <2>1. BitLength[v] \in Nat
    BY BitLengthDefined
  <2> QED
    BY <2>1 DEF Groups
<1>2. ASSUME NEW k \in Nat, k \in K PROVE k + 1 \in K
  <2>1. SUFFICES ASSUME k + 1 <= n, rest[k + 1] # 0 PROVE BitLength[rest[k + 1]] + 7 * (k + 1) <= bits
    OBVIOUS
  <2>2. k + 1 \in 1..n /\ k \in 0..n /\ (k + 1) - 1 = k
    BY <2>1
  <2>3. PICK w \in Nat : w = rest[k] /\ rest[k + 1] = w \div 128
    BY <2>2 DEF Groups
  <2>4. w >= 128
    BY <2>1, <2>3
  <2>5. BitLength[w] = 7 + BitLength[w \div 128]
    BY <2>4, BitLengthOfGroup
  <2>6. PICK x \in Nat : x = BitLength[w \div 128]
    <3>1. w \div 128 \in Nat
      OBVIOUS
    <3> QED
      BY <3>1, BitLengthDefined
  <2>7. BitLength[w] + 7 * k <= bits
    BY <1>2, <2>2, <2>3, <2>4
  <2> QED
    BY <2>3, <2>5, <2>6, <2>7
<1>3. Nat \subseteq K
  <2> HIDE DEF K
  <2> QED
    BY <1>1, <1>2, SetInduction
<1> QED
  BY <1>3

LEMMA CastKeeps ==
  ASSUME NEW v \in Nat, NEW n \in Nat, n <= 10, NEW s, NEW rest, Groups(rest, v, s, n),
         NEW bits \in Nat, BitLength[v] <= bits,
         NEW groups, groups = [i \in 1..n |-> s[i] % 128]
  PROVE  Cast(Shifted(groups), bits) = groups
<1>1. Len(groups) = n /\ DOMAIN groups = 1..n
  OBVIOUS
<1>2. Shifted(groups) = groups
  BY <1>1 DEF Shifted
<1> DEFINE Of(i) == IF 7 * i <= bits THEN groups[i]
                    ELSE IF 7 * (i - 1) < bits THEN groups[i] % 2 ^ (bits - 7 * (i - 1)) ELSE 0
<1>3. ASSUME NEW i \in 1..n PROVE Of(i) = groups[i]
  <2>1. i - 1 \in 0..n /\ i \in Nat
    OBVIOUS
  <2>2. PICK w \in Nat : w = rest[i - 1] /\ groups[i] = w % 128
    BY <2>1 DEF Groups
  <2>3. w = 0 \/ BitLength[w] + 7 * (i - 1) <= bits
    BY <2>1, <2>2, GroupsHeld
  <2>4. BitLength[w] \in Nat
    BY BitLengthDefined
  <2>5. CASE 7 * (i - 1) >= bits
    <3>1. w = 0
      BY <2>1, <2>3, <2>4, <2>5, NoBits
    <3> QED
      BY <2>1, <2>2, <2>5, <3>1
  <2>6. CASE 7 * (i - 1) < bits /\ ~(7 * i <= bits)
    <3>1. PICK m \in 1..6 : m = bits - 7 * (i - 1)
      BY <2>1, <2>6
    <3>2. BitLength[w] <= m
      <4>1. CASE w = 0
        <5>1. BitLength[w] = 0
          BY <4>1, BitLengthDefined
        <5> QED
          BY <5>1
      <4>2. PICK x \in Nat : x = BitLength[w]
        BY <2>4
      <4>3. CASE x + 7 * (i - 1) <= bits
        BY <2>1, <3>1, <4>2, <4>3
      <4> QED
        BY <2>3, <4>1, <4>2, <4>3
    <3>3. w < 2 ^ m
      BY <3>2, HeldByBits
    <3>4. 2 ^ m \in Nat /\ 2 ^ m <= 64
      <4>1. 2 ^ 1 = 2 /\ 2 ^ 2 = 4 /\ 2 ^ 3 = 8 /\ 2 ^ 4 = 16 /\ 2 ^ 5 = 32 /\ 2 ^ 6 = 64
        OBVIOUS
      <4>2. m = 1 \/ m = 2 \/ m = 3 \/ m = 4 \/ m = 5 \/ m = 6
        OBVIOUS
      <4>3. 2 ^ m \in {2, 4, 8, 16, 32, 64}
        BY <4>1, <4>2
      <4> QED
        BY <4>3
    <3>5. groups[i] = w
      BY <2>2, <3>3, <3>4
    <3>6. w % 2 ^ m = w
      BY <3>3, <3>4, SmallRest
    <3> QED
      BY <2>6, <3>1, <3>5, <3>6
  <2>7. CASE 7 * i <= bits
    BY <2>7
  <2> QED
    BY <2>1, <2>5, <2>6, <2>7
<1>4. Cast(groups, bits) = [i \in 1..n |-> Of(i)]
  BY <1>1 DEF Cast
<1> HIDE DEF Of
<1>5. [i \in 1..n |-> Of(i)] = [i \in 1..n |-> groups[i]]
  BY <1>3
<1> QED
  BY <1>2, <1>4, <1>5

LEMMA VarintReturned ==
  ASSUME NEW bytes \in Seq(Byte), NEW pos \in 0..Len(bytes), NEW v \in Nat, v < Huge,
         NEW width \in 0..64, BitLength[v] <= width, NEW bits \in Nat, BitLength[v] <= bits,
         Agrees(bytes, pos, Leb128[v])
  PROVE  Returns(NextVarint(bytes, pos, width, bits), bytes, pos, Leb128[v], v)
<1> DEFINE s == Leb128[v]
<1>1. PICK n \in Nat \ {0} : s \in Seq(Nat) /\ Len(s) = n /\ Marked(s, n)
                             /\ \E rest : Groups(rest, v, s, n)
  BY Leb128Grouped DEF Grouped
<1>2. n <= width \div 7 + 1
  <2>1. width \in Nat /\ Len(s) = VarintLen(v)
    BY VarintLenExact
  <2> QED
    BY <1>1, <2>1, VarintLenBound
<1> DEFINE ends == {i \in pos + 1..Len(bytes) : bytes[i] < 128}
           last == IF ends = {} THEN Len(bytes) + 1 ELSE Min(ends)
           longest == pos + (width \div 7) + 2
           groups == [i \in 1..last - pos |-> bytes[pos + i] % 128]
<1>3. NextVarint(bytes, pos, width, bits) =
        IF OverflowChecks /\ Min({last, longest}) \in pos + 11..Len(bytes) THEN Err("panic", pos + 11)
        ELSE IF last > longest
        THEN Err(IF longest <= Len(bytes) THEN "VarintOverflow" ELSE "UnexpectedEnd",
                 Min({longest, Len(bytes)}))
        ELSE IF last > Len(bytes) THEN Err("UnexpectedEnd", Len(bytes))
        ELSE Plain(FromDigits(Cast(Shifted(groups), bits), 128), last)
  BY DEF NextVarint
<1>4. Len(s) = n /\ Agrees(bytes, pos, s)
  BY <1>1
<1>5. \A i \in 1..n : s[i] \in Byte /\ (s[i] < 128 <=> i = n)
  BY <1>1 DEF Marked
<1>6. PICK rest : Groups(rest, v, s, n)
  BY <1>1
<1> HIDE DEF s
<1>7. \A i \in 1..n : pos + i <= Len(bytes) => bytes[pos + i] = s[i]
  BY <1>4 DEF Agrees
<1>8. pos \in Nat /\ Len(bytes) \in Nat /\ width \in Nat /\ width \div 7 \in Nat
  OBVIOUS
<1>8a. n <= 10
  BY <1>2
<1>9. \A i \in ends : i - pos \in 1..n => i = pos + n
  <2> TAKE i \in ends
  <2> SUFFICES ASSUME i - pos \in 1..n PROVE i = pos + n
    OBVIOUS
  <2>1. i \in Nat /\ i <= Len(bytes) /\ bytes[i] < 128 /\ pos + (i - pos) = i
    BY <1>8
  <2>2. bytes[i] = s[i - pos]
    BY <1>7, <2>1
  <2>3. i - pos = n
    BY <1>5, <2>1, <2>2
  <2> QED
    BY <1>8, <2>1, <2>3
<1>10. CASE Complete(bytes, pos, s)
  <2>1. pos + n <= Len(bytes)
    BY <1>4, <1>10 DEF Complete
  <2>2. pos + n \in ends
    <3>1. bytes[pos + n] = s[n] /\ s[n] < 128
      BY <1>5, <1>7, <2>1
    <3> QED
      BY <1>8, <2>1, <3>1
  <2>3. \A i \in ends : pos + n <= i
    <3> TAKE i \in ends
    <3>1. i \in Nat /\ pos + 1 <= i
      BY <1>8
    <3> QED
      BY <1>8, <1>9, <3>1
  <2>4. Min(ends) = pos + n
    <3>1. ends \in SUBSET Nat
      BY <1>8
    <3> HIDE DEF ends
    <3>2. Min(ends) \in ends /\ Min(ends) <= pos + n
      BY <2>2, <3>1, MinOfNaturals
    <3>3. Min(ends) \in Nat /\ pos + n <= Min(ends)
      BY <2>3, <3>1, <3>2
    <3> QED
      BY <1>8, <3>2, <3>3
  <2>5. last = pos + n
    BY <2>2, <2>4
  <2> HIDE DEF ends, last
  <2>6. NextVarint(bytes, pos, width, bits)
          = Plain(FromDigits(Cast(Shifted(groups), bits), 128), pos + n)
    <3>1. Min({last, longest}) <= pos + n /\ ~(last > longest)
      <4>1. last \in Nat /\ longest \in Nat /\ last <= longest
        BY <1>2, <1>8, <2>5
      <4> HIDE DEF longest
      <4>2. Min({last, longest}) = last
        BY <4>1, MinOfTwo
      <4> QED
        BY <1>8, <2>5, <4>1, <4>2
    <3>2. Min({last, longest}) \notin pos + 11..Len(bytes)
      BY <1>8, <1>8a, <3>1
    <3> HIDE DEF longest, groups
    <3> QED
      BY <1>3, <2>1, <2>5, <3>1, <3>2
  <2>7. groups = [i \in 1..n |-> bytes[pos + i] % 128]
    <3>1. last - pos = n
      BY <1>8, <2>5
    <3> QED
      BY <3>1
  <2>12. groups = [i \in 1..n |-> s[i] % 128]
    <3>1. \A i \in 1..n : bytes[pos + i] % 128 = s[i] % 128
      <4> TAKE i \in 1..n
      <4>1. pos + i <= Len(bytes)
        BY <1>8, <2>1
      <4> QED
        BY <1>7, <4>1
    <3> QED
      BY <2>7, <3>1
  <2> HIDE DEF groups
  <2>13. Cast(Shifted(groups), bits) = groups
    BY <1>6, <1>8a, <2>12, CastKeeps
  <2>8. Len(groups) = n
    <3>1. n \in Nat
      OBVIOUS
    <3> QED
      BY <2>7, <3>1
  <2>9. \A i \in 1..n : groups[i] = s[i] % 128
    <3> SUFFICES ASSUME NEW i \in 1..n PROVE groups[i] = s[i] % 128
      OBVIOUS
    <3>1. i \in 1..n /\ pos + i <= Len(bytes)
      BY <1>8, <2>1
    <3>2. groups[i] = bytes[pos + i] % 128
      BY <2>7
    <3> QED
      BY <1>7, <3>1, <3>2
  <2>10. Digits(rest, v, n, 128, groups) /\ rest[n] = 0
    BY <1>6, <2>9 DEF Groups, Digits
  <2>11. FromDigits(groups, 128) = v
    BY <2>8, <2>10, DigitsRead
  <2> QED
    BY <1>4, <1>10, <2>6, <2>11, <2>13, PlainReturns DEF s
<1>11. CASE ~Complete(bytes, pos, s)
  <2>1. Len(bytes) < pos + n
    BY <1>4, <1>8, <1>11 DEF Complete
  <2>2. ends = {}
    <3> SUFFICES ASSUME NEW i \in ends PROVE FALSE
      OBVIOUS
    <3>1. i \in Nat /\ pos + 1 <= i /\ i <= Len(bytes)
      BY <1>8
    <3> QED
      BY <1>8, <1>9, <2>1, <3>1
  <2>3. last = Len(bytes) + 1
    BY <2>2
  <2> HIDE DEF ends, last, groups
  <2>4. NextVarint(bytes, pos, width, bits) = Err("UnexpectedEnd", Len(bytes))
    <3>1. pos + 11..Len(bytes) = {}
      BY <1>8, <1>8a, <2>1
    <3>3. ~(last > longest) /\ last > Len(bytes)
      BY <1>2, <1>8, <2>1, <2>3
    <3> HIDE DEF longest
    <3> QED
      BY <1>3, <3>1, <3>3
  <2> QED
    BY <1>11, <2>4, ErrReturns DEF s
<1> QED
  BY <1>10, <1>11
-----------------------------------------------------------------------------
LEMMA HeldVarintReturned ==
  ASSUME NEW bytes \in Seq(Byte), NEW pos \in 0..Len(bytes), NEW n \in VarintSize, NEW v, Holds(n, v),
         Agrees(bytes, pos, Leb128[v])
  PROVE  Returns(DecodeVarint(n, bytes, pos), bytes, pos, Leb128[v], v)
<1>1. v \in Nat /\ v < Huge /\ BitLength[v] <= 8 * n
  BY DEF Holds
<1>2. 8 * n \in Nat /\ 8 * n \in 0..64
  BY DEF VarintSize
<1> QED
  BY <1>1, <1>2, VarintReturned DEF DecodeVarint

(* The length of a sequence, that its type has room for. *)
Fits(len_ty, n) == n \in Nat /\ n < 2 ^ LenBits(len_ty) /\ n < Huge

LEMMA LengthBytes ==
  ASSUME NEW len_ty \in Nat, NEW n \in Nat
  PROVE  LenBytes(len_ty, n) \in Seq(Byte)
BY Leb128Bytes, LittleEndianBytes DEF LenBytes

LEMMA LengthTypeBits ==
  ASSUME NEW len_ty \in LenType
  PROVE  /\ LenBits(len_ty) \in 0..64 /\ LenBits(len_ty) \in Nat
         /\ len_ty \in Nat /\ (IsVarint(len_ty) => len_ty - 8 \in VarintSize)
<1>1. LenBits(len_ty) \in 0..64
  <2>1. CASE len_ty \in 1..8
    BY <2>1 DEF LenBits, IsVarint
  <2>2. CASE len_ty \in {8 + s : s \in VarintSize}
    BY <2>2 DEF LenBits, IsVarint, VarintSize
  <2> QED
    BY <2>1, <2>2 DEF LenType
<1>2. len_ty \in Nat
  BY DEF LenType, VarintSize
<1>3. ASSUME IsVarint(len_ty) PROVE len_ty - 8 \in VarintSize
  <2>1. len_ty \in {8 + s : s \in VarintSize}
    BY <1>3 DEF LenType, IsVarint
  <2> QED
    BY <2>1 DEF VarintSize
<1> QED
  BY <1>1, <1>2, <1>3

LEMMA LengthReturned ==
  ASSUME NEW bytes \in Seq(Byte), NEW pos \in 0..Len(bytes), NEW len_ty \in LenType, NEW n,
         Fits(len_ty, n), Agrees(bytes, pos, LenBytes(len_ty, n))
  PROVE  /\ Returns(NextLength(len_ty, bytes, pos), bytes, pos, LenBytes(len_ty, n), n)
         /\ IsVarint(len_ty) =>
              Returns(NextEagerLength(len_ty, bytes, pos), bytes, pos, LenBytes(len_ty, n), n)
<1>1. n \in Nat /\ n < Huge /\ n < 2 ^ LenBits(len_ty)
  BY DEF Fits
<1>2. LenBits(len_ty) \in 0..64 /\ LenBits(len_ty) \in Nat
      /\ len_ty \in Nat /\ (IsVarint(len_ty) => len_ty - 8 \in VarintSize)
  BY LengthTypeBits
<1>3. BitLength[n] <= LenBits(len_ty)
  BY <1>1, <1>2, BitLengthBound
<1>4. CASE IsVarint(len_ty)
  <2>1. len_ty - 8 \in VarintSize /\ LenBits(len_ty) = 8 * (len_ty - 8)
    BY <1>2, <1>4 DEF LenBits
  <2>2. Holds(len_ty - 8, n)
    BY <1>1, <1>3, <2>1 DEF Holds
  <2>3. LenBytes(len_ty, n) = Leb128[n]
    BY <1>4 DEF LenBytes
  <2>4. Returns(DecodeVarint(len_ty - 8, bytes, pos), bytes, pos, Leb128[n], n)
    BY <2>1, <2>2, <2>3, HeldVarintReturned
  <2>5. Returns(NextVarint(bytes, pos, LenBits(len_ty), 64), bytes, pos, Leb128[n], n)
    <3>1. BitLength[n] <= 64
      <4>1. PICK x \in Nat : x = BitLength[n]
        BY <1>1, BitLengthDefined
      <4>2. PICK y \in Nat : y = LenBits(len_ty) /\ y <= 64
        BY <1>2
      <4>3. x <= y
        BY <1>3, <4>1, <4>2
      <4> QED
        BY <4>1, <4>2, <4>3
    <3> QED
      BY <1>1, <1>2, <1>3, <2>3, <3>1, VarintReturned
  <2> QED
    BY <1>4, <2>3, <2>4, <2>5 DEF NextLength, NextEagerLength
<1>5. CASE ~IsVarint(len_ty)
  <2>1. LenBits(len_ty) = 8 * len_ty
    BY <1>5 DEF LenBits
  <2>2. Holds(len_ty, n)
    BY <1>1, <1>3, <2>1 DEF Holds
  <2>3. LenBytes(len_ty, n) = LittleEndian(n, len_ty)
    BY <1>5 DEF LenBytes
  <2>4. Returns(NextNumber(bytes, pos, len_ty), bytes, pos, LittleEndian(n, len_ty), n)
    BY <1>2, <2>2, <2>3, NumberReturned
  <2> QED
    BY <1>5, <2>3, <2>4 DEF NextLength
<1> QED
  BY <1>4, <1>5
-----------------------------------------------------------------------------
(***************************************************************************)
(* The parts of a value follow each other in its encoding: h[i] is where   *)
(* the i-th ends.                                                          *)
(***************************************************************************)
AreBytes(seqs, n) == \A i \in 1..n : seqs[i] \in Seq(Byte)

Ends(h, seqs, n) ==
  /\ h[0] = 0 /\ \A i \in 0..n : h[i] \in Nat
  /\ \A i \in 1..n : h[i] = h[i - 1] + Len(seqs[i])

Holding(b, h, seqs, n) == \A i \in 1..n : \A j \in 1..Len(seqs[i]) : b[h[i - 1] + j] = seqs[i][j]

LaidOut(b, h, seqs, n) ==
  /\ Ends(h, seqs, n) /\ Holding(b, h, seqs, n)
  /\ b \in Seq(Byte) /\ Len(b) = h[n]

LEMMA EndsGrow ==
  ASSUME NEW n \in Nat, NEW seqs, AreBytes(seqs, n), NEW h, Ends(h, seqs, n),
         NEW i \in 0..n, NEW j \in 0..n, i <= j
  PROVE  h[i] \in Nat /\ h[j] \in Nat /\ h[i] <= h[j]
<1> DEFINE a == [k \in 1..n |-> Len(seqs[k])]
<1>1. \A k \in 1..n : Len(seqs[k]) \in Nat
  BY DEF AreBytes
<1>2. a \in [1..n -> Nat] /\ \A k \in 1..n : a[k] = Len(seqs[k])
  BY <1>1
<1> HIDE DEF a
<1> DEFINE f == [k \in 0..n |-> h[k]]
<1>3. SumsTo(f, n, a)
  <2>1. f \in [0..n -> Nat] /\ f[0] = 0
    BY DEF Ends
  <2>2. ASSUME NEW k \in 1..n PROVE f[k] = f[k - 1] + a[k]
    <3>1. k \in 0..n /\ k - 1 \in 0..n
      OBVIOUS
    <3> QED
      BY <1>2, <3>1 DEF Ends
  <2> HIDE DEF f
  <2> QED
    BY <2>1, <2>2 DEF SumsTo
<1>4. f[i] = h[i] /\ f[j] = h[j] /\ h[i] \in Nat /\ h[j] \in Nat
  BY DEF Ends
<1> HIDE DEF f
<1>5. f[i] <= f[j]
  BY <1>2, <1>3, SumsGrow
<1> QED
  BY <1>4, <1>5

LEMMA AppendHolding ==
  ASSUME NEW k \in Nat, NEW seqs, AreBytes(seqs, k + 1), NEW h, Ends(h, seqs, k + 1),
         NEW b \in Seq(Byte), Len(b) = h[k], Holding(b, h, seqs, k)
  PROVE  /\ b \o seqs[k + 1] \in Seq(Byte) /\ Len(b \o seqs[k + 1]) = h[k + 1]
         /\ Holding(b \o seqs[k + 1], h, seqs, k + 1)
<1> DEFINE s == seqs[k + 1]
           t == b \o s
<1>1. PICK m \in 1..(k + 1) : m = k + 1
  OBVIOUS
<1>2. s \in Seq(Byte)
  BY <1>1 DEF AreBytes
<1>3. h[k + 1] = h[k] + Len(s)
  <2>1. m - 1 = k
    BY <1>1
  <2> QED
    BY <1>1, <2>1 DEF Ends
<1> HIDE DEF s
<1>4. t \in Seq(Byte) /\ Len(t) = h[k + 1] /\ Len(b) \in Nat /\ Len(s) \in Nat
  BY <1>2, <1>3
<1>5. (\A i \in 1..Len(b) : t[i] = b[i]) /\ (\A i \in 1..Len(s) : t[Len(b) + i] = s[i])
  BY <1>2
<1> HIDE DEF t
<1>6. ASSUME NEW i \in 1..(k + 1), NEW j \in 1..Len(seqs[i]) PROVE t[h[i - 1] + j] = seqs[i][j]
  <2>1. CASE i = k + 1
    <3>1. i - 1 = k /\ j \in 1..Len(s) /\ seqs[i] = s
      BY <2>1 DEF s
    <3> QED
      BY <1>5, <3>1
  <2>2. CASE i # k + 1
    <3>1. i \in 1..k /\ i \in 0..(k + 1) /\ i - 1 \in 0..(k + 1) /\ k \in 0..(k + 1) /\ i <= k
      BY <2>2
    <3>2. b[h[i - 1] + j] = seqs[i][j]
      BY <3>1 DEF Holding
    <3>3. h[i] = h[i - 1] + Len(seqs[i]) /\ seqs[i] \in Seq(Byte)
      BY DEF Ends, AreBytes
    <3>4. k + 1 \in Nat
      OBVIOUS
    <3>5. h[i] \in Nat /\ h[i] <= h[k]
      BY <3>1, <3>4, EndsGrow
    <3>6. h[i - 1] \in Nat
      BY <3>1 DEF Ends
    <3>7. Len(seqs[i]) \in Nat
      BY <3>3
    <3>8. h[i - 1] + j \in 1..Len(b)
      <4>1. h[i - 1] + j <= h[i]
        BY <3>3, <3>6, <3>7
      <4> QED
        BY <1>4, <3>5, <3>6, <4>1
    <3> QED
      BY <1>5, <3>2, <3>8
  <2> QED
    BY <2>1, <2>2
<1>7. Holding(t, h, seqs, k + 1)
  BY <1>6 DEF Holding
<1> QED
  BY <1>4, <1>7 DEF t, s

LEMMA FlattenLaidOut ==
  ASSUME NEW n \in Nat, NEW seqs, Listed(seqs, n), AreBytes(seqs, n)
  PROVE  \E h : LaidOut(FlattenSeq(seqs), h, seqs, n)
<1>1. seqs = [i \in 1..n |-> seqs[i]] /\ \A i \in 1..n : seqs[i] \in Seq(Byte)
  BY DEF AreBytes, Listed
<1>2. seqs \in [1..n -> Seq(Byte)]
  BY <1>1
<1>3. seqs \in Seq(Seq(Byte)) /\ Len(seqs) = n
  BY <1>2
<1>4. CASE n = 0
  <2>1. seqs = <<>>
    BY <1>3, <1>4
  <2>2. FlattenSeq(seqs) = <<>>
    BY <2>1 DEF FlattenSeq
  <2> DEFINE h == [i \in 0..0 |-> 0]
  <2>3. h \in [0..n -> Nat] /\ h[0] = 0 /\ h[n] = 0 /\ 1..n = {}
    BY <1>4
  <2>4. <<>> \in Seq(Byte) /\ Len(<<>>) = 0
    OBVIOUS
  <2> HIDE DEF h
  <2>5. LaidOut(<<>>, h, seqs, n)
    BY <2>3, <2>4 DEF LaidOut, Ends, Holding
  <2> QED
    BY <2>2, <2>5
<1>5. CASE n # 0
  <2>1. seqs # <<>>
    BY <1>3, <1>5
  <2>2. PICK f \in [1..Len(seqs) -> Seq(Byte)] :
          /\ f[1] = seqs[1]
          /\ \A i \in 2..Len(seqs) : f[i] = f[i - 1] \o seqs[i]
          /\ FlattenSeq(seqs) = f[Len(seqs)]
    BY <1>3, <2>1, FlattenDefined
  <2> DEFINE T == Seq(Byte)
  <2>3. f \in [1..n -> T] /\ f[1] = seqs[1] /\ FlattenSeq(seqs) = f[n]
        /\ \A i \in 2..n : f[i] = f[i - 1] \o seqs[i]
    BY <1>3, <2>2
  <2>4. ASSUME NEW i \in 1..n PROVE f[i] \in Seq(Byte) /\ Len(f[i]) \in Nat
    <3>1. f[i] \in T
      <4> HIDE DEF T
      <4> QED
        BY <2>3
    <3> QED
      BY <3>1
  <2> DEFINE h == [i \in 0..n |-> IF i = 0 THEN 0 ELSE Len(f[i])]
  <2>5. h \in [0..n -> Nat] /\ h[0] = 0 /\ \A i \in 1..n : h[i] = Len(f[i])
    BY <2>4
  <2> HIDE DEF h, T
  <2>6. ASSUME NEW i \in 1..n PROVE h[i] = h[i - 1] + Len(seqs[i])
    <3>1. CASE i = 1
      <4>1. h[1] = Len(seqs[1]) /\ h[1 - 1] = 0 /\ Len(seqs[1]) \in Nat
        <5>1. 1 \in 1..n /\ 1 - 1 = 0
          BY <1>5
        <5>2. seqs[1] \in Seq(Byte)
          BY <1>1, <5>1
        <5> QED
          BY <2>3, <2>5, <5>1, <5>2
      <4> QED
        BY <3>1, <4>1
    <3>2. CASE i # 1
      <4>1. i \in 2..n /\ i - 1 \in 1..n
        BY <3>2
      <4>2. f[i] = f[i - 1] \o seqs[i] /\ f[i - 1] \in Seq(Byte) /\ seqs[i] \in Seq(Byte)
        BY <1>1, <2>3, <2>4, <4>1
      <4>3. Len(f[i]) = Len(f[i - 1]) + Len(seqs[i])
        BY <4>2
      <4> QED
        BY <2>5, <4>1, <4>3
    <3> QED
      BY <3>1, <3>2
  <2>7. Ends(h, seqs, n)
    BY <2>5, <2>6 DEF Ends
  <2> DEFINE K == {k \in Nat : k + 1 \in 1..n => Holding(f[k + 1], h, seqs, k + 1)}
  <2>8. 0 \in K
    <3>1. Holding(seqs[1], h, seqs, 1)
      <4> SUFFICES ASSUME NEW i \in 1..1, NEW j \in 1..Len(seqs[i])
                   PROVE  seqs[1][h[i - 1] + j] = seqs[i][j]
        BY DEF Holding
      <4>1. i = 1 /\ h[1 - 1] = 0 /\ 0 + j = j
        BY <2>5
      <4> QED
        BY <4>1
    <3> QED
      BY <2>3, <3>1
  <2>9. ASSUME NEW k \in Nat, k \in K PROVE k + 1 \in K
    <3> SUFFICES ASSUME k + 2 \in 1..n PROVE Holding(f[k + 2], h, seqs, k + 2)
      OBVIOUS
    <3>1. PICK m \in Nat : m = k + 1
      OBVIOUS
    <3>2. m \in 1..n /\ m + 1 \in 2..n /\ m + 1 = k + 2 /\ (m + 1) - 1 = m
      BY <3>1
    <3>3. Holding(f[m], h, seqs, m) /\ f[m] \in Seq(Byte) /\ Len(f[m]) = h[m]
      BY <2>4, <2>5, <2>9, <3>1, <3>2
    <3>4. Ends(h, seqs, m + 1) /\ AreBytes(seqs, m + 1)
      <4>1. \A i \in 0..(m + 1) : i \in 0..n
        BY <3>2
      <4>2. \A i \in 1..(m + 1) : i \in 1..n
        BY <3>2
      <4> QED
        BY <1>1, <2>7, <4>1, <4>2 DEF Ends, AreBytes
    <3>5. f[m + 1] = f[m] \o seqs[m + 1]
      BY <2>3, <3>2
    <3>6. Holding(f[m + 1], h, seqs, m + 1)
      BY <3>3, <3>4, <3>5, AppendHolding
    <3> QED
      BY <3>2, <3>6
  <2>10. Holding(f[n], h, seqs, n)
    <3> HIDE DEF K
    <3>1. Nat \subseteq K
      BY <2>8, <2>9, SetInduction
    <3>2. PICK k \in Nat : k + 1 = n
      <4>1. n - 1 \in Nat /\ (n - 1) + 1 = n
        BY <1>5
      <4> QED
        BY <4>1
    <3>3. k \in K /\ k + 1 \in 1..n
      BY <3>1, <3>2
    <3> QED
      BY <3>2, <3>3 DEF K
  <2>11. n \in 1..n
    BY <1>5
  <2>12. LaidOut(f[n], h, seqs, n)
    BY <2>4, <2>5, <2>7, <2>10, <2>11 DEF LaidOut
  <2> QED
    BY <2>3, <2>12
<1> QED
  BY <1>4, <1>5

(* Parts of what is found are found. *)
LEMMA PartsAgree ==
  ASSUME NEW bytes \in Seq(Byte), NEW pos \in Nat, NEW n \in Nat, NEW seqs, AreBytes(seqs, n),
         NEW h, NEW b, LaidOut(b, h, seqs, n), Agrees(bytes, pos, b), NEW i \in 1..n
  PROVE  Agrees(bytes, pos + h[i - 1], seqs[i])
<1>1. i \in 0..n /\ i - 1 \in 0..n /\ n \in 0..n /\ i <= n
  OBVIOUS
<1>2. h[i] \in Nat /\ h[n] \in Nat /\ h[i] <= h[n]
  BY <1>1, EndsGrow DEF LaidOut
<1>3. h[i - 1] \in Nat /\ h[i] = h[i - 1] + Len(seqs[i])
  BY <1>1 DEF LaidOut, Ends
<1>4. Len(seqs[i]) \in Nat /\ Len(b) = h[n]
  BY DEF AreBytes, LaidOut
<1> SUFFICES ASSUME NEW j \in 1..Len(seqs[i]), (pos + h[i - 1]) + j <= Len(bytes)
             PROVE  bytes[(pos + h[i - 1]) + j] = seqs[i][j]
  BY DEF Agrees
<1>5. b[h[i - 1] + j] = seqs[i][j]
  BY DEF LaidOut, Holding
<1> PICK q \in Nat : q = h[i - 1]
  BY <1>3
<1>6. PICK k \in Nat : k = q + j
  BY <1>3, <1>4
<1>7. k \in 1..Len(b) /\ pos + k = (pos + h[i - 1]) + j
  <2>1. j <= Len(seqs[i]) /\ h[i] = q + Len(seqs[i])
    BY <1>3, <1>4
  <2>2. q + j <= h[i]
    BY <1>2, <1>4, <2>1
  <2>3. k \in 1..Len(b)
    <3>1. k \in Nat /\ 1 <= k
      BY <1>4, <1>6
    <3>2. k <= h[n]
      <4> PICK u \in Nat, w \in Nat : u = h[i] /\ w = h[n] /\ u <= w
        BY <1>2
      <4>1. k <= u
        BY <1>6, <2>2
      <4>2. k <= w
        BY <4>1
      <4> QED
        BY <4>2
    <3>3. k <= Len(b)
      BY <1>4, <3>2
    <3>4. Len(b) \in Nat
      BY <1>2, <1>4
    <3> QED
      BY <3>1, <3>3, <3>4
  <2>4. pos + k = (pos + q) + j
    BY <1>6
  <2> QED
    BY <2>3, <2>4
<1>8. bytes[pos + k] = b[k]
  BY <1>7 DEF Agrees
<1> QED
  BY <1>5, <1>6, <1>7, <1>8

LEMMA HalvesAgree ==
  ASSUME NEW bytes \in Seq(Byte), NEW pos \in Nat, NEW a \in Seq(Byte), NEW b \in Seq(Byte),
         Agrees(bytes, pos, a \o b)
  PROVE  Agrees(bytes, pos, a) /\ Agrees(bytes, pos + Len(a), b)
<1> DEFINE t == a \o b
<1>1. Len(a) \in Nat /\ Len(b) \in Nat /\ Len(t) = Len(a) + Len(b)
  OBVIOUS
<1>2. (\A i \in 1..Len(a) : t[i] = a[i]) /\ (\A i \in 1..Len(b) : t[Len(a) + i] = b[i])
  OBVIOUS
<1>3. \A i \in 1..Len(t) : pos + i <= Len(bytes) => bytes[pos + i] = t[i]
  BY DEF Agrees
<1> HIDE DEF t
<1>4. Agrees(bytes, pos, a)
  <2> SUFFICES ASSUME NEW i \in 1..Len(a), pos + i <= Len(bytes) PROVE bytes[pos + i] = a[i]
    BY DEF Agrees
  <2>1. i \in 1..Len(t)
    BY <1>1
  <2> QED
    BY <1>2, <1>3, <2>1
<1>5. Agrees(bytes, pos + Len(a), b)
  <2> SUFFICES ASSUME NEW i \in 1..Len(b), (pos + Len(a)) + i <= Len(bytes)
               PROVE  bytes[(pos + Len(a)) + i] = b[i]
    BY DEF Agrees
  <2>1. PICK k \in Nat : k = Len(a) + i
    BY <1>1
  <2>2. k \in 1..Len(t) /\ pos + k = (pos + Len(a)) + i
    BY <1>1, <2>1
  <2>3. bytes[pos + k] = t[k] /\ t[k] = b[i]
    BY <1>2, <1>3, <2>1, <2>2
  <2> QED
    BY <2>2, <2>3
<1> QED
  BY <1>4, <1>5
-----------------------------------------------------------------------------
(***************************************************************************)
(* Reads that follow each other.                                           *)
(***************************************************************************)
LEMMA OnlyOne ==
  ASSUME NEW x
  PROVE  Only({x}) = x
BY DEF Only

LEMMA FollowedBy ==
  ASSUME NEW result, NEW next
  PROVE  Followed(result, next) =
           IF result.status # "ok" THEN result ELSE Joined(result, next[result.pos])
<1> DEFINE F(r) == IF r.status # "ok" THEN r ELSE Only({Joined(r, x) : x \in {next[r.pos]}})
<1>1. {Joined(result, x) : x \in {next[result.pos]}} = {Joined(result, next[result.pos])}
  OBVIOUS
<1>2. F(result) = IF result.status # "ok" THEN result ELSE Joined(result, next[result.pos])
  BY <1>1, OnlyOne
<1>3. Followed(result, next) = Only({F(r) : r \in {result}})
  BY DEF Followed
<1> HIDE DEF F
<1>4. {F(r) : r \in {result}} = {F(result)}
  OBVIOUS
<1> QED
  BY <1>2, <1>3, <1>4, OnlyOne

InTurn(r, next, n, pos) ==
  /\ r[0] = Ok(<<>>, {<<>>}, pos)
  /\ \A i \in 1..n : r[i] = Followed(r[i - 1], next[i])

LEMMA InOrderDefined ==
  ASSUME NEW next, NEW n \in Nat, NEW pos
  PROVE  \E r : InTurn(r, next, n, pos) /\ InOrder(next, n, pos) = r[n]
<1> DEFINE start == Ok(<<>>, {<<>>}, pos)
           D(f, k) == [i \in 0..k |-> IF i = 0 THEN start ELSE Followed(f[i - 1], next[i])]
           K == {k \in Nat : \E f : f = D(f, k)}
           F == CHOOSE f : f = D(f, n)
<1>1. 0 \in K
  <2> DEFINE g == [i \in 0..0 |-> start]
  <2>1. g = D(g, 0)
    OBVIOUS
  <2> QED
    BY <2>1
<1> HIDE DEF start
<1>2. ASSUME NEW k \in Nat, k \in K PROVE k + 1 \in K
  <2>1. PICK f : f = D(f, k)
    BY <1>2
  <2> DEFINE g == [i \in 0..(k + 1) |-> IF i <= k THEN f[i] ELSE Followed(f[k], next[k + 1])]
  <2>2. ASSUME NEW i \in 0..(k + 1)
        PROVE  g[i] = IF i = 0 THEN start ELSE Followed(g[i - 1], next[i])
    <3>1. CASE i = 0
      BY <2>1, <3>1
    <3>2. CASE i \in 1..k
      <4>1. i \in 0..k /\ i # 0 /\ i - 1 \in 0..k
        BY <3>2
      <4>2. f[i] = Followed(f[i - 1], next[i])
        BY <2>1, <4>1
      <4> QED
        BY <3>2, <4>1, <4>2
    <3>3. CASE i = k + 1
      BY <3>3
    <3> QED
      BY <3>1, <3>2, <3>3
  <2>3. g = D(g, k + 1)
    BY <2>2
  <2> HIDE DEF D, g
  <2> QED
    BY <2>3
<1>3. n \in K
  <2> HIDE DEF K
  <2> QED
    BY <1>1, <1>2, SetInduction
<1>4. F = D(F, n)
  <2> HIDE DEF D
  <2> QED
    BY <1>3
<1>5. InOrder(next, n, pos) = F[n]
  BY DEF InOrder, start
<1> HIDE DEF F
<1>6. \A i \in 0..n : F[i] = IF i = 0 THEN start ELSE Followed(F[i - 1], next[i])
  BY <1>4
<1>7. 0 \in 0..n /\ \A i \in 1..n : i \in 0..n /\ i # 0
  OBVIOUS
<1>8. F[0] = start /\ \A i \in 1..n : F[i] = Followed(F[i - 1], next[i])
  BY <1>6, <1>7
<1>9. InTurn(F, next, n, pos)
  BY <1>8 DEF InTurn, start
<1> QED
  BY <1>5, <1>9

(* The i-th read begins where the one before it has ended. *)
EachRecovers(next, bytes, pos, seqs, h, x, n) ==
  \A i \in 1..n :
    pos + h[i - 1] <= Len(bytes) =>
      Recovers(next[i][pos + h[i - 1]], bytes, pos + h[i - 1], seqs[i], x[i])

Reached(r, bytes, pos, h, x, k) ==
  IF pos + h[k] <= Len(bytes) THEN r.status = "ok" /\ r.read = {UpTo(x, k)} /\ r.pos = pos + h[k]
  ELSE r.status = "UnexpectedEnd"

LEMMA ReachedNext ==
  ASSUME NEW bytes \in Seq(Byte), NEW pos \in Nat, NEW n \in Nat, NEW seqs, AreBytes(seqs, n),
         NEW h, Ends(h, seqs, n), NEW next, NEW x, EachRecovers(next, bytes, pos, seqs, h, x, n),
         NEW k \in Nat, k + 1 \in 1..n, NEW r, Reached(r, bytes, pos, h, x, k)
  PROVE  Reached(Followed(r, next[k + 1]), bytes, pos, h, x, k + 1)
<1>1. PICK i \in 1..n : i = k + 1 /\ i - 1 = k
  OBVIOUS
<1>2. k \in 0..n /\ i \in 0..n /\ k <= i
  BY <1>1
<1>3. h[k] \in Nat /\ h[i] \in Nat /\ h[k] <= h[i]
  BY <1>2, EndsGrow
<1>4. h[i] = h[k] + Len(seqs[i]) /\ Len(seqs[i]) \in Nat
  BY <1>1 DEF Ends, AreBytes
<1> PICK p \in Nat : p = h[k]
  BY <1>3
<1> PICK q \in Nat : q = Len(seqs[i])
  BY <1>4
<1>5. h[i] = p + q /\ Len(bytes) \in Nat
  BY <1>4
<1> DEFINE y == next[i][pos + p]
<1>6. Followed(r, next[i]) = IF r.status # "ok" THEN r ELSE Joined(r, next[i][r.pos])
  BY FollowedBy
<1>7. CASE pos + p <= Len(bytes)
  <2>1. r.status = "ok" /\ r.read = {UpTo(x, k)} /\ r.pos = pos + p
    BY <1>7 DEF Reached
  <2>2. Followed(r, next[i]) = Joined(r, y)
    BY <1>6, <2>1
  <2>3. Recovers(y, bytes, pos + p, seqs[i], x[i])
    BY <1>1, <1>7 DEF EachRecovers
  <2> HIDE DEF y
  <2>4. CASE pos + h[i] <= Len(bytes)
    <3>1. Complete(bytes, pos + p, seqs[i])
      <4>1. (pos + p) + q <= Len(bytes)
        BY <1>5, <2>4
      <4> QED
        BY <4>1 DEF Complete
    <3>2. (pos + p) + q = pos + h[i]
      BY <1>5
    <3>3. y.status = "ok" /\ y.read = {x[i]} /\ y.pos = pos + h[i]
      BY <2>3, <3>1, <3>2 DEF Recovers
    <3>4. {Append(a, b) : a \in {UpTo(x, k)}, b \in {x[i]}} = {Append(UpTo(x, k), x[i])}
      OBVIOUS
    <3>5. Append(UpTo(x, k), x[i]) = UpTo(x, i)
      BY <1>1, UpToNext
    <3>6. Joined(r, y).status = "ok" /\ Joined(r, y).read = {UpTo(x, i)} /\ Joined(r, y).pos = pos + h[i]
      BY <2>1, <3>3, <3>4, <3>5 DEF Joined, Ok
    <3> QED
      BY <1>1, <2>2, <2>4, <3>6 DEF Reached
  <2>5. CASE ~(pos + h[i] <= Len(bytes))
    <3>1. ~Complete(bytes, pos + p, seqs[i])
      <4>1. ~((pos + p) + q <= Len(bytes))
        BY <1>5, <2>5
      <4> QED
        BY <4>1 DEF Complete
    <3>2. y.status = "UnexpectedEnd"
      BY <2>3, <3>1 DEF Recovers
    <3>3. Joined(r, y) = y
      BY <3>2 DEF Joined
    <3> QED
      BY <1>1, <2>2, <2>5, <3>2, <3>3 DEF Reached
  <2> QED
    BY <2>4, <2>5
<1>8. CASE ~(pos + p <= Len(bytes))
  <2>1. r.status = "UnexpectedEnd"
    BY <1>8 DEF Reached
  <2>2. Followed(r, next[i]) = r
    BY <1>6, <2>1
  <2>3. ~(pos + h[i] <= Len(bytes))
    BY <1>5, <1>8
  <2> QED
    BY <1>1, <2>1, <2>2, <2>3 DEF Reached
<1> QED
  BY <1>7, <1>8

LEMMA InTurnReached ==
  ASSUME NEW bytes \in Seq(Byte), NEW pos \in 0..Len(bytes), NEW n \in Nat,
         NEW seqs, AreBytes(seqs, n), NEW h, Ends(h, seqs, n),
         NEW next, NEW x, EachRecovers(next, bytes, pos, seqs, h, x, n),
         NEW r, InTurn(r, next, n, pos), NEW m \in 0..n
  PROVE  Reached(r[m], bytes, pos, h, x, m)
<1> DEFINE K == {k \in Nat : k <= n => Reached(r[k], bytes, pos, h, x, k)}
<1>1. 0 \in K
  <2>1. r[0].status = "ok" /\ r[0].read = {<<>>} /\ r[0].pos = pos
    BY DEF InTurn, Ok
  <2>2. pos + h[0] = pos /\ pos <= Len(bytes)
    BY DEF Ends
  <2>3. UpTo(x, 0) = <<>>
    BY DEF UpTo
  <2> QED
    BY <2>1, <2>2, <2>3 DEF Reached
<1>2. ASSUME NEW k \in Nat, k \in K PROVE k + 1 \in K
  <2> SUFFICES ASSUME k + 1 <= n PROVE Reached(r[k + 1], bytes, pos, h, x, k + 1)
    OBVIOUS
  <2>1. PICK i \in 1..n : i = k + 1 /\ i - 1 = k
    OBVIOUS
  <2>2. Reached(r[k], bytes, pos, h, x, k) /\ k + 1 \in 1..n /\ pos \in Nat
    BY <1>2
  <2>3. Reached(Followed(r[k], next[k + 1]), bytes, pos, h, x, k + 1)
    BY <2>2, ReachedNext
  <2>4. r[i] = Followed(r[i - 1], next[i])
    BY DEF InTurn
  <2> QED
    BY <2>1, <2>3, <2>4
<1>3. Nat \subseteq K
  <2> HIDE DEF K
  <2> QED
    BY <1>1, <1>2, SetInduction
<1>4. m \in Nat /\ m <= n
  OBVIOUS
<1> QED
  BY <1>3, <1>4

LEMMA InOrderReached ==
  ASSUME NEW bytes \in Seq(Byte), NEW pos \in 0..Len(bytes), NEW n \in Nat,
         NEW seqs, AreBytes(seqs, n), NEW h, Ends(h, seqs, n),
         NEW next, NEW x, EachRecovers(next, bytes, pos, seqs, h, x, n)
  PROVE  Reached(InOrder(next, n, pos), bytes, pos, h, x, n)
<1>1. PICK r : InTurn(r, next, n, pos) /\ InOrder(next, n, pos) = r[n]
  BY InOrderDefined
<1>2. n \in 0..n
  OBVIOUS
<1> QED
  BY <1>1, <1>2, InTurnReached

(* If all are in the input, the i-th value is that of the i-th read. *)
LEMMA InOrderValues ==
  ASSUME NEW bytes \in Seq(Byte), NEW pos \in 0..Len(bytes), NEW n \in Nat,
         NEW seqs, AreBytes(seqs, n), NEW h, Ends(h, seqs, n), pos + h[n] <= Len(bytes),
         NEW next, NEW x, EachRecovers(next, bytes, pos, seqs, h, x, n), NEW i \in 1..n
  PROVE  InOrder(next, n, pos).value[i] = next[i][pos + h[i - 1]].value
<1> DEFINE w == [m \in 1..n |-> next[m][pos + h[m - 1]].value]
<1>1. PICK r : InTurn(r, next, n, pos) /\ InOrder(next, n, pos) = r[n]
  BY InOrderDefined
<1>2. ASSUME NEW m \in 0..n PROVE r[m].status = "ok" /\ r[m].pos = pos + h[m]
  <2>1. n \in 0..n /\ m <= n
    OBVIOUS
  <2>2. h[m] \in Nat /\ h[n] \in Nat /\ h[m] <= h[n]
    BY <2>1, EndsGrow
  <2>3. pos + h[m] <= Len(bytes)
    BY <2>2
  <2> QED
    BY <1>1, <2>3, InTurnReached DEF Reached
<1> DEFINE K == {k \in Nat : k <= n => r[k].value = UpTo(w, k)}
<1>3. 0 \in K
  BY <1>1 DEF InTurn, Ok, UpTo
<1>4. ASSUME NEW k \in Nat, k \in K PROVE k + 1 \in K
  <2> SUFFICES ASSUME k + 1 <= n PROVE r[k + 1].value = UpTo(w, k + 1)
    OBVIOUS
  <2>1. PICK m \in 1..n : m = k + 1 /\ m - 1 = k /\ k \in 0..n /\ m \in 0..n
    OBVIOUS
  <2>2. r[k].status = "ok" /\ r[k].pos = pos + h[k] /\ r[m].status = "ok"
    BY <1>2, <2>1
  <2>3. r[m] = Joined(r[k], next[m][pos + h[k]])
    BY <1>1, <2>1, <2>2, FollowedBy DEF InTurn
  <2>4. r[m].value = Append(r[k].value, next[m][pos + h[k]].value)
    BY <2>2, <2>3 DEF Joined, Ok
  <2>5. w[m] = next[m][pos + h[k]].value
    BY <2>1
  <2>6. r[k].value = UpTo(w, k)
    BY <1>4, <2>1
  <2> HIDE DEF w
  <2>7. Append(UpTo(w, k), w[k + 1]) = UpTo(w, k + 1)
    BY UpToNext
  <2> QED
    BY <2>1, <2>4, <2>5, <2>6, <2>7
<1>5. n \in K
  <2> HIDE DEF K
  <2> QED
    BY <1>3, <1>4, SetInduction
<1>6. UpTo(w, n)[i] = w[i] /\ w[i] = next[i][pos + h[i - 1]].value
  BY DEF UpTo
<1> QED
  BY <1>1, <1>5, <1>6

LEMMA InOrderRecovers ==
  ASSUME NEW bytes \in Seq(Byte), NEW pos \in 0..Len(bytes), NEW n \in Nat,
         NEW seqs, AreBytes(seqs, n), NEW b, NEW h, LaidOut(b, h, seqs, n),
         NEW next, NEW x, EachRecovers(next, bytes, pos, seqs, h, x, n)
  PROVE  Recovers(InOrder(next, n, pos), bytes, pos, b, UpTo(x, n))
<1>1. Reached(InOrder(next, n, pos), bytes, pos, h, x, n)
  BY InOrderReached DEF LaidOut
<1>2. Len(b) = h[n]
  BY DEF LaidOut
<1> QED
  BY <1>1, <1>2 DEF Reached, Recovers, Complete
-----------------------------------------------------------------------------
(***************************************************************************)
(* What is read of a part, if what is below it is read: read has the       *)
(* results of decoding, encoded the bytes of the parts.                    *)
(***************************************************************************)
Input(bytes, pos, b) == bytes \in Seq(Byte) /\ pos \in 0..Len(bytes) /\ Agrees(bytes, pos, b)

ReadsPart(read, q, b) ==
  \A bytes, pos : Input(bytes, pos, b) => Recovers(read[At(q.ty, bytes, pos)], bytes, pos, b, q.datum)

PartsBytes(c, p, encoded) == \A q \in Range(PartsOf(c, p)) : encoded[q] \in Seq(Byte)

PartsRead(c, p, encoded, read) ==
  \A q \in Range(PartsOf(c, p)) : encoded[q] \in Seq(Byte) /\ ReadsPart(read, q, encoded[q])

EncodedOf(parts, n, encoded) == [i \in 1..n |-> encoded[parts[i]]]

(* A read, and the one after it. *)
Then(first, second) == IF first.status # "ok" THEN first ELSE second

LEMMA ThenRecovers ==
  ASSUME NEW bytes \in Seq(Byte), NEW pos \in 0..Len(bytes),
         NEW a \in Seq(Byte), NEW b \in Seq(Byte), NEW v, NEW x,
         NEW first, Returns(first, bytes, pos, a, v),
         NEW second, NEW at, at = pos + Len(a), Complete(bytes, pos, a) => Recovers(second, bytes, at, b, x)
  PROVE  Recovers(Then(first, second), bytes, pos, a \o b, x)
<1> DEFINE t == a \o b
<1>1. Len(a) \in Nat /\ Len(b) \in Nat /\ Len(t) = Len(a) + Len(b)
  OBVIOUS
<1> HIDE DEF t
<1> PICK m \in Nat, k \in Nat : m = Len(a) /\ k = Len(b)
  BY <1>1
<1>2. Len(t) = m + k /\ Len(bytes) \in Nat
  BY <1>1
<1>3. CASE Complete(bytes, pos, a)
  <2>1. first.status = "ok"
    BY <1>3 DEF Returns, Recovers
  <2>2. (pos + m) + k = pos + Len(t)
    BY <1>2
  <2>3. Complete(bytes, pos + Len(a), b) <=> Complete(bytes, pos, t)
    BY <2>2 DEF Complete
  <2>4. Recovers(second, bytes, pos, t, x)
    BY <1>3, <2>2, <2>3 DEF Recovers
  <2> QED
    BY <2>1, <2>4 DEF t, Then
<1>4. CASE ~Complete(bytes, pos, a)
  <2>1. first.status = "UnexpectedEnd"
    BY <1>4 DEF Returns, Recovers
  <2>2. ~Complete(bytes, pos, t)
    BY <1>2, <1>4 DEF Complete
  <2> QED
    BY <2>1, <2>2 DEF t, Recovers, Then
<1> QED
  BY <1>3, <1>4

(* The bytes of the parts, one after the other. *)
LEMMA PartsLaidOut ==
  ASSUME NEW c, NEW p, NEW encoded, PartsBytes(c, p, encoded),
         NEW n, Listed(PartsOf(c, p), n)
  PROVE  /\ AreBytes(EncodedOf(PartsOf(c, p), n, encoded), n)
         /\ EncodeParts(c, encoded, p) \in Seq(Byte)
         /\ \E h : LaidOut(EncodeParts(c, encoded, p), h, EncodedOf(PartsOf(c, p), n, encoded), n)
<1> DEFINE parts == PartsOf(c, p)
           seqs == EncodedOf(parts, n, encoded)
<1>1. n \in Nat /\ parts = [i \in 1..n |-> parts[i]]
  BY DEF Listed
<1>2. EncodeParts(c, encoded, p) = FlattenSeq([i \in DOMAIN parts |-> encoded[parts[i]]])
  BY DEF EncodeParts
<1>3. \A i \in 1..n : parts[i] \in Range(parts)
  <2> HIDE DEF parts
  <2>1. DOMAIN parts = 1..n
    BY <1>1
  <2> QED
    BY <2>1 DEF Range
<1>4. \A i \in 1..n : encoded[parts[i]] \in Seq(Byte)
  BY <1>3 DEF PartsBytes
<1> HIDE DEF parts
<1>5. DOMAIN parts = 1..n
  BY <1>1
<1>6. seqs = [i \in 1..n |-> encoded[parts[i]]]
  BY DEF EncodedOf
<1>7. EncodeParts(c, encoded, p) = FlattenSeq(seqs)
  BY <1>2, <1>5, <1>6
<1> HIDE DEF seqs
<1>8. Listed(seqs, n) /\ AreBytes(seqs, n)
  BY <1>1, <1>4, <1>6 DEF Listed, AreBytes
<1>9. \E h : LaidOut(FlattenSeq(seqs), h, seqs, n)
  BY <1>1, <1>8, FlattenLaidOut
<1>10. FlattenSeq(seqs) \in Seq(Byte)
  BY <1>9 DEF LaidOut
<1> QED
  BY <1>7, <1>8, <1>9, <1>10 DEF seqs, parts

(* What the i-th part is read with, and as: x[i] is what it is read as. *)
ReadsEach(next, read, bytes, c, p, encoded, x, n) ==
  \A i \in 1..n : \A at \in Nat : \A b :
    /\ at <= Len(bytes) /\ b = encoded[PartsOf(c, p)[i]]
    /\ Recovers(read[At(PartsOf(c, p)[i].ty, bytes, at)], bytes, at, b, PartsOf(c, p)[i].datum)
    => Recovers(next[i][at], bytes, at, b, x[i])

LEMMA MembersEach ==
  ASSUME NEW c, NEW p, NEW encoded, NEW read, PartsRead(c, p, encoded, read),
         NEW n, Listed(PartsOf(c, p), n), NEW bytes, NEW pos,
         Input(bytes, pos, EncodeParts(c, encoded, p)),
         NEW h, LaidOut(EncodeParts(c, encoded, p), h, EncodedOf(PartsOf(c, p), n, encoded), n),
         NEW m \in 0..n, NEW next, NEW x, ReadsEach(next, read, bytes, c, p, encoded, x, m)
  PROVE  EachRecovers(next, bytes, pos, EncodedOf(PartsOf(c, p), n, encoded), h, x, m)
<1> DEFINE parts == PartsOf(c, p)
           seqs == EncodedOf(parts, n, encoded)
           b == EncodeParts(c, encoded, p)
<1>1. n \in Nat /\ parts = [i \in 1..n |-> parts[i]]
  BY DEF Listed
<1>2. AreBytes(seqs, n)
  BY PartsLaidOut DEF PartsRead, PartsBytes
<1>3. LaidOut(b, h, seqs, n)
  OBVIOUS
<1>4. \A i \in 1..n : parts[i] \in Range(parts)
  <2> HIDE DEF parts
  <2>1. DOMAIN parts = 1..n
    BY <1>1
  <2> QED
    BY <2>1 DEF Range
<1>5. bytes \in Seq(Byte) /\ pos \in 0..Len(bytes) /\ Agrees(bytes, pos, b)
  BY DEF Input
<1>6. \A i \in 1..n : seqs[i] = encoded[parts[i]]
  BY DEF EncodedOf
<1>7. ASSUME NEW i \in 1..m, pos + h[i - 1] <= Len(bytes)
      PROVE  Recovers(next[i][pos + h[i - 1]], bytes, pos + h[i - 1], seqs[i], x[i])
  <2>1. i - 1 \in 0..n /\ i \in 1..n
    BY <1>1
  <2>2. h[i - 1] \in Nat
    BY <1>3, <2>1 DEF LaidOut, Ends
  <2> PICK k \in Nat : k = h[i - 1]
    BY <2>2
  <2>3. pos + k \in 0..Len(bytes) /\ pos + k \in Nat /\ pos \in Nat
    BY <1>5, <1>7
  <2>4. Agrees(bytes, pos + h[i - 1], seqs[i])
    <3> HIDE DEF seqs, b
    <3> QED
      BY <1>1, <1>2, <1>3, <1>5, <2>1, <2>3, PartsAgree
  <2>5. ReadsPart(read, parts[i], encoded[parts[i]])
    BY <1>4, <2>1 DEF PartsRead
  <2>6. Input(bytes, pos + k, encoded[parts[i]])
    BY <1>5, <1>6, <2>1, <2>3, <2>4 DEF Input
  <2>7. Recovers(read[At(parts[i].ty, bytes, pos + k)], bytes, pos + k, encoded[parts[i]], parts[i].datum)
    BY <2>5, <2>6 DEF ReadsPart
  <2>8. Recovers(next[i][pos + k], bytes, pos + k, encoded[parts[i]], x[i])
    <3>1. pos + k \in Nat /\ pos + k <= Len(bytes)
      BY <2>3
    <3> QED
      BY <2>7, <3>1 DEF ReadsEach
  <2> QED
    BY <1>6, <2>1, <2>8
<1> HIDE DEF seqs
<1> QED
  BY <1>7 DEF EachRecovers, seqs

LEMMA MembersRecover ==
  ASSUME NEW c, NEW p, NEW encoded, NEW read, PartsRead(c, p, encoded, read),
         NEW n, Listed(PartsOf(c, p), n), NEW bytes, NEW pos,
         Input(bytes, pos, EncodeParts(c, encoded, p)),
         NEW next, NEW x, ReadsEach(next, read, bytes, c, p, encoded, x, n)
  PROVE  Recovers(InOrder(next, n, pos), bytes, pos, EncodeParts(c, encoded, p), UpTo(x, n))
<1> DEFINE seqs == EncodedOf(PartsOf(c, p), n, encoded)
           b == EncodeParts(c, encoded, p)
<1>1. n \in Nat /\ n \in 0..n
  BY DEF Listed
<1>2. AreBytes(seqs, n)
  BY PartsLaidOut DEF PartsRead, PartsBytes
<1>3. PICK h : LaidOut(b, h, seqs, n)
  BY PartsLaidOut DEF PartsRead, PartsBytes
<1>4. EachRecovers(next, bytes, pos, seqs, h, x, n)
  BY <1>1, <1>3, MembersEach
<1>5. bytes \in Seq(Byte) /\ pos \in 0..Len(bytes)
  BY DEF Input
<1> HIDE DEF seqs, b
<1>6. Recovers(InOrder(next, n, pos), bytes, pos, b, UpTo(x, n))
  BY <1>1, <1>2, <1>3, <1>4, <1>5, InOrderRecovers
<1> QED
  BY <1>6 DEF b
-----------------------------------------------------------------------------
(* What is read is what was written. *)
Decodes(c, p, b, read) ==
  /\ b \in Seq(Byte)
  /\ \A bytes, pos : Input(bytes, pos, b) => Recovers(DecodeType(c, read, p.ty, bytes, pos), bytes, pos, b, p.datum)

LEMMA IntegerDecodes ==
  ASSUME NEW c, NEW p, Ready(c, p), p.ty.tag = "integer", NEW sizes, NEW encoded, NEW read
  PROVE  Decodes(c, p, EncodeType(c, sizes, encoded, p), read)
<1>1. p.ty.bits \in Nat
  BY TagOfType, U16IsNat DEF Ready, TypeIn
<1>2. PICK n \in Nat : n = p.ty.bits \div 8
  BY <1>1
<1>3. EncodeType(c, sizes, encoded, p) = LittleEndian(p.datum, n)
  BY <1>2 DEF EncodeType, EncodeInteger
<1>4. Holds(n, p.datum)
  BY <1>2 DEF Ready, WellTyped
<1>5. LittleEndian(p.datum, n) \in Seq(Byte)
  BY <1>4, LittleEndianBytes DEF Holds
<1>6. ASSUME NEW bytes, NEW pos, Input(bytes, pos, LittleEndian(p.datum, n))
      PROVE  Recovers(DecodeType(c, read, p.ty, bytes, pos), bytes, pos, LittleEndian(p.datum, n), p.datum)
  <2>1. DecodeType(c, read, p.ty, bytes, pos) = NextNumber(bytes, pos, n)
    BY <1>2 DEF DecodeType, DecodeInteger
  <2> QED
    BY <1>4, <1>6, <2>1, NumberReturned DEF Input, Returns
<1> QED
  BY <1>3, <1>5, <1>6 DEF Decodes

LEMMA VarintDecodes ==
  ASSUME NEW c, NEW p, Ready(c, p), p.ty.tag = "varint", NEW sizes, NEW encoded, NEW read
  PROVE  Decodes(c, p, EncodeType(c, sizes, encoded, p), read)
<1>1. p.ty.size \in VarintSize
  BY DEF Ready, TypeIn, Type, IntegerType, VarintType, AllocatedType
<1>2. Holds(p.ty.size, p.datum) /\ p.datum \in Nat
  BY DEF Ready, WellTyped, Holds
<1>3. EncodeType(c, sizes, encoded, p) = Leb128[p.datum]
  BY DEF EncodeType
<1>4. Leb128[p.datum] \in Seq(Byte)
  BY <1>2, Leb128Bytes
<1>5. ASSUME NEW bytes, NEW pos, Input(bytes, pos, Leb128[p.datum])
      PROVE  Recovers(DecodeType(c, read, p.ty, bytes, pos), bytes, pos, Leb128[p.datum], p.datum)
  <2>1. DecodeType(c, read, p.ty, bytes, pos) = DecodeVarint(p.ty.size, bytes, pos)
    BY DEF DecodeType
  <2> QED
    BY <1>1, <1>2, <1>5, <2>1, HeldVarintReturned DEF Input, Returns
<1> QED
  BY <1>3, <1>4, <1>5 DEF Decodes

LEMMA PrimitiveDecodes ==
  ASSUME NEW c, NEW p, Ready(c, p), p.ty.tag = "allocated", DefinitionOf(c, p).kind = "primitive",
         NEW sizes, NEW encoded, NEW read
  PROVE  Decodes(c, p, EncodeType(c, sizes, encoded, p), read)
<1> DEFINE def == DefinitionOf(c, p)
<1>1. def.bits \in Nat
  BY DefinitionOfPart, KindOfDefinition, U16IsNat
<1>2. PICK n \in Nat : n = def.bits \div 8
  BY <1>1
<1>3. EncodeType(c, sizes, encoded, p) = LittleEndian(p.datum, n)
  BY <1>2 DEF EncodeType, IsSequence
<1>4. Holds(n, p.datum)
  BY <1>2 DEF Ready, WellTyped, IsSequence
<1>5. LittleEndian(p.datum, n) \in Seq(Byte)
  BY <1>4, LittleEndianBytes DEF Holds
<1>6. ASSUME NEW bytes, NEW pos, Input(bytes, pos, LittleEndian(p.datum, n))
      PROVE  Recovers(DecodeType(c, read, p.ty, bytes, pos), bytes, pos, LittleEndian(p.datum, n), p.datum)
  <2>1. DecodeType(c, read, p.ty, bytes, pos) = NextNumber(bytes, pos, n)
    BY <1>2 DEF DecodeType, DecodePrimitive, DefinitionOf
  <2> QED
    BY <1>4, <1>6, <2>1, NumberReturned DEF Input, Returns
<1> QED
  BY <1>3, <1>5, <1>6 DEF Decodes
-----------------------------------------------------------------------------
(* The members of a struct are read in order. *)
LEMMA ListIsUpTo ==
  ASSUME NEW v, IsList(v), NEW n, n = Len(v)
  PROVE  UpTo(v, n) = v
BY DEF IsList, UpTo

LEMMA InStructRecovers ==
  ASSUME NEW c, NEW p, Ready(c, p), p.ty.tag = "allocated", IsStructLike(c, DefinitionOf(c, p)),
         NEW encoded, NEW read, PartsRead(c, p, encoded, read), NEW bytes, NEW pos,
         Input(bytes, pos, EncodeParts(c, encoded, p))
  PROVE  Recovers(DecodeStruct(read, DefinitionOf(c, p), bytes, pos), bytes, pos,
                  EncodeParts(c, encoded, p), p.datum)
<1> DEFINE def == DefinitionOf(c, p)
           n == Len(def.members)
           parts == PartsOf(c, p)
           next == [i \in DOMAIN def.members |-> Reads(read, def.members[i].ty, bytes)]
<1>1. def \in Definition /\ def.kind \in {"struct", "packed"}
  BY DefinitionOfPart DEF IsStructLike
<1>2. /\ n \in Nat /\ DOMAIN def.members = 1..n
      /\ \A i \in 1..n : TypesOf(def)[i] = def.members[i].ty
  BY <1>1, MembersOf
<1>3. Listed(parts, n) /\ \A i \in 1..n : parts[i].ty = def.members[i].ty
  BY <1>2, StructMembersListed
<1>4. IsList(p.datum) /\ Len(p.datum) = n
  BY <1>1 DEF IsStructLike, Ready, WellTyped, IsSequence
<1>5. \A i \in 1..n : parts[i].datum = p.datum[i]
  <2>1. parts = StructMembers(c, p)
    BY <1>1 DEF PartsOf, IsSequence, IsStructLike
  <2>2. DOMAIN p.datum = 1..n
    BY <1>4 DEF IsList
  <2> QED
    BY <2>1, <2>2 DEF StructMembers, MemberPart, Part
<1>6. DecodeStruct(read, def, bytes, pos) = InOrder(next, n, pos)
  BY DEF DecodeStruct
<1>7. \A i \in 1..n : next[i] = Reads(read, parts[i].ty, bytes)
  BY <1>2, <1>3
<1> HIDE DEF next, parts, n, def
<1>8. ReadsEach(next, read, bytes, c, p, encoded, p.datum, n)
  <2>1. ASSUME NEW i \in 1..n, NEW at \in Nat
        PROVE  next[i][at] = read[At(parts[i].ty, bytes, at)] /\ parts[i].datum = p.datum[i]
    BY <1>5, <1>7 DEF Reads
  <2> QED
    BY <2>1 DEF ReadsEach, parts
<1>9. Recovers(InOrder(next, n, pos), bytes, pos, EncodeParts(c, encoded, p), UpTo(p.datum, n))
  BY <1>3, <1>8, MembersRecover DEF parts
<1>10. UpTo(p.datum, n) = p.datum
  BY <1>4, ListIsUpTo
<1> QED
  BY <1>6, <1>9, <1>10 DEF def

LEMMA StructDecodes ==
  ASSUME NEW c, NEW p, Ready(c, p), p.ty.tag = "allocated", DefinitionOf(c, p).kind = "struct",
         NEW sizes, NEW encoded, NEW read, PartsRead(c, p, encoded, read)
  PROVE  Decodes(c, p, EncodeType(c, sizes, encoded, p), read)
<1> DEFINE b == EncodeParts(c, encoded, p)
<1>1. EncodeType(c, sizes, encoded, p) = b
  BY DEF EncodeType, EncodeNamed, EncodeStruct, IsSequence
<1>2. b \in Seq(Byte)
  BY StructMembersListed, PartsLaidOut DEF IsStructLike, PartsRead, PartsBytes
<1>3. ASSUME NEW bytes, NEW pos, Input(bytes, pos, b)
      PROVE  Recovers(DecodeType(c, read, p.ty, bytes, pos), bytes, pos, b, p.datum)
  <2>1. DecodeType(c, read, p.ty, bytes, pos) = DecodeStruct(read, DefinitionOf(c, p), bytes, pos)
    BY DEF DecodeType, DecodeNamed, DefinitionOf
  <2> QED
    BY <1>3, <2>1, InStructRecovers DEF IsStructLike
<1> HIDE DEF b
<1> QED
  BY <1>1, <1>2, <1>3 DEF Decodes
-----------------------------------------------------------------------------
(* The bits of a bitmap. *)
LEMMA BitIsBit ==
  ASSUME NEW set, NEW i
  PROVE  Bit(set, i) \in {0, 1} /\ (Bit(set, i) = 1 <=> i \in set)
BY DEF Bit

Eight(x, a, b, c, d, e, f, g, h) == x = a + 2 * b + 4 * c + 8 * d + 16 * e + 32 * f + 64 * g + 128 * h

EightRead(x, a, b, c, d, e, f, g, h) ==
  /\ x \in 0..255
  /\ x % 2 = a /\ (x \div 2) % 2 = b /\ (x \div 4) % 2 = c /\ (x \div 8) % 2 = d
  /\ (x \div 16) % 2 = e /\ (x \div 32) % 2 = f /\ (x \div 64) % 2 = g /\ (x \div 128) % 2 = h

LEMMA BitOfEight ==
  ASSUME NEW a \in {0, 1}, NEW b \in {0, 1}, NEW c \in {0, 1}, NEW d \in {0, 1},
         NEW e \in {0, 1}, NEW f \in {0, 1}, NEW g \in {0, 1}, NEW h \in {0, 1},
         NEW x, Eight(x, a, b, c, d, e, f, g, h)
  PROVE  EightRead(x, a, b, c, d, e, f, g, h)
<1>0. x \in 0..255
  BY DEF Eight
<1>1. x % 2 = a
  BY DEF Eight
<1>2. (x \div 2) % 2 = b
  BY DEF Eight
<1>3. (x \div 4) % 2 = c
  BY DEF Eight
<1>4. (x \div 8) % 2 = d
  BY DEF Eight
<1>5. (x \div 16) % 2 = e
  BY DEF Eight
<1>6. (x \div 32) % 2 = f
  BY DEF Eight
<1>7. (x \div 64) % 2 = g
  BY DEF Eight
<1>8. (x \div 128) % 2 = h
  BY DEF Eight
<1> QED
  BY <1>0, <1>1, <1>2, <1>3, <1>4, <1>5, <1>6, <1>7, <1>8 DEF EightRead

LEMMA EightBitsRead ==
  ASSUME NEW set, NEW i \in Nat, NEW r \in 0..7
  PROVE  /\ EightBits(set, i) \in Byte
         /\ (EightBits(set, i) \div 2 ^ r) % 2 = Bit(set, i + r)
<1> DEFINE x == EightBits(set, i)
<1>1. x = Bit(set, i) + 2 * Bit(set, i + 1) + 4 * Bit(set, i + 2) + 8 * Bit(set, i + 3)
          + 16 * Bit(set, i + 4) + 32 * Bit(set, i + 5) + 64 * Bit(set, i + 6) + 128 * Bit(set, i + 7)
  BY DEF EightBits
<1> HIDE DEF x
<1>2. /\ x \in 0..255
      /\ x % 2 = Bit(set, i) /\ (x \div 2) % 2 = Bit(set, i + 1)
      /\ (x \div 4) % 2 = Bit(set, i + 2) /\ (x \div 8) % 2 = Bit(set, i + 3)
      /\ (x \div 16) % 2 = Bit(set, i + 4) /\ (x \div 32) % 2 = Bit(set, i + 5)
      /\ (x \div 64) % 2 = Bit(set, i + 6) /\ (x \div 128) % 2 = Bit(set, i + 7)
  <2> PICK a \in {0, 1}, b \in {0, 1}, c \in {0, 1}, d \in {0, 1} :
        a = Bit(set, i) /\ b = Bit(set, i + 1) /\ c = Bit(set, i + 2) /\ d = Bit(set, i + 3)
    BY BitIsBit
  <2> PICK e \in {0, 1}, f \in {0, 1}, g \in {0, 1}, h \in {0, 1} :
        e = Bit(set, i + 4) /\ f = Bit(set, i + 5) /\ g = Bit(set, i + 6) /\ h = Bit(set, i + 7)
    BY BitIsBit
  <2>1. Eight(x, a, b, c, d, e, f, g, h)
    BY <1>1 DEF Eight
  <2>2. EightRead(x, a, b, c, d, e, f, g, h)
    BY <2>1, BitOfEight
  <2> QED
    BY <2>2 DEF EightRead
<1>3. x \in Nat /\ x \div 1 = x /\ i + 0 = i
  BY <1>2
<1>4. (x \div 2 ^ r) % 2 = Bit(set, i + r)
  <2>1. CASE r = 0
    BY <1>2, <1>3, <2>1, PowersOfTwo
  <2>2. CASE r = 1
    BY <1>2, <2>2, PowersOfTwo
  <2>3. CASE r = 2
    BY <1>2, <2>3, PowersOfTwo
  <2>4. CASE r = 3
    BY <1>2, <2>4, PowersOfTwo
  <2>5. CASE r = 4
    BY <1>2, <2>5, PowersOfTwo
  <2>6. CASE r = 5
    BY <1>2, <2>6, PowersOfTwo
  <2>7. CASE r = 6
    BY <1>2, <2>7, PowersOfTwo
  <2>8. CASE r = 7
    BY <1>2, <2>8, PowersOfTwo
  <2> QED
    BY <2>1, <2>2, <2>3, <2>4, <2>5, <2>6, <2>7, <2>8
<1> QED
  BY <1>2, <1>4 DEF x, Byte

LEMMA BitmapRead ==
  ASSUME NEW set, NEW n \in Nat
  PROVE  /\ Bits(set, n) \in Seq(Byte) /\ Len(Bits(set, n)) = n
         /\ \A index \in Nat : index < 8 * n => (IsSet(Bits(set, n), index) <=> index \in set)
<1> DEFINE b == Bits(set, n)
<1>1. b = [k \in 1..n |-> EightBits(set, 8 * (k - 1))]
  BY DEF Bits
<1> HIDE DEF b
<1>2. ASSUME NEW k \in 1..n PROVE b[k] = EightBits(set, 8 * (k - 1)) /\ 8 * (k - 1) \in Nat
  BY <1>1
<1>3. b \in [1..n -> Byte]
  <2>1. \A k \in 1..n : EightBits(set, 8 * (k - 1)) \in Byte
    <3> TAKE k \in 1..n
    <3>1. PICK i \in Nat : i = 8 * (k - 1)
      BY <1>2
    <3>2. 0 \in 0..7
      OBVIOUS
    <3> QED
      BY <3>1, <3>2, EightBitsRead
  <2> QED
    BY <1>1, <2>1
<1>4. b \in Seq(Byte) /\ Len(b) = n
  BY <1>3
<1>5. ASSUME NEW index \in Nat, index < 8 * n PROVE IsSet(b, index) <=> index \in set
  <2>1. PICK q \in Nat, r \in 0..7 : q = index \div 8 /\ r = index % 8 /\ index = 8 * q + r
    <3>1. index \div 8 \in Nat /\ index % 8 \in 0..7 /\ index = 8 * (index \div 8) + (index % 8)
      OBVIOUS
    <3> QED
      BY <3>1
  <2>2. q + 1 \in 1..n /\ (q + 1) - 1 = q
    BY <1>5, <2>1
  <2>3. b[q + 1] = EightBits(set, 8 * q) /\ 8 * q \in Nat
    BY <1>2, <2>2
  <2>4. (EightBits(set, 8 * q) \div 2 ^ r) % 2 = Bit(set, 8 * q + r)
    BY <2>3, EightBitsRead
  <2>5. IsSet(b, index) <=> Bit(set, index) = 1
    BY <2>1, <2>3, <2>4 DEF IsSet
  <2> QED
    BY <2>5, BitIsBit
<1> QED
  BY <1>4, <1>5 DEF b
-----------------------------------------------------------------------------
LEMMA PackedSize ==
  ASSUME NEW c, NEW p, Ready(c, p), p.ty.tag = "allocated", DefinitionOf(c, p).kind = "packed",
         NEW sizes, NEW encoded, PartsExact(c, p, sizes, encoded)
  PROVE  PreparePacked(c, p) \in Nat /\ Len(EncodePacked(c, encoded, p)) = PreparePacked(c, p)
<1>1. Exact(c, p, PreparePacked(c, p), EncodePacked(c, encoded, p))
  BY PackedExact DEF PrepareNamed, EncodeNamed
<1>2. IsFixedSize(c, p.ty)
  <2>1. PICK k : WidthByRule(DefinitionOf(c, p), c.bit_width) = Fixed(k)
    BY DEF WidthByRule
  <2>2. Fixed(k) # Variable
    BY DEF Fixed, Variable
  <2> QED
    BY <2>1, <2>2, DefinitionOfPart DEF IsFixedSize
<1> QED
  BY <1>1, <1>2 DEF Exact

LEMMA PackedDecodes ==
  ASSUME NEW c, NEW p, Ready(c, p), p.ty.tag = "allocated", DefinitionOf(c, p).kind = "packed",
         NEW sizes, NEW encoded, PartsExact(c, p, sizes, encoded),
         NEW read, PartsRead(c, p, encoded, read)
  PROVE  Decodes(c, p, EncodeType(c, sizes, encoded, p), read)
<1> DEFINE def == DefinitionOf(c, p)
           b == EncodePacked(c, encoded, p)
<1>1. EncodeType(c, sizes, encoded, p) = b
  BY DEF EncodeType, EncodeNamed, IsSequence
<1>2. PICK n \in Nat : n = PreparePacked(c, p)
  BY PackedSize
<1>3. Len(b) = n
  BY <1>2, PackedSize
<1>4. ASSUME NEW bytes, NEW pos
      PROVE  DecodeType(c, read, p.ty, bytes, pos) = DecodePacked(c, read, p.ty.handle, bytes, pos)
  BY DEF DecodeType, DecodeNamed, DefinitionOf
<1>5. c.schema[p.ty.handle] = def /\ c.bit_width[p.ty.handle].bits \div 8 = n
  BY <1>2 DEF DefinitionOf, PreparePacked
<1>6. CASE IsBitfield(c, def)
  <2>1. b = LittleEndian(p.datum, n) /\ Holds(n, p.datum)
    <3>1. b = LittleEndian(p.datum, n)
      BY <1>2, <1>6 DEF EncodePacked
    <3>2. Holds(PreparePacked(c, p), p.datum)
      BY <1>6 DEF Ready, WellTyped, IsSequence
    <3> QED
      BY <1>2, <3>1, <3>2
  <2>2. b \in Seq(Byte)
    BY <2>1, LittleEndianBytes DEF Holds
  <2>3. ASSUME NEW bytes, NEW pos, Input(bytes, pos, b)
        PROVE  Recovers(DecodePacked(c, read, p.ty.handle, bytes, pos), bytes, pos, b, p.datum)
    <3>1. DecodePacked(c, read, p.ty.handle, bytes, pos) = NextNumber(bytes, pos, n)
      BY <1>5, <1>6 DEF DecodePacked, NextNumber
    <3> QED
      BY <2>1, <2>3, <3>1, NumberReturned DEF Input, Returns
  <2> HIDE DEF b
  <2> QED
    BY <1>1, <1>4, <2>2, <2>3 DEF Decodes
<1>7. CASE ~IsBitfield(c, def)
  <2>1. b = EncodeParts(c, encoded, p)
    BY <1>7 DEF EncodePacked
  <2>2. b \in Seq(Byte)
    BY <1>7, <2>1, StructMembersListed, PartsLaidOut DEF IsStructLike, PartsRead, PartsBytes
  <2>3. ASSUME NEW bytes, NEW pos, Input(bytes, pos, b)
        PROVE  Recovers(DecodePacked(c, read, p.ty.handle, bytes, pos), bytes, pos, b, p.datum)
    <3> DEFINE image == NextBytes(bytes, pos, n)
               members == DecodeStruct(read, def, image.value, 0)
    <3>1. DecodePacked(c, read, p.ty.handle, bytes, pos) =
            IF image.status # "ok" THEN image ELSE Ok(members.value, members.read, image.pos)
      BY <1>5, <1>7 DEF DecodePacked
    <3>2. Returns(image, bytes, pos, b, b)
      <4> HIDE DEF b
      <4> QED
        BY <1>3, <2>2, <2>3, BytesReturned DEF Input
    <3>3. CASE Complete(bytes, pos, b)
      <4>1. image.status = "ok" /\ image.value = b /\ image.pos = pos + Len(b)
        BY <3>2, <3>3 DEF Returns, Recovers
      <4>2. Input(b, 0, b) /\ Complete(b, 0, b)
        <5> HIDE DEF b
        <5> QED
          BY <2>2 DEF Input, Agrees, Complete
      <4>3. Recovers(DecodeStruct(read, def, b, 0), b, 0, b, p.datum)
        BY <1>7, <2>1, <4>2, InStructRecovers DEF IsStructLike
      <4>4. members.read = {p.datum}
        <5> HIDE DEF b, image
        <5> QED
          BY <4>1, <4>2, <4>3 DEF Recovers
      <4> HIDE DEF members, image, b
      <4> QED
        BY <3>1, <3>3, <4>1, <4>4 DEF Recovers, Ok
    <3>4. CASE ~Complete(bytes, pos, b)
      <4>1. image.status = "UnexpectedEnd"
        BY <3>2, <3>4 DEF Returns, Recovers
      <4> HIDE DEF members, image, b
      <4> QED
        BY <3>1, <3>4, <4>1 DEF Recovers
    <3> QED
      BY <3>3, <3>4
  <2> HIDE DEF b
  <2> QED
    BY <1>1, <1>4, <2>2, <2>3 DEF Decodes
<1> QED
  BY <1>6, <1>7
-----------------------------------------------------------------------------
(* The tag of an enum tells its variant. *)
TagsDistinct(def) ==
  \A i, j \in DOMAIN def.members : def.members[i].index = def.members[j].index => i = j

LEMMA VariantFound ==
  ASSUME NEW def, TagsDistinct(def), NEW v \in Nat, v \in DOMAIN def.members
  PROVE  {i \in DOMAIN def.members : def.members[i].index = def.members[v].index} = {v} /\ Min({v}) = v
<1>1. {i \in DOMAIN def.members : def.members[i].index = def.members[v].index} = {v}
  BY DEF TagsDistinct
<1>2. {v} \in SUBSET Nat /\ {v} # {}
  OBVIOUS
<1>3. Min({v}) \in {v}
  BY <1>2, MinOfNaturals
<1> QED
  BY <1>1, <1>3

LEMMA EnumDecodes ==
  ASSUME NEW c, NEW p, Ready(c, p), p.ty.tag = "allocated", DefinitionOf(c, p).kind = "enum",
         IndicesDistinct(c.schema), NEW sizes, NEW encoded,
         NEW read, PartsRead(c, p, encoded, read)
  PROVE  Decodes(c, p, EncodeType(c, sizes, encoded, p), read)
<1> DEFINE def == DefinitionOf(c, p)
           v == p.datum.variant
           part == PartsOf(c, p)[1]
           index == def.members[v].index
           b == encoded[part]
<1>1. PICK k \in Nat : k = def.index_ty
  BY DefinitionOfPart, IndexTypeOf
<1>2. v \in DOMAIN def.members /\ p.datum = [variant |-> v, value |-> p.datum.value] /\ Holds(k, index)
  BY <1>1 DEF Ready, WellTyped, IsSequence, IsBitfield
<1>3. TagsDistinct(def)
  <2>1. p.ty.handle \in DOMAIN c.schema /\ def = c.schema[p.ty.handle]
    BY DEF Ready, TypeIn, DefinitionOf
  <2> QED
    BY <2>1 DEF IndicesDistinct, TagsDistinct, IsIndexed
<1>4. v \in Nat
  BY <1>2, DefinitionOfPart, MembersOf
<1>5. PartsOf(c, p) = <<part>> /\ part.ty = def.members[v].ty /\ part.datum = p.datum.value
  BY DEF PartsOf, IsSequence, IsBitfield, Variant, MemberPart, Part
<1>6. b \in Seq(Byte) /\ ReadsPart(read, part, b)
  <2>1. part \in Range(PartsOf(c, p))
    <3> HIDE DEF part
    <3> QED
      BY <1>5 DEF Range
  <2> QED
    BY <2>1 DEF PartsRead
<1>7. EncodeParts(c, encoded, p) = b
  <2>1. [i \in DOMAIN PartsOf(c, p) |-> encoded[PartsOf(c, p)[i]]] = <<b>>
    <3> HIDE DEF part
    <3>1. [i \in DOMAIN <<part>> |-> encoded[<<part>>[i]]] = <<encoded[part]>>
      OBVIOUS
    <3> QED
      BY <1>5, <3>1
  <2>2. EncodeParts(c, encoded, p) = FlattenSeq(<<b>>)
    BY <2>1 DEF EncodeParts
  <2> HIDE DEF b
  <2> QED
    BY <1>6, <2>2, FlattenOne
<1> DEFINE a == LittleEndian(index, k)
<1>8. EncodeType(c, sizes, encoded, p) = a \o b
  BY <1>1, <1>7 DEF EncodeType, EncodeNamed, EncodeEnum, IsSequence
<1>9. a \in Seq(Byte)
  BY <1>2, LittleEndianBytes DEF Holds
<1>10. a \o b \in Seq(Byte)
  BY <1>6, <1>9
<1>11. ASSUME NEW bytes, NEW pos, Input(bytes, pos, a \o b)
       PROVE  Recovers(DecodeType(c, read, p.ty, bytes, pos), bytes, pos, a \o b, p.datum)
  <2> DEFINE tag == NextNumber(bytes, pos, k)
             variants == {i \in DOMAIN def.members : def.members[i].index = tag.value}
             x == read[At(def.members[Min(variants)].ty, bytes, tag.pos)]
             second == IF variants = {} THEN Err("UnknownDiscriminant", tag.pos)
                       ELSE IF x.status # "ok" THEN x
                       ELSE Ok([variant |-> Min(variants), value |-> x.value],
                               {[variant |-> Min(variants), value |-> y] : y \in x.read}, x.pos)
  <2>1. DecodeType(c, read, p.ty, bytes, pos) = IF tag.status # "ok" THEN tag ELSE second
    BY <1>1 DEF DecodeType, DecodeNamed, DecodeEnum, DefinitionOf
  <2>2. bytes \in Seq(Byte) /\ pos \in 0..Len(bytes) /\ pos \in Nat
    BY <1>11 DEF Input
  <2>3. Agrees(bytes, pos, a) /\ Agrees(bytes, pos + Len(a), b)
    <3> HIDE DEF a, b
    <3> QED
      BY <1>6, <1>9, <1>11, <2>2, HalvesAgree DEF Input
  <2>4. Returns(tag, bytes, pos, a, index)
    BY <1>2, <2>2, <2>3, NumberReturned
  <2>5. ASSUME Complete(bytes, pos, a) PROVE Recovers(second, bytes, pos + Len(a), b, p.datum)
    <3>1. tag.status = "ok" /\ tag.value = index /\ tag.pos = pos + Len(a)
      BY <2>4, <2>5 DEF Returns, Recovers
    <3>2. variants = {v} /\ Min(variants) = v
      <4>1. variants = {i \in DOMAIN def.members : def.members[i].index = def.members[v].index}
        BY <3>1
      <4> HIDE DEF v, variants, def
      <4>2. variants = {v} /\ Min({v}) = v
        BY <1>2, <1>3, <1>4, <4>1, VariantFound
      <4> QED
        BY <4>2
    <3>3. Input(bytes, pos + Len(a), b)
      <4>1. pos + Len(a) \in 0..Len(bytes)
        <5> HIDE DEF a
        <5> QED
          BY <1>9, <2>2, <2>5 DEF Complete
      <4> QED
        BY <2>2, <2>3, <4>1 DEF Input
    <3>4. Recovers(read[At(part.ty, bytes, pos + Len(a))], bytes, pos + Len(a), b, part.datum)
      BY <1>6, <3>3 DEF ReadsPart
    <3>5. Recovers(x, bytes, pos + Len(a), b, p.datum.value)
      <4> HIDE DEF part, tag, variants, a, b
      <4> QED
        BY <1>5, <3>1, <3>2, <3>4
    <3>6. second = IF x.status # "ok" THEN x
                   ELSE Ok([variant |-> v, value |-> x.value],
                           {[variant |-> v, value |-> y] : y \in x.read}, x.pos)
      <4> HIDE DEF x, variants, v
      <4> QED
        BY <3>2
    <3> HIDE DEF second, x, v, a, b
    <3>7. CASE Complete(bytes, pos + Len(a), b)
      <4>1. x.status = "ok" /\ x.read = {p.datum.value} /\ x.pos = (pos + Len(a)) + Len(b)
        BY <3>5, <3>7 DEF Recovers
      <4>2. {[variant |-> v, value |-> y] : y \in {p.datum.value}} = {p.datum}
        BY <1>2
      <4> QED
        BY <3>6, <3>7, <4>1, <4>2 DEF Recovers, Ok
    <3>8. CASE ~Complete(bytes, pos + Len(a), b)
      <4>1. x.status = "UnexpectedEnd"
        BY <3>5, <3>8 DEF Recovers
      <4> QED
        BY <3>6, <3>8, <4>1 DEF Recovers
    <3> QED
      BY <3>7, <3>8
  <2> HIDE DEF tag, second, a, b
  <2>6. Recovers(Then(tag, second), bytes, pos, a \o b, p.datum)
    <3> PICK at : at = pos + Len(a)
      OBVIOUS
    <3> QED
      BY <1>6, <1>9, <2>2, <2>4, <2>5, ThenRecovers
  <2> QED
    BY <2>1, <2>6 DEF Then
<1> HIDE DEF a, b
<1> QED
  BY <1>8, <1>10, <1>11 DEF Decodes
-----------------------------------------------------------------------------
(* The bitmap of a dict has the members that are there. *)
IndicesFit(def) == \A i \in DOMAIN def.members : def.members[i].index \in Nat /\ def.members[i].index < 8 * def.index_ty

LEMMA PresentIsSet ==
  ASSUME NEW def, def.index_ty \in Nat, TagsDistinct(def), IndicesFit(def),
         NEW v, DOMAIN v = DOMAIN def.members, NEW i \in DOMAIN def.members
  PROVE  IsSet(Bitmap(def, v), def.members[i].index) <=> v[i] # <<>>
<1> DEFINE set == {def.members[k].index : k \in {j \in DOMAIN v : v[j] # <<>>}}
<1>1. Bitmap(def, v) = Bits(set, def.index_ty)
  BY DEF Bitmap
<1>2. def.members[i].index \in set <=> v[i] # <<>>
  BY DEF TagsDistinct
<1> HIDE DEF set
<1> PICK n \in Nat : n = def.index_ty
  OBVIOUS
<1> PICK index : index = def.members[i].index
  OBVIOUS
<1>3. index \in Nat /\ index < 8 * n
  BY DEF IndicesFit
<1>4. IsSet(Bits(set, n), index) <=> index \in set
  BY <1>3, BitmapRead
<1> QED
  BY <1>1, <1>2, <1>4

LEMMA PresentRecovers ==
  ASSUME NEW r, NEW bytes, NEW at, NEW b, NEW x, Recovers(r, bytes, at, b, x)
  PROVE  Recovers(Present(r), bytes, at, b, <<x>>)
<1>1. CASE Complete(bytes, at, b)
  <2>1. r.status = "ok" /\ r.read = {x} /\ r.pos = at + Len(b)
    BY <1>1 DEF Recovers
  <2>2. {<<y>> : y \in {x}} = {<<x>>}
    OBVIOUS
  <2> QED
    BY <1>1, <2>1, <2>2 DEF Recovers, Present, Ok
<1>2. CASE ~Complete(bytes, at, b)
  <2>1. r.status = "UnexpectedEnd"
    BY <1>2 DEF Recovers
  <2> QED
    BY <1>2, <2>1 DEF Recovers, Present
<1> QED
  BY <1>1, <1>2

(* A member that is not there takes no bytes. *)
LEMMA AbsentIsEmpty ==
  ASSUME NEW c, NEW q, q.ty = Integer(0), NEW s, NEW b, Exact(c, q, s, b)
  PROVE  Len(b) = 0
<1>1. WidthOfType(q.ty, c.bit_width) = Fixed(0)
  BY DEF WidthOfType, Integer
<1>2. Fixed(0) # Variable /\ Fixed(0).bits \div 8 = 0
  BY DEF Fixed, Variable
<1> QED
  BY <1>1, <1>2 DEF Exact, IsFixedSize, FixedSize

LEMMA DictDecodes ==
  ASSUME NEW c, NEW p, Ready(c, p), p.ty.tag = "allocated", DefinitionOf(c, p).kind = "dict",
         IndicesDistinct(c.schema), IndicesInRange(c.schema),
         NEW sizes, NEW encoded, PartsExact(c, p, sizes, encoded),
         NEW read, PartsRead(c, p, encoded, read)
  PROVE  Decodes(c, p, EncodeType(c, sizes, encoded, p), read)
<1> DEFINE def == DefinitionOf(c, p)
           v == p.datum
           n == Len(def.members)
           parts == PartsOf(c, p)
           a == Bitmap(def, v)
           b == EncodeParts(c, encoded, p)
<1>1. PICK k \in Nat : k = def.index_ty
  BY DefinitionOfPart, IndexTypeOf
<1>2. IsList(v) /\ Len(v) = n /\ \A i \in DOMAIN v : v[i] # <<>> => v[i] = <<v[i][1]>>
  BY DEF Ready, WellTyped, IsSequence, IsBitfield
<1>3. n \in Nat /\ DOMAIN def.members = 1..n /\ DOMAIN v = 1..n
  <2>1. n \in Nat /\ DOMAIN def.members = 1..n
    BY DefinitionOfPart, MembersOf
  <2>2. DOMAIN v = 1..Len(v)
    <3> HIDE DEF v
    <3> QED
      BY <1>2 DEF IsList
  <2> QED
    BY <1>2, <2>1, <2>2
<1>4. TagsDistinct(def) /\ IndicesFit(def)
  <2>1. p.ty.handle \in DOMAIN c.schema /\ def = c.schema[p.ty.handle]
    BY DEF Ready, TypeIn, DefinitionOf
  <2>2. TagsDistinct(def)
    BY <2>1 DEF IndicesDistinct, TagsDistinct, IsIndexed
  <2>3. \A i \in DOMAIN def.members : def.members[i].index < 8 * def.index_ty
    BY <2>1 DEF IndicesInRange, IsIndexed
  <2>4. \A i \in DOMAIN def.members : def.members[i].index \in Nat
    <3>1. def.members \in Seq(IndexedMember)
      BY DefinitionOfPart, KindOfDefinition
    <3> DEFINE S == IndexedMember
               m == def.members
    <3>2. m \in Seq(S)
      BY <3>1
    <3>3. \A x \in S : x.index \in Nat
      BY DEF IndexedMember
    <3> HIDE DEF m, S
    <3>4. \A i \in DOMAIN m : m[i] \in S
      BY <3>2
    <3>5. \A i \in DOMAIN m : m[i].index \in Nat
      BY <3>3, <3>4
    <3> QED
      BY <3>5 DEF m
  <2> QED
    BY <2>2, <2>3, <2>4 DEF IndicesFit
<1>5. Listed(parts, n)
  BY DictMembersListed
<1>6. ASSUME NEW i \in 1..n
      PROVE  /\ v[i] = <<>> => parts[i].ty = Integer(0)
             /\ v[i] # <<>> => parts[i].ty = def.members[i].ty /\ v[i] = <<parts[i].datum>>
             /\ Exact(c, parts[i], sizes[parts[i]], encoded[parts[i]])
  <2>1. parts = DictMembers(c, p)
    BY DEF PartsOf, IsSequence, IsBitfield
  <2>2. parts[i] = IF v[i] = <<>> THEN Part(Integer(0), 0, "member") ELSE MemberPart(c, p, i, v[i][1])
    BY <1>3, <2>1 DEF DictMembers
  <2>3. v[i] # <<>> => v[i] = <<v[i][1]>>
    BY <1>2, <1>3
  <2>4. parts[i] \in Range(parts)
    <3> HIDE DEF parts
    <3> QED
      BY <1>5 DEF Range, Listed
  <2>5. Exact(c, parts[i], sizes[parts[i]], encoded[parts[i]])
    BY <2>4 DEF PartsExact
  <2> HIDE DEF parts, v, def
  <2> QED
    BY <2>2, <2>3, <2>5 DEF Part, MemberPart, def
<1>7. EncodeType(c, sizes, encoded, p) = a \o b
  BY DEF EncodeType, EncodeNamed, EncodeDict, IsSequence
<1>8. a \in Seq(Byte) /\ Len(a) = k
  BY <1>1, BitmapRead DEF Bitmap
<1>9. b \in Seq(Byte)
  BY <1>5, PartsLaidOut DEF PartsRead, PartsBytes
<1>10. a \o b \in Seq(Byte)
  BY <1>8, <1>9
<1>11. ASSUME NEW i \in 1..n PROVE IsSet(a, def.members[i].index) <=> v[i] # <<>>
  <2> HIDE DEF def, v
  <2> QED
    BY <1>1, <1>3, <1>4, PresentIsSet
<1>12. ASSUME NEW bytes, NEW pos, Input(bytes, pos, a \o b)
       PROVE  Recovers(DecodeType(c, read, p.ty, bytes, pos), bytes, pos, a \o b, v)
  <2> DEFINE bitmap == NextBytes(bytes, pos, k)
             MemberOf(i) ==
               [at \in Nat |-> IF IsSet(bitmap.value, def.members[i].index)
                               THEN Present(read[At(def.members[i].ty, bytes, at)])
                               ELSE Plain(<<>>, at)]
             next == [i \in DOMAIN def.members |-> MemberOf(i)]
             second == InOrder(next, n, bitmap.pos)
  <2>1. DecodeType(c, read, p.ty, bytes, pos) = Then(bitmap, second)
    BY <1>1 DEF DecodeType, DecodeNamed, DecodeDict, DefinitionOf, Then
  <2>2. bytes \in Seq(Byte) /\ pos \in 0..Len(bytes) /\ pos \in Nat
    BY <1>12 DEF Input
  <2>3. Agrees(bytes, pos, a) /\ Agrees(bytes, pos + Len(a), b)
    <3> HIDE DEF a, b
    <3> QED
      BY <1>8, <1>9, <1>12, <2>2, HalvesAgree DEF Input
  <2>4. Returns(bitmap, bytes, pos, a, a)
    <3> HIDE DEF a
    <3> QED
      BY <1>8, <2>2, <2>3, BytesReturned
  <2>5. ASSUME Complete(bytes, pos, a) PROVE Recovers(second, bytes, pos + Len(a), b, v)
    <3>1. bitmap.status = "ok" /\ bitmap.value = a /\ bitmap.pos = pos + Len(a)
      BY <2>4, <2>5 DEF Returns, Recovers
    <3>2. Input(bytes, pos + Len(a), b)
      <4>1. pos + Len(a) \in 0..Len(bytes)
        <5> HIDE DEF a
        <5> QED
          BY <1>8, <2>2, <2>5 DEF Complete
      <4> QED
        BY <2>2, <2>3, <4>1 DEF Input
    <3>3. ASSUME NEW i \in 1..n, NEW at \in Nat
          PROVE  next[i][at] = IF v[i] # <<>> THEN Present(read[At(def.members[i].ty, bytes, at)])
                               ELSE Plain(<<>>, at)
      <4>1. next[i][at] = IF IsSet(bitmap.value, def.members[i].index)
                          THEN Present(read[At(def.members[i].ty, bytes, at)]) ELSE Plain(<<>>, at)
        <5> HIDE DEF bitmap
        <5> QED
          BY <1>3
      <4> HIDE DEF next, bitmap, a, v
      <4> QED
        BY <1>11, <3>1, <4>1
    <3> HIDE DEF next
    <3>4. ASSUME NEW i \in 1..n, NEW at \in Nat, at <= Len(bytes),
                 Recovers(read[At(parts[i].ty, bytes, at)], bytes, at, encoded[parts[i]], parts[i].datum)
          PROVE  Recovers(next[i][at], bytes, at, encoded[parts[i]], v[i])
      <4> HIDE DEF parts, v, def
      <4>1. CASE v[i] = <<>>
        <5>1. Len(encoded[parts[i]]) = 0
          BY <1>6, <4>1, AbsentIsEmpty
        <5>2. Complete(bytes, at, encoded[parts[i]]) /\ at + Len(encoded[parts[i]]) = at
          BY <3>4, <5>1 DEF Complete
        <5>3. next[i][at] = Plain(<<>>, at)
          BY <3>3, <4>1
        <5> QED
          BY <4>1, <5>2, <5>3 DEF Recovers, Plain, Ok
      <4>2. CASE v[i] # <<>>
        <5>1. next[i][at] = Present(read[At(parts[i].ty, bytes, at)]) /\ v[i] = <<parts[i].datum>>
          BY <1>6, <3>3, <4>2
        <5> QED
          BY <3>4, <5>1, PresentRecovers
      <4> QED
        BY <4>1, <4>2
    <3>5. ReadsEach(next, read, bytes, c, p, encoded, v, n)
      BY <3>4 DEF ReadsEach
    <3> HIDE DEF parts, n
    <3>6. Recovers(InOrder(next, n, pos + Len(a)), bytes, pos + Len(a), b, UpTo(v, n))
      BY <1>5, <3>2, <3>5, MembersRecover DEF parts
    <3>7. UpTo(v, n) = v
      BY <1>2, ListIsUpTo
    <3> QED
      BY <3>1, <3>6, <3>7
  <2> HIDE DEF bitmap, second, a, b, v
  <2>6. Recovers(Then(bitmap, second), bytes, pos, a \o b, v)
    <3> PICK at : at = pos + Len(a)
      OBVIOUS
    <3> QED
      BY <1>8, <1>9, <2>2, <2>4, <2>5, ThenRecovers
  <2> QED
    BY <2>1, <2>6
<1> HIDE DEF a, b
<1> QED
  BY <1>7, <1>10, <1>12 DEF Decodes
-----------------------------------------------------------------------------
AllOfLength(seqs, n, w) == \A i \in 1..n : Len(seqs[i]) = w

LEMMA EndsOfSame ==
  ASSUME NEW n \in Nat, NEW seqs, NEW w \in Nat, AllOfLength(seqs, n, w), NEW h, Ends(h, seqs, n),
         NEW k \in 0..n
  PROVE  h[k] = w * k
<1> DEFINE K == {i \in Nat : i <= n => h[i] = w * i}
<1>1. 0 \in K
  BY DEF Ends
<1>2. ASSUME NEW i \in Nat, i \in K PROVE i + 1 \in K
  <2> SUFFICES ASSUME i + 1 <= n PROVE h[i + 1] = w * (i + 1)
    OBVIOUS
  <2>1. PICK m \in 1..n : m = i + 1 /\ m - 1 = i
    OBVIOUS
  <2>2. h[m] = h[m - 1] + w
    BY DEF Ends, AllOfLength
  <2>3. h[i] = w * i
    BY <1>2
  <2>4. w * i + w = w * (i + 1)
    OBVIOUS
  <2> QED
    BY <2>1, <2>2, <2>3, <2>4
<1>3. k \in K
  <2> HIDE DEF K
  <2> QED
    BY <1>1, <1>2, SetInduction
<1> QED
  BY <1>3

(***************************************************************************)
(* The elements of a sequence, read from the bytes of all of them.         *)
(***************************************************************************)
LEMMA AgreesWithItself ==
  ASSUME NEW b \in Seq(Byte)
  PROVE  Agrees(b, 0, b)
BY DEF Agrees

LEMMA ElementRecovers ==
  ASSUME NEW c, NEW p, NEW encoded, NEW read, PartsRead(c, p, encoded, read),
         NEW n, Listed(PartsOf(c, p), n), NEW h,
         LaidOut(EncodeParts(c, encoded, p), h, EncodedOf(PartsOf(c, p), n, encoded), n),
         NEW i \in 1..n, NEW r,
         r = read[At(PartsOf(c, p)[i].ty, EncodeParts(c, encoded, p), h[i - 1])]
  PROVE  r.status = "ok" /\ r.read = {PartsOf(c, p)[i].datum} /\ r.pos = h[i]
<1> DEFINE parts == PartsOf(c, p)
           seqs == EncodedOf(parts, n, encoded)
           b == EncodeParts(c, encoded, p)
<1>1. n \in Nat /\ parts = [j \in 1..n |-> parts[j]]
  BY DEF Listed
<1>2. AreBytes(seqs, n) /\ b \in Seq(Byte)
  BY PartsLaidOut DEF PartsRead, PartsBytes
<1>3. parts[i] \in Range(parts)
  <2> HIDE DEF parts
  <2> QED
    BY <1>1 DEF Range
<1>4. seqs[i] = encoded[parts[i]]
  BY DEF EncodedOf
<1>5. ReadsPart(read, parts[i], seqs[i])
  BY <1>3, <1>4 DEF PartsRead
<1> HIDE DEF seqs, b, parts
<1>6. LaidOut(b, h, seqs, n) /\ r = read[At(parts[i].ty, b, h[i - 1])]
  BY DEF seqs, b, parts
<1>7. Agrees(b, 0 + h[i - 1], seqs[i])
  BY <1>1, <1>2, <1>6, AgreesWithItself, PartsAgree
<1>8. i - 1 \in 0..n /\ i \in 0..n /\ n \in 0..n /\ i <= n
  BY <1>1
<1>9. h[i - 1] \in Nat /\ h[i] \in Nat /\ h[n] \in Nat /\ h[i] = h[i - 1] + Len(seqs[i])
  BY <1>6, <1>8 DEF LaidOut, Ends
<1>10. h[i] <= h[n] /\ Len(b) = h[n]
  BY <1>1, <1>2, <1>6, <1>8, EndsGrow DEF LaidOut
<1>11. Len(seqs[i]) \in Nat
  BY <1>2 DEF AreBytes
<1> PICK k \in Nat : k = h[i - 1]
  BY <1>9
<1>12. 0 + k = k /\ k <= Len(b)
  BY <1>9, <1>10, <1>11
<1>13. Input(b, k, seqs[i])
  BY <1>2, <1>7, <1>9, <1>10, <1>12 DEF Input
<1>14. Complete(b, k, seqs[i])
  BY <1>9, <1>10 DEF Complete
<1>15. Recovers(read[At(parts[i].ty, b, k)], b, k, seqs[i], parts[i].datum)
  BY <1>5, <1>13 DEF ReadsPart
<1> QED
  BY <1>6, <1>9, <1>14, <1>15 DEF Recovers, parts

Elems(v, parts, n, ty) == \A i \in 1..n : parts[i].ty = ty /\ parts[i].datum = v[i]

LEMMA SliceItemsRead ==
  ASSUME NEW c, NEW p, NEW encoded, NEW read, PartsRead(c, p, encoded, read),
         NEW n, Listed(PartsOf(c, p), n), NEW ty, NEW v, Elems(v, PartsOf(c, p), n, ty),
         FixedSize(c, ty) \in Nat \ {0},
         AllOfLength(EncodedOf(PartsOf(c, p), n, encoded), n, FixedSize(c, ty))
  PROVE  /\ SliceItems(c, read, ty, EncodeParts(c, encoded, p)) = {UpTo(v, n)}
         /\ Len(EncodeParts(c, encoded, p)) = n * FixedSize(c, ty)
<1> DEFINE parts == PartsOf(c, p)
           seqs == EncodedOf(parts, n, encoded)
           b == EncodeParts(c, encoded, p)
           w == FixedSize(c, ty)
           count == Len(b) \div w
           Item(i) == read[At(ty, b, (i - 1) * w)].read
           item == [i \in 1..count |-> Item(i)]
<1>1. n \in Nat /\ w \in Nat \ {0}
  BY DEF Listed
<1>2. PICK h : LaidOut(b, h, seqs, n)
  BY PartsLaidOut DEF PartsRead, PartsBytes
<1>3. ASSUME NEW k \in 0..n PROVE h[k] = w * k
  <2> HIDE DEF seqs, w
  <2> QED
    BY <1>1, <1>2, EndsOfSame DEF LaidOut, seqs, w
<1>4. Len(b) = w * n /\ w * n = n * w /\ count = n
  <2>1. n \in 0..n
    BY <1>1
  <2>2. Len(b) = w * n
    BY <1>2, <1>3, <2>1 DEF LaidOut
  <2>3. (w * n) \div w = n /\ n * w = w * n
    <3> HIDE DEF w
    <3> QED
      BY <1>1, DivExact
  <2> QED
    BY <2>2, <2>3
<1>5. ASSUME NEW i \in 1..n PROVE Item(i) = {v[i]}
  <2>1. PICK k \in Nat : k = i - 1 /\ k \in 0..n
    BY <1>1
  <2>2. h[i - 1] = (i - 1) * w
    <3>1. h[k] = w * k /\ w * k = k * w
      <4> HIDE DEF w
      <4> QED
        BY <1>1, <1>3, <2>1
    <3> QED
      BY <2>1, <3>1
  <2>3. parts[i].ty = ty /\ parts[i].datum = v[i]
    BY DEF Elems
  <2>4. read[At(parts[i].ty, b, h[i - 1])].read = {parts[i].datum}
    BY <1>2, ElementRecovers
  <2> HIDE DEF parts, b, w
  <2> QED
    BY <2>2, <2>3, <2>4
<1> HIDE DEF Item
<1>6. item = [i \in 1..n |-> {v[i]}]
  BY <1>4, <1>5
<1>7. [i \in 1..n |-> Only(item[i])] = UpTo(v, n)
  <2> HIDE DEF item
  <2>1. \A i \in 1..n : Only(item[i]) = v[i]
    BY <1>6, OnlyOne
  <2> QED
    BY <2>1 DEF UpTo
<1>8. \A i \in 1..n : item[i] # {}
  <2> HIDE DEF item
  <2> QED
    BY <1>6
<1>9. SliceItems(c, read, ty, b) =
        UNION {IF \E i \in 1..count : results[i] = {} THEN {} ELSE {[i \in 1..count |-> Only(results[i])]} :
                 results \in {item}}
  <2>1. w # 0
    BY <1>1
  <2>2. count = IF w = 0 THEN 0 ELSE Len(b) \div w
    BY <2>1
  <2> QED
    BY <2>2 DEF SliceItems, Item
<1> HIDE DEF item, b, count
<1>10. SliceItems(c, read, ty, b) = {UpTo(v, n)}
  <2> DEFINE F(results) == IF \E i \in 1..count : results[i] = {} THEN {}
                         ELSE {[i \in 1..count |-> Only(results[i])]}
  <2>1. F(item) = {UpTo(v, n)}
    BY <1>4, <1>7, <1>8
  <2>2. SliceItems(c, read, ty, b) = UNION {F(results) : results \in {item}}
    BY <1>9
  <2> HIDE DEF F
  <2>3. {F(results) : results \in {item}} = {F(item)}
    OBVIOUS
  <2> QED
    BY <2>1, <2>2, <2>3
<1> QED
  BY <1>4, <1>10 DEF b
-----------------------------------------------------------------------------
PartsSized(c, p, sizes) == \A q \in Range(PartsOf(c, p)) : sizes[q] \in Nat

(* A sequence is its length, and its elements. *)
LEMMA SequenceParts ==
  ASSUME NEW c, NEW p, Ready(c, p), IsOne(c, p)
  PROVE  /\ Len(p.datum) \in Nat /\ UpTo(p.datum, Len(p.datum)) = p.datum
         /\ Listed(PartsOf(c, p), Len(p.datum))
         /\ Elems(p.datum, PartsOf(c, p), Len(p.datum), DefinitionOf(c, p).elem_ty)
         /\ DefinitionOf(c, p).len_ty \in LenType /\ DefinitionOf(c, p).len_ty \in Nat
         /\ TypeIn(c, DefinitionOf(c, p).elem_ty)
<1> DEFINE n == Len(p.datum)
<1>1. p.ty.tag = "allocated" /\ IsSequence(DefinitionOf(c, p))
  BY DEF IsOne
<1>2. IsList(p.datum)
  BY <1>1 DEF Ready, WellTyped, IsSequence
<1>3. n \in Nat /\ UpTo(p.datum, n) = p.datum
  BY <1>2, ListIsUpTo DEF IsList
<1>4. Listed(PartsOf(c, p), n) /\ TypeIn(c, DefinitionOf(c, p).elem_ty)
      /\ \A i \in 1..n : PartsOf(c, p)[i].ty = DefinitionOf(c, p).elem_ty
  BY <1>1, ElementsListed
<1>5. PartsOf(c, p) = Elements(c, p)
  BY <1>1 DEF PartsOf, IsSequence
<1>6. DOMAIN p.datum = 1..n
  BY <1>2 DEF IsList
<1>7. \A i \in 1..n : PartsOf(c, p)[i].datum = p.datum[i]
  BY <1>5, <1>6 DEF Elements, Part
<1>8. DefinitionOf(c, p).len_ty \in LenType /\ DefinitionOf(c, p).len_ty \in Nat
  BY <1>1, LengthTypeOf DEF LenType, VarintSize
<1> QED
  BY <1>3, <1>4, <1>7, <1>8 DEF Elems

LEMMA SequenceWritten ==
  ASSUME NEW c, NEW p, Ready(c, p), IsOne(c, p), NEW sizes, NEW encoded,
         PartsExact(c, p, sizes, encoded), PartsSized(c, p, sizes), PartsBytes(c, p, encoded)
  PROVE  /\ EncodeType(c, sizes, encoded, p) =
              LenBytes(DefinitionOf(c, p).len_ty, LengthOf(c, encoded, p)) \o EncodeParts(c, encoded, p)
         /\ LengthOf(c, encoded, p) \in Nat
         /\ LenBytes(DefinitionOf(c, p).len_ty, LengthOf(c, encoded, p)) \in Seq(Byte)
         /\ EncodeParts(c, encoded, p) \in Seq(Byte)
         /\ EncodeType(c, sizes, encoded, p) \in Seq(Byte)
<1> DEFINE def == DefinitionOf(c, p)
           n == Len(p.datum)
           parts == PartsOf(c, p)
           b == EncodeParts(c, encoded, p)
           l == LengthOf(c, encoded, p)
<1>1. n \in Nat /\ Listed(parts, n) /\ def.len_ty \in Nat
  BY SequenceParts
<1>2. b \in Seq(Byte)
  BY <1>1, PartsLaidOut
<1>3. PrepareParts(c, sizes, p) = Len(b)
  <2>1. \A i \in 1..n : sizes[parts[i]] \in Nat
    <3>1. \A i \in 1..n : parts[i] \in Range(parts)
      <4> HIDE DEF parts
      <4> QED
        BY <1>1 DEF Range, Listed
    <3> QED
      BY <3>1 DEF PartsSized
  <2>2. AddUp(parts, n, sizes, PrepareParts(c, sizes, p), b)
    BY <1>1, PartsAddUp
  <2> HIDE DEF parts, b
  <2> QED
    BY <2>1, <2>2 DEF AddUp
<1>4. l = IF def.kind = "vector" THEN n ELSE PrepareParts(c, sizes, p)
  <2> HIDE DEF b
  <2> QED
    BY <1>3 DEF LengthOf, b
<1>5. EncodeType(c, sizes, encoded, p) = LenBytes(def.len_ty, l) \o b
  <2>1. EncodeType(c, sizes, encoded, p) = EncodeSequence(c, sizes, encoded, p)
    BY DEF IsOne, EncodeType, IsSequence
  <2> HIDE DEF l, b, n
  <2> QED
    BY <1>4, <2>1 DEF EncodeSequence, b, n
<1>6. l \in Nat
  <2>1. Len(b) \in Nat
    BY <1>2
  <2> HIDE DEF b, l, n
  <2> QED
    BY <1>1, <1>3, <1>4, <2>1
<1>7. LenBytes(def.len_ty, l) \in Seq(Byte)
  BY <1>1, <1>6, LengthBytes
<1>8. LenBytes(def.len_ty, l) \o b \in Seq(Byte)
  <2> HIDE DEF b, l
  <2> QED
    BY <1>2, <1>7
<1> QED
  BY <1>2, <1>5, <1>6, <1>7, <1>8

(* Where the length ends, and the elements begin. *)
LengthRead(c, p, encoded, bytes, pos, length) ==
  LET a == LenBytes(DefinitionOf(c, p).len_ty, LengthOf(c, encoded, p))
      b == EncodeParts(c, encoded, p)
  IN  /\ a \in Seq(Byte) /\ b \in Seq(Byte)
      /\ bytes \in Seq(Byte) /\ pos \in 0..Len(bytes) /\ pos \in Nat
      /\ Returns(length, bytes, pos, a, LengthOf(c, encoded, p))
      /\ Agrees(bytes, pos + Len(a), b)

LEMMA SequenceLength ==
  ASSUME NEW c, NEW p, Ready(c, p), IsOne(c, p), NEW sizes, NEW encoded,
         PartsExact(c, p, sizes, encoded), PartsSized(c, p, sizes), PartsBytes(c, p, encoded),
         Fits(DefinitionOf(c, p).len_ty, LengthOf(c, encoded, p)),
         NEW bytes, NEW pos, Input(bytes, pos, EncodeType(c, sizes, encoded, p)),
         NEW length,
         length = IF DefinitionOf(c, p).kind = "vector" /\ ~IsFixedSize(c, DefinitionOf(c, p).elem_ty)
                  THEN NextEagerLength(DefinitionOf(c, p).len_ty, bytes, pos)
                  ELSE NextLength(DefinitionOf(c, p).len_ty, bytes, pos),
         DefinitionOf(c, p).kind = "vector" /\ ~IsFixedSize(c, DefinitionOf(c, p).elem_ty) =>
           IsVarint(DefinitionOf(c, p).len_ty)
  PROVE  LengthRead(c, p, encoded, bytes, pos, length)
<1> DEFINE def == DefinitionOf(c, p)
           b == EncodeParts(c, encoded, p)
           l == LengthOf(c, encoded, p)
           a == LenBytes(def.len_ty, l)
<1>1. EncodeType(c, sizes, encoded, p) = a \o b /\ a \in Seq(Byte) /\ b \in Seq(Byte)
  BY SequenceWritten
<1>2. bytes \in Seq(Byte) /\ pos \in 0..Len(bytes) /\ pos \in Nat /\ Agrees(bytes, pos, a \o b)
  BY <1>1 DEF Input
<1>3. Agrees(bytes, pos, a) /\ Agrees(bytes, pos + Len(a), b)
  <2> HIDE DEF a, b
  <2> QED
    BY <1>1, <1>2, HalvesAgree
<1>4. def.len_ty \in LenType
  BY SequenceParts
<1>5. Returns(length, bytes, pos, a, l)
  BY <1>2, <1>3, <1>4, LengthReturned
<1> QED
  BY <1>1, <1>2, <1>3, <1>5 DEF LengthRead

(* It is decoded if its elements are, from where the length ends. *)
LEMMA SequenceRecovers ==
  ASSUME NEW c, NEW p, Ready(c, p), IsOne(c, p), NEW sizes, NEW encoded,
         PartsExact(c, p, sizes, encoded), PartsSized(c, p, sizes),
         NEW read, PartsRead(c, p, encoded, read),
         Fits(DefinitionOf(c, p).len_ty, LengthOf(c, encoded, p)),
         NEW bytes, NEW pos, Input(bytes, pos, EncodeType(c, sizes, encoded, p)),
         NEW length,
         length = IF DefinitionOf(c, p).kind = "vector" /\ ~IsFixedSize(c, DefinitionOf(c, p).elem_ty)
                  THEN NextEagerLength(DefinitionOf(c, p).len_ty, bytes, pos)
                  ELSE NextLength(DefinitionOf(c, p).len_ty, bytes, pos),
         DefinitionOf(c, p).kind = "vector" /\ ~IsFixedSize(c, DefinitionOf(c, p).elem_ty) =>
           IsVarint(DefinitionOf(c, p).len_ty),
         NEW second,
         length.status = "ok" /\ length.value = LengthOf(c, encoded, p)
           /\ Input(bytes, length.pos, EncodeParts(c, encoded, p)) =>
           Recovers(second, bytes, length.pos, EncodeParts(c, encoded, p), p.datum)
  PROVE  Recovers(Then(length, second), bytes, pos, EncodeType(c, sizes, encoded, p), p.datum)
<1> DEFINE def == DefinitionOf(c, p)
           b == EncodeParts(c, encoded, p)
           l == LengthOf(c, encoded, p)
           a == LenBytes(def.len_ty, l)
<1>1. LengthRead(c, p, encoded, bytes, pos, length)
  BY SequenceLength DEF PartsRead, PartsBytes
<1>2. EncodeType(c, sizes, encoded, p) = a \o b
  BY SequenceWritten DEF PartsRead, PartsBytes
<1>3. a \in Seq(Byte) /\ b \in Seq(Byte) /\ bytes \in Seq(Byte) /\ pos \in 0..Len(bytes) /\ pos \in Nat
      /\ Returns(length, bytes, pos, a, l) /\ Agrees(bytes, pos + Len(a), b)
  BY <1>1 DEF LengthRead
<1> PICK at : at = pos + Len(a)
  OBVIOUS
<1> HIDE DEF def, a, b, l
<1>4. ASSUME Complete(bytes, pos, a) PROVE Recovers(second, bytes, at, b, p.datum)
  <2>1. length.status = "ok" /\ length.value = l /\ length.pos = at
    BY <1>3, <1>4 DEF Returns, Recovers
  <2>2. at \in 0..Len(bytes)
    BY <1>3, <1>4 DEF Complete
  <2>3. Input(bytes, at, b)
    BY <1>3, <2>2 DEF Input
  <2> QED
    BY <2>1, <2>3 DEF b, l
<1>5. Recovers(Then(length, second), bytes, pos, a \o b, p.datum)
  BY <1>3, <1>4, ThenRecovers
<1> QED
  BY <1>2, <1>5
-----------------------------------------------------------------------------
(* A slice of fixed-sized elements. *)
LEMMA SliceDecodes ==
  ASSUME NEW c, NEW p, Ready(c, p), IsOne(c, p), DefinitionOf(c, p).kind = "vector",
         IsFixedSize(c, DefinitionOf(c, p).elem_ty), FixedSize(c, DefinitionOf(c, p).elem_ty) # 0,
         LaidOutAsWritten(c.schema, DefinitionOf(c, p).elem_ty), NEW sizes, NEW encoded,
         PartsExact(c, p, sizes, encoded), PartsSized(c, p, sizes),
         NEW read, PartsRead(c, p, encoded, read),
         Fits(DefinitionOf(c, p).len_ty, LengthOf(c, encoded, p))
  PROVE  Decodes(c, p, EncodeType(c, sizes, encoded, p), read)
<1> DEFINE def == DefinitionOf(c, p)
           n == Len(p.datum)
           w == FixedSize(c, def.elem_ty)
           parts == PartsOf(c, p)
           seqs == EncodedOf(parts, n, encoded)
           b == EncodeParts(c, encoded, p)
           t == EncodeType(c, sizes, encoded, p)
<1>1. n \in Nat /\ UpTo(p.datum, n) = p.datum /\ Listed(parts, n) /\ Elems(p.datum, parts, n, def.elem_ty)
      /\ TypeIn(c, def.elem_ty)
  BY SequenceParts
<1>2. w \in Nat \ {0}
  BY <1>1, WidthIsWidth DEF Ready
<1>3. AllOfLength(seqs, n, w)
  <2> SUFFICES ASSUME NEW i \in 1..n PROVE Len(seqs[i]) = w
    BY DEF AllOfLength
  <2>1. seqs[i] = encoded[parts[i]]
    BY DEF EncodedOf
  <2>2. parts[i] \in Range(parts)
    <3> HIDE DEF parts
    <3> QED
      BY <1>1 DEF Range, Listed
  <2>3. Exact(c, parts[i], sizes[parts[i]], encoded[parts[i]])
    BY <2>2 DEF PartsExact
  <2>4. parts[i].ty = def.elem_ty
    BY <1>1 DEF Elems
  <2> HIDE DEF parts, seqs, def
  <2> QED
    BY <2>1, <2>3, <2>4 DEF Exact, def
<1>4. SliceItems(c, read, def.elem_ty, b) = {p.datum} /\ Len(b) = n * w
  BY <1>1, <1>2, <1>3, SliceItemsRead
<1>5. t \in Seq(Byte) /\ b \in Seq(Byte)
  BY SequenceWritten DEF PartsRead, PartsBytes
<1>6. LengthOf(c, encoded, p) = n /\ n < Huge
  BY DEF LengthOf, Fits
<1>7. ASSUME NEW bytes, NEW pos, Input(bytes, pos, t)
      PROVE  Recovers(DecodeType(c, read, p.ty, bytes, pos), bytes, pos, t, p.datum)
  <2> DEFINE length == NextLength(def.len_ty, bytes, pos)
             view == NextBytes(bytes, length.pos, length.value * w)
             second == IF ~LaidOutAsWritten(c.schema, def.elem_ty) THEN Err("undefined", length.pos)
                       ELSE IF length.value >= Huge /\ MayWrap(def.len_ty, w) THEN Err("wrapped", length.pos)
                       ELSE IF view.status # "ok" THEN view
                       ELSE Ok(view.value, UNION {SliceItems(c, read, def.elem_ty, v) : v \in {view.value}},
                               view.pos)
  <2>1. DecodeType(c, read, p.ty, bytes, pos) = Then(length, second)
    <3>1. DecodeType(c, read, p.ty, bytes, pos) = DecodeSlice(c, read, def, bytes, pos)
      BY DEF DecodeType, IsOne, DefinitionOf
    <3> QED
      BY <3>1 DEF DecodeSlice, Then
  <2>2. ASSUME length.status = "ok", length.value = n, Input(bytes, length.pos, b)
        PROVE  Recovers(second, bytes, length.pos, b, p.datum)
    <3> PICK at : at = length.pos
      OBVIOUS
    <3>1. Returns(view, bytes, at, b, b)
      <4> HIDE DEF b, w, n, length
      <4> QED
        BY <1>4, <1>5, <2>2, BytesReturned DEF Input
    <3>2. second = IF view.status # "ok" THEN view
                   ELSE Ok(view.value, UNION {SliceItems(c, read, def.elem_ty, v) : v \in {view.value}},
                           view.pos)
      <4>1. ~(length.value >= Huge)
        <5> HIDE DEF n, length
        <5> QED
          BY <1>1, <1>6, <2>2, HugeAssumption
      <4> HIDE DEF view, length
      <4> QED
        BY <4>1
    <3> HIDE DEF view, second, b
    <3>3. CASE Complete(bytes, at, b)
      <4>1. view.status = "ok" /\ view.value = b /\ view.pos = at + Len(b)
        BY <3>1, <3>3 DEF Returns, Recovers
      <4>2. UNION {SliceItems(c, read, def.elem_ty, v) : v \in {b}} = {p.datum}
        BY <1>4
      <4> QED
        BY <3>2, <3>3, <4>1, <4>2 DEF Recovers, Ok
    <3>4. CASE ~Complete(bytes, at, b)
      <4>1. view.status = "UnexpectedEnd"
        BY <3>1, <3>4 DEF Returns, Recovers
      <4> QED
        BY <3>2, <3>4, <4>1 DEF Recovers
    <3> QED
      BY <3>3, <3>4
  <2> HIDE DEF second, n
  <2>3. Recovers(Then(length, second), bytes, pos, t, p.datum)
    BY <1>6, <1>7, <2>2, SequenceRecovers
  <2> QED
    BY <2>1, <2>3
<1> HIDE DEF t
<1> QED
  BY <1>5, <1>7 DEF Decodes, t
-----------------------------------------------------------------------------
NoneEmpty(seqs, n) == \A i \in 1..n : Len(seqs[i]) >= 1

LEMMA EndsAtLeast ==
  ASSUME NEW n \in Nat, NEW seqs, AreBytes(seqs, n), NoneEmpty(seqs, n), NEW h, Ends(h, seqs, n),
         NEW k \in 0..n
  PROVE  h[k] \in Nat /\ h[k] >= k
<1> DEFINE K == {i \in Nat : i <= n => h[i] >= i}
<1>1. 0 \in K
  BY DEF Ends
<1>2. ASSUME NEW i \in Nat, i \in K PROVE i + 1 \in K
  <2> SUFFICES ASSUME i + 1 <= n PROVE h[i + 1] >= i + 1
    OBVIOUS
  <2>1. PICK m \in 1..n : m = i + 1 /\ m - 1 = i
    OBVIOUS
  <2>2. h[m] = h[i] + Len(seqs[m]) /\ Len(seqs[m]) >= 1 /\ Len(seqs[m]) \in Nat
    BY <2>1 DEF Ends, NoneEmpty, AreBytes
  <2>3. h[i] \in Nat /\ h[i] >= i
    BY <1>2 DEF Ends
  <2> PICK u \in Nat, w \in Nat : u = h[i] /\ w = Len(seqs[m])
    BY <2>2, <2>3
  <2>4. u + w >= i + 1
    BY <2>2, <2>3
  <2> QED
    BY <2>1, <2>2, <2>4
<1>3. k \in K
  <2> HIDE DEF K
  <2> QED
    BY <1>1, <1>2, SetInduction
<1> QED
  BY <1>3 DEF Ends

LEMMA EndsBefore ==
  ASSUME NEW n \in Nat, NEW m \in 0..n, NEW seqs, AreBytes(seqs, n), NEW h, Ends(h, seqs, n)
  PROVE  AreBytes(seqs, m) /\ Ends(h, seqs, m)
<1>1. (\A i \in 0..m : i \in 0..n) /\ (\A i \in 1..m : i \in 1..n)
  OBVIOUS
<1> QED
  BY <1>1 DEF AreBytes, Ends

(* A vector whose elements are decoded one by one. *)
LEMMA EagerDecodes ==
  ASSUME NEW c, NEW p, Ready(c, p), IsOne(c, p), DefinitionOf(c, p).kind = "vector",
         ~IsFixedSize(c, DefinitionOf(c, p).elem_ty), IsVarint(DefinitionOf(c, p).len_ty),
         NEW sizes, NEW encoded, PartsExact(c, p, sizes, encoded), PartsSized(c, p, sizes),
         NEW read, PartsRead(c, p, encoded, read),
         NoneEmpty(EncodedOf(PartsOf(c, p), Len(p.datum), encoded), Len(p.datum)),
         Fits(DefinitionOf(c, p).len_ty, LengthOf(c, encoded, p))
  PROVE  Decodes(c, p, EncodeType(c, sizes, encoded, p), read)
<1> DEFINE def == DefinitionOf(c, p)
           n == Len(p.datum)
           parts == PartsOf(c, p)
           seqs == EncodedOf(parts, n, encoded)
           b == EncodeParts(c, encoded, p)
           t == EncodeType(c, sizes, encoded, p)
<1>1. n \in Nat /\ UpTo(p.datum, n) = p.datum /\ Listed(parts, n) /\ Elems(p.datum, parts, n, def.elem_ty)
  BY SequenceParts
<1>2. PICK h : LaidOut(b, h, seqs, n)
  BY <1>1, PartsLaidOut DEF PartsRead, PartsBytes
<1>3. AreBytes(seqs, n)
  BY <1>1, PartsLaidOut DEF PartsRead, PartsBytes
<1>4. t \in Seq(Byte) /\ b \in Seq(Byte)
  BY SequenceWritten DEF PartsRead, PartsBytes
<1>5. LengthOf(c, encoded, p) = n /\ n < Huge
  BY DEF LengthOf, Fits
<1>6. ASSUME NEW bytes, NEW pos, Input(bytes, pos, t)
      PROVE  Recovers(DecodeType(c, read, p.ty, bytes, pos), bytes, pos, t, p.datum)
  <2> DEFINE length == NextEagerLength(def.len_ty, bytes, pos)
             m == Min({length.value, Len(bytes) - length.pos + 1})
             next == [i \in 1..m |-> Reads(read, def.elem_ty, bytes)]
             elements == InOrder(next, m, length.pos)
             second == IF length.value >= Huge /\ elements.status \in Errors THEN Err("huge", length.pos)
                       ELSE elements
  <2>1. DecodeType(c, read, p.ty, bytes, pos) = Then(length, second)
    <3>1. DecodeType(c, read, p.ty, bytes, pos) = DecodeEager(read, def, bytes, pos)
      BY DEF DecodeType, IsOne, DefinitionOf
    <3> QED
      BY <3>1 DEF DecodeEager, Then
  <2>2. ASSUME length.status = "ok", length.value = n, Input(bytes, length.pos, b)
        PROVE  Recovers(second, bytes, length.pos, b, p.datum)
    <3> PICK at : at = length.pos
      OBVIOUS
    <3>1. bytes \in Seq(Byte) /\ at \in 0..Len(bytes) /\ at \in Nat /\ Input(bytes, at, b)
      BY <2>2 DEF Input
    <3> PICK q \in Nat : q = Len(bytes) - at
      BY <3>1
    <3>2. m = IF n <= q + 1 THEN n ELSE q + 1
      <4> HIDE DEF n, length
      <4> QED
        BY <1>1, <2>2, MinOfTwo
    <3>3. second = InOrder(next, m, at)
      <4>1. ~(length.value >= Huge)
        <5> HIDE DEF n, length
        <5> QED
          BY <1>1, <1>5, <2>2, HugeAssumption
      <4> HIDE DEF next, m
      <4>2. elements = InOrder(next, m, at)
        OBVIOUS
      <4> HIDE DEF elements
      <4> QED
        BY <4>1, <4>2
    <3>4. m \in 0..n /\ m \in Nat
      <4> HIDE DEF m, n
      <4> QED
        BY <1>1, <3>2
    <3>5. ReadsEach(next, read, bytes, c, p, encoded, p.datum, m)
      <4> HIDE DEF m, n
      <4>1. ASSUME NEW i \in 1..m, NEW k \in Nat
            PROVE  next[i][k] = read[At(parts[i].ty, bytes, k)] /\ parts[i].datum = p.datum[i]
        <5>1. i \in 1..n
          BY <1>1, <3>4
        <5>2. next[i] = Reads(read, def.elem_ty, bytes)
          OBVIOUS
        <5> HIDE DEF next, parts, def
        <5> QED
          BY <1>1, <5>1, <5>2 DEF Reads, Elems
      <4> HIDE DEF next, parts
      <4> QED
        BY <4>1 DEF ReadsEach, parts
    <3> HIDE DEF next, m, elements, second
    <3>6. EachRecovers(next, bytes, at, seqs, h, p.datum, m)
      <4> HIDE DEF n
      <4> QED
        BY <1>1, <1>2, <3>1, <3>4, <3>5, MembersEach
    <3> HIDE DEF seqs, n, b
    <3>7. AreBytes(seqs, m) /\ Ends(h, seqs, m) /\ Ends(h, seqs, n)
      BY <1>1, <1>2, <1>3, <3>4, EndsBefore DEF LaidOut
    <3>8. Reached(InOrder(next, m, at), bytes, at, h, p.datum, m)
      BY <3>1, <3>4, <3>6, <3>7, InOrderReached
    <3>9. Len(b) = h[n]
      BY <1>2 DEF LaidOut
    <3>10. CASE m = n
      BY <1>1, <3>3, <3>8, <3>9, <3>10 DEF Reached, Recovers, Complete
    <3>11. CASE m # n
      <4>1. m = q + 1 /\ m <= n
        BY <1>1, <3>2, <3>11
      <4>2. NoneEmpty(seqs, n)
        BY DEF seqs, n
      <4>3. h[m] \in Nat /\ h[m] >= m
        BY <1>1, <1>3, <3>4, <3>7, <4>2, EndsAtLeast
      <4>4. h[n] \in Nat /\ h[m] <= h[n]
        <5>1. n \in 0..n
          BY <1>1
        <5> QED
          BY <1>1, <1>3, <3>4, <3>7, <4>1, <5>1, EndsGrow
      <4> PICK u \in Nat, w \in Nat : u = h[m] /\ w = h[n]
        BY <4>3, <4>4
      <4>5. Len(bytes) \in Nat
        BY <3>1
      <4>6. ~(at + u <= Len(bytes)) /\ ~(at + w <= Len(bytes))
        BY <3>1, <4>1, <4>3, <4>4, <4>5
      <4>7. InOrder(next, m, at).status = "UnexpectedEnd"
        BY <3>8, <4>6 DEF Reached
      <4>8. ~Complete(bytes, at, b)
        BY <3>9, <4>6 DEF Complete
      <4> QED
        BY <3>3, <4>7, <4>8 DEF Recovers
    <3> QED
      BY <3>10, <3>11
  <2> HIDE DEF second, n
  <2>3. Recovers(Then(length, second), bytes, pos, t, p.datum)
    BY <1>5, <1>6, <2>2, SequenceRecovers
  <2> QED
    BY <2>1, <2>3
<1> HIDE DEF t
<1> QED
  BY <1>4, <1>6 DEF Decodes, t
-----------------------------------------------------------------------------
(***************************************************************************)
(* The items of a stream, with fuel for one after the other.               *)
(***************************************************************************)
ItemThen(x, rest) == IF x.status = "ok" THEN {<<a>> \o b : a \in x.read, b \in rest[x.pos]} ELSE {}

ItemsStep(read, ty, bytes, f, k) ==
  LET next == [pos \in Nat |-> DecodeElement(read, ty, bytes, pos)]
  IN  [pos \in Nat |->
         IF pos = Len(bytes) THEN {<<>>}
         ELSE IF k = 0 THEN {} ELSE UNION {ItemThen(x, f[k - 1]) : x \in {next[pos]}}]

ItemsOf(f, read, ty, bytes) ==
  /\ \A k \in 0..Len(bytes) : f[k] = ItemsStep(read, ty, bytes, f, k)
  /\ StreamItems(read, ty, bytes) = f[Len(bytes)][0]

LEMMA StreamItemsDefined ==
  ASSUME NEW read, NEW ty, NEW bytes \in Seq(Byte)
  PROVE  \E f : ItemsOf(f, read, ty, bytes)
<1> DEFINE L == Len(bytes)
           Step(f, k) == ItemsStep(read, ty, bytes, f, k)
           D(f, k) == [m \in 0..k |-> Step(f, m)]
           K == {k \in Nat : \E f : f = D(f, k)}
           F == CHOOSE f : f = D(f, L)
<1>0. L \in Nat
  OBVIOUS
<1>1. 0 \in K
  <2> DEFINE g == [m \in 0..0 |-> Step(<<>>, 0)]
  <2>1. Step(g, 0) = Step(<<>>, 0)
    BY DEF ItemsStep
  <2> HIDE DEF Step
  <2>2. g = D(g, 0)
    BY <2>1
  <2> QED
    BY <2>2
<1>2. ASSUME NEW k \in Nat, k \in K PROVE k + 1 \in K
  <2>1. PICK f : f = D(f, k)
    BY <1>2
  <2> DEFINE g == [m \in 0..(k + 1) |-> IF m <= k THEN f[m] ELSE Step(f, k + 1)]
  <2>2. ASSUME NEW m \in 0..(k + 1) PROVE Step(g, m) = Step(f, m)
    <3>1. CASE m = 0
      BY <3>1 DEF ItemsStep
    <3>2. CASE m # 0
      <4>1. m - 1 \in 0..k /\ m - 1 \in 0..(k + 1)
        BY <3>2
      <4>2. g[m - 1] = f[m - 1]
        <5> HIDE DEF Step
        <5> QED
          BY <4>1
      <4> HIDE DEF g
      <4> QED
        BY <4>2 DEF ItemsStep
    <3> QED
      BY <3>1, <3>2
  <2>3. ASSUME NEW m \in 0..(k + 1) PROVE g[m] = Step(g, m)
    <3>1. Step(g, m) = Step(f, m)
      BY <2>2
    <3>2. CASE m \in 0..k
      <4>1. f[m] = Step(f, m)
        <5> HIDE DEF Step
        <5> QED
          BY <2>1, <3>2
      <4> HIDE DEF Step
      <4> QED
        BY <3>1, <3>2, <4>1
    <3>3. CASE m = k + 1
      <4> HIDE DEF Step
      <4> QED
        BY <3>1, <3>3
    <3> QED
      BY <3>2, <3>3
  <2>4. g = D(g, k + 1)
    <3> HIDE DEF Step
    <3> QED
      BY <2>3
  <2> HIDE DEF D, g
  <2> QED
    BY <2>4
<1>3. L \in K
  <2> HIDE DEF K, L
  <2> QED
    BY <1>0, <1>1, <1>2, SetInduction
<1>4. F = D(F, L)
  <2> HIDE DEF D
  <2> QED
    BY <1>3
<1>5. StreamItems(read, ty, bytes) = F[L][0]
  BY DEF StreamItems, ItemsStep, ItemThen
<1> HIDE DEF F
<1>6. \A k \in 0..L : F[k] = Step(F, k)
  <2> HIDE DEF Step
  <2> QED
    BY <1>4
<1>7. ItemsOf(F, read, ty, bytes)
  BY <1>5, <1>6 DEF ItemsOf
<1> QED
  BY <1>7
-----------------------------------------------------------------------------
IsNative(ty) == ty.tag = "integer" /\ ty.bits \in NativeBits

(* An element is read as a, and those after it as rest. *)
Yields(r, f, m, a, rest) == r.status = "ok" /\ r.read = {a} /\ f[m - 1][r.pos] = {rest}

LEMMA ItemsStepRead ==
  ASSUME NEW read, NEW ty, ~IsNative(ty), NEW bytes, NEW f, NEW m \in Nat, m # 0,
         NEW k \in Nat, k # Len(bytes), NEW a, NEW rest, Yields(read[At(ty, bytes, k)], f, m, a, rest)
  PROVE  ItemsStep(read, ty, bytes, f, m)[k] = {<<a>> \o rest}
<1> DEFINE r == read[At(ty, bytes, k)]
<1>0. r.status = "ok" /\ r.read = {a} /\ f[m - 1][r.pos] = {rest}
  BY DEF Yields
<1>1. DecodeElement(read, ty, bytes, k) = r
  BY DEF DecodeElement, IsNative
<1>2. ItemThen(r, f[m - 1]) = {<<a>> \o rest}
  <2>1. {<<x>> \o b : x \in {a}, b \in {rest}} = {<<a>> \o rest}
    OBVIOUS
  <2> HIDE DEF r
  <2> QED
    BY <1>0, <2>1 DEF ItemThen
<1>3. ItemsStep(read, ty, bytes, f, m)[k] =
        UNION {ItemThen(x, f[m - 1]) : x \in {DecodeElement(read, ty, bytes, k)}}
  BY DEF ItemsStep
<1>4. ItemsStep(read, ty, bytes, f, m)[k] = UNION {ItemThen(x, f[m - 1]) : x \in {r}}
  BY <1>1, <1>3
<1> QED
  BY <1>2, <1>4

LEMMA StreamItemsRead ==
  ASSUME NEW c, NEW p, NEW encoded, NEW read, PartsRead(c, p, encoded, read),
         NEW n, Listed(PartsOf(c, p), n), NEW ty, ~IsNative(ty), NEW v, Elems(v, PartsOf(c, p), n, ty),
         NoneEmpty(EncodedOf(PartsOf(c, p), n, encoded), n)
  PROVE  StreamItems(read, ty, EncodeParts(c, encoded, p)) = {UpTo(v, n)}
<1> DEFINE parts == PartsOf(c, p)
           seqs == EncodedOf(parts, n, encoded)
           b == EncodeParts(c, encoded, p)
           L == Len(b)
<1>1. n \in Nat
  BY DEF Listed
<1>2. PICK h : LaidOut(b, h, seqs, n)
  BY PartsLaidOut DEF PartsRead, PartsBytes
<1>3. AreBytes(seqs, n) /\ b \in Seq(Byte) /\ L \in Nat
  BY PartsLaidOut DEF PartsRead, PartsBytes
<1>4. PICK f : ItemsOf(f, read, ty, b)
  BY <1>3, StreamItemsDefined
<1>5. L = h[n] /\ Ends(h, seqs, n)
  BY <1>2 DEF LaidOut
<1>6. n <= L
  <2>1. n \in 0..n
    BY <1>1
  <2>2. h[n] >= n
    <3> HIDE DEF seqs
    <3> QED
      BY <1>1, <1>3, <1>5, <2>1, EndsAtLeast DEF seqs
  <2> HIDE DEF L
  <2> QED
    BY <1>1, <1>3, <1>5, <2>2
<1>7. \A m \in 0..L : f[m] = ItemsStep(read, ty, b, f, m)
  BY <1>4 DEF ItemsOf
<1> DEFINE Good(j) == \A m \in 0..L : m >= j => f[m][h[n - j]] = {LastOf(v, n, j)}
           K == {j \in Nat : j <= n => Good(j)}
<1>8. 0 \in K
  <2>1. n - 0 = n
    BY <1>1
  <2>2. LastOf(v, n, 0) = <<>>
    BY DEF LastOf
  <2>3. ASSUME NEW m \in 0..L PROVE f[m][L] = {<<>>}
    <3>1. f[m] = ItemsStep(read, ty, b, f, m)
      BY <1>7
    <3> QED
      BY <1>3, <3>1 DEF ItemsStep
  <2>4. Good(0)
    <3> HIDE DEF L
    <3> QED
      BY <1>5, <2>1, <2>2, <2>3
  <2> HIDE DEF Good
  <2> QED
    BY <2>4
<1>9. ASSUME NEW j \in Nat, j \in K PROVE j + 1 \in K
  <2> SUFFICES ASSUME j + 1 <= n PROVE Good(j + 1)
    <3> HIDE DEF Good
    <3> QED
      OBVIOUS
  <2> PICK k \in Nat : k = n - (j + 1) /\ k \in 0..n
    BY <1>1
  <2>1. PICK i \in 1..n : i = k + 1 /\ i - 1 = k /\ i = n - j /\ i \in 0..n
    BY <1>1
  <2>2. Good(j)
    <3> HIDE DEF Good
    <3> QED
      BY <1>1, <1>9
  <2>3. h[k] \in Nat /\ h[i] \in Nat /\ h[i] = h[k] + Len(seqs[i]) /\ Len(seqs[i]) >= 1 /\ Len(seqs[i]) \in Nat
    <3>1. NoneEmpty(seqs, n)
      OBVIOUS
    <3> HIDE DEF seqs
    <3> QED
      BY <1>3, <1>5, <2>1, <3>1 DEF Ends, AreBytes, NoneEmpty
  <2>4. h[i] <= h[n]
    <3>1. n \in 0..n /\ i <= n
      BY <1>1
    <3> HIDE DEF seqs
    <3> QED
      BY <1>1, <1>3, <1>5, <2>1, <3>1, EndsGrow
  <2> PICK at \in Nat : at = h[k]
    BY <2>3
  <2>5. at # L
    <3> HIDE DEF L, seqs
    <3> PICK y \in Nat, z \in Nat : y = Len(seqs[i]) /\ z = h[i]
      BY <2>3
    <3> QED
      BY <1>3, <1>5, <2>3, <2>4
  <2> DEFINE r == read[At(ty, b, at)]
  <2>6. r.status = "ok" /\ r.read = {v[i]} /\ r.pos = h[i]
    <3>1. parts[i].ty = ty /\ parts[i].datum = v[i]
      BY DEF Elems
    <3>2. r = read[At(parts[i].ty, b, h[i - 1])]
      <4> HIDE DEF parts, b
      <4> QED
        BY <2>1, <3>1
    <3> HIDE DEF r
    <3>3. r.status = "ok" /\ r.read = {parts[i].datum} /\ r.pos = h[i]
      BY <1>2, <3>2, ElementRecovers
    <3> QED
      BY <3>1, <3>3
  <2> HIDE DEF r
  <2>7. ASSUME NEW m \in 0..L, m >= j + 1 PROVE f[m][at] = {LastOf(v, n, j + 1)}
    <3>1. m \in Nat \ {0} /\ m - 1 \in 0..L /\ m - 1 >= j
      BY <2>7
    <3>2. f[m - 1][h[i]] = {LastOf(v, n, j)}
      BY <2>1, <2>2, <3>1
    <3>3. f[m] = ItemsStep(read, ty, b, f, m)
      BY <1>7
    <3>4. ItemsStep(read, ty, b, f, m)[at] = {<<v[i]>> \o LastOf(v, n, j)}
      <4>1. r = read[At(ty, b, at)] /\ r.status = "ok" /\ r.read = {v[i]}
        BY <2>6 DEF r
      <4>2. f[m - 1][r.pos] = {LastOf(v, n, j)} /\ at # Len(b)
        BY <2>5, <2>6, <3>2
      <4> HIDE DEF b, L
      <4>3. Yields(r, f, m, v[i], LastOf(v, n, j))
        BY <4>1, <4>2 DEF Yields
      <4>4. Yields(read[At(ty, b, at)], f, m, v[i], LastOf(v, n, j))
        BY <4>1, <4>3
      <4> QED
        BY <3>1, <4>2, <4>4, ItemsStepRead
    <3>5. <<v[i]>> \o LastOf(v, n, j) = LastOf(v, n, j + 1)
      BY <1>1, <2>1, LastOfNext
    <3> QED
      BY <3>3, <3>4, <3>5
  <2> HIDE DEF L
  <2> QED
    BY <2>7
<1>10. n \in K
  <2> HIDE DEF K
  <2> QED
    BY <1>1, <1>8, <1>9, SetInduction
<1>11. f[L][h[0]] = {LastOf(v, n, n)}
  <2>1. n - n = 0 /\ L \in 0..L /\ L >= n
    BY <1>1, <1>3, <1>6
  <2> HIDE DEF L
  <2> QED
    BY <1>1, <1>10, <2>1
<1>12. h[0] = 0
  BY <1>5 DEF Ends
<1>13. LastOf(v, n, n) = UpTo(v, n)
  <2>1. \A i \in 1..n : (n - n) + i = i
    BY <1>1
  <2> QED
    BY <2>1 DEF LastOf, UpTo
<1> QED
  BY <1>4, <1>11, <1>12, <1>13 DEF ItemsOf

(* A stream is decoded into its bytes, and read as its elements. *)
LEMMA StreamDecodes ==
  ASSUME NEW c, NEW p, Ready(c, p), IsOne(c, p), DefinitionOf(c, p).kind = "stream",
         ~IsNative(DefinitionOf(c, p).elem_ty), NEW sizes, NEW encoded,
         PartsExact(c, p, sizes, encoded), PartsSized(c, p, sizes),
         NEW read, PartsRead(c, p, encoded, read),
         NoneEmpty(EncodedOf(PartsOf(c, p), Len(p.datum), encoded), Len(p.datum)),
         Fits(DefinitionOf(c, p).len_ty, LengthOf(c, encoded, p))
  PROVE  Decodes(c, p, EncodeType(c, sizes, encoded, p), read)
<1> DEFINE def == DefinitionOf(c, p)
           n == Len(p.datum)
           b == EncodeParts(c, encoded, p)
           t == EncodeType(c, sizes, encoded, p)
<1>1. n \in Nat /\ UpTo(p.datum, n) = p.datum /\ Listed(PartsOf(c, p), n)
      /\ Elems(p.datum, PartsOf(c, p), n, def.elem_ty)
  BY SequenceParts
<1>2. StreamItems(read, def.elem_ty, b) = {p.datum}
  BY <1>1, StreamItemsRead
<1>3. t \in Seq(Byte) /\ b \in Seq(Byte)
  BY SequenceWritten DEF PartsRead, PartsBytes
<1>4. LengthOf(c, encoded, p) = Len(b)
  BY DEF LengthOf
<1>5. ASSUME NEW bytes, NEW pos, Input(bytes, pos, t)
      PROVE  Recovers(DecodeType(c, read, p.ty, bytes, pos), bytes, pos, t, p.datum)
  <2> DEFINE length == NextLength(def.len_ty, bytes, pos)
             view == NextBytes(bytes, length.pos, length.value)
             second == IF view.status # "ok" THEN view
                       ELSE Ok(view.value, UNION {StreamItems(read, def.elem_ty, v) : v \in {view.value}},
                               view.pos)
  <2>1. DecodeType(c, read, p.ty, bytes, pos) = Then(length, second)
    <3>1. DecodeType(c, read, p.ty, bytes, pos) = DecodeStream(read, def, bytes, pos)
      BY DEF DecodeType, IsOne, DefinitionOf
    <3> QED
      BY <3>1 DEF DecodeStream, Then
  <2>2. ASSUME length.status = "ok", length.value = Len(b), Input(bytes, length.pos, b)
        PROVE  Recovers(second, bytes, length.pos, b, p.datum)
    <3> PICK at : at = length.pos
      OBVIOUS
    <3>1. Returns(view, bytes, at, b, b)
      <4> HIDE DEF b, length
      <4> QED
        BY <1>3, <2>2, BytesReturned DEF Input
    <3> HIDE DEF view, b
    <3>3. CASE Complete(bytes, at, b)
      <4>1. view.status = "ok" /\ view.value = b /\ view.pos = at + Len(b)
        BY <3>1, <3>3 DEF Returns, Recovers
      <4>2. UNION {StreamItems(read, def.elem_ty, v) : v \in {b}} = {p.datum}
        BY <1>2
      <4> QED
        BY <3>3, <4>1, <4>2 DEF Recovers, Ok
    <3>4. CASE ~Complete(bytes, at, b)
      <4>1. view.status = "UnexpectedEnd"
        BY <3>1, <3>4 DEF Returns, Recovers
      <4> QED
        BY <3>4, <4>1 DEF Recovers
    <3> QED
      BY <3>3, <3>4
  <2> HIDE DEF second
  <2>3. Recovers(Then(length, second), bytes, pos, t, p.datum)
    BY <1>4, <1>5, <2>2, SequenceRecovers
  <2> QED
    BY <2>1, <2>3
<1> HIDE DEF t
<1> QED
  BY <1>3, <1>5 DEF Decodes, t
-----------------------------------------------------------------------------
(***************************************************************************)
(* What takes no bytes in a message is of a type that takes none.          *)
(***************************************************************************)
Structs(c) == {h \in DOMAIN c.schema : c.schema[h].kind = "struct"}

Largest(c) == UNION {S \in SUBSET Structs(c) : AllTakeNone(c, S)}

LEMMA LargestTakesNone ==
  ASSUME NEW c
  PROVE  /\ Largest(c) \in SUBSET Structs(c)
         /\ AllTakeNone(c, Largest(c))
         /\ \A ty : Sizeless(c, ty) <=> TakesNone(c, ty, Largest(c))
<1>1. Largest(c) \in SUBSET Structs(c)
  BY DEF Largest
<1>2. ASSUME NEW S \in SUBSET Structs(c), AllTakeNone(c, S), NEW ty, TakesNone(c, ty, S)
      PROVE  TakesNone(c, ty, Largest(c))
  <2>1. S \subseteq Largest(c)
    BY <1>2 DEF Largest
  <2> QED
    BY <1>2, <2>1 DEF TakesNone
<1>3. AllTakeNone(c, Largest(c))
  <2>1. SUFFICES ASSUME NEW h \in Largest(c), NEW i \in DOMAIN TypesOf(c.schema[h])
                 PROVE  TakesNone(c, TypesOf(c.schema[h])[i], Largest(c))
    BY DEF AllTakeNone
  <2>2. PICK S \in SUBSET Structs(c) : AllTakeNone(c, S) /\ h \in S
    BY DEF Largest
  <2>3. TakesNone(c, TypesOf(c.schema[h])[i], S)
    BY <2>2 DEF AllTakeNone
  <2> QED
    BY <1>2, <2>2, <2>3
<1>4. ASSUME NEW ty PROVE Sizeless(c, ty) <=> TakesNone(c, ty, Largest(c))
  <2>1. Sizeless(c, ty) <=> \E S \in SUBSET Structs(c) : AllTakeNone(c, S) /\ TakesNone(c, ty, S)
    BY DEF Sizeless, Structs
  <2> QED
    BY <1>1, <1>2, <1>3, <2>1
<1> QED
  BY <1>1, <1>3, <1>4

LEMMA StructTakesNone ==
  ASSUME NEW c, NEW ty, ty.tag = "allocated", ty.handle \in Structs(c),
         \A i \in DOMAIN TypesOf(c.schema[ty.handle]) : Sizeless(c, TypesOf(c.schema[ty.handle])[i])
  PROVE  Sizeless(c, ty)
<1> DEFINE L == Largest(c)
           S == L \cup {ty.handle}
<1>1. L \in SUBSET Structs(c) /\ AllTakeNone(c, L)
      /\ \A t : Sizeless(c, t) <=> TakesNone(c, t, L)
  BY LargestTakesNone
<1> HIDE DEF L
<1>2. S \in SUBSET Structs(c)
  BY <1>1
<1>3. ASSUME NEW h \in S, NEW i \in DOMAIN TypesOf(c.schema[h])
      PROVE  TakesNone(c, TypesOf(c.schema[h])[i], S)
  <2>1. TakesNone(c, TypesOf(c.schema[h])[i], L)
    BY <1>1 DEF AllTakeNone
  <2> QED
    BY <2>1 DEF TakesNone
<1>4. AllTakeNone(c, S)
  <2> HIDE DEF S
  <2> QED
    BY <1>3 DEF AllTakeNone
<1>5. TakesNone(c, ty, S)
  BY DEF TakesNone
<1> QED
  BY <1>2, <1>4, <1>5 DEF Sizeless, Structs

LEMMA FixedTakesNone ==
  ASSUME NEW c, NEW ty, IsFixedSize(c, ty), FixedSize(c, ty) = 0
  PROVE  Sizeless(c, ty)
BY LargestTakesNone DEF TakesNone

LEMMA NotEmpty ==
  ASSUME NEW a, NEW b, IsList(a), IsList(b), Len(a) >= 1
  PROVE  Len(a \o b) # 0
<1>1. Len(a \o b) = Len(a) + Len(b)
  BY ListsConcatenate
<1>2. Len(a) \in Nat /\ Len(b) \in Nat
  BY DEF IsList
<1> QED
  BY <1>1, <1>2

LEMMA LengthNotEmpty ==
  ASSUME NEW len_ty \in LenType, NEW n \in Nat
  PROVE  IsList(LenBytes(len_ty, n)) /\ Len(LenBytes(len_ty, n)) >= 1
<1>1. /\ LenSize(len_ty, n) \in Nat
      /\ IsList(LenBytes(len_ty, n)) /\ Len(LenBytes(len_ty, n)) = LenSize(len_ty, n)
  BY LengthExact
<1>2. LenSize(len_ty, n) # 0
  <2>1. CASE IsVarint(len_ty)
    <3>1. LenSize(len_ty, n) = VarintLen(n)
      BY <2>1 DEF LenSize
    <3>2. BitLength[n] \in Nat
      BY BitLengthDefined
    <3> QED
      BY <3>1, <3>2 DEF VarintLen
  <2>2. CASE ~IsVarint(len_ty)
    <3>1. len_ty # 0
      BY DEF LenType, VarintSize
    <3> QED
      BY <2>2, <3>1 DEF LenSize
  <2> QED
    BY <2>1, <2>2
<1> QED
  BY <1>1, <1>2

(* Is everything that is empty below a part of a type that takes none? *)
EmptySizeless(c, p, encoded) ==
  \A q \in Range(PartsOf(c, p)) : Len(encoded[q]) = 0 => Sizeless(c, q.ty)

LEMMA StructSizeless ==
  ASSUME NEW c, NEW p, Ready(c, p), p.ty.tag = "allocated", DefinitionOf(c, p).kind = "struct",
         NEW encoded, NEW read, PartsRead(c, p, encoded, read), EmptySizeless(c, p, encoded),
         Len(EncodeParts(c, encoded, p)) = 0
  PROVE  Sizeless(c, p.ty)
<1> DEFINE def == DefinitionOf(c, p)
           n == Len(def.members)
           parts == PartsOf(c, p)
           seqs == EncodedOf(parts, n, encoded)
           b == EncodeParts(c, encoded, p)
<1>1. Listed(parts, n) /\ \A i \in 1..n : parts[i].ty = TypesOf(def)[i]
  BY StructMembersListed DEF IsStructLike
<1>2. DOMAIN TypesOf(def) = 1..n /\ n \in Nat
  BY DefinitionOfPart, MembersOf
<1>3. PICK h : LaidOut(b, h, seqs, n)
  BY <1>1, PartsLaidOut DEF PartsRead, PartsBytes
<1>4. AreBytes(seqs, n)
  BY <1>1, PartsLaidOut DEF PartsRead, PartsBytes
<1>5. h[n] = 0 /\ Ends(h, seqs, n)
  BY <1>3 DEF LaidOut
<1>6. ASSUME NEW i \in 1..n PROVE Sizeless(c, parts[i].ty)
  <2>1. PICK k \in Nat : k = i - 1 /\ k \in 0..n /\ i \in 0..n /\ n \in 0..n /\ i <= n
    BY <1>2
  <2>2. h[i] = h[k] + Len(seqs[i]) /\ h[k] \in Nat /\ h[i] \in Nat /\ Len(seqs[i]) \in Nat
    <3> HIDE DEF seqs, n
    <3> QED
      BY <1>4, <1>5, <2>1 DEF Ends, AreBytes
  <2>3. h[i] <= h[n]
    <3> HIDE DEF seqs, n
    <3> QED
      BY <1>2, <1>4, <1>5, <2>1, EndsGrow
  <2>4. Len(seqs[i]) = 0
    <3> HIDE DEF seqs
    <3> PICK u \in Nat, w \in Nat, x \in Nat : u = h[k] /\ w = Len(seqs[i]) /\ x = h[i]
      BY <2>2
    <3> QED
      BY <1>5, <2>2, <2>3
  <2>5. seqs[i] = encoded[parts[i]]
    BY DEF EncodedOf
  <2>6. parts[i] \in Range(parts)
    <3> HIDE DEF parts
    <3> QED
      BY <1>1 DEF Range, Listed
  <2> HIDE DEF seqs
  <2> QED
    BY <2>4, <2>5, <2>6 DEF EmptySizeless
<1>7. \A i \in DOMAIN TypesOf(def) : Sizeless(c, TypesOf(def)[i])
  BY <1>1, <1>2, <1>6
<1>8. p.ty.handle \in Structs(c)
  BY DEF Ready, TypeIn, Structs, DefinitionOf
<1> QED
  BY <1>7, <1>8, StructTakesNone DEF DefinitionOf

LEMMA PartSizeless ==
  ASSUME NEW c, NEW p, Ready(c, p), NEW sizes, NEW encoded,
         PartsExact(c, p, sizes, encoded), PartsSized(c, p, sizes),
         NEW read, PartsRead(c, p, encoded, read), EmptySizeless(c, p, encoded),
         Len(EncodeType(c, sizes, encoded, p)) = 0, PrepareType(c, sizes, p) \in Nat
  PROVE  Sizeless(c, p.ty)
<1> DEFINE def == DefinitionOf(c, p)
           b == EncodeParts(c, encoded, p)
<1>1. CASE IsFixedSize(c, p.ty)
  <2>1. Exact(c, p, PrepareType(c, sizes, p), EncodeType(c, sizes, encoded, p))
    BY PartExact
  <2> QED
    BY <1>1, <2>1, FixedTakesNone DEF Exact
<1>2. CASE p.ty.tag = "integer"
  <2>1. IsFixedSize(c, p.ty)
    BY <1>2 DEF IsFixedSize, WidthOfType, Fixed, Variable
  <2> QED
    BY <1>1, <2>1
<1>3. CASE p.ty.tag = "varint"
  <2>1. EncodeType(c, sizes, encoded, p) = Leb128[p.datum] /\ p.datum \in Nat
    BY <1>3 DEF EncodeType, Ready, WellTyped, Holds
  <2>2. Len(Leb128[p.datum]) = VarintLen(p.datum) /\ BitLength[p.datum] \in Nat
    BY <2>1, VarintLenExact, BitLengthDefined
  <2>3. VarintLen(p.datum) # 0
    BY <2>2 DEF VarintLen
  <2> QED
    BY <2>1, <2>2, <2>3
<1>4. CASE p.ty.tag = "allocated" /\ def.kind = "primitive"
  <2>1. WidthOfType(p.ty, c.bit_width) = Fixed(def.bits)
    BY <1>4, DefinitionOfPart DEF WidthByRule
  <2>2. IsFixedSize(c, p.ty)
    BY <2>1 DEF IsFixedSize, Fixed, Variable
  <2> QED
    BY <1>1, <2>2
<1>5. CASE p.ty.tag = "allocated" /\ def.kind \in {"vector", "stream"}
  <2>1. IsOne(c, p)
    BY <1>5 DEF IsOne, IsSequence
  <2>2. /\ EncodeType(c, sizes, encoded, p) = LenBytes(def.len_ty, LengthOf(c, encoded, p)) \o b
        /\ LengthOf(c, encoded, p) \in Nat /\ b \in Seq(Byte)
    BY <2>1, SequenceWritten DEF PartsRead, PartsBytes
  <2>3. def.len_ty \in LenType
    BY <2>1, SequenceParts
  <2>4. IsList(b)
    <3> HIDE DEF b
    <3> QED
      BY <2>2, SeqIsList
  <2> QED
    BY <2>2, <2>3, <2>4, LengthNotEmpty, NotEmpty
<1>6. CASE p.ty.tag = "allocated" /\ def.kind = "packed"
  <2>1. PICK k : WidthByRule(def, c.bit_width) = Fixed(k)
    BY <1>6 DEF WidthByRule
  <2>2. Fixed(k) # Variable
    BY DEF Fixed, Variable
  <2>3. IsFixedSize(c, p.ty)
    BY <1>6, <2>1, <2>2, DefinitionOfPart DEF IsFixedSize
  <2> QED
    BY <1>1, <2>3
<1>7. CASE p.ty.tag = "allocated" /\ def.kind = "struct"
  <2>1. EncodeType(c, sizes, encoded, p) = b
    BY <1>7 DEF EncodeType, EncodeNamed, EncodeStruct, IsSequence
  <2> QED
    BY <1>7, <2>1, StructSizeless
<1>8. CASE p.ty.tag = "allocated" /\ def.kind \in {"enum", "dict"}
  <2>1. def \in Definition
    BY <1>8, DefinitionOfPart
  <2>2. PICK k \in Nat : k = def.index_ty /\ k >= 1
    BY <1>8, <2>1, KindOfDefinition
  <2>3. b \in Seq(Byte)
    <3>1. CASE def.kind = "enum"
      <4>1. Listed(PartsOf(c, p), 1)
        BY <1>8, <3>1, VariantListed
      <4> QED
        BY <4>1, PartsLaidOut DEF PartsRead, PartsBytes
    <3>2. CASE def.kind = "dict"
      <4>1. Listed(PartsOf(c, p), Len(def.members))
        BY <1>8, <3>2, DictMembersListed
      <4> QED
        BY <4>1, PartsLaidOut DEF PartsRead, PartsBytes
    <3> QED
      BY <1>8, <3>1, <3>2
  <2>4. IsList(b)
    <3> HIDE DEF b
    <3> QED
      BY <2>3, SeqIsList
  <2>5. CASE def.kind = "enum"
    <3> PICK x : x = LittleEndian(def.members[p.datum.variant].index, k)
      OBVIOUS
    <3>1. EncodeType(c, sizes, encoded, p) = x \o b
      BY <1>8, <2>2, <2>5 DEF EncodeType, EncodeNamed, EncodeEnum, IsSequence
    <3>2. IsList(x) /\ Len(x) = k
      BY LittleEndianExact
    <3> QED
      BY <2>2, <2>4, <3>1, <3>2, NotEmpty
  <2>6. CASE def.kind = "dict"
    <3> PICK x : x = Bitmap(def, p.datum)
      OBVIOUS
    <3>1. EncodeType(c, sizes, encoded, p) = x \o b
      BY <1>8, <2>6 DEF EncodeType, EncodeNamed, EncodeDict, IsSequence
    <3>2. IsList(x) /\ Len(x) = k
      BY <2>2, BitmapExact
    <3> QED
      BY <2>2, <2>4, <3>1, <3>2, NotEmpty
  <2> QED
    BY <1>8, <2>5, <2>6
<1>9. p.ty.tag \in {"integer", "varint", "allocated"}
  BY TagOfType DEF Ready, TypeIn
<1>10. ASSUME p.ty.tag = "allocated" PROVE def.kind # "extern" /\ def \in Definition
  <2>1. def \in Definition
    BY <1>10, DefinitionOfPart
  <2>2. WellTyped(c, p)
    BY DEF Ready
  <2> QED
    BY <1>10, <2>1, <2>2 DEF WellTyped, IsSequence, IsBitfield
<1>11. p.ty.tag = "allocated" => def.kind \in {"primitive", "vector", "stream", "packed", "struct",
                                              "enum", "dict"}
  BY <1>10, KindOfDefinition
<1> QED
  BY <1>2, <1>3, <1>4, <1>5, <1>6, <1>7, <1>8, <1>9, <1>11
-----------------------------------------------------------------------------
(***************************************************************************)
(* Any part, of a schema whose decoders are the inverse of its encoders.   *)
(***************************************************************************)
Invertible(c) ==
  /\ c = Context(c.schema)
  /\ IndicesDistinct(c.schema) /\ IndicesInRange(c.schema)
  /\ Generates(c.schema) /\ Regular(c)

(* What is known of a sequence, if the schema is one of those. *)
LEMMA SequenceInvertible ==
  ASSUME NEW c, Invertible(c), NEW p, Ready(c, p), IsOne(c, p)
  PROVE  LET def == DefinitionOf(c, p)
         IN  \/ /\ def.kind = "vector" /\ IsFixedSize(c, def.elem_ty)
                /\ FixedSize(c, def.elem_ty) # 0 /\ LaidOutAsWritten(c.schema, def.elem_ty)
             \/ /\ def.kind = "vector" /\ ~IsFixedSize(c, def.elem_ty)
                /\ IsVarint(def.len_ty) /\ ~Sizeless(c, def.elem_ty)
             \/ def.kind = "stream" /\ ~IsNative(def.elem_ty) /\ ~Sizeless(c, def.elem_ty)
<1> DEFINE def == DefinitionOf(c, p)
           h == p.ty.handle
<1>1. h \in DOMAIN c.schema /\ def = c.schema[h]
  BY DEF Ready, TypeIn, IsOne, DefinitionOf
<1>2. def.kind \in {"vector", "stream"} /\ IsSequence(def)
  BY DEF IsOne, IsSequence
<1>3. ~MisreadLengths(c) /\ ~MemoryRead(c) /\ ~NativeStreams(c) /\ ~SizelessViews(c)
  BY DEF Invertible, Regular
<1>4. Generates(c.schema) /\ c = Context(c.schema)
  BY DEF Invertible
<1> HIDE DEF h, def
<1>5. CASE def.kind = "vector" /\ IsFixedSize(c, def.elem_ty)
  <2>1. LaidOutAsWritten(c.schema, def.elem_ty)
    BY <1>1, <1>3, <1>5 DEF MemoryRead
  <2>2. ~Sizeless(c, def.elem_ty)
    BY <1>1, <1>2, <1>3, <1>5 DEF SizelessViews
  <2>3. FixedSize(c, def.elem_ty) # 0
    BY <1>5, <2>2, FixedTakesNone
  <2> QED
    BY <1>5, <2>1, <2>3 DEF def
<1>6. CASE def.kind = "vector" /\ ~IsFixedSize(c, def.elem_ty)
  <2>1. IsVarint(def.len_ty)
    BY <1>1, <1>3, <1>6 DEF MisreadLengths
  <2>2. Sizeless(Context(c.schema), def.elem_ty) => IsFixedSize(Context(c.schema), def.elem_ty)
    BY <1>1, <1>4, <1>6 DEF Generates
  <2>3. ~Sizeless(c, def.elem_ty)
    BY <1>4, <1>6, <2>2
  <2> QED
    BY <1>6, <2>1, <2>3 DEF def
<1>7. CASE def.kind = "stream"
  <2>1. ~IsNative(def.elem_ty)
    BY <1>1, <1>3, <1>7 DEF NativeStreams, IsNative
  <2>2. ~Sizeless(c, def.elem_ty)
    BY <1>1, <1>2, <1>3, <1>7 DEF SizelessViews
  <2> QED
    BY <1>7, <2>1, <2>2 DEF def
<1> QED
  BY <1>2, <1>5, <1>6, <1>7

LEMMA ElementsNotEmpty ==
  ASSUME NEW c, NEW p, Ready(c, p), IsOne(c, p), NEW encoded,
         NEW read, PartsRead(c, p, encoded, read),
         EmptySizeless(c, p, encoded), ~Sizeless(c, DefinitionOf(c, p).elem_ty)
  PROVE  NoneEmpty(EncodedOf(PartsOf(c, p), Len(p.datum), encoded), Len(p.datum))
<1> DEFINE parts == PartsOf(c, p)
           n == Len(p.datum)
           seqs == EncodedOf(parts, n, encoded)
<1>1. Listed(parts, n) /\ Elems(p.datum, parts, n, DefinitionOf(c, p).elem_ty)
  BY SequenceParts
<1>2. AreBytes(seqs, n)
  BY <1>1, PartsLaidOut DEF PartsRead, PartsBytes
<1>3. ASSUME NEW i \in 1..n PROVE Len(seqs[i]) >= 1
  <2>1. seqs[i] = encoded[parts[i]]
    BY DEF EncodedOf
  <2>2. parts[i] \in Range(parts)
    <3> HIDE DEF parts
    <3> QED
      BY <1>1 DEF Range, Listed
  <2>3. parts[i].ty = DefinitionOf(c, p).elem_ty
    BY <1>1 DEF Elems
  <2> HIDE DEF seqs
  <2>4. Len(seqs[i]) # 0
    BY <2>1, <2>2, <2>3 DEF EmptySizeless
  <2>5. seqs[i] \in Seq(Byte)
    BY <1>2 DEF AreBytes
  <2>6. Len(seqs[i]) \in Nat
    BY <2>5
  <2> QED
    BY <2>4, <2>6
<1> QED
  BY <1>3 DEF NoneEmpty

LEMMA PartDecodes ==
  ASSUME NEW c, Invertible(c), NEW p, Ready(c, p), NEW sizes, NEW encoded,
         PartsExact(c, p, sizes, encoded), PartsSized(c, p, sizes),
         NEW read, PartsRead(c, p, encoded, read), EmptySizeless(c, p, encoded),
         IsOne(c, p) => Fits(DefinitionOf(c, p).len_ty, LengthOf(c, encoded, p))
  PROVE  Decodes(c, p, EncodeType(c, sizes, encoded, p), read)
<1> DEFINE def == DefinitionOf(c, p)
<1>1. CASE p.ty.tag = "integer"
  BY <1>1, IntegerDecodes
<1>2. CASE p.ty.tag = "varint"
  BY <1>2, VarintDecodes
<1>3. CASE p.ty.tag = "allocated" /\ def.kind = "primitive"
  BY <1>3, PrimitiveDecodes
<1>4. CASE p.ty.tag = "allocated" /\ def.kind \in {"vector", "stream"}
  <2>1. IsOne(c, p)
    BY <1>4 DEF IsOne, IsSequence
  <2>2. CASE /\ def.kind = "vector" /\ IsFixedSize(c, def.elem_ty)
             /\ FixedSize(c, def.elem_ty) # 0 /\ LaidOutAsWritten(c.schema, def.elem_ty)
    BY <2>1, <2>2, SliceDecodes
  <2>3. CASE /\ def.kind = "vector" /\ ~IsFixedSize(c, def.elem_ty)
             /\ IsVarint(def.len_ty) /\ ~Sizeless(c, def.elem_ty)
    BY <2>1, <2>3, ElementsNotEmpty, EagerDecodes
  <2>4. CASE def.kind = "stream" /\ ~IsNative(def.elem_ty) /\ ~Sizeless(c, def.elem_ty)
    BY <2>1, <2>4, ElementsNotEmpty, StreamDecodes
  <2> QED
    BY <2>1, <2>2, <2>3, <2>4, SequenceInvertible
<1>5. CASE p.ty.tag = "allocated" /\ def.kind = "packed"
  BY <1>5, PackedDecodes
<1>6. CASE p.ty.tag = "allocated" /\ def.kind = "struct"
  BY <1>6, StructDecodes
<1>7. CASE p.ty.tag = "allocated" /\ def.kind = "enum"
  BY <1>7, EnumDecodes DEF Invertible
<1>8. CASE p.ty.tag = "allocated" /\ def.kind = "dict"
  BY <1>8, DictDecodes DEF Invertible
<1>9. p.ty.tag \in {"integer", "varint", "allocated"}
  BY TagOfType DEF Ready, TypeIn
<1>10. ASSUME p.ty.tag = "allocated" PROVE def.kind # "extern" /\ def \in Definition
  <2>1. def \in Definition
    BY <1>10, DefinitionOfPart
  <2>2. WellTyped(c, p)
    BY DEF Ready
  <2> QED
    BY <1>10, <2>1, <2>2 DEF WellTyped, IsSequence, IsBitfield
<1>11. p.ty.tag = "allocated" => def.kind \in {"primitive", "vector", "stream", "packed", "struct",
                                              "enum", "dict"}
  BY <1>10, KindOfDefinition
<1> QED
  BY <1>1, <1>2, <1>3, <1>4, <1>5, <1>6, <1>7, <1>8, <1>9, <1>11
-----------------------------------------------------------------------------
(***************************************************************************)
(* The decoder, of calls within one another: from the parts that have none *)
(* to the whole.                                                           *)
(***************************************************************************)
DecoderStep(c, f, n) ==
  [at \in Places |-> DecodeType(c, IF n = 0 THEN NoRoom ELSE f[n - 1], at.ty, at.bytes, at.pos)]

LEMMA DecoderDefined ==
  ASSUME NEW c, NEW n \in 0..MaxDepth
  PROVE  Decoder(c)[n] = DecoderStep(c, Decoder(c), n)
<1> DEFINE Step(f, m) == DecoderStep(c, f, m)
           D(f, k) == [m \in 0..k |-> Step(f, m)]
           K == {k \in Nat : \E f : f = D(f, k)}
           F == CHOOSE f : f = D(f, MaxDepth)
<1>1. 0 \in K
  <2> DEFINE g == [m \in 0..0 |-> Step(<<>>, 0)]
  <2>1. Step(g, 0) = Step(<<>>, 0)
    BY DEF DecoderStep
  <2> HIDE DEF Step
  <2>2. g = D(g, 0)
    BY <2>1
  <2> QED
    BY <2>2
<1>2. ASSUME NEW k \in Nat, k \in K PROVE k + 1 \in K
  <2>1. PICK f : f = D(f, k)
    BY <1>2
  <2> DEFINE g == [m \in 0..(k + 1) |-> IF m <= k THEN f[m] ELSE Step(f, k + 1)]
  <2>2. ASSUME NEW m \in 0..(k + 1) PROVE Step(g, m) = Step(f, m)
    <3>1. CASE m = 0
      BY <3>1 DEF DecoderStep
    <3>2. CASE m # 0
      <4>1. m - 1 \in 0..k /\ m - 1 \in 0..(k + 1)
        BY <3>2
      <4>2. g[m - 1] = f[m - 1]
        <5> HIDE DEF Step
        <5> QED
          BY <4>1
      <4> HIDE DEF g
      <4> QED
        BY <4>2 DEF DecoderStep
    <3> QED
      BY <3>1, <3>2
  <2>3. ASSUME NEW m \in 0..(k + 1) PROVE g[m] = Step(g, m)
    <3>1. Step(g, m) = Step(f, m)
      BY <2>2
    <3>2. CASE m \in 0..k
      <4>1. f[m] = Step(f, m)
        <5> HIDE DEF Step
        <5> QED
          BY <2>1, <3>2
      <4> HIDE DEF Step
      <4> QED
        BY <3>1, <3>2, <4>1
    <3>3. CASE m = k + 1
      <4> HIDE DEF Step
      <4> QED
        BY <3>1, <3>3
    <3> QED
      BY <3>2, <3>3
  <2>4. g = D(g, k + 1)
    <3> HIDE DEF Step
    <3> QED
      BY <2>3
  <2> HIDE DEF D, g
  <2> QED
    BY <2>4
<1>3. MaxDepth \in K
  <2> HIDE DEF K
  <2> QED
    BY <1>1, <1>2, MaxDepthAssumption, SetInduction
<1>4. F = D(F, MaxDepth)
  <2> HIDE DEF D
  <2> QED
    BY <1>3
<1>5. Decoder(c) = F
  BY DEF Decoder, DecoderStep
<1> HIDE DEF F
<1>6. F[n] = Step(F, n)
  <2> HIDE DEF Step
  <2> QED
    BY <1>4
<1> QED
  BY <1>5, <1>6

Within(c, n) == IF n = 0 THEN NoRoom ELSE Decoder(c)[n - 1]

LEMMA DecoderAt ==
  ASSUME NEW c, NEW n \in 0..MaxDepth, NEW ty \in Type, NEW bytes \in Seq(Byte), NEW pos \in Nat
  PROVE  Decoder(c)[n][At(ty, bytes, pos)] = DecodeType(c, Within(c, n), ty, bytes, pos)
<1> DEFINE at == At(ty, bytes, pos)
           f == Decoder(c)
<1>1. at \in Places /\ at.ty = ty /\ at.bytes = bytes /\ at.pos = pos
  BY DEF At, Places
<1>2. f[n] = DecoderStep(c, f, n)
  BY DecoderDefined
<1>3. Within(c, n) = IF n = 0 THEN NoRoom ELSE f[n - 1]
  BY DEF Within
<1> HIDE DEF at, f
<1>4. f[n][at] = DecodeType(c, IF n = 0 THEN NoRoom ELSE f[n - 1], at.ty, at.bytes, at.pos)
  BY <1>1, <1>2 DEF DecoderStep
<1>5. f[n][at] = DecodeType(c, Within(c, n), ty, bytes, pos)
  BY <1>1, <1>3, <1>4
<1> QED
  BY <1>5 DEF f, at

(* Every length in a value fits its type. *)
Bounded(len_ty, n) == n < 2 ^ LenBits(len_ty) /\ n < Huge

FitAll(c, part) ==
  \A n \in 0..MaxDepth : \A p \in Levels(c, part)[MaxDepth - n] :
    IsOne(c, p) => Bounded(DefinitionOf(c, p).len_ty, LengthOf(c, Below(Bytes(c, part), n), p))

(* What is written of a part is read again, and empty only if it must be. *)
Inverts(c, p, b, read) ==
  /\ b \in Seq(Byte) /\ ReadsPart(read, p, b)
  /\ Len(b) = 0 => Sizeless(c, p.ty)

(* With room for the calls that it takes, or for more. *)
InverseAt(c, part, n) ==
  \A p \in Levels(c, part)[MaxDepth - n] : \A k \in n..MaxDepth :
    Inverts(c, p, Bytes(c, part)[n][p], Decoder(c)[k])

(* What PartDecodes needs, if the level below is inverted. *)
Inverting(c, p, sizes, encoded, b, read) ==
  /\ Ready(c, p) /\ PartsExact(c, p, sizes, encoded) /\ PrepareType(c, sizes, p) \in Nat
  /\ b = EncodeType(c, sizes, encoded, p)
  /\ PartsSized(c, p, sizes) /\ PartsRead(c, p, encoded, read) /\ EmptySizeless(c, p, encoded)
  /\ IsOne(c, p) => Fits(DefinitionOf(c, p).len_ty, LengthOf(c, encoded, p))

LEMMA LevelInverting ==
  ASSUME NEW c, Invertible(c), NEW part, Encodable(c, part), TypeIn(c, part.ty),
         Prepared(c, part) \in Nat, FitAll(c, part), NEW n \in 0..MaxDepth,
         n # 0 => InverseAt(c, part, n - 1), NEW p \in Levels(c, part)[MaxDepth - n],
         NEW k \in n..MaxDepth
  PROVE  Inverting(c, p, Below(Sizes(c, part), n), Below(Bytes(c, part), n), Bytes(c, part)[n][p],
                   Within(c, k))
<1> DEFINE S == Sizes(c, part)
           B == Bytes(c, part)
           sizes == Below(S, n)
           encoded == Below(B, n)
           read == Within(c, k)
           b == EncodeType(c, sizes, encoded, p)
<1>0. k \in 0..MaxDepth /\ (n # 0 => k # 0 /\ k - 1 \in (n - 1)..MaxDepth)
  BY MaxDepthAssumption
<1>1. Ready(c, p) /\ PartsExact(c, p, sizes, encoded) /\ S[n][p] = PrepareType(c, sizes, p)
  BY LevelPrepared
<1>2. B[n][p] = b
  <2> DEFINE level == Levels(c, part)[MaxDepth - n]
  <2>1. B[n] = [q \in level |-> EncodeType(c, sizes, Below(B, n), q)]
    BY BytesDefined
  <2>2. p \in level
    OBVIOUS
  <2> HIDE DEF B, level, sizes
  <2>3. B[n][p] = EncodeType(c, sizes, Below(B, n), p)
    BY <2>1, <2>2
  <2> QED
    BY <2>3
<1>3. \A m \in 0..MaxDepth : \A q \in Levels(c, part)[MaxDepth - m] : S[m][q] \in Nat
  <2> TAKE m \in 0..MaxDepth
  <2>1. PICK j \in 0..MaxDepth : j = MaxDepth - m /\ MaxDepth - j = m
    BY MaxDepthAssumption
  <2>2. \A q \in Levels(c, part)[j] : S[MaxDepth - j][q] \in Nat
    BY LevelsAccepted
  <2> HIDE DEF S
  <2> QED
    BY <2>1, <2>2
<1>4. PrepareType(c, sizes, p) \in Nat
  BY <1>1, <1>3
<1>5. ASSUME NEW q \in Range(PartsOf(c, p))
      PROVE  sizes[q] \in Nat /\ Inverts(c, q, encoded[q], read)
  <2>1. n - 1 \in 0..MaxDepth /\ n # 0 /\ q \in Levels(c, part)[MaxDepth - (n - 1)]
    BY LevelBelow
  <2>2. sizes = S[n - 1] /\ encoded = B[n - 1] /\ read = Decoder(c)[k - 1]
    <3> HIDE DEF S, B
    <3> QED
      BY <1>0, <2>1 DEF Below, Within
  <2>3. InverseAt(c, part, n - 1) /\ k - 1 \in (n - 1)..MaxDepth
    BY <1>0, <2>1
  <2>4. Inverts(c, q, B[n - 1][q], Decoder(c)[k - 1]) /\ S[n - 1][q] \in Nat
    BY <1>3, <2>1, <2>3 DEF InverseAt
  <2> HIDE DEF S, B, sizes, encoded, read
  <2> QED
    BY <2>2, <2>4
<1>6. PartsSized(c, p, sizes) /\ PartsRead(c, p, encoded, read) /\ EmptySizeless(c, p, encoded)
  <2> HIDE DEF sizes, encoded, read
  <2> QED
    BY <1>5 DEF PartsSized, PartsRead, EmptySizeless, Inverts
<1>7. IsOne(c, p) => Fits(DefinitionOf(c, p).len_ty, LengthOf(c, encoded, p))
  <2> SUFFICES ASSUME IsOne(c, p) PROVE Fits(DefinitionOf(c, p).len_ty, LengthOf(c, encoded, p))
    OBVIOUS
  <2>1. Bounded(DefinitionOf(c, p).len_ty, LengthOf(c, encoded, p))
    BY DEF FitAll
  <2> HIDE DEF sizes, encoded, read
  <2>2. LengthOf(c, encoded, p) \in Nat
    BY <1>1, <1>6, SequenceWritten DEF PartsRead, PartsBytes
  <2> QED
    BY <2>1, <2>2 DEF Bounded, Fits
<1> HIDE DEF S, B, sizes, encoded, read, b
<1>8. Inverting(c, p, sizes, encoded, B[n][p], read)
  BY <1>1, <1>2, <1>4, <1>6, <1>7 DEF Inverting, b
<1> QED
  BY <1>8 DEF S, B, sizes, encoded, read

LEMMA PartInverse ==
  ASSUME NEW c, Invertible(c), NEW part, Encodable(c, part), TypeIn(c, part.ty),
         Prepared(c, part) \in Nat, FitAll(c, part), NEW n \in 0..MaxDepth,
         n # 0 => InverseAt(c, part, n - 1), NEW p \in Levels(c, part)[MaxDepth - n],
         NEW k \in n..MaxDepth
  PROVE  Inverts(c, p, Bytes(c, part)[n][p], Decoder(c)[k])
<1> DEFINE sizes == Below(Sizes(c, part), n)
           encoded == Below(Bytes(c, part), n)
           read == Within(c, k)
           b == Bytes(c, part)[n][p]
<1>1. Inverting(c, p, sizes, encoded, b, read)
  BY LevelInverting
<1>2. k \in 0..MaxDepth
  BY MaxDepthAssumption
<1> HIDE DEF sizes, encoded, read, b
<1>3. Decodes(c, p, b, read)
  BY <1>1, PartDecodes DEF Inverting
<1>4. Len(b) = 0 => Sizeless(c, p.ty)
  BY <1>1, PartSizeless DEF Inverting
<1>5. b \in Seq(Byte)
  BY <1>3 DEF Decodes
<1>6. ASSUME NEW bytes, NEW pos, Input(bytes, pos, b)
      PROVE  Recovers(Decoder(c)[k][At(p.ty, bytes, pos)], bytes, pos, b, p.datum)
  <2>1. bytes \in Seq(Byte) /\ pos \in Nat
    BY <1>6 DEF Input
  <2>2. p.ty \in Type
    BY <1>1 DEF Inverting, Ready, TypeIn
  <2>3. Decoder(c)[k][At(p.ty, bytes, pos)] = DecodeType(c, read, p.ty, bytes, pos)
    BY <1>2, <2>1, <2>2, DecoderAt DEF read
  <2>4. Recovers(DecodeType(c, read, p.ty, bytes, pos), bytes, pos, b, p.datum)
    BY <1>3, <1>6 DEF Decodes
  <2> QED
    BY <2>3, <2>4
<1>7. ReadsPart(Decoder(c)[k], p, b)
  BY <1>6 DEF ReadsPart
<1>8. Inverts(c, p, b, Decoder(c)[k])
  BY <1>4, <1>5, <1>7 DEF Inverts
<1> QED
  BY <1>8 DEF b

LEMMA LevelsInverse ==
  ASSUME NEW c, Invertible(c), NEW part, Encodable(c, part), TypeIn(c, part.ty),
         Prepared(c, part) \in Nat, FitAll(c, part)
  PROVE  \A n \in 0..MaxDepth : InverseAt(c, part, n)
<1> DEFINE K == {n \in Nat : n <= MaxDepth => InverseAt(c, part, n)}
<1>1. ASSUME NEW n \in 0..MaxDepth, n # 0 => InverseAt(c, part, n - 1)
      PROVE  InverseAt(c, part, n)
  BY <1>1, PartInverse DEF InverseAt
<1>2. 0 \in K
  BY <1>1, MaxDepthAssumption
<1>3. ASSUME NEW n \in Nat, n \in K PROVE n + 1 \in K
  <2>1. SUFFICES ASSUME n + 1 <= MaxDepth PROVE InverseAt(c, part, n + 1)
    OBVIOUS
  <2>2. n + 1 \in 0..MaxDepth /\ (n + 1) - 1 = n /\ InverseAt(c, part, n)
    BY <1>3, <2>1, MaxDepthAssumption
  <2> QED
    BY <1>1, <2>2
<1>4. Nat \subseteq K
  <2> HIDE DEF K
  <2> QED
    BY <1>2, <1>3, SetInduction
<1> QED
  BY <1>4, MaxDepthAssumption

(* The decoder of a type is the inverse of its encoder. *)
LEMMA WholeInverse ==
  ASSUME NEW c, Invertible(c), NEW h, NEW v, Encodable(c, Whole(h, v)),
         Prepared(c, Whole(h, v)) \in Nat, FitAll(c, Whole(h, v))
  PROVE  /\ Encoded(c, Whole(h, v)) \in Seq(Byte)
         /\ \A bytes : Input(bytes, 0, Encoded(c, Whole(h, v))) =>
              Recovers(Decoded(c, h, bytes), bytes, 0, Encoded(c, Whole(h, v)), v)
<1> DEFINE part == Whole(h, v)
<1>1. InverseAt(c, part, MaxDepth)
  BY WholeTyped, LevelsInverse, MaxDepthAssumption
<1>2. part \in Levels(c, part)[MaxDepth - MaxDepth]
  BY LevelsDefined, MaxDepthAssumption
<1>3. Inverts(c, part, Encoded(c, part), Decoder(c)[MaxDepth])
  BY <1>1, <1>2 DEF InverseAt, Encoded
<1>4. part.ty = Allocated(h) /\ part.datum = v
  BY DEF Whole, Part
<1> HIDE DEF part
<1> QED
  BY <1>3, <1>4 DEF Inverts, ReadsPart, Decoded, part
-----------------------------------------------------------------------------
LEMMA LengthsFitAll ==
  ASSUME LengthsFit
  PROVE  FitAll(ctx, Whole(root, value))
<1> DEFINE whole == Whole(root, value)
           L == Levels(ctx, whole)
           B == Bytes(ctx, whole)
           Found(p, n) == [len_ty |-> DefinitionOf(ctx, p).len_ty,
                           length |-> LengthOf(ctx, Below(B, n), p), place |-> p.place]
<1>1. LengthsOfValue =
        UNION {{Found(p, n) : p \in {q \in L[MaxDepth - n] : IsOne(ctx, q)}} : n \in 0..MaxDepth}
  BY DEF LengthsOfValue, LengthOf, IsOne
<1>2. ASSUME NEW p, NEW n
      PROVE  /\ Found(p, n).len_ty = DefinitionOf(ctx, p).len_ty
             /\ Found(p, n).length = LengthOf(ctx, Below(B, n), p)
  OBVIOUS
<1> HIDE DEF L, B, Found
<1>3. ASSUME NEW n \in 0..MaxDepth, NEW p \in L[MaxDepth - n], IsOne(ctx, p)
      PROVE  Bounded(DefinitionOf(ctx, p).len_ty, LengthOf(ctx, Below(B, n), p))
  <2>1. Found(p, n) \in LengthsOfValue
    BY <1>1, <1>3
  <2>2. Bounded(Found(p, n).len_ty, Found(p, n).length)
    BY <2>1 DEF LengthsFit, Bounded
  <2> QED
    BY <1>2, <2>2
<1>4. FitAll(ctx, whole)
  <2> HIDE DEF whole
  <2> QED
    BY <1>3 DEF FitAll, L, B
<1> QED
  BY <1>4 DEF whole

(***************************************************************************)
(* A message is encoded, as Sending says, and arrives with something       *)
(* behind it, or not all of it.  Of one that is to be decoded to what was  *)
(* encoded, what decode returns is about those bytes.                      *)
(***************************************************************************)
Sent == \/ \E trailer \in Trailers : received = buf \o trailer
        \/ \E n \in 0..(Len(buf) - 1) : received = SubSeq(buf, 1, n)

Exchanged ==
  /\ phase # "sending" => sending = "sent" /\ Sent
  /\ decoded.status # "unread" => phase # "sending" /\ decoded = Decoded(ctx, root, received)

Receiving ==
  \/ origin = "input" /\ sending = "none"
  \/ /\ origin = "message" /\ Sending
     /\ ctx = Context(ctx.schema) /\ Valid(ctx.schema) /\ Generates(ctx.schema)
     /\ Regular(ctx) /\ LengthsFit => Exchanged

LEMMA SentIsInput ==
  ASSUME buf \in Seq(Byte), Sent
  PROVE  Input(received, 0, buf)
<1> SUFFICES received \in Seq(Byte) /\ Agrees(received, 0, buf)
  BY DEF Input
<1>1. ASSUME NEW trailer \in Trailers, received = buf \o trailer
      PROVE  received \in Seq(Byte) /\ Agrees(received, 0, buf)
  <2>1. trailer \in Seq(Byte)
    BY TrailersAssumption
  <2>2. received \in Seq(Byte)
    BY <1>1, <2>1
  <2>3. \A i \in 1..Len(buf) : received[i] = buf[i]
    BY <1>1, <2>1
  <2> QED
    BY <2>2, <2>3 DEF Agrees
<1>2. ASSUME NEW n \in 0..(Len(buf) - 1), received = SubSeq(buf, 1, n)
      PROVE  received \in Seq(Byte) /\ Agrees(received, 0, buf)
  <2>1. n \in Nat /\ n <= Len(buf)
    OBVIOUS
  <2>2. received \in Seq(Byte) /\ Len(received) = n /\ \A i \in 1..n : received[i] = buf[i]
    <3>1. received = SubSeq(buf, 0 + 1, 0 + n)
      BY <1>2, <2>1
    <3>2. \A i \in 1..n : buf[0 + i] = buf[i]
      OBVIOUS
    <3> QED
      BY <2>1, <3>1, <3>2, SliceOf
  <2>3. ASSUME NEW i \in 1..Len(buf), 0 + i <= Len(received) PROVE received[0 + i] = buf[i]
    <3>1. i \in 1..n /\ 0 + i = i
      BY <2>2, <2>3
    <3> QED
      BY <2>2, <3>1
  <2> QED
    BY <2>2, <2>3 DEF Agrees
<1> QED
  BY <1>1, <1>2 DEF Sent

LEMMA SentRecovers ==
  ASSUME Receiving, origin = "message", Regular(ctx), LengthsFit, sending = "sent", Sent
  PROVE  Recovers(Decoded(ctx, root, received), received, 0, buf, value)
<1>1. Invertible(ctx)
  BY DEF Receiving, Invertible, Valid
<1>2. /\ Encodable(ctx, Whole(root, value)) /\ Prepared(ctx, Whole(root, value)) \in Nat
      /\ buf = Encoded(ctx, Whole(root, value))
  BY DEF Receiving, Sending
<1>3. FitAll(ctx, Whole(root, value))
  BY LengthsFitAll
<1>4. buf \in Seq(Byte)
  BY <1>1, <1>2, <1>3, WholeInverse
<1>5. Input(received, 0, buf)
  BY <1>4, SentIsInput
<1> QED
  BY <1>1, <1>2, <1>3, <1>5, WholeInverse

LEMMA ReceivingStart == Init => Receiving
<1> SUFFICES ASSUME Init PROVE Receiving
  OBVIOUS
<1>1. CASE InitInput
  BY <1>1 DEF InitInput, Receiving
<1>2. CASE InitSent
  <2>1. Sending
    BY <1>2, SendingStart DEF InitSent
  <2>2. PICK m \in Messages : ctx = Context(m.schema)
    BY <1>2 DEF InitSent, InitMessage
  <2>3. ctx.schema = m.schema
    BY <2>2 DEF Context
  <2>4. Valid(m.schema) /\ Generates(m.schema)
    BY SchemasAssumption
  <2>5. decoded.status = "unread"
    BY DEF Init, InitReader, Err
  <2>6. phase = "sending" /\ origin = "message"
    BY <1>2 DEF InitSent
  <2> QED
    BY <2>1, <2>2, <2>3, <2>4, <2>5, <2>6 DEF Receiving, Exchanged
<1> QED
  BY <1>1, <1>2 DEF Init

(* Nothing that the schema and the value are known for changes. *)
LEMMA SentUnchanged ==
  ASSUME UNCHANGED <<ctx, root, value>>
  PROVE  (Regular(ctx)' <=> Regular(ctx)) /\ (LengthsFit' <=> LengthsFit)
<1>1. Regular(ctx)' <=> Regular(ctx)
  OBVIOUS
<1>2. LengthsOfValue' = LengthsOfValue
  BY DEF LengthsOfValue
<1> QED
  BY <1>1, <1>2 DEF LengthsFit

LEMMA ReceivingStep == Receiving /\ [Next]_vars => Receiving'
<1> SUFFICES ASSUME Receiving, [Next]_vars PROVE Receiving'
  OBVIOUS
<1>1. UNCHANGED <<ctx, root, value, origin>> /\ [Send]_sender
  BY DEF Next, vars, sender, reader, SendMessage, Send, Prepare, Encode, Arrive, CutOff, Decode, Open,
         ReadNext, TakeItem, TakeErr, EndOfStream
<1>2. CASE origin = "input"
  <2>1. sending = "none"
    BY <1>2 DEF Receiving
  <2>2. sending' = "none"
    BY <1>1, <2>1 DEF Send, Prepare, Encode, sender
  <2> QED
    BY <1>1, <1>2, <2>2 DEF Receiving
<1>3. SUFFICES ASSUME origin = "message" PROVE Receiving'
  BY <1>2 DEF Receiving
<1>4. Sending' /\ (ctx = Context(ctx.schema) /\ Valid(ctx.schema) /\ Generates(ctx.schema))'
  BY <1>1, <1>3, SendingStep DEF Receiving
<1>5. SUFFICES ASSUME Regular(ctx), LengthsFit PROVE Exchanged'
  BY <1>1, <1>3, <1>4, SentUnchanged DEF Receiving
<1>6. phase # "sending" => sending = "sent" /\ Sent
  BY <1>3, <1>5 DEF Receiving, Exchanged
<1>7. decoded.status # "unread" => phase # "sending" /\ decoded = Decoded(ctx, root, received)
  BY <1>3, <1>5 DEF Receiving, Exchanged
<1>8. CASE SendMessage
  <2>1. sending # "sent" /\ UNCHANGED <<phase, decoded, received>>
    BY <1>8 DEF SendMessage, Send, Prepare, Encode
  <2>2. phase' = "sending" /\ decoded.status = "unread"
    BY <1>6, <1>7, <2>1
  <2> QED
    BY <2>1, <2>2 DEF Exchanged
<1>9. CASE Arrive \/ CutOff
  <2>1. phase = "sending" /\ sending = "sent" /\ UNCHANGED <<sending, decoded, buf>>
    BY <1>9 DEF Arrive, CutOff, sender
  <2>2. Sent'
    BY <1>9, <2>1 DEF Sent, Arrive, CutOff
  <2>3. decoded'.status = "unread"
    BY <1>7, <2>1
  <2> QED
    BY <2>1, <2>2, <2>3 DEF Exchanged
<1>10. CASE Decode
  <2>1. /\ phase = "decoding" /\ UNCHANGED <<sending, buf, received>>
        /\ decoded' = Decoded(ctx, root, received) /\ phase' \in Outcomes(decoded'.status)
    BY <1>10 DEF Decode, sender
  <2>2. sending = "sent" /\ Sent
    BY <1>6, <2>1
  <2>3. Recovers(decoded', received, 0, buf, value)
    BY <1>3, <1>5, <2>1, <2>2, SentRecovers
  <2>4. decoded'.status \in {"ok", "UnexpectedEnd"}
    BY <2>3 DEF Recovers
  <2>5. phase' # "sending"
    BY <2>1, <2>4 DEF Outcomes
  <2>6. Sent'
    BY <2>1, <2>2 DEF Sent
  <2> QED
    BY <1>1, <2>1, <2>2, <2>5, <2>6 DEF Exchanged
<1>11. CASE Open \/ ReadNext
  <2>1. phase # "sending" /\ phase' # "sending" /\ UNCHANGED <<sending, buf, decoded, received>>
    <3>1. CASE TakeErr
      <4>1. PICK status : /\ UNCHANGED <<sending, buf, decoded, received>> /\ phase = "reading"
                          /\ phase' \in {IF outcome \notin Errors THEN outcome
                                           ELSE IF patient THEN "reading" ELSE "stopped" :
                                             outcome \in Outcomes(status)}
        BY <3>1 DEF TakeErr, AtItem, sender
      <4>2. "sending" \notin Outcomes(status)
        BY DEF Outcomes, Errors
      <4> QED
        BY <4>1, <4>2
    <3> QED
      BY <1>11, <3>1 DEF Open, ReadNext, TakeItem, EndOfStream, AtItem, sender
  <2>2. sending' = "sent" /\ Sent'
    BY <1>6, <2>1 DEF Sent
  <2> QED
    BY <1>1, <1>7, <2>1, <2>2 DEF Exchanged
<1>12. CASE UNCHANGED vars
  <2>1. UNCHANGED <<sending, buf, decoded, received, phase>>
    BY <1>12 DEF vars, sender
  <2>2. Sent' <=> Sent
    BY <2>1 DEF Sent
  <2> QED
    BY <1>1, <1>6, <1>7, <2>1, <2>2 DEF Exchanged
<1> QED
  BY <1>8, <1>9, <1>10, <1>11, <1>12 DEF Next

(* What the two properties come from. *)
LEMMA ReceivedRead ==
  ASSUME Receiving, origin = "message", Regular(ctx), LengthsFit, decoded.status # "unread"
  PROVE  /\ Len(received) >= Len(buf) => /\ decoded.status = "ok" /\ decoded.pos = Len(buf)
                                         /\ decoded.read = {value}
         /\ Len(received) < Len(buf) => decoded.status = "UnexpectedEnd"
<1>1. sending = "sent" /\ Sent /\ decoded = Decoded(ctx, root, received)
  BY DEF Receiving, Exchanged
<1>2. Recovers(decoded, received, 0, buf, value)
  BY <1>1, SentRecovers
<1>3. buf \in Seq(Byte)
  <2>1. Invertible(ctx)
    BY DEF Receiving, Invertible, Valid
  <2>2. /\ Encodable(ctx, Whole(root, value)) /\ Prepared(ctx, Whole(root, value)) \in Nat
        /\ buf = Encoded(ctx, Whole(root, value))
    BY <1>1 DEF Receiving, Sending
  <2> QED
    BY <2>1, <2>2, LengthsFitAll, WholeInverse
<1>4. received \in Seq(Byte)
  BY <1>1, <1>3, SentIsInput DEF Input
<1>5. Len(buf) \in Nat /\ Len(received) \in Nat
  BY <1>3, <1>4
<1>6. Complete(received, 0, buf) <=> Len(received) >= Len(buf)
  BY <1>5 DEF Complete
<1> QED
  BY <1>2, <1>5, <1>6 DEF Recovers

(***************************************************************************)
(* What prepare() announces is what encode() writes: for every validated   *)
(* schema and every value of one of its types, the buffer that encode()    *)
(* allocates is filled to the last byte and not beyond.                    *)
(***************************************************************************)
THEOREM SizeAlwaysExact == Spec => []SizeExact
<1>1. Receiving => SizeExact
  BY WholeExact DEF Receiving, Sending, SizeExact
<1> QED
  BY <1>1, ReceivingStart, ReceivingStep, PTL DEF Spec

(***************************************************************************)
(* A value is refused only for a length in a member over half the range of *)
(* its type, encoding is undefined only for one within an element, and     *)
(* what is encoded has neither.                                            *)
(***************************************************************************)
THEOREM LengthVerdictHolds == Spec => []LengthVerdict
<1>1. Receiving => LengthVerdict
  <2>1. CASE origin = "input"
    BY <2>1 DEF Receiving, LengthVerdict
  <2>2. CASE origin = "message"
    BY <2>2, SendingVerdict DEF Receiving
  <2> QED
    BY <2>1, <2>2 DEF Receiving
<1> QED
  BY <1>1, ReceivingStart, ReceivingStep, PTL DEF Spec

(***************************************************************************)
(* Generated decoders are the inverse of generated encoders: of any value  *)
(* of a type of any schema that is Regular, if its lengths fit, decode     *)
(* returns what was encoded, up to the last element of every view in it,   *)
(* and stops at the last byte, whatever is behind it.                      *)
(***************************************************************************)
THEOREM RoundTripHolds == Spec => []RoundTrip
<1>1. Receiving => RoundTrip
  BY ReceivedRead DEF RoundTrip, Arrived
<1> QED
  BY <1>1, ReceivingStart, ReceivingStep, PTL DEF Spec

(***************************************************************************)
(* Such a message that is cut off, at any byte, is an UnexpectedEnd.       *)
(***************************************************************************)
THEOREM CutDetectedHolds == Spec => []CutDetected
<1>1. Receiving => CutDetected
  BY ReceivedRead DEF CutDetected
<1> QED
  BY <1>1, ReceivingStart, ReceivingStep, PTL DEF Spec
-----------------------------------------------------------------------------
(***************************************************************************)
(* Whatever is encoded is bytes, whether or not it is read again.          *)
(***************************************************************************)
LEMMA PackedBytes ==
  ASSUME NEW c, NEW p, Ready(c, p), p.ty.tag = "allocated", DefinitionOf(c, p).kind = "packed",
         NEW sizes, NEW encoded, PartsExact(c, p, sizes, encoded), PartsBytes(c, p, encoded)
  PROVE  EncodePacked(c, encoded, p) \in Seq(Byte)
<1>1. CASE IsBitfield(c, DefinitionOf(c, p))
  <2>1. WellTyped(c, p)
    BY DEF Ready
  <2>2. Holds(PreparePacked(c, p), p.datum)
    BY <1>1, <2>1 DEF WellTyped, IsSequence
  <2>3. p.datum \in Nat /\ PreparePacked(c, p) \in Nat
    BY <2>2, PackedSize DEF Holds
  <2>4. LittleEndian(p.datum, PreparePacked(c, p)) \in Seq(Byte)
    BY <2>3, LittleEndianBytes
  <2> QED
    BY <1>1, <2>4 DEF EncodePacked
<1>2. CASE ~IsBitfield(c, DefinitionOf(c, p))
  <2>1. EncodeParts(c, encoded, p) \in Seq(Byte)
    BY <1>2, StructMembersListed, PartsLaidOut DEF IsStructLike
  <2> QED
    BY <1>2, <2>1 DEF EncodePacked
<1> QED
  BY <1>1, <1>2

LEMMA EnumBytes ==
  ASSUME NEW c, NEW p, Ready(c, p), p.ty.tag = "allocated", DefinitionOf(c, p).kind = "enum",
         NEW encoded, PartsBytes(c, p, encoded)
  PROVE  EncodeEnum(c, encoded, p) \in Seq(Byte)
<1> DEFINE def == DefinitionOf(c, p)
           index == def.members[p.datum.variant].index
           tag == LittleEndian(index, def.index_ty)
           b == EncodeParts(c, encoded, p)
<1>1. def.index_ty \in Nat
  BY DefinitionOfPart, IndexTypeOf
<1>2. index \in Nat
  <2>1. WellTyped(c, p)
    BY DEF Ready
  <2>2. Holds(def.index_ty, index)
    BY <2>1 DEF WellTyped, IsSequence
  <2> QED
    BY <2>2 DEF Holds
<1>3. tag \in Seq(Byte)
  BY <1>1, <1>2, LittleEndianBytes
<1>4. b \in Seq(Byte)
  BY VariantListed, PartsLaidOut
<1>5. EncodeEnum(c, encoded, p) = tag \o b
  BY DEF EncodeEnum
<1> HIDE DEF tag, b
<1> QED
  BY <1>3, <1>4, <1>5

LEMMA DictBytes ==
  ASSUME NEW c, NEW p, Ready(c, p), p.ty.tag = "allocated", DefinitionOf(c, p).kind = "dict",
         NEW encoded, PartsBytes(c, p, encoded)
  PROVE  EncodeDict(c, encoded, p) \in Seq(Byte)
<1> DEFINE def == DefinitionOf(c, p)
           bitmap == Bitmap(def, p.datum)
           b == EncodeParts(c, encoded, p)
<1>1. def.index_ty \in Nat
  BY DefinitionOfPart, IndexTypeOf
<1>2. bitmap \in Seq(Byte)
  BY <1>1, BitmapRead DEF Bitmap
<1>3. b \in Seq(Byte)
  BY DictMembersListed, PartsLaidOut
<1>4. EncodeDict(c, encoded, p) = bitmap \o b
  BY DEF EncodeDict
<1> HIDE DEF bitmap, b
<1> QED
  BY <1>2, <1>3, <1>4

LEMMA PartBytes ==
  ASSUME NEW c, NEW p, Ready(c, p), NEW sizes, NEW encoded, PartsExact(c, p, sizes, encoded),
         PartsSized(c, p, sizes), PartsBytes(c, p, encoded)
  PROVE  EncodeType(c, sizes, encoded, p) \in Seq(Byte)
<1> DEFINE def == DefinitionOf(c, p)
           b == EncodeType(c, sizes, encoded, p)
<1>0. WellTyped(c, p) /\ p.ty \in Type /\ p.ty.tag \in {"integer", "varint", "allocated"}
  BY TagOfType DEF Ready, TypeIn
<1>1. CASE p.ty.tag = "integer"
  <2>1. p.ty.bits \in Nat /\ p.datum \in Nat
    BY <1>0, <1>1, TagOfType, U16IsNat DEF WellTyped, Holds
  <2>2. p.ty.bits \div 8 \in Nat
    BY <2>1
  <2> QED
    BY <1>1, <2>1, <2>2, LittleEndianBytes DEF EncodeType, EncodeInteger
<1>2. CASE p.ty.tag = "varint"
  <2>1. p.datum \in Nat
    BY <1>0, <1>2 DEF WellTyped, Holds
  <2> QED
    BY <1>2, <2>1, Leb128Bytes DEF EncodeType
<1>3. CASE p.ty.tag = "allocated"
  <2>0. def \in Definition
    BY <1>3, DefinitionOfPart
  <2>1. CASE def.kind = "primitive"
    <3>1. def.bits \in Nat
      BY <2>0, <2>1, KindOfDefinition, U16IsNat
    <3>2. p.datum \in Nat
      <4>1. Holds(def.bits \div 8, p.datum)
        BY <1>0, <1>3, <2>1 DEF WellTyped, IsSequence
      <4> QED
        BY <4>1 DEF Holds
    <3>3. def.bits \div 8 \in Nat
      BY <3>1
    <3>4. b = LittleEndian(p.datum, def.bits \div 8)
      BY <1>3, <2>1 DEF EncodeType, IsSequence
    <3> QED
      BY <3>2, <3>3, <3>4, LittleEndianBytes
  <2>2. CASE IsSequence(def)
    BY <1>3, <2>2, SequenceWritten DEF IsOne
  <2>3. CASE def.kind = "packed"
    <3>1. b = EncodePacked(c, encoded, p)
      BY <1>3, <2>3 DEF EncodeType, EncodeNamed, IsSequence
    <3> QED
      BY <1>3, <2>3, <3>1, PackedBytes
  <2>4. CASE def.kind = "struct"
    <3>1. b = EncodeParts(c, encoded, p)
      BY <1>3, <2>4 DEF EncodeType, EncodeNamed, EncodeStruct, IsSequence
    <3> QED
      BY <1>3, <2>4, <3>1, StructMembersListed, PartsLaidOut DEF IsStructLike
  <2>5. CASE def.kind = "enum"
    <3>1. b = EncodeEnum(c, encoded, p)
      BY <1>3, <2>5 DEF EncodeType, EncodeNamed, IsSequence
    <3> QED
      BY <1>3, <2>5, <3>1, EnumBytes
  <2>6. CASE def.kind = "dict"
    <3>1. b = EncodeDict(c, encoded, p)
      BY <1>3, <2>6 DEF EncodeType, EncodeNamed, IsSequence
    <3> QED
      BY <1>3, <2>6, <3>1, DictBytes
  <2>7. def.kind # "extern"
    BY <1>0, <1>3 DEF WellTyped, IsSequence, IsBitfield
  <2> HIDE DEF b
  <2> QED
    BY <2>0, <2>1, <2>2, <2>3, <2>4, <2>5, <2>6, <2>7, KindOfDefinition DEF IsSequence
<1> HIDE DEF b
<1> QED
  BY <1>0, <1>1, <1>2, <1>3 DEF b

BytesAt(c, part, n) == \A p \in Levels(c, part)[MaxDepth - n] : Bytes(c, part)[n][p] \in Seq(Byte)

LEMMA BytesBelow ==
  ASSUME NEW c, NEW part, Encodable(c, part), TypeIn(c, part.ty), Prepared(c, part) \in Nat,
         NEW n \in 0..MaxDepth, n # 0 => BytesAt(c, part, n - 1), NEW p \in Levels(c, part)[MaxDepth - n]
  PROVE  Bytes(c, part)[n][p] \in Seq(Byte)
<1> DEFINE S == Sizes(c, part)
           B == Bytes(c, part)
           sizes == Below(S, n)
           encoded == Below(B, n)
           b == EncodeType(c, sizes, encoded, p)
<1>1. Ready(c, p) /\ PartsExact(c, p, sizes, encoded)
  BY LevelPrepared
<1>2. B[n][p] = b
  <2> DEFINE level == Levels(c, part)[MaxDepth - n]
  <2>1. B[n] = [q \in level |-> EncodeType(c, sizes, Below(B, n), q)]
    BY BytesDefined
  <2>2. p \in level
    OBVIOUS
  <2> HIDE DEF B, level, sizes
  <2>3. B[n][p] = EncodeType(c, sizes, Below(B, n), p)
    BY <2>1, <2>2
  <2> QED
    BY <2>3
<1>3. ASSUME NEW q \in Range(PartsOf(c, p)) PROVE sizes[q] \in Nat /\ encoded[q] \in Seq(Byte)
  <2>1. n - 1 \in 0..MaxDepth /\ n # 0 /\ q \in Levels(c, part)[MaxDepth - (n - 1)]
    BY LevelBelow
  <2>2. sizes = S[n - 1] /\ encoded = B[n - 1]
    <3> HIDE DEF S, B
    <3> QED
      BY <2>1 DEF Below
  <2>3. PICK j \in 0..MaxDepth : j = MaxDepth - (n - 1) /\ MaxDepth - j = n - 1
    BY <2>1, MaxDepthAssumption
  <2>4. \A r \in Levels(c, part)[j] : S[MaxDepth - j][r] \in Nat
    BY LevelsAccepted
  <2>5. B[n - 1][q] \in Seq(Byte)
    BY <2>1 DEF BytesAt
  <2> HIDE DEF S, B, sizes, encoded
  <2> QED
    BY <2>1, <2>2, <2>3, <2>4, <2>5
<1>4. PartsSized(c, p, sizes) /\ PartsBytes(c, p, encoded)
  <2> HIDE DEF sizes, encoded
  <2> QED
    BY <1>3 DEF PartsSized, PartsBytes
<1> HIDE DEF sizes, encoded, B
<1>5. b \in Seq(Byte)
  BY <1>1, <1>4, PartBytes
<1> QED
  BY <1>2, <1>5 DEF B

LEMMA EncodedBytes ==
  ASSUME NEW c, NEW h, NEW v, Encodable(c, Whole(h, v)), Prepared(c, Whole(h, v)) \in Nat
  PROVE  Encoded(c, Whole(h, v)) \in Seq(Byte)
<1> DEFINE part == Whole(h, v)
           K == {n \in Nat : n <= MaxDepth => BytesAt(c, part, n)}
<1>0. TypeIn(c, part.ty)
  BY WholeTyped
<1>1. ASSUME NEW n \in 0..MaxDepth, n # 0 => BytesAt(c, part, n - 1)
      PROVE  BytesAt(c, part, n)
  BY <1>0, <1>1, BytesBelow DEF BytesAt
<1>2. 0 \in K
  BY <1>1, MaxDepthAssumption
<1>3. ASSUME NEW n \in Nat, n \in K PROVE n + 1 \in K
  <2>1. SUFFICES ASSUME n + 1 <= MaxDepth PROVE BytesAt(c, part, n + 1)
    OBVIOUS
  <2>2. n + 1 \in 0..MaxDepth /\ (n + 1) - 1 = n /\ BytesAt(c, part, n)
    BY <1>3, <2>1, MaxDepthAssumption
  <2> QED
    BY <1>1, <2>2
<1>4. Nat \subseteq K
  <2> HIDE DEF K
  <2> QED
    BY <1>2, <1>3, SetInduction
<1>5. BytesAt(c, part, MaxDepth)
  BY <1>4, MaxDepthAssumption
<1>6. part \in Levels(c, part)[MaxDepth - MaxDepth]
  BY LevelsDefined, MaxDepthAssumption
<1> QED
  BY <1>5, <1>6 DEF BytesAt, Encoded
-----------------------------------------------------------------------------
(***************************************************************************)
(* Whatever the bytes are, decoders go forward, and not past the end.      *)
(***************************************************************************)
Statuses == {"ok", "huge", "overflow", "undefined", "panic", "wrapped"} \cup Errors

(* What a result that is neither a value nor an error goes back to. *)
Explained(c, status, at) ==
  /\ status = "undefined" => MisreadLengths(c) \/ MemoryRead(c) \/ NativeStreams(c)
  /\ status = "huge" => EagerVectors(c)
  /\ status = "wrapped" => WideViews(c)
  /\ status = "panic" => OverflowChecks /\ at >= 11

Stays(c, r, bytes, pos) ==
  /\ r.status \in Statuses /\ Explained(c, r.status, r.pos)
  /\ r.pos \in Nat /\ pos <= r.pos /\ r.pos <= Len(bytes)

Counts(r) == r.status = "ok" => r.value \in Nat

LEMMA PlainStays ==
  ASSUME NEW c, NEW bytes, NEW pos, NEW x, NEW at \in Nat, pos <= at, at <= Len(bytes)
  PROVE  Stays(c, Plain(x, at), bytes, pos)
BY DEF Stays, Plain, Ok, Statuses, Explained

LEMMA ErrStays ==
  ASSUME NEW c, NEW bytes, NEW pos, NEW status \in Statuses, NEW at \in Nat, pos <= at, at <= Len(bytes),
         Explained(c, status, at)
  PROVE  Stays(c, Err(status, at), bytes, pos)
BY DEF Stays, Err

LEMMA StaysAfter ==
  ASSUME NEW c, NEW bytes \in Seq(Byte), NEW pos \in Nat, NEW r, Stays(c, r, bytes, pos),
         NEW s, Stays(c, s, bytes, r.pos)
  PROVE  Stays(c, s, bytes, pos)
<1>1. Len(bytes) \in Nat
  OBVIOUS
<1> QED
  BY <1>1 DEF Stays

Exactly(r, pos, n) == r.status = "ok" => r.value \in Seq(Byte) /\ Len(r.value) = n /\ r.pos = pos + n

LEMMA BytesStay ==
  ASSUME NEW c, NEW bytes \in Seq(Byte), NEW pos \in 0..Len(bytes), NEW n \in Nat
  PROVE  Stays(c, NextBytes(bytes, pos, n), bytes, pos) /\ Exactly(NextBytes(bytes, pos, n), pos, n)
<1> DEFINE s == SubSeq(bytes, pos + 1, pos + n)
<1>1. pos \in Nat /\ Len(bytes) \in Nat
  OBVIOUS
<1>2. CASE Len(bytes) - pos < n
  <2>1. NextBytes(bytes, pos, n) = Err("UnexpectedEnd", pos)
    BY <1>2 DEF NextBytes
  <2>2. "UnexpectedEnd" \in Statuses /\ "UnexpectedEnd" # "ok" /\ Explained(c, "UnexpectedEnd", pos)
    BY DEF Statuses, Errors, Explained
  <2>3. Exactly(Err("UnexpectedEnd", pos), pos, n)
    BY <2>2 DEF Exactly, Err
  <2> QED
    BY <1>1, <2>1, <2>2, <2>3, ErrStays
<1>3. CASE ~(Len(bytes) - pos < n)
  <2>1. NextBytes(bytes, pos, n) = Plain(s, pos + n)
    BY <1>3 DEF NextBytes
  <2>2. pos + n \in Nat /\ pos <= pos + n /\ pos + n <= Len(bytes)
    BY <1>1, <1>3
  <2>3. s \in Seq(Byte) /\ Len(s) = n
    BY <1>1, <2>2, SliceOf
  <2> HIDE DEF s
  <2>4. Exactly(Plain(s, pos + n), pos, n)
    BY <2>3 DEF Exactly, Plain, Ok
  <2> QED
    BY <2>1, <2>2, <2>4, PlainStays
<1> QED
  BY <1>2, <1>3

LEMMA DigitsCount ==
  ASSUME NEW digits, NEW n \in Nat, AreDigits(digits, n), NEW base \in Nat
  PROVE  FromDigits(digits, base) \in Nat
<1>1. PICK number : Reading(number, digits, n, base)
  BY DigitsDefined
<1> QED
  BY <1>1 DEF Reading

LEMMA NumberStays ==
  ASSUME NEW c, NEW bytes \in Seq(Byte), NEW pos \in 0..Len(bytes), NEW n \in Nat
  PROVE  Stays(c, NextNumber(bytes, pos, n), bytes, pos) /\ Counts(NextNumber(bytes, pos, n))
<1> DEFINE image == NextBytes(bytes, pos, n)
<1>1. Stays(c, image, bytes, pos) /\ Exactly(image, pos, n)
  BY BytesStay
<1>2. NextNumber(bytes, pos, n) =
        IF image.status = "ok" THEN Plain(FromLittleEndian(image.value), image.pos) ELSE image
  BY DEF NextNumber
<1> HIDE DEF image
<1>3. CASE image.status = "ok"
  <2>1. image.value \in Seq(Byte) /\ Len(image.value) = n
    BY <1>1, <1>3 DEF Exactly
  <2>2. AreDigits(image.value, n)
    <3> PICK v : v = image.value
      OBVIOUS
    <3>1. v \in Seq(Byte) /\ Len(v) = n
      BY <2>1
    <3>2. \A i \in 1..n : v[i] \in Byte
      BY <3>1
    <3>3. \A x \in Byte : x \in Nat
      BY DEF Byte
    <3>4. AreDigits(v, n)
      BY <3>1, <3>2, <3>3 DEF AreDigits
    <3> QED
      BY <3>4
  <2>3. FromLittleEndian(image.value) \in Nat
    BY <2>2, DigitsCount DEF FromLittleEndian
  <2>4. Stays(c, Plain(FromLittleEndian(image.value), image.pos), bytes, pos)
    BY <1>1, PlainStays DEF Stays
  <2>5. Counts(Plain(FromLittleEndian(image.value), image.pos))
    BY <2>3 DEF Counts, Plain, Ok
  <2> QED
    BY <1>2, <1>3, <2>4, <2>5
<1>4. CASE image.status # "ok"
  BY <1>1, <1>2, <1>4 DEF Counts
<1> QED
  BY <1>3, <1>4

LEMMA OrCounts ==
  ASSUME NEW v, NEW w
  PROVE  Or(v, w) \in Nat
<1>1. \A x \in Byte : x \in Nat
  BY DEF Byte
<1> PICK s : s = BitsOf(v) \cup BitsOf(w)
  OBVIOUS
<1>2. 0 \in Nat /\ 0 \in 0..7
  OBVIOUS
<1>3. EightBits(s, 0) \in Byte /\ (EightBits(s, 0) \div 2 ^ 0) % 2 = Bit(s, 0 + 0)
  BY <1>2, EightBitsRead
<1>4. Or(v, w) = EightBits(s, 0)
  BY DEF Or
<1> QED
  BY <1>1, <1>3, <1>4

(* The bits that a varint has room for are digits, too. *)
LEMMA CastDigits ==
  ASSUME NEW n \in Nat, NEW groups, groups = [i \in 1..n |-> groups[i]],
         \A i \in 1..n : groups[i] \in Nat, NEW bits \in Nat
  PROVE  AreDigits(Cast(Shifted(groups), bits), n)
<1>1. Len(groups) = n /\ DOMAIN groups = 1..n /\ \A i \in 1..n : groups[i] \in Nat
  <2>1. DOMAIN groups = 1..n
    OBVIOUS
  <2> QED
    BY <2>1, Tabulated
<1>2. PICK s : s = Shifted(groups) /\ DOMAIN s = 1..n /\ \A i \in 1..n : s[i] \in Nat
  <2>1. CASE n < 11
    <3>1. Shifted(groups) = groups
      BY <1>1, <2>1 DEF Shifted
    <3> QED
      BY <1>1, <3>1
  <2>2. CASE ~(n < 11)
    <3>3. 1 \in 1..n /\ 2 \in 1..n
      BY <2>2
    <3> DEFINE a == Or(groups[1], 64 * (groups[11] % 2))
               b == Or(groups[2], groups[11] \div 2)
    <3>4. a \in Nat /\ b \in Nat
      BY OrCounts
    <3>5. Shifted(groups) = [groups EXCEPT ![1] = a, ![2] = b]
      BY <1>1, <2>2, <3>3 DEF Shifted
    <3> HIDE DEF a, b
    <3> DEFINE s == [groups EXCEPT ![1] = a, ![2] = b]
    <3>6. DOMAIN s = 1..n
      BY <1>1
    <3>7. \A i \in 1..n : s[i] \in Nat
      BY <1>1, <3>4
    <3> QED
      BY <3>5, <3>6, <3>7
  <2> QED
    BY <2>1, <2>2
<1> DEFINE Of(i) == IF 7 * i <= bits THEN s[i]
                    ELSE IF 7 * (i - 1) < bits THEN s[i] % 2 ^ (bits - 7 * (i - 1)) ELSE 0
<1>3. Cast(s, bits) = [i \in 1..n |-> Of(i)]
  BY <1>2 DEF Cast
<1>4. ASSUME NEW i \in 1..n PROVE Of(i) \in Nat
  <2>1. PICK x \in Nat : x = s[i]
    BY <1>2
  <2>2. CASE 7 * (i - 1) < bits
    <3>1. PICK m \in Nat : m = bits - 7 * (i - 1)
      BY <2>2
    <3>2. PICK y \in Nat \ {0} : y = 2 ^ m
      BY PowerOfTwo
    <3>3. x % y \in Nat
      OBVIOUS
    <3> QED
      BY <2>1, <2>2, <3>1, <3>2, <3>3
  <2>3. CASE ~(7 * (i - 1) < bits)
    BY <2>1, <2>3
  <2> QED
    BY <2>2, <2>3
<1> HIDE DEF Of
<1> DEFINE d == [i \in 1..n |-> Of(i)]
<1>5. d = [i \in 1..n |-> d[i]] /\ \A i \in 1..n : d[i] \in Nat
  BY <1>4
<1> HIDE DEF d
<1>6. AreDigits(d, n)
  BY <1>5, Tabulated DEF AreDigits
<1> QED
  BY <1>2, <1>3, <1>6 DEF d

LEMMA VarintStays ==
  ASSUME NEW c, NEW bytes \in Seq(Byte), NEW pos \in 0..Len(bytes), NEW width \in Nat, NEW bits \in Nat
  PROVE  /\ Stays(c, NextVarint(bytes, pos, width, bits), bytes, pos)
         /\ Counts(NextVarint(bytes, pos, width, bits))
<1> DEFINE r == NextVarint(bytes, pos, width, bits)
           L == Len(bytes)
           ends == {i \in (pos + 1)..L : bytes[i] < 128}
           last == IF ends = {} THEN L + 1 ELSE Min(ends)
           longest == pos + (width \div 7) + 2
           groups == [i \in 1..(last - pos) |-> bytes[pos + i] % 128]
           at == Min({longest, L})
           Panics == OverflowChecks /\ Min({last, longest}) \in pos + 11..L
           digits == Cast(Shifted(groups), bits)
<1>1. r = IF Panics THEN Err("panic", pos + 11)
          ELSE IF last > longest
          THEN Err(IF longest <= L THEN "VarintOverflow" ELSE "UnexpectedEnd", at)
          ELSE IF last > L THEN Err("UnexpectedEnd", L)
          ELSE Plain(FromDigits(digits, 128), last)
  BY DEF NextVarint
<1>2. L \in Nat /\ pos \in Nat /\ pos <= L
  OBVIOUS
<1>3. last \in Nat /\ last >= pos + 1
  <2>1. CASE ends = {}
    <3> HIDE DEF ends
    <3> QED
      BY <1>2, <2>1
  <2>2. CASE ends # {}
    <3>1. ends \in SUBSET Nat /\ \A i \in ends : i >= pos + 1
      BY <1>2
    <3> HIDE DEF ends
    <3>2. Min(ends) \in ends
      BY <2>2, <3>1, MinOfNaturals
    <3> QED
      BY <2>2, <3>1, <3>2
  <2> QED
    BY <2>1, <2>2
<1>4. longest \in Nat /\ longest >= pos
  BY <1>2
<1>5. at \in Nat /\ pos <= at /\ at <= L
  <2>1. at = IF longest <= L THEN longest ELSE L
    <3> HIDE DEF longest, L
    <3> QED
      BY <1>2, <1>4, MinOfTwo
  <2> HIDE DEF longest, L, at
  <2> QED
    BY <1>2, <1>4, <2>1
<1>5a. PICK m \in Nat : m = Min({last, longest})
  <2>1. Min({last, longest}) = IF last <= longest THEN last ELSE longest
    <3> HIDE DEF last, longest
    <3> QED
      BY <1>3, <1>4, MinOfTwo
  <2> HIDE DEF last, longest
  <2> QED
    BY <1>3, <1>4, <2>1
<1>5b. CASE Panics
  <2>1. pos + 11 <= L /\ pos + 11 \in Nat /\ pos + 11 >= 11 /\ OverflowChecks
    <3> HIDE DEF last, longest
    <3> QED
      BY <1>2, <1>5a, <1>5b
  <2>2. r = Err("panic", pos + 11)
    <3> HIDE DEF r, Panics, at, last, longest, L, digits
    <3> QED
      BY <1>1, <1>5b
  <2>3. "panic" \in Statuses /\ "panic" # "ok" /\ Explained(c, "panic", pos + 11)
    BY <2>1 DEF Statuses, Explained
  <2> HIDE DEF r
  <2>4. Stays(c, r, bytes, pos)
    BY <1>2, <2>1, <2>2, <2>3, ErrStays
  <2> QED
    BY <2>2, <2>3, <2>4 DEF Counts, Err, r
<1>6. CASE ~Panics /\ last > longest
  <2>1. PICK status \in Statuses : status # "ok" /\ r = Err(status, at) /\ Explained(c, status, at)
    <3>1. \A status \in {"VarintOverflow", "UnexpectedEnd"} :
            status \in Statuses /\ status # "ok" /\ Explained(c, status, at)
      BY DEF Statuses, Errors, Explained
    <3> HIDE DEF r, at, last, longest, L, Panics, digits
    <3> QED
      BY <1>1, <1>6, <3>1
  <2> HIDE DEF r, at, L
  <2>2. Stays(c, r, bytes, pos)
    BY <1>5, <2>1, ErrStays DEF L
  <2> QED
    BY <2>1, <2>2 DEF Counts, Err, r
<1>7. CASE ~Panics /\ ~(last > longest) /\ last > L
  <2>1. r = Err("UnexpectedEnd", L) /\ "UnexpectedEnd" \in Statuses /\ "UnexpectedEnd" # "ok"
        /\ Explained(c, "UnexpectedEnd", L)
    <3> HIDE DEF r, at, last, longest, L, Panics, digits
    <3> QED
      BY <1>1, <1>7 DEF Statuses, Errors, Explained
  <2> HIDE DEF r
  <2>2. Stays(c, r, bytes, pos)
    BY <1>2, <2>1, ErrStays
  <2> QED
    BY <2>1, <2>2 DEF Counts, Err, r
<1>8. CASE ~Panics /\ ~(last > longest) /\ ~(last > L)
  <2>1. r = Plain(FromDigits(digits, 128), last)
    <3> HIDE DEF r, at, last, longest, L, digits, Panics
    <3> QED
      BY <1>1, <1>8
  <2> PICK n \in Nat : n = last - pos
    <3> HIDE DEF last
    <3> QED
      BY <1>2, <1>3
  <2>2. n + pos <= L
    <3> HIDE DEF last, L
    <3> QED
      BY <1>2, <1>3, <1>8
  <2>3. \A i \in 1..n : bytes[pos + i] % 128 \in Nat
    <3> TAKE i \in 1..n
    <3>1. pos + i \in 1..Len(bytes)
      BY <1>2, <2>2
    <3>2. bytes[pos + i] \in Byte
      BY <3>1
    <3> PICK x : x = bytes[pos + i]
      OBVIOUS
    <3>4. x \in Byte
      BY <3>2
    <3>5. \A y \in Byte : y \in Nat
      BY DEF Byte
    <3>3. x % 128 \in Nat
      BY <3>4, <3>5
    <3> QED
      BY <3>3
  <2>4. groups = [i \in 1..n |-> bytes[pos + i] % 128]
    OBVIOUS
  <2> HIDE DEF groups
  <2>5. AreDigits(digits, n)
    <3>1. groups = [i \in 1..n |-> groups[i]] /\ \A i \in 1..n : groups[i] \in Nat
      BY <2>3, <2>4
    <3> QED
      BY <3>1, CastDigits
  <2> HIDE DEF digits
  <2>6. FromDigits(digits, 128) \in Nat
    BY <2>5, DigitsCount
  <2> HIDE DEF r, last, L
  <2>7. Stays(c, r, bytes, pos)
    <3>1. last \in Nat /\ pos <= last /\ last <= Len(bytes)
      BY <1>2, <1>3, <1>8 DEF L
    <3> QED
      BY <2>1, <3>1, PlainStays
  <2> QED
    BY <2>1, <2>6, <2>7 DEF Counts, Plain, Ok, r
<1> QED
  <2> HIDE DEF r, last, longest, L, Panics
  <2> QED
    BY <1>5b, <1>6, <1>7, <1>8

LEMMA HeldStays ==
  ASSUME NEW c, NEW bytes \in Seq(Byte), NEW pos \in 0..Len(bytes), NEW n \in VarintSize
  PROVE  Stays(c, DecodeVarint(n, bytes, pos), bytes, pos) /\ Counts(DecodeVarint(n, bytes, pos))
<1>1. 8 * n \in Nat
  BY DEF VarintSize
<1> QED
  BY <1>1, VarintStays DEF DecodeVarint

LEMMA LengthStays ==
  ASSUME NEW c, NEW bytes \in Seq(Byte), NEW pos \in 0..Len(bytes), NEW len_ty \in LenType
  PROVE  Stays(c, NextLength(len_ty, bytes, pos), bytes, pos) /\ Counts(NextLength(len_ty, bytes, pos))
<1>1. CASE IsVarint(len_ty)
  <2>1. len_ty \in {8 + s : s \in VarintSize}
    BY <1>1 DEF LenType, IsVarint
  <2>2. len_ty - 8 \in VarintSize
    BY <2>1 DEF VarintSize
  <2> QED
    BY <1>1, <2>2, HeldStays DEF NextLength
<1>2. CASE ~IsVarint(len_ty)
  <2>1. len_ty \in Nat
    BY DEF LenType, VarintSize
  <2> QED
    BY <1>2, <2>1, NumberStays DEF NextLength
<1> QED
  BY <1>1, <1>2

LEMMA EagerLengthStays ==
  ASSUME NEW c, NEW bytes \in Seq(Byte), NEW pos \in 0..Len(bytes), NEW len_ty \in LenType,
         IsVarint(len_ty) \/ MisreadLengths(c)
  PROVE  /\ Stays(c, NextEagerLength(len_ty, bytes, pos), bytes, pos)
         /\ Counts(NextEagerLength(len_ty, bytes, pos))
<1> DEFINE length == NextNumber(bytes, pos, LenBits(len_ty))
<1>1. LenBits(len_ty) \in Nat /\ 64 \in Nat
  BY LengthTypeBits
<1>2. Stays(c, length, bytes, pos) /\ Counts(length)
  BY <1>1, NumberStays
<1>3. NextEagerLength(len_ty, bytes, pos) =
        IF IsVarint(len_ty) THEN NextVarint(bytes, pos, LenBits(len_ty), 64)
        ELSE IF length.status = "ok" /\ LenBits(len_ty) > 8 THEN Err("undefined", length.pos)
        ELSE length
  BY DEF NextEagerLength
<1> HIDE DEF length
<1>4. ASSUME ~IsVarint(len_ty)
      PROVE  Stays(c, Err("undefined", length.pos), bytes, pos) /\ Counts(Err("undefined", length.pos))
  <2>1. "undefined" \in Statuses /\ Explained(c, "undefined", length.pos)
    BY <1>4 DEF Statuses, Explained
  <2>2. length.pos \in Nat /\ pos <= length.pos /\ length.pos <= Len(bytes)
    BY <1>2 DEF Stays
  <2> QED
    BY <2>1, <2>2, ErrStays DEF Counts, Err
<1> QED
  BY <1>1, <1>2, <1>3, <1>4, VarintStays
-----------------------------------------------------------------------------
(***************************************************************************)
(* Several reads, one after the other: a value of each is in its set.      *)
(***************************************************************************)
EachStays(c, next, n, bytes) ==
  \A i \in 1..n : \A at \in 0..Len(bytes) : Stays(c, next[i][at], bytes, at)

EachIn(next, n, V, bytes) ==
  \A i \in 1..n : \A at \in 0..Len(bytes) : next[i][at].status = "ok" => next[i][at].value \in V[i]

ListOf(v, V, n) == v = UpTo(v, n) /\ \A i \in 1..n : v[i] \in V[i]

LEMMA AppendListOf ==
  ASSUME NEW k \in Nat, NEW V, NEW v, ListOf(v, V, k), NEW x \in V[k + 1]
  PROVE  ListOf(Append(v, x), V, k + 1)
<1> DEFINE w == [j \in 1..(k + 1) |-> IF j = k + 1 THEN x ELSE v[j]]
<1>1. k + 1 \in 1..(k + 1) /\ \A j \in 1..k : j \in 1..(k + 1) /\ j # k + 1
  OBVIOUS
<1>2. w[k + 1] = x /\ \A j \in 1..k : w[j] = v[j]
  BY <1>1
<1>3. UpTo(w, k + 1) = w
  BY DEF UpTo
<1> HIDE DEF w
<1>4. UpTo(w, k) = v
  BY <1>2 DEF ListOf, UpTo
<1>5. Append(v, x) = w
  BY <1>2, <1>3, <1>4, UpToNext
<1>6. \A j \in 1..(k + 1) : j = k + 1 \/ j \in 1..k
  OBVIOUS
<1>7. \A j \in 1..(k + 1) : w[j] \in V[j]
  BY <1>2, <1>6 DEF ListOf
<1> QED
  BY <1>3, <1>5, <1>7 DEF ListOf

Partly(c, r, bytes, pos, V, k) == Stays(c, r, bytes, pos) /\ (r.status = "ok" => ListOf(r.value, V, k))

LEMMA FollowedStays ==
  ASSUME NEW c, NEW bytes \in Seq(Byte), NEW pos \in 0..Len(bytes), NEW n \in Nat, NEW next, NEW V,
         EachStays(c, next, n, bytes), EachIn(next, n, V, bytes),
         NEW k \in Nat, k + 1 \in 1..n, NEW r, Partly(c, r, bytes, pos, V, k)
  PROVE  Partly(c, Followed(r, next[k + 1]), bytes, pos, V, k + 1)
<1>1. PICK i \in 1..n : i = k + 1
  OBVIOUS
<1> DEFINE x == next[i][r.pos]
<1>2. Followed(r, next[i]) = IF r.status # "ok" THEN r ELSE Joined(r, x)
  BY FollowedBy
<1>3. CASE r.status # "ok"
  BY <1>1, <1>2, <1>3 DEF Partly
<1>4. CASE r.status = "ok"
  <2>1. r.pos \in 0..Len(bytes) /\ ListOf(r.value, V, k)
    BY <1>4 DEF Partly, Stays
  <2>2. Stays(c, x, bytes, r.pos) /\ (x.status = "ok" => x.value \in V[i])
    BY <2>1 DEF EachStays, EachIn
  <2> HIDE DEF x
  <2>3. Stays(c, x, bytes, pos)
    BY <2>2, StaysAfter DEF Partly
  <2>4. CASE x.status # "ok"
    <3>1. Joined(r, x) = x
      BY <2>4 DEF Joined
    <3> QED
      BY <1>1, <1>2, <1>4, <2>3, <2>4, <3>1 DEF Partly
  <2>5. CASE x.status = "ok"
    <3> DEFINE j == Joined(r, x)
    <3>1. j.status = "ok" /\ j.value = Append(r.value, x.value) /\ j.pos = x.pos
      BY <2>5 DEF Joined, Ok
    <3> HIDE DEF j
    <3>2. ListOf(j.value, V, i)
      BY <1>1, <2>1, <2>2, <2>5, <3>1, AppendListOf
    <3>3. Stays(c, j, bytes, pos)
      BY <2>3, <2>5, <3>1 DEF Stays, Explained
    <3>4. Partly(c, j, bytes, pos, V, i)
      BY <3>2, <3>3 DEF Partly
    <3> QED
      BY <1>1, <1>2, <1>4, <3>4 DEF j
  <2> QED
    BY <2>4, <2>5
<1> QED
  BY <1>3, <1>4

LEMMA InOrderPartly ==
  ASSUME NEW c, NEW bytes \in Seq(Byte), NEW pos \in 0..Len(bytes), NEW n \in Nat, NEW next, NEW V,
         EachStays(c, next, n, bytes), EachIn(next, n, V, bytes)
  PROVE  Partly(c, InOrder(next, n, pos), bytes, pos, V, n)
<1>1. PICK r : InTurn(r, next, n, pos) /\ InOrder(next, n, pos) = r[n]
  BY InOrderDefined
<1> DEFINE K == {k \in Nat : k <= n => Partly(c, r[k], bytes, pos, V, k)}
<1>2. 0 \in K
  <2>1. r[0] = Ok(<<>>, {<<>>}, pos)
    BY <1>1 DEF InTurn
  <2>2. Stays(c, r[0], bytes, pos)
    BY <2>1 DEF Stays, Ok, Statuses, Explained
  <2>3. r[0].value = <<>>
    BY <2>1 DEF Ok
  <2>4. ListOf(<<>>, V, 0)
    BY DEF ListOf, UpTo
  <2> QED
    BY <2>2, <2>3, <2>4 DEF Partly
<1>3. ASSUME NEW k \in Nat, k \in K PROVE k + 1 \in K
  <2>1. SUFFICES ASSUME k + 1 <= n PROVE Partly(c, r[k + 1], bytes, pos, V, k + 1)
    OBVIOUS
  <2>2. k + 1 \in 1..n /\ (k + 1) - 1 = k /\ Partly(c, r[k], bytes, pos, V, k)
    BY <1>3, <2>1
  <2>3. r[k + 1] = Followed(r[k], next[k + 1])
    BY <1>1, <2>2 DEF InTurn
  <2> QED
    BY <2>2, <2>3, FollowedStays
<1>4. Nat \subseteq K
  <2> HIDE DEF K
  <2> QED
    BY <1>2, <1>3, SetInduction
<1> QED
  BY <1>1, <1>4

LEMMA InOrderStays ==
  ASSUME NEW c, NEW bytes \in Seq(Byte), NEW pos \in 0..Len(bytes), NEW n \in Nat, NEW next,
         EachStays(c, next, n, bytes)
  PROVE  Stays(c, InOrder(next, n, pos), bytes, pos)
<1> DEFINE V == [i \in 1..n |-> {next[i][at].value : at \in 0..Len(bytes)}]
<1>1. EachIn(next, n, V, bytes)
  BY DEF EachIn
<1> HIDE DEF V
<1> QED
  BY <1>1, InOrderPartly DEF Partly
-----------------------------------------------------------------------------
(***************************************************************************)
(* Decoding of any type of a validated schema, if the calls that it makes  *)
(* stay within their input and streams are views of theirs.                *)
(***************************************************************************)
IsStream(c, ty) == ty.tag = "allocated" /\ c.schema[ty.handle].kind = "stream"

Views(c, ty, r) == r.status = "ok" /\ IsStream(c, ty) => r.value \in Seq(Byte)

StaysIn(c, read, bytes) ==
  \A ty, pos : TypeIn(c, ty) /\ pos \in 0..Len(bytes) =>
    Stays(c, read[At(ty, bytes, pos)], bytes, pos) /\ Views(c, ty, read[At(ty, bytes, pos)])

Decodable(c) == Validated(c) /\ \A h \in DOMAIN c.schema : c.schema[h].kind # "extern"

LEMMA DefinitionIn ==
  ASSUME NEW c, Validated(c), NEW h \in DOMAIN c.schema
  PROVE  /\ c.schema[h] \in Definition /\ c.bit_width[h] \in BitWidth
         /\ c.bit_width[h] = WidthByRule(c.schema[h], c.bit_width)
         /\ \A i \in DOMAIN TypesOf(c.schema[h]) : TypeIn(c, TypesOf(c.schema[h])[i])
<1>1. c.schema \in Seq(Definition) /\ c.bit_width \in [DOMAIN c.schema -> BitWidth]
  BY DEF Validated
<1>2. c.schema[h] \in Definition /\ c.bit_width[h] \in BitWidth
  BY <1>1
<1>3. c.bit_width[h] = WidthByRule(c.schema[h], c.bit_width)
  BY DEF Validated
<1>4. ASSUME NEW i \in DOMAIN TypesOf(c.schema[h]) PROVE TypeIn(c, TypesOf(c.schema[h])[i])
  <2>1. TypesOf(c.schema[h])[i] \in Type
    BY <1>2, TypesOfDefinition
  <2> QED
    BY <2>1 DEF TypeIn, Validated, HandlesInRange
<1> QED
  BY <1>2, <1>3, <1>4

LEMMA MembersIn ==
  ASSUME NEW c, Validated(c), NEW h \in DOMAIN c.schema,
         c.schema[h].kind \in {"struct", "packed", "enum", "dict"}
  PROVE  /\ Len(c.schema[h].members) \in Nat
         /\ DOMAIN c.schema[h].members = 1..Len(c.schema[h].members)
         /\ \A i \in 1..Len(c.schema[h].members) : TypeIn(c, c.schema[h].members[i].ty)
<1> DEFINE def == c.schema[h]
<1>1. def \in Definition /\ \A i \in DOMAIN TypesOf(def) : TypeIn(c, TypesOf(def)[i])
  BY DefinitionIn
<1> HIDE DEF def
<1>2. def.kind \in {"struct", "packed", "enum", "dict"}
  BY DEF def
<1>3. /\ Len(def.members) \in Nat /\ DOMAIN def.members = 1..Len(def.members)
      /\ DOMAIN TypesOf(def) = 1..Len(def.members)
      /\ \A i \in 1..Len(def.members) : TypesOf(def)[i] = def.members[i].ty
  BY <1>1, <1>2, MembersOf
<1>4. \A i \in 1..Len(def.members) : TypeIn(c, def.members[i].ty)
  BY <1>1, <1>3
<1> QED
  BY <1>3, <1>4 DEF def

LEMMA StructStays ==
  ASSUME NEW c, Validated(c), NEW h \in DOMAIN c.schema, c.schema[h].kind \in {"struct", "packed"},
         NEW bytes \in Seq(Byte), NEW pos \in 0..Len(bytes), NEW read, StaysIn(c, read, bytes)
  PROVE  /\ Stays(c, DecodeStruct(read, c.schema[h], bytes, pos), bytes, pos)
         /\ DecodeStruct(read, c.schema[h], bytes, pos).status = "ok" =>
              \A i \in 1..Len(c.schema[h].members) :
                IsStream(c, c.schema[h].members[i].ty) =>
                  DecodeStruct(read, c.schema[h], bytes, pos).value[i] \in Seq(Byte)
<1> DEFINE m == c.schema[h].members
           n == Len(m)
           next == [i \in DOMAIN m |-> Reads(read, m[i].ty, bytes)]
           Values(i) == {next[i][at].value : at \in 0..Len(bytes)}
           V == [i \in 1..n |-> {v \in Values(i) : IsStream(c, m[i].ty) => v \in Seq(Byte)}]
           r == DecodeStruct(read, c.schema[h], bytes, pos)
<1>1. n \in Nat /\ DOMAIN m = 1..n /\ \A i \in 1..n : TypeIn(c, m[i].ty)
  BY MembersIn
<1> HIDE DEF n, m
<1>2. ASSUME NEW i \in 1..n, NEW at \in 0..Len(bytes)
      PROVE  Stays(c, next[i][at], bytes, at) /\ Views(c, m[i].ty, next[i][at])
  <2>1. at \in Nat
    OBVIOUS
  <2>2. next[i][at] = read[At(m[i].ty, bytes, at)]
    BY <1>1, <2>1 DEF Reads
  <2> HIDE DEF next
  <2> QED
    BY <1>1, <2>2 DEF StaysIn
<1>3. r = InOrder(next, n, pos)
  BY DEF DecodeStruct, n, m
<1> HIDE DEF next
<1>4. EachStays(c, next, n, bytes)
  BY <1>2 DEF EachStays
<1>5. EachIn(next, n, V, bytes)
  <2> SUFFICES ASSUME NEW i \in 1..n, NEW at \in 0..Len(bytes), next[i][at].status = "ok"
               PROVE  next[i][at].value \in V[i]
    BY DEF EachIn
  <2>1. next[i][at].value \in Values(i)
    OBVIOUS
  <2>2. IsStream(c, m[i].ty) => next[i][at].value \in Seq(Byte)
    BY <1>2 DEF Views
  <2> HIDE DEF Values
  <2> QED
    BY <2>1, <2>2
<1>6. \A i \in 1..n : V[i] = {v \in Values(i) : IsStream(c, m[i].ty) => v \in Seq(Byte)}
  OBVIOUS
<1> HIDE DEF V, Values
<1>7. Partly(c, r, bytes, pos, V, n)
  BY <1>1, <1>3, <1>4, <1>5, InOrderPartly
<1> HIDE DEF r
<1>8. Stays(c, r, bytes, pos) /\ (r.status = "ok" => \A i \in 1..n : r.value[i] \in V[i])
  BY <1>7 DEF Partly, ListOf
<1>9. ASSUME r.status = "ok", NEW i \in 1..n, IsStream(c, m[i].ty) PROVE r.value[i] \in Seq(Byte)
  BY <1>6, <1>8, <1>9
<1> QED
  BY <1>8, <1>9 DEF r, m, n

LEMMA PackedStays ==
  ASSUME NEW c, Validated(c), NEW h \in DOMAIN c.schema, c.schema[h].kind = "packed",
         NEW bytes \in Seq(Byte), NEW pos \in 0..Len(bytes), NEW read
  PROVE  Stays(c, DecodePacked(c, read, h, bytes, pos), bytes, pos)
<1> DEFINE def == c.schema[h]
           size_of == c.bit_width[h].bits \div 8
           image == NextBytes(bytes, pos, size_of)
           members == DecodeStruct(read, def, image.value, 0)
<1>1. size_of \in Nat
  <2>1. c.bit_width[h] = Fixed(TotalBits([i \in DOMAIN TypesOf(def) |-> WidthOfType(TypesOf(def)[i], c.bit_width)]))
    BY DefinitionIn DEF WidthByRule
  <2>2. c.bit_width[h] # Variable
    BY <2>1 DEF Fixed, Variable
  <2>3. c.bit_width[h].bits \in Nat
    BY <2>2, DefinitionIn, FixedWidth
  <2> QED
    BY <2>3
<1> HIDE DEF size_of
<1>2. Stays(c, image, bytes, pos)
  BY <1>1, BytesStay
<1>3. DecodePacked(c, read, h, bytes, pos) =
        IF image.status # "ok" THEN image
        ELSE IF IsBitfield(c, def) THEN Plain(FromLittleEndian(image.value), image.pos)
        ELSE Ok(members.value, members.read, image.pos)
  BY DEF DecodePacked, size_of
<1>4. \A x, y : image.status = "ok" => Stays(c, Ok(x, y, image.pos), bytes, pos)
  BY <1>2 DEF Stays, Ok, Explained
<1> HIDE DEF image, members
<1> QED
  BY <1>2, <1>3, <1>4 DEF Plain

LEMMA EnumStays ==
  ASSUME NEW c, Validated(c), NEW h \in DOMAIN c.schema, c.schema[h].kind = "enum",
         NEW bytes \in Seq(Byte), NEW pos \in 0..Len(bytes), NEW read, StaysIn(c, read, bytes)
  PROVE  Stays(c, DecodeEnum(read, c.schema[h], bytes, pos), bytes, pos)
<1> DEFINE def == c.schema[h]
           tag == NextNumber(bytes, pos, def.index_ty)
           variants == {i \in DOMAIN def.members : def.members[i].index = tag.value}
           variant == Min(variants)
           x == read[At(def.members[variant].ty, bytes, tag.pos)]
           r == DecodeEnum(read, def, bytes, pos)
<1>1. def.index_ty \in Nat /\ DOMAIN def.members \subseteq Nat
      /\ \A i \in DOMAIN def.members : TypeIn(c, def.members[i].ty)
  BY DefinitionIn, IndexTypeOf, MembersIn
<1>2. Stays(c, tag, bytes, pos)
  BY <1>1, NumberStays
<1>3. r = IF tag.status # "ok" THEN tag
          ELSE IF variants = {} THEN Err("UnknownDiscriminant", tag.pos)
          ELSE IF x.status # "ok" THEN x
          ELSE Ok([variant |-> variant, value |-> x.value],
                  {[variant |-> variant, value |-> y] : y \in x.read}, x.pos)
  BY DEF DecodeEnum
<1>4. variants \subseteq DOMAIN def.members
  OBVIOUS
<1> HIDE DEF tag, variants, r
<1>5. Stays(c, Err("UnknownDiscriminant", tag.pos), bytes, pos)
  BY <1>2, ErrStays DEF Stays, Statuses, Errors, Explained
<1>6. ASSUME variants # {} PROVE Stays(c, x, bytes, pos)
  <2>1. variant \in variants
    BY <1>1, <1>4, <1>6, MinOfNaturals
  <2>2. TypeIn(c, def.members[variant].ty)
    BY <1>1, <1>4, <2>1
  <2>3. tag.pos \in 0..Len(bytes)
    BY <1>2 DEF Stays
  <2> HIDE DEF variant, def
  <2>4. Stays(c, x, bytes, tag.pos)
    BY <2>2, <2>3 DEF StaysIn
  <2> QED
    BY <1>2, <2>4, StaysAfter
<1> HIDE DEF x, variant
<1>7. \A v, y : x.status = "ok" /\ Stays(c, x, bytes, pos) => Stays(c, Ok(v, y, x.pos), bytes, pos)
  BY DEF Stays, Ok, Explained
<1>8. Stays(c, r, bytes, pos)
  BY <1>2, <1>3, <1>5, <1>6, <1>7
<1> QED
  BY <1>8 DEF r

LEMMA DictStays ==
  ASSUME NEW c, Validated(c), NEW h \in DOMAIN c.schema, c.schema[h].kind = "dict",
         NEW bytes \in Seq(Byte), NEW pos \in 0..Len(bytes), NEW read, StaysIn(c, read, bytes)
  PROVE  Stays(c, DecodeDict(read, c.schema[h], bytes, pos), bytes, pos)
<1> DEFINE def == c.schema[h]
           m == def.members
           n == Len(m)
           bitmap == NextBytes(bytes, pos, def.index_ty)
           MemberOf(i) ==
             [at \in Nat |-> IF IsSet(bitmap.value, m[i].index)
                             THEN Present(read[At(m[i].ty, bytes, at)])
                             ELSE Plain(<<>>, at)]
           next == [i \in DOMAIN m |-> MemberOf(i)]
           r == DecodeDict(read, def, bytes, pos)
<1>1. def.index_ty \in Nat /\ n \in Nat /\ DOMAIN m = 1..n /\ \A i \in 1..n : TypeIn(c, m[i].ty)
  BY DefinitionIn, IndexTypeOf, MembersIn
<1>2. Stays(c, bitmap, bytes, pos)
  BY <1>1, BytesStay
<1>3. r = IF bitmap.status # "ok" THEN bitmap ELSE InOrder(next, n, bitmap.pos)
  BY DEF DecodeDict
<1> HIDE DEF bitmap, r, n, m
<1>4. ASSUME NEW i \in 1..n, NEW at \in 0..Len(bytes) PROVE Stays(c, next[i][at], bytes, at)
  <2>1. at \in Nat
    OBVIOUS
  <2> DEFINE x == read[At(m[i].ty, bytes, at)]
  <2>2. next[i][at] = IF IsSet(bitmap.value, m[i].index) THEN Present(x) ELSE Plain(<<>>, at)
    BY <1>1, <2>1
  <2>3. Stays(c, x, bytes, at)
    BY <1>1 DEF StaysIn
  <2> HIDE DEF x, next
  <2>4. Stays(c, Present(x), bytes, at)
    BY <2>3 DEF Present, Stays, Ok, Explained
  <2>5. Stays(c, Plain(<<>>, at), bytes, at)
    BY <2>1, PlainStays
  <2> QED
    BY <2>2, <2>4, <2>5
<1> HIDE DEF next
<1>5. EachStays(c, next, n, bytes)
  BY <1>4 DEF EachStays
<1>6. ASSUME bitmap.status = "ok" PROVE Stays(c, InOrder(next, n, bitmap.pos), bytes, pos)
  <2>1. bitmap.pos \in 0..Len(bytes)
    BY <1>2 DEF Stays
  <2>2. Stays(c, InOrder(next, n, bitmap.pos), bytes, bitmap.pos)
    BY <1>1, <1>5, <2>1, InOrderStays
  <2> QED
    BY <1>2, <2>2, StaysAfter
<1>7. Stays(c, r, bytes, pos)
  BY <1>2, <1>3, <1>6
<1> QED
  BY <1>7 DEF r
-----------------------------------------------------------------------------
LEMMA SequenceIn ==
  ASSUME NEW c, Validated(c), NEW h \in DOMAIN c.schema, IsSequence(c.schema[h])
  PROVE  c.schema[h].len_ty \in LenType /\ TypeIn(c, c.schema[h].elem_ty)
<1> DEFINE def == c.schema[h]
<1>1. def \in Definition /\ \A i \in DOMAIN TypesOf(def) : TypeIn(c, TypesOf(def)[i])
  BY DefinitionIn
<1> HIDE DEF def
<1>2. def.kind \in {"vector", "stream"}
  BY DEF def, IsSequence
<1>3. def \in Sequence
  BY <1>1, <1>2 DEF Definition, Primitive, Extern, StructLike, IndexedStructLike
<1>4. def.len_ty \in LenType
  BY <1>3 DEF Sequence
<1>5. TypesOf(def) = <<def.elem_ty>>
  BY <1>2 DEF TypesOf, IsSequence
<1>6. TypeIn(c, TypesOf(def)[1]) /\ TypesOf(def)[1] = def.elem_ty
  BY <1>1, <1>5
<1> QED
  BY <1>4, <1>6 DEF def

(* What follows a length stays as the length did. *)
LEMMA ViewStays ==
  ASSUME NEW c, NEW bytes \in Seq(Byte), NEW pos, NEW length, Stays(c, length, bytes, pos), pos \in Nat,
         NEW n \in Nat, length.status = "ok"
  PROVE  /\ Stays(c, NextBytes(bytes, length.pos, n), bytes, pos)
         /\ Exactly(NextBytes(bytes, length.pos, n), length.pos, n)
<1>1. length.pos \in 0..Len(bytes)
  BY DEF Stays
<1>2. /\ Stays(c, NextBytes(bytes, length.pos, n), bytes, length.pos)
      /\ Exactly(NextBytes(bytes, length.pos, n), length.pos, n)
  BY <1>1, BytesStay
<1> QED
  BY <1>2, StaysAfter

LEMMA StreamStays ==
  ASSUME NEW c, Validated(c), NEW h \in DOMAIN c.schema, c.schema[h].kind = "stream",
         NEW bytes \in Seq(Byte), NEW pos \in 0..Len(bytes), NEW read
  PROVE  /\ Stays(c, DecodeStream(read, c.schema[h], bytes, pos), bytes, pos)
         /\ DecodeStream(read, c.schema[h], bytes, pos).status = "ok" =>
              DecodeStream(read, c.schema[h], bytes, pos).value \in Seq(Byte)
<1> DEFINE def == c.schema[h]
           length == NextLength(def.len_ty, bytes, pos)
           view == NextBytes(bytes, length.pos, length.value)
           found == UNION {StreamItems(read, def.elem_ty, v) : v \in {view.value}}
           r == DecodeStream(read, def, bytes, pos)
<1>1. def.len_ty \in LenType
  BY SequenceIn DEF IsSequence
<1>2. Stays(c, length, bytes, pos) /\ Counts(length)
  BY <1>1, LengthStays
<1>3. r = IF length.status # "ok" THEN length
          ELSE IF view.status # "ok" THEN view ELSE Ok(view.value, found, view.pos)
  BY DEF DecodeStream
<1> HIDE DEF length, found, r
<1>4. ASSUME length.status = "ok" PROVE Stays(c, view, bytes, pos) /\ Exactly(view, length.pos, length.value)
  BY <1>2, <1>4, ViewStays DEF Counts
<1> HIDE DEF view
<1>5. CASE length.status = "ok" /\ view.status = "ok"
  <2>1. r = Ok(view.value, found, view.pos) /\ view.value \in Seq(Byte)
    BY <1>3, <1>4, <1>5 DEF Exactly
  <2>2. Stays(c, r, bytes, pos) /\ r.value \in Seq(Byte)
    BY <1>4, <1>5, <2>1 DEF Stays, Ok, Explained
  <2> QED
    BY <2>2 DEF r
<1>6. CASE ~(length.status = "ok" /\ view.status = "ok")
  <2>1. Stays(c, r, bytes, pos) /\ r.status # "ok"
    BY <1>2, <1>3, <1>4, <1>6
  <2> QED
    BY <2>1 DEF r
<1> QED
  BY <1>5, <1>6

LEMMA SliceStays ==
  ASSUME NEW c, Validated(c), NEW h \in DOMAIN c.schema, c.schema[h].kind = "vector",
         IsFixedSize(c, c.schema[h].elem_ty),
         NEW bytes \in Seq(Byte), NEW pos \in 0..Len(bytes), NEW read
  PROVE  Stays(c, DecodeSlice(c, read, c.schema[h], bytes, pos), bytes, pos)
<1> DEFINE def == c.schema[h]
           each == FixedSize(c, def.elem_ty)
           length == NextLength(def.len_ty, bytes, pos)
           view == NextBytes(bytes, length.pos, length.value * each)
           found == UNION {SliceItems(c, read, def.elem_ty, v) : v \in {view.value}}
           r == DecodeSlice(c, read, def, bytes, pos)
<1>1. def.len_ty \in LenType /\ each \in Nat
  BY SequenceIn, WidthIsWidth DEF IsSequence
<1>2. Stays(c, length, bytes, pos) /\ Counts(length)
  BY <1>1, LengthStays
<1>3. r = IF length.status # "ok" THEN length
          ELSE IF ~LaidOutAsWritten(c.schema, def.elem_ty) THEN Err("undefined", length.pos)
          ELSE IF length.value >= Huge /\ MayWrap(def.len_ty, each) THEN Err("wrapped", length.pos)
          ELSE IF view.status # "ok" THEN view ELSE Ok(view.value, found, view.pos)
  BY DEF DecodeSlice
<1>3a. /\ ~LaidOutAsWritten(c.schema, def.elem_ty) => MemoryRead(c)
       /\ MayWrap(def.len_ty, each) => WideViews(c)
  BY DEF MemoryRead, WideViews
<1> HIDE DEF length, found, r, each, def
<1>4. ASSUME length.status = "ok" PROVE Stays(c, view, bytes, pos)
  <2>1. length.value * each \in Nat
    BY <1>1, <1>2, <1>4 DEF Counts
  <2> QED
    BY <1>2, <1>4, <2>1, ViewStays
<1>5. /\ MemoryRead(c) => Stays(c, Err("undefined", length.pos), bytes, pos)
      /\ WideViews(c) => Stays(c, Err("wrapped", length.pos), bytes, pos)
  <2>1. length.pos \in Nat /\ pos <= length.pos /\ length.pos <= Len(bytes)
    BY <1>2 DEF Stays
  <2>2. "undefined" \in Statuses /\ "wrapped" \in Statuses
    BY DEF Statuses
  <2>3. /\ MemoryRead(c) => Explained(c, "undefined", length.pos)
        /\ WideViews(c) => Explained(c, "wrapped", length.pos)
    BY DEF Explained
  <2> QED
    BY <2>1, <2>2, <2>3, ErrStays
<1> HIDE DEF view
<1>6. \A x : view.status = "ok" /\ Stays(c, view, bytes, pos) => Stays(c, Ok(x, found, view.pos), bytes, pos)
  BY DEF Stays, Ok, Explained
<1>7. Stays(c, r, bytes, pos)
  BY <1>2, <1>3, <1>3a, <1>4, <1>5, <1>6
<1> QED
  BY <1>7 DEF r, def

LEMMA EagerStays ==
  ASSUME NEW c, Validated(c), NEW h \in DOMAIN c.schema, c.schema[h].kind = "vector",
         ~IsFixedSize(c, c.schema[h].elem_ty),
         NEW bytes \in Seq(Byte), NEW pos \in 0..Len(bytes), NEW read, StaysIn(c, read, bytes)
  PROVE  Stays(c, DecodeEager(read, c.schema[h], bytes, pos), bytes, pos)
<1> DEFINE def == c.schema[h]
           length == NextEagerLength(def.len_ty, bytes, pos)
           n == Min({length.value, Len(bytes) - length.pos + 1})
           next == [i \in 1..n |-> Reads(read, def.elem_ty, bytes)]
           elements == InOrder(next, n, length.pos)
           r == DecodeEager(read, def, bytes, pos)
<1>1. def.len_ty \in LenType /\ TypeIn(c, def.elem_ty)
  BY SequenceIn DEF IsSequence
<1>1a. (IsVarint(def.len_ty) \/ MisreadLengths(c)) /\ EagerVectors(c)
  BY DEF MisreadLengths, EagerVectors
<1>2. Stays(c, length, bytes, pos) /\ Counts(length)
  BY <1>1, <1>1a, EagerLengthStays
<1>3. r = IF length.status # "ok" THEN length
          ELSE IF length.value >= Huge /\ elements.status \in Errors THEN Err("huge", length.pos)
          ELSE elements
  BY DEF DecodeEager
<1> HIDE DEF length, r, def
<1>4. Stays(c, Err("huge", length.pos), bytes, pos)
  <2>1. "huge" \in Statuses /\ Explained(c, "huge", length.pos)
    BY <1>1a DEF Statuses, Explained
  <2>2. length.pos \in Nat /\ pos <= length.pos /\ length.pos <= Len(bytes)
    BY <1>2 DEF Stays
  <2> QED
    BY <2>1, <2>2, ErrStays
<1>5. ASSUME length.status = "ok" PROVE Stays(c, elements, bytes, pos)
  <2>1. PICK l \in Nat, left \in Nat : l = length.value /\ left = Len(bytes) - length.pos + 1
    <3>1. length.value \in Nat /\ length.pos \in 0..Len(bytes) /\ Len(bytes) \in Nat
      BY <1>2, <1>5 DEF Counts, Stays
    <3>2. Len(bytes) - length.pos + 1 \in Nat
      BY <3>1
    <3> QED
      BY <3>1, <3>2
  <2>2. n \in Nat
    <3>1. n = IF l <= left THEN l ELSE left
      BY <2>1, MinOfTwo
    <3> QED
      BY <3>1
  <2> HIDE DEF n
  <2>3. ASSUME NEW i \in 1..n, NEW at \in 0..Len(bytes) PROVE Stays(c, next[i][at], bytes, at)
    <3>1. at \in Nat
      OBVIOUS
    <3>2. next[i][at] = read[At(def.elem_ty, bytes, at)]
      BY <3>1 DEF Reads
    <3> HIDE DEF next
    <3> QED
      BY <1>1, <3>2 DEF StaysIn
  <2> HIDE DEF next
  <2>4. EachStays(c, next, n, bytes)
    BY <2>3 DEF EachStays
  <2>5. length.pos \in 0..Len(bytes)
    BY <1>2 DEF Stays
  <2>6. Stays(c, InOrder(next, n, length.pos), bytes, length.pos)
    BY <2>2, <2>4, <2>5, InOrderStays
  <2> QED
    BY <1>2, <2>6, StaysAfter
<1> HIDE DEF n, next, elements
<1>6. Stays(c, r, bytes, pos)
  BY <1>2, <1>3, <1>4, <1>5
<1> QED
  BY <1>6 DEF r, def

(* decode() of any type does not leave its input, and goes forward in it. *)
LEMMA TypeStays ==
  ASSUME NEW c, Decodable(c), NEW ty, TypeIn(c, ty), NEW bytes \in Seq(Byte), NEW pos \in 0..Len(bytes),
         NEW read, StaysIn(c, read, bytes)
  PROVE  /\ Stays(c, DecodeType(c, read, ty, bytes, pos), bytes, pos)
         /\ Views(c, ty, DecodeType(c, read, ty, bytes, pos))
<1> DEFINE r == DecodeType(c, read, ty, bytes, pos)
<1>0. Validated(c) /\ ty \in Type /\ ty.tag \in {"integer", "varint", "allocated"}
  BY TagOfType DEF Decodable, TypeIn
<1>1. CASE ty.tag = "integer"
  <2>1. ty.bits \in Nat
    BY <1>0, <1>1, TagOfType, U16IsNat
  <2>2. ty.bits \div 8 \in Nat
    BY <2>1
  <2>3. r = NextNumber(bytes, pos, ty.bits \div 8)
    BY <1>1 DEF DecodeType, DecodeInteger
  <2>4. ~IsStream(c, ty)
    BY <1>1 DEF IsStream
  <2> HIDE DEF r
  <2>5. Stays(c, r, bytes, pos) /\ Views(c, ty, r)
    BY <2>2, <2>3, <2>4, NumberStays DEF Views
  <2> QED
    BY <2>5 DEF r
<1>2. CASE ty.tag = "varint"
  <2>1. ty \in VarintType
    BY <1>0, <1>2 DEF Type, IntegerType, AllocatedType
  <2>2. ty.size \in VarintSize
    BY <2>1 DEF VarintType
  <2>3. r = DecodeVarint(ty.size, bytes, pos)
    BY <1>2 DEF DecodeType
  <2>4. ~IsStream(c, ty)
    BY <1>2 DEF IsStream
  <2> HIDE DEF r
  <2>5. Stays(c, r, bytes, pos) /\ Views(c, ty, r)
    BY <2>2, <2>3, <2>4, HeldStays DEF Views
  <2> QED
    BY <2>5 DEF r
<1>3. CASE ty.tag = "allocated"
  <2> PICK h \in DOMAIN c.schema : h = ty.handle
    BY <1>3 DEF TypeIn
  <2> DEFINE def == c.schema[h]
  <2>0. def \in Definition /\ def.kind # "extern"
    BY <1>0, DefinitionIn DEF Decodable
  <2>1. CASE def.kind = "stream"
    <3>1. r = DecodeStream(read, def, bytes, pos)
      BY <1>3, <2>1 DEF DecodeType
    <3> HIDE DEF r
    <3>2. Stays(c, r, bytes, pos) /\ Views(c, ty, r)
      BY <1>0, <2>1, <3>1, StreamStays DEF Views
    <3> QED
      BY <3>2 DEF r
  <2>2. CASE def.kind # "stream"
    <3>1. ~IsStream(c, ty)
      BY <2>2 DEF IsStream
    <3>9. SUFFICES Stays(c, r, bytes, pos)
      BY <3>1 DEF Views
    <3>2. CASE def.kind = "primitive"
      <4>1. def.bits \in Nat
        BY <2>0, <3>2, KindOfDefinition, U16IsNat
      <4>2. def.bits \div 8 \in Nat
        BY <4>1
      <4>3. r = NextNumber(bytes, pos, def.bits \div 8)
        BY <1>3, <3>2 DEF DecodeType, DecodePrimitive
      <4> QED
        BY <4>2, <4>3, NumberStays
    <3>3. CASE def.kind = "vector" /\ IsFixedSize(c, def.elem_ty)
      <4>1. r = DecodeSlice(c, read, def, bytes, pos)
        BY <1>3, <3>3 DEF DecodeType
      <4> QED
        BY <1>0, <3>3, <4>1, SliceStays
    <3>4. CASE def.kind = "vector" /\ ~IsFixedSize(c, def.elem_ty)
      <4>1. r = DecodeEager(read, def, bytes, pos)
        BY <1>3, <3>4 DEF DecodeType
      <4> QED
        BY <1>0, <3>4, <4>1, EagerStays
    <3>5. CASE def.kind = "packed"
      <4>1. r = DecodePacked(c, read, h, bytes, pos)
        BY <1>3, <3>5 DEF DecodeType, DecodeNamed
      <4> QED
        BY <1>0, <3>5, <4>1, PackedStays
    <3>6. CASE def.kind = "struct"
      <4>1. r = DecodeStruct(read, def, bytes, pos)
        BY <1>3, <3>6 DEF DecodeType, DecodeNamed
      <4> QED
        BY <1>0, <3>6, <4>1, StructStays
    <3>7. CASE def.kind = "enum"
      <4>1. r = DecodeEnum(read, def, bytes, pos)
        BY <1>3, <3>7 DEF DecodeType, DecodeNamed
      <4> QED
        BY <1>0, <3>7, <4>1, EnumStays
    <3>8. CASE def.kind = "dict"
      <4>1. r = DecodeDict(read, def, bytes, pos)
        BY <1>3, <3>8 DEF DecodeType, DecodeNamed
      <4> QED
        BY <1>0, <3>8, <4>1, DictStays
    <3> HIDE DEF r
    <3> QED
      BY <2>0, <2>2, <3>2, <3>3, <3>4, <3>5, <3>6, <3>7, <3>8, KindOfDefinition
  <2> QED
    BY <2>1, <2>2
<1> QED
  BY <1>0, <1>1, <1>2, <1>3

DecoderStays(c, n) == \A bytes \in Seq(Byte) : StaysIn(c, Decoder(c)[n], bytes)

LEMMA WithinStays ==
  ASSUME NEW c, NEW n \in 0..MaxDepth, n # 0 => DecoderStays(c, n - 1), NEW bytes \in Seq(Byte)
  PROVE  StaysIn(c, Within(c, n), bytes)
<1> DEFINE read == Within(c, n)
<1>1. CASE n = 0
  <2> SUFFICES ASSUME NEW t, NEW p, TypeIn(c, t), p \in 0..Len(bytes)
               PROVE  Stays(c, read[At(t, bytes, p)], bytes, p) /\ Views(c, t, read[At(t, bytes, p)])
    BY DEF StaysIn
  <2>1. At(t, bytes, p) \in Places /\ At(t, bytes, p).pos = p
    BY DEF At, Places, TypeIn
  <2>2. read[At(t, bytes, p)] = Err("overflow", p)
    BY <1>1, <2>1 DEF Within, NoRoom
  <2>3. Stays(c, Err("overflow", p), bytes, p)
    <3>1. "overflow" \in Statuses /\ Explained(c, "overflow", p) /\ p \in Nat /\ p <= p /\ p <= Len(bytes)
      BY DEF Statuses, Explained
    <3> QED
      BY <3>1, ErrStays
  <2>4. Views(c, t, Err("overflow", p))
    BY DEF Views, Err
  <2> QED
    BY <2>2, <2>3, <2>4
<1>2. CASE n # 0
  BY <1>2 DEF Within, DecoderStays
<1> QED
  BY <1>1, <1>2

LEMMA CallsStay ==
  ASSUME NEW c, Decodable(c), NEW n \in 0..MaxDepth, n # 0 => DecoderStays(c, n - 1)
  PROVE  DecoderStays(c, n)
<1> SUFFICES ASSUME NEW bytes \in Seq(Byte), NEW ty, NEW pos, TypeIn(c, ty), pos \in 0..Len(bytes)
             PROVE  /\ Stays(c, Decoder(c)[n][At(ty, bytes, pos)], bytes, pos)
                    /\ Views(c, ty, Decoder(c)[n][At(ty, bytes, pos)])
  BY DEF DecoderStays, StaysIn
<1> DEFINE read == Within(c, n)
<1>1. ty \in Type /\ pos \in Nat
  BY DEF TypeIn
<1>2. StaysIn(c, read, bytes)
  BY WithinStays
<1>3. Decoder(c)[n][At(ty, bytes, pos)] = DecodeType(c, read, ty, bytes, pos)
  BY <1>1, DecoderAt
<1> HIDE DEF read
<1> QED
  BY <1>2, <1>3, TypeStays

LEMMA AllCallsStay ==
  ASSUME NEW c, Decodable(c)
  PROVE  \A n \in 0..MaxDepth : DecoderStays(c, n)
<1> DEFINE K == {n \in Nat : n <= MaxDepth => DecoderStays(c, n)}
<1>1. 0 \in K
  BY CallsStay, MaxDepthAssumption
<1>2. ASSUME NEW n \in Nat, n \in K PROVE n + 1 \in K
  <2>1. SUFFICES ASSUME n + 1 <= MaxDepth PROVE DecoderStays(c, n + 1)
    OBVIOUS
  <2>2. n + 1 \in 0..MaxDepth /\ (n + 1) - 1 = n /\ DecoderStays(c, n)
    BY <1>2, <2>1, MaxDepthAssumption
  <2> QED
    BY <2>2, CallsStay
<1>3. Nat \subseteq K
  <2> HIDE DEF K
  <2> QED
    BY <1>1, <1>2, SetInduction
<1> QED
  BY <1>3, MaxDepthAssumption
-----------------------------------------------------------------------------
LEMMA WholeStays ==
  ASSUME NEW c, Decodable(c), NEW h \in DOMAIN c.schema, NEW bytes \in Seq(Byte)
  PROVE  /\ Stays(c, Decoded(c, h, bytes), bytes, 0)
         /\ Decoded(c, h, bytes).status = "ok" /\ c.schema[h].kind = "struct" =>
              \A i \in DOMAIN c.schema[h].members :
                IsStream(c, c.schema[h].members[i].ty) =>
                  Decoded(c, h, bytes).value[i] \in Seq(Byte)
<1> DEFINE ty == Allocated(h)
           r == Decoded(c, h, bytes)
<1>1. Validated(c) /\ ty.tag = "allocated" /\ ty.handle = h
  BY DEF Decodable, Allocated
<1>2. TypeIn(c, ty)
  <2>1. c.schema \in Seq(Definition)
    BY <1>1 DEF Validated
  <2>2. h \in Nat \ {0}
    BY <2>1
  <2> QED
    BY <1>1, <2>2 DEF TypeIn, Allocated, Type, AllocatedType, Handle
<1>3. 0 \in 0..Len(bytes) /\ MaxDepth \in 0..MaxDepth
  BY MaxDepthAssumption
<1>4. r = Decoder(c)[MaxDepth][At(ty, bytes, 0)]
  BY DEF Decoded
<1> HIDE DEF r, ty
<1>5. Stays(c, r, bytes, 0)
  <2>1. DecoderStays(c, MaxDepth)
    BY <1>3, AllCallsStay
  <2> QED
    BY <1>2, <1>3, <1>4, <2>1 DEF DecoderStays, StaysIn
<1>6. ASSUME r.status = "ok", c.schema[h].kind = "struct",
             NEW i \in DOMAIN c.schema[h].members, IsStream(c, c.schema[h].members[i].ty)
      PROVE  r.value[i] \in Seq(Byte)
  <2> DEFINE read == Within(c, MaxDepth)
  <2>1. r = DecodeType(c, read, ty, bytes, 0)
    BY <1>2, <1>3, <1>4, DecoderAt DEF TypeIn
  <2>2. DecodeType(c, read, ty, bytes, 0) = DecodeStruct(read, c.schema[h], bytes, 0)
    BY <1>1, <1>6 DEF DecodeType, DecodeNamed
  <2>3. StaysIn(c, read, bytes)
    <3>1. MaxDepth # 0 => MaxDepth - 1 \in 0..MaxDepth
      BY MaxDepthAssumption
    <3>2. MaxDepth # 0 => DecoderStays(c, MaxDepth - 1)
      BY <3>1, AllCallsStay
    <3> QED
      BY <1>3, <3>2, WithinStays
  <2>4. i \in 1..Len(c.schema[h].members)
    BY <1>1, <1>6, MembersIn
  <2> HIDE DEF read
  <2> QED
    BY <1>1, <1>3, <1>6, <2>1, <2>2, <2>3, <2>4, StructStays
<1> QED
  BY <1>5, <1>6 DEF r

(* So does an element of a stream. *)
IsElement(c, ty) ==
  TypeIn(c, ty) /\ \E h \in DOMAIN c.schema : c.schema[h].kind = "stream" /\ c.schema[h].elem_ty = ty

LEMMA ElementStays ==
  ASSUME NEW c, Decodable(c), NEW ty, IsElement(c, ty), NEW bytes \in Seq(Byte), NEW pos \in 0..Len(bytes)
  PROVE  Stays(c, DecodeElement(Decoder(c)[MaxDepth], ty, bytes, pos), bytes, pos)
<1> DEFINE read == Decoder(c)[MaxDepth]
           image == NextBytes(bytes, pos, ty.bits \div 8)
           x == read[At(ty, bytes, pos)]
           r == DecodeElement(read, ty, bytes, pos)
<1>0. TypeIn(c, ty) /\ (ty.tag = "integer" /\ ty.bits \in NativeBits => NativeStreams(c))
  BY DEF IsElement, NativeStreams
<1>1. r = IF ~(ty.tag = "integer" /\ ty.bits \in NativeBits) THEN x
          ELSE IF image.status = "ok" THEN Err("undefined", image.pos) ELSE image
  BY DEF DecodeElement
<1>2. Stays(c, x, bytes, pos)
  <2>1. MaxDepth \in 0..MaxDepth
    BY MaxDepthAssumption
  <2>2. DecoderStays(c, MaxDepth)
    BY <2>1, AllCallsStay
  <2> QED
    BY <1>0, <2>2 DEF DecoderStays, StaysIn
<1>3. ASSUME ty.tag = "integer" PROVE Stays(c, image, bytes, pos)
  <2>1. ty.bits \in Nat
    BY <1>0, <1>3, TagOfType, U16IsNat DEF TypeIn
  <2>2. ty.bits \div 8 \in Nat
    BY <2>1
  <2> QED
    BY <2>2, BytesStay
<1> HIDE DEF x, image, r
<1>4. ASSUME Stays(c, image, bytes, pos), NativeStreams(c)
      PROVE  Stays(c, Err("undefined", image.pos), bytes, pos)
  <2>1. "undefined" \in Statuses /\ Explained(c, "undefined", image.pos)
    BY <1>4 DEF Statuses, Explained
  <2>2. image.pos \in Nat /\ pos <= image.pos /\ image.pos <= Len(bytes)
    BY <1>4 DEF Stays
  <2> QED
    BY <2>1, <2>2, ErrStays
<1>5. Stays(c, r, bytes, pos)
  BY <1>0, <1>1, <1>2, <1>3, <1>4
<1> QED
  BY <1>5 DEF r
-----------------------------------------------------------------------------
(***************************************************************************)
(* What the decoder and the reader of a stream have: the schema is a       *)
(* validated one, and the views are bytes of the input.                    *)
(***************************************************************************)
SchemaKnown == Decodable(ctx) /\ root \in DOMAIN ctx.schema

SenderTyped == size \in Nat /\ buf \in Seq(Byte)

ReceiverTyped ==
  /\ received \in Seq(Byte)
  /\ decoded.status \in {"unread"} \cup Statuses /\ decoded.pos \in 0..Len(received)
  /\ phase \in {"sending", "decoding"} => decoded.pos = 0
  /\ phase = "decoded" /\ ctx.schema[root].kind = "struct" =>
       \A i \in DOMAIN ctx.schema[root].members :
         IsStream(ctx, ctx.schema[root].members[i].ty) => decoded.value[i] \in Seq(Byte)

ReaderTyped ==
  /\ stream.bytes \in Seq(Byte) /\ stream.pos \in 0..Len(stream.bytes)
  /\ phase = "reading" => IsElement(ctx, stream.elem)
  /\ phase \in {"sending", "decoding"} => failed = FALSE
  /\ IsList(items) /\ Len(items) <= MaxItems /\ failed \in BOOLEAN /\ patient \in BOOLEAN

Phases == {"sending", "decoding", "decoded", "reading", "stopped", "finished", "undefined",
           "panic", "aborted", "wrapped"} \cup Errors

Keeping ==
  /\ Receiving /\ SchemaKnown /\ SenderTyped /\ ReceiverTyped /\ ReaderTyped
  /\ phase \in Phases /\ FailuresNamed

LEMMA KeepingTyped == Keeping => TypeOK
<1> SUFFICES ASSUME Keeping PROVE TypeOK
  OBVIOUS
<1>1. origin \in {"message", "input"}
      /\ sending \in {"none", "preparing", "encoding", "sent", "ContainerLengthOverflow", "undefined"}
  BY DEF Keeping, Receiving, Sending
<1>2. decoded.status \in {"unread", "ok", "huge", "overflow", "undefined", "panic", "wrapped"} \cup Errors
  BY DEF Keeping, ReceiverTyped, Statuses
<1> QED
  BY <1>1, <1>2 DEF Keeping, SenderTyped, ReceiverTyped, ReaderTyped, Phases, TypeOK

LEMMA DecodableContext ==
  ASSUME NEW s, Validated(Context(s)), Generates(s)
  PROVE  Decodable(Context(s))
BY DEF Decodable, Context, Generates

LEMMA KeepingStart == Init => Keeping
<1> SUFFICES ASSUME Init PROVE Keeping
  OBVIOUS
<1>1. Receiving
  BY ReceivingStart
<1>2. SchemaKnown
  <2>1. CASE InitSent
    <3>1. PICK m \in Messages : ctx = Context(m.schema) /\ root = m.root /\ value = m.value
      BY <2>1 DEF InitSent, InitMessage
    <3>2. Encodable(ctx, Whole(root, value)) /\ Generates(m.schema)
      BY <3>1, MessagesAssumption, SchemasAssumption
    <3>3. Validated(ctx)
      BY <3>2 DEF Encodable
    <3>4. Decodable(ctx)
      BY <3>1, <3>2, <3>3, DecodableContext
    <3>5. TypeIn(ctx, Whole(root, value).ty)
      BY <3>2, WholeTyped
    <3>6. root \in DOMAIN ctx.schema
      BY <3>5 DEF TypeIn, Whole, Part, Allocated
    <3> QED
      BY <3>4, <3>6 DEF SchemaKnown
  <2>2. CASE InitInput
    <3>1. PICK i \in Inputs : ctx = Context(i.schema) /\ root = i.root
      BY <2>2 DEF InitInput
    <3>2. Validated(ctx) /\ Generates(i.schema) /\ root \in DOMAIN i.schema
      BY <3>1, InputsAssumption, SchemasAssumption
    <3>3. Decodable(ctx) /\ ctx.schema = i.schema
      BY <3>1, <3>2, DecodableContext DEF Context
    <3> QED
      BY <3>2, <3>3 DEF SchemaKnown
  <2> QED
    BY <2>1, <2>2 DEF Init
<1>3. size = 0 /\ buf = <<>> /\ received \in Seq(Byte) /\ phase \in {"sending", "decoding"}
  <2>1. CASE InitSent
    BY <2>1 DEF InitSent, InitMessage
  <2>2. CASE InitInput
    <3>1. PICK i \in Inputs : received = i.bytes
      BY <2>2 DEF InitInput
    <3> QED
      BY <2>2, <3>1, InputsAssumption DEF InitInput
  <2> QED
    BY <2>1, <2>2 DEF Init
<1>4. decoded.status = "unread" /\ decoded.pos = 0
  BY DEF Init, InitReader, Err
<1>5. stream.bytes = <<>> /\ stream.pos = 0 /\ items = <<>> /\ failed = FALSE /\ patient = FALSE
  BY DEF Init, InitReader, NoStream
<1>6. SenderTyped
  BY <1>3 DEF SenderTyped
<1>7. ReceiverTyped
  BY <1>3, <1>4 DEF ReceiverTyped
<1>8. ReaderTyped
  <2>1. IsList(<<>>) /\ Len(<<>>) = 0
    BY DEF IsList
  <2>2. 0 <= MaxItems
    BY LimitAssumption
  <2>3. stream.bytes \in Seq(Byte) /\ stream.pos \in 0..Len(stream.bytes)
    BY <1>5
  <2>4. IsList(items) /\ Len(items) <= MaxItems
    BY <1>5, <2>1, <2>2
  <2> QED
    BY <1>3, <1>5, <2>3, <2>4 DEF ReaderTyped
<1>9. phase \in Phases /\ FailuresNamed
  BY <1>3 DEF Phases, FailuresNamed
<1> QED
  BY <1>1, <1>2, <1>6, <1>7, <1>8, <1>9 DEF Keeping
-----------------------------------------------------------------------------
(* A step that does not end the run ends it with none of the failures. *)
LEMMA GoesOnNamed ==
  ASSUME phase' \notin {"undefined", "panic", "wrapped"}
  PROVE  FailuresNamed'
BY DEF FailuresNamed

(* What a failure goes back to. *)
LEMMA OutcomeNamed ==
  ASSUME NEW status, NEW at, Explained(ctx, status, at), status \in Statuses, status # "ok",
         NEW outcome \in Outcomes(status)
  PROVE  /\ outcome \in {"undefined", "panic", "aborted", "wrapped"} \cup Errors
         /\ outcome = "undefined" => MisreadLengths(ctx) \/ MemoryRead(ctx) \/ NativeStreams(ctx)
         /\ outcome = "panic" => EagerVectors(ctx) \/ (OverflowChecks /\ (at >= 11 \/ WideViews(ctx)))
         /\ outcome = "wrapped" => ~OverflowChecks /\ WideViews(ctx)
BY OverflowChecksAssumption DEF Explained, Statuses, Outcomes, Errors

LEMMA SameSchema ==
  ASSUME ctx' = ctx
  PROVE  /\ MisreadLengths(ctx)' = MisreadLengths(ctx) /\ MemoryRead(ctx)' = MemoryRead(ctx)
         /\ NativeStreams(ctx)' = NativeStreams(ctx) /\ EagerVectors(ctx)' = EagerVectors(ctx)
         /\ WideViews(ctx)' = WideViews(ctx)
BY DEF MisreadLengths, MemoryRead, NativeStreams, EagerVectors, WideViews

LEMMA SendKeeps ==
  ASSUME Keeping, SendMessage, Receiving'
  PROVE  Keeping'
<1>1. UNCHANGED <<ctx, root, value, origin, received, decoded, reader, phase>>
  BY DEF SendMessage, Send, Prepare, Encode
<1>2. sending \in {"preparing", "encoding"}
  BY DEF SendMessage, Send, Prepare, Encode
<1>3. Sending
  BY <1>2 DEF Keeping, Receiving
<1>4. SenderTyped'
  <2>1. CASE Prepare
    BY <2>1 DEF Prepare, Keeping, SenderTyped
  <2>2. CASE Encode
    <3>1. sending = "encoding" /\ buf' = Encoded(ctx, Whole(root, value)) /\ size' = size
      BY <2>2 DEF Encode
    <3>2. Encodable(ctx, Whole(root, value)) /\ Prepared(ctx, Whole(root, value)) \in Nat
      BY <1>3, <3>1 DEF Sending
    <3>3. Encoded(ctx, Whole(root, value)) \in Seq(Byte)
      BY <3>2, EncodedBytes
    <3> QED
      BY <3>1, <3>3 DEF Keeping, SenderTyped
  <2> QED
    BY <2>1, <2>2 DEF SendMessage, Send
<1>5. SchemaKnown'
  BY <1>1 DEF Keeping, SchemaKnown
<1>6. ReceiverTyped' /\ ReaderTyped' /\ (phase \in Phases /\ FailuresNamed)'
  BY <1>1 DEF Keeping, ReceiverTyped, ReaderTyped, reader, Phases, FailuresNamed
<1> QED
  BY <1>4, <1>5, <1>6 DEF Keeping

LEMMA ArriveKeeps ==
  ASSUME Keeping, Arrive \/ CutOff, Receiving'
  PROVE  Keeping'
<1>1. UNCHANGED <<sender, origin, decoded, reader>> /\ phase = "sending" /\ phase' = "decoding"
  BY DEF Arrive, CutOff
<1>2. received' \in Seq(Byte)
  <2>1. buf \in Seq(Byte)
    BY DEF Keeping, SenderTyped
  <2>2. CASE Arrive
    <3>1. PICK trailer \in Trailers : received' = buf \o trailer
      BY <2>2 DEF Arrive
    <3>2. trailer \in Seq(Byte)
      BY TrailersAssumption
    <3> QED
      BY <2>1, <3>1, <3>2
  <2>3. CASE CutOff
    <3>1. PICK n \in 0..(Len(buf) - 1) : received' = SubSeq(buf, 1, n)
      BY <2>3 DEF CutOff
    <3>2. n \in Nat /\ 0 + n <= Len(buf) /\ received' = SubSeq(buf, 0 + 1, 0 + n)
      BY <2>1, <3>1
    <3> QED
      BY <2>1, <3>2, SliceOf
  <2> QED
    BY <2>2, <2>3
<1>3. decoded.pos = 0
  BY <1>1 DEF Keeping, ReceiverTyped
<1>4. ReceiverTyped'
  <2>1. 0 \in 0..Len(received')
    BY <1>2
  <2> QED
    BY <1>1, <1>2, <1>3, <2>1 DEF Keeping, ReceiverTyped
<1>5. SchemaKnown' /\ SenderTyped'
  BY <1>1 DEF Keeping, SchemaKnown, SenderTyped, sender
<1>6. ReaderTyped' /\ (phase \in Phases)'
  BY <1>1 DEF Keeping, ReaderTyped, reader, Phases
<1>7. FailuresNamed'
  BY <1>1, GoesOnNamed
<1> QED
  BY <1>4, <1>5, <1>6, <1>7 DEF Keeping

LEMMA DecodeKeeps ==
  ASSUME Keeping, Decode, Receiving'
  PROVE  Keeping'
<1>1. UNCHANGED <<sender, origin, received, reader>> /\ decoded' = Decoded(ctx, root, received)
      /\ phase' \in Outcomes(decoded'.status)
  BY DEF Decode
<1>2. Decodable(ctx) /\ root \in DOMAIN ctx.schema /\ received \in Seq(Byte)
  BY DEF Keeping, SchemaKnown, ReceiverTyped
<1>3. Stays(ctx, decoded', received, 0)
  BY <1>1, <1>2, WholeStays
<1>3a. decoded'.status \in Statuses /\ Explained(ctx, decoded'.status, decoded'.pos)
  BY <1>3 DEF Stays
<1>4. phase' \in Phases \ {"sending", "decoding", "reading"} /\ (phase' = "decoded" => decoded'.status = "ok")
  <2>1. CASE decoded'.status = "ok"
    BY <1>1, <2>1 DEF Outcomes, Phases
  <2>2. CASE decoded'.status # "ok"
    <3>1. phase' \in {"undefined", "panic", "aborted", "wrapped"} \cup Errors
      BY <1>1, <1>3a, <2>2, OutcomeNamed
    <3> QED
      BY <3>1 DEF Phases, Errors
  <2> QED
    BY <2>1, <2>2
<1>4a. FailuresNamed'
  <2>1. ctx' = ctx /\ failed' = FALSE
    BY <1>1 DEF sender, reader, Keeping, ReaderTyped, Decode
  <2>2. CASE decoded'.status = "ok"
    BY <1>1, <2>2 DEF Outcomes, FailuresNamed
  <2>3. CASE decoded'.status # "ok"
    <3>1. /\ phase' = "undefined" => MisreadLengths(ctx) \/ MemoryRead(ctx) \/ NativeStreams(ctx)
          /\ phase' = "panic" =>
               EagerVectors(ctx) \/ (OverflowChecks /\ (decoded'.pos >= 11 \/ WideViews(ctx)))
          /\ phase' = "wrapped" => ~OverflowChecks /\ WideViews(ctx)
      BY <1>1, <1>3a, <2>3, OutcomeNamed
    <3> QED
      BY <2>1, <3>1, SameSchema DEF FailuresNamed
  <2> QED
    BY <2>2, <2>3
<1>5. ReceiverTyped'
  <2>1. (received \in Seq(Byte))'
    BY <1>1, <1>2
  <2>2. (decoded.status \in {"unread"} \cup Statuses /\ decoded.pos \in 0..Len(received))'
    BY <1>1, <1>2, <1>3 DEF Stays
  <2>3. ctx' = ctx /\ root' = root
    BY <1>1 DEF sender
  <2>4. ASSUME phase' = "decoded", ctx.schema[root].kind = "struct",
               NEW i \in DOMAIN ctx.schema[root].members, IsStream(ctx, ctx.schema[root].members[i].ty)
        PROVE  decoded'.value[i] \in Seq(Byte)
    BY <1>1, <1>2, <1>4, <2>4, WholeStays
  <2> QED
    BY <1>4, <2>1, <2>2, <2>3, <2>4 DEF ReceiverTyped
<1>6. SchemaKnown' /\ SenderTyped'
  BY <1>1 DEF Keeping, SchemaKnown, SenderTyped, sender
<1>7. ReaderTyped'
  BY <1>1, <1>4 DEF Keeping, ReaderTyped, reader
<1> QED
  BY <1>4, <1>4a, <1>5, <1>6, <1>7 DEF Keeping

LEMMA OpenKeeps ==
  ASSUME Keeping, Open, Receiving'
  PROVE  Keeping'
<1>1. UNCHANGED <<sender, origin, received, decoded, items, failed>> /\ patient' \in BOOLEAN
      /\ phase = "decoded" /\ phase' = "reading" /\ ctx.schema[root].kind = "struct"
  BY DEF Open
<1>2. PICK i \in DOMAIN ctx.schema[root].members :
        LET ty == ctx.schema[root].members[i].ty
        IN  /\ ty.tag = "allocated" /\ ctx.schema[ty.handle].kind = "stream"
            /\ stream' = [elem |-> ctx.schema[ty.handle].elem_ty,
                          bytes |-> decoded.value[i], pos |-> 0, member |-> i]
  BY DEF Open
<1> DEFINE ty == ctx.schema[root].members[i].ty
<1>3. IsStream(ctx, ty) /\ stream'.elem = ctx.schema[ty.handle].elem_ty
      /\ stream'.bytes = decoded.value[i] /\ stream'.pos = 0
  BY <1>2 DEF IsStream
<1>4. Validated(ctx) /\ root \in DOMAIN ctx.schema
  BY DEF Keeping, SchemaKnown, Decodable
<1>5. TypeIn(ctx, ty)
  BY <1>1, <1>4, MembersIn
<1>6. IsElement(ctx, ctx.schema[ty.handle].elem_ty)
  BY <1>3, <1>4, <1>5, SequenceIn DEF TypeIn, IsStream, IsSequence, IsElement
<1>7. decoded.value[i] \in Seq(Byte)
  BY <1>1, <1>3 DEF Keeping, ReceiverTyped
<1>8. (stream.bytes \in Seq(Byte) /\ stream.pos \in 0..Len(stream.bytes) /\ IsElement(ctx, stream.elem))'
  <2>1. 0 \in 0..Len(decoded.value[i])
    BY <1>7
  <2>2. ctx' = ctx
    BY <1>1 DEF sender
  <2> QED
    BY <1>3, <1>6, <1>7, <2>1, <2>2
<1>9. ReaderTyped'
  BY <1>1, <1>8 DEF Keeping, ReaderTyped
<1>10. SchemaKnown' /\ SenderTyped'
  BY <1>1 DEF Keeping, SchemaKnown, SenderTyped, sender
<1>11. ReceiverTyped' /\ (phase \in Phases)'
  BY <1>1 DEF Keeping, ReceiverTyped, Phases
<1>12. FailuresNamed'
  BY <1>1, GoesOnNamed
<1> QED
  BY <1>9, <1>10, <1>11, <1>12 DEF Keeping

(* The next element begins where the one before it has ended. *)
LEMMA MoveKeeps ==
  ASSUME Keeping, AtItem, MovedTo(NextElement)
  PROVE  stream'.elem = stream.elem /\ stream'.bytes = stream.bytes
         /\ (stream.bytes \in Seq(Byte) /\ stream.pos \in 0..Len(stream.bytes))'
         /\ NextElement.status \in Statuses /\ Explained(ctx, NextElement.status, stream'.pos)
<1> DEFINE r == NextElement
<1>1. stream.bytes \in Seq(Byte) /\ stream.pos \in 0..Len(stream.bytes) /\ IsElement(ctx, stream.elem)
  BY DEF Keeping, ReaderTyped, AtItem
<1>2. Stays(ctx, r, stream.bytes, stream.pos)
  BY <1>1, ElementStays DEF Keeping, SchemaKnown, NextElement
<1>3. stream' = [stream EXCEPT !.pos = r.pos]
  BY DEF MovedTo
<1> HIDE DEF r
<1>4. stream'.elem = stream.elem /\ stream'.bytes = stream.bytes /\ stream'.pos = r.pos
  BY <1>3
<1>5. (stream.bytes \in Seq(Byte) /\ stream.pos \in 0..Len(stream.bytes))'
  BY <1>1, <1>2, <1>4 DEF Stays
<1>6. r.status \in Statuses /\ Explained(ctx, r.status, stream'.pos)
  BY <1>2, <1>4 DEF Stays
<1> QED
  BY <1>4, <1>5, <1>6 DEF r

LEMMA ReadKeeps ==
  ASSUME Keeping, ReadNext, Receiving'
  PROVE  Keeping'
<1>1. UNCHANGED <<sender, origin, received, decoded, patient>> /\ phase = "reading"
  BY DEF ReadNext, TakeItem, TakeErr, EndOfStream, AtItem, reader
<1>2. SchemaKnown' /\ SenderTyped'
  BY <1>1 DEF Keeping, SchemaKnown, SenderTyped, sender
<1>3. ASSUME phase' \in {"reading", "stopped", "finished", "undefined", "panic", "aborted", "wrapped"}
      PROVE  ReceiverTyped' /\ (phase \in Phases)'
  BY <1>1, <1>3 DEF Keeping, ReceiverTyped, Phases
<1>4. ctx' = ctx /\ patient' \in BOOLEAN
  BY <1>1 DEF sender, Keeping, ReaderTyped
<1>5. CASE TakeItem
  <2>1. PICK r \in {NextElement} : MovedTo(r) /\ items' = Append(items, r.read)
    BY <1>5 DEF TakeItem
  <2>2. AtItem /\ MovedTo(NextElement) /\ Len(items) < MaxItems
        /\ phase' = phase /\ failed' = failed
    BY <1>5, <2>1 DEF TakeItem
  <2>3. stream'.elem = stream.elem
        /\ (stream.bytes \in Seq(Byte) /\ stream.pos \in 0..Len(stream.bytes))'
    BY <2>2, MoveKeeps
  <2>4. IsList(items') /\ Len(items') = Len(items) + 1 /\ Len(items) \in Nat
    BY <2>1 DEF Keeping, ReaderTyped, IsList
  <2>5. Len(items') <= MaxItems
    BY <2>2, <2>4, LimitAssumption
  <2>6. ReaderTyped'
    BY <1>1, <1>4, <2>2, <2>3, <2>4, <2>5 DEF Keeping, ReaderTyped
  <2> QED
    BY <1>1, <1>2, <1>3, <2>2, <2>6, GoesOnNamed DEF Keeping
<1>6. CASE TakeErr
  <2>1. PICK r \in {NextElement} : \E outcome \in Outcomes(r.status) :
          /\ r.status # "ok" /\ MovedTo(r)
          /\ phase' = IF outcome \notin Errors THEN outcome
                      ELSE IF patient THEN "reading" ELSE "stopped"
    BY <1>6 DEF TakeErr
  <2>1a. PICK outcome \in Outcomes(r.status) :
          /\ r.status # "ok" /\ MovedTo(r)
          /\ phase' = IF outcome \notin Errors THEN outcome
                      ELSE IF patient THEN "reading" ELSE "stopped"
    BY <2>1
  <2>2. AtItem /\ MovedTo(NextElement) /\ failed' = TRUE /\ items' = items /\ r = NextElement
    BY <1>6, <2>1a DEF TakeErr
  <2>3. /\ stream'.elem = stream.elem
        /\ (stream.bytes \in Seq(Byte) /\ stream.pos \in 0..Len(stream.bytes))'
        /\ r.status \in Statuses /\ Explained(ctx, r.status, stream'.pos)
    BY <2>2, MoveKeeps
  <2>4. /\ outcome \in {"undefined", "panic", "aborted", "wrapped"} \cup Errors
        /\ outcome = "undefined" => MisreadLengths(ctx) \/ MemoryRead(ctx) \/ NativeStreams(ctx)
        /\ outcome = "panic" =>
             EagerVectors(ctx) \/ (OverflowChecks /\ (stream'.pos >= 11 \/ WideViews(ctx)))
        /\ outcome = "wrapped" => ~OverflowChecks /\ WideViews(ctx)
    BY <2>1a, <2>3, OutcomeNamed
  <2>5. /\ phase' \in {"reading", "stopped", "undefined", "panic", "aborted", "wrapped"}
        /\ phase' \in {"undefined", "panic", "wrapped"} => outcome = phase'
    BY <2>1a, <2>4
  <2>6. ReaderTyped'
    BY <1>1, <1>4, <2>2, <2>3, <2>5 DEF Keeping, ReaderTyped
  <2>7. FailuresNamed'
    BY <1>4, <2>2, <2>4, <2>5, SameSchema DEF FailuresNamed
  <2> QED
    BY <1>2, <1>3, <2>5, <2>6, <2>7 DEF Keeping
<1>7. CASE EndOfStream
  <2>1. UNCHANGED reader /\ phase' = "finished"
    BY <1>7 DEF EndOfStream
  <2>2. ReaderTyped'
    BY <2>1 DEF Keeping, ReaderTyped, reader
  <2> QED
    BY <1>2, <1>3, <2>1, <2>2, GoesOnNamed DEF Keeping
<1> QED
  BY <1>5, <1>6, <1>7 DEF ReadNext

LEMMA KeepingStep == Keeping /\ [Next]_vars => Keeping'
<1> SUFFICES ASSUME Keeping, [Next]_vars PROVE Keeping'
  OBVIOUS
<1>1. Receiving'
  BY ReceivingStep DEF Keeping
<1>2. CASE UNCHANGED vars
  BY <1>1, <1>2 DEF vars, sender, reader, Keeping, SchemaKnown, SenderTyped, ReceiverTyped,
                    ReaderTyped, Phases, FailuresNamed
<1> QED
  BY <1>1, <1>2, SendKeeps, ArriveKeeps, DecodeKeeps, OpenKeeps, ReadKeeps DEF Next

(***************************************************************************)
(* Whatever bytes it is given, with whatever schema the compiler accepts,  *)
(* a generated decoder does not read past its input, nor the reader of a   *)
(* stream past the bytes of the stream.                                    *)
(***************************************************************************)
THEOREM TypeAlwaysOK == Spec => []TypeOK
<1> QED
  BY KeepingStart, KeepingStep, KeepingTyped, PTL DEF Spec

(***************************************************************************)
(* What they return is a value or an error of nisba::Error, but for the    *)
(* undefined behaviour of three kinds of schemas, and the panics of two    *)
(* more, of which one, and that of a varint of eleven bytes, takes a build *)
(* with overflow checks.                                                   *)
(***************************************************************************)
THEOREM FailuresAlwaysNamed == Spec => []FailuresNamed
<1>1. Keeping => FailuresNamed
  BY DEF Keeping
<1> QED
  BY <1>1, KeepingStart, KeepingStep, PTL DEF Spec
-----------------------------------------------------------------------------
(***************************************************************************)
(* A stream that is a member of what has been decoded: its bytes are those *)
(* that its elements were written to.                                      *)
(***************************************************************************)
LEMMA StreamViewed ==
  ASSUME NEW c, NEW p, NEW sizes, NEW encoded, NEW t, NEW read,
         Inverting(c, p, sizes, encoded, t, read), IsOne(c, p), DefinitionOf(c, p).kind = "stream",
         NEW bytes, NEW pos, Input(bytes, pos, t), Complete(bytes, pos, t),
         NEW x, x = DecodeType(c, read, p.ty, bytes, pos)
  PROVE  x.value = EncodeParts(c, encoded, p)
<1> DEFINE def == DefinitionOf(c, p)
           b == EncodeParts(c, encoded, p)
           l == LengthOf(c, encoded, p)
           a == LenBytes(def.len_ty, l)
           length == NextLength(def.len_ty, bytes, pos)
           view == NextBytes(bytes, length.pos, length.value)
<1>0. Ready(c, p) /\ PartsExact(c, p, sizes, encoded) /\ PartsSized(c, p, sizes)
      /\ PartsBytes(c, p, encoded) /\ Fits(def.len_ty, l) /\ t = EncodeType(c, sizes, encoded, p)
  BY DEF Inverting, PartsRead, PartsBytes
<1>1. LengthRead(c, p, encoded, bytes, pos, length)
  BY <1>0, SequenceLength
<1>2. t = a \o b
  BY <1>0, SequenceWritten
<1>3. l = Len(b)
  BY DEF LengthOf
<1>4. x =
        IF length.status # "ok" THEN length ELSE IF view.status # "ok" THEN view
         ELSE Ok(view.value, UNION {StreamItems(read, def.elem_ty, v) : v \in {view.value}}, view.pos)
  <2>1. x = DecodeStream(read, def, bytes, pos)
    BY DEF DecodeType, IsOne, DefinitionOf
  <2> QED
    BY <2>1 DEF DecodeStream
<1>5. a \in Seq(Byte) /\ b \in Seq(Byte) /\ bytes \in Seq(Byte) /\ pos \in 0..Len(bytes) /\ pos \in Nat
      /\ Returns(length, bytes, pos, a, l) /\ Agrees(bytes, pos + Len(a), b)
  BY <1>1 DEF LengthRead
<1> HIDE DEF def, a, length
<1>6. Len(a \o b) = Len(a) + Len(b) /\ Len(a) \in Nat /\ Len(b) \in Nat
  <2> HIDE DEF b
  <2> QED
    BY <1>5
<1> PICK at : at = pos + Len(a)
  OBVIOUS
<1>7. Complete(bytes, pos, a) /\ Complete(bytes, at, b) /\ at \in 0..Len(bytes)
  <2> HIDE DEF b
  <2> QED
    BY <1>2, <1>5, <1>6 DEF Complete, b
<1>8. length.status = "ok" /\ length.value = Len(b) /\ length.pos = at
  <2> HIDE DEF b, l
  <2> QED
    BY <1>3, <1>5, <1>7 DEF Returns, Recovers
<1>9. Returns(view, bytes, at, b, b)
  <2> HIDE DEF b
  <2> QED
    BY <1>5, <1>7, <1>8, BytesReturned
<1>10. view.status = "ok" /\ view.value = b
  BY <1>7, <1>9 DEF Returns, Recovers
<1> HIDE DEF b, view
<1> QED
  BY <1>4, <1>8, <1>10 DEF Ok, b

(* A member is decoded where it begins. *)
ViewedAt(c, p, encoded, read, bytes, x, i) ==
  \E at : LET q == PartsOf(c, p)[i]
          IN  /\ Input(bytes, at, encoded[q]) /\ Complete(bytes, at, encoded[q])
              /\ x = read[At(q.ty, bytes, at)].value

LEMMA MemberViewed ==
  ASSUME NEW c, NEW p, Ready(c, p), p.ty.tag = "allocated", DefinitionOf(c, p).kind = "struct",
         NEW encoded, NEW read, PartsRead(c, p, encoded, read), NEW bytes, NEW pos,
         Input(bytes, pos, EncodeParts(c, encoded, p)), Complete(bytes, pos, EncodeParts(c, encoded, p)),
         NEW i \in 1..Len(DefinitionOf(c, p).members)
  PROVE  ViewedAt(c, p, encoded, read, bytes,
                  DecodeStruct(read, DefinitionOf(c, p), bytes, pos).value[i], i)
<1> DEFINE def == DefinitionOf(c, p)
           n == Len(def.members)
           parts == PartsOf(c, p)
           seqs == EncodedOf(parts, n, encoded)
           b == EncodeParts(c, encoded, p)
           next == [j \in DOMAIN def.members |-> Reads(read, def.members[j].ty, bytes)]
           x == [j \in 1..n |-> parts[j].datum]
<1>1. IsStructLike(c, def) /\ def \in Definition
  BY DefinitionOfPart DEF IsStructLike
<1>2. /\ n \in Nat /\ DOMAIN def.members = 1..n
      /\ \A j \in 1..n : TypesOf(def)[j] = def.members[j].ty
  BY <1>1, MembersOf
<1>3. Listed(parts, n) /\ \A j \in 1..n : parts[j].ty = def.members[j].ty
  BY <1>1, <1>2, StructMembersListed
<1>4. PICK h : LaidOut(b, h, seqs, n)
  BY <1>3, PartsLaidOut DEF PartsRead, PartsBytes
<1>5. AreBytes(seqs, n) /\ b \in Seq(Byte)
  BY <1>3, PartsLaidOut DEF PartsRead, PartsBytes
<1>6. DecodeStruct(read, def, bytes, pos) = InOrder(next, n, pos)
  BY DEF DecodeStruct
<1>7. \A j \in 1..n : next[j] = Reads(read, parts[j].ty, bytes)
  BY <1>2, <1>3
<1>8. \A j \in 1..n : x[j] = parts[j].datum
  OBVIOUS
<1>9. bytes \in Seq(Byte) /\ pos \in 0..Len(bytes) /\ pos \in Nat /\ Agrees(bytes, pos, b)
  BY DEF Input
<1>10. i \in 1..n /\ n \in 0..n
  BY <1>2
<1>11. parts[i] \in Range(parts)
  <2> HIDE DEF parts
  <2> QED
    BY <1>2, <1>3, <1>10 DEF Listed, Range
<1>12. seqs[i] = encoded[parts[i]]
  BY <1>10 DEF EncodedOf
<1> HIDE DEF next, parts, n, def, x
<1>13. ReadsEach(next, read, bytes, c, p, encoded, x, n)
  <2>1. ASSUME NEW j \in 1..n, NEW at \in Nat
        PROVE  next[j][at] = read[At(parts[j].ty, bytes, at)] /\ parts[j].datum = x[j]
    BY <1>7, <1>8 DEF Reads
  <2> QED
    BY <2>1 DEF ReadsEach, parts
<1>14. EachRecovers(next, bytes, pos, seqs, h, x, n)
  BY <1>3, <1>4, <1>10, <1>13, MembersEach DEF parts
<1> HIDE DEF seqs, b
<1>15. Ends(h, seqs, n) /\ Len(b) = h[n] /\ Complete(bytes, pos, b)
  BY <1>4 DEF LaidOut, b
<1>16. h[i - 1] \in Nat /\ h[i] \in Nat /\ h[n] \in Nat /\ h[i] = h[i - 1] + Len(seqs[i])
       /\ h[i] <= h[n] /\ Len(seqs[i]) \in Nat
  <2>1. i - 1 \in 0..n /\ i \in 0..n /\ n \in 0..n /\ i <= n
    BY <1>2, <1>10
  <2>2. h[i - 1] \in Nat /\ h[i] \in Nat /\ h[n] \in Nat /\ h[i] <= h[n]
    BY <1>2, <1>5, <1>15, <2>1, EndsGrow
  <2>3. h[i] = h[i - 1] + Len(seqs[i])
    BY <1>10, <1>15 DEF Ends
  <2>4. Len(seqs[i]) \in Nat
    BY <1>5, <1>10 DEF AreBytes
  <2> QED
    BY <2>2, <2>3, <2>4
<1> PICK k \in Nat : k = h[i - 1]
  BY <1>16
<1> PICK at \in Nat : at = pos + k
  BY <1>9
<1>17. Complete(bytes, at, seqs[i]) /\ at \in 0..Len(bytes)
  <2> PICK u \in Nat, w \in Nat : u = Len(seqs[i]) /\ w = h[n]
    BY <1>16
  <2>1. k + u <= w /\ pos + w <= Len(bytes) /\ Len(bytes) \in Nat
    BY <1>9, <1>15, <1>16 DEF Complete
  <2>2. at + u <= Len(bytes)
    BY <1>9, <2>1
  <2> QED
    BY <2>2 DEF Complete
<1>18. Agrees(bytes, pos + h[i - 1], seqs[i])
  BY <1>2, <1>4, <1>5, <1>9, <1>10, PartsAgree
<1>19. Input(bytes, at, seqs[i])
  BY <1>9, <1>17, <1>18 DEF Input
<1>20. pos + h[n] <= Len(bytes)
  BY <1>15 DEF Complete
<1>21. InOrder(next, n, pos).value[i] = next[i][pos + h[i - 1]].value
  BY <1>2, <1>5, <1>9, <1>10, <1>14, <1>15, <1>20, InOrderValues
<1>22. next[i][at] = read[At(parts[i].ty, bytes, at)]
  BY <1>7, <1>10 DEF Reads
<1> QED
  BY <1>6, <1>12, <1>17, <1>19, <1>21, <1>22 DEF ViewedAt, parts, def
-----------------------------------------------------------------------------
(* What is known of a value that is read again. *)
Fitting(c, h, v) ==
  /\ Invertible(c) /\ Encodable(c, Whole(h, v)) /\ Prepared(c, Whole(h, v)) \in Nat
  /\ FitAll(c, Whole(h, v))

MemberAt(c, h, v, i) == PartsOf(c, Whole(h, v))[i]

(* What is written of the elements of a member, and that they are. *)
ElementBytes(c, h, v) == Below(Bytes(c, Whole(h, v)), MaxDepth - 1)

StreamBytes(c, h, v, i) == EncodeParts(c, ElementBytes(c, h, v), MemberAt(c, h, v, i))

MemberInverting(c, h, v, i) ==
  LET q == MemberAt(c, h, v, i)
  IN  /\ MaxDepth - 1 \in 0..MaxDepth /\ q.ty = c.schema[h].members[i].ty /\ q.datum = v[i]
      /\ Inverting(c, q, Below(Sizes(c, Whole(h, v)), MaxDepth - 1), ElementBytes(c, h, v),
                   Below(Bytes(c, Whole(h, v)), MaxDepth)[q], Within(c, MaxDepth - 1))
      /\ q \in Levels(c, Whole(h, v))[MaxDepth - (MaxDepth - 1)]

LEMMA WholeInverting ==
  ASSUME NEW c, NEW h, NEW v, Fitting(c, h, v)
  PROVE  Inverting(c, Whole(h, v), Below(Sizes(c, Whole(h, v)), MaxDepth),
                   Below(Bytes(c, Whole(h, v)), MaxDepth), Encoded(c, Whole(h, v)), Within(c, MaxDepth))
<1> DEFINE whole == Whole(h, v)
<1>1. TypeIn(c, whole.ty) /\ \A n \in 0..MaxDepth : InverseAt(c, whole, n)
  BY WholeTyped, LevelsInverse DEF Fitting
<1>2. whole \in Levels(c, whole)[MaxDepth - MaxDepth]
  BY LevelsDefined, MaxDepthAssumption
<1>3. MaxDepth \in 0..MaxDepth /\ MaxDepth \in MaxDepth..MaxDepth /\ (MaxDepth # 0 => MaxDepth - 1 \in 0..MaxDepth)
  BY MaxDepthAssumption
<1> HIDE DEF whole
<1>4. Invertible(c) /\ Encodable(c, whole) /\ Prepared(c, whole) \in Nat /\ FitAll(c, whole)
  BY DEF Fitting, whole
<1>5. Inverting(c, whole, Below(Sizes(c, whole), MaxDepth), Below(Bytes(c, whole), MaxDepth),
                Bytes(c, whole)[MaxDepth][whole], Within(c, MaxDepth))
  BY <1>1, <1>2, <1>3, <1>4, LevelInverting
<1> QED
  BY <1>5 DEF whole, Encoded

LEMMA MembersInvert ==
  ASSUME NEW c, NEW h, NEW v, Fitting(c, h, v), c.schema[h].kind = "struct",
         NEW i \in 1..Len(c.schema[h].members)
  PROVE  MemberInverting(c, h, v, i)
<1> DEFINE whole == Whole(h, v)
           q == MemberAt(c, h, v, i)
           def == c.schema[h]
           n == MaxDepth - 1
<1>1. Ready(c, whole)
  BY WholeInverting DEF Inverting
<1>2. whole.ty.tag = "allocated" /\ DefinitionOf(c, whole) = def /\ whole.datum = v
  BY DEF Whole, Part, Allocated, DefinitionOf
<1>3. def \in Definition /\ IsStructLike(c, def)
  BY <1>1, <1>2, DefinitionOfPart DEF IsStructLike
<1>4. Len(def.members) \in Nat /\ DOMAIN def.members = 1..Len(def.members)
      /\ \A j \in 1..Len(def.members) : TypesOf(def)[j] = def.members[j].ty
  BY <1>3, MembersOf
<1>5. Listed(PartsOf(c, whole), Len(def.members)) /\ q.ty = def.members[i].ty
  BY <1>1, <1>2, <1>3, <1>4, StructMembersListed DEF MemberAt
<1>6. q \in Range(PartsOf(c, whole))
  BY <1>4, <1>5 DEF MemberAt, Listed, Range
<1>7. q.datum = v[i]
  <2>1. PartsOf(c, whole) = StructMembers(c, whole)
    BY <1>2, <1>3 DEF PartsOf, IsSequence, IsStructLike
  <2>2. IsList(v) /\ Len(v) = Len(def.members)
    BY <1>1, <1>2 DEF Ready, WellTyped, IsSequence
  <2>3. DOMAIN v = 1..Len(def.members)
    BY <2>2 DEF IsList
  <2> QED
    BY <1>2, <2>1, <2>3 DEF StructMembers, MemberPart, Part, MemberAt
<1>8. TypeIn(c, whole.ty) /\ \A m \in 0..MaxDepth : InverseAt(c, whole, m)
  BY WholeTyped, LevelsInverse DEF Fitting
<1>9. whole \in Levels(c, whole)[MaxDepth - MaxDepth] /\ MaxDepth \in 0..MaxDepth
  BY LevelsDefined, MaxDepthAssumption
<1> HIDE DEF whole, q, def
<1>10. Invertible(c) /\ Encodable(c, whole) /\ Prepared(c, whole) \in Nat /\ FitAll(c, whole)
  BY DEF Fitting, whole
<1>11. n \in 0..MaxDepth /\ q \in Levels(c, whole)[MaxDepth - n] /\ MaxDepth # 0
  BY <1>6, <1>9, <1>10, LevelBelow
<1>12. n \in n..MaxDepth /\ (n # 0 => n - 1 \in 0..MaxDepth)
  BY <1>11, MaxDepthAssumption
<1>13. Inverting(c, q, Below(Sizes(c, whole), n), Below(Bytes(c, whole), n), Bytes(c, whole)[n][q],
                 Within(c, n))
  <2> HIDE DEF n
  <2> QED
    BY <1>8, <1>10, <1>11, <1>12, LevelInverting
<1>14. Bytes(c, whole)[n] = Below(Bytes(c, whole), MaxDepth)
  BY <1>11 DEF Below
<1> QED
  BY <1>5, <1>7, <1>11, <1>13, <1>14 DEF MemberInverting, ElementBytes, whole, q, def

(* The view that a struct has of a stream that is a member. *)
LEMMA StreamOpened ==
  ASSUME NEW c, NEW h, NEW v, Fitting(c, h, v), c.schema[h].kind = "struct",
         NEW i \in 1..Len(c.schema[h].members), IsStream(c, c.schema[h].members[i].ty),
         NEW bytes, Input(bytes, 0, Encoded(c, Whole(h, v))), Complete(bytes, 0, Encoded(c, Whole(h, v)))
  PROVE  Decoded(c, h, bytes).value[i] = StreamBytes(c, h, v, i)
<1> DEFINE whole == Whole(h, v)
           q == MemberAt(c, h, v, i)
           encoded == Below(Bytes(c, whole), MaxDepth)
           sizes == Below(Sizes(c, whole), MaxDepth)
           read == Within(c, MaxDepth)
           def == c.schema[h]
           n == MaxDepth - 1
<1>1. Inverting(c, whole, sizes, encoded, Encoded(c, whole), read)
  BY WholeInverting
<1>2. MemberInverting(c, h, v, i)
  BY MembersInvert
<1>3. whole.ty.tag = "allocated" /\ DefinitionOf(c, whole) = def /\ whole.ty = Allocated(h)
  BY DEF Whole, Part, Allocated, DefinitionOf
<1>4. Ready(c, whole) /\ PartsRead(c, whole, encoded, read)
  BY <1>1 DEF Inverting
<1>5. Encoded(c, whole) = EncodeParts(c, encoded, whole)
  <2>1. Encoded(c, whole) = EncodeType(c, sizes, encoded, whole)
    BY <1>1 DEF Inverting
  <2> HIDE DEF sizes, encoded
  <2> QED
    BY <1>3, <2>1 DEF EncodeType, EncodeNamed, EncodeStruct, IsSequence
<1>6. bytes \in Seq(Byte) /\ 0 \in Nat
  BY DEF Input
<1>7. Decoded(c, h, bytes) = DecodeStruct(read, def, bytes, 0)
  <2>1. Allocated(h) \in Type
    BY <1>3, <1>4 DEF Ready, TypeIn
  <2>2. MaxDepth \in 0..MaxDepth
    BY MaxDepthAssumption
  <2>3. Decoded(c, h, bytes) = DecodeType(c, read, Allocated(h), bytes, 0)
    BY <1>6, <2>1, <2>2, DecoderAt DEF Decoded
  <2> QED
    BY <2>3 DEF DecodeType, DecodeNamed, Allocated
<1>8. ViewedAt(c, whole, encoded, read, bytes, Decoded(c, h, bytes).value[i], i)
  <2> HIDE DEF whole, encoded, read
  <2>1. Input(bytes, 0, EncodeParts(c, encoded, whole)) /\ Complete(bytes, 0, EncodeParts(c, encoded, whole))
    BY <1>5 DEF whole
  <2> QED
    BY <1>3, <1>4, <1>7, <2>1, MemberViewed
<1>9. PICK at : /\ Input(bytes, at, encoded[q]) /\ Complete(bytes, at, encoded[q])
                /\ Decoded(c, h, bytes).value[i] = read[At(q.ty, bytes, at)].value
  BY <1>8 DEF ViewedAt, MemberAt
<1>10. n \in 0..MaxDepth /\ MaxDepth # 0 /\ q.ty = def.members[i].ty
       /\ Inverting(c, q, Below(Sizes(c, whole), n), ElementBytes(c, h, v), encoded[q], Within(c, n))
  BY <1>2, MaxDepthAssumption DEF MemberInverting
<1>11. read = Decoder(c)[n]
  BY <1>10 DEF Within
<1>12. at \in Nat /\ q.ty \in Type
  BY <1>9, <1>10 DEF Input, Inverting, Ready, TypeIn
<1> HIDE DEF n, q, encoded, sizes, whole, read, def
<1>13. read[At(q.ty, bytes, at)] = DecodeType(c, Within(c, n), q.ty, bytes, at)
  BY <1>6, <1>10, <1>11, <1>12, DecoderAt
<1>14. IsOne(c, q) /\ DefinitionOf(c, q).kind = "stream"
  BY <1>10 DEF IsStream, IsOne, DefinitionOf, IsSequence, def
<1>15. DecodeType(c, Within(c, n), q.ty, bytes, at).value = EncodeParts(c, ElementBytes(c, h, v), q)
  BY <1>9, <1>10, <1>14, StreamViewed
<1> QED
  BY <1>9, <1>13, <1>15 DEF StreamBytes, q
-----------------------------------------------------------------------------
(***************************************************************************)
(* The reader of a stream.  Elements of a fixed size are read as long as   *)
(* there are as many bytes.                                                *)
(***************************************************************************)
(* All of the bytes of one, or none. *)
TakesExactly(r, bytes, pos, w) ==
  /\ pos + w <= Len(bytes) => r.status = "ok" /\ r.pos = pos + w
  /\ ~(pos + w <= Len(bytes)) => r.status # "ok" /\ r.pos = pos

LEMMA BytesTaken ==
  ASSUME NEW bytes \in Seq(Byte), NEW pos \in 0..Len(bytes), NEW w \in Nat
  PROVE  TakesExactly(NextBytes(bytes, pos, w), bytes, pos, w)
         /\ TakesExactly(NextNumber(bytes, pos, w), bytes, pos, w)
<1> DEFINE image == NextBytes(bytes, pos, w)
<1>1. Len(bytes) \in Nat /\ pos \in Nat
  OBVIOUS
<1>2. image = IF Len(bytes) - pos < w THEN Err("UnexpectedEnd", pos)
              ELSE Plain(SubSeq(bytes, pos + 1, pos + w), pos + w)
  BY DEF NextBytes
<1>3. Len(bytes) - pos < w <=> ~(pos + w <= Len(bytes))
  BY <1>1
<1>4. NextNumber(bytes, pos, w) =
        IF image.status = "ok" THEN Plain(FromLittleEndian(image.value), image.pos) ELSE image
  BY DEF NextNumber
<1> HIDE DEF image
<1>5. TakesExactly(image, bytes, pos, w)
  BY <1>2, <1>3 DEF TakesExactly, Err, Plain, Ok
<1>6. TakesExactly(NextNumber(bytes, pos, w), bytes, pos, w)
  BY <1>4, <1>5 DEF TakesExactly, Plain, Ok
<1> QED
  BY <1>5, <1>6 DEF image

LEMMA FixedTaken ==
  ASSUME NEW c, Validated(c), NEW ty, TypeIn(c, ty), IsFixedSize(c, ty), LaidOutAsWritten(c.schema, ty),
         NEW bytes \in Seq(Byte), NEW pos \in 0..Len(bytes), NEW read
  PROVE  FixedSize(c, ty) \in Nat
         /\ TakesExactly(DecodeType(c, read, ty, bytes, pos), bytes, pos, FixedSize(c, ty))
<1> DEFINE w == FixedSize(c, ty)
           r == DecodeType(c, read, ty, bytes, pos)
           h == ty.handle
           def == c.schema[h]
<1>1. w \in Nat
  BY WidthIsWidth
<1>2. CASE ty.tag = "integer"
  <2>1. w = ty.bits \div 8
    BY <1>2 DEF FixedSize, WidthOfType, Fixed
  <2>2. r = NextNumber(bytes, pos, ty.bits \div 8)
    BY <1>2 DEF DecodeType, DecodeInteger
  <2> HIDE DEF r, w
  <2> QED
    BY <1>1, <2>1, <2>2, BytesTaken DEF r, w
<1>3. CASE ty.tag = "allocated" /\ def.kind = "primitive"
  <2>1. h \in DOMAIN c.schema
    BY <1>3 DEF TypeIn
  <2>2. c.bit_width[h] = Fixed(def.bits)
    BY <1>3, <2>1 DEF Validated, WidthByRule
  <2>3. w = def.bits \div 8
    BY <1>3, <2>2 DEF FixedSize, WidthOfType, Fixed
  <2>4. r = NextNumber(bytes, pos, def.bits \div 8)
    BY <1>3 DEF DecodeType, DecodePrimitive
  <2> HIDE DEF r, w
  <2> QED
    BY <1>1, <2>3, <2>4, BytesTaken DEF r, w
<1>4. CASE ty.tag = "allocated" /\ def.kind = "packed"
  <2> DEFINE image == NextBytes(bytes, pos, c.bit_width[h].bits \div 8)
             members == DecodeStruct(read, def, image.value, 0)
  <2>1. w = c.bit_width[h].bits \div 8
    BY <1>4 DEF FixedSize, WidthOfType
  <2>2. r = IF image.status # "ok" THEN image
            ELSE IF IsBitfield(c, def) THEN Plain(FromLittleEndian(image.value), image.pos)
            ELSE Ok(members.value, members.read, image.pos)
    BY <1>4 DEF DecodeType, DecodeNamed, DecodePacked
  <2>3. TakesExactly(image, bytes, pos, w)
    <3> HIDE DEF w
    <3> QED
      BY <1>1, <2>1, BytesTaken
  <2> HIDE DEF r, w, image, members
  <2>4. TakesExactly(r, bytes, pos, w)
    BY <2>2, <2>3 DEF TakesExactly, Plain, Ok
  <2> QED
    BY <1>1, <2>4 DEF r, w
<1> QED
  BY <1>2, <1>3, <1>4 DEF LaidOutAsWritten

LEMMA FixedElement ==
  ASSUME NEW c, Validated(c), NEW ty, TypeIn(c, ty), IsFixedSize(c, ty), LaidOutAsWritten(c.schema, ty),
         ~IsNative(ty), NEW bytes \in Seq(Byte), NEW pos \in 0..Len(bytes)
  PROVE  FixedSize(c, ty) \in Nat
         /\ TakesExactly(DecodeElement(Decoder(c)[MaxDepth], ty, bytes, pos), bytes, pos, FixedSize(c, ty))
<1>1. DecodeElement(Decoder(c)[MaxDepth], ty, bytes, pos) = Decoder(c)[MaxDepth][At(ty, bytes, pos)]
  BY DEF DecodeElement, IsNative
<1>2. MaxDepth \in 0..MaxDepth /\ ty \in Type /\ pos \in Nat
  BY MaxDepthAssumption DEF TypeIn
<1>3. Decoder(c)[MaxDepth][At(ty, bytes, pos)] = DecodeType(c, Within(c, MaxDepth), ty, bytes, pos)
  BY <1>2, DecoderAt
<1> QED
  BY <1>1, <1>3, FixedTaken

(***************************************************************************)
(* The elements that were encoded.                                         *)
(***************************************************************************)
ElementSeqs(c, h, v, i) ==
  EncodedOf(PartsOf(c, MemberAt(c, h, v, i)), Len(v[i]), ElementBytes(c, h, v))

(* They are laid out as b says in the bytes of the stream. *)
ElementsAt(c, h, v, i, b) ==
  LaidOut(StreamBytes(c, h, v, i), b, ElementSeqs(c, h, v, i), Len(v[i]))

StreamMember(c, h, v, i) ==
  /\ Fitting(c, h, v) /\ c.schema[h].kind = "struct" /\ i \in 1..Len(c.schema[h].members)
  /\ IsStream(c, c.schema[h].members[i].ty)

ElementOf(c, h, i) == c.schema[c.schema[h].members[i].ty.handle].elem_ty

LEMMA ElementsReadable ==
  ASSUME NEW c, NEW h, NEW v, NEW i, StreamMember(c, h, v, i)
  PROVE  LET q == MemberAt(c, h, v, i)
         IN  /\ Len(v[i]) \in Nat /\ Listed(PartsOf(c, q), Len(v[i]))
             /\ Elems(v[i], PartsOf(c, q), Len(v[i]), ElementOf(c, h, i))
             /\ PartsRead(c, q, ElementBytes(c, h, v), Decoder(c)[MaxDepth])
             /\ ~IsNative(ElementOf(c, h, i))
             /\ NoneEmpty(ElementSeqs(c, h, v, i), Len(v[i]))
<1> DEFINE q == MemberAt(c, h, v, i)
           whole == Whole(h, v)
           n == MaxDepth - 1
           encoded == ElementBytes(c, h, v)
           sizes == Below(Sizes(c, whole), n)
           elem == ElementOf(c, h, i)
<1>1. MemberInverting(c, h, v, i)
  BY MembersInvert DEF StreamMember
<1>2. n \in 0..MaxDepth /\ q.ty = c.schema[h].members[i].ty /\ q.datum = v[i]
      /\ q \in Levels(c, whole)[MaxDepth - n]
      /\ Inverting(c, q, sizes, encoded, Below(Bytes(c, whole), MaxDepth)[q], Within(c, n))
  BY <1>1 DEF MemberInverting
<1>3. IsOne(c, q) /\ DefinitionOf(c, q).kind = "stream" /\ DefinitionOf(c, q).elem_ty = elem
  BY <1>2 DEF StreamMember, IsStream, IsOne, DefinitionOf, IsSequence, ElementOf
<1>4. Ready(c, q) /\ PartsRead(c, q, encoded, Within(c, n)) /\ EmptySizeless(c, q, encoded)
  BY <1>2 DEF Inverting
<1>5. Invertible(c) /\ Encodable(c, whole) /\ Prepared(c, whole) \in Nat /\ FitAll(c, whole)
  BY DEF StreamMember, Fitting
<1>6. TypeIn(c, whole.ty) /\ \A m \in 0..MaxDepth : InverseAt(c, whole, m)
  BY WholeTyped, LevelsInverse DEF StreamMember, Fitting
<1> HIDE DEF q, whole, encoded, sizes, elem
<1>7. Len(v[i]) \in Nat /\ Listed(PartsOf(c, q), Len(v[i])) /\ Elems(v[i], PartsOf(c, q), Len(v[i]), elem)
  BY <1>2, <1>3, <1>4, SequenceParts
<1>8. ~IsNative(elem) /\ ~Sizeless(c, elem)
  BY <1>3, <1>4, <1>5, SequenceInvertible
<1>9. ASSUME NEW e \in Range(PartsOf(c, q))
      PROVE  encoded[e] \in Seq(Byte) /\ ReadsPart(Decoder(c)[MaxDepth], e, encoded[e])
  <2>1. n - 1 \in 0..MaxDepth /\ n # 0 /\ e \in Levels(c, whole)[MaxDepth - (n - 1)]
    <3> HIDE DEF n
    <3> QED
      BY <1>2, <1>5, LevelBelow
  <2>2. MaxDepth \in (n - 1)..MaxDepth
    BY <2>1, MaxDepthAssumption
  <2>3. encoded = Bytes(c, whole)[n - 1]
    BY <2>1 DEF encoded, ElementBytes, Below, whole
  <2>4. InverseAt(c, whole, n - 1)
    BY <1>6, <2>1
  <2> HIDE DEF n
  <2>5. Inverts(c, e, Bytes(c, whole)[n - 1][e], Decoder(c)[MaxDepth])
    BY <2>1, <2>2, <2>4 DEF InverseAt
  <2> QED
    BY <2>3, <2>5 DEF Inverts
<1>10. PartsRead(c, q, encoded, Decoder(c)[MaxDepth])
  BY <1>9 DEF PartsRead
<1>11. NoneEmpty(EncodedOf(PartsOf(c, q), Len(v[i]), encoded), Len(v[i]))
  <2>1. NoneEmpty(EncodedOf(PartsOf(c, q), Len(q.datum), encoded), Len(q.datum))
    BY <1>3, <1>4, <1>8, ElementsNotEmpty
  <2> QED
    BY <1>2, <2>1
<1> QED
  BY <1>7, <1>8, <1>10, <1>11 DEF q, encoded, elem, ElementSeqs

(* Element j, where it begins. *)
ElementRead(c, q, encoded, read, b, j) ==
  LET r == read[At(PartsOf(c, q)[j].ty, EncodeParts(c, encoded, q), b[j - 1])]
  IN  r.status = "ok" /\ r.read = {PartsOf(c, q)[j].datum} /\ r.pos = b[j]

LEMMA EachElementRead ==
  ASSUME NEW c, NEW q, NEW encoded, NEW read, PartsRead(c, q, encoded, read),
         NEW n, Listed(PartsOf(c, q), n), NEW b,
         LaidOut(EncodeParts(c, encoded, q), b, EncodedOf(PartsOf(c, q), n, encoded), n),
         NEW j \in 1..n
  PROVE  ElementRead(c, q, encoded, read, b, j)
<1> PICK r : r = read[At(PartsOf(c, q)[j].ty, EncodeParts(c, encoded, q), b[j - 1])]
  OBVIOUS
<1>1. r.status = "ok" /\ r.read = {PartsOf(c, q)[j].datum} /\ r.pos = b[j]
  BY ElementRecovers
<1> QED
  BY <1>1 DEF ElementRead

(* What is read where element k + 1 begins. *)
NextTaken(c, h, v, i, b, k) ==
  LET r == DecodeElement(Decoder(c)[MaxDepth], ElementOf(c, h, i), StreamBytes(c, h, v, i), b[k])
  IN  k + 1 \in 1..Len(v[i]) /\ r.status = "ok" /\ r.read = {v[i][k + 1]} /\ r.pos = b[k + 1]

LEMMA ElementTaken ==
  ASSUME NEW c, NEW h, NEW v, NEW i, StreamMember(c, h, v, i), NEW b, ElementsAt(c, h, v, i, b),
         NEW k \in 0..Len(v[i]), b[k] < Len(StreamBytes(c, h, v, i))
  PROVE  NextTaken(c, h, v, i, b, k)
<1> PICK bytes, pos : bytes = StreamBytes(c, h, v, i) /\ pos = b[k]
  OBVIOUS
<1> PICK r : r = DecodeElement(Decoder(c)[MaxDepth], ElementOf(c, h, i), bytes, pos)
  OBVIOUS
<1> SUFFICES k + 1 \in 1..Len(v[i]) /\ r.status = "ok" /\ r.read = {v[i][k + 1]} /\ r.pos = b[k + 1]
  BY DEF NextTaken
<1> DEFINE q == MemberAt(c, h, v, i)
           n == Len(v[i])
           encoded == ElementBytes(c, h, v)
           seqs == EncodedOf(PartsOf(c, q), n, encoded)
           elem == ElementOf(c, h, i)
<1>1. n \in Nat /\ Listed(PartsOf(c, q), n) /\ Elems(v[i], PartsOf(c, q), n, elem)
      /\ PartsRead(c, q, encoded, Decoder(c)[MaxDepth]) /\ ~IsNative(elem)
  BY ElementsReadable
<1>2. bytes = EncodeParts(c, encoded, q) /\ LaidOut(bytes, b, seqs, n)
  BY DEF ElementsAt, ElementSeqs, StreamBytes
<1>3. r = Decoder(c)[MaxDepth][At(elem, bytes, pos)]
  BY <1>1 DEF DecodeElement, IsNative
<1> HIDE DEF q, n, encoded, seqs, elem
<1>4. Len(bytes) = b[n] /\ k \in 0..n
  BY <1>2 DEF LaidOut, n
<1>5. k # n
  <2>1. b[n] \in Nat
    BY <1>1, <1>2 DEF LaidOut, Ends
  <2> QED
    BY <1>4, <2>1
<1>6. PICK j \in 1..n : j = k + 1 /\ j - 1 = k
  BY <1>1, <1>4, <1>5
<1>7. PartsOf(c, q)[j].ty = elem /\ PartsOf(c, q)[j].datum = v[i][j]
  BY <1>1, <1>6 DEF Elems
<1>8. r = Decoder(c)[MaxDepth][At(PartsOf(c, q)[j].ty, EncodeParts(c, encoded, q), b[j - 1])]
  BY <1>2, <1>3, <1>6, <1>7
<1>9. r.status = "ok" /\ r.read = {PartsOf(c, q)[j].datum} /\ r.pos = b[j]
  <2> PICK read : read = Decoder(c)[MaxDepth]
    OBVIOUS
  <2>1. PartsRead(c, q, encoded, read)
    BY <1>1
  <2>2. LaidOut(EncodeParts(c, encoded, q), b, EncodedOf(PartsOf(c, q), n, encoded), n)
    BY <1>2 DEF seqs
  <2>3. Listed(PartsOf(c, q), n) /\ j \in 1..n
    BY <1>1
  <2>4. ElementRead(c, q, encoded, read, b, j)
    BY <2>1, <2>2, <2>3, EachElementRead
  <2> QED
    BY <1>8, <2>4 DEF ElementRead
<1> QED
  BY <1>1, <1>6, <1>7, <1>9 DEF n

(* At the end of the bytes all elements have been read. *)
LEMMA AllTaken ==
  ASSUME NEW c, NEW h, NEW v, NEW i, StreamMember(c, h, v, i), NEW b, ElementsAt(c, h, v, i, b),
         NEW k \in 0..Len(v[i]), b[k] = Len(StreamBytes(c, h, v, i))
  PROVE  k = Len(v[i])
<1> DEFINE n == Len(v[i])
           seqs == ElementSeqs(c, h, v, i)
           q == MemberAt(c, h, v, i)
<1>1. n \in Nat /\ NoneEmpty(seqs, n)
  BY ElementsReadable
<1>2. AreBytes(seqs, n)
  BY ElementsReadable, PartsLaidOut DEF ElementSeqs, PartsRead, PartsBytes
<1>3. Ends(b, seqs, n) /\ b[k] = b[n]
  BY DEF ElementsAt, LaidOut
<1> HIDE DEF n, seqs
<1>4. k \in 0..n
  BY DEF n
<1> SUFFICES ASSUME k # n PROVE FALSE
  BY DEF n
<1>5. PICK j \in 1..n : j = k + 1 /\ j - 1 = k
  BY <1>1, <1>4
<1>6. b[j] = b[k] + Len(seqs[j]) /\ Len(seqs[j]) >= 1 /\ Len(seqs[j]) \in Nat
  BY <1>1, <1>2, <1>3, <1>5 DEF Ends, NoneEmpty, AreBytes
<1>7. j \in 0..n /\ n \in 0..n /\ j <= n
  BY <1>1, <1>5
<1>8. b[j] \in Nat /\ b[n] \in Nat /\ b[j] <= b[n]
  BY <1>1, <1>2, <1>3, <1>7, EndsGrow
<1> QED
  BY <1>3, <1>6, <1>8
-----------------------------------------------------------------------------
(***************************************************************************)
(* What the reader of a stream has read so far.                            *)
(***************************************************************************)
Singles(v, k) == [j \in 1..k |-> {v[j]}]

(* Its place is behind the elements that it has returned. *)
ReadSoFar(c, h, v, s, taken) ==
  \E b : /\ ElementsAt(c, h, v, s.member, b)
         /\ Len(taken) \in 0..Len(v[s.member]) /\ s.pos = b[Len(taken)]
         /\ taken = Singles(v[s.member], Len(taken))

MessageRead(c, h, v, s, taken) ==
  /\ StreamMember(c, h, v, s.member) /\ s.elem = ElementOf(c, h, s.member)
  /\ s.bytes = StreamBytes(c, h, v, s.member) /\ ReadSoFar(c, h, v, s, taken)

(* After an Err there are not enough bytes left for another. *)
FixedRead(c, s, taken, err) ==
  /\ s.pos = Len(taken) * FixedSize(c, s.elem)
  /\ err => Len(s.bytes) - s.pos < FixedSize(c, s.elem)

(* The same stream, at another place. *)
SameStream(s, t) == t.elem = s.elem /\ t.bytes = s.bytes /\ t.member = s.member

LEMMA SinglesNext ==
  ASSUME NEW v, NEW k \in Nat
  PROVE  Append(Singles(v, k), {v[k + 1]}) = Singles(v, k + 1) /\ Len(Singles(v, k + 1)) = k + 1
<1> DEFINE x == [j \in 1..(k + 1) |-> {v[j]}]
<1>1. k + 1 \in 1..(k + 1) /\ \A j \in 1..k : j \in 1..(k + 1)
  OBVIOUS
<1>2. x[k + 1] = {v[k + 1]} /\ \A j \in 1..k : x[j] = {v[j]}
  BY <1>1
<1>3. UpTo(x, k + 1) = Singles(v, k + 1)
  BY DEF UpTo, Singles
<1> HIDE DEF x
<1>4. UpTo(x, k) = Singles(v, k)
  BY <1>2 DEF UpTo, Singles
<1>5. Append(Singles(v, k), {v[k + 1]}) = Singles(v, k + 1)
  BY <1>2, <1>3, <1>4, UpToNext
<1>6. Len(Singles(v, k + 1)) = k + 1
  <2>1. k + 1 \in Nat /\ Singles(v, k + 1) = [j \in 1..(k + 1) |-> Singles(v, k + 1)[j]]
    BY DEF Singles
  <2> QED
    BY <2>1, Tabulated
<1> QED
  BY <1>5, <1>6

LEMMA MessageTaken ==
  ASSUME NEW c, NEW h, NEW v, NEW s, NEW taken, MessageRead(c, h, v, s, taken), s.pos < Len(s.bytes),
         NEW t, SameStream(s, t), NEW r, r = DecodeElement(Decoder(c)[MaxDepth], s.elem, s.bytes, s.pos),
         t.pos = r.pos
  PROVE  r.status = "ok" /\ MessageRead(c, h, v, t, Append(taken, r.read))
<1> DEFINE i == s.member
           k == Len(taken)
           more == Append(taken, r.read)
<1>1. StreamMember(c, h, v, i) /\ s.elem = ElementOf(c, h, i) /\ s.bytes = StreamBytes(c, h, v, i)
      /\ ReadSoFar(c, h, v, s, taken)
  BY DEF MessageRead
<1>2. PICK b : ElementsAt(c, h, v, i, b) /\ k \in 0..Len(v[i]) /\ s.pos = b[k] /\ taken = Singles(v[i], k)
  BY <1>1 DEF ReadSoFar
<1>3. Len(v[i]) \in Nat
  BY <1>1, ElementsReadable
<1> HIDE DEF i, k, more
<1>4. k + 1 \in 1..Len(v[i]) /\ r.status = "ok" /\ r.read = {v[i][k + 1]} /\ r.pos = b[k + 1]
  <2>1. b[k] < Len(StreamBytes(c, h, v, i))
    BY <1>1, <1>2
  <2>2. NextTaken(c, h, v, i, b, k)
    BY <1>1, <1>2, <2>1, ElementTaken
  <2> QED
    BY <1>1, <1>2, <2>2 DEF NextTaken
<1>5. k \in Nat /\ k + 1 \in 0..Len(v[i])
  BY <1>2, <1>3, <1>4
<1>6. more = Singles(v[i], k + 1) /\ Len(more) = k + 1
  BY <1>2, <1>4, <1>5, SinglesNext DEF more
<1>7. t.member = i /\ t.pos = b[k + 1] /\ t.elem = s.elem /\ t.bytes = s.bytes
  BY <1>4 DEF SameStream, i
<1>8. ReadSoFar(c, h, v, t, more)
  <2>1. ElementsAt(c, h, v, t.member, b) /\ Len(more) \in 0..Len(v[t.member]) /\ t.pos = b[Len(more)]
        /\ more = Singles(v[t.member], Len(more))
    BY <1>2, <1>5, <1>6, <1>7
  <2> QED
    BY <2>1 DEF ReadSoFar
<1> QED
  BY <1>1, <1>4, <1>7, <1>8 DEF MessageRead, more

LEMMA FixedTakenNext ==
  ASSUME NEW c, Validated(c), NEW s, TypeIn(c, s.elem), IsFixedSize(c, s.elem),
         LaidOutAsWritten(c.schema, s.elem), ~IsNative(s.elem),
         s.bytes \in Seq(Byte), s.pos \in 0..Len(s.bytes),
         NEW taken, IsList(taken), NEW err, FixedRead(c, s, taken, err),
         NEW t, SameStream(s, t), NEW r, r = DecodeElement(Decoder(c)[MaxDepth], s.elem, s.bytes, s.pos),
         t.pos = r.pos
  PROVE  /\ r.status = "ok" => \A x : FixedRead(c, t, Append(taken, x), err)
         /\ r.status # "ok" => FixedRead(c, t, taken, TRUE)
<1> PICK bytes, pos, elem : bytes = s.bytes /\ pos = s.pos /\ elem = s.elem
  OBVIOUS
<1>1. FixedSize(c, elem) \in Nat /\ TakesExactly(r, bytes, pos, FixedSize(c, elem))
  BY FixedElement
<1> PICK w \in Nat : w = FixedSize(c, elem)
  BY <1>1
<1> PICK l \in Nat : l = Len(bytes)
  OBVIOUS
<1> PICK k \in Nat : k = Len(taken)
  BY DEF IsList
<1>2. pos \in 0..l /\ pos = k * w /\ (err => l - pos < w)
  BY DEF FixedRead
<1>3. /\ pos + w <= l => r.status = "ok" /\ r.pos = pos + w
      /\ ~(pos + w <= l) => r.status # "ok" /\ r.pos = pos
  BY <1>1 DEF TakesExactly
<1>4. t.elem = elem /\ t.bytes = bytes /\ t.pos = r.pos
  BY DEF SameStream
<1>5. ASSUME r.status = "ok", NEW x PROVE FixedRead(c, t, Append(taken, x), err)
  <2>1. pos + w <= l /\ t.pos = pos + w
    BY <1>3, <1>4, <1>5
  <2>2. ~err
    BY <1>2, <2>1
  <2>3. Len(Append(taken, x)) = k + 1
    BY DEF IsList
  <2>4. t.pos = (k + 1) * w
    <3>1. (k + 1) * w = k * w + w
      OBVIOUS
    <3> QED
      BY <1>2, <2>1, <3>1
  <2> QED
    BY <1>4, <2>2, <2>3, <2>4 DEF FixedRead
<1>6. ASSUME r.status # "ok" PROVE FixedRead(c, t, taken, TRUE)
  <2>1. ~(pos + w <= l) /\ t.pos = pos
    BY <1>3, <1>4, <1>6
  <2>2. l - pos < w
    BY <1>2, <2>1
  <2> QED
    BY <1>2, <1>4, <2>1, <2>2 DEF FixedRead
<1> QED
  BY <1>5, <1>6
-----------------------------------------------------------------------------
Opened ==
  /\ TypeIn(ctx, stream.elem)
  /\ phase = "finished" => stream.pos = Len(stream.bytes)
  /\ ~NativeStreams(ctx) =>
       /\ ~IsNative(stream.elem)
       /\ IsFixedSize(ctx, stream.elem) /\ LaidOutAsWritten(ctx.schema, stream.elem) =>
            FixedRead(ctx, stream, items, failed)
  /\ Arrived /\ Regular(ctx) /\ LengthsFit => MessageRead(ctx, root, value, stream, items) /\ ~failed

Taking ==
  /\ Keeping
  /\ phase \in {"sending", "decoding", "decoded"} => items = <<>> /\ failed = FALSE
  /\ phase \in {"reading", "stopped", "finished"} => Opened

LEMMA TakingExact == Taking => ItemsExact
<1> SUFFICES ASSUME Taking, phase \in {"reading", "stopped", "finished"}, ~NativeStreams(ctx),
                    ~Sizeless(ctx, stream.elem)
             PROVE  /\ Arrived /\ Regular(ctx) /\ LengthsFit =>
                         /\ ~failed
                         /\ Len(items) <= Len(value[stream.member])
                         /\ \A i \in DOMAIN items : items[i] = {value[stream.member][i]}
                         /\ phase = "finished" => Len(items) = Len(value[stream.member])
                    /\ IsFixedSize(ctx, stream.elem) /\ LaidOutAsWritten(ctx.schema, stream.elem) =>
                         LET whole == Len(stream.bytes) \div FixedSize(ctx, stream.elem)
                         IN  /\ Len(items) <= whole
                             /\ failed \/ phase = "finished" => Len(items) = whole
                             /\ phase = "finished" => Len(stream.bytes) % FixedSize(ctx, stream.elem) = 0
  BY DEF ItemsExact
<1>1. Opened /\ stream.bytes \in Seq(Byte) /\ stream.pos \in 0..Len(stream.bytes) /\ IsList(items)
      /\ Validated(ctx)
  BY DEF Taking, Keeping, ReaderTyped, SchemaKnown, Decodable
<1>2. ASSUME Arrived, Regular(ctx), LengthsFit
      PROVE  /\ ~failed
             /\ Len(items) <= Len(value[stream.member])
             /\ \A i \in DOMAIN items : items[i] = {value[stream.member][i]}
             /\ phase = "finished" => Len(items) = Len(value[stream.member])
  <2> DEFINE m == stream.member
             k == Len(items)
  <2>1. MessageRead(ctx, root, value, stream, items) /\ ~failed
    BY <1>1, <1>2 DEF Opened
  <2>2. StreamMember(ctx, root, value, m) /\ stream.bytes = StreamBytes(ctx, root, value, m)
    BY <2>1 DEF MessageRead
  <2>3. PICK b : ElementsAt(ctx, root, value, m, b) /\ k \in 0..Len(value[m]) /\ stream.pos = b[k]
                 /\ items = Singles(value[m], k)
    BY <2>1 DEF MessageRead, ReadSoFar
  <2>4. Len(value[m]) \in Nat
    BY <2>2, ElementsReadable
  <2>5. DOMAIN items = 1..k /\ \A i \in 1..k : items[i] = {value[m][i]}
    BY <2>3 DEF Singles
  <2> HIDE DEF m, k
  <2>6. k <= Len(value[m])
    BY <2>3, <2>4
  <2>7. phase = "finished" => k = Len(value[m])
    BY <1>1, <2>2, <2>3, AllTaken DEF Opened
  <2> QED
    BY <2>1, <2>5, <2>6, <2>7 DEF m, k
<1>3. ASSUME IsFixedSize(ctx, stream.elem), LaidOutAsWritten(ctx.schema, stream.elem)
      PROVE  LET whole == Len(stream.bytes) \div FixedSize(ctx, stream.elem)
             IN  /\ Len(items) <= whole
                 /\ failed \/ phase = "finished" => Len(items) = whole
                 /\ phase = "finished" => Len(stream.bytes) % FixedSize(ctx, stream.elem) = 0
  <2>1. FixedRead(ctx, stream, items, failed) /\ (phase = "finished" => stream.pos = Len(stream.bytes))
    BY <1>1, <1>3 DEF Opened
  <2>2. FixedSize(ctx, stream.elem) \in Nat
    BY <1>1, WidthIsWidth, <1>3 DEF Opened
  <2>3. FixedSize(ctx, stream.elem) # 0
    BY <1>3, FixedTakesNone
  <2> PICK w \in Nat \ {0} : w = FixedSize(ctx, stream.elem)
    BY <2>2, <2>3
  <2> PICK l \in Nat, k \in Nat : l = Len(stream.bytes) /\ k = Len(items)
    BY <1>1 DEF IsList
  <2>4. stream.pos = k * w /\ k * w <= l /\ (failed => l - k * w < w)
        /\ (phase = "finished" => k * w = l)
    BY <1>1, <2>1 DEF FixedRead
  <2>5. /\ k <= l \div w
        /\ l - k * w < w => l \div w = k
        /\ l = k * w => l % w = 0
    BY <2>4, DivCounts
  <2>6. l = k * w => l - k * w < w
    OBVIOUS
  <2> QED
    BY <2>4, <2>5, <2>6
<1> QED
  BY <1>2, <1>3

(* A stream that has just been opened. *)
LEMMA OpenedAtStart ==
  ASSUME NEW c, NEW h, NEW v, NEW i, StreamMember(c, h, v, i), NEW s, s.member = i, s.pos = 0,
         s.elem = ElementOf(c, h, i), s.bytes = StreamBytes(c, h, v, i)
  PROVE  MessageRead(c, h, v, s, <<>>)
<1> DEFINE q == MemberAt(c, h, v, i)
           n == Len(v[i])
<1>1. n \in Nat /\ Listed(PartsOf(c, q), n) /\ PartsRead(c, q, ElementBytes(c, h, v), Decoder(c)[MaxDepth])
  BY ElementsReadable
<1>2. PartsBytes(c, q, ElementBytes(c, h, v))
  BY <1>1 DEF PartsRead, PartsBytes
<1> HIDE DEF q, n
<1>3. PICK b : LaidOut(EncodeParts(c, ElementBytes(c, h, v), q), b,
                       EncodedOf(PartsOf(c, q), n, ElementBytes(c, h, v)), n)
  BY <1>1, <1>2, PartsLaidOut
<1>4. ElementsAt(c, h, v, i, b)
  BY <1>3 DEF ElementsAt, StreamBytes, ElementSeqs, q, n
<1>5. b[0] = 0
  BY <1>3 DEF LaidOut, Ends
<1>6. Len(<<>>) = 0 /\ <<>> = Singles(v[i], 0) /\ 0 \in 0..Len(v[i])
  BY <1>1 DEF Singles, n
<1>7. ReadSoFar(c, h, v, s, <<>>)
  BY <1>4, <1>5, <1>6 DEF ReadSoFar
<1> QED
  BY <1>7 DEF MessageRead

LEMMA MessageFitting ==
  ASSUME Receiving, origin = "message", sending = "sent", Regular(ctx), LengthsFit
  PROVE  Fitting(ctx, root, value) /\ buf = Encoded(ctx, Whole(root, value))
<1>1. Invertible(ctx)
  BY DEF Receiving, Invertible, Valid
<1>2. /\ Encodable(ctx, Whole(root, value)) /\ Prepared(ctx, Whole(root, value)) \in Nat
      /\ buf = Encoded(ctx, Whole(root, value))
  BY DEF Receiving, Sending
<1> QED
  BY <1>1, <1>2, LengthsFitAll DEF Fitting
-----------------------------------------------------------------------------
LEMMA TakingStart == Init => Taking
<1> SUFFICES ASSUME Init PROVE Taking
  OBVIOUS
<1>1. Keeping
  BY KeepingStart
<1>2. items = <<>> /\ failed = FALSE /\ phase \in {"sending", "decoding"}
  BY DEF Init, InitReader, InitSent, InitInput
<1> QED
  BY <1>1, <1>2 DEF Taking

LEMMA OpenTakes ==
  ASSUME Taking, Open, Keeping'
  PROVE  Taking'
<1>1. UNCHANGED <<ctx, root, value, buf, sending, origin, received, decoded, items, failed>>
      /\ phase = "decoded" /\ phase' = "reading" /\ ctx.schema[root].kind = "struct"
  BY DEF Open, sender
<1>2. PICK i \in DOMAIN ctx.schema[root].members :
        LET ty == ctx.schema[root].members[i].ty
        IN  /\ ty.tag = "allocated" /\ ctx.schema[ty.handle].kind = "stream"
            /\ stream' = [elem |-> ctx.schema[ty.handle].elem_ty,
                          bytes |-> decoded.value[i], pos |-> 0, member |-> i]
  BY DEF Open
<1> DEFINE ty == ctx.schema[root].members[i].ty
<1>3. IsStream(ctx, ty) /\ stream'.elem = ElementOf(ctx, root, i)
      /\ stream'.bytes = decoded.value[i] /\ stream'.pos = 0 /\ stream'.member = i
  BY <1>2 DEF IsStream, ElementOf
<1>4. Validated(ctx) /\ root \in DOMAIN ctx.schema
  BY DEF Taking, Keeping, SchemaKnown, Decodable
<1>5. i \in 1..Len(ctx.schema[root].members) /\ TypeIn(ctx, ty)
  BY <1>1, <1>4, MembersIn
<1>6. TypeIn(ctx, stream'.elem)
  BY <1>1 DEF Keeping, ReaderTyped, IsElement
<1>7. items = <<>> /\ failed = FALSE
  BY <1>1 DEF Taking
<1>8. ~NativeStreams(ctx) => ~IsNative(stream'.elem)
  BY <1>3, <1>5 DEF NativeStreams, IsNative, ElementOf, IsStream, TypeIn
<1> HIDE DEF ty
<1>9. IsFixedSize(ctx, stream'.elem) => FixedRead(ctx, stream', <<>>, FALSE)
  <2> SUFFICES ASSUME IsFixedSize(ctx, stream'.elem) PROVE FixedRead(ctx, stream', <<>>, FALSE)
    OBVIOUS
  <2>1. FixedSize(ctx, stream'.elem) \in Nat
    BY <1>4, <1>6, WidthIsWidth
  <2> PICK w \in Nat : w = FixedSize(ctx, stream'.elem)
    BY <2>1
  <2>2. stream'.pos = Len(<<>>) * w
    BY <1>3
  <2> QED
    BY <2>2 DEF FixedRead
<1>10. ASSUME Arrived, Regular(ctx), LengthsFit
       PROVE  MessageRead(ctx, root, value, stream', <<>>)
  <2>1. Receiving /\ origin = "message" /\ decoded.status # "unread" /\ Len(received) >= Len(buf)
    BY <1>10 DEF Arrived, Taking, Keeping
  <2>2. sending = "sent" /\ Sent /\ decoded = Decoded(ctx, root, received)
    BY <1>10, <2>1 DEF Receiving, Exchanged
  <2>3. Fitting(ctx, root, value) /\ buf = Encoded(ctx, Whole(root, value))
    BY <1>10, <2>1, <2>2, MessageFitting
  <2>4. StreamMember(ctx, root, value, i)
    BY <1>1, <1>3, <1>5, <2>3 DEF StreamMember, ty
  <2>5. buf \in Seq(Byte) /\ received \in Seq(Byte)
    BY DEF Taking, Keeping, SenderTyped, ReceiverTyped
  <2>6. Input(received, 0, buf) /\ Complete(received, 0, buf)
    <3>1. Input(received, 0, buf)
      BY <2>2, <2>5, SentIsInput
    <3> QED
      BY <2>1, <2>5, <3>1 DEF Complete
  <2>7. Decoded(ctx, root, received).value[i] = StreamBytes(ctx, root, value, i)
    BY <1>1, <1>3, <1>5, <2>3, <2>6, StreamOpened DEF ty
  <2> QED
    BY <1>3, <2>2, <2>4, <2>7, OpenedAtStart
<1>11. Opened'
  <2>1. Arrived' <=> Arrived
    BY <1>1 DEF Arrived
  <2>2. (Regular(ctx)' <=> Regular(ctx)) /\ (LengthsFit' <=> LengthsFit)
    BY <1>1, SentUnchanged
  <2>3. ctx' = ctx /\ root' = root /\ value' = value /\ items' = <<>> /\ failed' = FALSE /\ phase' = "reading"
    BY <1>1, <1>7
  <2> QED
    BY <1>6, <1>8, <1>9, <1>10, <2>1, <2>2, <2>3 DEF Opened
<1> QED
  BY <1>1, <1>11 DEF Taking

(* Nothing that a reader depends on changes before a stream is opened. *)
LEMMA BeforeOpenTakes ==
  ASSUME Taking, SendMessage \/ Arrive \/ CutOff \/ Decode, Keeping'
  PROVE  Taking'
<1>1. UNCHANGED <<stream, items, failed>>
  BY DEF SendMessage, Arrive, CutOff, Decode, reader
<1>2. CASE Arrive \/ CutOff \/ Decode
  <2>1. phase \in {"sending", "decoding"} /\ items = <<>> /\ failed = FALSE
    BY <1>2 DEF Arrive, CutOff, Decode, Taking
  <2>2. phase' \notin {"reading", "stopped", "finished"}
    <3>1. CASE Arrive \/ CutOff
      BY <3>1 DEF Arrive, CutOff
    <3>2. CASE Decode
      <4>1. phase' \in Outcomes(decoded'.status) /\ decoded'.status \in {"unread"} \cup Statuses
        BY <3>2 DEF Decode, Keeping, ReceiverTyped
      <4> QED
        BY <4>1 DEF Outcomes, Statuses, Errors
    <3> QED
      BY <1>2, <3>1, <3>2
  <2> QED
    BY <1>1, <2>1, <2>2 DEF Taking
<1>3. CASE SendMessage
  <2>1. UNCHANGED <<ctx, root, value, origin, received, decoded, phase>> /\ sending \in {"preparing", "encoding"}
    BY <1>3 DEF SendMessage, Send, Prepare, Encode
  <2>2. (Regular(ctx)' <=> Regular(ctx)) /\ (LengthsFit' <=> LengthsFit)
    BY <2>1, SentUnchanged
  <2>3. Regular(ctx) /\ LengthsFit => phase = "sending"
    BY <2>1 DEF Taking, Keeping, Receiving, Exchanged
  <2>4. phase \in {"reading", "stopped", "finished"} => Opened'
    BY <1>1, <2>1, <2>2, <2>3 DEF Taking, Opened
  <2> QED
    BY <1>1, <2>1, <2>4 DEF Taking
<1> QED
  BY <1>2, <1>3
-----------------------------------------------------------------------------
(* An element of a stream: one that was encoded, if it was. *)
LEMMA NextTakes ==
  ASSUME Taking, AtItem, MovedTo(NextElement), UNCHANGED <<ctx, root, value>>
  PROVE  /\ Opened /\ TypeIn(ctx, stream'.elem) /\ stream'.elem = stream.elem
         /\ /\ ~NativeStreams(ctx) /\ IsFixedSize(ctx, stream.elem)
            /\ LaidOutAsWritten(ctx.schema, stream.elem)
            => /\ NextElement.status = "ok" =>
                    FixedRead(ctx, stream', Append(items, NextElement.read), failed)
               /\ NextElement.status # "ok" => FixedRead(ctx, stream', items, TRUE)
         /\ Arrived /\ Regular(ctx) /\ LengthsFit =>
              /\ NextElement.status = "ok"
              /\ MessageRead(ctx, root, value, stream', Append(items, NextElement.read))
<1>1. phase = "reading" /\ stream.pos < Len(stream.bytes) /\ Opened
  BY DEF AtItem, Taking
<1>2. stream.bytes \in Seq(Byte) /\ stream.pos \in 0..Len(stream.bytes) /\ IsList(items) /\ Validated(ctx)
  BY DEF Taking, Keeping, ReaderTyped, SchemaKnown, Decodable
<1> PICK r : r = NextElement
  OBVIOUS
<1>3. r = DecodeElement(Decoder(ctx)[MaxDepth], stream.elem, stream.bytes, stream.pos)
  BY DEF NextElement
<1>4. stream' = [stream EXCEPT !.pos = r.pos]
  BY DEF MovedTo
<1> PICK t : t = stream'
  OBVIOUS
<1>5. SameStream(stream, t)
  BY <1>4 DEF SameStream
<1>6. t.pos = r.pos
  BY <1>1, <1>2, <1>4 DEF MovedTo
<1>7. ASSUME ~NativeStreams(ctx), IsFixedSize(ctx, stream.elem), LaidOutAsWritten(ctx.schema, stream.elem)
      PROVE  /\ r.status = "ok" => \A x : FixedRead(ctx, t, Append(items, x), failed)
             /\ r.status # "ok" => FixedRead(ctx, t, items, TRUE)
  <2>1. TypeIn(ctx, stream.elem) /\ ~IsNative(stream.elem) /\ FixedRead(ctx, stream, items, failed)
    BY <1>1, <1>7 DEF Opened
  <2> QED
    BY <1>2, <1>3, <1>5, <1>6, <1>7, <2>1, FixedTakenNext
<1>8. ASSUME Arrived, Regular(ctx), LengthsFit
      PROVE  r.status = "ok" /\ MessageRead(ctx, root, value, t, Append(items, r.read))
  <2>1. MessageRead(ctx, root, value, stream, items)
    BY <1>1, <1>8 DEF Opened
  <2> QED
    BY <1>1, <1>3, <1>5, <1>6, <2>1, MessageTaken
<1>9. t.elem = stream.elem /\ TypeIn(ctx, t.elem)
  BY <1>1, <1>5 DEF SameStream, Opened
<1> QED
  BY <1>1, <1>7, <1>8, <1>9

LEMMA ReadTakes ==
  ASSUME Taking, ReadNext, Keeping'
  PROVE  Taking'
<1>1. UNCHANGED <<ctx, root, value, buf, origin, received, decoded>> /\ phase = "reading" /\ Opened
  BY DEF ReadNext, TakeItem, TakeErr, EndOfStream, AtItem, sender, Taking
<1>2. (Regular(ctx)' <=> Regular(ctx)) /\ (LengthsFit' <=> LengthsFit) /\ (Arrived' <=> Arrived)
  BY <1>1, SentUnchanged DEF Arrived
<1>3. ctx' = ctx /\ root' = root /\ value' = value
  BY <1>1
<1>4. CASE TakeItem
  <2>1. AtItem /\ MovedTo(NextElement) /\ NextElement.status = "ok"
        /\ items' = Append(items, NextElement.read) /\ failed' = failed /\ phase' = "reading"
    BY <1>1, <1>4 DEF TakeItem
  <2>2. Opened'
    BY <1>2, <1>3, <2>1, NextTakes DEF Opened
  <2> QED
    BY <2>1, <2>2 DEF Taking
<1>5. CASE TakeErr
  <2>1. AtItem /\ MovedTo(NextElement) /\ NextElement.status # "ok"
        /\ items' = items /\ failed' = TRUE
        /\ phase' \in {IF outcome \notin Errors THEN outcome
                        ELSE IF patient THEN "reading" ELSE "stopped" : outcome \in Outcomes(NextElement.status)}
    BY <1>5 DEF TakeErr
  <2>2. phase' \in {"reading", "stopped"} \/ phase' \notin {"sending", "decoding", "decoded", "finished"}
    <3>1. \A outcome \in Outcomes(NextElement.status) :
            outcome \notin {"sending", "decoding", "finished"} /\ (outcome = "decoded" => NextElement.status = "ok")
      BY DEF Outcomes, Errors
    <3> QED
      BY <2>1, <3>1
  <2>3. phase' \in {"reading", "stopped"} => Opened'
    BY <1>2, <1>3, <2>1, NextTakes DEF Opened
  <2> QED
    BY <2>1, <2>2, <2>3 DEF Taking
<1>6. CASE EndOfStream
  <2>1. UNCHANGED <<stream, items, failed>> /\ phase' = "finished" /\ stream.pos = Len(stream.bytes)
    BY <1>6 DEF EndOfStream, reader
  <2>2. Opened'
    BY <1>1, <1>2, <1>3, <2>1 DEF Opened
  <2> QED
    BY <2>1, <2>2 DEF Taking
<1> QED
  BY <1>4, <1>5, <1>6 DEF ReadNext

LEMMA TakingStep == Taking /\ [Next]_vars => Taking'
<1> SUFFICES ASSUME Taking, [Next]_vars PROVE Taking'
  OBVIOUS
<1>1. Keeping'
  BY KeepingStep DEF Taking
<1>2. CASE UNCHANGED vars
  <2>1. UNCHANGED <<ctx, root, value, buf, origin, received, decoded, stream, items, failed, phase>>
    BY <1>2 DEF vars, sender, reader
  <2>2. (Regular(ctx)' <=> Regular(ctx)) /\ (LengthsFit' <=> LengthsFit) /\ (Arrived' <=> Arrived)
    BY <2>1, SentUnchanged DEF Arrived
  <2> QED
    BY <1>1, <2>1, <2>2 DEF Taking, Opened
<1> QED
  BY <1>1, <1>2, BeforeOpenTakes, OpenTakes, ReadTakes DEF Next

(***************************************************************************)
(* Stream::next returns the elements that were encoded, one by one and in  *)
(* order, and None after the last.  Of bytes of any origin it makes as     *)
(* many elements of a fixed size as there are whole ones, none after an    *)
(* Err, and ends only if nothing is left over.                             *)
(***************************************************************************)
THEOREM ItemsAlwaysExact == Spec => []ItemsExact
<1> QED
  BY TakingStart, TakingStep, TakingExact, PTL DEF Spec
=============================================================================
