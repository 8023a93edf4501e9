--------------------------- MODULE SchemaTheorems ---------------------------
(***************************************************************************)
(* Facts about schemas that the proofs about every phase need: what there  *)
(* is in a definition, and what widths add up to.                          *)
(***************************************************************************)
EXTENDS SchemaRules, DataTheorems

(* Every definition has one of eight kinds, which tells what it is made of. *)
LEMMA KindOfDefinition ==
  ASSUME NEW def \in Definition
  PROVE  /\ def.kind \in {"primitive", "extern", "vector", "stream", "packed", "struct",
                          "enum", "dict"}
         /\ def.kind = "primitive" => def.bits \in U16
         /\ def.kind \in {"vector", "stream"} => def.elem_ty \in Type
         /\ def.kind \in {"packed", "struct"} => def.members \in Seq(Member)
         /\ def.kind \in {"enum", "dict"} =>
              def.members \in Seq(IndexedMember) /\ def.index_ty \in 1..8
<1>1. CASE def \in Primitive
  BY <1>1 DEF Primitive
<1>2. CASE def \in Extern
  BY <1>2 DEF Extern
<1>3. CASE def \in Sequence
  BY <1>3 DEF Sequence
<1>4. CASE def \in StructLike
  BY <1>4 DEF StructLike
<1>5. CASE def \in IndexedStructLike
  BY <1>5 DEF IndexedStructLike, IndexType
<1> QED
  BY <1>1, <1>2, <1>3, <1>4, <1>5 DEF Definition

(* The type of a member is a type. *)
LEMMA TypeOfMember ==
  ASSUME NEW members, members \in Seq(Member) \/ members \in Seq(IndexedMember),
         NEW i \in DOMAIN members
  PROVE  members[i].ty \in Type
<1>1. CASE members \in Seq(Member)
  <2>1. members[i] \in Member
    BY <1>1
  <2> QED
    BY <2>1 DEF Member
<1>2. CASE members \in Seq(IndexedMember)
  <2>1. members[i] \in IndexedMember
    BY <1>2
  <2> QED
    BY <2>1 DEF IndexedMember
<1> QED
  BY <1>1, <1>2

(* The types a definition is built from are types. *)
LEMMA TypesOfDefinition ==
  ASSUME NEW def \in Definition
  PROVE  /\ TypesOf(def) \in Seq(Type)
         /\ IsSequence(def) => Len(TypesOf(def)) = 1
<1>1. CASE def.kind \in {"vector", "stream"}
  BY <1>1, KindOfDefinition DEF TypesOf, IsSequence
<1>2. CASE def.kind \in {"primitive", "extern"}
  BY <1>2 DEF TypesOf, IsSequence
<1>3. CASE def.kind \in {"packed", "struct", "enum", "dict"}
  <2>1. PICK M : def.members \in Seq(M)
    BY <1>3, KindOfDefinition
  <2>2. \A i \in DOMAIN def.members : def.members[i].ty \in Type
    BY <1>3, KindOfDefinition, TypeOfMember
  <2> QED
    BY <1>3, <2>1, <2>2 DEF TypesOf, IsSequence
<1> QED
  BY <1>1, <1>2, <1>3, KindOfDefinition

(* A type has one of three tags, which tells what it refers to. *)
LEMMA TagOfType ==
  ASSUME NEW type \in Type
  PROVE  /\ type.tag \in {"integer", "varint", "allocated"}
         /\ type.tag = "integer" => type.bits \in U16
         /\ type.tag = "allocated" => type.handle \in Nat \ {0}
<1>1. CASE type \in IntegerType
  BY <1>1 DEF IntegerType
<1>2. CASE type \in VarintType
  BY <1>2 DEF VarintType
<1>3. CASE type \in AllocatedType
  BY <1>3 DEF AllocatedType, Handle
<1> QED
  BY <1>1, <1>2, <1>3 DEF Type
-----------------------------------------------------------------------------
(* A count of bits is a natural number. *)
LEMMA U16IsNat == U16 \subseteq Nat
<1>1. MaxU16 \in Nat
  BY DEF MaxU16
<1> QED
  BY <1>1 DEF U16
-----------------------------------------------------------------------------
(* A width that is not variable has a number of bits. *)
LEMMA FixedWidth ==
  ASSUME NEW w \in BitWidth, w # Variable
  PROVE  w.bits \in Nat /\ w = Fixed(w.bits)
BY DEF BitWidth, Fixed

LEMMA FixedIsWidth ==
  ASSUME NEW n \in Nat
  PROVE  Fixed(n) \in BitWidth /\ Fixed(n) # Variable
BY DEF BitWidth, Fixed, Variable

LEMMA VariableIsWidth == Variable \in BitWidth
BY DEF BitWidth

FixedWidths == BitWidth \ {Variable}

(* A total is reached by adding one width after the other. *)
Sums(f, n, b) ==
  f \in [0..n -> Nat] /\ f[0] = 0 /\ \A i \in 1..n : f[i] = f[i - 1] + b[i].bits

LEMMA TotalIsSum ==
  ASSUME NEW n \in Nat, NEW b \in [1..n -> FixedWidths]
  PROVE  \E f : Sums(f, n, b) /\ TotalBits(b) = f[n]
<1> DEFINE D(f) == [s \in SUBSET DOMAIN b |-> IF s = {} THEN 0 ELSE f[s \ {Max(s)}] + b[Max(s)].bits]
           F == CHOOSE f : f = D(f)
           a == [i \in 1..n |-> b[i].bits]
<1>1. \A i \in 1..n : b[i].bits \in Nat
  BY FixedWidth DEF FixedWidths
<1>2. a \in [1..n -> Nat] /\ \A i \in 1..n : a[i] = b[i].bits
  BY <1>1
<1> HIDE DEF a
<1>3. PICK g \in [SUBSET (1..n) -> Nat] : FoldsSum(g, n, a)
  BY <1>2, SumFoldExists
<1>4. DOMAIN b = 1..n
  OBVIOUS
<1>5. \A s \in SUBSET (1..n) : s # {} => a[Max(s)] = b[Max(s)].bits
  BY <1>2, MaxOfPrefix
<1>6. g = D(g)
  <2>1. \A s \in SUBSET (1..n) : g[s] = IF s = {} THEN 0 ELSE g[s \ {Max(s)}] + b[Max(s)].bits
    BY <1>3, <1>5 DEF FoldsSum
  <2> QED
    BY <1>3, <1>4, <2>1
<1>7. F = D(F)
  <2> HIDE DEF D
  <2> QED
    BY <1>6
<1>8. TotalBits(b) = F[1..n]
  BY <1>4 DEF TotalBits, FoldLeft, MapThenFoldSet
<1> HIDE DEF F
<1>9. \A s \in SUBSET (1..n) : F[s] = IF s = {} THEN 0 ELSE F[s \ {Max(s)}] + b[Max(s)].bits
  BY <1>4, <1>7
<1>10. FoldsSum(F, n, a)
  BY <1>5, <1>9 DEF FoldsSum
<1>11. PICK h : SumsTo(h, n, a) /\ F[1..n] = h[n]
  BY <1>2, <1>10, FoldedSum
<1>12. Sums(h, n, b)
  BY <1>2, <1>11 DEF Sums, SumsTo
<1> QED
  BY <1>8, <1>11, <1>12

(* In one way only. *)
LEMMA SumIsUnique ==
  ASSUME NEW n \in Nat, NEW b, NEW f, NEW g, Sums(f, n, b), Sums(g, n, b)
  PROVE  f[n] = g[n]
<1> DEFINE K == {k \in Nat : k <= n => f[k] = g[k]}
<1>1. 0 \in K
  BY DEF Sums
<1>2. ASSUME NEW k \in Nat, k \in K PROVE k + 1 \in K
  <2>1. SUFFICES ASSUME k + 1 <= n PROVE f[k + 1] = g[k + 1]
    OBVIOUS
  <2>2. k + 1 \in 1..n /\ (k + 1) - 1 = k
    BY <2>1
  <2> QED
    BY <1>2, <2>2 DEF Sums
<1>3. Nat \subseteq K
  <2> HIDE DEF K
  <2> QED
    BY <1>1, <1>2, SetInduction
<1> QED
  BY <1>3

(* The total of no widths, and of widths with one more. *)
LEMMA TotalOfNone ==
  ASSUME NEW b \in [1..0 -> FixedWidths]
  PROVE  TotalBits(b) = 0
<1>1. PICK f : Sums(f, 0, b) /\ TotalBits(b) = f[0]
  BY TotalIsSum
<1> QED
  BY <1>1 DEF Sums

LEMMA TotalGrows ==
  ASSUME NEW n \in Nat, NEW b \in [1..(n + 1) -> FixedWidths],
         NEW c \in [1..n -> FixedWidths], \A k \in 1..n : c[k] = b[k]
  PROVE  TotalBits(c) \in Nat /\ TotalBits(b) = TotalBits(c) + b[n + 1].bits
<1>1. PICK f : Sums(f, n + 1, b) /\ TotalBits(b) = f[n + 1]
  BY TotalIsSum
<1>2. PICK g : Sums(g, n, c) /\ TotalBits(c) = g[n]
  BY TotalIsSum
<1> DEFINE h == [i \in 0..n |-> f[i]]
<1>3. Sums(h, n, c)
  BY <1>1 DEF Sums
<1>4. h[n] = g[n]
  BY <1>2, <1>3, SumIsUnique
<1>5. f[n + 1] = f[n] + b[n + 1].bits
  <2>1. n + 1 \in 1..(n + 1) /\ (n + 1) - 1 = n
    OBVIOUS
  <2> QED
    BY <1>1, <2>1 DEF Sums
<1>6. g[n] \in Nat
  BY <1>2 DEF Sums
<1> QED
  BY <1>1, <1>2, <1>4, <1>5, <1>6
=============================================================================
