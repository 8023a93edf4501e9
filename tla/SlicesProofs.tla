----------------------------- MODULE SlicesProofs -----------------------------
(***************************************************************************)
(* What is proved about vectors that are read in place, for elements of    *)
(* any size, any prefix and any input, and a usize of any width.           *)
(***************************************************************************)
EXTENDS Slices, TLAPS

Typed ==
  /\ checks \in BOOLEAN /\ elem_size \in Nat /\ count \in 0..MaxUsize /\ input \in 0..MaxInput
  /\ data \in Nat /\ ptr \in Nat /\ len \in Nat
  /\ items \in Seq(Nat)
  /\ result \in {"decoding", "reading", "done", "UnexpectedEnd", "panic"}

(***************************************************************************)
(* How the iterator gets along: it has taken an element per item, and a    *)
(* byte from the length for each.                                          *)
(***************************************************************************)
Iterated ==
  /\ result \notin {"reading", "done"} => items = <<>>
  /\ result = "decoding" => ptr = 0
  /\ result \in {"reading", "done"} =>
       /\ ptr = Len(items) * elem_size
       /\ Len(items) + len = ByteSize
       /\ ByteSize <= input /\ ~(checks /\ SizeOverflows)
  /\ \A i \in DOMAIN items : items[i] = (i - 1) * elem_size
  /\ result = "done" => len = 0
  /\ result = "UnexpectedEnd" => ByteSize > input /\ ~(checks /\ SizeOverflows)
  /\ result = "panic" => SizeOverflows

SlicesInvariant == Typed /\ Iterated

LEMMA ProductIsNatural == \A a, b \in Nat : a * b \in Nat
OBVIOUS

LEMMA RemainderAtMost ==
  ASSUME NEW a \in Nat, NEW m \in Nat
  PROVE  a % (m + 1) \in Nat /\ a % (m + 1) <= a /\ (a <= m => a % (m + 1) = a)
OBVIOUS

LEMMA QuotientOfProduct ==
  ASSUME NEW a \in Nat, NEW b \in Nat \ {0}
  PROVE  (a * b) \div b = a
OBVIOUS

LEMMA ProductAtLeast ==
  ASSUME NEW a \in Nat, NEW b \in Nat \ {0}
  PROVE  a <= a * b
OBVIOUS

LEMMA Distributes ==
  ASSUME NEW a \in Nat, NEW b \in Nat, NEW c \in Nat
  PROVE  a * c + b * c = (a + b) * c
OBVIOUS

LEMMA ByteSizeIsNatural ==
  ASSUME Typed
  PROVE  /\ count * elem_size \in Nat /\ ByteSize \in Nat /\ ByteSize <= count * elem_size
         /\ ~SizeOverflows => ByteSize = count * elem_size
<1>1. count \in Nat /\ elem_size \in Nat /\ MaxUsize \in Nat
  BY LimitsAssumption DEF Typed
<1>2. count * elem_size \in Nat
  BY <1>1, ProductIsNatural
<1> QED
  BY <1>1, <1>2, RemainderAtMost DEF ByteSize, SizeOverflows
-----------------------------------------------------------------------------
LEMMA SlicesStart == Init => SlicesInvariant
BY SizesAssumption, LimitsAssumption DEF Init, SlicesInvariant, Typed, Iterated

LEMMA NextElementKeeps == SlicesInvariant /\ NextElement => SlicesInvariant'
<1> SUFFICES ASSUME SlicesInvariant, NextElement PROVE SlicesInvariant'
  OBVIOUS
<1> DEFINE n == Len(items)
<1>1. /\ result = "reading" /\ result' = "reading" /\ len \in Nat /\ len # 0 /\ len' = len - 1
      /\ items' = Append(items, ptr) /\ ptr' = ptr + elem_size /\ ptr \in Nat /\ elem_size \in Nat
      /\ UNCHANGED <<shape, data>> /\ items \in Seq(Nat)
  BY DEF NextElement, AfterNext, SlicesInvariant, Typed
<1>2. n \in Nat /\ Len(items') = n + 1 /\ items' \in Seq(Nat) /\ DOMAIN items' = 1..(n + 1)
      /\ DOMAIN items = 1..n
      /\ items'[n + 1] = ptr /\ \A i \in 1..n : items'[i] = items[i]
  BY <1>1
<1>3. ptr = n * elem_size /\ n + len = ByteSize /\ ByteSize <= input /\ ~(checks /\ SizeOverflows)
  BY <1>1 DEF SlicesInvariant, Iterated
<1>4. Typed'
  BY <1>1, <1>2 DEF SlicesInvariant, Typed, shape
<1>5. ByteSize' = ByteSize /\ (SizeOverflows' <=> SizeOverflows) /\ input' = input /\ checks' = checks
      /\ elem_size' = elem_size
  BY <1>1 DEF shape, ByteSize, SizeOverflows
<1> HIDE DEF n
<1>6. ptr' = (n + 1) * elem_size'
  <2>1. n * elem_size + 1 * elem_size = (n + 1) * elem_size
    BY <1>1, <1>2, Distributes
  <2> QED
    BY <1>1, <1>3, <1>5, <2>1
<1>7. (n + 1) + len' = ByteSize'
  BY <1>1, <1>2, <1>3, <1>5
<1>8. ASSUME NEW i \in 1..(n + 1) PROVE items'[i] = (i - 1) * elem_size'
  <2>1. CASE i \in 1..n
    BY <1>2, <1>5, <2>1 DEF SlicesInvariant, Iterated
  <2>2. CASE i = n + 1
    BY <1>2, <1>3, <1>5, <2>2
  <2> QED
    BY <1>2, <2>1, <2>2
<1>9. Iterated'
  BY <1>1, <1>2, <1>3, <1>5, <1>6, <1>7, <1>8 DEF Iterated
<1> QED
  BY <1>4, <1>9 DEF SlicesInvariant

LEMMA SlicesStep == SlicesInvariant /\ [Next]_vars => SlicesInvariant'
<1> SUFFICES ASSUME SlicesInvariant, [Next]_vars PROVE SlicesInvariant'
  OBVIOUS
<1>1. ASSUME UNCHANGED shape
      PROVE  ByteSize' = ByteSize /\ (SizeOverflows' <=> SizeOverflows) /\ (Fits' <=> Fits)
  BY <1>1 DEF shape, ByteSize, SizeOverflows, Fits
<1>2. CASE OverflowPanic
  BY <1>1, <1>2 DEF OverflowPanic, SlicesInvariant, Typed, Iterated, shape
<1>3. CASE CutOff
  <2>1. ByteSize > input
    BY <1>3, ByteSizeIsNatural DEF CutOff, Fits, SlicesInvariant, Typed
  <2> QED
    BY <1>1, <1>3, <2>1 DEF CutOff, SlicesInvariant, Typed, Iterated, shape
<1>4. CASE Decode
  <2>1. items = <<>> /\ ptr = 0 /\ Len(items) = 0 /\ ByteSize \in Nat /\ elem_size \in Nat
        /\ 0 * elem_size = 0
    BY <1>4, ByteSizeIsNatural DEF Decode, SlicesInvariant, Typed, Iterated
  <2> QED
    BY <1>1, <1>4, <2>1 DEF Decode, Fits, SlicesInvariant, Typed, Iterated, shape
<1>5. CASE NextElement
  BY <1>5, NextElementKeeps
<1>6. CASE Done
  BY <1>1, <1>6 DEF Done, SlicesInvariant, Typed, Iterated, shape
<1>7. CASE UNCHANGED vars
  BY <1>1, <1>7 DEF vars, SlicesInvariant, Typed, Iterated, shape
<1> QED
  BY <1>2, <1>3, <1>4, <1>5, <1>6, <1>7 DEF Next

THEOREM AlwaysIterated == Spec => []SlicesInvariant
BY SlicesStart, SlicesStep, PTL DEF Spec
-----------------------------------------------------------------------------
(* A slice is accepted exactly if its elements are in the input, whatever  *)
(* the prefix says; a build without overflow checks may be deceived by a   *)
(* product that wraps.                                                     *)
THEOREM AlwaysAcceptedWhole == Spec => []AcceptedWhole
<1>1. ASSUME SlicesInvariant PROVE AcceptedWhole
  <2>1. count * elem_size \in Nat /\ ByteSize \in Nat /\ ByteSize <= count * elem_size
        /\ (~SizeOverflows => ByteSize = count * elem_size)
        /\ input \in Nat /\ MaxUsize \in Nat /\ input <= MaxUsize
    BY <1>1, ByteSizeIsNatural, LimitsAssumption DEF SlicesInvariant, Typed
  <2>2. CASE result \in {"reading", "done"}
    BY <1>1, <2>1, <2>2 DEF AcceptedWhole, SlicesInvariant, Iterated, Typed, Wrapped
  <2>3. CASE result = "UnexpectedEnd"
    BY <1>1, <2>1, <2>3 DEF AcceptedWhole, SlicesInvariant, Iterated
  <2>4. CASE result = "panic"
    BY <1>1, <2>1, <2>4 DEF AcceptedWhole, SlicesInvariant, Iterated, SizeOverflows
  <2> QED
    BY <2>2, <2>3, <2>4 DEF AcceptedWhole
<1> QED
  BY <1>1, AlwaysIterated, PTL

(***************************************************************************)
(* What is left in a slice that is read: as many bytes as the elements     *)
(* have, but for one for each that was taken.  Elements take bytes; of     *)
(* those that take none a slice has no length to tell.                     *)
(***************************************************************************)
ElementsTakeBytes == 0 \notin ElemSizes

Sized == elem_size \in ElemSizes

LEMMA AlwaysSized == Spec => []Sized
<1>1. Sized /\ [Next]_vars => Sized'
  BY DEF Sized, Next, OverflowPanic, CutOff, Decode, NextElement, Done, vars, shape
<1>2. Init => Sized
  BY DEF Init, Sized
<1> QED
  BY <1>1, <1>2, PTL DEF Spec

LEMMA WhatIsLeft ==
  ASSUME SlicesInvariant, result \in {"reading", "done"}, ~Wrapped, elem_size # 0
  PROVE  /\ count \in Nat /\ elem_size \in Nat \ {0} /\ Len(items) \in Nat /\ len \in Nat
         /\ len = count * elem_size - Len(items)
         /\ count <= count * elem_size
         /\ ptr = Len(items) * elem_size
<1>1. count \in Nat /\ elem_size \in Nat \ {0} /\ Len(items) \in Nat /\ len \in Nat /\ MaxUsize \in Nat
  BY LimitsAssumption DEF SlicesInvariant, Typed
<1>2. ByteSize = count * elem_size /\ Len(items) + len = ByteSize /\ ptr = Len(items) * elem_size
  BY ByteSizeIsNatural DEF SlicesInvariant, Iterated, Typed, Wrapped
<1>3. count <= count * elem_size /\ count * elem_size \in Nat
  BY <1>1, ProductAtLeast, ProductIsNatural
<1> QED
  BY <1>1, <1>2, <1>3

(* For elements of one byte the slice is the ExactSizeIterator it says it  *)
(* is: the length is exact after every call, get() is None behind it, and  *)
(* as many elements come out as the prefix says.                           *)
LEMMA ExactOfBytes ==
  ASSUME SlicesInvariant
  PROVE  BytesExact
<1> SUFFICES ASSUME elem_size = 1
             PROVE  /\ CountIterated
                    /\ result = "reading" =>
                         /\ SliceLen = <<count - Len(items)>>
                         /\ \A index \in (count - Len(items))..MaxUsize : Get(index) = <<>>
  BY DEF BytesExact
<1>1. /\ count \in Nat /\ count <= MaxUsize /\ MaxUsize \in Nat /\ Len(items) \in Nat /\ len \in Nat
      /\ count * elem_size = count
  BY LimitsAssumption DEF SlicesInvariant, Typed
<1>2. ~Wrapped
  BY <1>1 DEF Wrapped, SizeOverflows
<1>3. result \in {"reading", "done"} => len = count - Len(items)
  BY <1>1, <1>2, WhatIsLeft
<1>4. CountIterated
  BY <1>1, <1>3 DEF CountIterated, SlicesInvariant, Iterated
<1>5. ASSUME result = "reading" PROVE SliceLen = <<count - Len(items)>>
  BY <1>1, <1>3, <1>5 DEF SliceLen
<1>6. ASSUME result = "reading", NEW index \in (count - Len(items))..MaxUsize PROVE Get(index) = <<>>
  BY <1>1, <1>3, <1>6 DEF Get
<1> QED
  BY <1>4, <1>5, <1>6

(* A slice that is read has the length of its prefix, and get() finds      *)
(* every element that is left, for any number that were taken.             *)
THEOREM LengthAlwaysDecoded == ElementsTakeBytes => (Spec => []LengthDecoded)
<1> SUFFICES ASSUME ElementsTakeBytes PROVE Spec => []LengthDecoded
  OBVIOUS
<1>1. SlicesInvariant /\ Sized => LengthDecoded
  <2> SUFFICES ASSUME SlicesInvariant, Sized PROVE LengthDecoded
    OBVIOUS
  <2> SUFFICES ASSUME result = "reading", ~Wrapped
               PROVE  /\ items = <<>> => SliceLen = <<count>>
                      /\ \A index \in 0..(count - Len(items) - 1) :
                           Get(index) = <<(Len(items) + index) * elem_size>>
    BY ExactOfBytes DEF LengthDecoded
  <2>1. elem_size # 0
    BY DEF Sized, ElementsTakeBytes
  <2>2. /\ count \in Nat /\ elem_size \in Nat \ {0} /\ Len(items) \in Nat /\ len \in Nat
        /\ len = count * elem_size - Len(items)
        /\ count <= count * elem_size
        /\ ptr = Len(items) * elem_size
    BY <2>1, WhatIsLeft
  <2>3. ASSUME items = <<>> PROVE SliceLen = <<count>>
    <3>1. Len(items) = 0
      BY <2>3
    <3>2. count * elem_size \in Nat
      BY <2>2, ProductIsNatural
    <3>3. len = count * elem_size
      BY <2>2, <3>1, <3>2
    <3> QED
      BY <2>2, <3>3, QuotientOfProduct DEF SliceLen
  <2>4. ASSUME NEW index \in 0..(count - Len(items) - 1)
        PROVE  Get(index) = <<(Len(items) + index) * elem_size>>
    <3>1. index \in Nat
      BY <2>2
    <3>2. count * elem_size \in Nat
      BY <2>2, ProductIsNatural
    <3>3. ~(index >= len)
      BY <2>2, <3>1, <3>2
    <3>4. ptr + index * elem_size = (Len(items) + index) * elem_size
      BY <2>2, <3>1, Distributes
    <3> QED
      BY <3>3, <3>4 DEF Get
  <2> QED
    BY <2>3, <2>4
<1> QED
  BY <1>1, AlwaysIterated, AlwaysSized, PTL

(* The iterator returns every element of the vector, in order, before it   *)
(* ends or goes on.                                                        *)
THEOREM NoneEverMissing == ElementsTakeBytes => (Spec => []NoneMissing)
<1> SUFFICES ASSUME ElementsTakeBytes PROVE Spec => []NoneMissing
  OBVIOUS
<1>1. SlicesInvariant /\ Sized => NoneMissing
  <2> SUFFICES ASSUME SlicesInvariant, Sized PROVE NoneMissing
    OBVIOUS
  <2> SUFFICES ASSUME ~Wrapped
               PROVE  /\ \A i \in DOMAIN items : i <= count => items[i] = Elements[i]
                      /\ result = "done" => Len(items) >= count
    BY DEF NoneMissing
  <2>1. elem_size # 0 /\ count \in Nat
    BY DEF Sized, ElementsTakeBytes, SlicesInvariant, Typed
  <2>2. ASSUME NEW i \in DOMAIN items, i <= count PROVE items[i] = Elements[i]
    <3>1. i \in 1..count
      <4>1. items \in Seq(Nat)
        BY DEF SlicesInvariant, Typed
      <4> QED
        BY <2>1, <2>2, <4>1
    <3> QED
      BY <2>2, <3>1 DEF Elements, SlicesInvariant, Iterated
  <2>3. ASSUME result = "done" PROVE Len(items) >= count
    <3>1. /\ len = count * elem_size - Len(items) /\ count <= count * elem_size
          /\ Len(items) \in Nat /\ elem_size \in Nat
      BY <2>1, <2>3, WhatIsLeft
    <3>2. len = 0 /\ count * elem_size \in Nat
      BY <2>1, <2>3, <3>1, ProductIsNatural DEF SlicesInvariant, Iterated
    <3> QED
      BY <2>1, <3>1, <3>2
  <2> QED
    BY <2>2, <2>3
<1> QED
  BY <1>1, AlwaysIterated, AlwaysSized, PTL
=============================================================================
