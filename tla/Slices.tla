------------------------------- MODULE Slices -------------------------------
(***************************************************************************)
(* A vector of fixed-sized elements that is read in place                  *)
(* (crates/nisba/src/decode.rs, Slice): a pointer into the input and a     *)
(* length, an iterator and a random access.  The length prefix has been    *)
(* decoded; it may be anything, and so may the number of bytes behind it.  *)
(*                                                                         *)
(* A byte is its position behind the prefix, and an element the position   *)
(* of its first byte.                                                      *)
(***************************************************************************)
EXTENDS Integers, Sequences

CONSTANTS
  ElemSizes,        \* the sizes T may have in memory, mem::size_of::<T>()
  MaxUsize,         \* usize::MAX, one less than a power of two
  MaxInput          \* how many bytes there may be behind the prefix

ASSUME SizesAssumption == ElemSizes \subseteq Nat
ASSUME LimitsAssumption == MaxUsize \in Nat /\ MaxInput \in 0..MaxUsize

VARIABLES
  checks,       \* was the code built with overflow checks?
  elem_size,    \* mem::size_of::<T>()
  count,        \* the value of the length prefix
  input,        \* how many bytes are behind the prefix
  data,         \* the length of the slice when it was decoded, in bytes
  ptr, len,     \* Slice.ptr and Slice.len
  items,        \* what the iterator has returned so far
  result        \* "decoding", "reading", "done", "UnexpectedEnd" or "panic"

shape == <<checks, elem_size, count, input>>
vars == <<shape, data, ptr, len, items, result>>
-----------------------------------------------------------------------------
(* len.value() as usize * mem::size_of::<T>() *)
ByteSizeUnscaled == count     \* Mutant: the elements are taken for bytes

ByteSize == (count * elem_size) % (MaxUsize + 1)

SizeOverflows == count * elem_size > MaxUsize

FitsPrefix == count <= input     \* Mutant: the bytes are compared with the prefix

(* next_bytes finds that many bytes. *)
Fits == ByteSize <= input

OverflowPanic ==
  /\ result = "decoding"
  /\ checks /\ SizeOverflows
  /\ result' = "panic"
  /\ UNCHANGED <<shape, data, ptr, len, items>>

CutOff ==
  /\ result = "decoding"
  /\ ~(checks /\ SizeOverflows)
  /\ ~Fits
  /\ result' = "UnexpectedEnd"
  /\ UNCHANGED <<shape, data, ptr, len, items>>

Decode ==
  /\ result = "decoding"
  /\ ~(checks /\ SizeOverflows)
  /\ Fits
  /\ data' = ByteSize
  /\ len' = ByteSize
  /\ result' = "reading"
  /\ UNCHANGED <<shape, ptr, items>>

AfterFour(l) == IF l < 4 THEN 0 ELSE l - 4     \* Mutant: the elements are taken for four bytes wide

AfterNext(l) == l - 1

(* Iterator::next. *)
NextElement ==
  /\ result = "reading"
  /\ len # 0
  /\ items' = Append(items, ptr)
  /\ ptr' = ptr + elem_size
  /\ len' = AfterNext(len)
  /\ UNCHANGED <<shape, data, result>>

Done ==
  /\ result = "reading"
  /\ len = 0
  /\ result' = "done"
  /\ UNCHANGED <<shape, data, ptr, len, items>>
-----------------------------------------------------------------------------
(* Slice::len, or <<>> for the panic of a division by zero. *)
SliceLen == IF elem_size = 0 THEN <<>> ELSE <<len \div elem_size>>

(* Slice::get, as the offset it reads an element from, or <<>> for None. *)
Get(index) == IF index >= len THEN <<>> ELSE <<ptr + index * elem_size>>
-----------------------------------------------------------------------------
Init ==
  /\ checks \in BOOLEAN
  /\ elem_size \in ElemSizes
  /\ count \in 0..MaxUsize
  /\ input \in 0..MaxInput
  /\ data = 0 /\ ptr = 0 /\ len = 0
  /\ items = <<>>
  /\ result = "decoding"

Next == OverflowPanic \/ CutOff \/ Decode \/ NextElement \/ Done

(* One thread decodes the slice and takes elements until there are none. *)
Spec == Init /\ [][Next]_vars /\ WF_vars(Next)
-----------------------------------------------------------------------------
(* The offsets of the elements the prefix promises. *)
Elements == [i \in 1..count |-> (i - 1) * elem_size]

(* Without overflow checks a byte size beyond usize wraps: a large prefix  *)
(* is then decoded as a small one, and nothing below is true of the slice. *)
Wrapped == ~checks /\ SizeOverflows

(***************************************************************************)
(* A slice is accepted only if all of its elements are in the input, and   *)
(* refused only if one is not, however large the prefix is.                *)
(***************************************************************************)
AcceptedWhole ==
  /\ result \in {"reading", "done"} /\ ~Wrapped => count * elem_size <= input
  /\ result \in {"UnexpectedEnd", "panic"} => count * elem_size > input

(* The iterator leaves no element out, and begins with those there are. *)
NoneMissing ==
  ~Wrapped =>
    /\ \A i \in DOMAIN items : i <= count => items[i] = Elements[i]
    /\ result = "done" => Len(items) >= count

(* wire-format.md: "Length encodes number of elements": that many come out. *)
CountIterated == result = "done" /\ ~Wrapped => Len(items) = count

(* For elements of one byte, where lengths in elements and in bytes are    *)
(* the same, the slice is all that an ExactSizeIterator promises: as many  *)
(* elements as the prefix says, size_hint() right after each of them, and  *)
(* get() None for every index that is not left.                            *)
BytesExact ==
  elem_size = 1 =>
    /\ CountIterated
    /\ result = "reading" =>
         /\ SliceLen = <<count - Len(items)>>
         /\ \A index \in (count - Len(items))..MaxUsize : Get(index) = <<>>

(***************************************************************************)
(* wire-format.md: "Length encodes number of elements".  The slice has the *)
(* length of its prefix, and for any index that is left get() finds the    *)
(* element there, also on a slice that has been iterated in part.  Of      *)
(* elements of one byte there are no others.                               *)
(***************************************************************************)
LengthDecoded ==
  /\ result = "reading" /\ ~Wrapped =>
       /\ items = <<>> => SliceLen = <<count>>
       /\ \A index \in 0..(count - Len(items) - 1) : Get(index) = <<(Len(items) + index) * elem_size>>
  /\ BytesExact
=============================================================================
