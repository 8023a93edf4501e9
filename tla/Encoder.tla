------------------------------- MODULE Encoder -------------------------------
(***************************************************************************)
(* The encoders of generated types (crates/nisbac/src/back/rust.rs, over   *)
(* crates/nisba/src/encode.rs): prepare() computes the size of a value's   *)
(* encoding, encode() writes into a buffer of that size without bounds     *)
(* checks.                                                                 *)
(*                                                                         *)
(* An integer, a varint and a primitive are numbers; a bit-field is one,   *)
(* any other packed or struct the sequence of its members' values; a dict  *)
(* that of <<>> or <<value>>; an enum a record; a vector or a stream the   *)
(* sequence of its elements.  The target is little endian.                 *)
(***************************************************************************)
EXTENDS SchemaRules, SequencesExt, Integers

CONSTANTS
  Messages,         \* schemas, the handle of a type, and a value to encode
  MaxDepth,         \* how deep the types of a value are nested, at most
  Huge              \* the numbers and lengths of messages are less

ASSUME MaxDepthAssumption == MaxDepth \in Nat
ASSUME HugeAssumption == Huge \in Nat

(* Context: the schema with the widths the validator has found. *)
Context(s) == [schema |-> s, bit_width |-> Widths(s)]

IsFixedSize(c, ty) == WidthOfType(ty, c.bit_width) # Variable
FixedSize(c, ty) == WidthOfType(ty, c.bit_width).bits \div 8

IsBitfield(c, def) ==
  \E i \in DOMAIN def.members : Misaligned(WidthOfType(def.members[i].ty, c.bit_width))
-----------------------------------------------------------------------------
(* Bytes, and the sizes that prepare() computes for them. *)
LittleEndian(v, n) ==
  LET rest[i \in 0..n] == IF i = 0 THEN v ELSE rest[i - 1] \div 256
  IN  [i \in 1..n |-> rest[i - 1] % 256]

(* 64 - leading_zeros(): the bits of a number up to its highest one. *)
BitLength[v \in Nat] == IF v = 0 THEN 0 ELSE 1 + BitLength[v \div 2]

VarintLenFloor(v) == 1 + (BitLength[v] \div 7)     \* Mutant: as div_ceil, but for full groups

VarintLen(v) ==
  LET groups == (BitLength[v] + 6) \div 7
  IN  IF groups > 1 THEN groups ELSE 1

Leb128[v \in Nat] ==
  IF v < 128 THEN <<v>> ELSE <<(v % 128) + 128>> \o Leb128[v \div 128]

(* LenType: a fixed number of bytes, or 8 + the size of a varint. *)
IsVarint(len_ty) == len_ty > 8
LenBits(len_ty) == 8 * (IF IsVarint(len_ty) THEN len_ty - 8 ELSE len_ty)

LenSize(len_ty, n) == IF IsVarint(len_ty) THEN VarintLen(n) ELSE len_ty

LenBytes(len_ty, n) == IF IsVarint(len_ty) THEN Leb128[n] ELSE LittleEndian(n, len_ty)

TooLongByRange(len_ty, n) == n > 2 ^ LenBits(len_ty) - 1     \* Mutant

TooLong(len_ty, n) == n > 2 ^ (LenBits(len_ty) - 1) - 1     \* n > max_size
-----------------------------------------------------------------------------
(***************************************************************************)
(* A part of a value: what one call of prepare or encode is about.  Its    *)
(* place tells a member of a type that is a member itself, an element, and *)
(* the member of a type that is or is within an element; lengths are       *)
(* checked for all but elements.                                           *)
(***************************************************************************)
Part(ty, datum, place) == [ty |-> ty, datum |-> datum, place |-> place]

ChecksLength(part) == part.place # "element"     \* validate

DefinitionOf(c, part) == c.schema[part.ty.handle]

Elements(c, part) ==
  [i \in DOMAIN part.datum |-> Part(DefinitionOf(c, part).elem_ty, part.datum[i], "element")]

MemberPart(c, part, i, datum) ==
  Part(DefinitionOf(c, part).members[i].ty, datum,
       IF part.place = "member" THEN "member" ELSE "within")

StructMembers(c, part) == [i \in DOMAIN part.datum |-> MemberPart(c, part, i, part.datum[i])]

Variant(c, part) == <<MemberPart(c, part, part.datum.variant, part.datum.value)>>

(* A member that is not there is nothing to prepare and to encode, as void. *)
DictMembers(c, part) ==
  [i \in DOMAIN part.datum |->
     IF part.datum[i] = <<>> THEN Part(Integer(0), 0, "member")
     ELSE MemberPart(c, part, i, part.datum[i][1])]

PartsOf(c, part) ==
  IF part.ty.tag # "allocated" THEN <<>>
  ELSE LET def == DefinitionOf(c, part)
       IN  CASE IsSequence(def) -> Elements(c, part)
             [] def.kind = "struct" \/ (def.kind = "packed" /\ ~IsBitfield(c, def)) ->
                  StructMembers(c, part)
             [] def.kind = "enum" -> Variant(c, part)
             [] def.kind = "dict" -> DictMembers(c, part)
             [] OTHER -> <<>>

Whole(h, v) == Part(Allocated(h), v, "member")

(* The parts of a value by how deep they are in it. *)
Levels(c, part) ==
  LET level[n \in 0..MaxDepth + 1] ==
        IF n = 0 THEN {part} ELSE UNION {Range(PartsOf(c, p)) : p \in level[n - 1]}
  IN  level
-----------------------------------------------------------------------------
(* prepare(): a size, or an Err of ContainerLengthOverflow, or undefined   *)
(* behaviour.  Terms are added up in order, the first failure is returned. *)
Refused == -1
Undefined == -2

Plus(sum, term) == IF sum < 0 THEN sum ELSE IF term < 0 THEN term ELSE sum + term

SumOf(terms) ==
  LET sum[i \in 0..Len(terms)] == IF i = 0 THEN 0 ELSE Plus(sum[i - 1], terms[i])
  IN  sum[Len(terms)]

(* sizes has those of the parts. *)
PrepareParts(c, sizes, part) ==
  LET parts == PartsOf(c, part)
  IN  SumOf([i \in DOMAIN parts |-> sizes[parts[i]]])

PrepareVector(c, sizes, part) ==
  LET def == DefinitionOf(c, part)
      n == Len(part.datum)
  IN  IF ChecksLength(part) /\ TooLong(def.len_ty, n) THEN Refused
      ELSE Plus(LenSize(def.len_ty, n),
                IF IsFixedSize(c, def.elem_ty) THEN FixedSize(c, def.elem_ty) * n
                ELSE PrepareParts(c, sizes, part))

(* Mutant: the prefix is sized for the number of elements. *)
PrepareStreamPrefix(c, sizes, part) ==
  LET def == DefinitionOf(c, part)
      byte_count == PrepareParts(c, sizes, part)
  IN  IF byte_count < 0 THEN byte_count
      ELSE IF ChecksLength(part) /\ TooLong(def.len_ty, byte_count) THEN Refused
      ELSE LenSize(def.len_ty, Len(part.datum)) + byte_count

PrepareStream(c, sizes, part) ==
  LET def == DefinitionOf(c, part)
      byte_count == PrepareParts(c, sizes, part)
  IN  IF byte_count < 0 THEN byte_count
      ELSE IF ChecksLength(part) /\ TooLong(def.len_ty, byte_count) THEN Refused
      ELSE LenSize(def.len_ty, byte_count) + byte_count

PreparePacked(c, part) == c.bit_width[part.ty.handle].bits \div 8

PrepareStruct(c, sizes, part) == PrepareParts(c, sizes, part)

PrepareEnum(c, sizes, part) ==
  Plus(DefinitionOf(c, part).index_ty, PrepareParts(c, sizes, part))

PrepareDict(c, sizes, part) ==
  Plus(DefinitionOf(c, part).index_ty, PrepareParts(c, sizes, part))

(* Encode::prepare of a generated type. *)
PrepareNamed(c, sizes, part) ==
  LET kind == DefinitionOf(c, part).kind
  IN  CASE kind = "packed" -> PreparePacked(c, part)
        [] kind = "struct" -> PrepareStruct(c, sizes, part)
        [] kind = "enum" -> PrepareEnum(c, sizes, part)
        [] kind = "dict" -> PrepareDict(c, sizes, part)

(* A named type fails with `?`, or as an element with unwrap_unchecked(). *)
PrepareAllocated(c, sizes, part) ==
  LET n == PrepareNamed(c, sizes, part)
  IN  IF n = Refused /\ ~ChecksLength(part) THEN Undefined ELSE n

PrepareType(c, sizes, part) ==
  CASE part.ty.tag = "integer" -> part.ty.bits \div 8
    [] part.ty.tag = "varint" -> VarintLen(part.datum)
    [] part.ty.tag = "allocated" ->
         LET def == DefinitionOf(c, part)
         IN  CASE def.kind = "primitive" -> def.bits \div 8
               [] def.kind = "vector" -> PrepareVector(c, sizes, part)
               [] def.kind = "stream" -> PrepareStream(c, sizes, part)
               [] OTHER -> PrepareAllocated(c, sizes, part)

(* What is below a level, where f has what the levels make, the last first. *)
Below(f, n) == IF n = 0 THEN <<>> ELSE f[n - 1]

Sizes(c, part) ==
  LET sizes[n \in 0..MaxDepth] ==
        [p \in Levels(c, part)[MaxDepth - n] |-> PrepareType(c, Below(sizes, n), p)]
  IN  sizes

Prepared(c, part) == Sizes(c, part)[MaxDepth][part]
-----------------------------------------------------------------------------
(* encode(): the bytes that are written. *)
Bit(set, i) == IF i \in set THEN 1 ELSE 0

EightBits(set, i) ==
  Bit(set, i) + 2 * Bit(set, i + 1) + 4 * Bit(set, i + 2) + 8 * Bit(set, i + 3)
    + 16 * Bit(set, i + 4) + 32 * Bit(set, i + 5) + 64 * Bit(set, i + 6) + 128 * Bit(set, i + 7)

Bits(set, n) == [k \in 1..n |-> EightBits(set, 8 * (k - 1))]

(* Mutant: the bits are numbered in the order of the members. *)
BitmapInOrder(def, v) == Bits({i - 1 : i \in {j \in DOMAIN v : v[j] # <<>>}}, def.index_ty)

(* 0 | 1 << index | ..., for the members that are present. *)
Bitmap(def, v) ==
  Bits({def.members[i].index : i \in {j \in DOMAIN v : v[j] # <<>>}}, def.index_ty)

(* bytes has those of the parts. *)
EncodeParts(c, bytes, part) ==
  LET parts == PartsOf(c, part)
  IN  FlattenSeq([i \in DOMAIN parts |-> bytes[parts[i]]])

(* The length of a vector counts elements, that of a stream the bytes that *)
(* they are prepared for.                                                  *)
EncodeSequence(c, sizes, bytes, part) ==
  LET def == DefinitionOf(c, part)
      length == IF def.kind = "vector" THEN Len(part.datum) ELSE PrepareParts(c, sizes, part)
  IN  LenBytes(def.len_ty, length) \o EncodeParts(c, bytes, part)

EncodeStruct(c, bytes, part) == EncodeParts(c, bytes, part)

(* The bytes in memory. *)
EncodePacked(c, bytes, part) ==
  IF IsBitfield(c, DefinitionOf(c, part)) THEN LittleEndian(part.datum, PreparePacked(c, part))
  ELSE EncodeParts(c, bytes, part)

EncodeEnum(c, bytes, part) ==
  LET def == DefinitionOf(c, part)
  IN  LittleEndian(def.members[part.datum.variant].index, def.index_ty) \o EncodeParts(c, bytes, part)

EncodeDict(c, bytes, part) ==
  Bitmap(DefinitionOf(c, part), part.datum) \o EncodeParts(c, bytes, part)

(* Encode::encode of a generated type. *)
EncodeNamed(c, bytes, part) ==
  LET kind == DefinitionOf(c, part).kind
  IN  CASE kind = "packed" -> EncodePacked(c, bytes, part)
        [] kind = "struct" -> EncodeStruct(c, bytes, part)
        [] kind = "enum" -> EncodeEnum(c, bytes, part)
        [] kind = "dict" -> EncodeDict(c, bytes, part)

EncodeInteger(bits, v) == LittleEndian(v, bits \div 8)

EncodeType(c, sizes, bytes, part) ==
  CASE part.ty.tag = "integer" -> EncodeInteger(part.ty.bits, part.datum)
    [] part.ty.tag = "varint" -> Leb128[part.datum]
    [] part.ty.tag = "allocated" ->
         LET def == DefinitionOf(c, part)
         IN  CASE def.kind = "primitive" -> LittleEndian(part.datum, def.bits \div 8)
               [] IsSequence(def) -> EncodeSequence(c, sizes, bytes, part)
               [] OTHER -> EncodeNamed(c, bytes, part)

Bytes(c, part) ==
  LET bytes[n \in 0..MaxDepth] ==
        [p \in Levels(c, part)[MaxDepth - n] |->
           EncodeType(c, Below(Sizes(c, part), n), Below(bytes, n), p)]
  IN  bytes

Encoded(c, part) == Bytes(c, part)[MaxDepth][part]
-----------------------------------------------------------------------------
(* What rustc makes sure of: the value is one of the type. *)
Holds(n, v) == v \in Nat /\ v < Huge /\ BitLength[v] <= 8 * n     \* n bytes hold v

IsList(v) == Len(v) \in Nat /\ v = [i \in 1..Len(v) |-> v[i]]

WellTyped(c, part) ==
  CASE part.ty.tag = "integer" -> Holds(part.ty.bits \div 8, part.datum)
    [] part.ty.tag = "varint" -> Holds(part.ty.size, part.datum)
    [] part.ty.tag = "allocated" ->
         /\ part.ty.handle \in DOMAIN c.schema
         /\ LET def == DefinitionOf(c, part)
                v == part.datum
            IN  CASE def.kind = "primitive" -> Holds(def.bits \div 8, v)
                  [] def.kind = "packed" /\ IsBitfield(c, def) -> Holds(PreparePacked(c, part), v)
                  [] IsSequence(def) -> IsList(v)
                  [] def.kind = "struct" \/ (def.kind = "packed" /\ ~IsBitfield(c, def)) ->
                       IsList(v) /\ Len(v) = Len(def.members)
                  [] def.kind = "enum" -> /\ v.variant \in DOMAIN def.members
                                          /\ v = [variant |-> v.variant, value |-> v.value]
                                          /\ Holds(def.index_ty, def.members[v.variant].index)
                  [] def.kind = "dict" -> /\ IsList(v) /\ Len(v) = Len(def.members)
                                          /\ \A i \in DOMAIN v : v[i] # <<>> => v[i] = <<v[i][1]>>
                  [] def.kind = "extern" -> FALSE

(* What the validator makes sure of: see WidthsAgree and VerdictCorrect.   *)
Validated(c) ==
  /\ c.schema \in Seq(Definition)
  /\ HandlesInRange(c.schema)
  /\ c.bit_width \in [DOMAIN c.schema -> BitWidth]
  /\ \A h \in DOMAIN c.schema :
       /\ c.bit_width[h] = WidthByRule(c.schema[h], c.bit_width)
       /\ c.schema[h].kind = "packed" => Variable \notin WidthsOfTypes(c.schema[h], c.bit_width)

Encodable(c, part) ==
  /\ Validated(c)
  /\ \A n \in 0..MaxDepth : \A p \in Levels(c, part)[n] : WellTyped(c, p)
  /\ Levels(c, part)[MaxDepth + 1] = {}

ASSUME MessagesAssumption ==
  \A m \in Messages : Encodable(Context(m.schema), Whole(m.root, m.value))
-----------------------------------------------------------------------------
VARIABLES
  ctx, root,    \* the schema, and the handle of the type that is encoded
  value,        \* the value to encode
  size,         \* what prepare returned
  buf,          \* what encode has written
  sending       \* what runs, then "sent", the Error or "undefined"

sender == <<ctx, root, value, size, buf, sending>>

(* encode(): let len = value.prepare()?; *)
Prepare ==
  /\ sending = "preparing"
  /\ LET n == Prepared(ctx, Whole(root, value))
     IN  \/ n = Refused /\ sending' = "ContainerLengthOverflow" /\ size' = size
         \/ n = Undefined /\ sending' = "undefined" /\ size' = size
         \/ n \in Nat /\ sending' = "encoding" /\ size' = n
  /\ UNCHANGED <<ctx, root, value, buf>>

Encode ==
  /\ sending = "encoding"
  /\ buf' = Encoded(ctx, Whole(root, value))
  /\ sending' = "sent"
  /\ UNCHANGED <<ctx, root, value, size>>

InitMessage ==
  /\ \E m \in Messages : ctx = Context(m.schema) /\ root = m.root /\ value = m.value
  /\ size = 0 /\ buf = <<>> /\ sending = "preparing"

Send == Prepare \/ Encode

-----------------------------------------------------------------------------
(* Every vector and stream in the value, with its length, and its place. *)
LengthsOfValue ==
  LET whole == Whole(root, value)
      bytes == Bytes(ctx, whole)
      IsOne(p) == p.ty.tag = "allocated" /\ IsSequence(DefinitionOf(ctx, p))
      Length(p, n) ==
        IF DefinitionOf(ctx, p).kind = "vector" THEN Len(p.datum)
        ELSE Len(EncodeParts(ctx, Below(bytes, n), p))
  IN  UNION {{[len_ty |-> DefinitionOf(ctx, p).len_ty, length |-> Length(p, n), place |-> p.place] :
                p \in {q \in Levels(ctx, whole)[MaxDepth - n] : IsOne(q)}} : n \in 0..MaxDepth}

OverLimit(place) ==
  \E l \in LengthsOfValue : l.place = place /\ 2 * l.length >= 2 ^ LenBits(l.len_ty)

(* A length that its type has no room for is cut down to it. *)
LengthsFit == \A l \in LengthsOfValue : l.length < 2 ^ LenBits(l.len_ty) /\ l.length < Huge

(***************************************************************************)
(* encode() allocates what prepare() returns, lets the generated code      *)
(* write through a raw pointer, and takes all of it for initialised: the   *)
(* two walks over the value agree on every byte, also where a length has   *)
(* been cut down to its type.                                              *)
(***************************************************************************)
SizeExact == sending = "sent" => Len(buf) = size

(***************************************************************************)
(* A value is refused only for a member that is longer than half the range *)
(* of its length type.  The check is not made for the elements of a vector *)
(* or stream, and is undefined behaviour where it fails within one: a      *)
(* value that is encoded has no length over its limit but those of         *)
(* elements.                                                               *)
(***************************************************************************)
LengthVerdict ==
  /\ sending = "ContainerLengthOverflow" => OverLimit("member")
  /\ sending = "undefined" => OverLimit("within")
  /\ sending = "encoding" => ~OverLimit("member") /\ ~OverLimit("within")
=============================================================================
