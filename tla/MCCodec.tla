------------------------------ MODULE MCCodec ------------------------------
(***************************************************************************)
(* Schemas, values and inputs for the model checker.  The first definition *)
(* is the type that is encoded and decoded.                                *)
(***************************************************************************)
EXTENDS Codec

MCIdent == {"t", "m"}

PlainMembers(tys) == [i \in DOMAIN tys |-> [name |-> "m", ty |-> tys[i]]]
Indexed(tys, indices) ==
  [i \in DOMAIN tys |-> [name |-> "m", ty |-> tys[i], index |-> indices[i]]]

Struct(tys) == [kind |-> "struct", name |-> "t", members |-> PlainMembers(tys)]
Packed(tys) == [kind |-> "packed", name |-> "t", members |-> PlainMembers(tys)]
Enum(index_ty, tys, indices) ==
  [kind |-> "enum", name |-> "t", index_ty |-> index_ty, members |-> Indexed(tys, indices)]
Dict(index_ty, tys, indices) ==
  [kind |-> "dict", name |-> "t", index_ty |-> index_ty, members |-> Indexed(tys, indices)]
Vector(len_ty, ty) == [kind |-> "vector", len_ty |-> len_ty, elem_ty |-> ty]
Stream(len_ty, ty) == [kind |-> "stream", len_ty |-> len_ty, elem_ty |-> ty]

Void == Integer(0)
U8 == Integer(8)
U16Int == Integer(16)
U24 == Integer(24)
V16 == 10       \* a varint of 16 bits as a length

-----------------------------------------------------------------------------
(* The values of a type with sequences of at most n elements, and of none  *)
(* below the given depth.                                                  *)
Lists(S, n) == UNION {[1..k -> S] : k \in 0..n}

RECURSIVE ValuesOf(_, _, _, _)

Product(sets) ==
  FoldLeft(LAMBDA lists, S : {Append(list, x) : list \in lists, x \in S}, {<<>>}, sets)

ValuesOfDefinition(s, h, n, depth) ==
  LET def == s[h]
      Of(i) == ValuesOf(s, def.members[i].ty, n, depth)
  IN  CASE def.kind = "primitive" -> {0, 2 ^ def.bits - 1}
        [] def.kind = "packed" /\ IsBitfield(Context(s), def) -> {0, 255}
        [] def.kind = "struct" \/ (def.kind = "packed" /\ ~IsBitfield(Context(s), def)) ->
             Product([i \in DOMAIN def.members |-> Of(i)])
        [] def.kind = "enum" ->
             UNION {[variant : {i}, value : Of(i)] : i \in DOMAIN def.members}
        [] def.kind = "dict" ->
             Product([i \in DOMAIN def.members |-> {<<>>} \cup {<<x>> : x \in Of(i)}])
        [] IsSequence(def) ->
             Lists(IF depth = 0 THEN {} ELSE ValuesOf(s, def.elem_ty, n, depth - 1), n)

ValuesOf(s, ty, n, depth) ==
  CASE ty.tag = "integer" -> {v \in {0, 129, 513} : v < 2 ^ Min({ty.bits, 24})}
    [] ty.tag = "varint" -> {0, 127, 128, 16384}
    [] ty.tag = "allocated" -> ValuesOfDefinition(s, ty.handle, n, depth)

Values(s, n, depth) == ValuesOfDefinition(s, 1, n, depth)
Encodings(s, n, depth) == [schema : {s}, root : {1}, value : Values(s, n, depth)]
-----------------------------------------------------------------------------
A(h) == Allocated(h)

(* Members of every kind. *)
StructSchema == <<Struct(<<U8, A(2), Varint(2), A(3)>>), Vector(1, U16Int), Struct(<<A(2)>>)>>
EnumSchema == <<Enum(1, <<Void, U16Int, A(2)>>, <<0, 5, 255>>), Vector(V16, U8)>>
DictSchema == <<Dict(2, <<U8, Void, A(2), Varint(2)>>, <<9, 0, 3, 15>>), Vector(1, U8)>>
PackedSchema ==
  <<Struct(<<A(2), A(3), A(5)>>), Vector(1, A(4)), Vector(2, A(5)), Packed(<<U8, A(6)>>),
    Packed(<<Integer(4), Integer(12)>>), [kind |-> "primitive", name |-> "m", bits |-> 16]>>

(* Elements of variable size; vectors and streams in one another. *)
VarintsSchema == <<Struct(<<A(2), U8>>), Vector(V16, Varint(2))>>
JsonSchema == <<Enum(1, <<Void, A(2), A(3), U8>>, <<0, 1, 2, 3>>), Vector(V16, A(1)), Stream(V16, A(1))>>
StreamsSchema ==
  <<Struct(<<A(2), A(3)>>), Stream(1, A(4)), Stream(V16, U24), Struct(<<Varint(2), A(5)>>), Vector(1, U8)>>
NestedStreams == <<Struct(<<A(2)>>), Stream(V16, A(3)), Stream(1, A(4)), Vector(1, U8)>>
DictStream == <<Struct(<<A(2)>>), Stream(1, A(3)), Dict(1, <<U8, U16Int>>, <<0, 1>>)>>
EnumStream == <<Struct(<<A(2)>>), Stream(1, A(3)), Enum(1, <<Void, U8>>, <<0, 3>>)>>
PackedStream == <<Struct(<<A(2)>>), Stream(1, A(3)), Packed(<<U8, U8>>)>>

(* The schemas that are not Regular. *)
MisreadSchemas ==
  {<<Struct(<<A(2), U8>>), Vector(len_ty, Varint(2))>> : len_ty \in {1, 2}}
MemoryReadSchema == <<Struct(<<A(2)>>), Vector(1, A(3)), Enum(1, <<Void, Void>>, <<0, 7>>)>>
NativeSchema == <<Struct(<<A(2)>>), Stream(1, U8)>>
SizelessSchemas ==
  {<<Struct(<<A(2)>>), Stream(1, A(3)), Struct(<<>>)>>, <<Struct(<<A(2)>>), Vector(1, Void)>>}

Small ==
  UNION {Encodings(s, 2, 2) : s \in {StructSchema, EnumSchema, DictSchema, VarintsSchema,
                                   NestedStreams, DictStream, EnumStream, PackedStream,
                                   MemoryReadSchema, NativeSchema}
                                  \cup MisreadSchemas \cup SizelessSchemas}
    \cup Encodings(StreamsSchema, 1, 2) \cup Encodings(PackedSchema, 1, 1)
    \cup Encodings(JsonSchema, 2, 1) \cup Encodings(JsonSchema, 1, 3)
-----------------------------------------------------------------------------
(* Lengths at the limits of one byte: of a member, of an element, and of a *)
(* member of an element.  A vector of 127 or 128 elements, and a stream of *)
(* 120, 135, 255 or 270 bytes.                                             *)
Repeated(x, n) == [i \in 1..n |-> x]

LongSchemas(sequence) ==
  [member |-> <<Struct(<<A(2), U8>>), sequence>>,
   element |-> <<Struct(<<A(2), U8>>), Vector(V16, A(3)), sequence>>,
   within |-> <<Struct(<<A(2), U8>>), Stream(V16, A(3)), Struct(<<U8, A(4)>>), sequence>>]

LongValues(x, n) ==
  [member |-> <<Repeated(x, n), 1>>,
   element |-> <<<<Repeated(x, n), <<x>>>>, 1>>,
   within |-> <<<<<<1, Repeated(x, n)>>>>, 1>>]

Long(sequence, lengths) ==
  {[schema |-> LongSchemas(sequence)[place], root |-> 1, value |-> LongValues(7, n)[place]] :
     place \in {"member", "element", "within"}, n \in lengths}

MCMessages ==
  Small \cup Long(Vector(1, U8), {127, 128}) \cup Long(Stream(1, Integer(120)), {8, 9, 17, 18})

FixedLengthMessages == UNION {Encodings(s, 2, 2) : s \in MisreadSchemas}

MCTrailers == {<<>>, <<0>>, <<255, 1>>}
-----------------------------------------------------------------------------
(* Bytes of any origin: short ones of a few values, in any order. *)
InputSchemas ==
  {StructSchema, EnumSchema, DictSchema, JsonSchema, StreamsSchema, DictStream, EnumStream,
   PackedStream, NativeSchema} \cup MisreadSchemas \cup SizelessSchemas

ShortInputs ==
  {[schema |-> s, root |-> 1, bytes |-> bytes] :
     s \in InputSchemas, bytes \in Lists({0, 1, 3, 129}, 4) \cup Lists({0, 1, 3}, 5) \cup Lists({0, 2, 64}, 4)}

(* Varints of every size and of up to twelve bytes: as a member, as the    *)
(* length of a view, of a stream and of a vector, and as their elements.   *)
VarintSchemas(n) ==
  {<<Struct(<<Varint(n)>>)>>,
   <<Struct(<<A(2)>>), Vector(V16, U16Int)>>,
   <<Struct(<<A(2)>>), Vector(V16, Varint(n))>>,
   <<Struct(<<A(2)>>), Stream(V16, A(3)), Struct(<<Varint(n)>>)>>}

LongVarints == {Repeated(x, n) \o <<last>> : x \in {128, 193, 255}, last \in {0, 3, 127, 129}, n \in 0..11}

VarintInputs ==
  [schema : UNION {VarintSchemas(n) : n \in VarintSize}, root : {1},
   bytes : LongVarints \cup {<<12>> \o bytes : bytes \in LongVarints}]

(* Lengths of 64 bits. *)
WideInputs ==
  [schema : {<<Struct(<<A(2), A(3)>>), Vector(8, U16Int), Stream(8, U24)>>}, root : {1},
   bytes : {<<a, 0, b>> \o Repeated(d, 5) \o <<7>> : a, b, d \in {64, 128}}]

(* What is decoded is encoded again, which takes numbers that TLC has: the *)
(* lengths of sequences are of 16 bits, or huge.                           *)
MCInputs == ShortInputs \cup VarintInputs \cup WideInputs

None == {}
=============================================================================
