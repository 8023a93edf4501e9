-------------------------------- MODULE Codec --------------------------------
(***************************************************************************)
(* What generated types do with a message (crates/nisbac/src/back/rust.rs, *)
(* over the runtime in crates/nisba/src): Encoder writes it, decode()      *)
(* reads it back, vectors of fixed-sized elements and streams as views of  *)
(* the bytes, and a stream is then iterated.                               *)
(***************************************************************************)
EXTENDS Encoder

CONSTANTS
  Inputs,           \* schemas, the handle of a type, and bytes of any origin to decode
  Trailers,         \* what may follow a message in the input
  MaxItems,         \* items taken from a stream, unless it ends before
  OverflowChecks    \* was the code built with overflow checks?

(* Integers that are native to Rust; the others are arrays of bytes. *)
NativeBits == {0, 8, 16, 32, 64, 128}

(* The values of the type take no bytes: it is fixed at none, or a struct  *)
(* of such types, structs within it included.                              *)
TakesNone(c, ty, structs) ==
  \/ IsFixedSize(c, ty) /\ FixedSize(c, ty) = 0
  \/ ty.tag = "allocated" /\ ty.handle \in structs

AllTakeNone(c, structs) ==
  \A h \in structs : \A i \in DOMAIN TypesOf(c.schema[h]) :
    TakesNone(c, TypesOf(c.schema[h])[i], structs)

Sizeless(c, ty) ==
  \E structs \in SUBSET {h \in DOMAIN c.schema : c.schema[h].kind = "struct"} :
    AllTakeNone(c, structs) /\ TakesNone(c, ty, structs)

(***************************************************************************)
(* What rustc makes of the generated code: it has no integers to cast the  *)
(* length of other widths to, a Box is no Decode, and an extern without an *)
(* integer is left to the user.  A packed is laid out as it is written if  *)
(* its members are, which a Rust enum or Option need not be.  Left out are *)
(* vectors of structs without bytes, decoded one by one from no input.     *)
(***************************************************************************)
LaidOutAsWritten(s, ty) ==
  \/ ty.tag = "integer"
  \/ ty.tag = "allocated" /\ s[ty.handle].kind \in {"primitive", "packed"}

Generates(s) ==
  \A h \in DOMAIN s :
    /\ s[h].kind # "extern"
    /\ s[h].kind = "packed" => \A i \in DOMAIN TypesOf(s[h]) : LaidOutAsWritten(s, TypesOf(s[h])[i])
    /\ IsSequence(s[h]) => s[h].len_ty \notin {3, 5, 6, 7}
    /\ s[h].kind = "vector" /\ Sizeless(Context(s), s[h].elem_ty) =>
         IsFixedSize(Context(s), s[h].elem_ty)
    /\ s[h].kind = "stream" /\ s[h].elem_ty.tag = "allocated" =>
         LET elem == s[s[h].elem_ty.handle]
         IN  elem.kind = "vector" => IsFixedSize(Context(s), elem.elem_ty)

Valid(s) ==
  /\ HandlesInRange(s) /\ RecursionGuarded(s) /\ SequencesUsed(s)
  /\ PackedMembersFixed(s) /\ PackedAligned(s) /\ MembersAligned(s, 1)
  /\ IndicesInRange(s) /\ IndicesDistinct(s)

ASSUME SchemasAssumption == \A m \in Messages \cup Inputs : Valid(m.schema) /\ Generates(m.schema)
ASSUME LimitAssumption == MaxItems \in Nat
ASSUME OverflowChecksAssumption == OverflowChecks \in BOOLEAN
-----------------------------------------------------------------------------
(* Bytes.  Numbers from Huge on are not told apart. *)
Byte == 0..255

ASSUME TrailersAssumption == Trailers \subseteq Seq(Byte)

ASSUME InputsAssumption ==
  \A i \in Inputs :
    Validated(Context(i.schema)) /\ i.root \in DOMAIN i.schema /\ i.bytes \in Seq(Byte)

Capped[v \in Nat] == IF v < Huge THEN v ELSE Huge

(* The first digit is that of the ones. *)
FromDigits(digits, base) ==
  LET number[i \in 0..Len(digits)] ==
        IF i = 0 THEN 0 ELSE Capped[digits[Len(digits) + 1 - i] + base * number[i - 1]]
  IN  number[Len(digits)]

FromLittleEndian(bytes) == FromDigits(bytes, 256)
-----------------------------------------------------------------------------
(***************************************************************************)
(* A result of decoding.  It has the position the decoder is left at,      *)
(* Decoder.ptr, which after an Err is that of the failed read.  A view is  *)
(* decoded into its bytes; read has what the value is to a reader that     *)
(* reads all views in it to their end, or nothing if that fails.           *)
(***************************************************************************)
Ok(x, read, pos) == [status |-> "ok", value |-> x, read |-> read, pos |-> pos]
Err(status, pos) == [status |-> status, value |-> <<>>, read |-> {}, pos |-> pos]

Errors == {"UnexpectedEnd", "VarintOverflow", "UnknownDiscriminant"}

Plain(x, pos) == Ok(x, {x}, pos)

(* Of a set with one element; to TLC it is a value that is computed once. *)
Only(S) == CHOOSE x \in S : TRUE

(* Several reads, one after the other: next[i] is the i-th, by position. *)
Joined(r, x) ==
  IF x.status # "ok" THEN x
  ELSE Ok(Append(r.value, x.value), {Append(a, b) : a \in r.read, b \in x.read}, x.pos)

Followed(result, next) ==
  Only({IF r.status # "ok" THEN r ELSE Only({Joined(r, x) : x \in {next[r.pos]}}) : r \in {result}})

InOrder(next, n, pos) ==
  LET result[i \in 0..n] ==
        IF i = 0 THEN Ok(<<>>, {<<>>}, pos) ELSE Followed(result[i - 1], next[i])
  IN  result[n]

NextBytesUnchecked(bytes, pos, n) ==     \* Mutant: the end is not looked at
  Plain(SubSeq(bytes, pos + 1, Min({pos + n, Len(bytes)})), pos + n)

NextBytes(bytes, pos, n) ==
  IF Len(bytes) - pos < n THEN Err("UnexpectedEnd", pos)
  ELSE Plain(SubSeq(bytes, pos + 1, pos + n), pos + n)

NextNumber(bytes, pos, n) ==
  LET image == NextBytes(bytes, pos, n)
  IN  IF image.status = "ok" THEN Plain(FromLittleEndian(image.value), image.pos) ELSE image

(* The groups of seven bits that a varint is made of, first that of the ones. *)
BitsOf(v) == {k \in 0..6 : (v \div 2 ^ k) % 2 = 1}

Or(v, w) == EightBits(BitsOf(v) \cup BitsOf(w), 0)

(* The eleventh is shifted by 70, modulo 64. *)
Shifted(groups) ==
  IF Len(groups) < 11 THEN groups
  ELSE [groups EXCEPT ![1] = Or(@, 64 * (groups[11] % 2)), ![2] = Or(@, groups[11] \div 2)]

(* value as an integer of some bits *)
Cast(groups, bits) ==
  [i \in DOMAIN groups |->
     IF 7 * i <= bits THEN groups[i]
     ELSE IF 7 * (i - 1) < bits THEN groups[i] % 2 ^ (bits - 7 * (i - 1)) ELSE 0]

(***************************************************************************)
(* next_varint_unsigned(width), whose result is then cast to an integer of *)
(* some bits; see the module Varint.  The shift of an eleventh byte is out *)
(* of the u64: it panics in a build with overflow checks.                  *)
(***************************************************************************)
NextVarint(bytes, pos, width, bits) ==
  LET ends == {i \in pos + 1..Len(bytes) : bytes[i] < 128}
      last == IF ends = {} THEN Len(bytes) + 1 ELSE Min(ends)
      longest == pos + (width \div 7) + 2
      groups == [i \in 1..last - pos |-> bytes[pos + i] % 128]
  IN  IF OverflowChecks /\ Min({last, longest}) \in pos + 11..Len(bytes) THEN Err("panic", pos + 11)
      ELSE IF last > longest
      THEN Err(IF longest <= Len(bytes) THEN "VarintOverflow" ELSE "UnexpectedEnd",
               Min({longest, Len(bytes)}))
      ELSE IF last > Len(bytes) THEN Err("UnexpectedEnd", Len(bytes))
      ELSE Plain(FromDigits(Cast(Shifted(groups), bits), 128), last)

(* Varint::decode *)
DecodeVarint(n, bytes, pos) == NextVarint(bytes, pos, 8 * n, 8 * n)

(* The length of a view: Varint::decode, or Integer<N>::decode. *)
NextLength(len_ty, bytes, pos) ==
  IF IsVarint(len_ty) THEN DecodeVarint(len_ty - 8, bytes, pos) ELSE NextNumber(bytes, pos, len_ty)

(* LenType::decode, the length of a vector that is decoded element by      *)
(* element: next_unsigned takes a size in bytes, is given the width in     *)
(* bits, and copies that many bytes into a u64.  A varint is not cast to   *)
(* its type.                                                               *)
NextEagerLength(len_ty, bytes, pos) ==
  LET length == NextNumber(bytes, pos, LenBits(len_ty))
  IN  IF IsVarint(len_ty) THEN NextVarint(bytes, pos, LenBits(len_ty), 64)
      ELSE IF length.status = "ok" /\ LenBits(len_ty) > 8 THEN Err("undefined", length.pos)
      ELSE length
-----------------------------------------------------------------------------
(***************************************************************************)
(* decode() of a type, at a position in some bytes: read has the results   *)
(* of the calls it makes.                                                  *)
(***************************************************************************)
At(ty, bytes, pos) == [ty |-> ty, bytes |-> bytes, pos |-> pos]

Places == [ty : Type, bytes : Seq(Byte), pos : Nat]

Reads(read, ty, bytes) == [pos \in Nat |-> read[At(ty, bytes, pos)]]

DecodeElementAsPrimitive(read, ty, bytes, pos) ==     \* Mutant: an array of bytes is one, too
  LET image == NextBytes(bytes, pos, ty.bits \div 8)
  IN  IF ty.tag # "integer" THEN read[At(ty, bytes, pos)]
      ELSE IF image.status = "ok" THEN Err("undefined", image.pos) ELSE image

(* An element of a stream.  Primitive<T>::decode, for native integers,     *)
(* returns a Result that was not initialised.                              *)
DecodeElement(read, ty, bytes, pos) ==
  LET image == NextBytes(bytes, pos, ty.bits \div 8)
  IN  IF ~(ty.tag = "integer" /\ ty.bits \in NativeBits) THEN read[At(ty, bytes, pos)]
      ELSE IF image.status = "ok" THEN Err("undefined", image.pos) ELSE image

(* What the items of a stream are read as: from pos to its end, or nothing. *)
StreamItems(read, ty, bytes) ==
  LET next == [pos \in Nat |-> DecodeElement(read, ty, bytes, pos)]
      With(x, rest) == IF x.status = "ok" THEN {<<a>> \o b : a \in x.read, b \in rest[x.pos]} ELSE {}
      items[n \in 0..Len(bytes)] ==
        [pos \in Nat |->
           IF pos = Len(bytes) THEN {<<>>}
           ELSE IF n = 0 THEN {} ELSE UNION {With(x, items[n - 1]) : x \in {next[pos]}}]
  IN  items[Len(bytes)][0]

(* And those of a slice, which has none if they take no bytes. *)
SliceItems(c, read, ty, bytes) ==
  LET each == FixedSize(c, ty)
      count == IF each = 0 THEN 0 ELSE Len(bytes) \div each
      Item(i) == read[At(ty, bytes, (i - 1) * each)].read
  IN  UNION {IF \E i \in 1..count : items[i] = {} THEN {} ELSE {[i \in 1..count |-> Only(items[i])]} :
               items \in {[i \in 1..count |-> Item(i)]}}

(* The product of a length and a size is a usize of 64 bits; elements are  *)
(* smaller than 4 GiB.                                                     *)
MayWrap(len_ty, each) == LenBits(len_ty) = 64 /\ each > 1

(* Slice::decode: the bytes of all elements, size_of::<T>() each. *)
DecodeSlice(c, read, def, bytes, pos) ==
  LET length == NextLength(def.len_ty, bytes, pos)
      view == NextBytes(bytes, length.pos, length.value * FixedSize(c, def.elem_ty))
  IN  IF length.status # "ok" THEN length
      ELSE IF ~LaidOutAsWritten(c.schema, def.elem_ty) THEN Err("undefined", length.pos)
      ELSE IF length.value >= Huge /\ MayWrap(def.len_ty, FixedSize(c, def.elem_ty))
      THEN Err("wrapped", length.pos)
      ELSE IF view.status # "ok" THEN view
      ELSE Ok(view.value, UNION {SliceItems(c, read, def.elem_ty, v) : v \in {view.value}}, view.pos)

(* Mutant: what there is of a stream is returned. *)
DecodeStreamRest(read, def, bytes, pos) ==
  LET length == NextLength(def.len_ty, bytes, pos)
      end == Min({length.pos + length.value, Len(bytes)})
      view == SubSeq(bytes, length.pos + 1, end)
  IN  IF length.status # "ok" THEN length ELSE Ok(view, StreamItems(read, def.elem_ty, view), end)

(* Stream::decode *)
DecodeStream(read, def, bytes, pos) ==
  LET length == NextLength(def.len_ty, bytes, pos)
      view == NextBytes(bytes, length.pos, length.value)
  IN  IF length.status # "ok" THEN length
      ELSE IF view.status # "ok" THEN view
      ELSE Ok(view.value, UNION {StreamItems(read, def.elem_ty, v) : v \in {view.value}}, view.pos)

(* An element takes a byte at least, so that of a length beyond the input  *)
(* it is enough to read as many as there are bytes left, and one more.     *)
DecodeEager(read, def, bytes, pos) ==
  LET length == NextEagerLength(def.len_ty, bytes, pos)
      n == Min({length.value, Len(bytes) - length.pos + 1})
      elements == InOrder([i \in 1..n |-> Reads(read, def.elem_ty, bytes)], n, length.pos)
  IN  IF length.status # "ok" THEN length
      ELSE IF length.value >= Huge /\ elements.status \in Errors THEN Err("huge", length.pos)
      ELSE elements

DecodeStruct(read, def, bytes, pos) ==
  InOrder([i \in DOMAIN def.members |-> Reads(read, def.members[i].ty, bytes)], Len(def.members), pos)

(* The bytes are taken as they are in memory. *)
DecodePacked(c, read, h, bytes, pos) ==
  LET def == c.schema[h]
      image == NextBytes(bytes, pos, c.bit_width[h].bits \div 8)
      members == DecodeStruct(read, def, image.value, 0)
  IN  IF image.status # "ok" THEN image
      ELSE IF IsBitfield(c, def) THEN Plain(FromLittleEndian(image.value), image.pos)
      ELSE Ok(members.value, members.read, image.pos)

DecodeEnum(read, def, bytes, pos) ==
  LET tag == NextNumber(bytes, pos, def.index_ty)
      variants == {i \in DOMAIN def.members : def.members[i].index = tag.value}
      variant == Min(variants)
      x == read[At(def.members[variant].ty, bytes, tag.pos)]
  IN  IF tag.status # "ok" THEN tag
      ELSE IF variants = {} THEN Err("UnknownDiscriminant", tag.pos)
      ELSE IF x.status # "ok" THEN x
      ELSE Ok([variant |-> variant, value |-> x.value],
              {[variant |-> variant, value |-> y] : y \in x.read}, x.pos)

IsSet(bitmap, index) == (bitmap[(index \div 8) + 1] \div 2 ^ (index % 8)) % 2 = 1

Present(x) == IF x.status = "ok" THEN Ok(<<x.value>>, {<<y>> : y \in x.read}, x.pos) ELSE x

DecodeDict(read, def, bytes, pos) ==
  LET bitmap == NextBytes(bytes, pos, def.index_ty)
      MemberOf(i) ==
        [at \in Nat |-> IF IsSet(bitmap.value, def.members[i].index)
                        THEN Present(read[At(def.members[i].ty, bytes, at)])
                        ELSE Plain(<<>>, at)]
  IN  IF bitmap.status # "ok" THEN bitmap
      ELSE InOrder([i \in DOMAIN def.members |-> MemberOf(i)], Len(def.members), bitmap.pos)

(* Decode::decode of the generated type with handle h. *)
DecodeNamed(c, read, h, bytes, pos) ==
  LET def == c.schema[h]
  IN  CASE def.kind = "packed" -> DecodePacked(c, read, h, bytes, pos)
        [] def.kind = "enum" -> DecodeEnum(read, def, bytes, pos)
        [] def.kind = "dict" -> DecodeDict(read, def, bytes, pos)
        [] def.kind = "struct" -> DecodeStruct(read, def, bytes, pos)

DecodeInteger(bits, bytes, pos) == NextNumber(bytes, pos, bits \div 8)

DecodePrimitive(def, bytes, pos) == NextNumber(bytes, pos, def.bits \div 8)

DecodeType(c, read, ty, bytes, pos) ==
  CASE ty.tag = "integer" -> DecodeInteger(ty.bits, bytes, pos)
    [] ty.tag = "varint" -> DecodeVarint(ty.size, bytes, pos)
    [] ty.tag = "allocated" ->
         LET def == c.schema[ty.handle]
         IN  CASE def.kind = "primitive" -> DecodePrimitive(def, bytes, pos)
               [] def.kind = "stream" -> DecodeStream(read, def, bytes, pos)
               [] def.kind = "vector" /\ IsFixedSize(c, def.elem_ty) ->
                    DecodeSlice(c, read, def, bytes, pos)
               [] def.kind = "vector" /\ ~IsFixedSize(c, def.elem_ty) ->
                    DecodeEager(read, def, bytes, pos)
               [] OTHER -> DecodeNamed(c, read, ty.handle, bytes, pos)

(* The stack has room for MaxDepth calls within one another. *)
NoRoom == [at \in Places |-> Err("overflow", at.pos)]

Decoder(c) ==
  LET decode[n \in 0..MaxDepth] ==
        [at \in Places |->
           DecodeType(c, IF n = 0 THEN NoRoom ELSE decode[n - 1], at.ty, at.bytes, at.pos)]
  IN  decode

Decoded(c, h, bytes) == Decoder(c)[MaxDepth][At(Allocated(h), bytes, 0)]
-----------------------------------------------------------------------------
VARIABLES
  origin,       \* "message" or "input"
  received,     \* the input of the decoder
  decoded,      \* what decode returned
  stream,       \* the member that is iterated: its elements, its bytes, the position in them
  items,        \* what the items it has returned are read as
  failed,       \* was one of them an Err?
  patient,      \* does the reader go on after an Err, as Debug for Stream does?
  phase         \* "sending", then what runs, or how it has ended

reader == <<stream, items, failed, patient>>
vars == <<sender, origin, received, decoded, reader, phase>>

NoStream == [elem |-> Integer(0), bytes |-> <<>>, pos |-> 0, member |-> 0]

SendMessage == Send /\ UNCHANGED <<origin, received, decoded, reader, phase>>

(* The message arrives with something behind it, *)
Arrive ==
  /\ sending = "sent" /\ phase = "sending"
  /\ \E trailer \in Trailers : received' = buf \o trailer
  /\ phase' = "decoding"
  /\ UNCHANGED <<sender, origin, decoded, reader>>

(* or it is cut off. *)
CutOff ==
  /\ sending = "sent" /\ phase = "sending"
  /\ \E n \in 0..(Len(buf) - 1) : received' = SubSeq(buf, 1, n)
  /\ phase' = "decoding"
  /\ UNCHANGED <<sender, origin, decoded, reader>>

(***************************************************************************)
(* How the program goes on.  A Box of huge length is refused with a panic  *)
(* or an abort, or there is memory for it, and then not enough input.  The *)
(* product of a length of 64 bits and a size panics, or wraps, or is more  *)
(* than there are bytes; the module Slices is about a wrapped one.         *)
(***************************************************************************)
Outcomes(status) ==
  CASE status = "ok" -> {"decoded"}
    [] status = "overflow" -> {"aborted"}
    [] status = "huge" -> {"panic", "aborted"} \cup Errors
    [] status = "wrapped" -> {IF OverflowChecks THEN "panic" ELSE "wrapped", "UnexpectedEnd"}
    [] status \in {"undefined", "panic"} -> {status}
    [] OTHER -> {status} \cap Errors

Decode ==
  /\ phase = "decoding"
  /\ decoded' = Decoded(ctx, root, received)
  /\ phase' \in Outcomes(decoded'.status)
  /\ UNCHANGED <<sender, origin, received, reader>>

(* A stream is the member of a struct. *)
Open ==
  /\ phase = "decoded"
  /\ ctx.schema[root].kind = "struct"
  /\ \E i \in DOMAIN ctx.schema[root].members :
       LET ty == ctx.schema[root].members[i].ty
       IN  /\ ty.tag = "allocated"
           /\ ctx.schema[ty.handle].kind = "stream"
           /\ stream' = [elem |-> ctx.schema[ty.handle].elem_ty,
                         bytes |-> decoded.value[i], pos |-> 0, member |-> i]
  /\ patient' \in BOOLEAN
  /\ phase' = "reading"
  /\ UNCHANGED <<sender, origin, received, decoded, items, failed>>

AtItem == phase = "reading" /\ stream.pos < Len(stream.bytes)

NextElement == DecodeElement(Decoder(ctx)[MaxDepth], stream.elem, stream.bytes, stream.pos)

(* Mutant: an element is decoded from a copy of the decoder. *)
StayedAt(r) == stream' = stream

(* Mutant: a byte is skipped after an Err. *)
MovedPast(r) ==
  stream' = [stream EXCEPT !.pos = Min({Len(stream.bytes), IF r.status = "ok" THEN r.pos ELSE r.pos + 1})]

MovedTo(r) == stream' = [stream EXCEPT !.pos = r.pos]

(* Stream::next returns an element, *)
TakeItem ==
  /\ AtItem
  /\ Len(items) < MaxItems
  /\ \E r \in {NextElement} :
       /\ r.status = "ok"
       /\ MovedTo(r)
       /\ items' = Append(items, r.read)
  /\ UNCHANGED <<sender, origin, received, decoded, failed, patient, phase>>

(* an Err, with which most readers stop, *)
TakeErr ==
  /\ AtItem
  /\ \E r \in {NextElement} :
       /\ r.status # "ok"
       /\ MovedTo(r)
       /\ phase' \in {IF outcome \notin Errors THEN outcome
                       ELSE IF patient THEN "reading" ELSE "stopped" : outcome \in Outcomes(r.status)}
  /\ failed' = TRUE
  /\ UNCHANGED <<sender, origin, received, decoded, items, patient>>

(* or None. *)
EndOfStream ==
  /\ phase = "reading"
  /\ stream.pos = Len(stream.bytes)
  /\ phase' = "finished"
  /\ UNCHANGED <<sender, origin, received, decoded, reader>>

InitReader ==
  /\ decoded = Err("unread", 0)
  /\ stream = NoStream /\ items = <<>> /\ failed = FALSE /\ patient = FALSE

InitSent == InitMessage /\ origin = "message" /\ received = <<>> /\ phase = "sending"

InitInput ==
  /\ \E i \in Inputs : ctx = Context(i.schema) /\ root = i.root /\ received = i.bytes
  /\ value = <<>> /\ size = 0 /\ buf = <<>> /\ sending = "none"
  /\ origin = "input" /\ phase = "decoding"

Init == InitReader /\ (InitSent \/ InitInput)

ReadNext == TakeItem \/ TakeErr \/ EndOfStream

Next == SendMessage \/ Arrive \/ CutOff \/ Decode \/ Open \/ ReadNext

(* A reader that has begun to iterate calls next() until it stops. *)
Spec == Init /\ [][Next]_vars /\ WF_vars(ReadNext)
-----------------------------------------------------------------------------
(* Where generated decoders are not the inverse of generated encoders.     *)

(* A vector that is decoded element by element misreads a fixed length. *)
MisreadLengths(c) ==
  \E h \in DOMAIN c.schema : LET def == c.schema[h]
                             IN  /\ def.kind = "vector"
                                 /\ ~IsFixedSize(c, def.elem_ty) /\ ~IsVarint(def.len_ty)

(* Enums and dicts in a vector are read as if memory were the message. *)
MemoryRead(c) ==
  \E h \in DOMAIN c.schema : LET def == c.schema[h]
                             IN  /\ def.kind = "vector" /\ IsFixedSize(c, def.elem_ty)
                                 /\ ~LaidOutAsWritten(c.schema, def.elem_ty)

(* Native integers in a stream are undefined. *)
NativeStreams(c) ==
  \E h \in DOMAIN c.schema : LET def == c.schema[h]
                             IN  /\ def.kind = "stream" /\ def.elem_ty.tag = "integer"
                                 /\ def.elem_ty.bits \in NativeBits

(* Elements that take no bytes are not counted by what is left to read. *)
SizelessViews(c) ==
  \E h \in DOMAIN c.schema : LET def == c.schema[h]
                             IN  /\ IsSequence(def) /\ Sizeless(c, def.elem_ty)
                                 /\ def.kind = "stream" \/ IsFixedSize(c, def.elem_ty)

Regular(c) == ~MisreadLengths(c) /\ ~MemoryRead(c) /\ ~NativeStreams(c) /\ ~SizelessViews(c)
-----------------------------------------------------------------------------
(* Decoders do not leave their input, nor streams theirs. *)
TypeOK ==
  /\ origin \in {"message", "input"}
  /\ size \in Nat
  /\ buf \in Seq(Byte) /\ received \in Seq(Byte)
  /\ decoded.status \in {"unread", "ok", "huge", "overflow", "undefined", "panic", "wrapped"} \cup Errors
  /\ decoded.pos \in 0..Len(received)
  /\ stream.bytes \in Seq(Byte) /\ stream.pos \in 0..Len(stream.bytes)
  /\ Len(items) <= MaxItems /\ failed \in BOOLEAN /\ patient \in BOOLEAN
  /\ sending \in {"none", "preparing", "encoding", "sent", "ContainerLengthOverflow", "undefined"}
  /\ phase \in {"sending", "decoding", "decoded", "reading", "stopped", "finished", "undefined",
                "panic", "aborted", "wrapped"} \cup Errors

Arrived == origin = "message" /\ decoded.status # "unread" /\ Len(received) >= Len(buf)

(* A vector that is decoded element by element, into a Box for as many as  *)
(* its length says.                                                        *)
EagerVectors(c) ==
  \E h \in DOMAIN c.schema : c.schema[h].kind = "vector" /\ ~IsFixedSize(c, c.schema[h].elem_ty)

(* A view of more bytes than a usize counts can be asked for. *)
WideViews(c) ==
  \E h \in DOMAIN c.schema : LET def == c.schema[h]
                             IN  /\ def.kind = "vector" /\ IsFixedSize(c, def.elem_ty)
                                 /\ MayWrap(def.len_ty, FixedSize(c, def.elem_ty))

(***************************************************************************)
(* decode() returns a Result, whose errors are those of nisba::Error: of   *)
(* any bytes it makes a value or one of them, and so does next() of a      *)
(* stream.  These are the exceptions, and there are no others, but for the *)
(* memory and the stack that a value may need: undefined behaviour takes a *)
(* schema with one of three flaws of the generated code; a panic takes a   *)
(* vector that is decoded into a Box, or overflow checks and a varint of   *)
(* eleven bytes or the product of a length of 64 bits, which wraps without *)
(* them.                                                                   *)
(***************************************************************************)
FailuresNamed ==
  LET at == IF failed THEN stream.pos ELSE decoded.pos
  IN  /\ phase = "undefined" => MisreadLengths(ctx) \/ MemoryRead(ctx) \/ NativeStreams(ctx)
      /\ phase = "panic" =>
           EagerVectors(ctx) \/ (OverflowChecks /\ (at >= 11 \/ WideViews(ctx)))
      /\ phase = "wrapped" => ~OverflowChecks /\ WideViews(ctx)

(***************************************************************************)
(* wire-format.md describes one format for both sides: what was encoded is *)
(* decoded, its views included, whatever follows it in the input, of which *)
(* nothing is read.  The exceptions are the schemas that are not Regular,  *)
(* and the lengths that are cut down.                                      *)
(***************************************************************************)
RoundTrip ==
  phase \notin {"reading", "stopped", "finished"} /\ Arrived /\ Regular(ctx) /\ LengthsFit =>
    decoded.status = "ok" /\ decoded.pos = Len(buf) /\ decoded.read = {value}

(***************************************************************************)
(* No encoding is the beginning of another: a message that is cut off, at  *)
(* any byte, is UnexpectedEnd, and never taken for a shorter one.          *)
(***************************************************************************)
CutDetected ==
  /\ origin = "message" /\ decoded.status # "unread" /\ Len(received) < Len(buf)
  /\ Regular(ctx) /\ LengthsFit
  => decoded.status = "UnexpectedEnd"

(***************************************************************************)
(* "Nisba does not require canonical encoding": bytes of any origin that   *)
(* are decoded may use unused bits and longer varints.  Encoded again the  *)
(* value takes no more bytes than it did, and is decoded to the same.      *)
(***************************************************************************)
Normalises ==
  phase = "decoded" /\ origin = "input" /\ Regular(ctx) =>
    \A v \in decoded.read : Prepared(ctx, Whole(root, v)) \in Nat =>
      \A again \in {Encoded(ctx, Whole(root, v))} : \A back \in {Decoded(ctx, root, again)} :
        Len(again) <= decoded.pos /\ back.status = "ok" /\ back.read = {v}

(***************************************************************************)
(* A stream returns the elements of the vector it was encoded from, in     *)
(* order, and ends with the last.  Of any bytes it makes as many elements  *)
(* of a fixed size as there are whole ones, no more after an Err, and ends *)
(* only if nothing is left over.                                           *)
(***************************************************************************)
ItemsExact ==
  phase \in {"reading", "stopped", "finished"} /\ ~NativeStreams(ctx) /\ ~Sizeless(ctx, stream.elem) =>
    /\ Arrived /\ Regular(ctx) /\ LengthsFit =>
         /\ ~failed
         /\ Len(items) <= Len(value[stream.member])
         /\ \A i \in DOMAIN items : items[i] = {value[stream.member][i]}
         /\ phase = "finished" => Len(items) = Len(value[stream.member])
    /\ IsFixedSize(ctx, stream.elem) /\ LaidOutAsWritten(ctx.schema, stream.elem) =>
         LET whole == Len(stream.bytes) \div FixedSize(ctx, stream.elem)
         IN  /\ Len(items) <= whole
             /\ failed \/ phase = "finished" => Len(items) = whole
             /\ phase = "finished" => Len(stream.bytes) % FixedSize(ctx, stream.elem) = 0

(***************************************************************************)
(* "Streams support lazy deserializing": a reader that stops at an Err     *)
(* comes to an end, whatever the bytes.  Two do not: one that goes on      *)
(* after it, since an element that is cut off is not passed, and one of    *)
(* elements that take no bytes.                                            *)
(***************************************************************************)
ReaderEnds ==
  phase = "reading" /\ ~patient /\ ~Sizeless(ctx, stream.elem) ~> phase # "reading"

(***************************************************************************)
(* wire-format.md: the length of a vector may be a "non-zero byte-aligned  *)
(* unsigned integer", its elements "fixed-sized or not fixed-sized".       *)
(***************************************************************************)
AnyLengthType ==
  Arrived /\ ~MemoryRead(ctx) /\ ~NativeStreams(ctx) /\ ~SizelessViews(ctx) /\ LengthsFit =>
    decoded.status = "ok"
=============================================================================
