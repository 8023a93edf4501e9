------------------------------- MODULE Varint -------------------------------
(***************************************************************************)
(* The varint codec of the runtime (crates/nisba/src/encode.rs, decode.rs) *)
(* at work on a message, the varint members of a struct: prepare adds up   *)
(* their sizes, a buffer of that size is allocated and written without     *)
(* bounds checks, and the decoder reads the members back.                  *)
(*                                                                         *)
(* A u64 is the set of the positions of its one bits, and an i64 that of   *)
(* its two's complement; a byte is the set of its low seven bits and the   *)
(* flag that says whether more bytes follow.                               *)
(***************************************************************************)
EXTENDS SequencesExt

CONSTANTS
  Messages,         \* the types and values that are encoded
  Inputs            \* the types and bytes of a decoder that no encoder has written for

Bits(n) == 0..(n - 1)
Word == SUBSET Bits(64)
Byte == [low : SUBSET Bits(7), more : BOOLEAN]

(* The type T: size_of::<T>() * 8, and is it signed? *)
IntType == [width : {16, 32, 64}, signed : BOOLEAN]

ASSUME MessagesAssumption ==
  \A m \in Messages : m.type \in IntType /\ m.values \in Seq(SUBSET Bits(m.type.width))
ASSUME InputsAssumption ==
  \A i \in Inputs : i.type \in IntType /\ i.bytes \in Seq(Byte)

VARIABLES
  type,         \* the type of the varints
  checks,       \* was the code built with overflow checks?
  message,      \* the values to encode
  size,         \* what prepare returned
  next,         \* the index of the member that is encoded
  word,         \* the value in push_varint_unsigned, if it is running
  buf,          \* the bytes written so far
  count,        \* how many members are decoded
  pos,          \* Decoder.ptr
  value, shift, \* the locals of next_varint_unsigned
  decoded,      \* the members decoded so far
  result        \* "preparing", "encoding", "decoding", then "ok", an Error or "panic"

build == <<type, checks>>
encoder == <<build, message, size, next, word, buf, count>>
decoder == <<pos, value, shift, decoded>>
vars == <<encoder, decoder, result>>

Idle == <<>>

Width == type.width
Signed == type.signed
-----------------------------------------------------------------------------
ShlRotate(w, n) == {(b + n) % 64 : b \in w}     \* Mutant: no bit is shifted out

Shl(w, n) == {b + n : b \in w} \cap Bits(64)
Shr(w, n) == {b - n : b \in {c \in w : c >= n}}
Xor(v, w) == (v \ w) \cup (w \ v)
Fill(flag) == IF flag THEN Bits(64) ELSE {}

(* value as i64 or as u64. *)
Widen(v) == IF Signed /\ Width - 1 \in v THEN v \cup (Bits(64) \ Bits(Width)) ELSE v

(* value as T. *)
NarrowNever(w) == w     \* Mutant: the cast is forgotten

Narrow(w) == w \cap Bits(Width)

ZigZagLogical(w) == Xor(Shl(w, 1), Shr(w, 63))     \* Mutant: the sign is not extended

ZigZag(w) == Xor(Shl(w, 1), Fill(63 \in w))

UnZigZag(w) == Xor(Shr(w, 1), Fill(0 \in w))

(* What push_varint_signed or push_varint_unsigned writes. *)
Coded(v) == IF Signed THEN ZigZag(Widen(v)) ELSE Widen(v)

LeadingZeros(w) == IF w = {} THEN 64 ELSE 63 - Max(w)

(* Mutant: a value that ends at a full group of seven bits takes one more. *)
CalcSizeFloor(w) == (64 - LeadingZeros(w)) \div 7 + 1

(* varint_calc_size_unsigned: div_ceil, and one byte for zero. *)
CalcSize(w) == Max({(64 - LeadingZeros(w) + 6) \div 7, 1})
-----------------------------------------------------------------------------
Prepare ==
  /\ result = "preparing"
  /\ size' = FoldLeft(LAMBDA sum, v : sum + CalcSize(Coded(v)), 0, message)
  /\ result' = "encoding"
  /\ UNCHANGED <<build, message, next, word, buf, count, decoder>>

StartValue ==
  /\ result = "encoding"
  /\ word = Idle
  /\ next \in DOMAIN message
  /\ word' = <<Coded(message[next])>>
  /\ UNCHANGED <<build, message, size, next, buf, count, decoder, result>>

Rest == word[1]

Continues(w) == \E b \in w : b >= 7     \* value >= 0x80

PushMore ==
  /\ result = "encoding"
  /\ word # Idle
  /\ Continues(Rest)
  /\ buf' = Append(buf, [low |-> Rest \cap Bits(7), more |-> TRUE])
  /\ word' = <<Shr(Rest, 7)>>
  /\ UNCHANGED <<build, message, size, next, count, decoder, result>>

PushLast ==
  /\ result = "encoding"
  /\ word # Idle
  /\ ~Continues(Rest)
  /\ buf' = Append(buf, [low |-> Rest \cap Bits(7), more |-> 7 \in Rest])
  /\ word' = Idle
  /\ next' = next + 1
  /\ UNCHANGED <<build, message, size, count, decoder, result>>

(* The buffer is complete, and given to a decoder. *)
Send ==
  /\ result = "encoding"
  /\ word = Idle
  /\ next \notin DOMAIN message
  /\ result' = "decoding"
  /\ UNCHANGED <<encoder, decoder>>
-----------------------------------------------------------------------------
Decoding == result = "decoding" /\ Len(decoded) < count
AtByte == Decoding /\ pos < Len(buf)
NextByte == buf[pos + 1]

(* next_u8 finds no byte. *)
UnexpectedEnd ==
  /\ Decoding
  /\ pos = Len(buf)
  /\ result' = "UnexpectedEnd"
  /\ UNCHANGED <<encoder, decoder>>

(* A u64 is shifted by 0 to 63: a larger shift panics in a build with      *)
(* overflow checks and is taken modulo 64 in one without.                  *)
ShiftPanic ==
  /\ AtByte
  /\ shift >= 64 /\ checks
  /\ pos' = pos + 1
  /\ result' = "panic"
  /\ UNCHANGED <<encoder, value, shift, decoded>>

Shifts == AtByte /\ ~(shift >= 64 /\ checks)

WithByte == value \cup Shl(NextByte.low, shift % 64)

Returned(w) == Narrow(IF Signed THEN UnZigZag(w) ELSE w)

(* The last byte of a member: the locals are those of the next call. *)
TakeLast ==
  /\ Shifts
  /\ ~NextByte.more
  /\ pos' = pos + 1
  /\ decoded' = Append(decoded, Returned(WithByte))
  /\ value' = {}
  /\ shift' = 0
  /\ UNCHANGED <<encoder, result>>

TooLongByNext(s) == s + 14 > Width     \* Mutant: the byte after the next must fit

TooLong(s) == s > Width

RejectLong ==
  /\ Shifts
  /\ NextByte.more
  /\ TooLong(shift)
  /\ pos' = pos + 1
  /\ result' = "VarintOverflow"
  /\ UNCHANGED <<encoder, value, shift, decoded>>

TakeMore ==
  /\ Shifts
  /\ NextByte.more
  /\ ~TooLong(shift)
  /\ pos' = pos + 1
  /\ value' = WithByte
  /\ shift' = shift + 7
  /\ UNCHANGED <<encoder, decoded, result>>

Finish ==
  /\ result = "decoding"
  /\ Len(decoded) = count
  /\ result' = "ok"
  /\ UNCHANGED <<encoder, decoder>>
-----------------------------------------------------------------------------
InitDecoder == pos = 0 /\ value = {} /\ shift = 0 /\ decoded = <<>>

(* A message is encoded, and decoded again. *)
InitMessage ==
  /\ \E m \in Messages : type = m.type /\ message = m.values
  /\ checks \in BOOLEAN
  /\ size = 0 /\ next = 1 /\ word = Idle /\ buf = <<>>
  /\ count = Len(message)
  /\ InitDecoder
  /\ result = "preparing"

(* One varint is decoded from bytes of any origin. *)
InitInput ==
  /\ \E i \in Inputs : type = i.type /\ buf = i.bytes
  /\ checks \in BOOLEAN
  /\ message = <<>>
  /\ size = 0 /\ next = 1 /\ word = Idle
  /\ count = 1
  /\ InitDecoder
  /\ result = "decoding"

Next ==
  \/ Prepare \/ StartValue \/ PushMore \/ PushLast \/ Send
  \/ UnexpectedEnd \/ ShiftPanic \/ TakeLast \/ RejectLong \/ TakeMore \/ Finish

(* One thread runs the codec to its end. *)
MessageSpec == InitMessage /\ [][Next]_vars /\ WF_vars(Next)
InputSpec == InitInput /\ [][Next]_vars /\ WF_vars(Next)
-----------------------------------------------------------------------------
TypeOK ==
  /\ type \in IntType /\ checks \in BOOLEAN
  /\ message \in Seq(SUBSET Bits(Width))
  /\ size \in Nat
  /\ next \in 1..(Len(message) + 1)
  /\ word \in Seq(SUBSET Bits(64)) /\ Len(word) <= 1
  /\ buf \in Seq(Byte)
  /\ count \in Nat
  /\ pos \in 0..Len(buf)
  /\ value \subseteq Bits(64)
  /\ shift \in Nat
  /\ decoded \in Seq(SUBSET Bits(Width))
  /\ result \in {"preparing", "encoding", "decoding", "ok", "panic",
                 "UnexpectedEnd", "VarintOverflow"}

(***************************************************************************)
(* The encoder writes through a raw pointer into a buffer of the size      *)
(* prepare has computed, and encode() takes every byte of it for written:  *)
(* at any point of the loop the bytes written and the size of what is left *)
(* of the value never exceed it, and in the end they are equal.            *)
(***************************************************************************)
PrepareExact ==
  /\ result = "encoding" =>
       Len(buf) + (IF word = Idle THEN 0 ELSE CalcSize(Rest)) <= size
  /\ result \notin {"preparing", "encoding"} => Len(buf) = size

(***************************************************************************)
(* The decoder returns what was encoded, member by member, and in the end  *)
(* all of it: no member is refused, and none reads into the next.          *)
(***************************************************************************)
Channel == INSTANCE Transfer WITH sent <- message, received <- decoded
Delivers == Channel!Spec
-----------------------------------------------------------------------------
(* The bytes of the first varint in the input, without an end if it has none. *)
Ends(input) == {i \in DOMAIN input : ~input[i].more}
VarintLen(input) == IF Ends(input) = {} THEN Len(input) + 1 ELSE Min(Ends(input))

(* The bytes the widest value of the type takes. *)
Required == (Width + 6) \div 7

(* The groups of seven bits, put together. *)
Payload(input) ==
  UNION {{7 * (i - 1) + b : b \in input[i].low} : i \in 1..VarintLen(input)}

Done == result \notin {"preparing", "encoding", "decoding"}

(***************************************************************************)
(* A varint of any origin is read byte by byte until it ends, and for one  *)
(* byte more than its type requires at most: it is accepted if it is no    *)
(* longer than required, and refused as cut off only if it has no end.  A  *)
(* panic needs more bytes than a u64 can have.                             *)
(***************************************************************************)
InputVerdict ==
  /\ pos <= Width \div 7 + 2
  /\ Done =>
       /\ result = "ok" => pos = VarintLen(buf)
       /\ VarintLen(buf) <= Min({Required, Len(buf)}) => result = "ok"
       /\ result = "UnexpectedEnd" => Ends(buf) = {}
       /\ result = "VarintOverflow" => VarintLen(buf) > Required
       /\ result = "panic" => checks /\ Width = 64 /\ VarintLen(buf) > Required

(***************************************************************************)
(* wire-format.md: "Additional bits of the last encoded byte are ignored". *)
(* Of a varint that is no longer than required only the bits of the type   *)
(* count, unless it is narrow and signed: the zigzag is undone on 64 bits, *)
(* so the first additional bit becomes the sign.                           *)
(***************************************************************************)
ExtraBitsIgnored ==
  result = "ok" /\ message = <<>> /\ VarintLen(buf) <= Required =>
    LET bits == Payload(buf) \cap Bits(64)
        used == IF Signed THEN bits \cap Bits(Width + 1) ELSE bits \cap Bits(Width)
    IN  decoded = <<Narrow(IF Signed THEN UnZigZag(used) ELSE used)>>

(* wire-format.md: "Longer bytes than required is treated as an error". *)
LongRejected == Done /\ VarintLen(buf) > Required => result \in {"VarintOverflow", "UnexpectedEnd"}
=============================================================================
