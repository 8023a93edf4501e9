------------------------------ MODULE Document ------------------------------
(***************************************************************************)
(* The syntax tree of a nisba document (crates/nisbac/src/parser/ast.rs),  *)
(* and the rules that specs/dsl.md and specs/wire-format.md state for it.  *)
(*                                                                         *)
(* A type is nested: its layers are the vectors and streams it is wrapped  *)
(* in, the outermost first, and its base is what they hold in the end.     *)
(* Spans are left out, and so is the signedness of numbers.  A missing     *)
(* part of a definition is the empty sequence, a given one a singleton.    *)
(***************************************************************************)
EXTENDS Schema, FiniteSetsExt

CONSTANT MaxU64     \* the largest number the parser tells from an overflow

ASSUME MaxU64Assumption == MaxU64 \in Nat /\ MaxU64 > MaxU16

(* Number::Value(0..MaxU64), or Number::Overflow. *)
Overflow == MaxU64 + 1
Number == 0..Overflow

Optional(S) == {o \in Seq(S) : Len(o) <= 1}

AstLenType == [tag : {"fixed", "varint"}, number : Number]
Layer == [kind : {"vector", "stream"}, len_ty : AstLenType]
Base ==
  [tag : {"ident"}, name : Ident] \cup [tag : {"builtin", "varint"}, number : Number]

AstType == [layers : Seq(Layer), base : Base]

(* A member of an enum or a dict may leave its type and its number out; a  *)
(* member of a struct has a type and no number.                            *)
AstMember == [name : Ident, ty : Optional(AstType), index : Optional(Number)]
AstStructMember ==
  [name : Ident, ty : {type \in Optional(AstType) : type # <<>>}, index : {<<>>}]

NamedDefinition ==
  [kind : {"extern"}, name : Ident, ty : Optional(Number)]
    \cup [kind : {"packed", "struct"}, name : Ident, members : Seq(AstStructMember)]
    \cup [kind : {"enum", "dict"}, name : Ident, index_ty : Number, members : Seq(AstMember)]

AstDocument == Seq(NamedDefinition)
-----------------------------------------------------------------------------
(* The rules, in no order. *)
MembersOf(def) == IF def.kind = "extern" THEN <<>> ELSE def.members

(* Every type written in the document. *)
MembersWritten(doc) ==
  UNION {{MembersOf(doc[d])[i] : i \in DOMAIN MembersOf(doc[d])} : d \in DOMAIN doc}
TypesWritten(doc) == {member.ty[1] : member \in {m \in MembersWritten(doc) : m.ty # <<>>}}

NamesDefined(doc) == {doc[d].name : d \in DOMAIN doc}
NamesMentioned(doc) ==
  {ty.base.name : ty \in {t \in TypesWritten(doc) : t.base.tag = "ident"}}

(* dsl.md: "Type names are globally unique." *)
TypeNamesUnique(doc) == \A d, e \in DOMAIN doc : doc[d].name = doc[e].name => d = e

(* dsl.md: "Member names are unique in each definition." *)
MemberNamesUnique(doc) ==
  \A d \in DOMAIN doc : LET members == MembersOf(doc[d])
                        IN  \A i, j \in DOMAIN members : members[i].name = members[j].name => i = j

WholeBytes == {8 * n : n \in 1..8}
VarintWidths == {16, 32, 64}

(* wire-format.md: "Encoded integer must have a bit width of 16, 32 or 64." *)
VarintsFit(doc) ==
  \A ty \in TypesWritten(doc) :
    /\ ty.base.tag = "varint" => ty.base.number \in VarintWidths
    /\ \A i \in DOMAIN ty.layers :
         ty.layers[i].len_ty.tag = "varint" => ty.layers[i].len_ty.number \in VarintWidths

(***************************************************************************)
(* wire-format.md: "non-zero byte-aligned unsigned integers with a maximum *)
(* bit width of 64", or a varint.  dsl.md:119-122 disagrees: of integers   *)
(* it lists u8, u16, u32 and u64.                                          *)
(***************************************************************************)
LengthsFit(doc) ==
  \A ty \in TypesWritten(doc) : \A i \in DOMAIN ty.layers :
    ty.layers[i].len_ty.tag = "fixed" => ty.layers[i].len_ty.number \in WholeBytes

(* wire-format.md: "Tag type must be non-zero byte-aligned integers with a *)
(* maximum bit-width of 64", and a "bitmap uses the same types".           *)
IndexTypesFit(doc) ==
  \A d \in DOMAIN doc : doc[d].kind \in {"enum", "dict"} => doc[d].index_ty \in WholeBytes

(* wire-format.md: "Maximum bit width is 65535." *)
IntegersFit(doc) ==
  /\ \A ty \in TypesWritten(doc) : ty.base.tag = "builtin" => ty.base.number <= MaxU16
  /\ \A d \in DOMAIN doc : doc[d].kind = "extern" /\ doc[d].ty # <<>> => doc[d].ty[1] <= MaxU16

(* dsl.md: "tag / index numbers are assigned like in C", one more than the *)
(* member before, unless given; the program has 64 bits for them.          *)
NumberLikeC(members, i) ==
  LET given == {j \in 1..i : members[j].index # <<>>}
  IN  IF given = {} THEN i - 1 ELSE members[Max(given)].index[1] + (i - Max(given))

NumbersFit(doc) ==
  \A d \in DOMAIN doc : doc[d].kind \in {"enum", "dict"} =>
    \A i \in DOMAIN doc[d].members : NumberLikeC(doc[d].members, i) <= MaxU64

NamesKnown(doc) == NamesMentioned(doc) \subseteq NamesDefined(doc)

WellFormedDocument(doc) ==
  /\ TypeNamesUnique(doc) /\ MemberNamesUnique(doc) /\ NamesKnown(doc)
  /\ VarintsFit(doc) /\ LengthsFit(doc) /\ IndexTypesFit(doc)
  /\ IntegersFit(doc) /\ NumbersFit(doc)
=============================================================================
