------------------------------- MODULE Schema -------------------------------
(***************************************************************************)
(* The schema a nisba document is resolved into                            *)
(* (crates/nisbac/src/schema.rs): a vector of definitions that refer to    *)
(* one another by handle.  A handle is an index of that vector, so a       *)
(* reference is cheap, may be recursive, and is only as good as the index. *)
(*                                                                         *)
(* Handle(i) of the code is i + 1 here.  The signedness of an integer and  *)
(* of a varint is left out: documents of the model are unsigned.           *)
(***************************************************************************)
EXTENDS Naturals, Sequences

CONSTANT Ident      \* the names a document may use

Handle == Nat \ {0}

(* Type: what a member or the element of a sequence is made of. *)
Integer(bits) == [tag |-> "integer", bits |-> bits]
Varint(size) == [tag |-> "varint", size |-> size]
Allocated(h) == [tag |-> "allocated", handle |-> h]

VarintSize == {2, 4, 8}

(* What a u16 holds. *)
MaxU16 == 65535
U16 == 0..MaxU16

IntegerType == [tag : {"integer"}, bits : U16]
VarintType == [tag : {"varint"}, size : VarintSize]
AllocatedType == [tag : {"allocated"}, handle : Handle]

Type == IntegerType \cup VarintType \cup AllocatedType

(* A length prefix is 1 to 8 bytes wide, or a varint: 8 + its size. *)
LenType == 1..8 \cup {8 + size : size \in VarintSize}

(* An enum's tag or a dict's bitmap is 1 to 8 bytes wide. *)
IndexType == 1..8

Member == [name : Ident, ty : Type]
IndexedMember == [name : Ident, ty : Type, index : Nat]

Primitive == [kind : {"primitive"}, name : Ident, bits : U16]
Extern == [kind : {"extern"}, name : Ident]
Sequence == [kind : {"vector", "stream"}, len_ty : LenType, elem_ty : Type]
StructLike == [kind : {"packed", "struct"}, name : Ident, members : Seq(Member)]
IndexedStructLike ==
  [kind : {"enum", "dict"}, name : Ident, index_ty : IndexType, members : Seq(IndexedMember)]

Definition == Primitive \cup Extern \cup Sequence \cup StructLike \cup IndexedStructLike

IsSequence(def) == def.kind \in {"vector", "stream"}

IsIndexed(def) == def.kind \in {"enum", "dict"}

(* The types a definition is built from, in the order they are visited. *)
TypesOf(def) ==
  CASE IsSequence(def) -> <<def.elem_ty>>
    [] def.kind \in {"primitive", "extern"} -> <<>>
    [] OTHER -> [i \in DOMAIN def.members |-> def.members[i].ty]

(* Definition h of schema s mentions definition t. *)
Mentions(s, h, t) ==
  \E i \in DOMAIN TypesOf(s[h]) : TypesOf(s[h])[i] = Allocated(t)

(* Every handle in schema s is an index of its definitions. *)
HandlesInRange(s) ==
  \A h \in DOMAIN s : \A i \in DOMAIN TypesOf(s[h]) :
    LET ty == TypesOf(s[h])[i]
    IN  ty.tag = "allocated" => ty.handle \in DOMAIN s
=============================================================================
