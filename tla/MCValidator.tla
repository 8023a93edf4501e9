----------------------------- MODULE MCValidator -----------------------------
(***************************************************************************)
(* Schemas for the model checker.  Names play no part in validation: the   *)
(* definition at position h is called Names[h], a member Names[i].         *)
(***************************************************************************)
EXTENDS Validator

MCIdent == {"a", "b", "c"}
Names == <<"a", "b", "c">>

(* Lists of at most two members, Entry(i) being the choices for the i-th. *)
UpToOne(Entry(_)) == {<<>>} \cup {<<x>> : x \in Entry(1)}
UpToTwo(Entry(_)) == UpToOne(Entry) \cup {<<x, y>> : x \in Entry(1), y \in Entry(2)}

Plain(i, tys) == [name : {Names[i]}, ty : tys]
Indexed(i, tys, indices) == [name : {Names[i]}, ty : tys, index : indices]

PrimitiveAt(h, bits) == [kind |-> "primitive", name |-> Names[h], bits |-> bits]
ExternAt(h) == [kind |-> "extern", name |-> Names[h]]

Sequences(kinds, tys) == [kind : kinds, len_ty : {1}, elem_ty : tys]

StructLikes(h, kinds, lists) == [kind : kinds, name : {Names[h]}, members : lists]

IndexedLikes(h, kinds, index_tys, lists) ==
  [kind : kinds, name : {Names[h]}, index_ty : index_tys, members : lists]
-----------------------------------------------------------------------------
(* One definition of every kind over one small companion: widths, tags and *)
(* bitmap indices at their limits (7, 8 of 8 bits; 255, 256 of one byte).  *)
MemberTypes(companion) == {Integer(4), Integer(8), Varint(2), Allocated(companion)}

Rich(h, companion) ==
  LET tys == MemberTypes(companion)
  IN  StructLikes(h, {"packed", "struct"}, UpToTwo(LAMBDA i : Plain(i, tys)))
        \cup IndexedLikes(h, {"enum", "dict"}, {1}, UpToTwo(LAMBDA i : Indexed(i, tys, {0, 7})))
        \cup IndexedLikes(h, {"enum", "dict"}, {1, 2, 8},
               UpToTwo(LAMBDA i : Indexed(i, {Integer(8)}, {0, 7, 8, 255, 256})))
        \cup Sequences({"vector", "stream"}, tys)

Companion(h) ==
  {PrimitiveAt(h, bits) : bits \in {0, 4, 8}} \cup {ExternAt(h)}
    \cup Sequences({"stream"}, {Integer(8)})
    \cup StructLikes(h, {"packed"}, UpToOne(LAMBDA i : Plain(i, {Integer(4), Integer(8)})))
    \cup IndexedLikes(h, {"enum", "dict"}, {1},
           UpToOne(LAMBDA i : Indexed(i, {Integer(4)}, {0})))

MemberSchemas ==
  {<<def, other>> : def \in Rich(1, 2), other \in Companion(2)}
    \cup {<<other, def>> : def \in Rich(2, 1), other \in Companion(1)}
-----------------------------------------------------------------------------
(* Three definitions that refer to one another in every way, themselves    *)
(* included; handle 4 is out of range.                                     *)
Node(h) ==
  {PrimitiveAt(h, 8)}
    \cup Sequences({"vector"}, {Allocated(t) : t \in 1..4})
    \cup Sequences({"stream"}, {Integer(4)})
    \cup StructLikes(h, {"struct"}, UpToTwo(LAMBDA i : Plain(i, {Allocated(t) : t \in 1..3})))
    \cup StructLikes(h, {"packed"}, UpToOne(LAMBDA i : Plain(i, {Allocated(t) : t \in 1..4})))
    \cup IndexedLikes(h, {"enum"}, {1},
           UpToOne(LAMBDA i : Indexed(i, {Allocated(t) : t \in 1..3}, {0})))

GraphSchemas == {<<a, b, c>> : a \in Node(1), b \in Node(2), c \in Node(3)}
-----------------------------------------------------------------------------
ValidatorSchemas == MemberSchemas \cup GraphSchemas

(* Enums with a small tag and with the widest. *)
WideTagSchemas ==
  {<<def>> : def \in IndexedLikes(1, {"enum"}, {1, 8},
               UpToTwo(LAMBDA i : Indexed(i, {Integer(8)}, 0..7)))}
=============================================================================
