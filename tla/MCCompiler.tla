------------------------------ MODULE MCCompiler -----------------------------
(***************************************************************************)
(* Schemas, documents and texts for the model checker.                     *)
(***************************************************************************)
EXTENDS Compiler

(* Symbols of names: a letter, or one that begins like a builtin type. *)
A == <<"a">>
B == <<"b">>
C == <<"c">>

NamesWritten ==
  {A, B, C, <<"a", "_", "8">>, <<"u">>, <<"u", "8">>, <<"u", "0", "a">>, <<"u", "a">>, <<"i", "1", "a">>,
   <<"void">>, <<"void", "a">>, <<"a", "void">>}

(* A name is any sequence of symbols of which the identifiers consist. *)
MCIdent == Seq(Letters \cup Digits \cup {"_"})

MCMaxU64 == 131071
-----------------------------------------------------------------------------
(* Schemas: three definitions, each of which may hold any other and        *)
(* itself, and be read in place or not; the one in the middle may hold     *)
(* two, of which one or both come before it or after it.                   *)
Names == <<A, B, C>>

Others == {Allocated(t) : t \in 1..3}

Pairs(Entry(_)) == {<<x, y>> : x \in Entry(1), y \in Entry(2)}
Singles(Entry(_)) == {<<x>> : x \in Entry(1)}

Untagged(i) == [name : {Names[i]}, ty : Others]
Tagged(i) == [name : {Names[i]}, ty : Others \cup {Integer(0)}, index : {i}]

Node(h) ==
  (IF h = 1 THEN {[kind |-> "extern", name |-> Names[h]]}
   ELSE {[kind |-> "primitive", name |-> Names[h], bits |-> 16]})
    \cup [kind : {"vector", "stream"}, len_ty : {1}, elem_ty : Others \cup {Integer(8)}]
    \cup [kind : {"struct"}, name : {Names[h]}, members : Singles(Untagged)]
    \cup [kind : {"struct"}, name : {Names[h]}, members : IF h = 2 THEN Pairs(Untagged) ELSE {}]
    \cup [kind : {"packed"}, name : {Names[h]}, members : Singles(Untagged)]
    \cup [kind : {"enum", "dict"}, name : {Names[h]}, index_ty : {1}, members : Singles(Tagged)]

CompilerSchemas == {<<a, b, c>> : a \in Node(1), b \in Node(2), c \in Node(3)}
-----------------------------------------------------------------------------
(* Documents: types that are nested in one another in every way, names of  *)
(* every kind, numbers at the limits, and externs.                         *)
Named(name) == [tag |-> "ident", name |-> name]
Bits(bits) == [tag |-> "builtin", number |-> bits]
VarintBits(bits) == [tag |-> "varint", number |-> bits]

VectorLayer(tag, number) == [kind |-> "vector", len_ty |-> [tag |-> tag, number |-> number]]
StreamLayer(tag, number) == [kind |-> "stream", len_ty |-> [tag |-> tag, number |-> number]]

InVector == <<VectorLayer("fixed", 8)>>
InBoth == <<StreamLayer("varint", 16), VectorLayer("fixed", 8)>>
InTwo == <<VectorLayer("fixed", 16), VectorLayer("fixed", 8)>>
InVectors == <<VectorLayer("fixed", 16), VectorLayer("fixed", 16), VectorLayer("fixed", 8)>>

TypesOver(layerings, bases) == [layers : layerings, base : bases]
Given(S) == {<<x>> : x \in S}

MembersOver(names, tys, indices) == [name : names, ty : tys, index : indices]

BodiesOver(kinds, names, lists) == [kind : kinds, name : names, members : lists]
IndexedOver(kinds, names, index_tys, lists) ==
  [kind : kinds, name : names, index_ty : index_tys, members : lists]

NestedTypes ==
  Given(TypesOver({<<>>, InVector, InBoth, InTwo}, {Named(A), Named(B)})
          \cup TypesOver({<<>>}, {Bits(8), VarintBits(16)}))

SharedTypes == Given(TypesOver({InVectors}, {Bits(8), Named(B)}))

NestingDocuments ==
  {<<x, y>> :
     x \in BodiesOver({"struct"}, {A},
             {<<m, n>> : m \in MembersOver({A}, NestedTypes, {<<>>}), n \in MembersOver({B}, SharedTypes, {<<>>})})
           \cup IndexedOver({"enum"}, {A}, {64}, Given(MembersOver({A}, Given(TypesOver({InVector}, {Named(A), Named(B)})), {<<>>}))),
     y \in BodiesOver({"struct"}, {B},
             {<<>>} \cup Given(MembersOver({A}, Given(TypesOver({<<>>, InVector, InBoth}, {Named(A)})), {<<>>})))
           \cup BodiesOver({"packed"}, {B}, Given(MembersOver({A}, Given(TypesOver({<<>>}, {Named(A), Bits(8)})), {<<>>})))}

VoidTypes == Given(TypesOver({<<>>}, {Bits(0)}))
NamedTypes(names) == Given(TypesOver({<<>>, InVector}, {Named(name) : name \in names}))

NameDocuments ==
  {<<x>> : x \in
     BodiesOver({"struct"}, NamesWritten, Given(MembersOver({A, <<"u", "8">>}, VoidTypes, {<<>>})))
       \cup BodiesOver({"struct"}, {C}, Given(MembersOver(NamesWritten, VoidTypes, {<<>>})))
       \cup BodiesOver({"packed"}, {C}, Given(MembersOver({A}, NamedTypes(NamesWritten), {<<>>})))
       \cup IndexedOver({"dict"}, {C}, {8},
              {<<m, n>> : m \in MembersOver({A}, {<<>>} \cup NamedTypes({C, <<"u", "a">>}), {<<>>, <<8>>}),
                          n \in MembersOver({B, <<"u", "8">>, <<"void">>}, {<<>>}, {<<>>})})}

Limits == {0, 1, 255, 65535, 65536, MaxU64 - 1, MaxU64, Overflow}

LimitTypes == Given(TypesOver({<<>>}, {Bits(n) : n \in Limits} \cup {VarintBits(n) : n \in Limits})
                      \cup TypesOver({<<VectorLayer("varint", n)>> : n \in Limits}, {Bits(8)}))

NumberDocuments ==
  {<<x>> : x \in
     IndexedOver({"dict"}, {A}, {8}, Given(MembersOver({A}, LimitTypes, {<<>>})))
       \cup IndexedOver({"dict"}, {A}, {8}, Given(MembersOver({A}, {<<>>} \cup VoidTypes, Given(Limits))))
       \cup IndexedOver({"enum"}, {A}, Limits, Given(MembersOver({A}, {<<>>}, {<<>>, <<1>>})))
       \cup [kind : {"extern"}, name : {A}, ty : {<<>>} \cup Given(Limits)]}
    \cup {<<x, y>> : x \in [kind : {"extern"}, name : {A, <<"u", "8">>}, ty : {<<>>, <<8>>}],
                     y \in [kind : {"extern"}, name : {B}, ty : {<<>>, <<16>>}]}

CompilerDocuments == NestingDocuments \cup NameDocuments \cup NumberDocuments

ExternDocuments == {<<x>> : x \in [kind : {"extern"}, name : {A, B}, ty : {<<>>, <<8>>}]}
-----------------------------------------------------------------------------
(* Texts that nobody has written: any few tokens in a place. *)
AnyOf(tokens, n) == UNION {{FlattenSeq(list) : list \in [1..k -> tokens]} : k \in 0..n}

Within(before, texts, after) == {before \o t \o after : t \in texts}

CompilerTexts ==
  Within(<<"@enum", "(", "u", "8", ")", "a", "{">>,
         AnyOf({<<"a">>, <<"u", "8">>, <<":">>, <<"=", "1">>, <<"1">>}, 4), <<"}">>)
    \cup
  Within(<<"@struct", "a", "{", "b", ":">>,
         AnyOf({<<"@vector", "(", "u", "8">>, <<"@varint", "(">>, <<"u", "1", "6">>, <<"a">>, <<")">>, <<" ">>}, 4),
         <<"}">>)
    \cup
  AnyOf({<<"@struct">>, <<"@extern">>, <<"(", "u", "8", ")">>, <<"a", "{", "}">>, <<"b">>, <<"//">>, <<"\n">>}, 4)

None == {}
=============================================================================
