----------------------------- MODULE MCResolver -----------------------------
(***************************************************************************)
(* Documents for the model checker.                                        *)
(***************************************************************************)
EXTENDS Resolver

MCIdent == {"a", "b", "c"}

(* The numbers around u16::MAX must exist; u64::MAX is made smaller. *)
MCMaxU64 == 131071

Named(name) == [tag |-> "ident", name |-> name]
Builtin(bits) == [tag |-> "builtin", number |-> bits]
VarintOf(bits) == [tag |-> "varint", number |-> bits]
Len8 == [tag |-> "fixed", number |-> 8]
LayersOf(kinds, len_tys) == [kind : kinds, len_ty : len_tys]

TypesOver(layerings, bases) == [layers : layerings, base : bases]

MembersWith(names, tys, indices) ==
  [name : names, ty : {<<>>} \cup {<<type>> : type \in tys}, index : indices]
TypedMember(name, tys) == [name : {name}, ty : {<<type>> : type \in tys}, index : {<<>>}]

UpToOne(S) == {<<>>} \cup {<<x>> : x \in S}
UpToTwo(S, T) == UpToOne(S) \cup {<<x, y>> : x \in S, y \in T}

Body(kinds, names, lists) == [kind : kinds, name : names, members : lists]
IndexedBody(kinds, names, index_tys, lists) ==
  [kind : kinds, name : names, index_ty : index_tys, members : lists]
ExternBody(names, tys) == [kind : {"extern"}, name : names, ty : tys]
-----------------------------------------------------------------------------
(* Names: "c" is mentioned and may never be defined; sequences are nested  *)
(* twice; definitions are mentioned before and after they are written.     *)
Vectors == LayersOf({"vector"}, {Len8})
Streams == LayersOf({"stream"}, {Len8})

NameTypes ==
  TypesOver(UpToTwo(Vectors, Vectors \cup Streams), {Named(name) : name \in MCIdent})

BigDefinitions(names) ==
  Body({"struct"}, names, UpToTwo(TypedMember("a", NameTypes), TypedMember("b", NameTypes)))

SmallDefinitions(names) ==
  ExternBody(names, {<<>>})
    \cup Body({"packed"}, names,
           UpToOne(TypedMember("a", TypesOver(UpToTwo(Vectors, Vectors),
                                              {Named("a"), Named("c"), Builtin(8)}))))

NameDocuments ==
  {<<>>}
    \cup {<<big>> : big \in BigDefinitions({"a"})}
    \cup {<<big, small>> : big \in BigDefinitions({"a"}), small \in SmallDefinitions({"a", "b", "c"})}
    \cup {<<small, big>> : big \in BigDefinitions({"a"}), small \in SmallDefinitions({"a", "b"})}
    \cup {<<x, y, z>> : x \in SmallDefinitions({"a"}), y \in SmallDefinitions({"a", "b"}),
                        z \in SmallDefinitions({"b", "c"})}
-----------------------------------------------------------------------------
(* Numbers: each width at and around its limits, and index numbers given,  *)
(* left out, repeated, last and too big.                                   *)
LenTypes ==
  [tag : {"fixed"}, number : {0, 8, 12, 24, 64, 72, 65536}]
    \cup [tag : {"varint"}, number : {16, 17, 64, Overflow}]

NumberTypes ==
  TypesOver({<<>>}, {Builtin(bits) : bits \in {0, 65535, 65536}}
                      \cup {VarintOf(bits) : bits \in {8, 16, 64, Overflow}})
    \cup TypesOver({<<x, y>> : x \in LayersOf({"vector"}, LenTypes),
                               y \in LayersOf({"vector", "stream"}, {Len8, [Len8 EXCEPT !.number = 9]})},
                   {Builtin(8), Builtin(Overflow)})

Indices == {<<>>} \cup {<<n>> : n \in {0, 5, MaxU64 - 1, MaxU64, Overflow}}

NumberDocuments ==
  {<<def>> : def \in
     ExternBody({"a"}, {<<>>, <<8>>, <<65535>>, <<65536>>})
       \cup Body({"packed", "struct"}, {"a"},
              UpToTwo(TypedMember("a", NumberTypes), TypedMember("a", NumberTypes)))
       \cup Body({"struct"}, {"a"},
              {<<x, y>> : x \in TypedMember("a", NumberTypes), y \in TypedMember("b", NumberTypes)})
       \cup IndexedBody({"enum", "dict"}, {"a"}, {0, 8, 12, 64, 72, Overflow},
              UpToOne(MembersWith({"a"}, NumberTypes, {<<>>, <<5>>})))
       \cup IndexedBody({"enum", "dict"}, {"a"}, {8},
              UpToTwo(MembersWith({"a"}, {}, Indices), MembersWith({"a", "b"}, {}, Indices)))
       \cup IndexedBody({"enum"}, {"a"}, {64},
              {<<x, y, z>> : x \in MembersWith({"a"}, {}, Indices),
                             y \in MembersWith({"b"}, {}, Indices),
                             z \in MembersWith({"c"}, {}, Indices)})}
-----------------------------------------------------------------------------
ResolverDocuments == NameDocuments \cup NumberDocuments
=============================================================================
