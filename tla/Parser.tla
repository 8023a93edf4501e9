------------------------------- MODULE Parser -------------------------------
(***************************************************************************)
(* The parser (crates/nisbac/src/parser.rs), a parsing expression grammar: *)
(* choices are tried in order and repetition gives nothing back.  The      *)
(* grammar is data here, a definition per rule, and Match is what the peg  *)
(* crate makes of it; Build has the actions of the rules.                  *)
(*                                                                         *)
(* A text is a sequence of symbols: a keyword with its "@", "void" and the *)
(* start of a comment are one, any other character is one of its own.      *)
(* Every white space is a space or a newline, letters stand for both       *)
(* cases, and those that no rule tells apart are left out.                 *)
(***************************************************************************)
EXTENDS Document, SequencesExt

HexDigits == <<"0", "1", "2", "3", "4", "5", "6", "7", "8", "9", "a", "b", "c", "d", "e", "f">>

Digits == Range(SubSeq(HexDigits, 1, 10))
Letters == Range(SubSeq(HexDigits, 11, 16)) \cup {"x", "u", "i", "void"}

(* Expressions. *)
One(symbols) == [op |-> "one", of |-> symbols]
Lit(symbol) == One({symbol})
AnySymbol == [op |-> "any"]
Chain(es) == [op |-> "chain", of |-> es]
Either(es) == [op |-> "either", of |-> es]
Many(e) == [op |-> "many", of |-> e]
Maybe(e) == [op |-> "maybe", of |-> e]
Unless(e) == [op |-> "unless", of |-> e]
As(name, e) == [op |-> "as", name |-> name, of |-> e]       \* name:e
Taken(e) == [op |-> "taken", of |-> e]                      \* $(e)
Rule(name) == [op |-> "rule", name |-> name]
Gap == Rule("gap")                                          \* _
-----------------------------------------------------------------------------
Doc == Chain(<<Gap, As("definitions", Many(Rule("definition")))>>)

DefinitionRule ==
  Either(<<Chain(<<As("x", Rule("extern")), Gap>>),
           Chain(<<As("x", Rule("struct_like")), Gap>>),
           Chain(<<As("x", Rule("indexed_struct_like")), Gap>>)>>)

ExternBody ==
  Either(<<Chain(<<Lit("("), Gap, As("builtin", Rule("builtin")), Gap, Lit(")"), Gap>>),
           Chain(<<Rule("ws")>>)>>)

ExternRule ==
  Chain(<<Lit("@extern"), Gap, As("alias", Rule("extern_body")), Gap,
          As("name", Rule("valid_name"))>>)

MemberRule ==
  Chain(<<As("name", Rule("identifier")), Gap, Lit(":"), Gap, As("ty", Rule("ty")), Gap>>)

StructLikeRule ==
  Chain(<<As("kind", One({"@struct", "@packed"})), Gap, As("name", Rule("valid_name")), Gap,
          Lit("{"), Gap, As("members", Many(Rule("member"))), Lit("}")>>)

MemberType == Chain(<<Lit(":"), Gap, As("x", Rule("ty"))>>)
MemberIndex == Chain(<<Lit("="), Gap, As("x", Rule("number"))>>)

IndexedMemberRule ==
  Chain(<<As("name", Rule("identifier")), Gap, As("ty", Maybe(Rule("member_type"))), Gap,
          As("index", Maybe(Rule("member_index"))), Gap>>)

IndexedStructLikeRule ==
  Chain(<<As("kind", One({"@enum", "@dict"})), Gap,
          Lit("("), Gap, As("index_ty", Rule("unsigned")), Gap, Lit(")"), Gap,
          As("name", Rule("valid_name")), Gap,
          Lit("{"), Gap, As("members", Many(Rule("indexed_member"))), Lit("}")>>)

TypeRule ==
  Either(<<Chain(<<As("sequence", Rule("sequence_like"))>>),
           Chain(<<As("varint", Rule("varint_signed"))>>),
           Chain(<<As("varint", Rule("varint_unsigned"))>>),
           Chain(<<As("ident", Rule("valid_name"))>>),
           Chain(<<As("builtin", Rule("builtin"))>>)>>)

SequenceLike ==
  Chain(<<As("kind", One({"@vector", "@stream"})), Gap, Lit("("), Gap,
          As("len_ty", Rule("len_type")), Gap, As("elem_ty", Rule("ty")), Gap, Lit(")")>>)

LenTypeRule ==
  Either(<<Chain(<<As("fixed", Rule("unsigned"))>>), Chain(<<As("varint", Rule("varint_unsigned"))>>)>>)

VarintOf(rule) == Chain(<<Lit("@varint"), Gap, Lit("("), Gap, As("x", Rule(rule)), Gap, Lit(")")>>)

ValidName ==
  Chain(<<Unless(Either(<<Rule("builtin"), One({"{", "@", ")", "}", "="}), Rule("ws"), Rule("eof")>>)),
          As("x", Rule("identifier"))>>)

BuiltinRule ==
  Either(<<Chain(<<Lit("void")>>), Chain(<<As("x", Rule("signed"))>>), Chain(<<As("x", Rule("unsigned"))>>)>>)

PackedDec ==
  Either(<<Taken(Lit("0")),
           Taken(Chain(<<One(Digits \ {"0"}), Many(One(Digits \cup {"_"}))>>))>>)

(* A prefix, underscores, a digit at least. *)
Prefixed(prefix, label, digits) ==
  Chain(<<Lit("0"), Lit(prefix), Many(Lit("_")),
          As(label, Taken(Chain(<<One(digits), Many(One(digits \cup {"_"}))>>)))>>)

Decimal == Chain(<<As("dec", Taken(Chain(<<One(Digits), Many(One(Digits \cup {"_"}))>>)))>>)
Binary == Prefixed("b", "bin", {"0", "1"})
Hexadecimal == Prefixed("x", "hex", Range(HexDigits))

NumberRule == Either(<<Binary, Hexadecimal, Decimal>>)

Identifier == Taken(Chain(<<One(Letters), Many(One(Letters \cup Digits \cup {"_"}))>>))

Ws == Either(<<One({" ", "\n"}), Rule("comment")>>)

(* A comment has a character at least. *)
CommentChar == Chain(<<Unless(Either(<<Lit("\n"), Rule("eof")>>)), AnySymbol>>)
Comment == Chain(<<Lit("//"), CommentChar, Many(CommentChar)>>)

Rules ==
  [doc |-> Doc, definition |-> DefinitionRule, extern_body |-> ExternBody, extern |-> ExternRule,
   member |-> MemberRule, struct_like |-> StructLikeRule, member_type |-> MemberType,
   member_index |-> MemberIndex, indexed_member |-> IndexedMemberRule,
   indexed_struct_like |-> IndexedStructLikeRule, ty |-> TypeRule, sequence_like |-> SequenceLike,
   len_type |-> LenTypeRule, varint_unsigned |-> VarintOf("unsigned"),
   varint_signed |-> VarintOf("signed"), valid_name |-> ValidName, builtin |-> BuiltinRule,
   unsigned |-> Chain(<<Lit("u"), As("x", Rule("packed_dec"))>>),
   signed |-> Chain(<<Lit("i"), As("x", Rule("packed_dec"))>>),
   packed_dec |-> PackedDec, number |-> NumberRule, identifier |-> Identifier,
   gap |-> Many(Rule("ws")), ws |-> Ws, comment |-> Comment, eof |-> Unless(AnySymbol)]
-----------------------------------------------------------------------------
(* Number::update: a number that is too large once is so for good. *)
UpdateWraps(value, mul, add) == (value * mul + add) % (MaxU64 + 1)     \* Mutant

Update(value, mul, add) ==
  IF value = Overflow \/ value * mul + add > MaxU64 THEN Overflow ELSE value * mul + add

DigitOf(symbol) == CHOOSE n \in 0..15 : HexDigits[n + 1] = symbol

ValueOf(symbols, base) ==
  LET upTo[i \in 1..Len(symbols)] ==
        CASE i = 1 -> DigitOf(symbols[1])
          [] i > 1 /\ symbols[i] = "_" -> upTo[i - 1]
          [] OTHER -> Update(upTo[i - 1], base, DigitOf(symbols[i]))
  IN  upTo[Len(symbols)]

Plain(base) == [layers |-> <<>>, base |-> base]

BuildType(c) ==
  CASE "sequence" \in DOMAIN c -> c.sequence
    [] "varint" \in DOMAIN c -> Plain([tag |-> "varint", number |-> c.varint])
    [] "ident" \in DOMAIN c -> Plain([tag |-> "ident", name |-> c.ident])
    [] "builtin" \in DOMAIN c -> Plain([tag |-> "builtin", number |-> c.builtin])

BuildSequence(c) ==
  [layers |-> <<[kind |-> c.kind, len_ty |-> c.len_ty]>> \o c.elem_ty.layers,
   base |-> c.elem_ty.base]

BuildLenType(c) ==
  IF "fixed" \in DOMAIN c THEN [tag |-> "fixed", number |-> c.fixed]
  ELSE [tag |-> "varint", number |-> c.varint]

BuildNumber(c) ==
  CASE "bin" \in DOMAIN c -> ValueOf(c.bin, 2)
    [] "hex" \in DOMAIN c -> ValueOf(c.hex, 16)
    [] "dec" \in DOMAIN c -> ValueOf(c.dec, 10)

(* Kinds are named for their keywords. *)
Keyword == [extern |-> "@extern", struct |-> "@struct", packed |-> "@packed", enum |-> "@enum",
            dict |-> "@dict", vector |-> "@vector", stream |-> "@stream"]
KindOf(keyword) == CHOOSE kind \in DOMAIN Keyword : Keyword[kind] = keyword

(* The action of a rule; c has what the rule has given a name. *)
Build(rule, c) ==
  CASE rule = "doc" -> c.definitions
    [] rule = "extern" -> [kind |-> "extern", name |-> c.name, ty |-> c.alias]
    [] rule = "extern_body" -> IF "builtin" \in DOMAIN c THEN <<c.builtin>> ELSE <<>>
    [] rule = "member" -> [name |-> c.name, ty |-> <<c.ty>>, index |-> <<>>]
    [] rule \in {"struct_like", "indexed_struct_like"} -> [c EXCEPT !.kind = KindOf(@)]
    [] rule = "indexed_member" -> c
    [] rule = "ty" -> BuildType(c)
    [] rule = "sequence_like" -> BuildSequence([c EXCEPT !.kind = KindOf(@)])
    [] rule = "len_type" -> BuildLenType(c)
    [] rule = "builtin" -> IF "x" \in DOMAIN c THEN c.x ELSE 0     \* void
    [] rule = "packed_dec" -> ValueOf(c, 10)
    [] rule = "number" -> BuildNumber(c)
    [] rule = "identifier" -> c
    [] rule \in {"gap", "ws", "comment", "eof"} -> <<>>
    [] OTHER -> c.x
-----------------------------------------------------------------------------
(* What e matches of the text s from p on: nothing, or the one match a     *)
(* parsing expression has.                                                 *)
Hit(pos, value) == [pos |-> pos, value |-> value]

RECURSIVE Match(_, _, _)

MatchChain(es, s, p) ==
  LET Kept(e, value) == IF e.op = "as" THEN e.name :> value ELSE <<>>
      upTo[i \in 0..Len(es)] ==
        IF i = 0 THEN {Hit(p, <<>>)}
        ELSE UNION {{Hit(m.pos, b.value @@ Kept(es[i], m.value)) : m \in Match(es[i], s, b.pos)} :
                      b \in upTo[i - 1]}
  IN  upTo[Len(es)]

MatchEither(es, s, p) ==
  LET from[i \in 1..Len(es) + 1] ==
        IF i > Len(es) THEN {}
        ELSE UNION {IF m # {} THEN m ELSE from[i + 1] : m \in {Match(es[i], s, p)}}
  IN  from[1]

MatchMany(e, s, p) ==
  LET Further(m) == {Hit(rest.pos, <<m.value>> \o rest.value) : rest \in Match(Many(e), s, m.pos)}
  IN  UNION {IF hit = {} THEN {Hit(p, <<>>)} ELSE UNION {Further(m) : m \in hit} :
               hit \in {Match(e, s, p)}}

Match(e, s, p) ==
  CASE e.op = "one" -> IF p <= Len(s) /\ s[p] \in e.of THEN {Hit(p + 1, s[p])} ELSE {}
    [] e.op = "any" -> IF p <= Len(s) THEN {Hit(p + 1, s[p])} ELSE {}
    [] e.op = "chain" -> MatchChain(e.of, s, p)
    [] e.op = "either" -> MatchEither(e.of, s, p)
    [] e.op = "many" -> MatchMany(e.of, s, p)
    [] e.op = "maybe" ->
         UNION {IF hit = {} THEN {Hit(p, <<>>)} ELSE {Hit(m.pos, <<m.value>>) : m \in hit} :
                  hit \in {Match(e.of, s, p)}}
    [] e.op = "unless" -> IF Match(e.of, s, p) = {} THEN {Hit(p, <<>>)} ELSE {}
    [] e.op = "as" -> Match(e.of, s, p)
    [] e.op = "taken" -> {Hit(m.pos, SubSeq(s, p, m.pos - 1)) : m \in Match(e.of, s, p)}
    [] e.op = "rule" -> {Hit(m.pos, Build(e.name, m.value)) : m \in Match(Rules[e.name], s, p)}

(* Mutant: what follows the last definition is not looked at. *)
ParsePrefix(text) == {m.value : m \in Match(Rule("doc"), text, 1)}

(* The document, in a set that is empty if the text is refused. *)
Parse(text) == {m.value : m \in {n \in Match(Rule("doc"), text, 1) : n.pos = Len(text) + 1}}
-----------------------------------------------------------------------------
(***************************************************************************)
(* The texts of a document: tokens with sep between them, or without where *)
(* they are no words, numbers in any base.  The grammar of dsl.md asks for *)
(* white space after @struct and @packed; without it a text goes further,  *)
(* as the parser does.  Nothing below models code.                         *)
(***************************************************************************)
Styles ==
  {[sep |-> <<>>, base |-> 10, sign |-> "u", tail |-> <<>>],
   [sep |-> <<"\n">>, base |-> 2, sign |-> "i", tail |-> <<>>],
   [sep |-> <<" ", "//", "a", "}", "\n">>, base |-> 16, sign |-> "i", tail |-> <<"0">>]}

PlainStyle == CHOOSE style \in Styles : style.sep = <<>>

InDigits(n, base) ==
  LET digits[m \in 0..n] == IF m < base THEN <<HexDigits[m + 1]>>
                            ELSE Append(digits[m \div base], HexDigits[(m % base) + 1])
  IN  digits[n]

(* A number that overflows may be longer still. *)
WidthText(n, style) == InDigits(n, 10) \o (IF n = Overflow THEN style.tail ELSE <<>>)

IndexText(n, style) ==
  LET digits == InDigits(n, style.base) \o (IF n = Overflow THEN style.tail ELSE <<>>)
  IN  CASE style.base = 10 -> digits
        [] style.base = 2 -> <<"0", "b">> \o digits
        [] style.base = 16 -> <<"0", "x", "_">> \o FlattenSeq([i \in DOMAIN digits |-> <<digits[i], "_">>])

VarintTokens(sign, n, style) == <<<<"@varint">>, <<"(">>, <<sign>> \o WidthText(n, style), <<")">>>>

LayerTokens(layer, style) ==
  <<<<Keyword[layer.kind]>>, <<"(">>>> \o
    (IF layer.len_ty.tag = "fixed" THEN <<<<"u">> \o WidthText(layer.len_ty.number, style)>>
     ELSE VarintTokens("u", layer.len_ty.number, style))

BaseTokens(base, style) ==
  CASE base.tag = "ident" -> <<base.name>>
    [] base.tag = "varint" -> VarintTokens(style.sign, base.number, style)
    [] base.tag = "builtin" /\ base.number = 0 -> <<<<"void">>>>
    [] base.tag = "builtin" /\ base.number # 0 -> <<<<style.sign>> \o WidthText(base.number, style)>>

TypeTokens(ty, style) ==
  FlattenSeq([i \in DOMAIN ty.layers |-> LayerTokens(ty.layers[i], style)])
    \o BaseTokens(ty.base, style) \o [i \in DOMAIN ty.layers |-> <<")">>]

MemberTokens(member, style) ==
  <<member.name>>
    \o (IF member.ty = <<>> THEN <<>> ELSE <<<<":">>>> \o TypeTokens(member.ty[1], style))
    \o (IF member.index = <<>> THEN <<>> ELSE <<<<"=">>, IndexText(member.index[1], style)>>)

DefinitionTokens(def, style) ==
  <<<<Keyword[def.kind]>>>>
    \o (CASE def.kind = "extern" /\ def.ty # <<>> ->
               <<<<"(">>>> \o BaseTokens([tag |-> "builtin", number |-> def.ty[1]], style) \o <<<<")">>>>
          [] def.kind \in {"enum", "dict"} -> <<<<"(">>, <<"u">> \o WidthText(def.index_ty, style), <<")">>>>
          [] OTHER -> <<>>)
    \o <<def.name>>
    \o (IF def.kind = "extern" THEN <<>>
        ELSE <<<<"{">>>> \o FlattenSeq([i \in DOMAIN def.members |-> MemberTokens(def.members[i], style)])
               \o <<<<"}">>>>)

WordSymbols == Letters \cup Digits \cup {"_"}

Written(document, style) ==
  LET tokens == FlattenSeq([d \in DOMAIN document |-> DefinitionTokens(document[d], style)])
      Words(i) == i < Len(tokens) /\ Last(tokens[i]) \in WordSymbols /\ tokens[i + 1][1] \in WordSymbols
      After(i) == IF style.sep = <<>> /\ Words(i) THEN <<" ">> ELSE style.sep
  IN  style.sep \o FlattenSeq([i \in DOMAIN tokens |-> tokens[i] \o After(i)])
=============================================================================
