----------------------------- MODULE SchemaRules -----------------------------
(***************************************************************************)
(* What specs/wire-format.md asks of a schema, stated on the finished      *)
(* schema and without reference to how the validator walks it.  Nothing    *)
(* here models code: the module is the yardstick of Validator.             *)
(***************************************************************************)
EXTENDS Schema, SequencesExt

Fixed(bits) == [tag |-> "fixed", bits |-> bits]
Variable == [tag |-> "variable"]
BitWidth == [tag : {"fixed"}, bits : Nat] \cup {Variable}

Misaligned(width) == width.tag = "fixed" /\ width.bits % 8 # 0

(* The width of a type, w giving the width of every definition. *)
WidthOfType(ty, w) ==
  CASE ty.tag = "integer" -> Fixed(ty.bits)
    [] ty.tag = "varint" -> Variable
    [] ty.tag = "allocated" -> w[ty.handle]

(* Fixed widths one after the other. *)
TotalBits(widths) == FoldLeft(LAMBDA sum, width : sum + width.bits, 0, widths)

WidthsOfTypes(def, w) == {WidthOfType(TypesOf(def)[i], w) : i \in DOMAIN TypesOf(def)}

(***************************************************************************)
(* "Fixed-Sized" (wire-format.md, Concepts): the width of a definition,    *)
(* given the widths w of the definitions it mentions.  An enum without     *)
(* variants has no value, so its width is free; the code says 0.           *)
(***************************************************************************)
WidthByRule(def, w) ==
  LET widths == WidthsOfTypes(def, w)
  IN  CASE def.kind = "primitive" -> Fixed(def.bits)
        [] def.kind = "packed" ->
             Fixed(TotalBits([i \in DOMAIN TypesOf(def) |-> WidthOfType(TypesOf(def)[i], w)]))
        [] def.kind = "enum" /\ widths = {} -> Fixed(0)
        [] def.kind = "enum" /\ \E width \in widths \ {Variable} : widths = {width} ->
             LET width == CHOOSE x \in widths : TRUE
             IN  Fixed(8 * def.index_ty + width.bits)
        [] def.kind = "dict" /\ widths \subseteq {Fixed(0)} -> Fixed(8 * def.index_ty)
        [] OTHER -> Variable

(* The widths of a schema whose nesting is at most as deep as it is long. *)
Widths(s) ==
  LET upTo[n \in 0..Len(s)] ==
        [h \in DOMAIN s |->
           IF n = 0 \/ (s[h].kind = "packed" /\ Variable \in WidthsOfTypes(s[h], upTo[n - 1]))
           THEN Variable
           ELSE WidthByRule(s[h], upTo[n - 1])]
  IN  upTo[Len(s)]

SequencesIn(s) == {h \in DOMAIN s : IsSequence(s[h])}

(* Nesting among the definitions in S comes to an end: every part of S has *)
(* a definition that mentions no other of it, and not itself.              *)
Grounded(s, S) ==
  \A part \in SUBSET S : part # {} => \E h \in part : \A t \in part : ~Mentions(s, h, t)

(* "Unbounded recursion without such a boundary is invalid": no definition *)
(* contains itself other than through a vector or a stream.                *)
RecursionGuarded(s) == Grounded(s, DOMAIN s \ SequencesIn(s))

(* No vector or stream is nested in itself alone: it would have no element. *)
SequencesFounded(s) == Grounded(s, SequencesIn(s))

(* Every vector and stream belongs to some definition that has a name:     *)
(* sequences that are mentioned by each other alone belong to none.        *)
SequencesUsed(s) ==
  \A part \in SUBSET SequencesIn(s) : part # {} =>
    \E h \in DOMAIN s \ part, t \in part : Mentions(s, h, t)

(* Packed: "Members must be fixed-sized types". *)
PackedMembersFixed(s) ==
  \A h \in DOMAIN s : s[h].kind = "packed" => Variable \notin WidthsOfTypes(s[h], Widths(s))

(* Packed: "Total bit-width must be multiple of 8". *)
PackedAligned(s) == \A h \in DOMAIN s : s[h].kind = "packed" => ~Misaligned(Widths(s)[h])

(* "Integers as member of composite types must be byte-aligned, except in  *)
(* packed": from is the first member of an enum the rule is applied to.    *)
MembersAligned(s, from) ==
  \A h \in DOMAIN s : s[h].kind \in {"struct", "enum", "dict"} =>
    \A i \in DOMAIN s[h].members :
      s[h].kind # "enum" \/ i >= from => ~Misaligned(WidthOfType(s[h].members[i].ty, Widths(s)))

(* Enum tags fit their tag type, dict indices are bits of the bitmap. *)
IndicesInRange(s) ==
  \A h \in DOMAIN s : IsIndexed(s[h]) =>
    \A i \in DOMAIN s[h].members :
      LET index == s[h].members[i].index
          bits == 8 * s[h].index_ty
      IN  IF s[h].kind = "dict" THEN index < bits
          ELSE bits = 64 \/ index < 2 ^ bits     \* an index is a u64

(* "Each variant must have a unique tag value", likewise for a dict. *)
IndicesDistinct(s) ==
  \A h \in DOMAIN s : IsIndexed(s[h]) =>
    \A i, j \in DOMAIN s[h].members :
      s[h].members[i].index = s[h].members[j].index => i = j
=============================================================================
