------------------------------ MODULE Lifetimes ------------------------------
(***************************************************************************)
(* The part of the code generator that decides which of the generated      *)
(* types borrow from the input (crates/nisbac/src/back/rust.rs,            *)
(* calc_lifetime), once the validator has said Ok.  A stream and a vector  *)
(* of fixed-sized elements are read in place, so they borrow, and with     *)
(* them everything that holds one.  The marks are spread along referrers,  *)
(* which the validator has collected on its walk.                          *)
(***************************************************************************)
EXTENDS Validator

VARIABLES
  kind,             \* Context.kind, a CodeGenKind, or "none"
  has_lifetime,     \* Context.has_lifetime
  source,           \* the index of the loop in calc_lifetime
  calls             \* the frames of the active calls of mark_lifetime

marks == <<kind, has_lifetime, source, calls>>

CodeGenKind == {"encode", "decode"}

Generating == result = "ok"

(* A vector of elements of a fixed size is read in place. *)
ZeroCopy(def) == def.kind = "vector" /\ WidthOfType(def.elem_ty, bit_width) # Variable

IsSourceStream(def) == def.kind = "stream"     \* Mutant: vectors own their elements

IsSource(def) == def.kind = "stream" \/ ZeroCopy(def)
-----------------------------------------------------------------------------
(* Mutant: the mark is set when the referrers are done. *)
MarkLate(frames, h) ==
  UNCHANGED has_lifetime /\ calls' = Append(frames, [handle |-> h, next |-> 1])

(* mark_lifetime is entered, for a definition without a mark. *)
Mark(frames, h) ==
  /\ has_lifetime' = [has_lifetime EXCEPT ![h] = TRUE]
  /\ calls' = Append(frames, [handle |-> h, next |-> 1])

AtSource == Generating /\ kind = "decode" /\ calls = <<>> /\ source \in Handles

(* Mutant: the loop does not pass what it marks. *)
NextSourceSticks(s) == IF IsSource(schema[s]) THEN s ELSE s + 1

NextSource(s) == s + 1

MarkSource ==
  /\ AtSource
  /\ IsSource(schema[source])
  /\ ~has_lifetime[source]
  /\ Mark(<<>>, source)
  /\ source' = NextSource(source)

PassSource ==
  /\ AtSource
  /\ ~IsSource(schema[source]) \/ has_lifetime[source]
  /\ source' = NextSource(source)
  /\ UNCHANGED <<has_lifetime, calls>>

Call == calls[Len(calls)]

NextReferrer == referrers[Call.handle][Call.next]

AdvancedTwice == [calls EXCEPT ![Len(calls)].next = @ + 2]     \* Mutant

Advanced == [calls EXCEPT ![Len(calls)].next = @ + 1]

AtReferrer == calls # <<>> /\ Call.next \in DOMAIN referrers[Call.handle]

MarkReferrer ==
  /\ AtReferrer
  /\ ~has_lifetime[NextReferrer]
  /\ Mark(Advanced, NextReferrer)
  /\ UNCHANGED source

PassReferrer ==
  /\ AtReferrer
  /\ has_lifetime[NextReferrer]
  /\ calls' = Advanced
  /\ UNCHANGED <<has_lifetime, source>>

Return ==
  /\ calls # <<>>
  /\ Call.next \notin DOMAIN referrers[Call.handle]
  /\ calls' = Front(calls)
  /\ UNCHANGED <<has_lifetime, source>>
-----------------------------------------------------------------------------
(* Context, before calc_lifetime. *)
NewMarks ==
  /\ has_lifetime = [h \in Handles |-> FALSE]
  /\ source = 1
  /\ calls = <<>>

CalcLifetime ==
  /\ MarkSource \/ PassSource \/ MarkReferrer \/ PassReferrer \/ Return
  /\ UNCHANGED <<vars, kind>>
-----------------------------------------------------------------------------
(***************************************************************************)
(* The types that are generated.  ReadInPlace is what makes a Slice or a   *)
(* Stream of a sequence.  TypeBorrows is Type::generate, reduced to        *)
(* whether the text names the lifetime 'a; a sequence has no name, so its  *)
(* text is that of its element, wrapped.                                   *)
(***************************************************************************)
ReadInPlace(def) ==
  def.kind = "stream" \/ WidthOfType(def.elem_ty, bit_width) # Variable

TypeBorrows(ty) ==
  LET borrows[n \in 0..Len(schema)] ==
        [h \in Handles |->
           CASE schema[h].kind \in {"primitive", "extern"} -> FALSE
             [] schema[h].kind \in {"packed", "struct", "enum", "dict"} -> has_lifetime[h] /\ kind = "decode"
             [] IsSequence(schema[h]) /\ kind = "decode" /\ ReadInPlace(schema[h]) -> TRUE
             [] OTHER -> /\ n > 0
                         /\ schema[h].elem_ty.tag = "allocated"
                         /\ borrows[n - 1][schema[h].elem_ty.handle]]
  IN  ty.tag = "allocated" /\ borrows[Len(schema)][ty.handle]

(* The generated type has a parameter 'a: a packed one never has. *)
DeclaresLifetime(def, h) == def.kind \in {"struct", "enum", "dict"} /\ has_lifetime[h]

Generated ==
  /\ Generating /\ calls = <<>>
  /\ \/ kind = "encode"
     \/ kind = "decode" /\ source \notin Handles
-----------------------------------------------------------------------------
(***************************************************************************)
(* The generated code compiles, as far as lifetimes go: a type declares 'a *)
(* if and only if one of its members needs it, through however many        *)
(* definitions and sequences, in whatever order they were visited.         *)
(***************************************************************************)
LifetimesDeclared ==
  Generated =>
    \A h \in Handles : ~IsSequence(schema[h]) =>
      (DeclaresLifetime(schema[h], h)
         <=> \E i \in DOMAIN TypesOf(schema[h]) : TypeBorrows(TypesOf(schema[h])[i]))

(***************************************************************************)
(* The recursion of mark_lifetime is bounded on schemas that contain       *)
(* themselves: who is being marked is not entered again.                   *)
(***************************************************************************)
MarkedOnce == \A i, j \in DOMAIN calls : calls[i].handle = calls[j].handle => i = j

(* Whatever refers to a marked definition is marked, or a call that is     *)
(* still active will come to it.                                           *)
MarksSpread ==
  \A h \in Handles : has_lifetime[h] =>
    \A i \in DOMAIN referrers[h] :
      \/ has_lifetime[referrers[h][i]]
      \/ \E c \in DOMAIN calls : calls[c].handle = h /\ calls[c].next <= i
=============================================================================
