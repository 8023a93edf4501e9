------------------------------ MODULE Validator ------------------------------
(***************************************************************************)
(* The schema validator (crates/nisbac/src/schema/validator.rs): a depth-  *)
(* first walk over the definitions of a schema that computes the bit width *)
(* of each, records who refers to whom, and rejects unbounded recursion    *)
(* and members that do not fit.  The recursion of Definition::validate and *)
(* Type::validate is a stack of frames here, one step per member.          *)
(***************************************************************************)
EXTENDS SchemaRules, SequencesExt

CONSTANTS
  Schemas,          \* the schemas the validator may be given
  OverflowChecks    \* was the compiler built with overflow checks?

ASSUME SchemasAssumption == Schemas \subseteq Seq(Definition)
ASSUME OverflowChecksAssumption == OverflowChecks \in BOOLEAN

VARIABLES
  schema,           \* the schema under validation
  states,           \* Validator.states
  bit_width,        \* Validator.bit_width, a slice of MaybeUninit
  referrers,        \* Validator.referrers
  rec_sequences,    \* Validator.rec_sequences
  stack,            \* the frames of the active calls of Definition::validate
  root,             \* the index of the loop in Validator::validate
  result            \* "running", "ok", an Error, or "panic"

tables == <<states, bit_width, referrers, rec_sequences>>
vars == <<schema, states, bit_width, referrers, rec_sequences, stack, root, result>>

Uninit == [tag |-> "uninit"]

Errors ==
  {"HandleOutOfRange", "RecursiveDefinition", "RequiresFixedSize", "RequiresByteAligned",
   "IndexOutOfRange", "DuplicateIndex", "RecursiveStream", "UnusedSequence"}

Handles == DOMAIN schema
-----------------------------------------------------------------------------
(***************************************************************************)
(* One frame: the definition being validated, the member it looks at next, *)
(* and the width accumulated over the members before that.                 *)
(***************************************************************************)
StartWidth(def) ==
  CASE def.kind = "primitive" -> Fixed(def.bits)
    [] def.kind \in {"packed", "enum"} -> Fixed(0)
    [] def.kind = "dict" -> Fixed(8 * def.index_ty)
    [] OTHER -> Variable

(* Mutant: a definition met again resumes from the width it was given. *)
FrameResumed(h) ==
  [handle |-> h, next |-> 1,
   width |-> IF bit_width[h] = Uninit THEN StartWidth(schema[h]) ELSE bit_width[h]]

Frame(h) == [handle |-> h, next |-> 1, width |-> StartWidth(schema[h])]

Top == stack[Len(stack)]
Def == schema[Top.handle]
Types == TypesOf(Def)
Ty == Types[Top.next]

Active == result = "running" /\ stack # <<>>

AtMember == Active /\ ~IsSequence(Def) /\ Top.next \in DOMAIN Types
AtElement == Active /\ IsSequence(Def) /\ Top.next \in DOMAIN Types
AtEnd == Active /\ Top.next \notin DOMAIN Types

(* The frame of the caller moves on to its next member. *)
Advance(width) ==
  [stack EXCEPT ![Len(stack)] =
     [handle |-> Top.handle, next |-> Top.next + 1, width |-> width]]

(* Err(error)?, or a panic: the tables are dropped with the validator. *)
Fail(error) == result' = error /\ UNCHANGED <<schema, tables, stack, root>>
-----------------------------------------------------------------------------
(***************************************************************************)
(* The index of a member of an enum or a dict.  The cap of an enum is      *)
(* 1u64 << 8 * index_ty: for 8 bytes the shift overflows, which panics in  *)
(* a build with overflow checks and shifts by 0 in one without.            *)
(***************************************************************************)
ShiftOverflows(def) == def.kind = "enum" /\ 8 * def.index_ty >= 64

(* Mutant: the index after the last is let through. *)
IndexCapInclusive(def) ==
  IF def.kind = "dict" THEN 8 * def.index_ty + 1 ELSE 2 ^ ((8 * def.index_ty) % 64) + 1

IndexCap(def) ==
  IF def.kind = "dict" THEN 8 * def.index_ty ELSE 2 ^ ((8 * def.index_ty) % 64)

IndexFits(def, i) == def.members[i].index < IndexCap(def)

IndexError(def, i) ==
  IF ~IsIndexed(def) THEN "none"
  ELSE IF ShiftOverflows(def) /\ OverflowChecks THEN "panic"
  ELSE IF ~IndexFits(def, i) THEN "IndexOutOfRange"
  ELSE IF \E j \in 1..(i - 1) : def.members[j].index = def.members[i].index THEN "DuplicateIndex"
  ELSE "none"

(* What the width of member i adds to the width accumulated before it. *)
AbsorbFirst(def, i, acc, width) ==     \* Mutant: an enum is as wide as its first variant
  CASE def.kind = "packed" -> Fixed(acc.bits + width.bits)
    [] def.kind = "enum" -> IF i = 1 THEN width ELSE acc
    [] def.kind = "dict" -> IF width = Fixed(0) THEN acc ELSE Variable
    [] OTHER -> Variable

Absorb(def, i, acc, width) ==
  CASE def.kind = "packed" -> Fixed(acc.bits + width.bits)
    [] def.kind = "enum" -> IF i = 1 \/ width = acc THEN width ELSE Variable
    [] def.kind = "dict" -> IF width = Fixed(0) THEN acc ELSE Variable
    [] OTHER -> Variable

(* The first variant of an enum is not held to be byte-aligned. *)
WidthError(def, i, width) ==
  CASE def.kind = "packed" /\ width = Variable -> "RequiresFixedSize"
    [] def.kind \in {"struct", "dict"} /\ Misaligned(width) -> "RequiresByteAligned"
    [] def.kind = "enum" /\ i > 1 /\ Misaligned(width) -> "RequiresByteAligned"
    [] OTHER -> "none"

(* BitWidth + usize, for an enum that has a variant. *)
FinalWidth(def, acc) ==
  IF def.kind = "enum" /\ def.members # <<>> /\ acc # Variable
  THEN Fixed(acc.bits + 8 * def.index_ty) ELSE acc
-----------------------------------------------------------------------------
(***************************************************************************)
(* Definition::validate is entered: from the loop over the definitions,    *)
(* where it is called again for definitions that a reference has already   *)
(* validated, or for a member or an element.                               *)
(***************************************************************************)
Enter(caller, h) ==
  /\ states' = [states EXCEPT ![h] = "visited"]
  /\ stack' = Append(caller, Frame(h))
  /\ UNCHANGED <<schema, bit_width, result>>

NextRootSticks(r) == IF IsSequence(schema[r]) THEN r ELSE r + 1    \* Mutant
NextRootSkips(r) == IF IsSequence(schema[r]) THEN r + 2 ELSE r + 1  \* Mutant

NextRoot(r) == r + 1

AtRoot == result = "running" /\ stack = <<>> /\ root \in Handles

EnterRoot ==
  /\ AtRoot
  /\ ~IsSequence(schema[root])
  /\ Enter(<<>>, root)
  /\ root' = NextRoot(root)
  /\ UNCHANGED <<referrers, rec_sequences>>

SkipSequence ==
  /\ AtRoot
  /\ IsSequence(schema[root])
  /\ root' = NextRoot(root)
  /\ UNCHANGED <<schema, tables, stack, result>>

RejectIndex ==
  /\ AtMember
  /\ IndexError(Def, Top.next) # "none"
  /\ Fail(IndexError(Def, Top.next))

AtType == AtMember /\ IndexError(Def, Top.next) = "none"

(* Type::validate on a handle: states[handle] is indexed before            *)
(* get_definition could answer HandleOutOfRange.                           *)
RejectHandle ==
  /\ AtType
  /\ Ty.tag = "allocated"
  /\ Ty.handle \notin Handles
  /\ Fail("panic")

(* Mutant: a definition is only told apart once it is finished. *)
StatusUnlessDone(h) == IF states[h] = "visited" THEN "unvisited" ELSE states[h]

Status(h) == states[h]

EnterMember ==
  /\ AtType
  /\ Ty.tag = "allocated"
  /\ Ty.handle \in Handles
  /\ Status(Ty.handle) = "unvisited"
  /\ Enter(stack, Ty.handle)
  /\ UNCHANGED <<referrers, rec_sequences, root>>

RejectRecursion ==
  /\ AtType
  /\ Ty.tag = "allocated"
  /\ Ty.handle \in Handles
  /\ Status(Ty.handle) = "visited"
  /\ Fail("RecursiveDefinition")

(* Either no descent is needed, or the descent EnterMember began is over. *)
WidthKnown ==
  Ty.tag = "allocated" => Ty.handle \in Handles /\ Status(Ty.handle) = "validated"

Width == WidthOfType(Ty, bit_width)

RejectWidth ==
  /\ AtType
  /\ WidthKnown
  /\ WidthError(Def, Top.next, Width) # "none"
  /\ Fail(WidthError(Def, Top.next, Width))

AddReferrerOfMember(ty, h) ==     \* Mutant: elements are not recorded
  IF ty.tag = "allocated" /\ ~IsSequence(schema[h])
  THEN [referrers EXCEPT ![ty.handle] = Append(@, h)] ELSE referrers

AddReferrer(ty, h) ==
  IF ty.tag = "allocated" THEN [referrers EXCEPT ![ty.handle] = Append(@, h)] ELSE referrers

TakeMember ==
  /\ AtType
  /\ WidthKnown
  /\ WidthError(Def, Top.next, Width) = "none"
  /\ stack' = Advance(Absorb(Def, Top.next, Top.width, Width))
  /\ referrers' = AddReferrer(Ty, Top.handle)
  /\ UNCHANGED <<schema, states, bit_width, rec_sequences, root, result>>
-----------------------------------------------------------------------------
(***************************************************************************)
(* The element of a vector or a stream.  Only a sequence directly inside a *)
(* sequence is entered, whatever its state; any other element ends the     *)
(* chain and clears the flags that detect a sequence inside itself.        *)
(***************************************************************************)
RejectStream ==
  /\ AtElement
  /\ rec_sequences[Top.handle]
  /\ Fail("RecursiveStream")

RejectElement ==
  /\ AtElement
  /\ ~rec_sequences[Top.handle]
  /\ Ty.tag = "allocated"
  /\ Ty.handle \notin Handles
  /\ Fail("panic")

EnterElement ==
  /\ AtElement
  /\ ~rec_sequences[Top.handle]
  /\ Ty.tag = "allocated"
  /\ Ty.handle \in Handles
  /\ IsSequence(schema[Ty.handle])
  /\ rec_sequences' = [rec_sequences EXCEPT ![Top.handle] = TRUE]
  /\ referrers' = AddReferrer(Ty, Top.handle)
  /\ Enter(Advance(Variable), Ty.handle)
  /\ UNCHANGED root

FlagsKept == rec_sequences     \* Mutant: the flags of a chain are left to the next

ClearedFlags == [h \in Handles |-> FALSE]

EndChain ==
  /\ AtElement
  /\ ~rec_sequences[Top.handle]
  /\ Ty.tag = "allocated" => Ty.handle \in Handles /\ ~IsSequence(schema[Ty.handle])
  /\ rec_sequences' = ClearedFlags
  /\ referrers' = AddReferrer(Ty, Top.handle)
  /\ stack' = Advance(Variable)
  /\ UNCHANGED <<schema, states, bit_width, root, result>>
-----------------------------------------------------------------------------
RejectTotal ==
  /\ AtEnd
  /\ Def.kind = "packed" /\ Misaligned(Top.width)
  /\ Fail("RequiresByteAligned")

(* Validator::validated, and the call returns. *)
Leave ==
  /\ AtEnd
  /\ ~(Def.kind = "packed" /\ Misaligned(Top.width))
  /\ states' = [states EXCEPT ![Top.handle] = "validated"]
  /\ bit_width' = [bit_width EXCEPT ![Top.handle] = FinalWidth(Def, Top.width)]
  /\ stack' = Front(stack)
  /\ UNCHANGED <<schema, referrers, rec_sequences, root, result>>

UnusedNamed ==     \* Mutant: the loop over the states forgets what the first loop skipped
  {h \in Handles : states[h] = "unvisited" /\ ~IsSequence(schema[h])}

Unused == {h \in Handles : states[h] = "unvisited"}

(* Vec::dedup: of consecutive equal elements the first is kept. *)
Dedup(seq) ==
  FoldLeft(LAMBDA acc, x : IF acc # <<>> /\ Last(acc) = x THEN acc ELSE Append(acc, x), <<>>, seq)

AtFinish == result = "running" /\ stack = <<>> /\ root \notin Handles

RejectUnused ==
  /\ AtFinish
  /\ Unused # {}
  /\ Fail("UnusedSequence")

(* validate() returns Ok, and bit_width is assumed to be initialised. *)
Finish ==
  /\ AtFinish
  /\ Unused = {}
  /\ referrers' = [h \in Handles |-> Dedup(referrers[h])]
  /\ result' = "ok"
  /\ UNCHANGED <<schema, states, bit_width, rec_sequences, stack, root>>
-----------------------------------------------------------------------------
(* Validator::new: a slot per definition in each table. *)
New ==
  /\ states = [h \in Handles |-> "unvisited"]
  /\ bit_width = [h \in Handles |-> Uninit]
  /\ referrers = [h \in Handles |-> <<>>]
  /\ rec_sequences = [h \in Handles |-> FALSE]
  /\ stack = <<>>
  /\ root = 1
  /\ result = "running"

Init == schema \in Schemas /\ New

Next ==
  \/ EnterRoot \/ SkipSequence
  \/ RejectIndex \/ RejectHandle \/ EnterMember \/ RejectRecursion \/ RejectWidth \/ TakeMember
  \/ RejectStream \/ RejectElement \/ EnterElement \/ EndChain
  \/ RejectTotal \/ Leave
  \/ RejectUnused \/ Finish

(* One thread runs the validator to its end. *)
Spec == Init /\ [][Next]_vars /\ WF_vars(Next)
-----------------------------------------------------------------------------
(* A frame is at a member of its definition, or just past the last. *)
Frames ==
  {f \in [handle : Handles, next : Nat \ {0}, width : BitWidth] :
     f.next <= Len(TypesOf(schema[f.handle])) + 1}

(* The tables have a slot per definition, and the loop ends at the last. *)
TypeOK ==
  /\ schema \in Seq(Definition)
  /\ states \in [Handles -> {"unvisited", "visited", "validated"}]
  /\ bit_width \in [Handles -> BitWidth \cup {Uninit}]
  /\ referrers \in [Handles -> Seq(Handles)]
  /\ rec_sequences \in [Handles -> BOOLEAN]
  /\ stack \in Seq(Frames)
  /\ root \in 1..(Len(schema) + 1)
  /\ result \in {"running", "ok", "panic"} \cup Errors

(***************************************************************************)
(* assume_init is never called on a slot nobody wrote: not by status() for *)
(* a definition whose state says validated, and not by Schema::validate,   *)
(* which takes every slot on the word of a loop that only looks for        *)
(* states that are still unvisited.                                        *)
(***************************************************************************)
AssumeInitSound ==
  /\ \A h \in Handles : states[h] = "validated" => bit_width[h] # Uninit
  /\ result = "ok" => \A h \in Handles : bit_width[h] # Uninit

(***************************************************************************)
(* The recursion of the validator is bounded by the schema, even one that  *)
(* contains itself: no definition is entered while it is being validated,  *)
(* but for the one call that finds a sequence inside itself and fails.     *)
(***************************************************************************)
NoReentry ==
  \A i, j \in 1..(Len(stack) - 1) : stack[i].handle = stack[j].handle => i = j

(***************************************************************************)
(* The width of a validated definition follows from those of the types it  *)
(* mentions, although it was accumulated member by member, across descents *)
(* into other definitions, and possibly several times over.                *)
(***************************************************************************)
WidthsAgree ==
  \A h \in Handles :
    states[h] = "validated" => bit_width[h] = WidthByRule(schema[h], bit_width)

(***************************************************************************)
(* The loop over the definitions validates again what a reference has      *)
(* validated before; the width handed out in between stays what it was.    *)
(***************************************************************************)
WidthsNeverChange ==
  [][\A h \in Handles : bit_width[h] # Uninit => bit_width'[h] = bit_width[h]]_vars

(***************************************************************************)
(* The verdict is right: Ok for a schema that keeps every rule of the wire *)
(* format, as far as the code applies them, and each error for a schema    *)
(* that breaks the rule the error is about.  The code departs from the     *)
(* rules in three places: the first variant of an enum may be misaligned   *)
(* (hence MembersAligned from 2), a handle out of range is a panic and     *)
(* never HandleOutOfRange, and an enum with a tag of 64 bits is a panic,   *)
(* or without overflow checks any index but 0 is out of range.             *)
(***************************************************************************)
TagOverflows == \E h \in Handles : ShiftOverflows(schema[h])

VerdictCorrect ==
  /\ result = "ok" =>
       /\ HandlesInRange(schema)
       /\ RecursionGuarded(schema) /\ SequencesFounded(schema) /\ SequencesUsed(schema)
       /\ PackedMembersFixed(schema) /\ PackedAligned(schema) /\ MembersAligned(schema, 2)
       /\ IndicesInRange(schema) /\ IndicesDistinct(schema)
  /\ result = "panic" => ~HandlesInRange(schema) \/ TagOverflows
  /\ HandlesInRange(schema) =>
       /\ result = "RecursiveDefinition" => ~RecursionGuarded(schema)
       /\ result = "RecursiveStream" => ~SequencesFounded(schema)
       /\ result = "UnusedSequence" => ~SequencesUsed(schema)
       /\ result = "RequiresFixedSize" => ~PackedMembersFixed(schema)
       /\ result = "RequiresByteAligned" => ~PackedAligned(schema) \/ ~MembersAligned(schema, 2)
       /\ result = "IndexOutOfRange" => ~IndicesInRange(schema) \/ TagOverflows
       /\ result = "DuplicateIndex" => ~IndicesDistinct(schema)
       /\ result # "HandleOutOfRange"

(***************************************************************************)
(* The code generator follows referrers to find every definition that must *)
(* carry a lifetime: each of them is there, and nobody else, whatever      *)
(* the order and the number of visits.                                     *)
(***************************************************************************)
ReferrersExact ==
  result = "ok" =>
    \A t \in Handles : Range(referrers[t]) = {h \in Handles : Mentions(schema, h, t)}

(* Every schema, one that contains itself too, gets a verdict. *)
Terminates == <>(result # "running")
-----------------------------------------------------------------------------
(* wire-format.md: "Tag type must be non-zero byte-aligned integers with a *)
(* maximum bit-width of 64": a schema that keeps every rule is accepted.   *)
WellFormed(s) ==
  /\ HandlesInRange(s)
  /\ RecursionGuarded(s) /\ SequencesFounded(s) /\ SequencesUsed(s)
  /\ PackedMembersFixed(s) /\ PackedAligned(s) /\ MembersAligned(s, 1)
  /\ IndicesInRange(s) /\ IndicesDistinct(s)

WellFormedAccepted == result \notin {"running", "ok"} => ~WellFormed(schema)
=============================================================================
