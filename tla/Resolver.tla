------------------------------ MODULE Resolver ------------------------------
(***************************************************************************)
(* The resolver (crates/nisbac/src/schema/resolver.rs): it walks a         *)
(* document once and turns names into handles.  A name is given a slot of  *)
(* the arena when it is first met, as a definition or in a type, and the   *)
(* slot is filled when its definition has been read; vectors and streams   *)
(* have no name and share a slot with every equal one (hash-consing).      *)
(*                                                                         *)
(* One step per layer of a type, member and definition.                    *)
(***************************************************************************)
EXTENDS Document, SchemaRules, SequencesExt

CONSTANTS
  Documents,        \* the documents the resolver may be given
  OverflowChecks    \* was the compiler built with overflow checks?

ASSUME DocumentsAssumption == Documents \subseteq AstDocument
ASSUME OverflowChecksAssumption == OverflowChecks \in BOOLEAN

VARIABLES
  doc,          \* the document
  at,           \* the index of the definition that is being resolved
  handle,       \* its handle, or 0 before resolve_def has looked it up
  members,      \* resolved_members
  index_acc,    \* index_acc
  ty,           \* the type of the current member: <<>>, or what is resolved of it
  depth,        \* how many layers of that type are not resolved yet
  assigned,     \* Arena.assigned, a vector of MaybeUninit
  unassigned,   \* Arena.unassigned: the name a slot is reserved for, as an option
  cache,        \* Resolver.cache
  unknown,      \* the list an UnknownTypeName error carries
  result        \* "running", "ok", an ErrorKind, "UnknownTypeName" or "panic"

walk == <<at, handle, members, index_acc, ty, depth>>
arena == <<assigned, unassigned>>
vars == <<doc, walk, arena, cache, unknown, result>>

ErrorKind ==
  {"IntegerPrimitiveTooBig", "DuplicateDefinition", "DuplicateMember", "InvalidVarint",
   "InvalidIntegerLengthType", "InvalidIndexType"}

Uninit == [kind |-> "uninit"]
NoHandle == 0

Def == doc[at]
AstMemberAt == Def.members[Len(members) + 1]

AtDefinition == result = "running" /\ handle = NoHandle /\ at \in DOMAIN doc
InBody == result = "running" /\ handle # NoHandle
AtMember == InBody /\ ty = <<>> /\ Len(members) < Len(Def.members)
AtLayer == InBody /\ ty # <<>> /\ depth > 0
AtPush == InBody /\ ty # <<>> /\ depth = 0
AtClose == InBody /\ ty = <<>> /\ Len(members) = Len(Def.members)

(* Err(error)?, or a panic: the resolver is dropped. *)
Fail(error) == result' = error /\ UNCHANGED <<doc, walk, arena, cache, unknown>>
-----------------------------------------------------------------------------
(* The numbers of the document. *)
IntegerError(number) == IF number > MaxU16 THEN "IntegerPrimitiveTooBig" ELSE "none"

(* A number that does not fit a u64 is told apart from one that does. *)
VarintError(number) ==
  IF number = Overflow THEN "InvalidVarint"
  ELSE IF number \in {16, 32, 64} THEN "none" ELSE "InvalidIntegerLengthType"

LenTypeError(len) ==
  IF len.tag = "varint" THEN VarintError(len.number)
  ELSE IF len.number > MaxU16 THEN "IntegerPrimitiveTooBig"
  ELSE IF len.number \in {8 * n : n \in 1..8} THEN "none" ELSE "InvalidIntegerLengthType"

LenTypeOf(len) == IF len.tag = "varint" THEN 8 + len.number \div 8 ELSE len.number \div 8

IndexTypeError(number) ==
  IF number = Overflow THEN "IntegerPrimitiveTooBig"
  ELSE IF number \in {8 * n : n \in 1..8} THEN "none" ELSE "InvalidIndexType"

IndexTypeOf(number) == number \div 8

BaseError(base) ==
  CASE base.tag = "ident" -> "none"
    [] base.tag = "builtin" -> IntegerError(base.number)
    [] base.tag = "varint" -> VarintError(base.number)

(* The layers are resolved from the outside in, then the base. *)
TypeError(type) ==
  LET bad == {i \in DOMAIN type.layers : LenTypeError(type.layers[i].len_ty) # "none"}
  IN  IF bad # {} THEN LenTypeError(type.layers[Min(bad)].len_ty) ELSE BaseError(type.base)
-----------------------------------------------------------------------------
(* get_or_allocate: a slot for a name, the one it has or a new one. *)
NameKey(name) == [name |-> name]
Known(name) == NameKey(name) \in DOMAIN cache

NewHandleLate == Len(assigned) + 2     \* Mutant: the length is read after the push

NewHandle == Len(assigned) + 1

HandleOf(name) == IF Known(name) THEN cache[NameKey(name)] ELSE NewHandle

(* HashMap::insert of the handle of the slot that is made. *)
Cached(key) == [k \in DOMAIN cache \cup {key} |-> IF k = key THEN NewHandle ELSE cache[k]]

Reserved(name) ==
  IF Known(name) THEN [assigned |-> assigned, unassigned |-> unassigned, cache |-> cache]
  ELSE [assigned |-> Append(assigned, Uninit),
        unassigned |-> Append(unassigned, <<name>>),
        cache |-> Cached(NameKey(name))]

IsAssignedNever(name) == FALSE     \* Mutant: a definition may be given again

IsAssigned(name) == Known(name) /\ unassigned[cache[NameKey(name)]] = <<>>

(* get_or_define_anon: a slot for a sequence; elem is resolved before it. *)
Anon(layer, elem) ==
  [kind |-> layer.kind, len_ty |-> LenTypeOf(layer.len_ty), elem_ty |-> elem]

RememberStreams(anon) ==     \* Mutant: only streams are shared
  IF anon.kind = "stream" THEN Cached(anon) ELSE cache

Remember(anon) == Cached(anon)
-----------------------------------------------------------------------------
RejectDuplicate ==
  /\ AtDefinition
  /\ IsAssigned(Def.name)
  /\ Fail("DuplicateDefinition")

ExternError == IF Def.ty = <<>> THEN "none" ELSE IntegerError(Def.ty[1])

RejectExtern ==
  /\ AtDefinition
  /\ ~IsAssigned(Def.name)
  /\ Def.kind = "extern"
  /\ ExternError # "none"
  /\ Fail(ExternError)

ExternDefinition ==
  IF Def.ty = <<>> THEN [kind |-> "extern", name |-> Def.name]
  ELSE [kind |-> "primitive", name |-> Def.name, bits |-> Def.ty[1]]

DefineExtern ==
  /\ AtDefinition
  /\ ~IsAssigned(Def.name)
  /\ Def.kind = "extern"
  /\ ExternError = "none"
  /\ assigned' = [Reserved(Def.name).assigned EXCEPT ![HandleOf(Def.name)] = ExternDefinition]
  /\ unassigned' = [Reserved(Def.name).unassigned EXCEPT ![HandleOf(Def.name)] = <<>>]
  /\ cache' = Reserved(Def.name).cache
  /\ at' = at + 1
  /\ UNCHANGED <<doc, handle, members, index_acc, ty, depth, unknown, result>>

RejectIndexType ==
  /\ AtDefinition
  /\ ~IsAssigned(Def.name)
  /\ Def.kind \in {"enum", "dict"}
  /\ IndexTypeError(Def.index_ty) # "none"
  /\ Fail(IndexTypeError(Def.index_ty))

OpenDefinition ==
  /\ AtDefinition
  /\ ~IsAssigned(Def.name)
  /\ Def.kind # "extern"
  /\ Def.kind \in {"enum", "dict"} => IndexTypeError(Def.index_ty) = "none"
  /\ assigned' = Reserved(Def.name).assigned
  /\ unassigned' = Reserved(Def.name).unassigned
  /\ cache' = Reserved(Def.name).cache
  /\ handle' = HandleOf(Def.name)
  /\ members' = <<>>
  /\ index_acc' = 0
  /\ UNCHANGED <<doc, at, ty, depth, unknown, result>>
-----------------------------------------------------------------------------
(* used_names is the set of the names of the members resolved so far. *)
NameUsed == \E i \in DOMAIN members : members[i].name = AstMemberAt.name

RejectMember ==
  /\ AtMember
  /\ NameUsed
  /\ Fail("DuplicateMember")

RejectType ==
  /\ AtMember
  /\ ~NameUsed
  /\ AstMemberAt.ty # <<>>
  /\ TypeError(AstMemberAt.ty[1]) # "none"
  /\ Fail(TypeError(AstMemberAt.ty[1]))

(* The type is left out: void. *)
StartVoid ==
  /\ AtMember
  /\ ~NameUsed
  /\ AstMemberAt.ty = <<>>
  /\ ty' = <<Integer(0)>>
  /\ depth' = 0
  /\ UNCHANGED <<doc, at, handle, members, index_acc, arena, cache, unknown, result>>

(* The base of a nested type; a name is given a slot if it has none yet. *)
StartBase ==
  /\ AtMember
  /\ ~NameUsed
  /\ AstMemberAt.ty # <<>>
  /\ LET type == AstMemberAt.ty[1]
     IN  /\ TypeError(type) = "none"
         /\ depth' = Len(type.layers)
         /\ \/ /\ type.base.tag = "ident"
               /\ ty' = <<Allocated(HandleOf(type.base.name))>>
               /\ assigned' = Reserved(type.base.name).assigned
               /\ unassigned' = Reserved(type.base.name).unassigned
               /\ cache' = Reserved(type.base.name).cache
            \/ /\ type.base.tag = "builtin"
               /\ ty' = <<Integer(type.base.number)>>
               /\ UNCHANGED <<arena, cache>>
            \/ /\ type.base.tag = "varint"
               /\ ty' = <<Varint(type.base.number \div 8)>>
               /\ UNCHANGED <<arena, cache>>
  /\ UNCHANGED <<doc, at, handle, members, index_acc, unknown, result>>

(* The innermost layer that is left, around what is resolved. *)
WrapSequence ==
  /\ AtLayer
  /\ LET anon == Anon(AstMemberAt.ty[1].layers[depth], ty[1])
     IN  \/ /\ anon \in DOMAIN cache
            /\ ty' = <<Allocated(cache[anon])>>
            /\ UNCHANGED <<arena, cache>>
         \/ /\ anon \notin DOMAIN cache
            /\ ty' = <<Allocated(NewHandle)>>
            /\ assigned' = Append(assigned, anon)
            /\ unassigned' = Append(unassigned, <<>>)
            /\ cache' = Remember(anon)
  /\ depth' = depth - 1
  /\ UNCHANGED <<doc, at, handle, members, index_acc, unknown, result>>

IndexOfAccumulated == index_acc     \* Mutant: an index that is given is only checked

IndexOf ==
  IF AstMemberAt.index # <<>> THEN AstMemberAt.index[1] ELSE index_acc

RejectNumber ==
  /\ AtPush
  /\ AstMemberAt.index = <<Overflow>>
  /\ Fail("IntegerPrimitiveTooBig")

(* index_acc += 1, also past the last member. *)
Increments == IsIndexed(Def) /\ AstMemberAt.index # <<Overflow>>

OverflowPanic ==
  /\ AtPush
  /\ Increments
  /\ OverflowChecks
  /\ IndexOf = MaxU64
  /\ Fail("panic")

PushMember ==
  /\ AtPush
  /\ \/ /\ IsIndexed(Def)
        /\ Increments
        /\ ~(OverflowChecks /\ IndexOf = MaxU64)
        /\ members' = Append(members, [name |-> AstMemberAt.name, ty |-> ty[1], index |-> IndexOf])
        /\ index_acc' = (IndexOf + 1) % (MaxU64 + 1)
     \/ /\ ~IsIndexed(Def)
        /\ members' = Append(members, [name |-> AstMemberAt.name, ty |-> ty[1]])
        /\ UNCHANGED index_acc
  /\ ty' = <<>>
  /\ UNCHANGED <<doc, at, handle, depth, arena, cache, unknown, result>>
-----------------------------------------------------------------------------
BodyDefinition ==
  IF IsIndexed(Def)
  THEN [kind |-> Def.kind, name |-> Def.name, index_ty |-> IndexTypeOf(Def.index_ty),
        members |-> members]
  ELSE [kind |-> Def.kind, name |-> Def.name, members |-> members]

(* Arena::insert, and resolve_def returns. *)
CloseDefinition ==
  /\ AtClose
  /\ assigned' = [assigned EXCEPT ![handle] = BodyDefinition]
  /\ unassigned' = [unassigned EXCEPT ![handle] = <<>>]
  /\ handle' = NoHandle
  /\ at' = at + 1
  /\ UNCHANGED <<doc, members, index_acc, ty, depth, cache, unknown, result>>

UnknownButLast == FlattenSeq(IF unassigned = <<>> THEN <<>> ELSE Front(unassigned))     \* Mutant
UnknownFirst == LET all == FlattenSeq(unassigned)     \* Mutant: one name is reported
                IN  IF all = <<>> THEN <<>> ELSE <<all[1]>>

Unknown == FlattenSeq(unassigned)

(* Arena::finish: without a reserved slot left, the vector is taken for    *)
(* one of definitions as it is.                                            *)
Finish ==
  /\ result = "running"
  /\ at \notin DOMAIN doc
  /\ \/ /\ Unknown = <<>>
        /\ result' = "ok"
        /\ UNCHANGED unknown
     \/ /\ Unknown # <<>>
        /\ result' = "UnknownTypeName"
        /\ unknown' = Unknown
  /\ UNCHANGED <<doc, walk, arena, cache>>
-----------------------------------------------------------------------------
(* Resolver::default, before the first definition. *)
New ==
  /\ at = 1
  /\ handle = NoHandle
  /\ members = <<>>
  /\ index_acc = 0
  /\ ty = <<>>
  /\ depth = 0
  /\ assigned = <<>>
  /\ unassigned = <<>>
  /\ cache = <<>>
  /\ unknown = <<>>
  /\ result = "running"

Init == doc \in Documents /\ New

Next ==
  \/ RejectDuplicate \/ RejectExtern \/ DefineExtern \/ RejectIndexType \/ OpenDefinition
  \/ RejectMember \/ RejectType \/ StartVoid \/ StartBase \/ WrapSequence
  \/ RejectNumber \/ OverflowPanic \/ PushMember
  \/ CloseDefinition \/ Finish

(* One thread runs the resolver to its end. *)
Spec == Init /\ [][Next]_vars /\ WF_vars(Next)
-----------------------------------------------------------------------------
(* Keys are names and sequences, slots hold definitions or nothing, and a  *)
(* member is resolved only inside a definition that has members.           *)
TypeOK ==
  /\ doc \in AstDocument
  /\ at \in 1..(Len(doc) + 1)
  /\ handle \in 0..Len(assigned)
  /\ handle # NoHandle => at \in DOMAIN doc /\ Def.kind # "extern"
  /\ members \in Seq(Member \cup IndexedMember)
  /\ handle # NoHandle => Len(members) <= Len(Def.members)
  /\ index_acc \in 0..MaxU64
  /\ ty \in Optional(Type)
  /\ depth \in Nat
  /\ assigned \in Seq(Definition \cup {Uninit})
  /\ unassigned \in Seq(Optional(Ident))
  /\ cache \in [DOMAIN cache -> DOMAIN assigned]
  /\ unknown \in Seq(Ident)
  /\ result \in {"running", "ok", "panic", "UnknownTypeName"} \cup ErrorKind

(***************************************************************************)
(* finish() casts the vector of MaybeUninit to one of definitions: the two *)
(* vectors of the arena are kept in step, so that no slot is read that     *)
(* nobody wrote.                                                           *)
(***************************************************************************)
NoUninit ==
  /\ Len(unassigned) = Len(assigned)
  /\ result = "ok" => \A h \in DOMAIN assigned : assigned[h] # Uninit

(***************************************************************************)
(* The debug_assert of Arena::insert: while a definition is read, and its  *)
(* members allocate and append around it, its slot stays reserved for it.  *)
(***************************************************************************)
ReservationHeld == handle # NoHandle => unassigned[handle] = <<Def.name>>

(***************************************************************************)
(* Every slot is in the cache under the one key that finds it again: its   *)
(* name, or for a sequence the sequence itself.  Hence a name has one      *)
(* slot, and equal sequences share theirs, wherever they are written.      *)
(***************************************************************************)
KeyOf(h) ==
  CASE assigned[h] = Uninit -> NameKey(unassigned[h][1])
    [] IsSequence(assigned[h]) -> assigned[h]
    [] OTHER -> NameKey(assigned[h].name)

CacheExact ==
  /\ \A h \in DOMAIN assigned : KeyOf(h) \in DOMAIN cache /\ cache[KeyOf(h)] = h
  /\ \A key \in DOMAIN cache : KeyOf(cache[key]) = key

(* A definition is written once: what handles refer to does not change. *)
WrittenOnce ==
  [][\A h \in DOMAIN assigned :
       /\ h \in DOMAIN assigned'
       /\ assigned[h] # Uninit => assigned'[h] = assigned[h]]_vars

(***************************************************************************)
(* What the validator is handed: handles in range, no sequence nested in   *)
(* itself and none that nobody uses.  The validator indexes its tables     *)
(* with the first and can report the others only as errors of the user's.  *)
(***************************************************************************)
SchemaSound ==
  result = "ok" =>
    /\ assigned \in Seq(Definition)
    /\ HandlesInRange(assigned)
    /\ SequencesFounded(assigned)
    /\ SequencesUsed(assigned)

(***************************************************************************)
(* The verdict does not depend on the order of the definitions: Ok only if *)
(* the document keeps the rules of dsl.md and wire-format.md (that of the  *)
(* latter for lengths, where the two disagree), and for each error a rule  *)
(* that is broken.  An UnknownTypeName error lists the names nobody        *)
(* defines, each once.  The code departs from them in two places: a member *)
(* with the last number there is overflows the counter, a panic with       *)
(* overflow checks, and a varint of a wrong width may be answered with     *)
(* InvalidIntegerLengthType, "invalid length type".                        *)
(***************************************************************************)
VerdictCorrect ==
  /\ result = "ok" => WellFormedDocument(doc)
  /\ result = "panic" => \E d \in DOMAIN doc : \E i \in DOMAIN MembersOf(doc[d]) :
       NumberLikeC(doc[d].members, i) = MaxU64
  /\ result = "DuplicateDefinition" => ~TypeNamesUnique(doc)
  /\ result = "DuplicateMember" => ~MemberNamesUnique(doc)
  /\ result = "UnknownTypeName" =>
       /\ unknown # <<>> /\ IsInjective(unknown)
       /\ Range(unknown) = NamesMentioned(doc) \ NamesDefined(doc)
  /\ result \in {"InvalidVarint", "InvalidIntegerLengthType"} =>
       ~VarintsFit(doc) \/ ~LengthsFit(doc)
  /\ result = "InvalidIndexType" => ~IndexTypesFit(doc)
  /\ result = "IntegerPrimitiveTooBig" =>
       ~IntegersFit(doc) \/ ~NumbersFit(doc) \/ ~LengthsFit(doc) \/ ~IndexTypesFit(doc)

(***************************************************************************)
(* The schema means what the document says: the slot of every name holds   *)
(* the definition of that name, its types resolved and its members         *)
(* numbered like in C.                                                     *)
(***************************************************************************)
SlotOf(name) == CHOOSE h \in DOMAIN assigned : KeyOf(h) = NameKey(name)

TypeMeant(type) ==
  LET layers == type.layers
      wrapped[n \in 0..Len(layers)] ==
        IF n > 0
        THEN LET anon == Anon(layers[Len(layers) - n + 1], wrapped[n - 1])
             IN  Allocated(CHOOSE h \in DOMAIN assigned : assigned[h] = anon)
        ELSE CASE type.base.tag = "ident" -> Allocated(SlotOf(type.base.name))
               [] type.base.tag = "builtin" -> Integer(type.base.number)
               [] type.base.tag = "varint" -> Varint(type.base.number \div 8)
  IN  wrapped[Len(layers)]

Meant(def) ==
  LET slot == assigned[SlotOf(def.name)]
  IN  /\ slot.name = def.name
      /\ def.kind = "extern" => slot = IF def.ty = <<>> THEN [kind |-> "extern", name |-> def.name]
                                       ELSE [kind |-> "primitive", name |-> def.name, bits |-> def.ty[1]]
      /\ def.kind # "extern" =>
           /\ slot.kind = def.kind
           /\ Len(slot.members) = Len(def.members)
           /\ IsIndexed(def) => 8 * slot.index_ty = def.index_ty
           /\ \A i \in DOMAIN def.members :
                /\ slot.members[i].name = def.members[i].name
                /\ slot.members[i].ty = IF def.members[i].ty = <<>> THEN Integer(0)
                                        ELSE TypeMeant(def.members[i].ty[1])
                /\ IsIndexed(def) => slot.members[i].index = NumberLikeC(def.members, i)

SchemaMeansDocument == result = "ok" => \A d \in DOMAIN doc : Meant(doc[d])
=============================================================================
