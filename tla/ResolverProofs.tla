---------------------------- MODULE ResolverProofs ----------------------------
(***************************************************************************)
(* What the resolver keeps true, for every document.                       *)
(***************************************************************************)
EXTENDS Resolver, DataTheorems

(***************************************************************************)
(* The arena.  A slot is reserved, and has the name it waits for, or it is *)
(* written; the cache leads to it from its key.                            *)
(***************************************************************************)
Slot == Definition \cup {Uninit}

ArenaTyped ==
  /\ assigned \in Seq(Slot)
  /\ unassigned \in Seq(Optional(Ident))
  /\ Len(unassigned) = Len(assigned)
  /\ cache \in [DOMAIN cache -> DOMAIN assigned]

SlotsAgree == \A h \in DOMAIN assigned : assigned[h] = Uninit <=> unassigned[h] # <<>>

ArenaKept == ArenaTyped /\ SlotsAgree /\ CacheExact

(* The key of a slot, from what is in it. *)
KeyFor(slot, option) ==
  CASE slot = Uninit -> NameKey(option[1])
    [] IsSequence(slot) -> slot
    [] OTHER -> NameKey(slot.name)

(* The arena grows by a slot under a new key, or a reserved slot is written. *)
Grow(slot, option, key) ==
  /\ assigned' = Append(assigned, slot)
  /\ unassigned' = Append(unassigned, option)
  /\ cache' = Cached(key)

Write(h, def) ==
  /\ assigned' = [assigned EXCEPT ![h] = def]
  /\ unassigned' = [unassigned EXCEPT ![h] = <<>>]
  /\ cache' = cache

LEMMA KindOfDefinition ==
  ASSUME NEW def \in Definition
  PROVE  def.kind \in {"primitive", "extern", "vector", "stream", "packed", "struct", "enum", "dict"}
  BY DEF Definition, Primitive, Extern, Sequence, StructLike, IndexedStructLike

LEMMA UninitIsNoDefinition == Uninit \notin Definition
  BY KindOfDefinition DEF Uninit

LEMMA OptionCases ==
  ASSUME NEW S, NEW o \in Optional(S)
  PROVE  o = <<>> \/ (o # <<>> /\ Len(o) = 1 /\ DOMAIN o = {1} /\ o[1] \in S /\ o = <<o[1]>>)
<1>1. o \in Seq(S) /\ Len(o) \in Nat /\ (Len(o) = 0 \/ Len(o) = 1)
  <2>1. o \in Seq(S) /\ Len(o) <= 1
    BY DEF Optional
  <2>2. Len(o) \in Nat
    BY <2>1
  <2>3. \A n \in Nat : n <= 1 => n = 0 \/ n = 1
    OBVIOUS
  <2> QED
    BY <2>1, <2>2, <2>3
<1>2. CASE Len(o) = 0
  BY <1>1, <1>2
<1>3. CASE Len(o) = 1
  <2>1. DOMAIN o = {1} /\ o[1] \in S
    BY <1>1, <1>3
  <2>2. o = <<o[1]>>
    BY <1>1, <1>3, <2>1
  <2> QED
    BY <1>3, <2>1, <2>2
<1> QED
  BY <1>1, <1>2, <1>3

LEMMA OptionOf ==
  ASSUME NEW S
  PROVE  <<>> \in Optional(S) /\ \A x \in S : <<x>> \in Optional(S)
  BY DEF Optional

LEMMA GrowKeeps ==
  ASSUME ArenaKept,
         NEW slot \in Slot, NEW option \in Optional(Ident),
         slot = Uninit <=> option # <<>>,
         NEW key, key = KeyFor(slot, option), key \notin DOMAIN cache,
         Grow(slot, option, key)
  PROVE  /\ ArenaKept'
         /\ Len(assigned') = Len(assigned) + 1
         /\ assigned'[NewHandle] = slot /\ unassigned'[NewHandle] = option
         /\ \A h \in DOMAIN assigned :
              h \in DOMAIN assigned' /\ assigned'[h] = assigned[h] /\ unassigned'[h] = unassigned[h]
         /\ DOMAIN cache' = DOMAIN cache \cup {key}
         /\ cache'[key] = NewHandle
         /\ \A k \in DOMAIN cache : cache'[k] = cache[k]
<1>1. /\ assigned' \in Seq(Slot) /\ Len(assigned') = Len(assigned) + 1
      /\ assigned'[NewHandle] = slot
      /\ \A h \in DOMAIN assigned : h \in DOMAIN assigned' /\ assigned'[h] = assigned[h]
      /\ DOMAIN assigned' = DOMAIN assigned \cup {NewHandle}
  BY DEF ArenaKept, ArenaTyped, Grow, NewHandle
<1>2. /\ unassigned' \in Seq(Optional(Ident)) /\ Len(unassigned') = Len(assigned')
      /\ unassigned'[NewHandle] = option
      /\ \A h \in DOMAIN assigned : unassigned'[h] = unassigned[h]
  <2>1. unassigned' = Append(unassigned, option) /\ Len(unassigned) = Len(assigned)
    BY DEF Grow, ArenaKept, ArenaTyped
  <2>2. unassigned \in Seq(Optional(Ident)) /\ DOMAIN assigned = 1..Len(assigned)
    BY DEF ArenaKept, ArenaTyped
  <2> DEFINE T == Optional(Ident)
  <2>3. unassigned \in Seq(T) /\ option \in T
    BY <2>2
  <2> HIDE DEF T
  <2>4. unassigned' \in Seq(T)
    BY <2>1, <2>3
  <2>5. unassigned'[NewHandle] = option /\ Len(unassigned') = Len(unassigned) + 1
    BY <2>1, <2>3 DEF NewHandle
  <2>6. \A h \in DOMAIN assigned : unassigned'[h] = unassigned[h]
    BY <2>1, <2>2, <2>3
  <2> QED
    BY <1>1, <2>1, <2>4, <2>5, <2>6 DEF T
<1>3. /\ DOMAIN cache' = DOMAIN cache \cup {key}
      /\ cache'[key] = NewHandle
      /\ \A k \in DOMAIN cache : cache'[k] = cache[k]
  BY DEF Grow, Cached
<1>4. cache' \in [DOMAIN cache' -> DOMAIN assigned']
  <2>1. \A k \in DOMAIN cache : cache[k] \in DOMAIN assigned
    BY DEF ArenaKept, ArenaTyped
  <2>2. cache' = [k \in DOMAIN cache' |-> cache'[k]]
    BY DEF Grow, Cached
  <2>3. \A k \in DOMAIN cache' : cache'[k] \in DOMAIN assigned'
    BY <1>1, <1>3, <2>1
  <2> QED
    BY <2>2, <2>3
<1>5. SlotsAgree'
  BY <1>1, <1>2 DEF SlotsAgree, ArenaKept
<1>6. PICK n : n = NewHandle
  OBVIOUS
<1>7. /\ \A h \in DOMAIN assigned : KeyOf(h)' = KeyOf(h)
      /\ KeyOf(n)' = key
  <2>1. \A h \in DOMAIN assigned : KeyOf(h)' = KeyOf(h)
    BY <1>1, <1>2 DEF KeyOf
  <2>2. KeyOf(n)' = KeyFor(assigned'[n], unassigned'[n])
    BY DEF KeyOf, KeyFor
  <2> QED
    BY <1>1, <1>2, <1>6, <2>1, <2>2
<1>8. CacheExact'
  <2>1. CacheExact /\ \A k \in DOMAIN cache : cache[k] \in DOMAIN assigned
    BY DEF ArenaKept, ArenaTyped
  <2>2. ASSUME NEW h \in DOMAIN assigned'
        PROVE  KeyOf(h)' \in DOMAIN cache' /\ cache'[KeyOf(h)'] = h
    BY <1>1, <1>3, <1>6, <1>7, <2>1, <2>2 DEF CacheExact
  <2>3. ASSUME NEW k \in DOMAIN cache'
        PROVE  \A h : h = cache'[k] => KeyOf(h)' = k
    BY <1>3, <1>6, <1>7, <2>1, <2>3 DEF CacheExact
  <2> QED
    BY <2>2, <2>3 DEF CacheExact
<1> QED
  BY <1>1, <1>2, <1>3, <1>4, <1>5, <1>8 DEF ArenaKept, ArenaTyped

LEMMA WriteKeeps ==
  ASSUME ArenaKept,
         NEW h \in DOMAIN assigned, NEW def \in Definition,
         ~IsSequence(def), unassigned[h] = <<def.name>>,
         Write(h, def)
  PROVE  /\ ArenaKept'
         /\ Len(assigned') = Len(assigned) /\ DOMAIN assigned' = DOMAIN assigned
         /\ assigned[h] = Uninit
         /\ assigned'[h] = def /\ unassigned'[h] = <<>>
         /\ \A g \in DOMAIN assigned \ {h} :
              assigned'[g] = assigned[g] /\ unassigned'[g] = unassigned[g]
         /\ cache' = cache
<1>1. /\ assigned' \in Seq(Slot) /\ Len(assigned') = Len(assigned)
      /\ DOMAIN assigned' = DOMAIN assigned
      /\ assigned'[h] = def
      /\ \A g \in DOMAIN assigned \ {h} : assigned'[g] = assigned[g]
  <2>1. assigned \in Seq(Slot) /\ def \in Slot
    BY DEF ArenaKept, ArenaTyped, Slot
  <2> QED
    BY <2>1 DEF Write
<1>2. /\ unassigned' \in Seq(Optional(Ident)) /\ Len(unassigned') = Len(assigned')
      /\ unassigned'[h] = <<>>
      /\ \A g \in DOMAIN assigned \ {h} : unassigned'[g] = unassigned[g]
  <2> DEFINE T == Optional(Ident)
             empty == <<>>
  <2>1. unassigned \in Seq(T) /\ empty \in T /\ Len(unassigned) = Len(assigned)
    BY OptionOf DEF ArenaKept, ArenaTyped
  <2>2. unassigned' = [unassigned EXCEPT ![h] = empty] /\ h \in 1..Len(assigned)
    BY DEF Write, ArenaKept, ArenaTyped
  <2>3. DOMAIN assigned = 1..Len(assigned) /\ Len(assigned) \in Nat
    BY DEF ArenaKept, ArenaTyped
  <2> HIDE DEF T, empty
  <2>4. /\ unassigned' \in Seq(T) /\ Len(unassigned') = Len(assigned)
        /\ unassigned'[h] = empty
        /\ \A g \in 1..Len(assigned) \ {h} : unassigned'[g] = unassigned[g]
    BY <2>1, <2>2
  <2> QED
    BY <1>1, <2>3, <2>4 DEF T, empty
<1>3. cache' = cache
  BY DEF Write
<1>4. assigned[h] = Uninit
  BY DEF ArenaKept, SlotsAgree
<1>5. SlotsAgree'
  BY <1>1, <1>2, UninitIsNoDefinition DEF SlotsAgree, ArenaKept
<1>6. \A g \in DOMAIN assigned : KeyOf(g)' = KeyOf(g)
  <2>1. \A g \in DOMAIN assigned \ {h} : KeyOf(g)' = KeyOf(g)
    BY <1>1, <1>2 DEF KeyOf
  <2>2. KeyOf(h) = NameKey(def.name)
    <3>1. unassigned[h][1] = def.name
      OBVIOUS
    <3> QED
      BY <1>4, <3>1 DEF KeyOf, IsSequence, Uninit
  <2>3. KeyOf(h)' = NameKey(def.name)
    BY <1>1, UninitIsNoDefinition DEF KeyOf
  <2> QED
    BY <2>1, <2>2, <2>3
<1>7. CacheExact'
  BY <1>1, <1>3, <1>6 DEF CacheExact, ArenaKept, ArenaTyped
<1> QED
  BY <1>1, <1>2, <1>3, <1>4, <1>5, <1>7 DEF ArenaKept, ArenaTyped
-----------------------------------------------------------------------------
(* What the parts of a document are. *)
LEMMA StructMembers ==
  ASSUME NEW list, list \in Seq(AstStructMember)
  PROVE  /\ list \in Seq(AstMember)
         /\ \A i \in DOMAIN list : list[i].index = <<>> /\ list[i].ty # <<>>
<1>1. AstStructMember \subseteq AstMember
  BY OptionOf DEF AstStructMember, AstMember
<1>2. \A i \in DOMAIN list : list[i] \in AstStructMember
  OBVIOUS
<1>3. \A i \in DOMAIN list : list[i].index = <<>> /\ list[i].ty # <<>>
  BY <1>2 DEF AstStructMember
<1>4. list \in Seq(AstMember)
  <2> DEFINE S == AstStructMember
             T == AstMember
  <2>1. S \subseteq T /\ list \in Seq(S)
    BY <1>1
  <2> HIDE DEF S, T
  <2>2. list \in Seq(T)
    BY <2>1
  <2> QED
    BY <2>2 DEF T
<1> QED
  BY <1>3, <1>4

LEMMA KindOfNamed ==
  ASSUME NEW def \in NamedDefinition
  PROVE  /\ def.name \in Ident
         /\ def.kind \in {"extern", "packed", "struct", "enum", "dict"}
         /\ def.kind = "extern" => def.ty \in Optional(Number)
         /\ def.kind # "extern" => def.members \in Seq(AstMember)
         /\ def.kind \in {"enum", "dict"} => def.index_ty \in Number
         /\ def.kind \in {"packed", "struct"} =>
              \A i \in DOMAIN def.members :
                def.members[i].index = <<>> /\ def.members[i].ty # <<>>
<1> DEFINE A == [kind : {"extern"}, name : Ident, ty : Optional(Number)]
           B == [kind : {"packed", "struct"}, name : Ident, members : Seq(AstStructMember)]
           C == [kind : {"enum", "dict"}, name : Ident, index_ty : Number, members : Seq(AstMember)]
<1>1. def \in A \/ def \in B \/ def \in C
  BY DEF NamedDefinition
<1>2. CASE def \in A
  BY <1>2
<1>3. CASE def \in B
  <2>1. /\ def.kind \in {"packed", "struct"} /\ def.name \in Ident
        /\ def.members \in Seq(AstStructMember)
    BY <1>3
  <2> QED
    BY <2>1, StructMembers
<1>4. CASE def \in C
  BY <1>4
<1> QED
  BY <1>1, <1>2, <1>3, <1>4

LEMMA PartsOfMember ==
  ASSUME NEW member \in AstMember
  PROVE  /\ member.name \in Ident
         /\ member.ty # <<>> => member.ty[1] \in AstType
         /\ member.index # <<>> => member.index[1] \in Number /\ member.index = <<member.index[1]>>
<1>1. member.name \in Ident /\ member.ty \in Optional(AstType) /\ member.index \in Optional(Number)
  BY DEF AstMember
<1> QED
  BY <1>1, OptionCases

LEMMA PartsOfType ==
  ASSUME NEW type \in AstType
  PROVE  /\ type.layers \in Seq(Layer)
         /\ type.base \in Base
         /\ type.base.tag \in {"ident", "builtin", "varint"}
         /\ type.base.tag = "ident" => type.base.name \in Ident
         /\ type.base.tag \in {"builtin", "varint"} => type.base.number \in Number
  BY DEF AstType, Base

LEMMA U16Bound == MaxU16 \in Nat
  BY DEF MaxU16

LEMMA NumberIsNatural == Number \subseteq Nat /\ Overflow \in Nat /\ MaxU64 \in Nat
  BY MaxU64Assumption DEF Number, Overflow

(* Numbers that are not refused fit where they are put. *)
LEMMA LenTypeFits ==
  ASSUME NEW len \in AstLenType, LenTypeError(len) = "none"
  PROVE  LenTypeOf(len) \in LenType
<1>1. len.tag \in {"fixed", "varint"} /\ len.number \in Nat
  BY NumberIsNatural DEF AstLenType
<1>2. CASE len.tag = "varint"
  <2>1. len.number \in {16, 32, 64}
    BY <1>2 DEF LenTypeError, VarintError
  <2> QED
    BY <1>2, <2>1 DEF LenTypeOf, LenType, VarintSize
<1>3. CASE len.tag = "fixed"
  <2>1. len.number \in {8 * n : n \in 1..8}
    BY <1>1, <1>3 DEF LenTypeError
  <2> QED
    BY <1>3, <2>1 DEF LenTypeOf, LenType
<1> QED
  BY <1>1, <1>2, <1>3

LEMMA IndexTypeFits ==
  ASSUME NEW number \in Number, IndexTypeError(number) = "none"
  PROVE  IndexTypeOf(number) \in IndexType /\ 8 * IndexTypeOf(number) = number
<1>1. number \in {8 * n : n \in 1..8}
  BY DEF IndexTypeError
<1> QED
  BY <1>1 DEF IndexTypeOf, IndexType

LEMMA TypeFits ==
  ASSUME NEW type \in AstType, TypeError(type) = "none"
  PROVE  /\ \A i \in DOMAIN type.layers : LenTypeError(type.layers[i].len_ty) = "none"
         /\ type.base.tag = "builtin" => type.base.number \in U16
         /\ type.base.tag = "varint" => type.base.number \div 8 \in VarintSize
<1> DEFINE bad == {i \in DOMAIN type.layers : LenTypeError(type.layers[i].len_ty) # "none"}
<1>1. bad = {}
  <2>1. SUFFICES ASSUME bad # {} PROVE FALSE
    OBVIOUS
  <2>2. bad \in SUBSET Nat
    BY PartsOfType
  <2>3. Min(bad) \in bad
    BY <2>1, <2>2, MinOfNaturals
  <2> QED
    BY <2>1, <2>3 DEF TypeError
<1>2. BaseError(type.base) = "none"
  BY <1>1 DEF TypeError
<1>3. type.base.tag = "builtin" => type.base.number \in U16
  <2>1. SUFFICES ASSUME type.base.tag = "builtin" PROVE type.base.number \in U16
    OBVIOUS
  <2>2. type.base.number \in Nat
    BY <2>1, PartsOfType, NumberIsNatural
  <2>3. IntegerError(type.base.number) = "none"
    BY <1>2, <2>1 DEF BaseError
  <2>4. ~(type.base.number > MaxU16)
    BY <2>3 DEF IntegerError
  <2> QED
    BY <2>2, <2>4, U16Bound DEF U16
<1>4. type.base.tag = "varint" => type.base.number \div 8 \in VarintSize
  <2>1. type.base.tag = "varint" => type.base.number \in {16, 32, 64}
    BY <1>2 DEF BaseError, VarintError
  <2> QED
    BY <2>1 DEF VarintSize
<1> QED
  BY <1>1, <1>3, <1>4

LEMMA AnonIsSequence ==
  ASSUME NEW layer \in Layer, NEW elem \in Type, LenTypeError(layer.len_ty) = "none"
  PROVE  Anon(layer, elem) \in Sequence /\ IsSequence(Anon(layer, elem))
         /\ Anon(layer, elem) \in Definition /\ Anon(layer, elem).elem_ty = elem
<1>1. layer.kind \in {"vector", "stream"} /\ layer.len_ty \in AstLenType
  BY DEF Layer
<1> QED
  BY <1>1, LenTypeFits DEF Anon, Sequence, IsSequence, Definition
-----------------------------------------------------------------------------
(* What the cache says of a name. *)
LEMMA NameKeyDiffers ==
  /\ \A name, other : NameKey(name) = NameKey(other) => name = other
  /\ \A name, def : def \in Definition /\ IsSequence(def) => def # NameKey(name)
<1>1. \A name : NameKey(name).name = name
  BY DEF NameKey
<1>2. ASSUME NEW name, NEW def \in Definition, IsSequence(def), def = NameKey(name)
      PROVE  FALSE
  <2>1. DOMAIN def = {"name"}
    BY <1>2 DEF NameKey
  <2>2. def \in Sequence
    BY <1>2, KindOfDefinition
       DEF Definition, IsSequence, Primitive, Extern, StructLike, IndexedStructLike
  <2>3. "elem_ty" \in DOMAIN def
    BY <2>2 DEF Sequence
  <2> QED
    BY <2>1, <2>3
<1> QED
  BY <1>1, <1>2

LEMMA KnownSlot ==
  ASSUME ArenaKept, NEW name, Known(name), NEW h, h = cache[NameKey(name)]
  PROVE  /\ h \in DOMAIN assigned
         /\ unassigned[h] # <<>> => unassigned[h] = <<name>> /\ assigned[h] = Uninit
         /\ unassigned[h] = <<>> => /\ assigned[h] \in Definition
                                   /\ ~IsSequence(assigned[h])
                                   /\ assigned[h].name = name
<1>1. h \in DOMAIN assigned
  BY DEF ArenaKept, ArenaTyped, Known
<1>2. KeyOf(h) = NameKey(name)
  BY DEF ArenaKept, CacheExact, Known
<1>3. assigned[h] \in Slot /\ unassigned[h] \in Optional(Ident)
  BY <1>1 DEF ArenaKept, ArenaTyped
<1>4. CASE unassigned[h] # <<>>
  <2>1. assigned[h] = Uninit
    BY <1>1, <1>4 DEF ArenaKept, SlotsAgree
  <2>2. KeyOf(h) = NameKey(unassigned[h][1])
    BY <2>1 DEF KeyOf, IsSequence, Uninit
  <2>3. unassigned[h][1] = name
    BY <1>2, <2>2, NameKeyDiffers
  <2> QED
    BY <1>1, <1>3, <1>4, <2>1, <2>3, OptionCases
<1>5. CASE unassigned[h] = <<>>
  <2>1. assigned[h] \in Definition
    BY <1>1, <1>3, <1>5 DEF ArenaKept, SlotsAgree, Slot
  <2>2. ~IsSequence(assigned[h])
    <3>1. SUFFICES ASSUME IsSequence(assigned[h]) PROVE FALSE
      OBVIOUS
    <3>2. KeyOf(h) = assigned[h]
      BY <2>1, <3>1, UninitIsNoDefinition DEF KeyOf
    <3> QED
      BY <1>2, <2>1, <3>1, <3>2, NameKeyDiffers
  <2>3. KeyOf(h) = NameKey(assigned[h].name)
    BY <2>1, <2>2, UninitIsNoDefinition DEF KeyOf
  <2> QED
    BY <1>1, <1>2, <1>5, <2>1, <2>2, <2>3, NameKeyDiffers
<1> QED
  BY <1>4, <1>5

(* What get_or_allocate leaves behind. *)
Reserves(name) ==
  /\ assigned' = Reserved(name).assigned
  /\ unassigned' = Reserved(name).unassigned
  /\ cache' = Reserved(name).cache

LEMMA ReserveCases ==
  ASSUME NEW name
  PROVE  /\ Known(name) /\ Reserves(name) => UNCHANGED <<arena, cache>>
         /\ ~Known(name) /\ Reserves(name) => Grow(Uninit, <<name>>, NameKey(name))
  BY DEF Reserves, Reserved, Grow, arena

LEMMA ReserveKeeps ==
  ASSUME ArenaKept, NEW name \in Ident, Reserves(name), NEW h, h = HandleOf(name)
  PROVE  /\ ArenaKept'
         /\ \A g \in DOMAIN assigned :
              g \in DOMAIN assigned' /\ assigned'[g] = assigned[g] /\ unassigned'[g] = unassigned[g]
         /\ h \in DOMAIN assigned' /\ Len(assigned) <= Len(assigned')
         /\ NameKey(name) \in DOMAIN cache' /\ cache'[NameKey(name)] = h
         /\ \A k \in DOMAIN cache : k \in DOMAIN cache' /\ cache'[k] = cache[k]
         /\ ~IsAssigned(name) => unassigned'[h] = <<name>>
<1>1. CASE Known(name)
  <2>1. UNCHANGED <<assigned, unassigned, cache>>
    BY <1>1, ReserveCases DEF arena
  <2>2. ArenaKept'
    BY <2>1 DEF ArenaKept, ArenaTyped, SlotsAgree, CacheExact, KeyOf
  <2>3. h = cache[NameKey(name)] /\ h \in DOMAIN assigned
    BY <1>1, KnownSlot DEF HandleOf
  <2>4. ~IsAssigned(name) => unassigned[h] = <<name>>
    BY <1>1, <2>3, KnownSlot DEF IsAssigned
  <2>5. Len(assigned) \in Nat
    BY DEF ArenaKept, ArenaTyped
  <2> QED
    BY <1>1, <2>1, <2>2, <2>3, <2>4, <2>5 DEF Known
<1>2. CASE ~Known(name)
  <2>1. Grow(Uninit, <<name>>, NameKey(name))
    BY <1>2, ReserveCases
  <2>2. <<name>> \in Optional(Ident) /\ <<name>> # <<>> /\ Uninit \in Slot
    BY OptionOf DEF Slot
  <2>3. NameKey(name) = KeyFor(Uninit, <<name>>)
    BY DEF KeyFor, IsSequence, Uninit
  <2>4. NameKey(name) \notin DOMAIN cache /\ h = NewHandle
    BY <1>2 DEF Known, HandleOf
  <2>5. /\ ArenaKept'
        /\ Len(assigned') = Len(assigned) + 1
        /\ assigned'[NewHandle] = Uninit /\ unassigned'[NewHandle] = <<name>>
        /\ \A g \in DOMAIN assigned :
             g \in DOMAIN assigned' /\ assigned'[g] = assigned[g] /\ unassigned'[g] = unassigned[g]
        /\ DOMAIN cache' = DOMAIN cache \cup {NameKey(name)}
        /\ cache'[NameKey(name)] = NewHandle
        /\ \A k \in DOMAIN cache : cache'[k] = cache[k]
    BY <2>1, <2>2, <2>3, <2>4, GrowKeeps
  <2>6. h \in DOMAIN assigned' /\ Len(assigned) <= Len(assigned')
    BY <2>4, <2>5 DEF NewHandle, ArenaKept, ArenaTyped
  <2> QED
    BY <2>4, <2>5, <2>6
<1> QED
  BY <1>1, <1>2
-----------------------------------------------------------------------------
(***************************************************************************)
(* The walk.  While a definition is open, its slot waits for it, and what  *)
(* has been resolved of it is of its kind; while a type is open, its       *)
(* numbers have been found to fit.                                         *)
(***************************************************************************)
WalkTyped ==
  /\ doc \in AstDocument
  /\ at \in 1..(Len(doc) + 1)
  /\ handle \in 0..Len(assigned)
  /\ members \in Seq(Member \cup IndexedMember)
  /\ index_acc \in 0..MaxU64
  /\ ty \in Optional(Type)
  /\ depth \in Nat
  /\ unknown \in Seq(Ident)
  /\ result \in {"running", "ok", "panic", "UnknownTypeName"} \cup ErrorKind

MemberOfKind(def) == IF IsIndexed(def) THEN IndexedMember ELSE Member

BodyKept ==
  handle # NoHandle =>
    /\ at \in DOMAIN doc
    /\ Def.kind # "extern"
    /\ Len(members) <= Len(Def.members)
    /\ members \in Seq(MemberOfKind(Def))
    /\ IsIndexed(Def) => IndexTypeError(Def.index_ty) = "none"

TypeKept ==
  ty # <<>> =>
    /\ handle # NoHandle
    /\ Len(members) < Len(Def.members)
    /\ depth > 0 => /\ AstMemberAt.ty # <<>>
                    /\ TypeError(AstMemberAt.ty[1]) = "none"
                    /\ depth <= Len(AstMemberAt.ty[1].layers)

Kept == ArenaKept /\ WalkTyped /\ BodyKept /\ ReservationHeld /\ TypeKept

LEMMA DefinitionAt ==
  ASSUME doc \in AstDocument, at \in DOMAIN doc
  PROVE  Def \in NamedDefinition
  BY DEF AstDocument, Def

LEMMA MemberAt ==
  ASSUME Kept, handle # NoHandle, Len(members) < Len(Def.members)
  PROVE  /\ Def \in NamedDefinition /\ Def.kind # "extern"
         /\ Def.members \in Seq(AstMember)
         /\ Len(members) \in Nat /\ Len(members) + 1 \in DOMAIN Def.members
         /\ AstMemberAt \in AstMember
<1>1. Def \in NamedDefinition /\ Def.kind # "extern"
  BY DefinitionAt DEF Kept, WalkTyped, BodyKept
<1>2. Def.members \in Seq(AstMember)
  BY <1>1, KindOfNamed
<1>3. Len(members) \in Nat
  BY DEF Kept, WalkTyped
<1>4. Len(members) + 1 \in DOMAIN Def.members
  BY <1>2, <1>3
<1> QED
  BY <1>1, <1>2, <1>3, <1>4 DEF AstMemberAt

LEMMA ErrorKinds ==
  /\ \A number : IntegerError(number) \in ErrorKind \cup {"none"}
  /\ \A number : IndexTypeError(number) \in ErrorKind \cup {"none"}
  /\ \A len \in AstLenType : LenTypeError(len) \in ErrorKind \cup {"none"}
  /\ \A type \in AstType : TypeError(type) \in ErrorKind \cup {"none"}
<1>1. \A number : IntegerError(number) \in ErrorKind \cup {"none"}
  BY DEF IntegerError, ErrorKind
<1>2. \A number : IndexTypeError(number) \in ErrorKind \cup {"none"}
  BY DEF IndexTypeError, ErrorKind
<1>3. \A number : VarintError(number) \in ErrorKind \cup {"none"}
  BY DEF VarintError, ErrorKind
<1>4. \A len \in AstLenType : LenTypeError(len) \in ErrorKind \cup {"none"}
  BY <1>3 DEF LenTypeError, ErrorKind
<1>5. ASSUME NEW type \in AstType PROVE TypeError(type) \in ErrorKind \cup {"none"}
  <2> DEFINE bad == {i \in DOMAIN type.layers : LenTypeError(type.layers[i].len_ty) # "none"}
  <2>1. CASE bad = {}
    <3>1. BaseError(type.base) \in ErrorKind \cup {"none"}
      <4>1. CASE type.base.tag = "ident"
        BY <4>1 DEF BaseError
      <4>2. CASE type.base.tag = "builtin"
        BY <1>1, <4>2 DEF BaseError
      <4>3. CASE type.base.tag = "varint"
        BY <1>3, <4>3 DEF BaseError
      <4> QED
        BY <4>1, <4>2, <4>3, PartsOfType
    <3> QED
      BY <2>1, <3>1 DEF TypeError
  <2>2. CASE bad # {}
    <3>1. bad \in SUBSET Nat
      BY PartsOfType
    <3>2. Min(bad) \in DOMAIN type.layers
      BY <2>2, <3>1, MinOfNaturals
    <3>3. type.layers[Min(bad)].len_ty \in AstLenType
      <4>1. type.layers[Min(bad)] \in Layer
        <5>1. type.layers \in Seq(Layer)
          BY PartsOfType
        <5> HIDE DEF bad
        <5> QED
          BY <3>2, <5>1
      <4> QED
        BY <4>1 DEF Layer
    <3>4. TypeError(type) = LenTypeError(type.layers[Min(bad)].len_ty)
      BY <2>2 DEF TypeError
    <3> QED
      BY <1>4, <3>3, <3>4
  <2> QED
    BY <2>1, <2>2
<1> QED
  BY <1>1, <1>2, <1>4, <1>5

(* A document, with the resolver that is made for it. *)
Starts == doc \in AstDocument /\ New

LEMMA InitStarts == Init => Starts
BY DocumentsAssumption DEF Init, Starts

LEMMA KeptStart == Starts => Kept
<1> SUFFICES ASSUME Starts PROVE Kept
  OBVIOUS
<1>1. assigned = <<>> /\ unassigned = <<>> /\ cache = <<>> /\ DOMAIN cache = {} /\ DOMAIN assigned = {}
  BY DEF Starts, New
<1>2. ArenaKept
  <2>1. cache \in [DOMAIN cache -> DOMAIN assigned]
    BY <1>1
  <2> QED
    BY <1>1, <2>1 DEF ArenaKept, ArenaTyped, SlotsAgree, CacheExact
<1>3. WalkTyped
  <2>1. doc \in AstDocument
    BY DEF Starts
  <2>2. Len(doc) + 1 \in Nat /\ Len(doc) + 1 >= 1
    BY <2>1 DEF AstDocument
  <2> QED
    BY <2>1, <2>2, <1>1, OptionOf, MaxU64Assumption DEF Starts, New, WalkTyped, NoHandle
<1> QED
  BY <1>2, <1>3 DEF Kept, BodyKept, TypeKept, ReservationHeld, Starts, New

LEMMA WrapsInRange ==
  ASSUME NEW n \in 0..MaxU64
  PROVE  (n + 1) % (MaxU64 + 1) \in 0..MaxU64
  BY MaxU64Assumption

LEMMA ArenaUnchanged ==
  ASSUME ArenaKept, UNCHANGED <<arena, cache>>
  PROVE  ArenaKept'
  BY DEF ArenaKept, ArenaTyped, SlotsAgree, CacheExact, KeyOf, arena

LEMMA FailKeeps ==
  ASSUME Kept, NEW error \in ErrorKind \cup {"panic"}, Fail(error)
  PROVE  Kept'
<1>1. UNCHANGED <<doc, walk, arena, cache, unknown>> /\ result' = error
  BY DEF Fail
<1>2. ArenaKept'
  BY <1>1, ArenaUnchanged DEF Kept
<1>3. WalkTyped'
  BY <1>1 DEF Kept, WalkTyped, walk, arena
<1>4. BodyKept' /\ ReservationHeld' /\ TypeKept'
  BY <1>1 DEF Kept, BodyKept, ReservationHeld, TypeKept, walk, arena, Def, AstMemberAt
<1> QED
  BY <1>2, <1>3, <1>4 DEF Kept

(* ArenaStep: the three ways in which a step changes the arena, if it does. *)
NewSlot(slot, option, key) ==
  /\ slot \in Slot /\ option \in Optional(Ident)
  /\ slot = Uninit <=> option # <<>>
  /\ key = KeyFor(slot, option) /\ key \notin DOMAIN cache
  /\ Grow(slot, option, key)

SlotWritten(h, def) ==
  /\ h \in DOMAIN assigned /\ def \in Definition
  /\ ~IsSequence(def) /\ unassigned[h] = <<def.name>>
  /\ Write(h, def)

ArenaStep ==
  \/ UNCHANGED <<arena, cache>>
  \/ \E slot, option, key : NewSlot(slot, option, key)
  \/ \E h, def : SlotWritten(h, def)

LEMMA ArenaStepKeeps ==
  ASSUME ArenaKept, ArenaStep
  PROVE  /\ ArenaKept'
         /\ \A h \in DOMAIN assigned :
              /\ h \in DOMAIN assigned'
              /\ assigned[h] # Uninit => assigned'[h] = assigned[h]
         /\ Len(assigned) <= Len(assigned') /\ Len(assigned) \in Nat /\ Len(assigned') \in Nat
         /\ \A k \in DOMAIN cache : k \in DOMAIN cache' /\ cache'[k] = cache[k]
<1>1. CASE UNCHANGED <<arena, cache>>
  BY <1>1, ArenaUnchanged DEF arena, ArenaKept, ArenaTyped
<1>2. CASE \E slot, option, key : NewSlot(slot, option, key)
  <2>1. PICK slot, option, key : NewSlot(slot, option, key)
    BY <1>2
  <2>2. /\ slot \in Slot /\ option \in Optional(Ident)
        /\ slot = Uninit <=> option # <<>>
        /\ key = KeyFor(slot, option) /\ key \notin DOMAIN cache
        /\ Grow(slot, option, key)
    BY <2>1 DEF NewSlot
  <2>3. /\ ArenaKept'
        /\ Len(assigned') = Len(assigned) + 1
        /\ \A h \in DOMAIN assigned : h \in DOMAIN assigned' /\ assigned'[h] = assigned[h]
        /\ DOMAIN cache' = DOMAIN cache \cup {key}
        /\ \A k \in DOMAIN cache : cache'[k] = cache[k]
    BY <2>2, GrowKeeps
  <2>4. Len(assigned) \in Nat
    BY DEF ArenaKept, ArenaTyped
  <2> QED
    BY <2>3, <2>4
<1>3. CASE \E h, def : SlotWritten(h, def)
  <2>1. PICK h, def : SlotWritten(h, def)
    BY <1>3
  <2>2. /\ h \in DOMAIN assigned /\ def \in Definition
        /\ ~IsSequence(def) /\ unassigned[h] = <<def.name>>
        /\ Write(h, def)
    BY <2>1 DEF SlotWritten
  <2>3. /\ ArenaKept'
        /\ Len(assigned') = Len(assigned) /\ DOMAIN assigned' = DOMAIN assigned
        /\ assigned[h] = Uninit
        /\ \A g \in DOMAIN assigned \ {h} : assigned'[g] = assigned[g]
        /\ cache' = cache
    BY <2>2, WriteKeeps
  <2>4. Len(assigned) \in Nat
    BY DEF ArenaKept, ArenaTyped
  <2> QED
    BY <2>3, <2>4
<1> QED
  BY <1>1, <1>2, <1>3 DEF ArenaStep

LEMMA ReserveStep ==
  ASSUME NEW name \in Ident, Reserves(name)
  PROVE  ArenaStep
<1>1. CASE Known(name)
  BY <1>1, ReserveCases DEF ArenaStep
<1>2. CASE ~Known(name)
  <2>1. Grow(Uninit, <<name>>, NameKey(name))
    BY <1>2, ReserveCases
  <2>2. <<name>> \in Optional(Ident) /\ <<name>> # <<>> /\ Uninit \in Slot
    BY OptionOf DEF Slot
  <2>3. NameKey(name) = KeyFor(Uninit, <<name>>)
    BY DEF KeyFor, IsSequence, Uninit
  <2>4. NewSlot(Uninit, <<name>>, NameKey(name))
    BY <1>2, <2>1, <2>2, <2>3 DEF NewSlot, Known
  <2> QED
    BY <2>4 DEF ArenaStep
<1> QED
  BY <1>1, <1>2

(* An extern is reserved, if need be, and written at once. *)
LEMMA DefineExternStep ==
  ASSUME Kept, DefineExtern
  PROVE  /\ ArenaStep
         /\ Def \in NamedDefinition /\ ExternDefinition \in Definition
         /\ \/ SlotWritten(HandleOf(Def.name), ExternDefinition)
            \/ NewSlot(ExternDefinition, <<>>, NameKey(Def.name))
<1> DEFINE name == Def.name
           def == ExternDefinition
           h == HandleOf(name)
<1>1. AtDefinition /\ ~IsAssigned(name) /\ Def.kind = "extern" /\ ExternError = "none"
  BY DEF DefineExtern
<1>2. at \in DOMAIN doc /\ handle = NoHandle /\ Def \in NamedDefinition /\ name \in Ident
  BY <1>1, DefinitionAt, KindOfNamed DEF AtDefinition, Kept, WalkTyped
<1>3. def \in Definition /\ ~IsSequence(def) /\ def.name = name
  <2>1. CASE Def.ty = <<>>
    BY <1>2, <2>1 DEF ExternDefinition, Definition, Extern, IsSequence
  <2>2. CASE Def.ty # <<>>
    <3>1. Def.ty[1] \in Number
      BY <1>1, <1>2, <2>2, KindOfNamed, OptionCases
    <3>2. Def.ty[1] \in U16
      <4>1. IntegerError(Def.ty[1]) = "none"
        BY <1>1, <2>2 DEF ExternError
      <4>2. ~(Def.ty[1] > MaxU16) /\ Def.ty[1] \in Nat
        BY <3>1, <4>1, NumberIsNatural DEF IntegerError
      <4> QED
        BY <4>2, U16Bound DEF U16
    <3>3. def = [kind |-> "primitive", name |-> name, bits |-> Def.ty[1]]
      BY <2>2 DEF ExternDefinition
    <3>4. def \in Primitive
      BY <1>2, <3>2, <3>3 DEF Primitive
    <3> QED
      BY <3>3, <3>4 DEF Definition, IsSequence
  <2> QED
    BY <2>1, <2>2
<1>4. CASE Known(name)
  <2>1. h \in DOMAIN assigned /\ unassigned[h] = <<name>>
    BY <1>1, <1>4, KnownSlot DEF HandleOf, IsAssigned, Kept
  <2>2. Write(h, def)
    BY <1>4 DEF DefineExtern, Write, Reserved
  <2>3. SlotWritten(h, def)
    BY <1>3, <2>1, <2>2 DEF SlotWritten
  <2> QED
    BY <1>2, <1>3, <2>3 DEF ArenaStep
<1>5. CASE ~Known(name)
  <2> DEFINE option == <<name>>
             empty == <<>>
             T == Optional(Ident)
  <2>1. h = Len(assigned) + 1 /\ Len(unassigned) = Len(assigned)
    BY <1>5 DEF HandleOf, NewHandle, Kept, ArenaKept, ArenaTyped
  <2>2. /\ assigned' = [Append(assigned, Uninit) EXCEPT ![h] = def]
        /\ unassigned' = [Append(unassigned, option) EXCEPT ![h] = empty]
        /\ cache' = Cached(NameKey(name))
    BY <1>5 DEF DefineExtern, Reserved
  <2>3. assigned \in Seq(Slot) /\ unassigned \in Seq(T) /\ option \in T /\ empty \in T
    BY <1>2, OptionOf DEF Kept, ArenaKept, ArenaTyped
  <2>4. def \in Slot /\ Uninit \in Slot
    BY <1>3 DEF Slot
  <2>5. NameKey(name) = KeyFor(def, empty) /\ def # Uninit
    BY <1>3, UninitIsNoDefinition DEF KeyFor
  <2>6. NameKey(name) \notin DOMAIN cache
    BY <1>5 DEF Known
  <2> HIDE DEF def, h, option, empty, T
  <2>7. assigned' = Append(assigned, def)
    BY <2>1, <2>2, <2>3, <2>4, AppendOverwritten
  <2>8. unassigned' = Append(unassigned, empty)
    BY <2>1, <2>2, <2>3, AppendOverwritten
  <2>9. NewSlot(def, empty, NameKey(name))
    BY <2>2, <2>3, <2>4, <2>5, <2>6, <2>7, <2>8 DEF NewSlot, Grow, T, empty
  <2> QED
    BY <1>2, <1>3, <2>9 DEF ArenaStep, def, empty
<1> QED
  BY <1>4, <1>5

LEMMA DefineExternKeeps ==
  ASSUME Kept, DefineExtern
  PROVE  Kept' /\ ArenaStep
<1>1. ArenaStep
  BY DefineExternStep
<1>2. ArenaKept' /\ Len(assigned) <= Len(assigned') /\ Len(assigned) \in Nat /\ Len(assigned') \in Nat
  BY <1>1, ArenaStepKeeps DEF Kept
<1>3. /\ at \in DOMAIN doc /\ handle = NoHandle /\ at' = at + 1
      /\ UNCHANGED <<doc, handle, members, index_acc, ty, depth, unknown, result>>
  BY DEF DefineExtern, AtDefinition
<1>4. ty = <<>>
  BY <1>3 DEF Kept, TypeKept
<1>5. WalkTyped'
  <2>1. at' \in 1..(Len(doc) + 1)
    BY <1>3 DEF Kept, WalkTyped, AstDocument
  <2> QED
    BY <1>2, <1>3, <2>1 DEF Kept, WalkTyped, NoHandle
<1> QED
  BY <1>1, <1>2, <1>3, <1>4, <1>5 DEF Kept, BodyKept, ReservationHeld, TypeKept

LEMMA OpenDefinitionKeeps ==
  ASSUME Kept, OpenDefinition
  PROVE  Kept' /\ ArenaStep
<1> DEFINE name == Def.name
<1>1. /\ at \in DOMAIN doc /\ handle = NoHandle /\ ~IsAssigned(name) /\ Def.kind # "extern"
      /\ Def.kind \in {"enum", "dict"} => IndexTypeError(Def.index_ty) = "none"
      /\ Reserves(name) /\ handle' = HandleOf(name) /\ members' = <<>> /\ index_acc' = 0
      /\ UNCHANGED <<doc, at, ty, depth, unknown, result>>
  BY DEF OpenDefinition, AtDefinition, Reserves
<1>2. Def \in NamedDefinition /\ name \in Ident /\ Def.members \in Seq(AstMember)
  BY <1>1, DefinitionAt, KindOfNamed DEF Kept, WalkTyped
<1>3. ArenaStep
  BY <1>1, <1>2, ReserveStep
<1>4. PICK h : h = HandleOf(name)
  OBVIOUS
<1>5. ArenaKept' /\ h \in DOMAIN assigned' /\ unassigned'[h] = <<name>>
  BY <1>1, <1>2, <1>4, ReserveKeeps DEF Kept
<1>6. ty = <<>> /\ Def' = Def
  BY <1>1 DEF Kept, TypeKept, Def
<1>7. WalkTyped'
  <2>1. handle' \in 0..Len(assigned')
    BY <1>1, <1>4, <1>5 DEF ArenaKept, ArenaTyped
  <2> QED
    BY <1>1, <2>1, MaxU64Assumption DEF Kept, WalkTyped
<1>8. BodyKept'
  <2>1. Len(members') <= Len(Def.members)
    BY <1>1, <1>2
  <2> QED
    BY <1>1, <1>6, <2>1 DEF BodyKept, IsIndexed
<1>9. ReservationHeld' /\ TypeKept'
  BY <1>1, <1>4, <1>5, <1>6 DEF ReservationHeld, TypeKept
<1> QED
  BY <1>3, <1>5, <1>7, <1>8, <1>9 DEF Kept

(* Steps inside a definition: its slot waits on, and what it is stays. *)
LEMMA InsideKeeps ==
  ASSUME Kept, handle # NoHandle, ArenaStep,
         \A h \in DOMAIN assigned : unassigned'[h] = unassigned[h],
         UNCHANGED <<doc, at, handle, index_acc, members, unknown, result>>
  PROVE  /\ ArenaKept' /\ BodyKept' /\ ReservationHeld'
         /\ handle' \in 0..Len(assigned')
         /\ Def' = Def /\ AstMemberAt' = AstMemberAt
<1>1. ArenaKept' /\ Len(assigned) <= Len(assigned') /\ Len(assigned) \in Nat /\ Len(assigned') \in Nat
  BY ArenaStepKeeps DEF Kept
<1>2. Def' = Def /\ AstMemberAt' = AstMemberAt
  BY DEF Def, AstMemberAt
<1>3. handle \in DOMAIN assigned
  BY DEF Kept, WalkTyped, ArenaKept, ArenaTyped, NoHandle
<1>4. ReservationHeld'
  BY <1>2, <1>3 DEF Kept, ReservationHeld
<1>5. BodyKept'
  BY <1>2 DEF Kept, BodyKept
<1>6. handle' \in 0..Len(assigned')
  BY <1>1 DEF Kept, WalkTyped
<1> QED
  BY <1>1, <1>2, <1>4, <1>5, <1>6

LEMMA StartVoidKeeps ==
  ASSUME Kept, StartVoid
  PROVE  Kept' /\ ArenaStep /\ ty' \in Optional(Type)
<1>1. /\ handle # NoHandle /\ Len(members) < Len(Def.members)
      /\ ty' = <<Integer(0)>> /\ depth' = 0
      /\ UNCHANGED <<doc, at, handle, members, index_acc, arena, cache, unknown, result>>
  BY DEF StartVoid, AtMember, InBody
<1>2. ArenaStep /\ \A h \in DOMAIN assigned : unassigned'[h] = unassigned[h]
  BY <1>1 DEF ArenaStep, arena
<1>3. /\ ArenaKept' /\ BodyKept' /\ ReservationHeld' /\ handle' \in 0..Len(assigned')
      /\ Def' = Def /\ AstMemberAt' = AstMemberAt
  BY <1>1, <1>2, InsideKeeps
<1>4. ty' \in Optional(Type)
  <2>1. 0 \in U16
    BY U16Bound DEF U16
  <2>2. Integer(0) \in Type
    BY <2>1 DEF Integer, Type, IntegerType
  <2> QED
    BY <1>1, <2>2, OptionOf
<1>5. WalkTyped'
  BY <1>1, <1>3, <1>4 DEF Kept, WalkTyped
<1>6. TypeKept'
  BY <1>1, <1>3 DEF TypeKept
<1> QED
  BY <1>2, <1>3, <1>4, <1>5, <1>6 DEF Kept

LEMMA AllocatedIsType ==
  ASSUME NEW h \in Nat \ {0}
  PROVE  Allocated(h) \in Type /\ Allocated(h).tag = "allocated" /\ Allocated(h).handle = h
  BY DEF Allocated, Type, AllocatedType, Handle

(* What StartBase makes of a base. *)
LEMMA StartBaseStep ==
  ASSUME Kept, StartBase, NEW type, type = AstMemberAt.ty[1]
  PROVE  /\ type \in AstType /\ TypeError(type) = "none" /\ AstMemberAt.ty # <<>>
         /\ handle # NoHandle /\ Len(members) < Len(Def.members)
         /\ UNCHANGED <<doc, at, handle, members, index_acc, unknown, result>>
         /\ depth' = Len(type.layers) /\ depth' \in Nat
         /\ ArenaStep /\ \A h \in DOMAIN assigned : unassigned'[h] = unassigned[h]
         /\ \/ /\ type.base.tag = "ident" /\ Reserves(type.base.name)
               /\ type.base.name \in Ident
               /\ HandleOf(type.base.name) \in DOMAIN assigned'
               /\ HandleOf(type.base.name) \in Nat \ {0}
               /\ ty' = <<Allocated(HandleOf(type.base.name))>>
            \/ /\ type.base.tag = "builtin" /\ UNCHANGED <<arena, cache>>
               /\ ty' = <<Integer(type.base.number)>> /\ Integer(type.base.number) \in Type
            \/ /\ type.base.tag = "varint" /\ UNCHANGED <<arena, cache>>
               /\ ty' = <<Varint(type.base.number \div 8)>>
               /\ Varint(type.base.number \div 8) \in Type
<1>1. /\ handle # NoHandle /\ Len(members) < Len(Def.members) /\ AstMemberAt.ty # <<>>
      /\ TypeError(type) = "none" /\ depth' = Len(type.layers)
      /\ UNCHANGED <<doc, at, handle, members, index_acc, unknown, result>>
  BY DEF StartBase, AtMember, InBody
<1>2. AstMemberAt \in AstMember
  BY <1>1, MemberAt
<1>3. type \in AstType
  BY <1>1, <1>2, PartsOfMember
<1>4. depth' \in Nat
  <2>1. type.layers \in Seq(Layer)
    BY <1>3, PartsOfType
  <2> QED
    BY <1>1, <2>1
<1>5. CASE type.base.tag = "ident"
  <2>1. Reserves(type.base.name) /\ ty' = <<Allocated(HandleOf(type.base.name))>>
    BY <1>5 DEF StartBase, Reserves
  <2>2. type.base.name \in Ident
    BY <1>3, <1>5, PartsOfType
  <2>3. ArenaStep
    BY <2>1, <2>2, ReserveStep
  <2>4. PICK h : h = HandleOf(type.base.name)
    OBVIOUS
  <2>5. /\ ArenaKept' /\ h \in DOMAIN assigned'
        /\ \A g \in DOMAIN assigned : unassigned'[g] = unassigned[g]
    BY <2>1, <2>2, <2>4, ReserveKeeps DEF Kept
  <2>6. h \in Nat \ {0}
    BY <2>5 DEF ArenaKept, ArenaTyped
  <2> QED
    BY <1>1, <1>3, <1>4, <1>5, <2>1, <2>2, <2>3, <2>4, <2>5, <2>6
<1>6. CASE type.base.tag = "builtin"
  <2>1. UNCHANGED <<arena, cache>> /\ ty' = <<Integer(type.base.number)>>
    BY <1>6 DEF StartBase
  <2>2. Integer(type.base.number) \in Type
    BY <1>1, <1>3, <1>6, TypeFits DEF Integer, Type, IntegerType
  <2> QED
    BY <1>1, <1>3, <1>4, <1>6, <2>1, <2>2 DEF ArenaStep, arena
<1>7. CASE type.base.tag = "varint"
  <2>1. UNCHANGED <<arena, cache>> /\ ty' = <<Varint(type.base.number \div 8)>>
    BY <1>7 DEF StartBase
  <2>2. Varint(type.base.number \div 8) \in Type
    BY <1>1, <1>3, <1>7, TypeFits DEF Varint, Type, VarintType
  <2> QED
    BY <1>1, <1>3, <1>4, <1>7, <2>1, <2>2 DEF ArenaStep, arena
<1> QED
  BY <1>3, <1>5, <1>6, <1>7, PartsOfType

LEMMA StartBaseKeeps ==
  ASSUME Kept, StartBase
  PROVE  Kept' /\ ArenaStep
<1>1. PICK type : type = AstMemberAt.ty[1]
  OBVIOUS
<1>2. /\ type \in AstType /\ TypeError(type) = "none" /\ AstMemberAt.ty # <<>>
      /\ handle # NoHandle /\ Len(members) < Len(Def.members)
      /\ UNCHANGED <<doc, at, handle, members, index_acc, unknown, result>>
      /\ depth' = Len(type.layers) /\ depth' \in Nat
      /\ ArenaStep /\ \A h \in DOMAIN assigned : unassigned'[h] = unassigned[h]
  BY <1>1, StartBaseStep
<1>3. /\ ArenaKept' /\ BodyKept' /\ ReservationHeld' /\ handle' \in 0..Len(assigned')
      /\ Def' = Def /\ AstMemberAt' = AstMemberAt
  BY <1>2, InsideKeeps
<1>4. ty' \in Optional(Type)
  <2>1. \E t \in Type : ty' = <<t>>
    BY <1>1, StartBaseStep, AllocatedIsType
  <2> QED
    BY <2>1, OptionOf
<1>5. WalkTyped'
  BY <1>2, <1>3, <1>4 DEF Kept, WalkTyped
<1>6. TypeKept'
  BY <1>1, <1>2, <1>3 DEF TypeKept
<1> QED
  BY <1>2, <1>3, <1>5, <1>6 DEF Kept

(* What WrapSequence makes of a layer. *)
LEMMA WrapSequenceStep ==
  ASSUME Kept, WrapSequence,
         NEW layer, layer = AstMemberAt.ty[1].layers[depth],
         NEW anon, anon = Anon(layer, ty[1])
  PROVE  /\ handle # NoHandle /\ ty # <<>> /\ Len(members) < Len(Def.members)
         /\ AstMemberAt.ty # <<>> /\ AstMemberAt.ty[1] \in AstType
         /\ TypeError(AstMemberAt.ty[1]) = "none"
         /\ depth \in DOMAIN AstMemberAt.ty[1].layers /\ layer \in Layer
         /\ ty[1] \in Type /\ anon \in Definition /\ IsSequence(anon) /\ anon.elem_ty = ty[1]
         /\ depth' = depth - 1 /\ depth' \in Nat
         /\ UNCHANGED <<doc, at, handle, members, index_acc, unknown, result>>
         /\ ArenaStep /\ \A h \in DOMAIN assigned : unassigned'[h] = unassigned[h]
         /\ \/ /\ anon \in DOMAIN cache /\ ty' = <<Allocated(cache[anon])>>
               /\ UNCHANGED <<arena, cache>>
            \/ /\ anon \notin DOMAIN cache /\ ty' = <<Allocated(NewHandle)>>
               /\ NewSlot(anon, <<>>, anon)
<1>1. /\ handle # NoHandle /\ ty # <<>> /\ depth > 0 /\ depth' = depth - 1
      /\ UNCHANGED <<doc, at, handle, members, index_acc, unknown, result>>
  BY DEF WrapSequence, AtLayer, InBody
<1>2. /\ Len(members) < Len(Def.members) /\ AstMemberAt.ty # <<>>
      /\ TypeError(AstMemberAt.ty[1]) = "none" /\ depth <= Len(AstMemberAt.ty[1].layers)
  BY <1>1 DEF Kept, TypeKept
<1>3. AstMemberAt.ty[1] \in AstType
  BY <1>1, <1>2, MemberAt, PartsOfMember
<1>4. depth \in Nat /\ depth' \in Nat
  BY <1>1 DEF Kept, WalkTyped
<1>5. depth \in DOMAIN AstMemberAt.ty[1].layers /\ layer \in Layer
  <2>1. AstMemberAt.ty[1].layers \in Seq(Layer)
    BY <1>3, PartsOfType
  <2> QED
    BY <1>1, <1>2, <1>4, <2>1
<1>6. LenTypeError(layer.len_ty) = "none"
  BY <1>2, <1>3, <1>5, TypeFits
<1>7. ty[1] \in Type
  BY <1>1, OptionCases DEF Kept, WalkTyped
<1>8. anon \in Definition /\ IsSequence(anon) /\ anon.elem_ty = ty[1]
  BY <1>5, <1>6, <1>7, AnonIsSequence
<1>9. CASE anon \in DOMAIN cache
  <2>1. UNCHANGED <<arena, cache>> /\ ty' = <<Allocated(cache[anon])>>
    BY <1>9 DEF WrapSequence
  <2> QED
    BY <1>1, <1>2, <1>3, <1>4, <1>5, <1>7, <1>8, <1>9, <2>1 DEF ArenaStep, arena
<1>10. CASE anon \notin DOMAIN cache
  <2>1. Grow(anon, <<>>, anon) /\ ty' = <<Allocated(NewHandle)>>
    BY <1>10 DEF WrapSequence, Grow, Remember
  <2>2. anon \in Slot /\ <<>> \in Optional(Ident) /\ anon # Uninit
    BY <1>8, OptionOf, UninitIsNoDefinition DEF Slot
  <2>3. anon = KeyFor(anon, <<>>)
    BY <1>8, <2>2 DEF KeyFor
  <2>4. NewSlot(anon, <<>>, anon)
    BY <1>10, <2>1, <2>2, <2>3 DEF NewSlot
  <2>5. \A h \in DOMAIN assigned : unassigned'[h] = unassigned[h]
    BY <1>10, <2>1, <2>2, <2>3, GrowKeeps DEF Kept
  <2> QED
    BY <1>1, <1>2, <1>3, <1>4, <1>5, <1>7, <1>8, <1>10, <2>1, <2>4, <2>5 DEF ArenaStep
<1> QED
  BY <1>9, <1>10

LEMMA WrapSequenceKeeps ==
  ASSUME Kept, WrapSequence
  PROVE  Kept' /\ ArenaStep
<1>1. PICK layer : layer = AstMemberAt.ty[1].layers[depth]
  OBVIOUS
<1>2. PICK anon : anon = Anon(layer, ty[1])
  OBVIOUS
<1>3. /\ handle # NoHandle /\ ty # <<>> /\ Len(members) < Len(Def.members)
      /\ AstMemberAt.ty # <<>> /\ TypeError(AstMemberAt.ty[1]) = "none"
      /\ depth' = depth - 1 /\ depth' \in Nat /\ anon \in Definition
      /\ UNCHANGED <<doc, at, handle, members, index_acc, unknown, result>>
      /\ ArenaStep /\ \A h \in DOMAIN assigned : unassigned'[h] = unassigned[h]
  BY <1>1, <1>2, WrapSequenceStep
<1>4. /\ ArenaKept' /\ BodyKept' /\ ReservationHeld' /\ handle' \in 0..Len(assigned')
      /\ Def' = Def /\ AstMemberAt' = AstMemberAt
  BY <1>3, InsideKeeps
<1>5. ty' \in Optional(Type)
  <2>1. CASE anon \in DOMAIN cache
    <3>1. ty' = <<Allocated(cache[anon])>>
      BY <1>1, <1>2, <2>1, WrapSequenceStep
    <3>2. cache[anon] \in Nat \ {0}
      BY <2>1 DEF Kept, ArenaKept, ArenaTyped
    <3> QED
      BY <3>1, <3>2, AllocatedIsType, OptionOf
  <2>2. CASE anon \notin DOMAIN cache
    <3>1. ty' = <<Allocated(NewHandle)>>
      BY <1>1, <1>2, <2>2, WrapSequenceStep
    <3>2. NewHandle \in Nat \ {0}
      BY DEF Kept, ArenaKept, ArenaTyped, NewHandle
    <3> QED
      BY <3>1, <3>2, AllocatedIsType, OptionOf
  <2> QED
    BY <2>1, <2>2
<1>6. WalkTyped'
  BY <1>3, <1>4, <1>5 DEF Kept, WalkTyped
<1>7. TypeKept'
  <2>1. depth > 0 /\ depth <= Len(AstMemberAt.ty[1].layers) /\ depth \in Nat
    BY DEF WrapSequence, AtLayer, Kept, TypeKept, WalkTyped
  <2>2. depth' <= Len(AstMemberAt.ty[1].layers)
    <3>1. AstMemberAt.ty[1].layers \in Seq(Layer)
      BY <1>1, <1>2, WrapSequenceStep, PartsOfType
    <3> QED
      BY <1>3, <2>1, <3>1
  <2> QED
    BY <1>3, <1>4, <2>2 DEF TypeKept
<1> QED
  BY <1>3, <1>4, <1>6, <1>7 DEF Kept

(* A number that is counted on from fits a u64. *)
LEMMA IndexFits ==
  ASSUME Kept, handle # NoHandle, Len(members) < Len(Def.members),
         AstMemberAt.index # <<Overflow>>
  PROVE  IndexOf \in 0..MaxU64
<1>1. AstMemberAt \in AstMember
  BY MemberAt
<1>2. CASE AstMemberAt.index = <<>>
  BY <1>2 DEF IndexOf, Kept, WalkTyped
<1>3. CASE AstMemberAt.index # <<>>
  <2>1. AstMemberAt.index[1] \in Number /\ AstMemberAt.index[1] # Overflow
    BY <1>1, <1>3, PartsOfMember
  <2>2. IndexOf = AstMemberAt.index[1]
    BY <1>3 DEF IndexOf
  <2> QED
    BY <2>1, <2>2, MaxU64Assumption DEF Number, Overflow
<1> QED
  BY <1>2, <1>3

(* The member PushMember makes. *)
NewMember ==
  IF IsIndexed(Def) THEN [name |-> AstMemberAt.name, ty |-> ty[1], index |-> IndexOf]
  ELSE [name |-> AstMemberAt.name, ty |-> ty[1]]

LEMMA PushMemberStep ==
  ASSUME Kept, PushMember
  PROVE  /\ handle # NoHandle /\ ty # <<>> /\ ty[1] \in Type /\ Len(members) < Len(Def.members)
         /\ AstMemberAt \in AstMember
         /\ NewMember \in MemberOfKind(Def) /\ NewMember.ty = ty[1]
         /\ members' = Append(members, NewMember)
         /\ IsIndexed(Def) => IndexOf \in 0..MaxU64
         /\ index_acc' = IF IsIndexed(Def) THEN (IndexOf + 1) % (MaxU64 + 1) ELSE index_acc
         /\ ty' = <<>>
         /\ UNCHANGED <<doc, at, handle, depth, arena, cache, unknown, result>>
<1>1. /\ handle # NoHandle /\ ty # <<>> /\ ty' = <<>>
      /\ UNCHANGED <<doc, at, handle, depth, arena, cache, unknown, result>>
  BY DEF PushMember, AtPush, InBody
<1>2. Len(members) < Len(Def.members) /\ ty[1] \in Type
  BY <1>1, OptionCases DEF Kept, TypeKept, WalkTyped
<1>3. AstMemberAt \in AstMember /\ AstMemberAt.name \in Ident
  BY <1>1, <1>2, MemberAt, PartsOfMember
<1>4. CASE IsIndexed(Def)
  <2>1. /\ AstMemberAt.index # <<Overflow>>
        /\ members' = Append(members, NewMember)
        /\ index_acc' = (IndexOf + 1) % (MaxU64 + 1)
    BY <1>4 DEF PushMember, Increments, NewMember
  <2>2. IndexOf \in 0..MaxU64
    BY <1>1, <1>2, <2>1, IndexFits
  <2>3. IndexOf \in Nat
    BY <2>2, MaxU64Assumption
  <2>4. NewMember \in IndexedMember /\ NewMember.ty = ty[1]
    BY <1>2, <1>3, <1>4, <2>3 DEF NewMember, IndexedMember
  <2> QED
    BY <1>1, <1>2, <1>3, <1>4, <2>1, <2>2, <2>4 DEF MemberOfKind
<1>5. CASE ~IsIndexed(Def)
  <2>1. members' = Append(members, NewMember) /\ index_acc' = index_acc
    BY <1>5 DEF PushMember, NewMember
  <2>2. NewMember \in Member /\ NewMember.ty = ty[1]
    BY <1>2, <1>3, <1>5 DEF NewMember, Member
  <2> QED
    BY <1>1, <1>2, <1>3, <1>5, <2>1, <2>2 DEF MemberOfKind
<1> QED
  BY <1>4, <1>5

LEMMA PushMemberKeeps ==
  ASSUME Kept, PushMember
  PROVE  Kept' /\ ArenaStep
<1>1. PICK new : new = NewMember
  OBVIOUS
<1>2. /\ handle # NoHandle /\ Len(members) < Len(Def.members)
      /\ new \in MemberOfKind(Def) /\ members' = Append(members, new)
      /\ ty' = <<>>
      /\ UNCHANGED <<doc, at, handle, depth, arena, cache, unknown, result>>
  BY <1>1, PushMemberStep
<1>3. ArenaKept' /\ ArenaStep
  BY <1>2, ArenaUnchanged DEF Kept, ArenaStep
<1>4. Def' = Def /\ Len(Def.members) \in Nat
  <2>1. Def.members \in Seq(AstMember)
    BY <1>2, MemberAt
  <2> QED
    BY <1>2, <2>1 DEF Def
<1>5. members' \in Seq(MemberOfKind(Def)) /\ Len(members') = Len(members) + 1 /\ Len(members) \in Nat
  <2>1. members \in Seq(MemberOfKind(Def))
    BY <1>2 DEF Kept, BodyKept
  <2> QED
    BY <1>2, <2>1
<1>6. members' \in Seq(Member \cup IndexedMember)
  <2>1. new \in Member \cup IndexedMember
    BY <1>2 DEF MemberOfKind
  <2> QED
    BY <1>2, <2>1 DEF Kept, WalkTyped
<1>7. index_acc' \in 0..MaxU64
  <2>1. CASE IsIndexed(Def)
    BY <2>1, PushMemberStep, WrapsInRange
  <2>2. CASE ~IsIndexed(Def)
    BY <2>2, PushMemberStep DEF Kept, WalkTyped
  <2> QED
    BY <2>1, <2>2
<1>8. WalkTyped'
  BY <1>2, <1>6, <1>7, OptionOf DEF Kept, WalkTyped, arena
<1>9. BodyKept'
  BY <1>2, <1>4, <1>5 DEF Kept, BodyKept
<1>10. ReservationHeld' /\ TypeKept'
  BY <1>2, <1>4 DEF Kept, ReservationHeld, TypeKept, arena
<1> QED
  BY <1>3, <1>8, <1>9, <1>10 DEF Kept

(* What CloseDefinition writes. *)
LEMMA CloseDefinitionStep ==
  ASSUME Kept, CloseDefinition
  PROVE  /\ handle # NoHandle /\ ty = <<>> /\ Len(members) = Len(Def.members)
         /\ Def \in NamedDefinition /\ Def.kind # "extern"
         /\ at \in DOMAIN doc /\ at' = at + 1 /\ handle' = NoHandle
         /\ SlotWritten(handle, BodyDefinition)
         /\ BodyDefinition \in Definition /\ ~IsSequence(BodyDefinition)
         /\ BodyDefinition.kind = Def.kind /\ BodyDefinition.name = Def.name
         /\ BodyDefinition.members = members
         /\ UNCHANGED <<doc, members, index_acc, ty, depth, cache, unknown, result>>
<1>1. /\ handle # NoHandle /\ ty = <<>> /\ Len(members) = Len(Def.members)
      /\ at' = at + 1 /\ handle' = NoHandle
      /\ UNCHANGED <<doc, members, index_acc, ty, depth, cache, unknown, result>>
  BY DEF CloseDefinition, AtClose, InBody
<1>2. at \in DOMAIN doc /\ Def \in NamedDefinition /\ Def.kind # "extern"
  BY <1>1, DefinitionAt DEF Kept, BodyKept, WalkTyped
<1>3. members \in Seq(MemberOfKind(Def))
  BY <1>1 DEF Kept, BodyKept
<1>4. /\ BodyDefinition \in Definition
      /\ BodyDefinition.kind = Def.kind /\ BodyDefinition.name = Def.name
      /\ BodyDefinition.members = members
  <2>1. CASE Def.kind \in {"enum", "dict"}
    <3>1. IndexTypeOf(Def.index_ty) \in IndexType
      BY <1>1, <1>2, <2>1, KindOfNamed, IndexTypeFits DEF Kept, BodyKept, IsIndexed
    <3>2. BodyDefinition = [kind |-> Def.kind, name |-> Def.name,
                            index_ty |-> IndexTypeOf(Def.index_ty), members |-> members]
      BY <2>1 DEF BodyDefinition, IsIndexed
    <3>3. members \in Seq(IndexedMember) /\ Def.name \in Ident
      BY <1>2, <1>3, <2>1, KindOfNamed DEF MemberOfKind, IsIndexed
    <3>4. BodyDefinition \in IndexedStructLike
      BY <2>1, <3>1, <3>2, <3>3 DEF IndexedStructLike
    <3> QED
      BY <3>2, <3>4 DEF Definition
  <2>2. CASE Def.kind \in {"packed", "struct"}
    <3>1. BodyDefinition = [kind |-> Def.kind, name |-> Def.name, members |-> members]
      BY <2>2 DEF BodyDefinition, IsIndexed
    <3>2. members \in Seq(Member) /\ Def.name \in Ident
      BY <1>2, <1>3, <2>2, KindOfNamed DEF MemberOfKind, IsIndexed
    <3>3. BodyDefinition \in StructLike
      BY <2>2, <3>1, <3>2 DEF StructLike
    <3> QED
      BY <3>1, <3>3 DEF Definition
  <2> QED
    BY <1>2, <2>1, <2>2, KindOfNamed
<1>5. ~IsSequence(BodyDefinition)
  BY <1>2, <1>4, KindOfNamed DEF IsSequence
<1>6. SlotWritten(handle, BodyDefinition)
  <2>1. handle \in DOMAIN assigned
    BY <1>1 DEF Kept, WalkTyped, ArenaKept, ArenaTyped, NoHandle
  <2>2. unassigned[handle] = <<BodyDefinition.name>>
    BY <1>1, <1>4 DEF Kept, ReservationHeld
  <2>3. Write(handle, BodyDefinition)
    BY DEF CloseDefinition, Write
  <2> QED
    BY <1>4, <1>5, <2>1, <2>2, <2>3 DEF SlotWritten
<1> QED
  BY <1>1, <1>2, <1>4, <1>5, <1>6

LEMMA CloseDefinitionKeeps ==
  ASSUME Kept, CloseDefinition
  PROVE  Kept' /\ ArenaStep
<1>1. /\ ty = <<>> /\ at \in DOMAIN doc /\ at' = at + 1 /\ handle' = NoHandle
      /\ UNCHANGED <<doc, members, index_acc, ty, depth, cache, unknown, result>>
  BY CloseDefinitionStep
<1>2. ArenaStep
  BY CloseDefinitionStep DEF ArenaStep
<1>3. ArenaKept' /\ Len(assigned') \in Nat
  BY <1>2, ArenaStepKeeps DEF Kept
<1>4. at' \in 1..(Len(doc) + 1)
  BY <1>1 DEF Kept, WalkTyped, AstDocument
<1>5. WalkTyped'
  BY <1>1, <1>3, <1>4 DEF Kept, WalkTyped, NoHandle
<1> QED
  BY <1>1, <1>2, <1>3, <1>5 DEF Kept, BodyKept, ReservationHeld, TypeKept

(* finish() lists the names of the slots nobody wrote: it says ok just if  *)
(* there are none.                                                         *)
LEMMA UnknownNames ==
  ASSUME ArenaTyped
  PROVE  /\ Unknown \in Seq(Ident)
         /\ \A x : (\E k \in DOMAIN Unknown : Unknown[k] = x)
                     <=> \E h \in DOMAIN assigned : unassigned[h] # <<>> /\ unassigned[h][1] = x
         /\ Unknown = <<>> <=> \A h \in DOMAIN assigned : unassigned[h] = <<>>
<1>1. unassigned \in Seq(Optional(Ident)) /\ DOMAIN unassigned = DOMAIN assigned
  BY DEF ArenaTyped
<1>2. unassigned \in Seq(Seq(Ident))
  <2>1. Optional(Ident) \subseteq Seq(Ident)
    BY DEF Optional
  <2> DEFINE T == Optional(Ident)
             U == Seq(Ident)
  <2>2. unassigned \in Seq(T) /\ T \subseteq U
    BY <1>1, <2>1
  <2> HIDE DEF T, U
  <2>3. unassigned \in Seq(U)
    BY <2>2
  <2> QED
    BY <2>3 DEF U
<1>3. /\ Unknown \in Seq(Ident)
      /\ \A x : (\E k \in DOMAIN Unknown : Unknown[k] = x)
                  <=> \E i \in DOMAIN unassigned : \E j \in DOMAIN unassigned[i] : unassigned[i][j] = x
  BY <1>2, FlattenElements DEF Unknown
<1>4. \A h \in DOMAIN assigned :
        \/ unassigned[h] = <<>> /\ DOMAIN unassigned[h] = {}
        \/ unassigned[h] # <<>> /\ DOMAIN unassigned[h] = {1}
  <2> TAKE h \in DOMAIN assigned
  <2>1. unassigned[h] \in Optional(Ident)
    BY <1>1
  <2>2. unassigned[h] = <<>> => DOMAIN unassigned[h] = {}
    OBVIOUS
  <2> QED
    BY <2>1, <2>2, OptionCases
<1>5. ASSUME NEW x
      PROVE  (\E k \in DOMAIN Unknown : Unknown[k] = x)
               <=> \E h \in DOMAIN assigned : unassigned[h] # <<>> /\ unassigned[h][1] = x
  <2>1. (\E k \in DOMAIN Unknown : Unknown[k] = x)
          <=> \E i \in DOMAIN unassigned : \E j \in DOMAIN unassigned[i] : unassigned[i][j] = x
    BY <1>3
  <2> HIDE DEF Unknown
  <2> QED
    BY <1>1, <1>4, <2>1
<1>6. Unknown = <<>> <=> \A x : ~\E k \in DOMAIN Unknown : Unknown[k] = x
  <2>1. \A s \in Seq(Ident) : s = <<>> <=> DOMAIN s = {}
    OBVIOUS
  <2> QED
    BY <1>3, <2>1
<1>7. Unknown = <<>> <=> \A h \in DOMAIN assigned : unassigned[h] = <<>>
  BY <1>5, <1>6
<1> QED
  BY <1>3, <1>5, <1>7

LEMMA FinishKeeps ==
  ASSUME Kept, Finish
  PROVE  Kept' /\ ArenaStep
<1>1. /\ UNCHANGED <<doc, walk, arena, cache>>
      /\ result' \in {"ok", "UnknownTypeName"}
      /\ unknown' = unknown \/ unknown' = Unknown
  BY DEF Finish
<1>2. ArenaKept' /\ ArenaStep
  BY <1>1, ArenaUnchanged DEF Kept, ArenaStep
<1>3. unknown' \in Seq(Ident)
  BY <1>1, UnknownNames DEF Kept, ArenaKept, WalkTyped
<1>4. WalkTyped'
  BY <1>1, <1>3 DEF Kept, WalkTyped, walk, arena
<1>5. BodyKept' /\ ReservationHeld' /\ TypeKept'
  BY <1>1 DEF Kept, BodyKept, ReservationHeld, TypeKept, walk, arena, Def, AstMemberAt
<1> QED
  BY <1>2, <1>4, <1>5 DEF Kept

(* An error leaves everything as it is. *)
Rejects ==
  \/ RejectDuplicate \/ RejectExtern \/ RejectIndexType \/ RejectMember \/ RejectType
  \/ RejectNumber \/ OverflowPanic

LEMMA RejectsStep ==
  ASSUME Kept, Rejects
  PROVE  \E error \in ErrorKind \cup {"panic"} : Fail(error) /\ result' = error
<1>1. SUFFICES \E error \in ErrorKind \cup {"panic"} : Fail(error)
  BY DEF Fail
<1>2. CASE RejectDuplicate
  BY <1>2 DEF RejectDuplicate, ErrorKind
<1>3. CASE RejectExtern
  <2>1. ExternError \in ErrorKind \cup {"none"}
    BY ErrorKinds DEF ExternError
  <2> QED
    BY <1>3, <2>1 DEF RejectExtern
<1>4. CASE RejectIndexType
  BY <1>4, ErrorKinds DEF RejectIndexType
<1>5. CASE RejectMember
  BY <1>5 DEF RejectMember, ErrorKind
<1>6. CASE RejectType
  <2>1. AstMemberAt.ty # <<>> /\ AstMemberAt \in AstMember
    BY <1>6, MemberAt DEF RejectType, AtMember, InBody
  <2>2. AstMemberAt.ty[1] \in AstType
    BY <2>1, PartsOfMember
  <2> QED
    BY <1>6, <2>2, ErrorKinds DEF RejectType
<1>7. CASE RejectNumber
  BY <1>7 DEF RejectNumber, ErrorKind
<1>8. CASE OverflowPanic
  BY <1>8 DEF OverflowPanic
<1> QED
  BY <1>2, <1>3, <1>4, <1>5, <1>6, <1>7, <1>8 DEF Rejects

LEMMA KeptStep ==
  ASSUME Kept, [Next]_vars
  PROVE  Kept' /\ ArenaStep
<1>1. CASE UNCHANGED vars
  <2>1. ArenaKept' /\ ArenaStep
    BY <1>1, ArenaUnchanged DEF vars, Kept, ArenaStep
  <2>2. WalkTyped'
    BY <1>1 DEF vars, walk, arena, Kept, WalkTyped
  <2>3. BodyKept' /\ ReservationHeld' /\ TypeKept'
    BY <1>1 DEF vars, Kept, BodyKept, ReservationHeld, TypeKept, walk, arena, Def, AstMemberAt
  <2> QED
    BY <2>1, <2>2, <2>3 DEF Kept
<1>2. CASE Rejects
  <2>1. UNCHANGED <<arena, cache>>
    BY <1>2, RejectsStep DEF Fail
  <2> QED
    BY <1>2, <2>1, RejectsStep, FailKeeps DEF ArenaStep
<1>3. CASE DefineExtern
  BY <1>3, DefineExternKeeps
<1>4. CASE OpenDefinition
  BY <1>4, OpenDefinitionKeeps
<1>5. CASE StartVoid
  BY <1>5, StartVoidKeeps
<1>6. CASE StartBase
  BY <1>6, StartBaseKeeps
<1>7. CASE WrapSequence
  BY <1>7, WrapSequenceKeeps
<1>8. CASE PushMember
  BY <1>8, PushMemberKeeps
<1>9. CASE CloseDefinition
  BY <1>9, CloseDefinitionKeeps
<1>10. CASE Finish
  BY <1>10, FinishKeeps
<1> QED
  BY <1>1, <1>2, <1>3, <1>4, <1>5, <1>6, <1>7, <1>8, <1>9, <1>10 DEF Next, Rejects

(* The inductive invariant: the two vectors of the arena and the cache     *)
(* agree, the walk is at a place of the document, and what is open of a    *)
(* definition or a type is what its syntax tree has left.                  *)
THEOREM AlwaysKept == Spec => []Kept
<1>1. Init => Kept
  BY InitStarts, KeptStart
<1>2. Kept /\ [Next]_vars => Kept'
  BY KeptStep
<1> QED
  BY <1>1, <1>2, PTL DEF Spec
-----------------------------------------------------------------------------
(* Every variable keeps its type: the handle that is open is one of the    *)
(* arena's, and the cache leads to slots that are there.                   *)
THEOREM ResolverTypeCorrect == Spec => []TypeOK
<1>1. Kept => TypeOK
  BY DEF Kept, TypeOK, WalkTyped, BodyKept, ArenaKept, ArenaTyped, Slot
<1> QED
  BY <1>1, AlwaysKept, PTL

(* The debug_assert of Arena::insert never fails: whatever the members of  *)
(* a definition allocate, its own slot stays reserved for it.              *)
THEOREM ReservationAlwaysHeld == Spec => []ReservationHeld
<1>1. Kept => ReservationHeld
  BY DEF Kept
<1> QED
  BY <1>1, AlwaysKept, PTL

(* The cache finds every slot under its key and nothing else: names have   *)
(* one slot each, and equal vectors and streams share one.                 *)
THEOREM CacheAlwaysExact == Spec => []CacheExact
<1>1. Kept => CacheExact
  BY DEF Kept, ArenaKept
<1> QED
  BY <1>1, AlwaysKept, PTL

(* No step takes a slot away or changes one that was written: a handle     *)
(* refers to the same definition for good.                                 *)
THEOREM DefinitionsWrittenOnce == Spec => WrittenOnce
<1>1. Kept /\ [Next]_vars =>
        [\A h \in DOMAIN assigned :
           /\ h \in DOMAIN assigned'
           /\ assigned[h] # Uninit => assigned'[h] = assigned[h]]_vars
  BY KeptStep, ArenaStepKeeps DEF Kept
<1> QED
  BY <1>1, AlwaysKept, PTL DEF Spec, WrittenOnce

(* How the resolver ends: with every definition read, and the names that   *)
(* are missing told.                                                       *)
Finished ==
  /\ result \in {"ok", "UnknownTypeName"} => at \notin DOMAIN doc
  /\ result = "ok" => Unknown = <<>>
  /\ result = "UnknownTypeName" => unknown = Unknown /\ Unknown # <<>>

(* Every step but the last and the ones that fail leaves it running. *)
LEMMA RunsOn ==
  ASSUME \/ DefineExtern \/ OpenDefinition \/ StartVoid \/ StartBase \/ WrapSequence
         \/ PushMember \/ CloseDefinition
  PROVE  result = "running" /\ result' = "running"
  BY DEF DefineExtern, OpenDefinition, StartVoid, StartBase, WrapSequence, PushMember,
         CloseDefinition, AtDefinition, AtMember, AtLayer, AtPush, AtClose, InBody

LEMMA FinishedStep ==
  ASSUME Kept, Finished, [Next]_vars
  PROVE  Finished'
<1>1. CASE UNCHANGED vars
  BY <1>1 DEF vars, arena, walk, Finished, Unknown
<1>2. CASE Rejects
  <2>1. result' \in ErrorKind \cup {"panic"}
    BY <1>2, RejectsStep
  <2> QED
    BY <2>1 DEF Finished, ErrorKind
<1>3. CASE Finish
  BY <1>3 DEF Finish, Finished, Unknown, arena, walk
<1>4. CASE \/ DefineExtern \/ OpenDefinition \/ StartVoid \/ StartBase \/ WrapSequence
           \/ PushMember \/ CloseDefinition
  BY <1>4, RunsOn DEF Finished
<1> QED
  BY <1>1, <1>2, <1>3, <1>4 DEF Next, Rejects

LEMMA FinishedStart == Starts => Finished
BY DEF Starts, New, Finished

(* The resolver ends well only behind the last definition, and with an     *)
(* UnknownTypeName error only while slots are reserved.                    *)
THEOREM AlwaysFinished == Spec => []Finished
<1>1. Init => Finished
  BY InitStarts, FinishedStart
<1>2. Kept /\ Finished /\ [Next]_vars => Finished'
  BY FinishedStep
<1> QED
  BY <1>1, <1>2, AlwaysKept, PTL DEF Spec

LEMMA NothingOpen ==
  ASSUME Kept, Finished, result \in {"ok", "UnknownTypeName"}
  PROVE  handle = NoHandle /\ ty = <<>> /\ at = Len(doc) + 1
<1>1. at \notin DOMAIN doc
  BY DEF Finished
<1>2. handle = NoHandle
  BY <1>1 DEF Kept, BodyKept
<1>3. ty = <<>>
  BY <1>2 DEF Kept, TypeKept
<1>4. at = Len(doc) + 1
  <2>1. doc \in Seq(NamedDefinition) /\ at \in 1..(Len(doc) + 1)
    BY DEF Kept, WalkTyped, AstDocument
  <2> QED
    BY <1>1, <2>1
<1> QED
  BY <1>2, <1>3, <1>4

(* The cast of Arena::finish is sound: the two vectors of the arena are    *)
(* equally long, and when the resolver says ok every slot has been         *)
(* written, so no byte of a definition is read that nobody wrote.          *)
THEOREM NothingUninitialised == Spec => []NoUninit
<1>1. Kept /\ Finished => NoUninit
  <2> SUFFICES ASSUME Kept, Finished PROVE NoUninit
    OBVIOUS
  <2>1. result = "ok" => \A h \in DOMAIN assigned : unassigned[h] = <<>>
    BY UnknownNames DEF Finished, Kept, ArenaKept
  <2> QED
    BY <2>1 DEF Kept, ArenaKept, ArenaTyped, SlotsAgree, NoUninit
<1> QED
  BY <1>1, AlwaysKept, AlwaysFinished, PTL
-----------------------------------------------------------------------------
(* The schema the resolver hands to the validator is sound: what it refers *)
(* to is there, and its vectors and streams are made of what was there     *)
(* before them and belong to what comes after.                             *)

(* The layer that is resolved next, and the sequence it makes. *)
OpenLayer == AstMemberAt.ty[1].layers[depth]
OpenAnon == Anon(OpenLayer, ty[1])

(* Only three actions write a slot. *)
LEMMA WrittenBy ==
  ASSUME Kept, [Next]_vars,
         NEW h \in DOMAIN assigned', assigned'[h] # Uninit,
         ~(h \in DOMAIN assigned /\ assigned'[h] = assigned[h])
  PROVE  \/ DefineExtern /\ assigned'[h] = ExternDefinition
         \/ WrapSequence /\ h = NewHandle /\ assigned'[h] = OpenAnon /\ ty' = <<Allocated(h)>>
         \/ CloseDefinition /\ h = handle /\ assigned'[h] = BodyDefinition
<1>1. ArenaKept
  BY DEF Kept
<1>2. \A slot, option, key : NewSlot(slot, option, key) =>
        assigned'[NewHandle] = slot /\ (h \notin DOMAIN assigned => h = NewHandle)
        /\ \A g \in DOMAIN assigned : assigned'[g] = assigned[g]
  <2> TAKE slot, option, key
  <2> HAVE NewSlot(slot, option, key)
  <2>1. /\ ArenaKept' /\ Len(assigned') = Len(assigned) + 1
        /\ assigned'[NewHandle] = slot
        /\ \A g \in DOMAIN assigned : assigned'[g] = assigned[g]
    BY <1>1, GrowKeeps DEF NewSlot
  <2>2. h \notin DOMAIN assigned => h = NewHandle
    BY <1>1, <2>1 DEF ArenaKept, ArenaTyped, NewHandle
  <2> QED
    BY <2>1, <2>2
<1>3. \A g, def : SlotWritten(g, def) =>
        /\ assigned'[g] = def /\ DOMAIN assigned' = DOMAIN assigned
        /\ \A k \in DOMAIN assigned \ {g} : assigned'[k] = assigned[k]
  BY <1>1, WriteKeeps DEF SlotWritten
<1>4. ~UNCHANGED assigned
  OBVIOUS
<1>5. \A name \in Ident : ~Reserves(name)
  <2> SUFFICES ASSUME NEW name \in Ident, Reserves(name) PROVE FALSE
    OBVIOUS
  <2>1. ~Known(name) /\ Grow(Uninit, <<name>>, NameKey(name))
    BY <1>4, ReserveCases DEF arena
  <2>2. <<name>> \in Optional(Ident) /\ <<name>> # <<>> /\ Uninit \in Slot
    BY OptionOf DEF Slot
  <2>3. NameKey(name) = KeyFor(Uninit, <<name>>)
    BY DEF KeyFor, IsSequence, Uninit
  <2>4. NewSlot(Uninit, <<name>>, NameKey(name))
    BY <2>1, <2>2, <2>3 DEF NewSlot, Known
  <2> QED
    BY <1>2, <2>4
<1>6. CASE DefineExtern
  <2>1. PICK g : g = HandleOf(Def.name)
    OBVIOUS
  <2>2. SlotWritten(g, ExternDefinition) \/ NewSlot(ExternDefinition, <<>>, NameKey(Def.name))
    BY <1>6, <2>1, DefineExternStep
  <2> QED
    BY <1>2, <1>3, <1>6, <2>2
<1>7. CASE OpenDefinition
  <2>1. Reserves(Def.name) /\ at \in DOMAIN doc
    BY <1>7 DEF OpenDefinition, Reserves, AtDefinition
  <2>2. Def.name \in Ident
    BY <2>1, DefinitionAt, KindOfNamed DEF Kept, WalkTyped
  <2> QED
    BY <1>5, <2>1, <2>2
<1>8. CASE StartBase
  <2>1. PICK type : type = AstMemberAt.ty[1]
    OBVIOUS
  <2>2. UNCHANGED arena \/ (type.base.name \in Ident /\ Reserves(type.base.name))
    BY <1>8, <2>1, StartBaseStep
  <2> QED
    BY <1>4, <1>5, <2>2 DEF arena
<1>9. CASE WrapSequence
  <2>1. PICK layer, anon : layer = OpenLayer /\ anon = OpenAnon
    OBVIOUS
  <2>2. UNCHANGED arena \/ (NewSlot(anon, <<>>, anon) /\ ty' = <<Allocated(NewHandle)>>)
    BY <1>9, <2>1, WrapSequenceStep DEF OpenLayer, OpenAnon
  <2> QED
    BY <1>2, <1>4, <1>9, <2>1, <2>2 DEF arena
<1>10. CASE CloseDefinition
  <2>1. SlotWritten(handle, BodyDefinition)
    BY <1>10, CloseDefinitionStep
  <2> QED
    BY <1>3, <1>10, <2>1
<1>11. CASE UNCHANGED vars \/ Rejects \/ StartVoid \/ PushMember \/ Finish
  <2>1. UNCHANGED arena
    BY <1>11, RejectsStep DEF vars, StartVoid, PushMember, Finish, Fail
  <2> QED
    BY <1>4, <2>1 DEF arena
<1> QED
  BY <1>6, <1>7, <1>8, <1>9, <1>10, <1>11 DEF Next, Rejects
-----------------------------------------------------------------------------
(***************************************************************************)
(* References: every handle in the arena, in the open definition and in    *)
(* the open type is one of the arena's.                                    *)
(***************************************************************************)
Refers(type, slots) == type.tag = "allocated" => type.handle \in DOMAIN slots

SlotsRefer ==
  \A h \in DOMAIN assigned : assigned[h] # Uninit =>
    \A i \in DOMAIN TypesOf(assigned[h]) : Refers(TypesOf(assigned[h])[i], assigned)

ReferencesKept ==
  /\ SlotsRefer
  /\ \A i \in DOMAIN members : Refers(members[i].ty, assigned)
  /\ ty # <<>> => Refers(ty[1], assigned)

(* What is in the arena stays in it. *)
LEMMA RefersOn ==
  ASSUME Kept, [Next]_vars
  PROVE  \A type : Refers(type, assigned) => Refers(type, assigned')
  BY KeptStep, ArenaStepKeeps DEF Kept, Refers

(* The types of the definitions the three writers write. *)
LEMMA ExternHasNoTypes == TypesOf(ExternDefinition) = <<>>
<1>1. ExternDefinition.kind \in {"extern", "primitive"}
  BY DEF ExternDefinition
<1> QED
  BY <1>1 DEF TypesOf, IsSequence

LEMMA AnonHasOneType ==
  ASSUME NEW anon, IsSequence(anon)
  PROVE  DOMAIN TypesOf(anon) = {1} /\ TypesOf(anon)[1] = anon.elem_ty
<1>1. TypesOf(anon) = <<anon.elem_ty>>
  BY DEF TypesOf, IsSequence
<1> QED
  BY <1>1

LEMMA BodyHasMembersTypes ==
  ASSUME Kept, CloseDefinition
  PROVE  /\ DOMAIN TypesOf(BodyDefinition) = DOMAIN members
         /\ \A i \in DOMAIN members : TypesOf(BodyDefinition)[i] = members[i].ty
<1>1. /\ BodyDefinition.members = members /\ ~IsSequence(BodyDefinition)
      /\ BodyDefinition.kind = Def.kind
      /\ Def.kind \in {"packed", "struct", "enum", "dict"}
  BY CloseDefinitionStep, KindOfNamed
<1>2. TypesOf(BodyDefinition) = [i \in DOMAIN members |-> members[i].ty]
  BY <1>1 DEF TypesOf
<1> QED
  BY <1>2

LEMMA SlotsReferStep ==
  ASSUME Kept, ReferencesKept, [Next]_vars
  PROVE  SlotsRefer'
<1>1. SUFFICES ASSUME NEW h \in DOMAIN assigned', assigned'[h] # Uninit,
                      NEW i \in DOMAIN TypesOf(assigned'[h])
               PROVE  Refers(TypesOf(assigned'[h])[i], assigned')
  BY DEF SlotsRefer
<1>2. SUFFICES Refers(TypesOf(assigned'[h])[i], assigned)
  BY <1>2, RefersOn
<1>3. CASE h \in DOMAIN assigned /\ assigned'[h] = assigned[h]
  BY <1>1, <1>3 DEF ReferencesKept, SlotsRefer
<1>4. CASE DefineExtern /\ assigned'[h] = ExternDefinition
  BY <1>4, ExternHasNoTypes
<1>5. CASE WrapSequence /\ assigned'[h] = OpenAnon
  <2>1. PICK layer, anon : layer = OpenLayer /\ anon = OpenAnon
    OBVIOUS
  <2>2. IsSequence(anon) /\ anon.elem_ty = ty[1] /\ ty # <<>>
    BY <1>5, <2>1, WrapSequenceStep DEF OpenLayer, OpenAnon
  <2> QED
    BY <1>5, <2>1, <2>2, AnonHasOneType DEF ReferencesKept
<1>6. CASE CloseDefinition /\ assigned'[h] = BodyDefinition
  BY <1>6, BodyHasMembersTypes DEF ReferencesKept
<1> QED
  BY <1>1, <1>3, <1>4, <1>5, <1>6, WrittenBy

LEMMA ReferencesStep ==
  ASSUME Kept, ReferencesKept, [Next]_vars
  PROVE  ReferencesKept'
<1>1. SlotsRefer'
  BY SlotsReferStep
<1>2. \A i \in DOMAIN members : Refers(members[i].ty, assigned')
  BY RefersOn DEF ReferencesKept
<1>3. ty # <<>> => Refers(ty[1], assigned')
  BY RefersOn DEF ReferencesKept
<1>4. ArenaKept' /\ \A k \in DOMAIN cache : k \in DOMAIN cache' /\ cache'[k] = cache[k]
  BY KeptStep, ArenaStepKeeps DEF Kept
<1>5. CASE UNCHANGED <<members, ty>>
  BY <1>1, <1>2, <1>3, <1>5 DEF ReferencesKept
<1>6. CASE UNCHANGED vars \/ Rejects \/ DefineExtern \/ CloseDefinition \/ Finish
  <2>1. UNCHANGED <<members, ty>>
    BY <1>6, RejectsStep DEF vars, walk, DefineExtern, CloseDefinition, Finish, Fail
  <2> QED
    BY <1>5, <2>1
<1>7. CASE OpenDefinition
  <2>1. members' = <<>> /\ ty' = ty
    BY <1>7 DEF OpenDefinition
  <2> QED
    BY <1>1, <1>3, <2>1 DEF ReferencesKept
<1>8. CASE StartVoid
  <2>1. members' = members /\ ty' = <<Integer(0)>>
    BY <1>8 DEF StartVoid
  <2> QED
    BY <1>1, <1>2, <2>1 DEF ReferencesKept, Refers, Integer
<1>9. CASE StartBase
  <2>1. PICK type, h : type = AstMemberAt.ty[1] /\ h = HandleOf(type.base.name)
    OBVIOUS
  <2>2. \/ ty' = <<Allocated(h)>> /\ h \in DOMAIN assigned'
        \/ ty' = <<Integer(type.base.number)>>
        \/ ty' = <<Varint(type.base.number \div 8)>>
    BY <1>9, <2>1, StartBaseStep
  <2>3. members' = members
    BY <1>9 DEF StartBase
  <2> QED
    BY <1>1, <1>2, <2>2, <2>3 DEF ReferencesKept, Refers, Allocated, Integer, Varint
<1>10. CASE WrapSequence
  <2>1. PICK layer, anon, n : layer = OpenLayer /\ anon = OpenAnon /\ n = NewHandle
    OBVIOUS
  <2>2. \/ anon \in DOMAIN cache /\ ty' = <<Allocated(cache[anon])>>
        \/ ty' = <<Allocated(n)>> /\ NewSlot(anon, <<>>, anon)
    BY <1>10, <2>1, WrapSequenceStep DEF OpenLayer, OpenAnon
  <2>3. NewSlot(anon, <<>>, anon) => n \in DOMAIN assigned'
    <3>1. NewSlot(anon, <<>>, anon) =>
            cache'[anon] = NewHandle /\ DOMAIN cache' = DOMAIN cache \cup {anon}
      BY GrowKeeps DEF NewSlot, Kept
    <3> QED
      BY <1>4, <2>1, <3>1 DEF ArenaKept, ArenaTyped
  <2>4. anon \in DOMAIN cache => cache[anon] \in DOMAIN assigned'
    BY <1>4 DEF ArenaKept, ArenaTyped
  <2>5. members' = members
    BY <1>10 DEF WrapSequence
  <2> QED
    BY <1>1, <1>2, <2>2, <2>3, <2>4, <2>5 DEF ReferencesKept, Refers, Allocated
<1>11. CASE PushMember
  <2>1. PICK new : new = NewMember
    OBVIOUS
  <2>2. members' = Append(members, new) /\ new.ty = ty[1] /\ ty # <<>> /\ ty' = <<>>
    BY <1>11, <2>1, PushMemberStep
  <2>3. members \in Seq(Member \cup IndexedMember)
    BY DEF Kept, WalkTyped
  <2>4. \A i \in DOMAIN members' : (i \in DOMAIN members /\ members'[i] = members[i]) \/ members'[i] = new
    <3>1. \A M : \A s \in Seq(M) : \A x, i : i \in DOMAIN Append(s, x) =>
            (i \in DOMAIN s /\ Append(s, x)[i] = s[i]) \/ Append(s, x)[i] = x
      OBVIOUS
    <3> QED
      BY <2>2, <2>3, <3>1
  <2> QED
    BY <1>1, <1>2, <1>3, <2>2, <2>4 DEF ReferencesKept
<1> QED
  BY <1>6, <1>7, <1>8, <1>9, <1>10, <1>11 DEF Next, Rejects

LEMMA ReferencesStart == Starts => ReferencesKept
BY DEF Starts, New, ReferencesKept, SlotsRefer
-----------------------------------------------------------------------------
(***************************************************************************)
(* Sequences.  What a vector or a stream holds has been given its slot     *)
(* before; and it is held itself, by a definition that is written, by the  *)
(* one that is open, or by the type that is open.                          *)
(***************************************************************************)
SequencesDescend ==
  \A h \in DOMAIN assigned : IsSequence(assigned[h]) =>
    LET elem == assigned[h].elem_ty
    IN  elem.tag = "allocated" => elem.handle < h

HeldBySlot(h, slots) ==
  \E g \in DOMAIN slots : slots[g] # Uninit /\ Mentions(slots, g, h)

HeldByBody(h) == handle # NoHandle /\ \E i \in DOMAIN members : members[i].ty = Allocated(h)

HeldByType(h) == ty # <<>> /\ ty[1] = Allocated(h)

SequencesHeld ==
  \A h \in DOMAIN assigned : IsSequence(assigned[h]) =>
    HeldBySlot(h, assigned) \/ HeldByBody(h) \/ HeldByType(h)

LEMMA UninitIsNoSequence == ~IsSequence(Uninit)
  BY DEF IsSequence, Uninit

(* A sequence is found under itself. *)
LEMMA KnownAnon ==
  ASSUME ArenaKept, NEW anon \in Definition, IsSequence(anon), anon \in DOMAIN cache,
         NEW h, h = cache[anon]
  PROVE  h \in DOMAIN assigned /\ assigned[h] = anon
<1>1. h \in DOMAIN assigned /\ KeyOf(h) = anon
  BY DEF ArenaKept, ArenaTyped, CacheExact
<1>2. CASE assigned[h] = Uninit
  <2>1. KeyOf(h) = NameKey(unassigned[h][1])
    BY <1>2 DEF KeyOf, IsSequence, Uninit
  <2> QED
    BY <1>1, <2>1, NameKeyDiffers
<1>3. CASE assigned[h] # Uninit /\ IsSequence(assigned[h])
  BY <1>1, <1>3 DEF KeyOf
<1>4. CASE assigned[h] # Uninit /\ ~IsSequence(assigned[h])
  <2>1. KeyOf(h) = NameKey(assigned[h].name)
    BY <1>4 DEF KeyOf
  <2> QED
    BY <1>1, <2>1, NameKeyDiffers
<1> QED
  BY <1>2, <1>3, <1>4

LEMMA SequencesDescendStep ==
  ASSUME Kept, ReferencesKept, SequencesDescend, [Next]_vars
  PROVE  SequencesDescend'
<1>1. SUFFICES ASSUME NEW h \in DOMAIN assigned', IsSequence(assigned'[h]),
                      NEW elem, elem = assigned'[h].elem_ty, elem.tag = "allocated"
               PROVE  elem.handle < h
  BY DEF SequencesDescend
<1>2. assigned'[h] # Uninit
  BY <1>1, UninitIsNoSequence
<1>3. CASE h \in DOMAIN assigned /\ assigned'[h] = assigned[h]
  BY <1>1, <1>3 DEF SequencesDescend
<1>4. CASE DefineExtern /\ assigned'[h] = ExternDefinition
  <2>1. ExternDefinition.kind \in {"extern", "primitive"}
    BY DEF ExternDefinition
  <2> QED
    BY <1>1, <1>4, <2>1 DEF IsSequence
<1>5. CASE WrapSequence /\ h = NewHandle /\ assigned'[h] = OpenAnon
  <2>1. PICK layer, anon : layer = OpenLayer /\ anon = OpenAnon
    OBVIOUS
  <2>2. anon.elem_ty = ty[1] /\ ty # <<>> /\ ty[1] \in Type
    BY <1>5, <2>1, WrapSequenceStep DEF OpenLayer, OpenAnon
  <2>3. elem = ty[1]
    BY <1>1, <1>5, <2>1, <2>2
  <2>4. elem.handle \in DOMAIN assigned
    BY <1>1, <2>2, <2>3 DEF ReferencesKept, Refers
  <2> QED
    BY <1>5, <2>4 DEF NewHandle, Kept, ArenaKept, ArenaTyped
<1>6. CASE CloseDefinition /\ assigned'[h] = BodyDefinition
  BY <1>1, <1>6, CloseDefinitionStep
<1> QED
  BY <1>1, <1>2, <1>3, <1>4, <1>5, <1>6, WrittenBy

(* What holds a sequence is still there after the step, or hands it on. *)
LEMMA SlotsHoldOn ==
  ASSUME Kept, [Next]_vars, NEW h, HeldBySlot(h, assigned)
  PROVE  HeldBySlot(h, assigned')
<1>1. PICK g \in DOMAIN assigned : assigned[g] # Uninit /\ Mentions(assigned, g, h)
  BY DEF HeldBySlot
<1>2. g \in DOMAIN assigned' /\ assigned'[g] = assigned[g]
  BY <1>1, KeptStep, ArenaStepKeeps DEF Kept
<1>3. Mentions(assigned', g, h)
  BY <1>1, <1>2 DEF Mentions
<1> QED
  BY <1>1, <1>2, <1>3 DEF HeldBySlot

LEMMA BodyHandsOn ==
  ASSUME Kept, [Next]_vars, NEW h, HeldByBody(h)
  PROVE  HeldBySlot(h, assigned') \/ HeldByBody(h)'
<1>1. PICK i \in DOMAIN members : members[i].ty = Allocated(h)
  BY DEF HeldByBody
<1>2. handle # NoHandle
  BY DEF HeldByBody
<1>3. ~DefineExtern /\ ~OpenDefinition
  BY <1>2 DEF DefineExtern, OpenDefinition, AtDefinition
<1>4. CASE UNCHANGED vars \/ Rejects \/ StartVoid \/ StartBase \/ WrapSequence \/ Finish
  <2>1. UNCHANGED <<handle, members>>
    BY <1>4, RejectsStep DEF vars, walk, StartVoid, StartBase, WrapSequence, Finish, Fail
  <2> QED
    BY <2>1 DEF HeldByBody
<1>5. CASE PushMember
  <2>1. PICK new : new = NewMember
    OBVIOUS
  <2>2. members' = Append(members, new) /\ handle' = handle
    BY <1>5, <2>1, PushMemberStep
  <2>3. i \in DOMAIN members' /\ members'[i] = members[i]
    <3>1. members \in Seq(Member \cup IndexedMember)
      BY DEF Kept, WalkTyped
    <3> QED
      BY <2>2, <3>1
  <2> QED
    BY <1>1, <1>2, <2>2, <2>3 DEF HeldByBody
<1>6. CASE CloseDefinition
  <2>1. PICK body : body = BodyDefinition
    OBVIOUS
  <2>2. SlotWritten(handle, body) /\ body \in Definition
    BY <1>6, <2>1, CloseDefinitionStep
  <2>3. handle \in DOMAIN assigned' /\ assigned'[handle] = body
    BY <2>2, WriteKeeps DEF SlotWritten, Kept
  <2>4. i \in DOMAIN TypesOf(body) /\ TypesOf(body)[i] = Allocated(h)
    BY <1>1, <1>6, <2>1, BodyHasMembersTypes
  <2>5. body # Uninit
    BY <2>2, UninitIsNoDefinition
  <2> QED
    BY <2>3, <2>4, <2>5 DEF HeldBySlot, Mentions
<1> QED
  BY <1>3, <1>4, <1>5, <1>6 DEF Next, Rejects

LEMMA TypeHandsOn ==
  ASSUME Kept, [Next]_vars, NEW h, HeldByType(h)
  PROVE  HeldBySlot(h, assigned') \/ HeldByBody(h)' \/ HeldByType(h)'
<1>1. ty # <<>> /\ ty[1] = Allocated(h) /\ handle # NoHandle
  BY DEF HeldByType, Kept, TypeKept
<1>2. /\ ~DefineExtern /\ ~OpenDefinition /\ ~StartVoid /\ ~StartBase /\ ~CloseDefinition
  BY <1>1 DEF DefineExtern, OpenDefinition, StartVoid, StartBase, CloseDefinition,
              AtDefinition, AtMember, AtClose
<1>3. CASE UNCHANGED vars \/ Rejects \/ Finish
  <2>1. UNCHANGED ty
    BY <1>3, RejectsStep DEF vars, walk, Finish, Fail
  <2> QED
    BY <2>1 DEF HeldByType
<1>4. CASE WrapSequence
  <2>1. PICK layer, anon : layer = OpenLayer /\ anon = OpenAnon
    OBVIOUS
  <2>2. /\ anon \in Definition /\ IsSequence(anon) /\ anon.elem_ty = Allocated(h)
        /\ \/ anon \in DOMAIN cache /\ UNCHANGED <<arena, cache>>
           \/ NewSlot(anon, <<>>, anon)
    BY <1>1, <1>4, <2>1, WrapSequenceStep DEF OpenLayer, OpenAnon
  <2>3. \E g \in DOMAIN assigned' : assigned'[g] = anon
    <3>1. CASE anon \in DOMAIN cache /\ UNCHANGED <<arena, cache>>
      BY <2>2, <3>1, KnownAnon DEF Kept, arena
    <3>2. CASE NewSlot(anon, <<>>, anon)
      <4>1. /\ ArenaKept' /\ assigned'[NewHandle] = anon
            /\ DOMAIN cache' = DOMAIN cache \cup {anon} /\ cache'[anon] = NewHandle
        BY <3>2, GrowKeeps DEF NewSlot, Kept
      <4>2. NewHandle \in DOMAIN assigned'
        BY <4>1 DEF ArenaKept, ArenaTyped
      <4> QED
        BY <4>1, <4>2
    <3> QED
      BY <2>2, <3>1, <3>2
  <2>4. PICK g \in DOMAIN assigned' : assigned'[g] = anon
    BY <2>3
  <2>5. anon # Uninit
    BY <2>2, UninitIsNoDefinition
  <2>6. Mentions(assigned', g, h)
    BY <2>2, <2>4, AnonHasOneType DEF Mentions
  <2> QED
    BY <2>4, <2>5, <2>6 DEF HeldBySlot
<1>5. CASE PushMember
  <2>1. PICK new : new = NewMember
    OBVIOUS
  <2>2. members' = Append(members, new) /\ handle' = handle /\ new.ty = ty[1]
    BY <1>5, <2>1, PushMemberStep
  <2>3. \E i \in DOMAIN members' : members'[i] = new
    <3>1. members \in Seq(Member \cup IndexedMember)
      BY DEF Kept, WalkTyped
    <3> QED
      BY <2>2, <3>1
  <2> QED
    BY <1>1, <2>2, <2>3 DEF HeldByBody
<1> QED
  BY <1>2, <1>3, <1>4, <1>5 DEF Next, Rejects

LEMMA SequencesHeldStep ==
  ASSUME Kept, SequencesHeld, [Next]_vars
  PROVE  SequencesHeld'
<1>1. ASSUME NEW h \in DOMAIN assigned', IsSequence(assigned'[h])
      PROVE  HeldBySlot(h, assigned') \/ HeldByBody(h)' \/ HeldByType(h)'
  <2>1. assigned'[h] # Uninit
    BY <1>1, UninitIsNoSequence
  <2>2. CASE h \in DOMAIN assigned /\ assigned'[h] = assigned[h]
    BY <1>1, <2>2, SlotsHoldOn, BodyHandsOn, TypeHandsOn DEF SequencesHeld
  <2>3. CASE DefineExtern /\ assigned'[h] = ExternDefinition
    <3>1. ExternDefinition.kind \in {"extern", "primitive"}
      BY DEF ExternDefinition
    <3> QED
      BY <1>1, <2>3, <3>1 DEF IsSequence
  <2>4. CASE WrapSequence /\ ty' = <<Allocated(h)>>
    BY <2>4 DEF HeldByType
  <2>5. CASE CloseDefinition /\ assigned'[h] = BodyDefinition
    BY <1>1, <2>5, CloseDefinitionStep
  <2> QED
    BY <1>1, <2>1, <2>2, <2>3, <2>4, <2>5, WrittenBy
<1> QED
  BY <1>1 DEF SequencesHeld

Referred == ReferencesKept /\ SequencesDescend /\ SequencesHeld

LEMMA ReferredStart == Starts => Referred
BY ReferencesStart DEF Starts, New, Referred, SequencesDescend, SequencesHeld

LEMMA ReferredStep == Kept /\ Referred /\ [Next]_vars => Referred'
BY ReferencesStep, SequencesDescendStep, SequencesHeldStep DEF Referred

(* Nothing dangles while the resolver runs: handles are in range, the      *)
(* element of a sequence was there before it, and each sequence is held by *)
(* a slot, by a member that was read or by the type that is being read.    *)
THEOREM AlwaysReferred == Spec => []Referred
BY InitStarts, ReferredStart, ReferredStep, AlwaysKept, PTL DEF Spec
-----------------------------------------------------------------------------
(* What a finished arena is. *)
LEMMA FinishedArena ==
  ASSUME Kept, Finished, result = "ok"
  PROVE  /\ assigned \in Seq(Definition)
         /\ \A h \in DOMAIN assigned : assigned[h] # Uninit /\ assigned[h] \in Definition
<1>1. \A h \in DOMAIN assigned : unassigned[h] = <<>>
  BY UnknownNames DEF Finished, Kept, ArenaKept
<1>2. assigned \in Seq(Slot)
  BY DEF Kept, ArenaKept, ArenaTyped
<1>3. \A h \in DOMAIN assigned : assigned[h] # Uninit /\ assigned[h] \in Definition
  BY <1>1, <1>2 DEF Kept, ArenaKept, SlotsAgree, Slot
<1> QED
  BY <1>2, <1>3

LEMMA FinishedHandles ==
  ASSUME Kept, Finished, Referred, result = "ok"
  PROVE  HandlesInRange(assigned)
  BY FinishedArena DEF Referred, ReferencesKept, SlotsRefer, Refers, HandlesInRange

(* A sequence mentions only what has a smaller handle. *)
LEMMA SequenceMentions ==
  ASSUME SequencesDescend, NEW h \in SequencesIn(assigned), NEW t, Mentions(assigned, h, t)
  PROVE  t < h
<1>1. h \in DOMAIN assigned /\ IsSequence(assigned[h])
  BY DEF SequencesIn
<1>2. assigned[h].elem_ty = Allocated(t)
  BY <1>1, AnonHasOneType DEF Mentions
<1>3. Allocated(t).tag = "allocated" /\ Allocated(t).handle = t
  BY DEF Allocated
<1> QED
  BY <1>1, <1>2, <1>3 DEF SequencesDescend

LEMMA FinishedFounded ==
  ASSUME Kept, Referred
  PROVE  SequencesFounded(assigned)
<1>1. SUFFICES ASSUME NEW part \in SUBSET SequencesIn(assigned), part # {}
               PROVE  \E h \in part : \A t \in part : ~Mentions(assigned, h, t)
  BY DEF SequencesFounded, Grounded
<1>2. part \in SUBSET Nat
  <2>1. assigned \in Seq(Slot)
    BY DEF Kept, ArenaKept, ArenaTyped
  <2> QED
    BY <2>1 DEF SequencesIn
<1>3. PICK h \in part : \A t \in part : h <= t
  BY <1>1, <1>2, LeastNatural
<1>4. ASSUME NEW t \in part, Mentions(assigned, h, t) PROVE FALSE
  <2>1. t < h
    BY <1>4, SequenceMentions DEF Referred
  <2>2. h <= t /\ h \in Nat /\ t \in Nat
    BY <1>2, <1>3
  <2> QED
    BY <2>1, <2>2
<1> QED
  BY <1>4

LEMMA FinishedUsed ==
  ASSUME Kept, Finished, Referred, result = "ok"
  PROVE  SequencesUsed(assigned)
<1>1. SUFFICES ASSUME NEW part \in SUBSET SequencesIn(assigned), part # {}
               PROVE  \E h \in DOMAIN assigned \ part, t \in part : Mentions(assigned, h, t)
  BY DEF SequencesUsed
<1>2. /\ part \in SUBSET Nat /\ Len(assigned) \in Nat
      /\ \A h \in part : h <= Len(assigned)
  <2>1. assigned \in Seq(Slot)
    BY DEF Kept, ArenaKept, ArenaTyped
  <2> QED
    BY <2>1 DEF SequencesIn
<1>3. PICK t \in part : \A h \in part : h <= t
  BY <1>1, <1>2, GreatestNatural
<1>4. HeldBySlot(t, assigned)
  <2>1. t \in DOMAIN assigned /\ IsSequence(assigned[t])
    BY DEF SequencesIn
  <2>2. ~HeldByBody(t) /\ ~HeldByType(t)
    BY NothingOpen DEF HeldByBody, HeldByType
  <2> QED
    BY <2>1, <2>2 DEF Referred, SequencesHeld
<1>5. PICK g \in DOMAIN assigned : Mentions(assigned, g, t)
  BY <1>4 DEF HeldBySlot
<1>6. g \notin part
  <2>1. SUFFICES ASSUME g \in part PROVE FALSE
    OBVIOUS
  <2>2. t < g
    BY <1>5, <2>1, SequenceMentions DEF Referred
  <2>3. g <= t /\ g \in Nat /\ t \in Nat
    BY <1>2, <1>3, <2>1
  <2> QED
    BY <2>2, <2>3
<1> QED
  BY <1>5, <1>6

(* A schema the resolver says ok to can be walked: its slots hold          *)
(* definitions and its handles are in range, so the validator's tables     *)
(* have an entry for each; vectors and streams are nested to a finite      *)
(* depth, and each belongs to a definition that has a name.                *)
THEOREM SchemaAlwaysSound == Spec => []SchemaSound
<1>1. Kept /\ Finished /\ Referred => SchemaSound
  BY FinishedArena, FinishedHandles, FinishedFounded, FinishedUsed DEF SchemaSound
<1> QED
  BY <1>1, AlwaysKept, AlwaysFinished, AlwaysReferred, PTL
-----------------------------------------------------------------------------
(* The cache c leads from the base of a type, outwards through k of its    *)
(* layers, to a resolved type.                                             *)
BaseMeans(c, base, t) ==
  \/ /\ base.tag = "ident"
     /\ NameKey(base.name) \in DOMAIN c
     /\ t = Allocated(c[NameKey(base.name)])
  \/ base.tag = "builtin" /\ t = Integer(base.number)
  \/ base.tag = "varint" /\ t = Varint(base.number \div 8)

LayerAt(type, n) == type.layers[Len(type.layers) - n + 1]

LayerMeans(c, type, n, elem, t) ==
  LET anon == Anon(LayerAt(type, n), elem)
  IN  anon \in DOMAIN c /\ t = Allocated(c[anon])

LayersMean(c, type, k, f) ==
  /\ f \in [0..k -> Type]
  /\ BaseMeans(c, type.base, f[0])
  /\ \A n \in 1..k : LayerMeans(c, type, n, f[n - 1], f[n])

ResolvedTo(c, type, k, t) == \E f : LayersMean(c, type, k, f) /\ f[k] = t

TypeRead(c, type, t) == TypeError(type) = "none" /\ ResolvedTo(c, type, Len(type.layers), t)

(* A larger cache says the same of what it had. *)
Grown(c, d) == \A k \in DOMAIN c : k \in DOMAIN d /\ d[k] = c[k]

LEMMA ResolvedOn ==
  ASSUME NEW c, NEW d, Grown(c, d)
  PROVE  \A type, k, t : ResolvedTo(c, type, k, t) => ResolvedTo(d, type, k, t)
<1>1. \A base, t : BaseMeans(c, base, t) => BaseMeans(d, base, t)
  BY DEF Grown, BaseMeans
<1>2. \A type, n, elem, t : LayerMeans(c, type, n, elem, t) => LayerMeans(d, type, n, elem, t)
  BY DEF Grown, LayerMeans
<1>3. \A type, k, f : LayersMean(c, type, k, f) => LayersMean(d, type, k, f)
  BY <1>1, <1>2 DEF LayersMean
<1> QED
  BY <1>3 DEF ResolvedTo

LEMMA BaseResolved ==
  ASSUME NEW c, NEW type, NEW t \in Type, BaseMeans(c, type.base, t)
  PROVE  ResolvedTo(c, type, 0, t)
<1> DEFINE f == [n \in 0..0 |-> t]
<1>1. f \in [0..0 -> Type] /\ f[0] = t /\ 1..0 = {}
  OBVIOUS
<1> HIDE DEF f
<1>2. LayersMean(c, type, 0, f)
  BY <1>1 DEF LayersMean
<1> QED
  BY <1>1, <1>2 DEF ResolvedTo

LEMMA LayerResolved ==
  ASSUME NEW c, NEW type, NEW k \in Nat, NEW elem, ResolvedTo(c, type, k, elem),
         NEW t \in Type, LayerMeans(c, type, k + 1, elem, t)
  PROVE  ResolvedTo(c, type, k + 1, t)
<1>1. PICK f : LayersMean(c, type, k, f) /\ f[k] = elem
  BY DEF ResolvedTo
<1>2. f \in [0..k -> Type]
  BY <1>1 DEF LayersMean
<1> DEFINE g == [n \in 0..(k + 1) |-> IF n <= k THEN f[n] ELSE t]
<1>3. g \in [0..(k + 1) -> Type]
  BY <1>2
<1>4. g[k + 1] = t /\ \A n \in 0..k : g[n] = f[n]
  OBVIOUS
<1> HIDE DEF g
<1>5. ASSUME NEW n \in 1..(k + 1) PROVE LayerMeans(c, type, n, g[n - 1], g[n])
  <2>1. CASE n <= k
    <3>1. n \in 1..k /\ n \in 0..k /\ n - 1 \in 0..k
      BY <2>1
    <3> QED
      BY <1>1, <1>4, <3>1 DEF LayersMean
  <2>2. CASE n = k + 1
    <3>1. n - 1 = k /\ k \in 0..k
      BY <2>2
    <3> QED
      BY <1>1, <1>4, <2>2, <3>1
  <2> QED
    BY <2>1, <2>2
<1>6. BaseMeans(c, type.base, g[0])
  BY <1>1, <1>4 DEF LayersMean
<1> QED
  BY <1>3, <1>4, <1>5, <1>6 DEF LayersMean, ResolvedTo
-----------------------------------------------------------------------------
(* What has been read of a definition: its members, one by one. *)
MemberRead(c, ast, m) ==
  /\ m.name = ast.name
  /\ ast.ty = <<>> => m.ty = Integer(0)
  /\ ast.ty # <<>> => TypeRead(c, ast.ty[1], m.ty)

MembersRead(c, def, list) ==
  /\ \A i \in DOMAIN list : MemberRead(c, def.members[i], list[i])
  /\ \A i, j \in DOMAIN list : list[i].name = list[j].name => i = j

(* With overflow checks, the members are numbered like in C. *)
Numbered(def, list) ==
  OverflowChecks /\ IsIndexed(def) =>
    \A i \in DOMAIN list : list[i].index = NumberLikeC(def.members, i) /\ list[i].index <= MaxU64

NextNumber(list, n) == IF n = 0 THEN 0 ELSE NumberLikeC(list, n) + 1

DefinitionRead(c, def, slot) ==
  /\ slot.name = def.name
  /\ def.kind = "extern" =>
       /\ slot = IF def.ty = <<>> THEN [kind |-> "extern", name |-> def.name]
                 ELSE [kind |-> "primitive", name |-> def.name, bits |-> def.ty[1]]
       /\ def.ty # <<>> => def.ty[1] <= MaxU16
  /\ def.kind # "extern" =>
       /\ slot.kind = def.kind
       /\ Len(slot.members) = Len(def.members) /\ DOMAIN slot.members = DOMAIN def.members
       /\ MembersRead(c, def, slot.members)
       /\ Numbered(def, slot.members)
       /\ IsIndexed(def) => /\ IndexTypeError(def.index_ty) = "none"
                            /\ slot.index_ty = IndexTypeOf(def.index_ty)

LEMMA MembersReadOn ==
  ASSUME NEW c, NEW d, Grown(c, d)
  PROVE  \A def, list : MembersRead(c, def, list) => MembersRead(d, def, list)
<1>1. \A ast, m : MemberRead(c, ast, m) => MemberRead(d, ast, m)
  BY ResolvedOn DEF MemberRead, TypeRead
<1> QED
  BY <1>1 DEF MembersRead

LEMMA DefinitionReadOn ==
  ASSUME NEW c, NEW d, Grown(c, d)
  PROVE  \A def, slot : DefinitionRead(c, def, slot) => DefinitionRead(d, def, slot)
  BY MembersReadOn DEF DefinitionRead

(***************************************************************************)
(* What has been read of the document: the definitions before the open     *)
(* one, the members before the open type, and the layers of that type.     *)
(***************************************************************************)
SlotNamed(name) == cache[NameKey(name)]

DefinitionsRead ==
  \A d \in 1..(at - 1) :
    IsAssigned(doc[d].name) /\ DefinitionRead(cache, doc[d], assigned[SlotNamed(doc[d].name)])

NamesOnce == \A d, e \in 1..(at - 1) : doc[d].name = doc[e].name => d = e

BodyRead ==
  handle # NoHandle =>
    /\ MembersRead(cache, Def, members)
    /\ Numbered(Def, members)
    /\ OverflowChecks /\ IsIndexed(Def) => index_acc = NextNumber(Def.members, Len(members))

OpenTypeRead ==
  ty # <<>> =>
    /\ ~NameUsed
    /\ AstMemberAt.ty = <<>> => depth = 0 /\ ty[1] = Integer(0)
    /\ AstMemberAt.ty # <<>> =>
         /\ TypeError(AstMemberAt.ty[1]) = "none"
         /\ depth <= Len(AstMemberAt.ty[1].layers)
         /\ ResolvedTo(cache, AstMemberAt.ty[1], Len(AstMemberAt.ty[1].layers) - depth, ty[1])

(* Slots that wait are for names the document mentions, or for the open    *)
(* definition; slots that are written are for names it defines.            *)
SlotsNamed ==
  \A h \in DOMAIN assigned :
    /\ unassigned[h] # <<>> /\ h # handle => unassigned[h][1] \in NamesMentioned(doc)
    /\ assigned[h] # Uninit /\ ~IsSequence(assigned[h]) =>
         \E d \in 1..(at - 1) : doc[d].name = assigned[h].name

Read == DefinitionsRead /\ NamesOnce /\ BodyRead /\ OpenTypeRead /\ SlotsNamed
-----------------------------------------------------------------------------
LEMMA CacheGrows ==
  ASSUME Kept, [Next]_vars
  PROVE  Grown(cache, cache')
  BY KeptStep, ArenaStepKeeps DEF Kept, Grown

LEMMA DocStays ==
  ASSUME Kept, [Next]_vars
  PROVE  doc' = doc
<1>1. CASE Rejects
  BY <1>1, RejectsStep DEF Fail
<1> QED
  BY <1>1 DEF Next, Rejects, vars, DefineExtern, OpenDefinition, StartVoid, StartBase,
              WrapSequence, PushMember, CloseDefinition, Finish

(* A name that has its definition keeps it. *)
LEMMA AssignedStays ==
  ASSUME Kept, [Next]_vars, NEW name, IsAssigned(name)
  PROVE  /\ IsAssigned(name)' /\ cache'[NameKey(name)] = cache[NameKey(name)]
         /\ assigned'[cache[NameKey(name)]] = assigned[cache[NameKey(name)]]
<1>1. PICK h : h = cache[NameKey(name)]
  OBVIOUS
<1>2. Known(name) /\ unassigned[h] = <<>> /\ h \in DOMAIN assigned
  BY <1>1, KnownSlot DEF IsAssigned, Kept
<1>3. assigned[h] # Uninit
  BY <1>2 DEF Kept, ArenaKept, SlotsAgree
<1>4. h \in DOMAIN assigned' /\ assigned'[h] = assigned[h] /\ ArenaKept'
  BY <1>2, <1>3, KeptStep, ArenaStepKeeps DEF Kept
<1>5. unassigned'[h] = <<>>
  BY <1>3, <1>4 DEF ArenaKept, SlotsAgree
<1>6. NameKey(name) \in DOMAIN cache' /\ cache'[NameKey(name)] = h
  BY <1>1, <1>2, CacheGrows DEF Grown, Known
<1> QED
  BY <1>1, <1>4, <1>5, <1>6 DEF IsAssigned, Known

LEMMA ReadStays ==
  ASSUME Kept, [Next]_vars, DefinitionsRead, NEW d \in 1..(at - 1),
         NEW def, def = doc[d], NEW name, name = def.name
  PROVE  doc'[d] = def /\ IsAssigned(name)'
         /\ DefinitionRead(cache', def, assigned'[cache'[NameKey(name)]])
<1>1. doc'[d] = def
  BY DocStays
<1>2. IsAssigned(name) /\ DefinitionRead(cache, def, assigned[cache[NameKey(name)]])
  BY DEF DefinitionsRead, SlotNamed
<1>3. IsAssigned(name)' /\ assigned'[cache'[NameKey(name)]] = assigned[cache[NameKey(name)]]
  BY <1>2, AssignedStays
<1>4. DefinitionRead(cache', def, assigned'[cache'[NameKey(name)]])
  BY <1>2, <1>3, CacheGrows, DefinitionReadOn
<1> QED
  BY <1>1, <1>3, <1>4

(* The name that is open is not assigned: its slot is the open one. *)
LEMMA OpenNotAssigned ==
  ASSUME Kept, handle # NoHandle
  PROVE  Known(Def.name) /\ cache[NameKey(Def.name)] = handle /\ ~IsAssigned(Def.name)
<1>1. handle \in DOMAIN assigned
  BY DEF Kept, WalkTyped, ArenaKept, ArenaTyped, NoHandle
<1>2. unassigned[handle] = <<Def.name>> /\ unassigned[handle] # <<>>
  BY DEF Kept, ReservationHeld
<1>3. assigned[handle] = Uninit
  BY <1>1, <1>2 DEF Kept, ArenaKept, SlotsAgree
<1>4. KeyOf(handle) = NameKey(Def.name)
  <2>1. unassigned[handle][1] = Def.name
    BY <1>2
  <2> QED
    BY <1>3, <2>1 DEF KeyOf, IsSequence, Uninit
<1> QED
  BY <1>1, <1>2, <1>4 DEF Kept, ArenaKept, CacheExact, Known, IsAssigned

(* When a definition has been read. *)
LEMMA ExternRead ==
  ASSUME Kept, DefineExtern, NEW name, name = Def.name
  PROVE  /\ at \in DOMAIN doc /\ at' = at + 1 /\ ~IsAssigned(name)
         /\ IsAssigned(name)' /\ DefinitionRead(cache', Def, assigned'[cache'[NameKey(name)]])
<1>1. PICK h, def : h = HandleOf(name) /\ def = ExternDefinition
  OBVIOUS
<1>2. /\ at \in DOMAIN doc /\ at' = at + 1 /\ ~IsAssigned(name)
      /\ Def.kind = "extern" /\ ExternError = "none"
  BY DEF DefineExtern, AtDefinition
<1>3. SlotWritten(h, def) \/ NewSlot(def, <<>>, NameKey(name))
  BY <1>1, DefineExternStep
<1>4. DefinitionRead(cache', Def, def)
  <2>1. def = IF Def.ty = <<>> THEN [kind |-> "extern", name |-> Def.name]
              ELSE [kind |-> "primitive", name |-> Def.name, bits |-> Def.ty[1]]
    BY <1>1 DEF ExternDefinition
  <2>2. Def.ty # <<>> => Def.ty[1] <= MaxU16
    <3>1. SUFFICES ASSUME Def.ty # <<>> PROVE Def.ty[1] <= MaxU16
      OBVIOUS
    <3>2. Def.ty[1] \in Nat
      BY <1>2, <3>1, DefinitionAt, KindOfNamed, OptionCases, NumberIsNatural DEF Kept, WalkTyped
    <3>3. ~(Def.ty[1] > MaxU16)
      BY <1>2, <3>1 DEF ExternError, IntegerError
    <3> QED
      BY <3>2, <3>3, U16Bound
  <2>3. def.name = Def.name
    BY <2>1
  <2> QED
    BY <1>2, <2>1, <2>2, <2>3 DEF DefinitionRead
<1>5. IsAssigned(name)' /\ assigned'[cache'[NameKey(name)]] = def
  <2>1. CASE SlotWritten(h, def)
    <3>1. cache' = cache /\ assigned'[h] = def /\ unassigned'[h] = <<>>
      BY <2>1, WriteKeeps DEF SlotWritten, Kept
    <3>2. unassigned[h] = <<name>> /\ unassigned[h] # <<>> /\ h \in DOMAIN assigned
      <4>1. def.name = Def.name
        BY <1>1, DefineExternStep DEF ExternDefinition
      <4> QED
        BY <2>1, <4>1 DEF SlotWritten
    <3>3. Known(name) /\ cache[NameKey(name)] = h
      <4>1. assigned[h] = Uninit
        BY <3>2 DEF Kept, ArenaKept, SlotsAgree
      <4>2. KeyOf(h) = NameKey(name)
        <5>1. unassigned[h][1] = name
          BY <3>2
        <5> QED
          BY <4>1, <5>1 DEF KeyOf, IsSequence, Uninit
      <4> QED
        BY <3>2, <4>2 DEF Kept, ArenaKept, CacheExact, Known
    <3> QED
      BY <3>1, <3>3 DEF IsAssigned, Known
  <2>2. CASE NewSlot(def, <<>>, NameKey(name))
    <3>1. PICK n : n = NewHandle
      OBVIOUS
    <3>2. /\ assigned'[n] = def /\ unassigned'[n] = <<>>
          /\ DOMAIN cache' = DOMAIN cache \cup {NameKey(name)} /\ cache'[NameKey(name)] = n
      BY <2>2, <3>1, GrowKeeps DEF NewSlot, Kept
    <3> QED
      BY <3>2 DEF IsAssigned, Known
  <2> QED
    BY <1>3, <2>1, <2>2
<1> QED
  BY <1>2, <1>4, <1>5

LEMMA BodyIsRead ==
  ASSUME Kept, CloseDefinition, BodyRead, NEW name, name = Def.name
  PROVE  /\ at \in DOMAIN doc /\ at' = at + 1 /\ ~IsAssigned(name)
         /\ IsAssigned(name)' /\ DefinitionRead(cache', Def, assigned'[cache'[NameKey(name)]])
<1>1. PICK body : body = BodyDefinition
  OBVIOUS
<1>2. /\ handle # NoHandle /\ Len(members) = Len(Def.members)
      /\ Def \in NamedDefinition /\ Def.kind # "extern" /\ at \in DOMAIN doc /\ at' = at + 1
      /\ SlotWritten(handle, body) /\ body.kind = Def.kind /\ body.name = Def.name
      /\ body.members = members /\ cache' = cache
  BY <1>1, CloseDefinitionStep
<1>3. Known(name) /\ cache[NameKey(name)] = handle /\ ~IsAssigned(name)
  BY <1>2, OpenNotAssigned
<1>4. assigned'[handle] = body /\ unassigned'[handle] = <<>>
  BY <1>2, WriteKeeps DEF SlotWritten, Kept
<1>5. IsAssigned(name)' /\ assigned'[cache'[NameKey(name)]] = body
  BY <1>2, <1>3, <1>4 DEF IsAssigned, Known
<1>6. IsIndexed(Def) => /\ IndexTypeError(Def.index_ty) = "none"
                        /\ body.index_ty = IndexTypeOf(Def.index_ty)
  BY <1>1, <1>2 DEF BodyDefinition, Kept, BodyKept
<1>7. DOMAIN members = DOMAIN Def.members
  <2>1. members \in Seq(Member \cup IndexedMember)
    BY DEF Kept, WalkTyped
  <2>2. Def.members \in Seq(AstMember)
    BY <1>2, KindOfNamed
  <2> QED
    BY <1>2, <2>1, <2>2
<1>8. DefinitionRead(cache', Def, body)
  BY <1>2, <1>6, <1>7 DEF DefinitionRead, BodyRead
<1> QED
  BY <1>2, <1>3, <1>5, <1>8

(* The other steps read no definition to its end. *)
LEMMA AtStays ==
  ASSUME Kept, [Next]_vars
  PROVE  DefineExtern \/ CloseDefinition \/ at' = at
<1>1. CASE Rejects
  BY <1>1, RejectsStep DEF Fail, walk
<1> QED
  BY <1>1 DEF Next, Rejects, vars, walk, OpenDefinition, StartVoid, StartBase,
              WrapSequence, PushMember, Finish

LEMMA DefinitionsReadStep ==
  ASSUME Kept, Read, [Next]_vars
  PROVE  DefinitionsRead' /\ NamesOnce'
<1>1. at \in Nat \ {0} /\ doc' = doc
  <2>1. at \in 1..(Len(doc) + 1)
    BY DEF Kept, WalkTyped
  <2> QED
    BY <2>1, DocStays
<1>2. ASSUME NEW d \in 1..(at - 1)
      PROVE  /\ IsAssigned(doc[d].name)'
             /\ DefinitionRead(cache', doc[d], assigned'[cache'[NameKey(doc[d].name)]])
  <2>1. PICK def, name : def = doc[d] /\ name = def.name
    OBVIOUS
  <2>2. doc'[d] = def /\ IsAssigned(name)'
        /\ DefinitionRead(cache', def, assigned'[cache'[NameKey(name)]])
    BY <2>1, ReadStays DEF Read
  <2> QED
    BY <1>1, <2>1, <2>2 DEF IsAssigned, Known
<1>3. CASE at' = at
  BY <1>1, <1>2, <1>3 DEF DefinitionsRead, NamesOnce, Read, SlotNamed
<1>4. CASE DefineExtern \/ CloseDefinition
  <2>1. PICK name : name = Def.name
    OBVIOUS
  <2>2. /\ at' = at + 1 /\ ~IsAssigned(name) /\ IsAssigned(name)'
        /\ DefinitionRead(cache', Def, assigned'[cache'[NameKey(name)]])
    BY <1>4, <2>1, ExternRead, BodyIsRead DEF Read
  <2>3. \A d \in 1..(at' - 1) : d \in 1..(at - 1) \/ d = at
    BY <1>1, <2>2
  <2>4. DefinitionsRead'
    <3>1. SUFFICES ASSUME NEW d \in 1..(at' - 1)
                   PROVE  /\ IsAssigned(doc[d].name)'
                          /\ DefinitionRead(cache', doc[d], assigned'[cache'[NameKey(doc[d].name)]])
      BY <1>1 DEF DefinitionsRead, SlotNamed
    <3>2. CASE d \in 1..(at - 1)
      BY <1>2, <3>2
    <3>3. CASE d = at
      <4>1. doc[d] = Def /\ doc'[d] = Def /\ doc[d].name = name
        BY <1>1, <2>1, <3>3 DEF Def
      <4> QED
        BY <1>1, <2>2, <4>1 DEF IsAssigned, Known
    <3> QED
      BY <2>3, <3>2, <3>3
  <2>5. \A d \in 1..(at - 1) : doc[d].name # name
    BY <2>2 DEF Read, DefinitionsRead
  <2>6. doc[at].name = name
    BY <2>1 DEF Def
  <2>7. NamesOnce'
    BY <1>1, <2>3, <2>5, <2>6 DEF NamesOnce, Read
  <2> QED
    BY <2>4, <2>7
<1> QED
  BY <1>3, <1>4, AtStays
-----------------------------------------------------------------------------
(* "Like in C", one member after the other. *)
LEMMA NumberStep ==
  ASSUME NEW list \in Seq(AstMember), NEW n \in Nat, n + 1 \in DOMAIN list
  PROVE  NumberLikeC(list, n + 1) = IF list[n + 1].index # <<>> THEN list[n + 1].index[1]
                                    ELSE NextNumber(list, n)
<1> DEFINE Given(i) == {j \in 1..i : list[j].index # <<>>}
<1>1. \A i \in DOMAIN list : list[i].index # <<>> => list[i].index[1] \in Nat
  <2> TAKE i \in DOMAIN list
  <2>1. list[i] \in AstMember
    OBVIOUS
  <2> QED
    BY <2>1, PartsOfMember, NumberIsNatural
<1>2. \A i \in Nat : Given(i) # {} => Max(Given(i)) \in Given(i) /\ \A j \in Given(i) : j <= Max(Given(i))
  <2> TAKE i \in Nat
  <2>1. Given(i) \in SUBSET Nat /\ \A j \in Given(i) : j <= i
    OBVIOUS
  <2> HIDE DEF Given
  <2> QED
    BY <2>1, MaxOfBounded
<1>3. \A i : NumberLikeC(list, i) =
        IF Given(i) = {} THEN i - 1 ELSE list[Max(Given(i))].index[1] + (i - Max(Given(i)))
  BY DEF NumberLikeC
<1>4. CASE list[n + 1].index # <<>>
  <2>1. n + 1 \in Given(n + 1) /\ \A j \in Given(n + 1) : j <= n + 1 /\ j \in Nat
    BY <1>4
  <2>2. n + 1 \in Nat
    OBVIOUS
  <2> HIDE DEF Given
  <2>3. Max(Given(n + 1)) \in Given(n + 1) /\ n + 1 <= Max(Given(n + 1))
    BY <1>2, <2>1, <2>2
  <2>4. Max(Given(n + 1)) = n + 1
    BY <2>1, <2>3
  <2>5. NumberLikeC(list, n + 1) = list[n + 1].index[1] + ((n + 1) - (n + 1))
    BY <1>3, <2>1, <2>4
  <2>6. list[n + 1].index[1] \in Nat
    BY <1>1, <1>4
  <2> QED
    BY <1>4, <2>5, <2>6
<1>5. CASE list[n + 1].index = <<>>
  <2>1. Given(n + 1) = Given(n)
    <3>1. \A j \in 1..(n + 1) : j \in 1..n \/ j = n + 1
      OBVIOUS
    <3> QED
      BY <1>5, <3>1
  <2>2. CASE n = 0
    <3>1. Given(n + 1) = {}
      BY <2>1, <2>2
    <3> HIDE DEF Given
    <3> QED
      BY <1>3, <1>5, <2>2, <3>1 DEF NextNumber
  <2>3. CASE n # 0 /\ Given(n) = {}
    <3>1. NumberLikeC(list, n + 1) = (n + 1) - 1 /\ NumberLikeC(list, n) = n - 1
      <4> HIDE DEF Given
      <4> QED
        BY <1>3, <2>1, <2>3
    <3> QED
      BY <1>5, <2>3, <3>1 DEF NextNumber
  <2>4. CASE n # 0 /\ Given(n) # {}
    <3> DEFINE m == Max(Given(n))
    <3>1. m \in 1..n /\ list[m].index # <<>>
      <4>1. Max(Given(n)) \in Given(n)
        <5> HIDE DEF Given
        <5> QED
          BY <1>2, <2>4
      <4> QED
        BY <4>1
    <3>2. /\ NumberLikeC(list, n + 1) = list[m].index[1] + ((n + 1) - m)
          /\ NumberLikeC(list, n) = list[m].index[1] + (n - m)
      <4> HIDE DEF Given
      <4> QED
        BY <1>3, <2>1, <2>4
    <3> HIDE DEF m
    <3>3. m \in DOMAIN list
      BY <3>1
    <3>4. list[m].index[1] \in Nat
      BY <1>1, <3>1, <3>3
    <3> QED
      BY <1>5, <2>4, <3>1, <3>2, <3>4 DEF NextNumber
  <2> QED
    BY <2>2, <2>3, <2>4
<1> QED
  BY <1>4, <1>5

LEMMA NoWrap ==
  ASSUME NEW n \in 0..MaxU64, n # MaxU64
  PROVE  (n + 1) % (MaxU64 + 1) = n + 1
  BY MaxU64Assumption

(* The number of the member that is read next. *)
LEMMA IndexIsNumber ==
  ASSUME Kept, BodyRead, OverflowChecks, IsIndexed(Def), handle # NoHandle,
         Len(members) < Len(Def.members)
  PROVE  IndexOf = NumberLikeC(Def.members, Len(members) + 1)
<1>1. /\ Def.members \in Seq(AstMember) /\ Len(members) \in Nat
      /\ Len(members) + 1 \in DOMAIN Def.members
  BY MemberAt
<1>2. index_acc = NextNumber(Def.members, Len(members))
  BY DEF BodyRead
<1> QED
  BY <1>1, <1>2, NumberStep DEF IndexOf, AstMemberAt

(* What PushMember adds to the members has been read. *)
LEMMA PushedRead ==
  ASSUME Kept, BodyRead, OpenTypeRead, PushMember, NEW new, new = NewMember
  PROVE  MemberRead(cache, AstMemberAt, new)
<1>1. /\ ty # <<>> /\ new.ty = ty[1] /\ AstMemberAt \in AstMember
  BY PushMemberStep
<1>2. depth = 0
  BY DEF PushMember, AtPush
<1>3. new.name = AstMemberAt.name
  BY DEF NewMember
<1>4. AstMemberAt.ty # <<>> => TypeRead(cache, AstMemberAt.ty[1], new.ty)
  <2>1. SUFFICES ASSUME AstMemberAt.ty # <<>>
                 PROVE  TypeRead(cache, AstMemberAt.ty[1], new.ty)
    OBVIOUS
  <2>2. Len(AstMemberAt.ty[1].layers) \in Nat
    BY <1>1, <2>1, PartsOfMember, PartsOfType
  <2>3. Len(AstMemberAt.ty[1].layers) - depth = Len(AstMemberAt.ty[1].layers)
    BY <1>2, <2>2
  <2> QED
    BY <1>1, <2>1, <2>3 DEF OpenTypeRead, TypeRead
<1> QED
  BY <1>1, <1>3, <1>4 DEF MemberRead, OpenTypeRead

LEMMA PushBodyRead ==
  ASSUME Kept, BodyRead, OpenTypeRead, PushMember
  PROVE  BodyRead'
<1>1. PICK new : new = NewMember
  OBVIOUS
<1>2. /\ handle # NoHandle /\ ty # <<>> /\ Len(members) < Len(Def.members)
      /\ members' = Append(members, new)
      /\ IsIndexed(Def) => IndexOf \in 0..MaxU64
      /\ index_acc' = IF IsIndexed(Def) THEN (IndexOf + 1) % (MaxU64 + 1) ELSE index_acc
      /\ UNCHANGED <<doc, at, handle, cache>>
  BY <1>1, PushMemberStep
<1>3. members \in Seq(Member \cup IndexedMember)
  BY DEF Kept, WalkTyped
<1>4. /\ Len(members) \in Nat /\ DOMAIN members = 1..Len(members)
      /\ DOMAIN members' = 1..(Len(members) + 1) /\ Len(members') = Len(members) + 1
      /\ members'[Len(members) + 1] = new
      /\ \A i \in 1..Len(members) : members'[i] = members[i]
  BY <1>2, <1>3
<1>5. \A i \in DOMAIN members' : i \in DOMAIN members \/ i = Len(members) + 1
  BY <1>4
<1>6. Def' = Def
  BY <1>2 DEF Def
<1>7. new.name = AstMemberAt.name /\ MemberRead(cache, AstMemberAt, new)
  BY <1>1, PushedRead DEF MemberRead
<1>8. AstMemberAt = Def.members[Len(members) + 1]
  BY DEF AstMemberAt
<1>9. MembersRead(cache, Def, members')
  <2>1. \A i \in DOMAIN members' : MemberRead(cache, Def.members[i], members'[i])
    BY <1>2, <1>4, <1>5, <1>7, <1>8 DEF BodyRead, MembersRead
  <2>2. \A i \in DOMAIN members : members[i].name # new.name
    BY <1>2, <1>7 DEF OpenTypeRead, NameUsed
  <2>3. \A i, j \in DOMAIN members : members[i].name = members[j].name => i = j
    BY <1>2 DEF BodyRead, MembersRead
  <2>4. \A i, j \in DOMAIN members' : members'[i].name = members'[j].name => i = j
    BY <1>4, <1>5, <2>2, <2>3
  <2> QED
    BY <2>1, <2>4 DEF MembersRead
<1>10. ASSUME OverflowChecks, IsIndexed(Def)
       PROVE  /\ IndexOf = NumberLikeC(Def.members, Len(members) + 1)
              /\ new.index = IndexOf /\ IndexOf \in 0..MaxU64
              /\ index_acc' = IndexOf + 1
  <2>1. new.index = IndexOf
    BY <1>1, <1>10 DEF NewMember
  <2>2. IndexOf # MaxU64
    BY <1>10 DEF PushMember
  <2> QED
    BY <1>2, <1>10, <2>1, <2>2, IndexIsNumber, NoWrap
<1>11. Numbered(Def, members')
  <2>1. SUFFICES ASSUME OverflowChecks, IsIndexed(Def), NEW i \in DOMAIN members'
                 PROVE  /\ members'[i].index = NumberLikeC(Def.members, i)
                        /\ members'[i].index <= MaxU64
    BY DEF Numbered
  <2>2. CASE i \in DOMAIN members
    BY <1>2, <1>4, <2>1, <2>2 DEF BodyRead, Numbered
  <2>3. CASE i = Len(members) + 1
    <3>1. members'[i] = new /\ new.index <= MaxU64
      BY <1>4, <1>10, <2>1, <2>3
    <3> QED
      BY <1>10, <2>1, <2>3, <3>1
  <2> QED
    BY <1>5, <2>2, <2>3
<1>12. OverflowChecks /\ IsIndexed(Def) => index_acc' = NextNumber(Def.members, Len(members'))
  BY <1>4, <1>10 DEF NextNumber
<1> QED
  BY <1>2, <1>6, <1>9, <1>11, <1>12 DEF BodyRead

LEMMA BodyReadStep ==
  ASSUME Kept, Read, [Next]_vars
  PROVE  BodyRead'
<1>1. CASE UNCHANGED <<doc, at, handle, members, index_acc>>
  <2>1. Def' = Def
    BY <1>1 DEF Def
  <2> QED
    BY <1>1, <2>1, CacheGrows, MembersReadOn DEF BodyRead, Read
<1>2. CASE \/ UNCHANGED vars \/ Rejects \/ StartVoid \/ StartBase \/ WrapSequence \/ Finish
  <2>1. UNCHANGED <<doc, at, handle, members, index_acc>>
    BY <1>2, RejectsStep DEF vars, walk, StartVoid, StartBase, WrapSequence, Finish, Fail
  <2> QED
    BY <1>1, <2>1
<1>3. CASE DefineExtern \/ CloseDefinition
  <2>1. handle' = NoHandle
    BY <1>3 DEF DefineExtern, CloseDefinition, AtDefinition
  <2> QED
    BY <2>1 DEF BodyRead
<1>4. CASE OpenDefinition
  <2>1. members' = <<>> /\ index_acc' = 0 /\ DOMAIN members' = {} /\ Len(members') = 0
    BY <1>4 DEF OpenDefinition
  <2> QED
    BY <2>1 DEF BodyRead, MembersRead, Numbered, NextNumber
<1>5. CASE PushMember
  BY <1>5, PushBodyRead DEF Read
<1> QED
  BY <1>2, <1>3, <1>4, <1>5 DEF Next, Rejects

LEMMA StartBaseRead ==
  ASSUME Kept, StartBase
  PROVE  OpenTypeRead'
<1>1. PICK type : type = AstMemberAt.ty[1]
  OBVIOUS
<1>2. PICK h : h = HandleOf(type.base.name)
  OBVIOUS
<1>3. /\ type \in AstType /\ TypeError(type) = "none" /\ AstMemberAt.ty # <<>>
      /\ UNCHANGED <<doc, at, handle, members, index_acc, unknown, result>>
      /\ depth' = Len(type.layers) /\ depth' \in Nat
  BY <1>1, StartBaseStep
<1>4. /\ ~NameUsed /\ AstMemberAt' = AstMemberAt
  BY <1>3 DEF StartBase, AstMemberAt, Def
<1>5. PICK t : ty' = <<t>> /\ t \in Type /\ BaseMeans(cache', type.base, t)
  <2>1. CASE type.base.tag = "ident"
    <3>1. /\ Reserves(type.base.name) /\ type.base.name \in Ident /\ ty' = <<Allocated(h)>>
          /\ h \in Nat \ {0}
      BY <1>1, <1>2, <2>1, StartBaseStep
    <3>2. NameKey(type.base.name) \in DOMAIN cache' /\ cache'[NameKey(type.base.name)] = h
      BY <1>2, <3>1, ReserveKeeps DEF Kept
    <3> QED
      BY <2>1, <3>1, <3>2, AllocatedIsType DEF BaseMeans
  <2>2. CASE type.base.tag # "ident"
    BY <1>1, <2>2, StartBaseStep DEF BaseMeans
  <2> QED
    BY <2>1, <2>2
<1>6. ResolvedTo(cache', type, 0, t)
  BY <1>5, BaseResolved
<1>7. /\ ty' # <<>> /\ ty'[1] = t
  BY <1>5
<1>8. Len(type.layers) - depth' = 0 /\ depth' <= Len(type.layers)
  BY <1>3
<1>9. ~NameUsed'
  BY <1>3, <1>4 DEF NameUsed
<1> QED
  BY <1>1, <1>3, <1>4, <1>6, <1>7, <1>8, <1>9 DEF OpenTypeRead

LEMMA WrapRead ==
  ASSUME Kept, OpenTypeRead, WrapSequence
  PROVE  OpenTypeRead'
<1>1. PICK layer, anon : layer = OpenLayer /\ anon = OpenAnon
  OBVIOUS
<1>2. PICK type, n : type = AstMemberAt.ty[1] /\ n = NewHandle
  OBVIOUS
<1>3. /\ ty # <<>> /\ AstMemberAt.ty # <<>> /\ type \in AstType /\ TypeError(type) = "none"
      /\ depth \in DOMAIN type.layers /\ depth' = depth - 1 /\ depth' \in Nat
      /\ UNCHANGED <<doc, at, handle, members, index_acc, unknown, result>>
  BY <1>1, <1>2, WrapSequenceStep DEF OpenLayer, OpenAnon
<1>4. AstMemberAt' = AstMemberAt
  BY <1>3 DEF AstMemberAt, Def
<1>5. Len(type.layers) \in Nat /\ depth \in Nat \ {0} /\ depth <= Len(type.layers)
  <2>1. type.layers \in Seq(Layer)
    BY <1>3, PartsOfType
  <2> QED
    BY <1>3, <2>1
<1> DEFINE k == Len(type.layers) - depth
<1>6. ResolvedTo(cache, type, k, ty[1])
  BY <1>2, <1>3 DEF OpenTypeRead
<1>7. ResolvedTo(cache', type, k, ty[1])
  <2>1. Grown(cache, cache')
    BY CacheGrows DEF Next
  <2> HIDE DEF k
  <2> QED
    BY <1>6, <2>1, ResolvedOn
<1>8. PICK t : /\ ty' = <<t>> /\ t \in Type
               /\ anon \in DOMAIN cache' /\ t = Allocated(cache'[anon])
  <2>1. CASE anon \in DOMAIN cache
    <3>1. ty' = <<Allocated(cache[anon])>> /\ UNCHANGED cache
      BY <1>1, <2>1, WrapSequenceStep DEF OpenLayer, OpenAnon
    <3>2. cache[anon] \in Nat \ {0}
      BY <2>1 DEF Kept, ArenaKept, ArenaTyped
    <3> QED
      BY <2>1, <3>1, <3>2, AllocatedIsType
  <2>2. CASE anon \notin DOMAIN cache
    <3>1. ty' = <<Allocated(n)>> /\ NewSlot(anon, <<>>, anon)
      BY <1>1, <1>2, <2>2, WrapSequenceStep DEF OpenLayer, OpenAnon
    <3>2. DOMAIN cache' = DOMAIN cache \cup {anon} /\ cache'[anon] = n
      BY <1>2, <3>1, GrowKeeps DEF NewSlot, Kept
    <3>3. n \in Nat \ {0}
      BY <1>2 DEF Kept, ArenaKept, ArenaTyped, NewHandle
    <3> QED
      BY <3>1, <3>2, <3>3, AllocatedIsType
  <2> QED
    BY <2>1, <2>2
<1>9. LayerMeans(cache', type, k + 1, ty[1], t)
  <2>1. Len(type.layers) - (k + 1) + 1 = depth
    BY <1>5
  <2>2. anon = Anon(LayerAt(type, k + 1), ty[1])
    BY <1>1, <1>2, <2>1 DEF OpenLayer, OpenAnon, LayerAt
  <2> HIDE DEF k
  <2> QED
    BY <1>8, <2>2 DEF LayerMeans
<1>10. ResolvedTo(cache', type, k + 1, t)
  <2>1. k \in Nat
    BY <1>5
  <2> HIDE DEF k
  <2> QED
    BY <1>7, <1>8, <1>9, <2>1, LayerResolved
<1>11. k + 1 = Len(type.layers) - depth' /\ depth' <= Len(type.layers)
  BY <1>3, <1>5
<1>12. ty' # <<>> /\ ty'[1] = t
  BY <1>8
<1>13. ~NameUsed'
  BY <1>3, <1>4 DEF OpenTypeRead, NameUsed
<1> HIDE DEF k
<1> QED
  BY <1>2, <1>3, <1>4, <1>10, <1>11, <1>12, <1>13 DEF OpenTypeRead

LEMMA OpenTypeReadStep ==
  ASSUME Kept, Read, [Next]_vars
  PROVE  OpenTypeRead'
<1>1. CASE UNCHANGED vars \/ Rejects \/ Finish
  <2>1. UNCHANGED <<walk, doc, cache>>
    BY <1>1, RejectsStep DEF vars, Finish, Fail
  <2> QED
    BY <2>1 DEF walk, OpenTypeRead, Read, NameUsed, AstMemberAt, Def
<1>2. CASE DefineExtern \/ OpenDefinition \/ CloseDefinition \/ PushMember
  <2>1. ty' = <<>>
    <3>1. handle = NoHandle => ty = <<>>
      BY DEF Kept, TypeKept
    <3> QED
      BY <1>2, <3>1 DEF DefineExtern, OpenDefinition, CloseDefinition, PushMember,
                        AtDefinition, AtClose
  <2> QED
    BY <2>1 DEF OpenTypeRead
<1>3. CASE StartVoid
  <2>1. /\ ~NameUsed /\ AstMemberAt.ty = <<>> /\ ty' = <<Integer(0)>> /\ depth' = 0
        /\ UNCHANGED <<doc, at, members>>
    BY <1>3 DEF StartVoid
  <2>2. AstMemberAt' = AstMemberAt /\ ~NameUsed'
    BY <2>1 DEF NameUsed, AstMemberAt, Def
  <2> QED
    BY <2>1, <2>2 DEF OpenTypeRead
<1>4. CASE StartBase
  BY <1>4, StartBaseRead
<1>5. CASE WrapSequence
  BY <1>5, WrapRead DEF Read
<1> QED
  BY <1>1, <1>2, <1>3, <1>4, <1>5 DEF Next, Rejects
-----------------------------------------------------------------------------
(* What the document writes, and what it mentions. *)
LEMMA MemberIsWritten ==
  ASSUME NEW d \in DOMAIN doc, NEW i \in DOMAIN MembersOf(doc[d])
  PROVE  MembersOf(doc[d])[i] \in MembersWritten(doc)
  BY DEF MembersWritten

LEMMA TypeIsWritten ==
  ASSUME NEW member \in MembersWritten(doc), member.ty # <<>>
  PROVE  /\ member.ty[1] \in TypesWritten(doc)
         /\ member.ty[1].base.tag = "ident" => member.ty[1].base.name \in NamesMentioned(doc)
<1>1. member.ty[1] \in TypesWritten(doc)
  BY DEF TypesWritten
<1> QED
  BY <1>1 DEF NamesMentioned

LEMMA WrittenWhere ==
  ASSUME NEW type \in TypesWritten(doc)
  PROVE  \E d \in DOMAIN doc : \E i \in DOMAIN MembersOf(doc[d]) :
           MembersOf(doc[d])[i].ty # <<>> /\ type = MembersOf(doc[d])[i].ty[1]
<1>1. PICK member \in MembersWritten(doc) : member.ty # <<>> /\ type = member.ty[1]
  BY DEF TypesWritten
<1>2. PICK d \in DOMAIN doc : member \in {MembersOf(doc[d])[i] : i \in DOMAIN MembersOf(doc[d])}
  BY DEF MembersWritten
<1> QED
  BY <1>1, <1>2

LEMMA OpenMember ==
  ASSUME Kept, handle # NoHandle, Len(members) < Len(Def.members)
  PROVE  /\ at \in DOMAIN doc /\ MembersOf(doc[at]) = Def.members
         /\ Len(members) + 1 \in DOMAIN MembersOf(doc[at])
         /\ AstMemberAt = MembersOf(doc[at])[Len(members) + 1]
         /\ AstMemberAt \in MembersWritten(doc)
<1>1. /\ at \in DOMAIN doc /\ Def.kind # "extern" /\ Len(members) + 1 \in DOMAIN Def.members
  BY MemberAt DEF Kept, BodyKept
<1>2. MembersOf(doc[at]) = Def.members /\ AstMemberAt = Def.members[Len(members) + 1]
  BY <1>1 DEF MembersOf, Def, AstMemberAt
<1> QED
  BY <1>1, <1>2, MemberIsWritten
-----------------------------------------------------------------------------
(* Only two actions reserve a slot that waits. *)
LEMMA ReservedBy ==
  ASSUME Kept, [Next]_vars, NEW h \in DOMAIN assigned', unassigned'[h] # <<>>
  PROVE  \/ h \in DOMAIN assigned /\ unassigned'[h] = unassigned[h]
         \/ OpenDefinition /\ h = handle'
         \/ StartBase /\ AstMemberAt.ty[1].base.tag = "ident"
                      /\ unassigned'[h] = <<AstMemberAt.ty[1].base.name>>
<1>1. ArenaKept
  BY DEF Kept
<1>2. \A slot, option, key : NewSlot(slot, option, key) =>
        /\ unassigned'[NewHandle] = option /\ (h \notin DOMAIN assigned => h = NewHandle)
        /\ \A g \in DOMAIN assigned : unassigned'[g] = unassigned[g]
  <2> TAKE slot, option, key
  <2> HAVE NewSlot(slot, option, key)
  <2>1. /\ ArenaKept' /\ Len(assigned') = Len(assigned) + 1
        /\ unassigned'[NewHandle] = option
        /\ \A g \in DOMAIN assigned : unassigned'[g] = unassigned[g]
    BY <1>1, GrowKeeps DEF NewSlot
  <2>2. h \notin DOMAIN assigned => h = NewHandle
    BY <1>1, <2>1 DEF ArenaKept, ArenaTyped, NewHandle
  <2> QED
    BY <2>1, <2>2
<1>3. \A g, def : SlotWritten(g, def) =>
        /\ unassigned'[g] = <<>> /\ DOMAIN assigned' = DOMAIN assigned
        /\ \A k \in DOMAIN assigned \ {g} : unassigned'[k] = unassigned[k]
  BY <1>1, WriteKeeps DEF SlotWritten
<1>4. \A name \in Ident : Reserves(name) =>
        \/ h \in DOMAIN assigned /\ unassigned'[h] = unassigned[h]
        \/ h = HandleOf(name) /\ unassigned'[h] = <<name>>
  <2> TAKE name \in Ident
  <2> HAVE Reserves(name)
  <2>1. CASE Known(name)
    BY <2>1, ReserveCases DEF arena
  <2>2. CASE ~Known(name)
    <3>1. Grow(Uninit, <<name>>, NameKey(name))
      BY <2>2, ReserveCases
    <3>2. <<name>> \in Optional(Ident) /\ <<name>> # <<>> /\ Uninit \in Slot
      BY OptionOf DEF Slot
    <3>3. NameKey(name) = KeyFor(Uninit, <<name>>)
      BY DEF KeyFor, IsSequence, Uninit
    <3>4. NewSlot(Uninit, <<name>>, NameKey(name))
      BY <2>2, <3>1, <3>2, <3>3 DEF NewSlot, Known
    <3> QED
      BY <1>2, <2>2, <3>4 DEF HandleOf
  <2> QED
    BY <2>1, <2>2
<1>5. CASE DefineExtern
  <2>1. PICK g, def, key : g = HandleOf(Def.name) /\ def = ExternDefinition /\ key = NameKey(Def.name)
    OBVIOUS
  <2>2. SlotWritten(g, def) \/ NewSlot(def, <<>>, key)
    BY <1>5, <2>1, DefineExternStep
  <2> QED
    BY <1>2, <1>3, <2>2
<1>6. CASE OpenDefinition
  <2>1. Reserves(Def.name) /\ at \in DOMAIN doc /\ handle' = HandleOf(Def.name)
    BY <1>6 DEF OpenDefinition, Reserves, AtDefinition
  <2>2. Def.name \in Ident
    BY <2>1, DefinitionAt, KindOfNamed DEF Kept, WalkTyped
  <2> QED
    BY <1>4, <1>6, <2>1, <2>2
<1>7. CASE StartBase
  <2>1. PICK type : type = AstMemberAt.ty[1]
    OBVIOUS
  <2>2. \/ UNCHANGED arena
        \/ (type.base.tag = "ident" /\ type.base.name \in Ident /\ Reserves(type.base.name))
    BY <1>7, <2>1, StartBaseStep
  <2>3. UNCHANGED arena => h \in DOMAIN assigned /\ unassigned'[h] = unassigned[h]
    BY DEF arena
  <2> QED
    BY <1>4, <1>7, <2>1, <2>2, <2>3
<1>8. CASE WrapSequence
  <2>1. PICK layer, anon : layer = OpenLayer /\ anon = OpenAnon
    OBVIOUS
  <2>2. UNCHANGED arena \/ NewSlot(anon, <<>>, anon)
    BY <1>8, <2>1, WrapSequenceStep DEF OpenLayer, OpenAnon
  <2> QED
    BY <1>2, <2>2 DEF arena
<1>9. CASE CloseDefinition
  <2>1. PICK def : def = BodyDefinition
    OBVIOUS
  <2>2. SlotWritten(handle, def)
    BY <1>9, <2>1, CloseDefinitionStep
  <2> QED
    BY <1>3, <2>2
<1>10. CASE UNCHANGED vars \/ Rejects \/ StartVoid \/ PushMember \/ Finish
  <2>1. UNCHANGED arena
    BY <1>10, RejectsStep DEF vars, StartVoid, PushMember, Finish, Fail
  <2> QED
    BY <2>1 DEF arena
<1> QED
  BY <1>5, <1>6, <1>7, <1>8, <1>9, <1>10 DEF Next, Rejects

LEMMA PrefixGrows ==
  ASSUME NEW m \in Nat, NEW n \in Nat, m <= n
  PROVE  1..(m - 1) \subseteq 1..(n - 1)
  OBVIOUS

LEMMA SlotsNamedStep ==
  ASSUME Kept, Read, [Next]_vars
  PROVE  SlotsNamed'
<1>1. doc' = doc /\ at \in Nat \ {0} /\ at' \in Nat /\ at <= at'
  <2>1. at \in 1..(Len(doc) + 1)
    BY DEF Kept, WalkTyped
  <2>2. at' = at \/ at' = at + 1
    BY AtStays DEF DefineExtern, CloseDefinition
  <2> QED
    BY <2>1, <2>2, DocStays
<1>2. ASSUME NEW h \in DOMAIN assigned', unassigned'[h] # <<>>, h # handle'
      PROVE  unassigned'[h][1] \in NamesMentioned(doc)
  <2>1. CASE h \in DOMAIN assigned /\ unassigned'[h] = unassigned[h] /\ h # handle
    BY <1>2, <2>1 DEF Read, SlotsNamed
  <2>2. CASE h \in DOMAIN assigned /\ unassigned'[h] = unassigned[h] /\ h = handle
    <3>1. h # NoHandle /\ handle' # handle
      BY <1>2, <2>2 DEF Kept, ArenaKept, ArenaTyped, NoHandle
    <3>2. CloseDefinition
      <4>1. ~DefineExtern /\ ~OpenDefinition
        BY <2>2, <3>1 DEF DefineExtern, OpenDefinition, AtDefinition
      <4>2. ~Rejects /\ ~UNCHANGED vars
        BY <3>1, RejectsStep DEF Fail, walk, vars
      <4> QED
        BY <3>1, <4>1, <4>2 DEF Next, Rejects, StartVoid, StartBase, WrapSequence,
                                PushMember, Finish, walk
    <3>3. PICK def : def = BodyDefinition
      OBVIOUS
    <3>4. SlotWritten(handle, def)
      BY <3>2, <3>3, CloseDefinitionStep
    <3>5. unassigned'[handle] = <<>>
      BY <3>4, WriteKeeps DEF SlotWritten, Kept
    <3> QED
      BY <1>2, <2>2, <3>5
  <2>3. CASE StartBase /\ AstMemberAt.ty[1].base.tag = "ident"
             /\ unassigned'[h] = <<AstMemberAt.ty[1].base.name>>
    <3>1. AstMemberAt.ty # <<>> /\ handle # NoHandle /\ Len(members) < Len(Def.members)
      BY <2>3 DEF StartBase, AtMember, InBody
    <3>2. AstMemberAt.ty[1].base.name \in NamesMentioned(doc)
      BY <2>3, <3>1, OpenMember, TypeIsWritten
    <3> QED
      BY <2>3, <3>2
  <2> QED
    BY <1>2, <2>1, <2>2, <2>3, ReservedBy
<1>3. ASSUME NEW h \in DOMAIN assigned', assigned'[h] # Uninit, ~IsSequence(assigned'[h])
      PROVE  \E d \in 1..(at' - 1) : doc[d].name = assigned'[h].name
  <2>1. CASE h \in DOMAIN assigned /\ assigned'[h] = assigned[h]
    <3>1. PICK d \in 1..(at - 1) : doc[d].name = assigned[h].name
      BY <1>3, <2>1 DEF Read, SlotsNamed
    <3>2. d \in 1..(at' - 1)
      BY <1>1, PrefixGrows
    <3> QED
      BY <2>1, <3>1, <3>2
  <2>2. CASE DefineExtern /\ assigned'[h] = ExternDefinition
    <3>1. at' = at + 1 /\ ExternDefinition.name = Def.name
      BY <2>2 DEF DefineExtern, ExternDefinition
    <3>2. at \in 1..(at' - 1) /\ doc[at] = Def
      BY <1>1, <3>1 DEF Def
    <3> QED
      BY <2>2, <3>1, <3>2
  <2>3. CASE WrapSequence /\ assigned'[h] = OpenAnon
    <3>1. PICK layer, anon : layer = OpenLayer /\ anon = OpenAnon
      OBVIOUS
    <3>2. IsSequence(anon)
      BY <2>3, <3>1, WrapSequenceStep DEF OpenLayer, OpenAnon
    <3> QED
      BY <1>3, <2>3, <3>1, <3>2
  <2>4. CASE CloseDefinition /\ assigned'[h] = BodyDefinition
    <3>1. at' = at + 1 /\ BodyDefinition.name = Def.name
      BY <2>4, CloseDefinitionStep
    <3>2. at \in 1..(at' - 1) /\ doc[at] = Def
      BY <1>1, <3>1 DEF Def
    <3> QED
      BY <2>4, <3>1, <3>2
  <2> QED
    BY <1>3, <2>1, <2>2, <2>3, <2>4, WrittenBy
<1> QED
  BY <1>1, <1>2, <1>3 DEF SlotsNamed

(* At every step the arena and the cache hold what has been read of the    *)
(* document, and nothing but names it mentions or defines.                 *)
THEOREM AlwaysRead == Spec => []Read
<1>1. Init => Read
  BY InitStarts DEF Starts, New, Read, DefinitionsRead, NamesOnce, BodyRead, OpenTypeRead, SlotsNamed
<1>2. Kept /\ Read /\ [Next]_vars => Read'
  BY DefinitionsReadStep, BodyReadStep, OpenTypeReadStep, SlotsNamedStep DEF Read
<1> QED
  BY <1>1, <1>2, AlwaysKept, PTL DEF Spec
-----------------------------------------------------------------------------
(***************************************************************************)
(* The verdict.  A type without an error keeps the rules, a type with one  *)
(* breaks the rule the error is about.                                     *)
(***************************************************************************)
TypeVarintsFit(type) ==
  /\ type.base.tag = "varint" => type.base.number \in VarintWidths
  /\ \A i \in DOMAIN type.layers :
       type.layers[i].len_ty.tag = "varint" => type.layers[i].len_ty.number \in VarintWidths

TypeLengthsFit(type) ==
  \A i \in DOMAIN type.layers :
    type.layers[i].len_ty.tag = "fixed" => type.layers[i].len_ty.number \in WholeBytes

TypeIntegerFits(type) == type.base.tag = "builtin" => type.base.number <= MaxU16

LEMMA TypeKeepsRules ==
  ASSUME NEW type \in AstType, TypeError(type) = "none"
  PROVE  TypeVarintsFit(type) /\ TypeLengthsFit(type) /\ TypeIntegerFits(type)
<1> DEFINE bad == {i \in DOMAIN type.layers : LenTypeError(type.layers[i].len_ty) # "none"}
<1>1. \A i \in DOMAIN type.layers : LenTypeError(type.layers[i].len_ty) = "none"
  BY TypeFits
<1>2. BaseError(type.base) = "none"
  <2>1. bad = {}
    BY <1>1
  <2> QED
    BY <2>1 DEF TypeError
<1>3. TypeIntegerFits(type)
  <2>1. SUFFICES ASSUME type.base.tag = "builtin" PROVE type.base.number <= MaxU16
    BY DEF TypeIntegerFits
  <2>2. type.base.number \in Nat
    BY <2>1, PartsOfType, NumberIsNatural
  <2>3. ~(type.base.number > MaxU16)
    BY <1>2, <2>1 DEF BaseError, IntegerError
  <2> QED
    BY <2>2, <2>3, U16Bound
<1>4. type.base.tag = "varint" => type.base.number \in VarintWidths
  BY <1>2 DEF BaseError, VarintError, VarintWidths
<1>5. ASSUME NEW i \in DOMAIN type.layers
      PROVE  /\ type.layers[i].len_ty.tag = "varint" =>
                  type.layers[i].len_ty.number \in VarintWidths
             /\ type.layers[i].len_ty.tag = "fixed" =>
                  type.layers[i].len_ty.number \in WholeBytes
  <2>1. PICK len : len = type.layers[i].len_ty
    OBVIOUS
  <2>2. LenTypeError(len) = "none"
    BY <1>1, <2>1
  <2>3. len.tag = "varint" => len.number \in VarintWidths
    BY <2>2 DEF LenTypeError, VarintError, VarintWidths
  <2>4. len.tag = "fixed" => len.number \in WholeBytes
    BY <2>2 DEF LenTypeError, WholeBytes
  <2> QED
    BY <2>1, <2>3, <2>4
<1> QED
  BY <1>3, <1>4, <1>5 DEF TypeVarintsFit, TypeLengthsFit

LEMMA VarintBreaksRules ==
  ASSUME NEW number, VarintError(number) # "none"
  PROVE  /\ VarintError(number) \in {"InvalidVarint", "InvalidIntegerLengthType"}
         /\ number \notin VarintWidths
<1>1. number \notin {16, 32, 64}
  BY MaxU64Assumption DEF VarintError, Overflow, MaxU16
<1>2. VarintError(number) = "InvalidVarint" \/ VarintError(number) = "InvalidIntegerLengthType"
  BY <1>1 DEF VarintError
<1> QED
  BY <1>1, <1>2 DEF VarintWidths

LEMMA TypeBreaksRules ==
  ASSUME NEW type \in AstType, NEW error, error = TypeError(type), error # "none"
  PROVE  /\ error \in {"InvalidVarint", "InvalidIntegerLengthType", "IntegerPrimitiveTooBig"}
         /\ error \in {"InvalidVarint", "InvalidIntegerLengthType"} =>
              ~TypeVarintsFit(type) \/ ~TypeLengthsFit(type)
         /\ error = "IntegerPrimitiveTooBig" => ~TypeIntegerFits(type) \/ ~TypeLengthsFit(type)
<1> DEFINE bad == {i \in DOMAIN type.layers : LenTypeError(type.layers[i].len_ty) # "none"}
<1>1. CASE bad = {}
  <2>1. error = BaseError(type.base)
    BY <1>1 DEF TypeError
  <2>2. CASE type.base.tag = "ident"
    BY <2>1, <2>2 DEF BaseError
  <2>3. CASE type.base.tag = "builtin"
    <3>1. type.base.number \in Nat
      BY <2>3, PartsOfType, NumberIsNatural
    <3>2. type.base.number > MaxU16 /\ error = "IntegerPrimitiveTooBig"
      BY <2>1, <2>3 DEF BaseError, IntegerError
    <3>3. ~(type.base.number <= MaxU16)
      BY <3>1, <3>2, U16Bound
    <3> QED
      BY <2>3, <3>2, <3>3 DEF TypeIntegerFits
  <2>4. CASE type.base.tag = "varint"
    <3>1. error = VarintError(type.base.number)
      BY <2>1, <2>4 DEF BaseError
    <3>2. /\ error \in {"InvalidVarint", "InvalidIntegerLengthType"}
          /\ type.base.number \notin VarintWidths
      BY <3>1, VarintBreaksRules
    <3> QED
      BY <2>4, <3>2 DEF TypeVarintsFit
  <2> QED
    BY <2>2, <2>3, <2>4, PartsOfType
<1>2. CASE bad # {}
  <2>1. PICK i : i = Min(bad)
    OBVIOUS
  <2>2. i \in DOMAIN type.layers
    <3>1. bad \in SUBSET Nat
      BY PartsOfType
    <3> QED
      BY <1>2, <2>1, <3>1, MinOfNaturals
  <2>3. PICK len : len = type.layers[i].len_ty
    OBVIOUS
  <2>4. error = LenTypeError(len)
    BY <1>2, <2>1, <2>3 DEF TypeError
  <2>5. len.tag \in {"fixed", "varint"} /\ len.number \in Nat
    <3>1. type.layers[i] \in Layer
      <4>1. type.layers \in Seq(Layer)
        BY PartsOfType
      <4> HIDE DEF bad
      <4> QED
        BY <2>2, <4>1
    <3> QED
      BY <2>3, <3>1, NumberIsNatural DEF Layer, AstLenType
  <2>6. CASE len.tag = "varint"
    <3>1. error = VarintError(len.number)
      BY <2>4, <2>6 DEF LenTypeError
    <3>2. /\ error \in {"InvalidVarint", "InvalidIntegerLengthType"}
          /\ len.number \notin VarintWidths
      BY <3>1, VarintBreaksRules
    <3> QED
      BY <2>2, <2>3, <2>6, <3>2 DEF TypeVarintsFit
  <2>7. CASE len.tag = "fixed"
    <3>1. /\ error \in {"IntegerPrimitiveTooBig", "InvalidIntegerLengthType"}
          /\ len.number > MaxU16 \/ len.number \notin WholeBytes
      BY <2>4, <2>7 DEF LenTypeError, WholeBytes
    <3>2. len.number > MaxU16 => len.number \notin WholeBytes
      BY <2>5 DEF WholeBytes, MaxU16
    <3> QED
      BY <2>2, <2>3, <2>7, <3>1, <3>2 DEF TypeLengthsFit
  <2> QED
    BY <2>5, <2>6, <2>7
<1> QED
  BY <1>1, <1>2

LEMMA RulesOfTypes ==
  /\ VarintsFit(doc) <=> \A type \in TypesWritten(doc) : TypeVarintsFit(type)
  /\ LengthsFit(doc) <=> \A type \in TypesWritten(doc) : TypeLengthsFit(type)
  /\ IntegersFit(doc) <=>
       /\ \A type \in TypesWritten(doc) : TypeIntegerFits(type)
       /\ \A d \in DOMAIN doc : doc[d].kind = "extern" /\ doc[d].ty # <<>> => doc[d].ty[1] <= MaxU16
  BY DEF VarintsFit, LengthsFit, IntegersFit, TypeVarintsFit, TypeLengthsFit, TypeIntegerFits
-----------------------------------------------------------------------------
(* All definitions have been read: every one of them is in its slot. *)
AllRead == Kept /\ Read /\ at = Len(doc) + 1

LEMMA DefinitionInSlot ==
  ASSUME AllRead, NEW d \in DOMAIN doc
  PROVE  \E slot : /\ IsAssigned(doc[d].name) /\ slot = assigned[SlotNamed(doc[d].name)]
                   /\ DefinitionRead(cache, doc[d], slot) /\ doc[d] \in NamedDefinition
<1>1. doc \in Seq(NamedDefinition)
  BY DEF AllRead, Kept, WalkTyped, AstDocument
<1>2. d \in 1..(at - 1) /\ doc[d] \in NamedDefinition
  BY <1>1 DEF AllRead
<1> QED
  BY <1>2 DEF AllRead, Read, DefinitionsRead

LEMMA MembersInSlot ==
  ASSUME AllRead, NEW d \in DOMAIN doc, NEW def, def = doc[d]
  PROVE  \E list : /\ DOMAIN list = DOMAIN MembersOf(def)
                   /\ def.kind # "extern" => MembersRead(cache, def, list) /\ Numbered(def, list)
                   /\ def \in NamedDefinition
<1>1. PICK slot : DefinitionRead(cache, def, slot) /\ def \in NamedDefinition
  BY DefinitionInSlot
<1>2. CASE def.kind = "extern"
  BY <1>1, <1>2 DEF MembersOf
<1>3. CASE def.kind # "extern"
  BY <1>1, <1>3 DEF MembersOf, DefinitionRead
<1> QED
  BY <1>2, <1>3

LEMMA WrittenTypeRead ==
  ASSUME AllRead, NEW type \in TypesWritten(doc)
  PROVE  /\ type \in AstType /\ TypeError(type) = "none"
         /\ type.base.tag = "ident" => Known(type.base.name)
<1>1. PICK d \in DOMAIN doc : \E i \in DOMAIN MembersOf(doc[d]) :
        MembersOf(doc[d])[i].ty # <<>> /\ type = MembersOf(doc[d])[i].ty[1]
  BY WrittenWhere
<1>2. PICK def : def = doc[d]
  OBVIOUS
<1>3. PICK i \in DOMAIN MembersOf(def) : MembersOf(def)[i].ty # <<>> /\ type = MembersOf(def)[i].ty[1]
  BY <1>1, <1>2
<1>4. PICK list : /\ DOMAIN list = DOMAIN MembersOf(def)
                  /\ def.kind # "extern" => MembersRead(cache, def, list) /\ Numbered(def, list)
                  /\ def \in NamedDefinition
  BY <1>2, MembersInSlot
<1>5. def.kind # "extern" /\ MembersOf(def) = def.members
  BY <1>3 DEF MembersOf
<1>6. TypeRead(cache, type, list[i].ty)
  BY <1>3, <1>4, <1>5 DEF MembersRead, MemberRead
<1>7. type \in AstType
  <2>1. def.members \in Seq(AstMember)
    BY <1>4, <1>5, KindOfNamed
  <2>2. def.members[i] \in AstMember
    BY <1>3, <1>5, <2>1
  <2> QED
    BY <1>3, <1>5, <2>2, PartsOfMember
<1>8. PICK f : BaseMeans(cache, type.base, f[0])
  BY <1>6 DEF TypeRead, ResolvedTo, LayersMean
<1>9. type.base.tag = "ident" => Known(type.base.name)
  BY <1>8 DEF BaseMeans, Known
<1> QED
  BY <1>6, <1>7, <1>9 DEF TypeRead

LEMMA OkKeepsRules ==
  ASSUME AllRead, Unknown = <<>>
  PROVE  /\ TypeNamesUnique(doc) /\ MemberNamesUnique(doc) /\ NamesKnown(doc)
         /\ VarintsFit(doc) /\ LengthsFit(doc) /\ IndexTypesFit(doc) /\ IntegersFit(doc)
         /\ OverflowChecks => NumbersFit(doc)
<1>1. doc \in Seq(NamedDefinition) /\ DOMAIN doc = 1..(at - 1)
  <2>1. doc \in Seq(NamedDefinition)
    BY DEF AllRead, Kept, WalkTyped, AstDocument
  <2> QED
    BY <2>1 DEF AllRead
<1>2. TypeNamesUnique(doc)
  BY <1>1 DEF TypeNamesUnique, AllRead, Read, NamesOnce
<1>3. ASSUME NEW d \in DOMAIN doc, NEW i \in DOMAIN MembersOf(doc[d]), NEW j \in DOMAIN MembersOf(doc[d]),
             MembersOf(doc[d])[i].name = MembersOf(doc[d])[j].name
      PROVE  i = j
  <2>1. PICK def : def = doc[d]
    OBVIOUS
  <2>2. PICK list : /\ DOMAIN list = DOMAIN MembersOf(def)
                    /\ def.kind # "extern" => MembersRead(cache, def, list) /\ Numbered(def, list)
    BY <2>1, MembersInSlot
  <2>3. def.kind # "extern" /\ MembersOf(def) = def.members
    BY <1>3, <2>1 DEF MembersOf
  <2>4. /\ list[i].name = def.members[i].name /\ list[j].name = def.members[j].name
        /\ list[i].name = list[j].name => i = j
    BY <1>3, <2>1, <2>2, <2>3 DEF MembersRead, MemberRead
  <2> QED
    BY <1>3, <2>1, <2>3, <2>4
<1>4. MemberNamesUnique(doc)
  BY <1>3 DEF MemberNamesUnique
<1>5. VarintsFit(doc) /\ LengthsFit(doc)
  BY WrittenTypeRead, TypeKeepsRules, RulesOfTypes
<1>6. IntegersFit(doc)
  <2>1. \A type \in TypesWritten(doc) : TypeIntegerFits(type)
    BY WrittenTypeRead, TypeKeepsRules
  <2>2. \A d \in DOMAIN doc : doc[d].kind = "extern" /\ doc[d].ty # <<>> => doc[d].ty[1] <= MaxU16
    BY DefinitionInSlot DEF DefinitionRead
  <2> QED
    BY <2>1, <2>2, RulesOfTypes
<1>7. IndexTypesFit(doc)
  <2>1. SUFFICES ASSUME NEW d \in DOMAIN doc, doc[d].kind \in {"enum", "dict"}
                 PROVE  doc[d].index_ty \in WholeBytes
    BY DEF IndexTypesFit
  <2>2. IndexTypeError(doc[d].index_ty) = "none"
    BY <2>1, DefinitionInSlot DEF DefinitionRead, IsIndexed
  <2> QED
    BY <2>2 DEF IndexTypeError, WholeBytes
<1>8. OverflowChecks => NumbersFit(doc)
  <2>1. SUFFICES ASSUME OverflowChecks, NEW d \in DOMAIN doc, doc[d].kind \in {"enum", "dict"},
                        NEW i \in DOMAIN doc[d].members
                 PROVE  NumberLikeC(doc[d].members, i) <= MaxU64
    BY DEF NumbersFit
  <2>2. PICK def : def = doc[d]
    OBVIOUS
  <2>3. PICK list : /\ DOMAIN list = DOMAIN MembersOf(def)
                    /\ def.kind # "extern" => MembersRead(cache, def, list) /\ Numbered(def, list)
    BY <2>2, MembersInSlot
  <2>4. def.kind # "extern" /\ MembersOf(def) = def.members /\ IsIndexed(def)
    BY <2>1, <2>2 DEF MembersOf, IsIndexed
  <2> QED
    BY <2>1, <2>2, <2>3, <2>4 DEF Numbered
<1>9. NamesKnown(doc)
  <2>1. SUFFICES ASSUME NEW type \in TypesWritten(doc), type.base.tag = "ident"
                 PROVE  type.base.name \in NamesDefined(doc)
    BY DEF NamesKnown, NamesMentioned
  <2>2. Known(type.base.name)
    BY <2>1, WrittenTypeRead
  <2>3. PICK h : h = cache[NameKey(type.base.name)]
    OBVIOUS
  <2>4. h \in DOMAIN assigned
    BY <2>2, <2>3, KnownSlot DEF AllRead, Kept
  <2>5. unassigned[h] = <<>>
    BY <2>4, UnknownNames DEF AllRead, Kept, ArenaKept
  <2>6. /\ assigned[h] \in Definition /\ ~IsSequence(assigned[h])
        /\ assigned[h].name = type.base.name
    BY <2>2, <2>3, <2>5, KnownSlot DEF AllRead, Kept
  <2>7. assigned[h] # Uninit
    BY <2>6, UninitIsNoDefinition
  <2>8. \E d \in 1..(at - 1) : doc[d].name = assigned[h].name
    BY <2>4, <2>6, <2>7 DEF AllRead, Read, SlotsNamed
  <2> QED
    BY <1>1, <2>6, <2>8 DEF NamesDefined
<1> QED
  BY <1>2, <1>4, <1>5, <1>6, <1>7, <1>8, <1>9
-----------------------------------------------------------------------------
(* A refusal is deserved: each error names a rule the document breaks. *)
LEMMA DuplicateIsDeserved ==
  ASSUME Kept, Read, RejectDuplicate
  PROVE  result' = "DuplicateDefinition" /\ ~TypeNamesUnique(doc)
<1>1. at \in DOMAIN doc /\ IsAssigned(Def.name) /\ Fail("DuplicateDefinition")
  BY DEF RejectDuplicate, AtDefinition
<1>2. PICK h : h = cache[NameKey(Def.name)]
  OBVIOUS
<1>3. /\ h \in DOMAIN assigned /\ assigned[h] \in Definition /\ ~IsSequence(assigned[h])
      /\ assigned[h].name = Def.name
  BY <1>1, <1>2, KnownSlot DEF IsAssigned, Kept
<1>4. PICK d \in 1..(at - 1) : doc[d].name = Def.name
  BY <1>3, UninitIsNoDefinition DEF Read, SlotsNamed
<1>5. d \in DOMAIN doc /\ d # at
  <2>1. doc \in Seq(NamedDefinition)
    BY DEF Kept, WalkTyped, AstDocument
  <2> QED
    BY <1>1, <2>1
<1> QED
  BY <1>1, <1>4, <1>5 DEF TypeNamesUnique, Def, Fail

LEMMA NoMemberTwice ==
  ASSUME Kept, Read, RejectMember
  PROVE  result' = "DuplicateMember" /\ ~MemberNamesUnique(doc)
<1>1. /\ handle # NoHandle /\ Len(members) < Len(Def.members) /\ NameUsed
      /\ Fail("DuplicateMember")
  BY DEF RejectMember, AtMember, InBody
<1>2. PICK i \in DOMAIN members : members[i].name = AstMemberAt.name
  BY <1>1 DEF NameUsed
<1>3. members[i].name = Def.members[i].name
  BY <1>1 DEF Read, BodyRead, MembersRead, MemberRead
<1>4. i \in Nat /\ 1 <= i /\ i <= Len(members) /\ Len(members) \in Nat
  BY DEF Kept, WalkTyped
<1>5. /\ at \in DOMAIN doc /\ MembersOf(doc[at]) = Def.members
      /\ Len(members) + 1 \in DOMAIN Def.members
      /\ AstMemberAt = Def.members[Len(members) + 1] /\ Def.members \in Seq(AstMember)
  BY <1>1, OpenMember, MemberAt
<1>6. i \in DOMAIN Def.members /\ i # Len(members) + 1
  BY <1>4, <1>5
<1> QED
  BY <1>1, <1>2, <1>3, <1>5, <1>6 DEF MemberNamesUnique, Fail

LEMMA ExternIsTooBig ==
  ASSUME Kept, RejectExtern
  PROVE  result' = "IntegerPrimitiveTooBig" /\ ~IntegersFit(doc)
<1>1. /\ at \in DOMAIN doc /\ Def.kind = "extern" /\ ExternError # "none" /\ Fail(ExternError)
  BY DEF RejectExtern, AtDefinition
<1>2. Def.ty # <<>> /\ Def.ty[1] > MaxU16 /\ ExternError = "IntegerPrimitiveTooBig"
  BY <1>1 DEF ExternError, IntegerError
<1>3. Def.ty[1] \in Nat
  BY <1>1, <1>2, DefinitionAt, KindOfNamed, OptionCases, NumberIsNatural DEF Kept, WalkTyped
<1>4. ~(Def.ty[1] <= MaxU16)
  BY <1>2, <1>3, U16Bound
<1> QED
  BY <1>1, <1>2, <1>4 DEF IntegersFit, Def, Fail

LEMMA IndexTypeIsWrong ==
  ASSUME Kept, RejectIndexType
  PROVE  result' \in {"InvalidIndexType", "IntegerPrimitiveTooBig"} /\ ~IndexTypesFit(doc)
<1>1. /\ at \in DOMAIN doc /\ Def.kind \in {"enum", "dict"}
      /\ IndexTypeError(Def.index_ty) # "none" /\ Fail(IndexTypeError(Def.index_ty))
  BY DEF RejectIndexType, AtDefinition
<1>2. /\ IndexTypeError(Def.index_ty) \in {"InvalidIndexType", "IntegerPrimitiveTooBig"}
      /\ Def.index_ty = Overflow \/ Def.index_ty \notin WholeBytes
  BY <1>1 DEF IndexTypeError, WholeBytes
<1>3. Overflow \notin WholeBytes
  BY MaxU64Assumption DEF Overflow, WholeBytes, MaxU16
<1> QED
  BY <1>1, <1>2, <1>3 DEF IndexTypesFit, Def, Fail

LEMMA TypeIsWrong ==
  ASSUME Kept, RejectType
  PROVE  /\ result' \in {"InvalidVarint", "InvalidIntegerLengthType", "IntegerPrimitiveTooBig"}
         /\ result' \in {"InvalidVarint", "InvalidIntegerLengthType"} =>
              ~VarintsFit(doc) \/ ~LengthsFit(doc)
         /\ result' = "IntegerPrimitiveTooBig" => ~IntegersFit(doc) \/ ~LengthsFit(doc)
<1>1. /\ handle # NoHandle /\ Len(members) < Len(Def.members) /\ AstMemberAt.ty # <<>>
      /\ TypeError(AstMemberAt.ty[1]) # "none" /\ Fail(TypeError(AstMemberAt.ty[1]))
  BY DEF RejectType, AtMember, InBody
<1>2. PICK type : type = AstMemberAt.ty[1]
  OBVIOUS
<1>3. type \in TypesWritten(doc) /\ type \in AstType
  BY <1>1, <1>2, OpenMember, TypeIsWritten, MemberAt, PartsOfMember
<1>4. PICK error : error = TypeError(type)
  OBVIOUS
<1>5. result' = error
  BY <1>1, <1>2, <1>4 DEF Fail
<1>6. /\ error \in {"InvalidVarint", "InvalidIntegerLengthType", "IntegerPrimitiveTooBig"}
      /\ error \in {"InvalidVarint", "InvalidIntegerLengthType"} =>
           ~TypeVarintsFit(type) \/ ~TypeLengthsFit(type)
      /\ error = "IntegerPrimitiveTooBig" => ~TypeIntegerFits(type) \/ ~TypeLengthsFit(type)
  BY <1>1, <1>2, <1>3, <1>4, TypeBreaksRules
<1> QED
  BY <1>3, <1>5, <1>6, RulesOfTypes

LEMMA NumberIsTooBig ==
  ASSUME Kept, RejectNumber
  PROVE  result' = "IntegerPrimitiveTooBig" /\ ~NumbersFit(doc)
<1>1. /\ handle # NoHandle /\ ty # <<>> /\ AstMemberAt.index = <<Overflow>>
      /\ Fail("IntegerPrimitiveTooBig")
  BY DEF RejectNumber, AtPush, InBody
<1>2. Len(members) < Len(Def.members)
  BY <1>1 DEF Kept, TypeKept
<1>3. /\ at \in DOMAIN doc /\ Len(members) + 1 \in DOMAIN Def.members /\ Len(members) \in Nat
      /\ AstMemberAt = Def.members[Len(members) + 1] /\ Def.members \in Seq(AstMember)
      /\ MembersOf(doc[at]) = Def.members
  BY <1>1, <1>2, OpenMember, MemberAt
<1>4. Def \in NamedDefinition /\ Def.kind # "extern"
  BY <1>1, <1>3, DefinitionAt DEF Kept, BodyKept, WalkTyped
<1>5. Def.kind \in {"enum", "dict"}
  <2>1. Def.kind \in {"packed", "struct"} => AstMemberAt.index = <<>>
    BY <1>3, <1>4, KindOfNamed
  <2>2. AstMemberAt.index # <<>>
    BY <1>1
  <2> QED
    BY <1>4, <2>1, <2>2, KindOfNamed
<1>6. NumberLikeC(Def.members, Len(members) + 1) = Overflow
  <2>1. AstMemberAt.index # <<>> /\ AstMemberAt.index[1] = Overflow
    BY <1>1
  <2> QED
    BY <1>3, <2>1, NumberStep
<1>7. ~(Overflow <= MaxU64)
  BY MaxU64Assumption DEF Overflow
<1> QED
  BY <1>1, <1>3, <1>5, <1>6, <1>7 DEF NumbersFit, Def, Fail

LEMMA PanicIsAtTheLastNumber ==
  ASSUME Kept, Read, OverflowPanic
  PROVE  /\ result' = "panic"
         /\ \E d \in DOMAIN doc : \E i \in DOMAIN MembersOf(doc[d]) :
              NumberLikeC(doc[d].members, i) = MaxU64
<1>1. /\ handle # NoHandle /\ ty # <<>> /\ OverflowChecks /\ IsIndexed(Def)
      /\ IndexOf = MaxU64 /\ Fail("panic")
  BY DEF OverflowPanic, AtPush, InBody, Increments
<1>2. Len(members) < Len(Def.members)
  BY <1>1 DEF Kept, TypeKept
<1>3. NumberLikeC(Def.members, Len(members) + 1) = MaxU64
  BY <1>1, <1>2, IndexIsNumber DEF Read
<1>4. at \in DOMAIN doc /\ Len(members) + 1 \in DOMAIN MembersOf(doc[at])
  BY <1>1, <1>2, OpenMember
<1> QED
  BY <1>1, <1>3, <1>4 DEF Def, Fail
-----------------------------------------------------------------------------
(* What is missing at the end, and only that, is told, each name once. *)
LEMMA WaitingNames ==
  ASSUME ArenaKept, NEW h \in DOMAIN assigned, unassigned[h] # <<>>, NEW x, unassigned[h][1] = x
  PROVE  Known(x) /\ cache[NameKey(x)] = h
<1>1. assigned[h] = Uninit
  BY DEF ArenaKept, SlotsAgree
<1>2. KeyOf(h) = NameKey(x)
  BY <1>1 DEF KeyOf, IsSequence, Uninit
<1> QED
  BY <1>2 DEF ArenaKept, CacheExact, Known

LEMMA NamedOnce ==
  ASSUME ArenaKept
  PROVE  IsInjective(Unknown)
<1>1. unassigned \in Seq(Optional(Ident)) /\ DOMAIN unassigned = DOMAIN assigned
  BY DEF ArenaKept, ArenaTyped
<1>2. unassigned \in Seq(Seq(Ident))
  <2>1. Optional(Ident) \subseteq Seq(Ident)
    BY DEF Optional
  <2> DEFINE T == Optional(Ident)
             U == Seq(Ident)
  <2>2. unassigned \in Seq(T) /\ T \subseteq U
    BY <1>1, <2>1
  <2> HIDE DEF T, U
  <2>3. unassigned \in Seq(U)
    BY <2>2
  <2> QED
    BY <2>3 DEF U
<1>3. \A h \in DOMAIN unassigned : unassigned[h] \in Optional(Ident)
  BY <1>1
<1>4. \A h \in DOMAIN unassigned : Len(unassigned[h]) <= 1
  BY <1>3 DEF Optional
<1>5. \A h \in DOMAIN unassigned : \A x : Has(unassigned[h], x) => cache[NameKey(x)] = h
  <2> SUFFICES ASSUME NEW h \in DOMAIN unassigned, NEW x, Has(unassigned[h], x)
               PROVE  cache[NameKey(x)] = h
    OBVIOUS
  <2>1. PICK option : option = unassigned[h]
    OBVIOUS
  <2>2. option \in Optional(Ident)
    BY <1>3, <2>1
  <2>3. PICK k \in DOMAIN option : option[k] = x
    BY <2>1 DEF Has
  <2>4. option # <<>>
    BY <2>3
  <2>5. option[1] = x
    BY <2>2, <2>3, <2>4, OptionCases
  <2> QED
    BY <1>1, <2>1, <2>4, <2>5, WaitingNames
<1>6. \A i, j \in DOMAIN unassigned :
        \A x : Has(unassigned[i], x) /\ Has(unassigned[j], x) => i = j
  BY <1>5
<1>7. \A a, b \in DOMAIN FlattenSeq(unassigned) :
        FlattenSeq(unassigned)[a] = FlattenSeq(unassigned)[b] => a = b
  BY <1>2, <1>4, <1>6, FlattenInjective
<1> QED
  BY <1>7 DEF Unknown, IsInjective

LEMMA MissingNames ==
  ASSUME AllRead
  PROVE  Range(Unknown) = NamesMentioned(doc) \ NamesDefined(doc)
<1>1. handle = NoHandle /\ DOMAIN doc = 1..(at - 1)
  <2>1. doc \in Seq(NamedDefinition)
    BY DEF AllRead, Kept, WalkTyped, AstDocument
  <2>2. at \notin DOMAIN doc /\ DOMAIN doc = 1..(at - 1)
    BY <2>1 DEF AllRead
  <2> QED
    BY <2>2 DEF AllRead, Kept, BodyKept
<1>2. ArenaKept
  BY DEF AllRead, Kept
<1>3. \A x : x \in Range(Unknown)
               <=> \E h \in DOMAIN assigned : unassigned[h] # <<>> /\ unassigned[h][1] = x
  <2>1. \A x : x \in Range(Unknown) <=> \E k \in DOMAIN Unknown : Unknown[k] = x
    BY DEF Range
  <2> HIDE DEF Unknown
  <2> QED
    BY <1>2, <2>1, UnknownNames DEF ArenaKept
<1>4. ASSUME NEW h \in DOMAIN assigned, unassigned[h] # <<>>, NEW x, x = unassigned[h][1]
      PROVE  x \in NamesMentioned(doc) /\ x \notin NamesDefined(doc)
  <2>1. h # handle
    BY <1>1, <1>2 DEF ArenaKept, ArenaTyped, NoHandle
  <2>2. x \in NamesMentioned(doc)
    BY <1>4, <2>1 DEF AllRead, Read, SlotsNamed
  <2>3. SUFFICES ASSUME NEW d \in DOMAIN doc, doc[d].name = x PROVE FALSE
    BY <2>2 DEF NamesDefined
  <2>4. unassigned[cache[NameKey(x)]] = <<>>
    BY <2>3, DefinitionInSlot DEF IsAssigned
  <2> QED
    BY <1>2, <1>4, <2>4, WaitingNames
<1>5. ASSUME NEW type \in TypesWritten(doc), type.base.tag = "ident",
             NEW x, x = type.base.name, x \notin NamesDefined(doc)
      PROVE  \E h \in DOMAIN assigned : unassigned[h] # <<>> /\ unassigned[h][1] = x
  <2>1. Known(x)
    BY <1>5, WrittenTypeRead
  <2>2. PICK h : h = cache[NameKey(x)]
    OBVIOUS
  <2>3. h \in DOMAIN assigned
    BY <1>2, <2>1, <2>2, KnownSlot
  <2>4. CASE unassigned[h] = <<>>
    <3>1. assigned[h] \in Definition /\ ~IsSequence(assigned[h]) /\ assigned[h].name = x
      BY <1>2, <2>1, <2>2, <2>4, KnownSlot
    <3>2. \E d \in 1..(at - 1) : doc[d].name = assigned[h].name
      BY <2>3, <3>1, UninitIsNoDefinition DEF AllRead, Read, SlotsNamed
    <3> QED
      BY <1>1, <1>5, <3>1, <3>2 DEF NamesDefined
  <2>5. CASE unassigned[h] # <<>>
    <3>1. unassigned[h] = <<x>>
      BY <1>2, <2>1, <2>2, <2>5, KnownSlot
    <3> QED
      BY <2>3, <2>5, <3>1
  <2> QED
    BY <2>4, <2>5
<1>6. \A x \in NamesMentioned(doc) : \E type \in TypesWritten(doc) :
        type.base.tag = "ident" /\ x = type.base.name
  BY DEF NamesMentioned
<1>7. \A x \in NamesMentioned(doc) \ NamesDefined(doc) :
        \E h \in DOMAIN assigned : unassigned[h] # <<>> /\ unassigned[h][1] = x
  BY <1>5, <1>6
<1> QED
  BY <1>3, <1>4, <1>7

LEMMA FinishVerdict ==
  ASSUME Kept, Read, OverflowChecks, Finish
  PROVE  VerdictCorrect'
<1>1. doc' = doc /\ result' \in {"ok", "UnknownTypeName"}
  BY DEF Finish
<1>2. AllRead
  <2>1. doc \in Seq(NamedDefinition) /\ at \in 1..(Len(doc) + 1) /\ at \notin DOMAIN doc
    BY DEF Kept, WalkTyped, AstDocument, Finish
  <2>2. at = Len(doc) + 1
    BY <2>1
  <2> QED
    BY <2>2 DEF AllRead
<1>3. result' = "ok" => WellFormedDocument(doc)
  BY <1>2, OkKeepsRules DEF Finish, WellFormedDocument
<1>4. result' = "UnknownTypeName" =>
        /\ unknown' # <<>> /\ IsInjective(unknown')
        /\ Range(unknown') = NamesMentioned(doc) \ NamesDefined(doc)
  BY <1>2, NamedOnce, MissingNames DEF Finish, AllRead, Kept
<1> QED
  BY <1>1, <1>3, <1>4 DEF VerdictCorrect

LEMMA VerdictStep ==
  ASSUME Kept, Read, VerdictCorrect, OverflowChecks, [Next]_vars
  PROVE  VerdictCorrect'
<1>1. doc' = doc
  BY DocStays
<1>2. CASE UNCHANGED vars
  BY <1>2 DEF vars, VerdictCorrect
<1>3. CASE Finish
  BY <1>3, FinishVerdict
<1>4. CASE RejectDuplicate
  BY <1>1, <1>4, DuplicateIsDeserved DEF VerdictCorrect
<1>5. CASE RejectExtern
  BY <1>1, <1>5, ExternIsTooBig DEF VerdictCorrect
<1>6. CASE RejectIndexType
  BY <1>1, <1>6, IndexTypeIsWrong DEF VerdictCorrect
<1>7. CASE RejectMember
  BY <1>1, <1>7, NoMemberTwice DEF VerdictCorrect
<1>8. CASE RejectType
  BY <1>1, <1>8, TypeIsWrong DEF VerdictCorrect
<1>9. CASE RejectNumber
  BY <1>1, <1>9, NumberIsTooBig DEF VerdictCorrect
<1>10. CASE OverflowPanic
  BY <1>1, <1>10, PanicIsAtTheLastNumber DEF VerdictCorrect
<1>11. CASE \/ DefineExtern \/ OpenDefinition \/ StartVoid \/ StartBase \/ WrapSequence
            \/ PushMember \/ CloseDefinition
  BY <1>11, RunsOn DEF VerdictCorrect
<1> QED
  BY <1>2, <1>3, <1>4, <1>5, <1>6, <1>7, <1>8, <1>9, <1>10, <1>11 DEF Next

(***************************************************************************)
(* The verdict of a resolver that is built with overflow checks is right:  *)
(* ok only for a document that keeps the rules of dsl.md and               *)
(* wire-format.md (for lengths that of the latter, which permits any whole *)
(* number of bytes), whatever the order of its definitions; every error    *)
(* names a rule that is broken; and an UnknownTypeName error lists each    *)
(* name that is missing once.  Without the checks index_acc wraps around,  *)
(* and a document whose numbers do not fit may be accepted.                *)
(***************************************************************************)
THEOREM VerdictAlwaysCorrect == OverflowChecks => (Spec => []VerdictCorrect)
<1> SUFFICES ASSUME OverflowChecks PROVE Spec => []VerdictCorrect
  OBVIOUS
<1>1. Init => VerdictCorrect
  BY DEF Init, New, VerdictCorrect, ErrorKind
<1>2. Kept /\ Read /\ VerdictCorrect /\ [Next]_vars => VerdictCorrect'
  BY VerdictStep
<1> QED
  BY <1>1, <1>2, AlwaysKept, AlwaysRead, PTL DEF Spec

(* In any build, a document that is accepted breaks no other rule than the *)
(* one of its numbers.                                                     *)
THEOREM AcceptedInAnyBuild == Spec => [](result = "ok" /\ NumbersFit(doc) => WellFormedDocument(doc))
<1>1. ASSUME Kept, Finished, Read, result = "ok", NumbersFit(doc) PROVE WellFormedDocument(doc)
  <2>1. AllRead /\ Unknown = <<>>
    BY <1>1, NothingOpen DEF AllRead, Finished
  <2> QED
    BY <1>1, <2>1, OkKeepsRules DEF WellFormedDocument
<1> QED
  BY <1>1, AlwaysKept, AlwaysFinished, AlwaysRead, PTL
-----------------------------------------------------------------------------
(***************************************************************************)
(* The meaning of the schema: what the yardstick looks up in the slots is  *)
(* what the cache says.                                                    *)
(***************************************************************************)
LEMMA SlotOfName ==
  ASSUME ArenaKept, NEW name, Known(name)
  PROVE  SlotOf(name) = cache[NameKey(name)]
<1>1. PICK g : g = cache[NameKey(name)]
  OBVIOUS
<1>2. g \in DOMAIN assigned /\ KeyOf(g) = NameKey(name)
  BY <1>1 DEF ArenaKept, ArenaTyped, CacheExact, Known
<1>3. \A h \in DOMAIN assigned : KeyOf(h) = NameKey(name) => h = g
  BY <1>1 DEF ArenaKept, CacheExact
<1> HIDE DEF NameKey
<1> QED
  BY <1>1, <1>2, <1>3 DEF SlotOf

LEMMA SlotOfAnon ==
  ASSUME ArenaKept, NEW anon \in Definition, IsSequence(anon), anon \in DOMAIN cache
  PROVE  (CHOOSE h \in DOMAIN assigned : assigned[h] = anon) = cache[anon]
<1>1. PICK g : g = cache[anon]
  OBVIOUS
<1>2. g \in DOMAIN assigned /\ assigned[g] = anon
  BY <1>1, KnownAnon
<1>3. ASSUME NEW h \in DOMAIN assigned, assigned[h] = anon PROVE h = g
  <2>1. KeyOf(h) = anon
    BY <1>3, UninitIsNoSequence DEF KeyOf
  <2> QED
    BY <1>1, <2>1 DEF ArenaKept, CacheExact
<1> QED
  BY <1>1, <1>2, <1>3

LEMMA ReadIsMeant ==
  ASSUME ArenaKept, NEW type \in AstType, NEW t, TypeRead(cache, type, t)
  PROVE  TypeMeant(type) = t
<1> DEFINE n == Len(type.layers)
           Inner == CASE type.base.tag = "ident" -> Allocated(SlotOf(type.base.name))
                      [] type.base.tag = "builtin" -> Integer(type.base.number)
                      [] type.base.tag = "varint" -> Varint(type.base.number \div 8)
           Wrap(i, elem) ==
             LET anon == Anon(type.layers[Len(type.layers) - i + 1], elem)
             IN  Allocated(CHOOSE h \in DOMAIN assigned : assigned[h] = anon)
           W(f) == [i \in 0..Len(type.layers) |-> IF i > 0 THEN Wrap(i, f[i - 1]) ELSE Inner]
           F == CHOOSE f : f = W(f)
<1>1. TypeMeant(type) = F[n]
  BY DEF TypeMeant
<1>2. n \in Nat /\ \A i \in 1..n : n - i + 1 \in DOMAIN type.layers /\ i - 1 \in 0..n
  <2>1. type.layers \in Seq(Layer)
    BY PartsOfType
  <2> QED
    BY <2>1
<1>3. PICK f : LayersMean(cache, type, n, f) /\ f[n] = t
  BY DEF TypeRead, ResolvedTo
<1>4. f \in [0..n -> Type]
  BY <1>3 DEF LayersMean
<1>5. f[0] = Inner
  <2>1. BaseMeans(cache, type.base, f[0])
    BY <1>3 DEF LayersMean
  <2> QED
    BY <2>1, SlotOfName DEF BaseMeans, Known
<1>6. ASSUME NEW i \in 1..n PROVE f[i] = Wrap(i, f[i - 1])
  <2>1. PICK layer : layer = LayerAt(type, i)
    OBVIOUS
  <2>2. layer \in Layer /\ LenTypeError(layer.len_ty) = "none"
    <3>1. type.layers \in Seq(Layer)
      BY PartsOfType
    <3>2. n - i + 1 \in DOMAIN type.layers
      BY <1>2
    <3> QED
      BY <2>1, <3>1, <3>2, TypeFits DEF LayerAt, TypeRead
  <2>3. PICK elem : elem = f[i - 1] /\ elem \in Type
    BY <1>2, <1>4
  <2>4. PICK anon : anon = Anon(layer, elem)
    OBVIOUS
  <2>5. anon \in DOMAIN cache /\ f[i] = Allocated(cache[anon])
    BY <1>3, <2>1, <2>3, <2>4 DEF LayersMean, LayerMeans
  <2>6. (CHOOSE h \in DOMAIN assigned : assigned[h] = anon) = cache[anon]
    BY <2>2, <2>3, <2>4, <2>5, AnonIsSequence, SlotOfAnon
  <2>7. f[i] = Wrap(i, elem)
    BY <2>1, <2>4, <2>5, <2>6 DEF LayerAt
  <2> QED
    BY <2>3, <2>7
<1> HIDE DEF Inner, Wrap
<1>7. f = W(f)
  <2>1. \A i \in 0..n : f[i] = IF i > 0 THEN Wrap(i, f[i - 1]) ELSE Inner
    BY <1>2, <1>5, <1>6
  <2> QED
    BY <1>4, <2>1
<1>8. F = W(F)
  <2> HIDE DEF W
  <2> QED
    BY <1>7
<1> HIDE DEF F
<1>9. F[0] = f[0] /\ \A i \in 1..n : F[i] = Wrap(i, F[i - 1])
  <2>1. \A i \in 0..n : F[i] = IF i > 0 THEN Wrap(i, F[i - 1]) ELSE Inner
    <3>1. \A i \in 0..n : W(F)[i] = IF i > 0 THEN Wrap(i, F[i - 1]) ELSE Inner
      OBVIOUS
    <3> HIDE DEF W
    <3> QED
      BY <1>8, <3>1
  <2> HIDE DEF n, W
  <2>2. 0 \in 0..n /\ ~(0 > 0) /\ \A i \in 1..n : i \in 0..n /\ i > 0
    BY <1>2
  <2> QED
    BY <1>5, <2>1, <2>2
<1>10. F[n] = f[n]
  <2> DEFINE K == {k \in Nat : k \in 0..n => F[k] = f[k]}
  <2>1. 0 \in K
    BY <1>9
  <2>2. ASSUME NEW k \in Nat, k \in K PROVE k + 1 \in K
    <3>1. SUFFICES ASSUME k + 1 \in 0..n PROVE F[k + 1] = f[k + 1]
      OBVIOUS
    <3>2. k + 1 \in 1..n /\ (k + 1) - 1 = k /\ k \in 0..n
      BY <1>2, <3>1
    <3>3. F[k] = f[k]
      BY <2>2, <3>2
    <3> HIDE DEF n
    <3> QED
      BY <1>6, <1>9, <3>2, <3>3
  <2> HIDE DEF K
  <2>3. n \in K
    BY <1>2, <2>1, <2>2, SetInduction
  <2> USE DEF K
  <2> QED
    BY <1>2, <2>3
<1> QED
  BY <1>1, <1>3, <1>10

LEMMA DefinitionMeant ==
  ASSUME AllRead, OverflowChecks, NEW d \in DOMAIN doc
  PROVE  Meant(doc[d])
<1>1. PICK def : def = doc[d]
  OBVIOUS
<1>2. PICK slot : /\ IsAssigned(def.name) /\ slot = assigned[SlotNamed(def.name)]
                  /\ DefinitionRead(cache, def, slot) /\ def \in NamedDefinition
  BY <1>1, DefinitionInSlot
<1>3. slot = assigned[SlotOf(def.name)]
  BY <1>2, SlotOfName DEF AllRead, Kept, IsAssigned, SlotNamed
<1>4. ASSUME def.kind # "extern", NEW i \in DOMAIN def.members
      PROVE  /\ slot.members[i].name = def.members[i].name
             /\ slot.members[i].ty = IF def.members[i].ty = <<>> THEN Integer(0)
                                     ELSE TypeMeant(def.members[i].ty[1])
             /\ IsIndexed(def) => slot.members[i].index = NumberLikeC(def.members, i)
  <2>1. /\ MembersRead(cache, def, slot.members) /\ Numbered(def, slot.members)
        /\ i \in DOMAIN slot.members
    BY <1>2, <1>4 DEF DefinitionRead
  <2>2. PICK ast, m : ast = def.members[i] /\ m = slot.members[i]
    OBVIOUS
  <2>3. MemberRead(cache, ast, m)
    BY <2>1, <2>2 DEF MembersRead
  <2>4. ast.ty # <<>> => ast.ty[1] \in AstType
    <3>1. def.members \in Seq(AstMember)
      BY <1>2, <1>4, KindOfNamed
    <3>2. ast \in AstMember
      BY <1>4, <2>2, <3>1
    <3> QED
      BY <3>2, PartsOfMember
  <2>5. ast.ty # <<>> => TypeMeant(ast.ty[1]) = m.ty
    BY <2>3, <2>4, ReadIsMeant DEF MemberRead, AllRead, Kept
  <2>6. m.name = ast.name /\ (ast.ty = <<>> => m.ty = Integer(0))
    BY <2>3 DEF MemberRead
  <2>7. IsIndexed(def) => m.index = NumberLikeC(def.members, i)
    BY <2>1, <2>2 DEF Numbered
  <2> QED
    BY <2>2, <2>5, <2>6, <2>7
<1>5. def.kind # "extern" /\ IsIndexed(def) => 8 * slot.index_ty = def.index_ty
  BY <1>2, KindOfNamed, IndexTypeFits DEF DefinitionRead, IsIndexed
<1>6. def.kind # "extern" => slot.kind = def.kind /\ Len(slot.members) = Len(def.members)
  BY <1>2 DEF DefinitionRead
<1>7. def.kind = "extern" =>
        slot = IF def.ty = <<>> THEN [kind |-> "extern", name |-> def.name]
               ELSE [kind |-> "primitive", name |-> def.name, bits |-> def.ty[1]]
  BY <1>2 DEF DefinitionRead
<1>8. slot.name = def.name
  BY <1>2 DEF DefinitionRead
<1>9. Meant(def)
  BY <1>3, <1>4, <1>5, <1>6, <1>7, <1>8 DEF Meant
<1> QED
  BY <1>1, <1>9

(***************************************************************************)
(* The schema means what the document says, in every slot and every type,  *)
(* however often a name or a sequence is shared.  The numbers of members   *)
(* are like in C only where index_acc cannot wrap around: in a build with  *)
(* overflow checks.                                                        *)
(***************************************************************************)
THEOREM SchemaAlwaysMeansDocument == OverflowChecks => (Spec => []SchemaMeansDocument)
<1> SUFFICES ASSUME OverflowChecks PROVE Spec => []SchemaMeansDocument
  OBVIOUS
<1>1. ASSUME Kept, Finished, Read PROVE SchemaMeansDocument
  <2>1. SUFFICES ASSUME result = "ok" PROVE \A d \in DOMAIN doc : Meant(doc[d])
    BY DEF SchemaMeansDocument
  <2>2. AllRead
    BY <1>1, <2>1, NothingOpen DEF AllRead
  <2> QED
    BY <2>2, DefinitionMeant
<1> QED
  BY <1>1, AlwaysKept, AlwaysFinished, AlwaysRead, PTL
=============================================================================
