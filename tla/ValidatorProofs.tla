--------------------------- MODULE ValidatorProofs ---------------------------
(***************************************************************************)
(* Theorems about Validator, for any schemas.                              *)
(***************************************************************************)
EXTENDS Validator, SchemaTheorems

(***************************************************************************)
(* What typing rests on: a member of a packed definition is only taken if  *)
(* its width is fixed, so that widths add up, and the width of a validated *)
(* definition has been written, so that a member of that type has one.     *)
(***************************************************************************)
PackedFixed ==
  \A i \in DOMAIN stack : schema[stack[i].handle].kind = "packed" => stack[i].width # Variable

Written == \A h \in Handles : states[h] = "validated" => bit_width[h] # Uninit

Typed == TypeOK /\ PackedFixed /\ Written

(* A new frame is at the first member, and that of a packed one is fixed. *)
LEMMA StartsTyped ==
  ASSUME NEW def \in Definition
  PROVE  StartWidth(def) \in BitWidth /\ (def.kind = "packed" => StartWidth(def) # Variable)
<1>1. def.kind = "primitive" => Fixed(def.bits) \in BitWidth
  BY KindOfDefinition, U16IsNat, FixedIsWidth
<1>2. def.kind = "dict" => Fixed(8 * def.index_ty) \in BitWidth
  <2> SUFFICES ASSUME def.kind = "dict" PROVE Fixed(8 * def.index_ty) \in BitWidth
    OBVIOUS
  <2>1. 8 * def.index_ty \in Nat
    BY KindOfDefinition
  <2> QED
    BY <2>1, FixedIsWidth
<1>3. Fixed(0) \in BitWidth /\ Fixed(0) # Variable
  BY FixedIsWidth
<1> QED
  BY <1>1, <1>2, <1>3, VariableIsWidth DEF StartWidth

(* A member adds to a width so that it stays one, a packed width fixed. *)
LEMMA AbsorbTyped ==
  ASSUME NEW def \in Definition, NEW i \in Nat, NEW acc \in BitWidth, NEW width \in BitWidth,
         def.kind = "packed" => acc # Variable /\ width # Variable
  PROVE  /\ Absorb(def, i, acc, width) \in BitWidth
         /\ def.kind = "packed" => Absorb(def, i, acc, width) # Variable
<1>1. CASE def.kind = "packed"
  <2>1. acc.bits + width.bits \in Nat
    BY <1>1, FixedWidth
  <2> QED
    BY <1>1, <2>1, FixedIsWidth DEF Absorb
<1>2. CASE def.kind # "packed"
  BY <1>2, VariableIsWidth DEF Absorb
<1> QED
  BY <1>1, <1>2

(* What is written into the table is a width. *)
LEMMA FinalTyped ==
  ASSUME NEW def \in Definition, NEW acc \in BitWidth
  PROVE  FinalWidth(def, acc) \in BitWidth
<1>1. CASE def.kind = "enum" /\ def.members # <<>> /\ acc # Variable
  <2>1. acc.bits + 8 * def.index_ty \in Nat
    BY <1>1, FixedWidth, KindOfDefinition
  <2> QED
    BY <1>1, <2>1, FixedIsWidth DEF FinalWidth
<1>2. CASE ~(def.kind = "enum" /\ def.members # <<>> /\ acc # Variable)
  BY <1>2 DEF FinalWidth
<1> QED
  BY <1>1, <1>2

(* The frame on top, its definition and the type it is about to look at. *)
LEMMA TopTyped ==
  ASSUME Typed, stack # <<>>
  PROVE  /\ Len(stack) \in DOMAIN stack
         /\ Top \in Frames
         /\ Top.handle \in Handles /\ Top.next \in Nat \ {0} /\ Top.width \in BitWidth
         /\ Def \in Definition
         /\ Top.next <= Len(Types) + 1
         /\ Types \in Seq(Type)
         /\ Top.next \in DOMAIN Types => Ty \in Type
         /\ Def.kind = "packed" => Top.width # Variable
<1>1. stack \in Seq(Frames)
  BY DEF Typed, TypeOK
<1>2. Len(stack) \in DOMAIN stack /\ Top \in Frames
  BY <1>1 DEF Top
<1>3. Top.handle \in Handles /\ Top.next \in Nat \ {0} /\ Top.width \in BitWidth
  BY <1>2 DEF Frames
<1>4. Def \in Definition
  BY <1>3 DEF Typed, TypeOK, Def, Handles
<1>5. Types \in Seq(Type)
  BY <1>4, TypesOfDefinition DEF Types
<1>6. Top.next <= Len(Types) + 1
  BY <1>2 DEF Frames, Types, Def
<1>7. Def.kind = "packed" => Top.width # Variable
  BY <1>2 DEF Typed, PackedFixed, Top, Def
<1> QED
  BY <1>2, <1>3, <1>4, <1>5, <1>6, <1>7 DEF Ty

(* The width of a type whose definition, if it names one, is validated. *)
LEMMA WidthTyped ==
  ASSUME Typed, Ty \in Type, WidthKnown
  PROVE  Width \in BitWidth
<1>1. CASE Ty.tag = "integer"
  BY <1>1, TagOfType, U16IsNat, FixedIsWidth DEF Width, WidthOfType
<1>2. CASE Ty.tag = "varint"
  BY <1>2, VariableIsWidth DEF Width, WidthOfType
<1>3. CASE Ty.tag = "allocated"
  <2>1. Ty.handle \in Handles /\ states[Ty.handle] = "validated"
    BY <1>3 DEF WidthKnown, Status
  <2>2. bit_width[Ty.handle] \in BitWidth
    BY <2>1 DEF Typed, TypeOK, Written
  <2> QED
    BY <1>3, <2>2 DEF Width, WidthOfType
<1> QED
  BY <1>1, <1>2, <1>3, TagOfType

(* A call is entered with a frame of its own, on top of those of its caller. *)
LEMMA EnterTyped ==
  ASSUME Typed, result = "running",
         NEW h \in Handles, NEW caller \in Seq(Frames),
         \A i \in DOMAIN caller :
           schema[caller[i].handle].kind = "packed" => caller[i].width # Variable,
         Enter(caller, h),
         referrers' \in [Handles -> Seq(Handles)],
         rec_sequences' \in [Handles -> BOOLEAN],
         root' \in 1..(Len(schema) + 1)
  PROVE  Typed'
<1>1. schema[h] \in Definition
  BY DEF Typed, TypeOK, Handles
<1>2. Len(TypesOf(schema[h])) \in Nat
  BY <1>1, TypesOfDefinition
<1>3. Frame(h) \in Frames
  BY <1>1, <1>2, StartsTyped DEF Frame, Frames
<1>4. schema[h].kind = "packed" => Frame(h).width # Variable
  BY <1>1, StartsTyped DEF Frame
<1>5. schema' = schema /\ Handles' = Handles /\ Frames' = Frames
  BY DEF Enter, Handles, Frames
<1>6. stack' \in Seq(Frames)
  BY <1>3 DEF Enter
<1>7. PackedFixed'
  <2> SUFFICES ASSUME NEW i \in DOMAIN stack', schema[stack'[i].handle].kind = "packed"
               PROVE  stack'[i].width # Variable
    BY <1>5 DEF PackedFixed
  <2>1. CASE i \in DOMAIN caller
    <3>1. stack'[i] = caller[i]
      BY <1>3, <2>1 DEF Enter
    <3> QED
      BY <2>1, <3>1
  <2>2. CASE i \notin DOMAIN caller
    <3>1. stack'[i] = Frame(h)
      BY <1>3, <2>2 DEF Enter
    <3> QED
      BY <1>4, <3>1 DEF Frame
  <2> QED
    BY <2>1, <2>2
<1>8. Written'
  BY <1>5 DEF Typed, TypeOK, Written, Enter
<1>9. TypeOK'
  BY <1>5, <1>6 DEF Typed, TypeOK, Enter
<1> QED
  BY <1>7, <1>8, <1>9 DEF Typed

(* The frame on top moves on, with a width that is fixed if it is packed. *)
LEMMA AdvanceTyped ==
  ASSUME Typed, stack # <<>>, Top.next \in DOMAIN Types,
         NEW width \in BitWidth, Def.kind = "packed" => width # Variable
  PROVE  /\ Advance(width) \in Seq(Frames)
         /\ Len(Advance(width)) = Len(stack)
         /\ DOMAIN Advance(width) = DOMAIN stack
         /\ \A i \in DOMAIN stack :
              /\ Advance(width)[i].handle = stack[i].handle
              /\ Advance(width)[i].next = IF i = Len(stack) THEN Top.next + 1 ELSE stack[i].next
              /\ schema[Advance(width)[i].handle].kind = "packed" => Advance(width)[i].width # Variable
<1> DEFINE moved == [handle |-> Top.handle, next |-> Top.next + 1, width |-> width]
<1>1. stack \in Seq(Frames) /\ Len(stack) \in DOMAIN stack
  BY TopTyped DEF Typed, TypeOK
<1>2. moved \in Frames /\ moved.handle = Top.handle /\ moved.next = Top.next + 1 /\ moved.width = width
  BY TopTyped DEF Frames, Types, Def
<1>3. Advance(width) = [stack EXCEPT ![Len(stack)] = moved]
  BY DEF Advance
<1> HIDE DEF moved
<1>4. Advance(width) \in Seq(Frames) /\ Len(Advance(width)) = Len(stack)
      /\ DOMAIN Advance(width) = DOMAIN stack
  BY <1>1, <1>2, <1>3
<1>5. \A i \in DOMAIN stack : Advance(width)[i] = IF i = Len(stack) THEN moved ELSE stack[i]
  BY <1>1, <1>3
<1> QED
  BY <1>1, <1>2, <1>4, <1>5 DEF Typed, PackedFixed, Top, Def

(* A referrer that is recorded is one of the definitions. *)
LEMMA ReferrersTyped ==
  ASSUME Typed, result = "running", NEW type \in Type, NEW h \in Handles,
         type.tag = "allocated" => type.handle \in Handles
  PROVE  AddReferrer(type, h) \in [Handles -> Seq(Handles)]
<1>1. referrers \in [Handles -> Seq(Handles)]
  BY DEF Typed, TypeOK
<1>2. CASE type.tag = "allocated"
  <2>1. referrers[type.handle] \in Seq(Handles)
    BY <1>1, <1>2
  <2>2. Append(referrers[type.handle], h) \in Seq(Handles)
    BY <2>1
  <2> QED
    BY <1>1, <1>2, <2>2 DEF AddReferrer
<1>3. CASE type.tag # "allocated"
  BY <1>1, <1>3 DEF AddReferrer
<1> QED
  BY <1>2, <1>3

LEMMA FailTyped ==
  ASSUME Typed, result = "running", NEW error \in {"panic"} \cup Errors, Fail(error)
  PROVE  Typed'
<1>1. UNCHANGED <<schema, states, bit_width, referrers, rec_sequences, stack, root>> /\ result' = error
  BY DEF Fail, tables
<1>2. Handles' = Handles /\ Frames' = Frames
  BY <1>1 DEF Handles, Frames
<1> QED
  BY <1>1, <1>2 DEF Typed, TypeOK, PackedFixed, Written, Errors

(* Nothing but what is above the stack has a say in the other tables. *)
LEMMA StackTyped ==
  ASSUME Typed, result = "running",
         UNCHANGED <<schema, states, bit_width, root, result>>,
         stack' \in Seq(Frames),
         \A i \in DOMAIN stack' :
           schema[stack'[i].handle].kind = "packed" => stack'[i].width # Variable,
         referrers' \in [Handles -> Seq(Handles)],
         rec_sequences' \in [Handles -> BOOLEAN]
  PROVE  Typed'
<1>1. Handles' = Handles /\ Frames' = Frames
  BY DEF Handles, Frames
<1> QED
  BY <1>1 DEF Typed, TypeOK, PackedFixed, Written

(* Vec::dedup drops repetitions, and so no referrer. *)
LEMMA DedupKeeps ==
  ASSUME NEW S, NEW seq \in Seq(S)
  PROVE  Dedup(seq) \in Seq(S) /\ Range(Dedup(seq)) = Range(seq)
<1> DEFINE n == Len(seq)
           Squash(acc, x) == IF acc # <<>> /\ Last(acc) = x THEN acc ELSE Append(acc, x)
           base == <<>>
           step == [i \in 1..n |-> [acc \in Seq(S) |-> Squash(acc, seq[i])]]
           D(f) == [s \in SUBSET DOMAIN seq |->
                      IF s = {} THEN base ELSE Squash(f[s \ {Max(s)}], seq[Max(s)])]
           F == CHOOSE f : f = D(f)
<1>1. n \in Nat /\ DOMAIN seq = 1..n /\ \A i \in 1..n : seq[i] \in S
  OBVIOUS
<1>2. base \in Seq(S) /\ \A acc \in Seq(S), x \in S : Squash(acc, x) \in Seq(S)
  OBVIOUS
<1> HIDE DEF Squash, n, base
<1>3. step \in StepsOver(n, Seq(S))
  BY <1>1, <1>2 DEF StepsOver
<1>4. PICK g \in [SUBSET (1..n) -> Seq(S)] : Folds(g, n, base, step)
  <2> HIDE DEF step
  <2> QED
    BY <1>1, <1>2, <1>3, FoldExists
<1>5. g = D(g)
  <2>1. ASSUME NEW s \in SUBSET (1..n)
        PROVE  g[s] = IF s = {} THEN base ELSE Squash(g[s \ {Max(s)}], seq[Max(s)])
    <3>1. g[s] = IF s = {} THEN base ELSE step[Max(s)][g[s \ {Max(s)}]]
      BY <1>4 DEF Folds
    <3>2. ASSUME s # {} PROVE step[Max(s)][g[s \ {Max(s)}]] = Squash(g[s \ {Max(s)}], seq[Max(s)])
      <4>1. Max(s) \in 1..n
        BY <1>1, <3>2, MaxOfPrefix
      <4>2. s \ {Max(s)} \in SUBSET (1..n)
        OBVIOUS
      <4>3. g[s \ {Max(s)}] \in Seq(S)
        BY <1>4, <4>2
      <4> QED
        BY <4>1, <4>3
    <3> HIDE DEF step
    <3> QED
      BY <3>1, <3>2
  <2> QED
    BY <1>1, <1>4, <2>1
<1>6. F = D(F)
  <2> HIDE DEF D
  <2> QED
    BY <1>5
<1>7. Dedup(seq) = F[1..n]
  BY <1>1 DEF Dedup, FoldLeft, MapThenFoldSet, Squash, base
<1> HIDE DEF F
<1>8. ASSUME NEW s \in SUBSET (1..n)
      PROVE  F[s] = IF s = {} THEN base ELSE Squash(F[s \ {Max(s)}], seq[Max(s)])
  BY <1>1, <1>6
<1> DEFINE K == {k \in Nat : k <= n =>
                   /\ F[1..k] \in Seq(S)
                   /\ Range(F[1..k]) = {seq[i] : i \in 1..k}}
<1>9. 0 \in K
  <2>1. 1..0 = {} /\ {} \in SUBSET (1..n)
    OBVIOUS
  <2>2. F[{}] = <<>>
    BY <1>8, <2>1 DEF base
  <2>3. Range(<<>>) = {} /\ <<>> \in Seq(S)
    BY DEF Range
  <2> QED
    BY <2>1, <2>2, <2>3
<1>10. ASSUME NEW k \in Nat, k \in K PROVE k + 1 \in K
  <2> DEFINE s == 1..(k + 1)
             acc == F[1..k]
             x == seq[k + 1]
  <2>1. SUFFICES ASSUME k + 1 <= n
                 PROVE  F[s] \in Seq(S) /\ Range(F[s]) = {seq[i] : i \in s}
    OBVIOUS
  <2>2. acc \in Seq(S) /\ Range(acc) = {seq[i] : i \in 1..k}
    BY <1>1, <1>10, <2>1
  <2>3. s \in SUBSET (1..n) /\ s # {} /\ k + 1 \in s /\ (\A i \in s : i <= k + 1) /\ s \ {k + 1} = 1..k
    BY <1>1, <2>1
  <2>4. Max(s) = k + 1 /\ x \in S
    <3>1. k + 1 \in 1..n
      BY <2>3
    <3> HIDE DEF s
    <3> QED
      BY <1>1, <2>3, <3>1, MaxOfPrefix
  <2>5. F[s] = Squash(acc, x)
    <3>1. F[s] = Squash(F[s \ {Max(s)}], seq[Max(s)])
      <4> HIDE DEF s
      <4> QED
        BY <1>8, <2>3
    <3> HIDE DEF s
    <3> QED
      BY <2>3, <2>4, <3>1
  <2>6. {seq[i] : i \in s} = {seq[i] : i \in 1..k} \cup {x}
    <3> HIDE DEF s
    <3> QED
      BY <2>3
  <2>7. Range(Squash(acc, x)) = Range(acc) \cup {x}
    <3> HIDE DEF acc, x
    <3>1. CASE acc # <<>> /\ Last(acc) = x
      <4>1. Len(acc) \in DOMAIN acc /\ acc[Len(acc)] = x
        BY <2>2, <3>1 DEF Last
      <4>2. x \in Range(acc)
        BY <4>1 DEF Range
      <4> QED
        BY <3>1, <4>2 DEF Squash
    <3>2. CASE ~(acc # <<>> /\ Last(acc) = x)
      BY <2>2, <2>4, <3>2, RangeOfAppend DEF Squash
    <3> QED
      BY <3>1, <3>2
  <2>8. Squash(acc, x) \in Seq(S)
    <3> HIDE DEF acc, x
    <3> QED
      BY <1>2, <2>2, <2>4
  <2> HIDE DEF s, acc, x
  <2> QED
    BY <2>2, <2>5, <2>6, <2>7, <2>8
<1>11. n \in K
  <2> HIDE DEF K
  <2> QED
    BY <1>1, <1>9, <1>10, SetInduction
<1>12. F[1..n] \in Seq(S) /\ Range(F[1..n]) = {seq[i] : i \in 1..n}
  BY <1>1, <1>11
<1> QED
  BY <1>1, <1>7, <1>12 DEF Range

(* A schema, with the tables Validator::new makes for it. *)
Starts == schema \in Seq(Definition) /\ New

LEMMA InitStarts == Init => Starts
BY SchemasAssumption DEF Init, Starts

LEMMA TypedStart == Starts => Typed
<1> SUFFICES ASSUME Starts PROVE Typed
  OBVIOUS
<1>1. schema \in Seq(Definition)
  BY DEF Starts
<1>2. Len(schema) \in Nat
  BY <1>1
<1> QED
  BY <1>1, <1>2 DEF Starts, New, Typed, TypeOK, PackedFixed, Written, Uninit

LEMMA TypedStep == Typed /\ [Next]_vars => Typed'
<1> SUFFICES ASSUME Typed, [Next]_vars PROVE Typed'
  OBVIOUS
<1> USE DEF Active
<1>0. CASE UNCHANGED vars
  <2>1. Handles' = Handles /\ Frames' = Frames
    BY <1>0 DEF vars, Handles, Frames
  <2> QED
    BY <1>0, <2>1 DEF vars, Typed, TypeOK, PackedFixed, Written
<1>1. CASE EnterRoot
  <2>1. <<>> \in Seq(Frames) /\ root \in Handles /\ root' \in 1..(Len(schema) + 1)
    BY <1>1 DEF EnterRoot, AtRoot, NextRoot, Typed, TypeOK, Handles
  <2>2. referrers' \in [Handles -> Seq(Handles)] /\ rec_sequences' \in [Handles -> BOOLEAN]
    BY <1>1 DEF EnterRoot, AtRoot, Typed, TypeOK
  <2> DEFINE caller == <<>>
  <2>3. caller \in Seq(Frames) /\ Enter(caller, root) /\ result = "running"
    BY <1>1, <2>1 DEF EnterRoot, AtRoot
  <2>4. \A i \in DOMAIN caller :
          schema[caller[i].handle].kind = "packed" => caller[i].width # Variable
    OBVIOUS
  <2> HIDE DEF caller
  <2> QED
    BY <2>1, <2>2, <2>3, <2>4, EnterTyped
<1>2. CASE SkipSequence
  <2>1. root' \in 1..(Len(schema) + 1)
    BY <1>2 DEF SkipSequence, AtRoot, NextRoot, Typed, TypeOK, Handles
  <2>2. Handles' = Handles /\ Frames' = Frames
    BY <1>2 DEF SkipSequence, Handles, Frames
  <2>3. UNCHANGED <<schema, states, bit_width, referrers, rec_sequences, stack, result>>
    BY <1>2 DEF SkipSequence, tables
  <2> QED
    <3>1. TypeOK'
      BY <2>1, <2>2, <2>3 DEF Typed, TypeOK
    <3>2. PackedFixed' /\ Written'
      BY <2>2, <2>3 DEF Typed, PackedFixed, Written
    <3> QED
      BY <3>1, <3>2 DEF Typed
<1>3. CASE RejectIndex
  <2>1. IndexError(Def, Top.next) \in {"panic"} \cup Errors
    BY <1>3 DEF RejectIndex, IndexError, Errors
  <2> QED
    BY <1>3, <2>1, FailTyped DEF RejectIndex, AtMember
<1>4. CASE RejectHandle
  BY <1>4, FailTyped DEF RejectHandle, AtType, AtMember
<1>5. CASE EnterMember
  <2>1. stack \in Seq(Frames) /\ Ty.handle \in Handles
    BY <1>5 DEF EnterMember, Typed, TypeOK
  <2>2. referrers' \in [Handles -> Seq(Handles)] /\ rec_sequences' \in [Handles -> BOOLEAN]
        /\ root' \in 1..(Len(schema) + 1)
    BY <1>5 DEF EnterMember, AtType, AtMember, Typed, TypeOK
  <2> QED
    BY <1>5, <2>1, <2>2, EnterTyped DEF EnterMember, AtType, AtMember, Typed, PackedFixed
<1>6. CASE RejectRecursion
  BY <1>6, FailTyped DEF RejectRecursion, AtType, AtMember, Errors
<1>7. CASE RejectWidth
  <2>1. WidthError(Def, Top.next, Width) \in {"panic"} \cup Errors
    BY <1>7 DEF RejectWidth, WidthError, Errors
  <2> QED
    BY <1>7, <2>1, FailTyped DEF RejectWidth, AtType, AtMember
<1>8. CASE TakeMember
  <2> DEFINE width == Absorb(Def, Top.next, Top.width, Width)
  <2>1. stack # <<>> /\ result = "running" /\ Top.next \in DOMAIN Types
    BY <1>8 DEF TakeMember, AtType, AtMember
  <2>2. Def \in Definition /\ Top.next \in Nat /\ Top.width \in BitWidth /\ Ty \in Type
        /\ Top.handle \in Handles /\ (Def.kind = "packed" => Top.width # Variable)
    BY <2>1, TopTyped
  <2>3. Width \in BitWidth
    BY <1>8, <2>2, WidthTyped DEF TakeMember
  <2>4. Def.kind = "packed" => Width # Variable
    BY <1>8 DEF TakeMember, WidthError
  <2>5. width \in BitWidth /\ (Def.kind = "packed" => width # Variable)
    BY <2>2, <2>3, <2>4, AbsorbTyped
  <2>6. stack' = Advance(width)
    BY <1>8 DEF TakeMember
  <2> HIDE DEF width
  <2>7. /\ stack' \in Seq(Frames)
        /\ \A i \in DOMAIN stack' :
             schema[stack'[i].handle].kind = "packed" => stack'[i].width # Variable
    BY <2>1, <2>5, <2>6, AdvanceTyped DEF Typed, TypeOK
  <2>8. referrers' \in [Handles -> Seq(Handles)]
    BY <1>8, <2>1, <2>2, ReferrersTyped DEF TakeMember, WidthKnown
  <2>9. rec_sequences' \in [Handles -> BOOLEAN]
    BY <1>8 DEF TakeMember, Typed, TypeOK
  <2> QED
    BY <1>8, <2>1, <2>7, <2>8, <2>9, StackTyped DEF TakeMember
<1>9. CASE RejectStream
  BY <1>9, FailTyped DEF RejectStream, AtElement, Errors
<1>10. CASE RejectElement
  BY <1>10, FailTyped DEF RejectElement, AtElement
<1>11. CASE EnterElement
  <2>1. stack # <<>> /\ result = "running" /\ Top.next \in DOMAIN Types
        /\ IsSequence(Def) /\ Ty.handle \in Handles
    BY <1>11 DEF EnterElement, AtElement
  <2>2. Ty \in Type /\ Top.handle \in Handles
    BY <2>1, TopTyped
  <2>3. /\ Advance(Variable) \in Seq(Frames)
        /\ \A i \in DOMAIN Advance(Variable) :
             schema[Advance(Variable)[i].handle].kind = "packed" => Advance(Variable)[i].width # Variable
    BY <2>1, VariableIsWidth, AdvanceTyped DEF IsSequence, Typed, TypeOK
  <2>4. referrers' \in [Handles -> Seq(Handles)]
    BY <1>11, <2>1, <2>2, ReferrersTyped DEF EnterElement
  <2>5. rec_sequences' \in [Handles -> BOOLEAN] /\ root' \in 1..(Len(schema) + 1)
    BY <1>11 DEF EnterElement, Typed, TypeOK
  <2> QED
    BY <1>11, <2>1, <2>3, <2>4, <2>5, EnterTyped DEF EnterElement
<1>12. CASE EndChain
  <2>1. stack # <<>> /\ result = "running" /\ Top.next \in DOMAIN Types /\ IsSequence(Def)
    BY <1>12 DEF EndChain, AtElement
  <2>2. Ty \in Type /\ Top.handle \in Handles
    BY <2>1, TopTyped
  <2>3. /\ stack' \in Seq(Frames)
        /\ \A i \in DOMAIN stack' :
             schema[stack'[i].handle].kind = "packed" => stack'[i].width # Variable
    BY <1>12, <2>1, VariableIsWidth, AdvanceTyped DEF EndChain, IsSequence, Typed, TypeOK
  <2>4. referrers' \in [Handles -> Seq(Handles)]
    BY <1>12, <2>1, <2>2, ReferrersTyped DEF EndChain
  <2>5. rec_sequences' \in [Handles -> BOOLEAN]
    BY <1>12 DEF EndChain, ClearedFlags
  <2> QED
    BY <1>12, <2>1, <2>3, <2>4, <2>5, StackTyped DEF EndChain
<1>13. CASE RejectTotal
  BY <1>13, FailTyped DEF RejectTotal, AtEnd, Errors
<1>14. CASE Leave
  <2>1. stack # <<>> /\ result = "running"
    BY <1>14 DEF Leave, AtEnd
  <2>2. Def \in Definition /\ Top.width \in BitWidth /\ Top.handle \in Handles
    BY <2>1, TopTyped
  <2>3. FinalWidth(Def, Top.width) \in BitWidth
    BY <2>2, FinalTyped
  <2>4. FinalWidth(Def, Top.width) # Uninit
    BY <2>3 DEF BitWidth, Uninit, Variable
  <2>5. stack \in Seq(Frames) /\ stack' = SubSeq(stack, 1, Len(stack) - 1)
    BY <1>14 DEF Leave, Front, Typed, TypeOK
  <2>6. stack' \in Seq(Frames) /\ \A i \in DOMAIN stack' : i \in DOMAIN stack /\ stack'[i] = stack[i]
    BY <2>1, <2>5
  <2>7. schema' = schema /\ Handles' = Handles /\ Frames' = Frames
    BY <1>14 DEF Leave, Handles, Frames
  <2>8. TypeOK'
    BY <1>14, <2>3, <2>6, <2>7 DEF Leave, Typed, TypeOK
  <2>9. Written'
    BY <1>14, <2>4, <2>7 DEF Leave, Typed, TypeOK, Written
  <2>10. PackedFixed'
    BY <2>6, <2>7 DEF Typed, PackedFixed
  <2> QED
    BY <2>8, <2>9, <2>10 DEF Typed
<1>15. CASE RejectUnused
  BY <1>15, FailTyped DEF RejectUnused, AtFinish, Errors
<1>16. CASE Finish
  <2>1. UNCHANGED <<schema, states, bit_width, rec_sequences, stack, root>>
        /\ result' = "ok" /\ referrers' = [h \in Handles |-> Dedup(referrers[h])]
    BY <1>16 DEF Finish
  <2>2. Handles' = Handles /\ Frames' = Frames
    BY <2>1 DEF Handles, Frames
  <2>3. referrers' \in [Handles -> Seq(Handles)]
    <3>1. \A h \in Handles : referrers[h] \in Seq(Handles)
      BY DEF Typed, TypeOK
    <3>2. \A h \in Handles : Dedup(referrers[h]) \in Seq(Handles)
      BY <3>1, DedupKeeps
    <3> QED
      BY <2>1, <3>2
  <2> QED
    BY <2>1, <2>2, <2>3 DEF Typed, TypeOK, PackedFixed, Written
<1> QED
  BY <1>0, <1>1, <1>2, <1>3, <1>4, <1>5, <1>6, <1>7, <1>8, <1>9, <1>10, <1>11, <1>12, <1>13,
     <1>14, <1>15, <1>16 DEF Next

(* Typing: the tables keep a slot per definition, whatever the schema. *)
THEOREM TypeCorrect == Spec => []TypeOK
<1>1. Typed => TypeOK
  BY DEF Typed
<1> QED
  BY <1>1, InitStarts, TypedStart, TypedStep, PTL DEF Spec
-----------------------------------------------------------------------------
(***************************************************************************)
(* Why the recursion is bounded: every definition on the stack is marked   *)
(* as visited, and a visited one is entered again only as an element.  The *)
(* sequences of the stack are its topmost frames, and until their chain    *)
(* ends each of them below the top is flagged, so that a sequence entered  *)
(* twice finds its flag and fails before it looks at its element.          *)
(***************************************************************************)
Marked == \A i \in DOMAIN stack : states[stack[i].handle] = "visited"

SequencesOnTop ==
  \A i, j \in DOMAIN stack : i < j /\ IsSequence(schema[stack[i].handle]) =>
    stack[i].next = 2 /\ IsSequence(schema[stack[j].handle])

Flagged ==
  \A i \in DOMAIN stack :
    i < Len(stack) /\ IsSequence(schema[stack[i].handle]) /\ Top.next = 1 =>
      rec_sequences[stack[i].handle]

Repeated ==
  \A i \in DOMAIN stack : i < Len(stack) /\ stack[i].handle = Top.handle =>
    IsSequence(Def) /\ Top.next = 1 /\ rec_sequences[Top.handle]

Bounded == Marked /\ SequencesOnTop /\ Flagged /\ Repeated /\ NoReentry

(* A sequence has one element, so a frame of one is before or after it. *)
LEMMA SequenceFrame ==
  ASSUME Typed, stack # <<>>, IsSequence(Def)
  PROVE  Len(Types) = 1 /\ DOMAIN Types = {1}
<1>1. Len(Types) = 1 /\ Types \in Seq(Type)
  BY TopTyped, TypesOfDefinition DEF Types
<1> QED
  BY <1>1

(* The frame on top is not that of a definition below, unless it fails. *)
LEMMA TopIsFresh ==
  ASSUME Typed, Bounded, stack # <<>>,
         \/ ~IsSequence(Def)
         \/ Top.next \notin DOMAIN Types
         \/ ~rec_sequences[Top.handle]
  PROVE  \A i \in DOMAIN stack : i < Len(stack) => stack[i].handle # Top.handle
BY SequenceFrame DEF Bounded, Repeated

(* All frames of a stack whose top is fresh are those of distinct definitions. *)
LEMMA AllDistinct ==
  ASSUME Typed, Bounded, stack # <<>>,
         \A i \in DOMAIN stack : i < Len(stack) => stack[i].handle # Top.handle
  PROVE  \A i, j \in DOMAIN stack : stack[i].handle = stack[j].handle => i = j
<1>1. stack \in Seq(Frames) /\ Len(stack) \in Nat /\ DOMAIN stack = 1..Len(stack)
  BY DEF Typed, TypeOK
<1>2. \A i, j \in 1..(Len(stack) - 1) : stack[i].handle = stack[j].handle => i = j
  BY DEF Bounded, NoReentry
<1> QED
  BY <1>1, <1>2 DEF Top

(* What an entered definition finds on the stack below its own frame. *)
LEMMA EnterBounded ==
  ASSUME Typed, NEW caller \in Seq(Frames), NEW h \in Handles, Enter(caller, h),
         \A i \in DOMAIN caller : states[caller[i].handle] = "visited",
         \A i, j \in DOMAIN caller : caller[i].handle = caller[j].handle => i = j,
         \A i, j \in DOMAIN caller : i < j /\ IsSequence(schema[caller[i].handle]) =>
           IsSequence(schema[caller[j].handle]),
         \A i \in DOMAIN caller : IsSequence(schema[caller[i].handle]) =>
           caller[i].next = 2 /\ rec_sequences'[caller[i].handle] /\ IsSequence(schema[h]),
         \A i \in DOMAIN caller : caller[i].handle = h => IsSequence(schema[h])
  PROVE  Bounded'
<1> DEFINE n == Len(caller)
<1>1. schema[h] \in Definition /\ schema' = schema
  <2>1. schema[h] \in Definition
    BY DEF Typed, TypeOK, Handles
  <2> QED
    BY <2>1 DEF Enter
<1>2. Frame(h) \in Frames /\ Frame(h).handle = h /\ Frame(h).next = 1
  <2>1. Len(TypesOf(schema[h])) \in Nat
    BY <1>1, TypesOfDefinition
  <2> QED
    BY <1>1, <2>1, StartsTyped DEF Frame, Frames
<1> HIDE DEF n
<1>3. /\ n \in Nat /\ DOMAIN caller = 1..n
      /\ Len(stack') = n + 1 /\ DOMAIN stack' = 1..(n + 1)
      /\ stack'[n + 1] = Frame(h)
      /\ \A i \in 1..n : stack'[i] = caller[i]
  BY <1>2 DEF Enter, n
<1>4. /\ stack'[n + 1].handle = h /\ stack'[n + 1].next = 1
      /\ Top'.handle = h /\ Top'.next = 1
      /\ Def' = schema[h]
  BY <1>1, <1>2, <1>3 DEF Top, Def
<1>5. states' = [states EXCEPT ![h] = "visited"] /\ states \in [Handles -> {"unvisited", "visited", "validated"}]
  BY DEF Enter, Typed, TypeOK
<1>6. \A i \in 1..n : caller[i].handle \in Handles
  BY <1>3 DEF Frames
<1>7. Marked'
  BY <1>3, <1>4, <1>5, <1>6 DEF Marked
<1>8. SequencesOnTop'
  BY <1>1, <1>3, <1>4 DEF SequencesOnTop
<1>9. Flagged'
  BY <1>1, <1>3 DEF Flagged
<1>10. Repeated'
  BY <1>1, <1>3, <1>4 DEF Repeated
<1>11. NoReentry'
  BY <1>3 DEF NoReentry
<1> QED
  BY <1>7, <1>8, <1>9, <1>10, <1>11 DEF Bounded

LEMMA BoundedStart == Starts => Bounded
BY DEF Starts, New, Bounded, Marked, SequencesOnTop, Flagged, Repeated, NoReentry

LEMMA BoundedStep == Typed /\ Bounded /\ [Next]_vars => Bounded'
<1> SUFFICES ASSUME Typed, Bounded, [Next]_vars PROVE Bounded'
  OBVIOUS
<1>0. ASSUME UNCHANGED <<schema, states, rec_sequences, stack>> PROVE Bounded'
  BY <1>0 DEF Bounded, Marked, SequencesOnTop, Flagged, Repeated, NoReentry, Top, Def
<1>1. CASE UNCHANGED vars
  BY <1>0, <1>1 DEF vars
<1>2. CASE EnterRoot
  <2> DEFINE caller == <<>>
  <2>1. caller \in Seq(Frames) /\ DOMAIN caller = {} /\ Enter(caller, root) /\ root \in Handles
    BY <1>2 DEF EnterRoot, AtRoot
  <2> HIDE DEF caller
  <2> QED
    BY <2>1, EnterBounded
<1>3. CASE SkipSequence
  BY <1>0, <1>3 DEF SkipSequence, tables
<1>4. ASSUME NEW error, Fail(error) PROVE Bounded'
  BY <1>0, <1>4 DEF Fail, tables
<1>5. CASE EnterMember
  <2>1. stack # <<>> /\ ~IsSequence(Def) /\ Ty.handle \in Handles
        /\ states[Ty.handle] = "unvisited" /\ Enter(stack, Ty.handle)
    BY <1>5 DEF EnterMember, AtType, AtMember, Active, Status
  <2>2. stack \in Seq(Frames) /\ DOMAIN stack = 1..Len(stack) /\ Len(stack) \in Nat \ {0}
    BY <2>1 DEF Typed, TypeOK
  <2>3. \A i, j \in DOMAIN stack : stack[i].handle = stack[j].handle => i = j
    BY <2>1, TopIsFresh, AllDistinct
  <2>4. \A i \in DOMAIN stack : ~IsSequence(schema[stack[i].handle])
    BY <2>1, <2>2 DEF Bounded, SequencesOnTop, Top, Def
  <2>5. \A i \in DOMAIN stack : states[stack[i].handle] = "visited"
    BY DEF Bounded, Marked
  <2> QED
    BY <2>1, <2>2, <2>3, <2>4, <2>5, EnterBounded
<1>6. CASE TakeMember
  <2>1. stack # <<>> /\ ~IsSequence(Def) /\ Top.next \in DOMAIN Types
    BY <1>6 DEF TakeMember, AtType, AtMember, Active
  <2>2. PICK width : stack' = Advance(width)
    BY <1>6 DEF TakeMember
  <2>3. stack \in Seq(Frames) /\ DOMAIN stack = 1..Len(stack) /\ Len(stack) \in Nat \ {0}
    BY <2>1 DEF Typed, TypeOK
  <2>4. /\ Len(stack') = Len(stack) /\ DOMAIN stack' = DOMAIN stack
        /\ \A i \in DOMAIN stack : stack'[i].handle = stack[i].handle
        /\ Top'.handle = Top.handle
    BY <2>2, <2>3 DEF Advance, Top
  <2>5. \A i \in DOMAIN stack : ~IsSequence(schema[stack[i].handle])
    BY <2>1, <2>3 DEF Bounded, SequencesOnTop, Top, Def
  <2>6. \A i, j \in DOMAIN stack : stack[i].handle = stack[j].handle => i = j
    BY <2>1, TopIsFresh, AllDistinct
  <2>7. schema' = schema /\ states' = states
    BY <1>6 DEF TakeMember
  <2>8. Marked'
    BY <2>4, <2>7 DEF Bounded, Marked
  <2>9. SequencesOnTop' /\ Flagged'
    BY <2>4, <2>5, <2>7 DEF SequencesOnTop, Flagged
  <2>10. NoReentry'
    BY <2>3, <2>4, <2>6 DEF NoReentry
  <2>11. Repeated'
    BY <2>3, <2>4, <2>6 DEF Repeated, Top
  <2> QED
    BY <2>8, <2>9, <2>10, <2>11 DEF Bounded
<1>7. CASE EnterElement
  <2> DEFINE caller == Advance(Variable)
  <2>1. stack # <<>> /\ IsSequence(Def) /\ Top.next \in DOMAIN Types /\ ~rec_sequences[Top.handle]
        /\ Ty.handle \in Handles /\ IsSequence(schema[Ty.handle]) /\ Enter(caller, Ty.handle)
        /\ rec_sequences' = [rec_sequences EXCEPT ![Top.handle] = TRUE]
    BY <1>7 DEF EnterElement, AtElement, Active
  <2>2. stack \in Seq(Frames) /\ DOMAIN stack = 1..Len(stack) /\ Len(stack) \in Nat \ {0}
        /\ rec_sequences \in [Handles -> BOOLEAN]
        /\ \A i \in DOMAIN stack : stack[i].handle \in Handles
    <3>1. stack \in Seq(Frames) /\ rec_sequences \in [Handles -> BOOLEAN]
      BY DEF Typed, TypeOK
    <3>2. \A i \in DOMAIN stack : stack[i] \in Frames
      BY <3>1
    <3>3. \A i \in DOMAIN stack : stack[i].handle \in Handles
      BY <3>2 DEF Frames
    <3>4. DOMAIN stack = 1..Len(stack) /\ Len(stack) \in Nat \ {0}
      BY <2>1, <3>1
    <3> QED
      BY <3>1, <3>3, <3>4
  <2>3. Top.next = 1
    BY <2>1, SequenceFrame
  <2>4. /\ caller \in Seq(Frames) /\ DOMAIN caller = DOMAIN stack
        /\ \A i \in DOMAIN stack :
             /\ caller[i].handle = stack[i].handle
             /\ caller[i].next = IF i = Len(stack) THEN 2 ELSE stack[i].next
    BY <2>1, <2>3, VariableIsWidth, AdvanceTyped DEF IsSequence
  <2>5. \A i, j \in DOMAIN stack : stack[i].handle = stack[j].handle => i = j
    BY <2>1, TopIsFresh, AllDistinct
  <2>6. \A i \in DOMAIN stack : IsSequence(schema[stack[i].handle]) =>
          /\ i < Len(stack) => stack[i].next = 2 /\ rec_sequences[stack[i].handle]
          /\ \A j \in DOMAIN stack : i < j => IsSequence(schema[stack[j].handle])
    BY <2>2, <2>3 DEF Bounded, SequencesOnTop, Flagged
  <2>7. \A i \in DOMAIN stack : states[stack[i].handle] = "visited"
    BY DEF Bounded, Marked
  <2> HIDE DEF caller
  <2>8. \A i \in DOMAIN caller : IsSequence(schema[caller[i].handle]) =>
          caller[i].next = 2 /\ rec_sequences'[caller[i].handle]
    BY <2>1, <2>2, <2>4, <2>6 DEF Top
  <2>9. \A i, j \in DOMAIN caller :
          /\ caller[i].handle = caller[j].handle => i = j
          /\ i < j /\ IsSequence(schema[caller[i].handle]) => IsSequence(schema[caller[j].handle])
    BY <2>4, <2>5, <2>6
  <2>10. \A i \in DOMAIN caller : states[caller[i].handle] = "visited"
    BY <2>4, <2>7
  <2> DEFINE h == Ty.handle
  <2>11. h \in Handles /\ IsSequence(schema[h]) /\ Enter(caller, h)
    BY <2>1
  <2> HIDE DEF h
  <2> QED
    BY <2>4, <2>8, <2>9, <2>10, <2>11, EnterBounded
<1>8. CASE EndChain
  <2>1. stack # <<>> /\ IsSequence(Def) /\ Top.next \in DOMAIN Types /\ ~rec_sequences[Top.handle]
        /\ stack' = Advance(Variable) /\ schema' = schema /\ states' = states
    BY <1>8 DEF EndChain, AtElement, Active
  <2>2. stack \in Seq(Frames) /\ DOMAIN stack = 1..Len(stack) /\ Len(stack) \in Nat \ {0}
    BY <2>1 DEF Typed, TypeOK
  <2>3. Top.next = 1
    BY <2>1, SequenceFrame
  <2>4. /\ Len(stack') = Len(stack) /\ DOMAIN stack' = DOMAIN stack
        /\ \A i \in DOMAIN stack :
             /\ stack'[i].handle = stack[i].handle
             /\ stack'[i].next = IF i = Len(stack) THEN 2 ELSE stack[i].next
    BY <2>1, <2>3, VariableIsWidth, AdvanceTyped DEF IsSequence
  <2>5. \A i, j \in DOMAIN stack : stack[i].handle = stack[j].handle => i = j
    BY <2>1, TopIsFresh, AllDistinct
  <2>6. Top'.next = 2
    BY <2>2, <2>4 DEF Top
  <2>7. /\ Marked'
        /\ SequencesOnTop'
        /\ NoReentry'
    <3>1. Marked'
      BY <2>1, <2>4 DEF Bounded, Marked
    <3>2. SequencesOnTop'
      BY <2>1, <2>2, <2>4 DEF Bounded, SequencesOnTop
    <3>3. NoReentry'
      BY <2>2, <2>4, <2>5 DEF NoReentry
    <3> QED
      BY <3>1, <3>2, <3>3
  <2>8. Flagged'
    BY <2>6 DEF Flagged
  <2>9. Repeated'
    BY <2>2, <2>4, <2>5 DEF Repeated, Top
  <2> QED
    BY <2>7, <2>8, <2>9 DEF Bounded
<1>9. CASE Leave
  <2> DEFINE n == Len(stack) - 1
  <2>1. stack # <<>> /\ Top.next \notin DOMAIN Types /\ schema' = schema
        /\ stack' = SubSeq(stack, 1, n)
        /\ states' = [states EXCEPT ![Top.handle] = "validated"]
    BY <1>9 DEF Leave, AtEnd, Active, Front
  <2>2. stack \in Seq(Frames) /\ DOMAIN stack = 1..Len(stack) /\ n \in Nat /\ Len(stack) = n + 1
        /\ states \in [Handles -> {"unvisited", "visited", "validated"}]
        /\ \A i \in DOMAIN stack : stack[i].handle \in Handles
    BY <2>1 DEF Typed, TypeOK, Frames
  <2> HIDE DEF n
  <2>3. Len(stack') = n /\ DOMAIN stack' = 1..n /\ \A i \in 1..n : stack'[i] = stack[i]
    BY <2>1, <2>2
  <2>4. \A i \in DOMAIN stack : i < Len(stack) => stack[i].handle # Top.handle
    BY <2>1, TopIsFresh
  <2>5. \A i, j \in DOMAIN stack : stack[i].handle = stack[j].handle => i = j
    BY <2>1, <2>4, AllDistinct
  <2>6. Marked'
    BY <2>1, <2>2, <2>3, <2>4 DEF Bounded, Marked
  <2>7. SequencesOnTop'
    BY <2>1, <2>2, <2>3 DEF Bounded, SequencesOnTop
  <2>8. NoReentry'
    BY <2>2, <2>3, <2>5 DEF NoReentry
  <2>9. Flagged'
    BY <2>1, <2>2, <2>3 DEF Bounded, SequencesOnTop, Flagged, Top
  <2>10. Repeated'
    BY <2>2, <2>3, <2>5 DEF Repeated, Top
  <2> QED
    BY <2>6, <2>7, <2>8, <2>9, <2>10 DEF Bounded
<1>10. CASE Finish
  BY <1>0, <1>10 DEF Finish
<1>11. CASE RejectIndex \/ RejectHandle \/ RejectRecursion \/ RejectWidth
  BY <1>4, <1>11 DEF RejectIndex, RejectHandle, RejectRecursion, RejectWidth
<1>12. CASE RejectStream \/ RejectElement \/ RejectTotal \/ RejectUnused
  BY <1>4, <1>12 DEF RejectStream, RejectElement, RejectTotal, RejectUnused
<1> QED
  BY <1>1, <1>2, <1>3, <1>5, <1>6, <1>7, <1>8, <1>9, <1>10, <1>11, <1>12 DEF Next

(* The depth of the recursion is at most the number of definitions, and    *)
(* one, for every schema: validate cannot overflow the stack on a schema   *)
(* that contains itself.                                                   *)
THEOREM RecursionBounded == Spec => []NoReentry
<1>1. Bounded => NoReentry
  BY DEF Bounded
<1> QED
  BY <1>1, InitStarts, TypedStart, TypedStep, BoundedStart, BoundedStep, PTL DEF Spec
-----------------------------------------------------------------------------
(***************************************************************************)
(* Why assume_init is sound: a definition that is visited and not yet      *)
(* validated has a frame on the stack, so with the stack empty a loop that *)
(* finds none unvisited has found all of them validated.                   *)
(***************************************************************************)
Accounted ==
  /\ \A h \in Handles : states[h] = "visited" => \E i \in DOMAIN stack : stack[i].handle = h
  /\ result = "ok" => \A h \in Handles : states[h] = "validated"

(* The frames below the top keep their definitions. *)
LEMMA AdvanceKeepsHandles ==
  ASSUME Typed, stack # <<>>, NEW width
  PROVE  /\ DOMAIN Advance(width) = DOMAIN stack
         /\ \A i \in DOMAIN stack : Advance(width)[i].handle = stack[i].handle
BY TopTyped DEF Typed, TypeOK, Advance, Top

LEMMA EnterAccounted ==
  ASSUME Typed, Accounted, result = "running", NEW h \in Handles, NEW caller, Enter(caller, h),
         caller \in Seq(Frames), DOMAIN caller = DOMAIN stack,
         \A i \in DOMAIN stack : caller[i].handle = stack[i].handle
  PROVE  Accounted'
<1>1. states' = [states EXCEPT ![h] = "visited"] /\ schema' = schema /\ result' = "running"
      /\ stack' = Append(caller, Frame(h))
  BY DEF Enter
<1>2. states \in [Handles -> {"unvisited", "visited", "validated"}] /\ Handles' = Handles
  BY <1>1 DEF Typed, TypeOK, Handles
<1>3. Frame(h).handle = h
  BY DEF Frame
<1>4. /\ DOMAIN stack' = 1..(Len(caller) + 1) /\ Len(caller) \in Nat /\ DOMAIN caller = 1..Len(caller)
      /\ stack'[Len(caller) + 1] = Frame(h)
      /\ \A i \in DOMAIN caller : stack'[i] = caller[i]
  BY <1>1
<1>5. ASSUME NEW g \in Handles, states'[g] = "visited"
      PROVE  \E i \in DOMAIN stack' : stack'[i].handle = g
  <2>1. CASE g = h
    BY <1>3, <1>4, <2>1
  <2>2. CASE g # h
    <3>1. PICK i \in DOMAIN stack : stack[i].handle = g
      BY <1>1, <1>2, <1>5, <2>2 DEF Accounted
    <3> QED
      BY <1>4, <3>1
  <2> QED
    BY <2>1, <2>2
<1> QED
  BY <1>1, <1>2, <1>5 DEF Accounted

LEMMA AccountedStart == Starts => Accounted
BY DEF Starts, New, Accounted

LEMMA AccountedStep == Typed /\ Accounted /\ [Next]_vars => Accounted'
<1> SUFFICES ASSUME Typed, Accounted, [Next]_vars PROVE Accounted'
  OBVIOUS
<1>0. ASSUME UNCHANGED <<schema, states, stack>>, result' # "ok" \/ result' = result
      PROVE  Accounted'
  BY <1>0 DEF Accounted, Handles
<1>1. CASE UNCHANGED vars
  BY <1>0, <1>1 DEF vars
<1>2. CASE EnterRoot
  <2> DEFINE caller == <<>>
  <2>1. caller \in Seq(Frames) /\ DOMAIN caller = {} /\ Enter(caller, root) /\ root \in Handles
        /\ stack = <<>> /\ result = "running"
    BY <1>2 DEF EnterRoot, AtRoot
  <2>2. DOMAIN caller = DOMAIN stack
    BY <2>1
  <2> HIDE DEF caller
  <2> QED
    BY <2>1, <2>2, EnterAccounted
<1>3. CASE SkipSequence
  BY <1>0, <1>3 DEF SkipSequence, tables
<1>4. ASSUME NEW error \in {"panic"} \cup Errors, Fail(error) PROVE Accounted'
  BY <1>0, <1>4 DEF Fail, tables, Errors
<1>5. CASE EnterMember
  <2>1. result = "running" /\ Ty.handle \in Handles /\ Enter(stack, Ty.handle) /\ stack \in Seq(Frames)
    BY <1>5 DEF EnterMember, AtType, AtMember, Active, Typed, TypeOK
  <2> QED
    BY <2>1, EnterAccounted
<1>6. CASE TakeMember
  <2>1. stack # <<>> /\ UNCHANGED <<schema, states, result>>
    BY <1>6 DEF TakeMember, AtType, AtMember, Active
  <2>2. PICK width : stack' = Advance(width)
    BY <1>6 DEF TakeMember
  <2> QED
    BY <2>1, <2>2, AdvanceKeepsHandles DEF Accounted, Handles
<1>7. CASE EnterElement
  <2> DEFINE caller == Advance(Variable)
  <2>1. stack # <<>> /\ result = "running" /\ Ty.handle \in Handles /\ Enter(caller, Ty.handle)
        /\ Top.next \in DOMAIN Types /\ IsSequence(Def)
    BY <1>7 DEF EnterElement, AtElement, Active
  <2>2. caller \in Seq(Frames)
    BY <2>1, VariableIsWidth, AdvanceTyped DEF IsSequence
  <2>3. DOMAIN caller = DOMAIN stack /\ \A i \in DOMAIN stack : caller[i].handle = stack[i].handle
    BY <2>1, AdvanceKeepsHandles
  <2> HIDE DEF caller
  <2> QED
    BY <2>1, <2>2, <2>3, EnterAccounted
<1>8. CASE EndChain
  <2>1. stack # <<>> /\ UNCHANGED <<schema, states, result>> /\ stack' = Advance(Variable)
    BY <1>8 DEF EndChain, AtElement, Active
  <2> QED
    BY <2>1, AdvanceKeepsHandles DEF Accounted, Handles
<1>9. CASE Leave
  <2>1. /\ stack # <<>> /\ result = "running"
        /\ UNCHANGED <<schema, result>> /\ stack' = SubSeq(stack, 1, Len(stack) - 1)
        /\ states' = [states EXCEPT ![Top.handle] = "validated"]
    BY <1>9 DEF Leave, AtEnd, Active, Front
  <2>2. stack \in Seq(Frames) /\ states \in [Handles -> {"unvisited", "visited", "validated"}]
        /\ Handles' = Handles
    BY <2>1 DEF Typed, TypeOK, Handles
  <2>3. DOMAIN stack' = 1..(Len(stack) - 1) /\ \A i \in DOMAIN stack' : stack'[i] = stack[i]
    BY <2>1, <2>2
  <2>4. ASSUME NEW h \in Handles, states'[h] = "visited"
        PROVE  \E i \in DOMAIN stack' : stack'[i].handle = h
    <3>1. states[h] = "visited" /\ h # Top.handle
      BY <2>1, <2>2, <2>4
    <3>2. PICK i \in DOMAIN stack : stack[i].handle = h
      BY <3>1 DEF Accounted
    <3>3. i # Len(stack)
      BY <3>1, <3>2 DEF Top
    <3> QED
      BY <2>2, <2>3, <3>2, <3>3
  <2> QED
    BY <2>1, <2>2, <2>4 DEF Accounted
<1>10. CASE Finish
  <2>1. /\ stack = <<>> /\ UNCHANGED <<schema, states, stack>>
        /\ \A h \in Handles : states[h] # "unvisited"
    BY <1>10 DEF Finish, AtFinish, Unused
  <2>2. \A h \in Handles : states[h] = "validated"
    BY <2>1 DEF Accounted, Typed, TypeOK
  <2> QED
    BY <2>1, <2>2 DEF Accounted, Handles
<1>11. CASE RejectIndex
  <2>1. IndexError(Def, Top.next) \in {"panic"} \cup Errors
    BY <1>11 DEF RejectIndex, IndexError, Errors
  <2> QED
    BY <1>4, <1>11, <2>1 DEF RejectIndex
<1>12. CASE RejectWidth
  <2>1. WidthError(Def, Top.next, Width) \in {"panic"} \cup Errors
    BY <1>12 DEF RejectWidth, WidthError, Errors
  <2> QED
    BY <1>4, <1>12, <2>1 DEF RejectWidth
<1>13. CASE RejectHandle \/ RejectRecursion
  BY <1>4, <1>13 DEF RejectHandle, RejectRecursion, Errors
<1>14. CASE RejectStream \/ RejectElement \/ RejectTotal \/ RejectUnused
  BY <1>4, <1>14 DEF RejectStream, RejectElement, RejectTotal, RejectUnused, Errors
<1> QED
  BY <1>1, <1>2, <1>3, <1>5, <1>6, <1>7, <1>8, <1>9, <1>10, <1>11, <1>12, <1>13, <1>14 DEF Next

(* No slot of bit_width is taken for initialised that nobody has written,  *)
(* whatever the schema: the two uses of assume_init are sound.             *)
THEOREM InitialisedBeforeUse == Spec => []AssumeInitSound
<1>1. Typed /\ Accounted => AssumeInitSound
  BY DEF Typed, Written, Accounted, AssumeInitSound
<1> QED
  BY <1>1, InitStarts, TypedStart, TypedStep, AccountedStart, AccountedStep, PTL DEF Spec
-----------------------------------------------------------------------------
(***************************************************************************)
(* The width that the first n members of a definition add up to, given the *)
(* widths w of the definitions they mention.                               *)
(***************************************************************************)
MemberWidth(def, k, w) == WidthOfType(TypesOf(def)[k], w)

PartialWidth(def, n, w) ==
  CASE def.kind = "primitive" -> Fixed(def.bits)
    [] def.kind = "packed" -> Fixed(TotalBits([k \in 1..n |-> MemberWidth(def, k, w)]))
    [] def.kind = "enum" ->
         IF n = 0 THEN Fixed(0)
         ELSE IF \A k \in 1..n : MemberWidth(def, k, w) = MemberWidth(def, 1, w)
         THEN MemberWidth(def, 1, w) ELSE Variable
    [] def.kind = "dict" ->
         IF \A k \in 1..n : MemberWidth(def, k, w) = Fixed(0)
         THEN Fixed(8 * def.index_ty) ELSE Variable
    [] OTHER -> Variable

(* It starts from what a new frame starts from, *)
LEMMA PartialStart ==
  ASSUME NEW def \in Definition, NEW w
  PROVE  PartialWidth(def, 0, w) = StartWidth(def)
<1>1. TotalBits([k \in 1..0 |-> MemberWidth(def, k, w)]) = 0
  <2> DEFINE b == [k \in 1..0 |-> MemberWidth(def, k, w)]
  <2>1. b \in [1..0 -> FixedWidths]
    OBVIOUS
  <2> HIDE DEF b
  <2>2. TotalBits(b) = 0
    BY <2>1, TotalOfNone
  <2> QED
    BY <2>2 DEF b
<1>2. \A k \in 1..0 : MemberWidth(def, k, w) = Fixed(0)
  OBVIOUS
<1> QED
  BY <1>1, <1>2, KindOfDefinition DEF PartialWidth, StartWidth

(* grows by what the code absorbs of a member, *)
LEMMA PartialAbsorbs ==
  ASSUME NEW def \in Definition, NEW w, NEW n \in Nat, n + 1 \in DOMAIN TypesOf(def),
         def.kind = "packed" => \A k \in 1..(n + 1) : MemberWidth(def, k, w) \in FixedWidths
  PROVE  PartialWidth(def, n + 1, w)
           = Absorb(def, n + 1, PartialWidth(def, n, w), MemberWidth(def, n + 1, w))
<1> DEFINE m(k) == MemberWidth(def, k, w)
<1>1. CASE def.kind = "packed"
  <2> DEFINE b == [k \in 1..(n + 1) |-> m(k)]
             c == [k \in 1..n |-> m(k)]
  <2>1. b \in [1..(n + 1) -> FixedWidths] /\ c \in [1..n -> FixedWidths]
        /\ (\A k \in 1..n : c[k] = b[k]) /\ b[n + 1] = m(n + 1)
    BY <1>1
  <2> HIDE DEF b, c, m
  <2>2. TotalBits(b) = TotalBits(c) + m(n + 1).bits
    BY <2>1, TotalGrows
  <2>3. PartialWidth(def, n + 1, w) = Fixed(TotalBits(b))
        /\ PartialWidth(def, n, w) = Fixed(TotalBits(c))
    BY <1>1 DEF PartialWidth, b, c, m
  <2>4. Absorb(def, n + 1, Fixed(TotalBits(c)), m(n + 1)) = Fixed(TotalBits(c) + m(n + 1).bits)
    BY <1>1 DEF Absorb, Fixed
  <2> QED
    BY <2>2, <2>3, <2>4 DEF m
<1>2. CASE def.kind = "enum"
  <2> HIDE DEF m
  <2>1. PartialWidth(def, n + 1, w)
          = IF \A k \in 1..(n + 1) : m(k) = m(1) THEN m(1) ELSE Variable
    BY <1>2 DEF PartialWidth, m
  <2>2. PartialWidth(def, n, w)
          = IF n = 0 THEN Fixed(0) ELSE IF \A k \in 1..n : m(k) = m(1) THEN m(1) ELSE Variable
    BY <1>2 DEF PartialWidth, m
  <2>3. Absorb(def, n + 1, PartialWidth(def, n, w), m(n + 1))
          = IF n = 0 \/ m(n + 1) = PartialWidth(def, n, w) THEN m(n + 1) ELSE Variable
    BY <1>2 DEF Absorb
  <2>4. CASE n = 0
    BY <2>1, <2>3, <2>4 DEF m
  <2>5. CASE n # 0 /\ \A k \in 1..n : m(k) = m(1)
    BY <2>1, <2>2, <2>3, <2>5 DEF m
  <2>6. CASE n # 0 /\ ~\A k \in 1..n : m(k) = m(1)
    BY <2>1, <2>2, <2>3, <2>6 DEF m
  <2> QED
    BY <2>4, <2>5, <2>6
<1>3. CASE def.kind = "dict"
  <2> HIDE DEF m
  <2>1. PartialWidth(def, n + 1, w)
          = IF \A k \in 1..(n + 1) : m(k) = Fixed(0) THEN Fixed(8 * def.index_ty) ELSE Variable
    BY <1>3 DEF PartialWidth, m
  <2>2. PartialWidth(def, n, w)
          = IF \A k \in 1..n : m(k) = Fixed(0) THEN Fixed(8 * def.index_ty) ELSE Variable
    BY <1>3 DEF PartialWidth, m
  <2>3. Absorb(def, n + 1, PartialWidth(def, n, w), m(n + 1))
          = IF m(n + 1) = Fixed(0) THEN PartialWidth(def, n, w) ELSE Variable
    BY <1>3 DEF Absorb
  <2> QED
    BY <2>1, <2>2, <2>3 DEF m
<1>4. CASE def.kind \in {"vector", "stream", "struct"}
  BY <1>4 DEF PartialWidth, Absorb
<1>5. CASE def.kind \in {"primitive", "extern"}
  BY <1>5 DEF TypesOf, IsSequence
<1> QED
  BY <1>1, <1>2, <1>3, <1>4, <1>5, KindOfDefinition

(* ends in what the rules say of the whole definition, *)
LEMMA PartialFinal ==
  ASSUME NEW def \in Definition, NEW w, NEW n \in Nat, DOMAIN TypesOf(def) = 1..n,
         def.kind = "enum" => \A k \in 1..n : MemberWidth(def, k, w) \in BitWidth
  PROVE  FinalWidth(def, PartialWidth(def, n, w)) = WidthByRule(def, w)
<1> DEFINE m(k) == MemberWidth(def, k, w)
           widths == WidthsOfTypes(def, w)
<1>1. widths = {m(k) : k \in 1..n}
  BY DEF WidthsOfTypes, MemberWidth
<1>2. CASE def.kind = "packed"
  BY <1>2 DEF PartialWidth, FinalWidth, WidthByRule, MemberWidth
<1>3. CASE def.kind = "enum" /\ n = 0
  <2>1. widths = {} /\ def.members = <<>>
    <3>1. def.members \in Seq(IndexedMember)
      BY <1>3, KindOfDefinition
    <3>2. DOMAIN def.members = {} /\ 1..n = {}
      BY <1>3 DEF TypesOf, IsSequence
    <3>3. def.members = <<>>
      <4>1. \A s \in Seq(IndexedMember) : s # <<>> => 1 \in DOMAIN s
        OBVIOUS
      <4> QED
        BY <3>1, <3>2, <4>1
    <3> QED
      BY <1>1, <3>2, <3>3
  <2> QED
    BY <1>3, <2>1 DEF PartialWidth, FinalWidth, WidthByRule
<1>4. CASE def.kind = "enum" /\ n # 0
  <2>1. 1 \in 1..n /\ def.members # <<>>
    BY <1>4 DEF TypesOf, IsSequence
  <2>2. widths # {} /\ m(1) \in widths
    BY <1>1, <2>1
  <2>3. CASE \A k \in 1..n : m(k) = m(1)
    <3>1. widths = {m(1)}
      BY <1>1, <2>1, <2>3
    <3>2. PartialWidth(def, n, w) = m(1)
      BY <1>4, <2>3 DEF PartialWidth
    <3>3. CASE m(1) = Variable
      <4>1. ~\E width \in widths \ {Variable} : widths = {width}
        BY <3>1, <3>3
      <4>2. WidthByRule(def, w) = Variable
        BY <1>4, <2>2, <4>1 DEF WidthByRule
      <4> QED
        BY <3>2, <3>3, <4>2 DEF FinalWidth
    <3>4. CASE m(1) # Variable
      <4>1. \E width \in widths \ {Variable} : widths = {width}
        BY <3>1, <3>4
      <4>2. (CHOOSE x \in widths : TRUE) = m(1)
        BY <3>1
      <4> HIDE DEF m, widths
      <4>3. WidthByRule(def, w) = Fixed(8 * def.index_ty + m(1).bits)
        BY <1>4, <2>2, <4>1, <4>2 DEF WidthByRule, widths
      <4>4. FinalWidth(def, m(1)) = Fixed(m(1).bits + 8 * def.index_ty)
        BY <1>4, <2>1, <3>4 DEF FinalWidth
      <4>5. m(1).bits \in Nat /\ 8 * def.index_ty \in Nat
        <5>1. m(1) \in BitWidth
          BY <1>4, <2>1 DEF m
        <5> QED
          BY <1>4, <3>4, <5>1, FixedWidth, KindOfDefinition
      <4> QED
        BY <3>2, <4>3, <4>4, <4>5
    <3> QED
      BY <3>3, <3>4
  <2>4. CASE ~\A k \in 1..n : m(k) = m(1)
    <3>1. ~\E width \in widths \ {Variable} : widths = {width}
      BY <1>1, <2>1, <2>4
    <3>2. WidthByRule(def, w) = Variable
      BY <1>4, <2>2, <3>1 DEF WidthByRule
    <3>3. PartialWidth(def, n, w) = Variable
      BY <1>4, <2>4 DEF PartialWidth
    <3> QED
      BY <3>2, <3>3 DEF FinalWidth
  <2> QED
    BY <2>3, <2>4
<1>5. CASE def.kind = "dict"
  <2>1. widths \subseteq {Fixed(0)} <=> \A k \in 1..n : m(k) = Fixed(0)
    BY <1>1
  <2> QED
    BY <1>5, <2>1 DEF PartialWidth, FinalWidth, WidthByRule
<1>6. CASE def.kind \in {"primitive", "extern", "vector", "stream", "struct"}
  BY <1>6 DEF PartialWidth, FinalWidth, WidthByRule
<1> QED
  BY <1>2, <1>3, <1>4, <1>5, <1>6, KindOfDefinition

(* and depends on the widths of those members alone. *)
LEMMA PartialSame ==
  ASSUME NEW def, NEW v, NEW w, NEW n \in Nat,
         \A k \in 1..n : MemberWidth(def, k, v) = MemberWidth(def, k, w)
  PROVE  PartialWidth(def, n, v) = PartialWidth(def, n, w)
<1>1. [k \in 1..n |-> MemberWidth(def, k, v)] = [k \in 1..n |-> MemberWidth(def, k, w)]
  OBVIOUS
<1>2. n # 0 => MemberWidth(def, 1, v) = MemberWidth(def, 1, w)
  OBVIOUS
<1> QED
  BY <1>1, <1>2 DEF PartialWidth

LEMMA RuleSame ==
  ASSUME NEW def, NEW v, NEW w, NEW n \in Nat, DOMAIN TypesOf(def) = 1..n,
         \A k \in 1..n : MemberWidth(def, k, v) = MemberWidth(def, k, w)
  PROVE  /\ WidthsOfTypes(def, v) = WidthsOfTypes(def, w)
         /\ WidthByRule(def, v) = WidthByRule(def, w)
<1>1. WidthsOfTypes(def, v) = WidthsOfTypes(def, w)
  BY DEF WidthsOfTypes, MemberWidth
<1>2. [k \in DOMAIN TypesOf(def) |-> WidthOfType(TypesOf(def)[k], v)]
        = [k \in DOMAIN TypesOf(def) |-> WidthOfType(TypesOf(def)[k], w)]
  BY DEF MemberWidth
<1> QED
  BY <1>1, <1>2 DEF WidthByRule
-----------------------------------------------------------------------------
(***************************************************************************)
(* What is on record about the definitions.  Of a definition whose first n *)
(* types have been looked at: every handle among them is one, a definition *)
(* that a member is of has its width, and each of them passed the checks.  *)
(* (The element of a sequence is not looked into, so it may have none.)    *)
(***************************************************************************)
Seen(s, w, h, n) ==
  \A k \in 1..n :
    /\ TypesOf(s[h])[k].tag = "allocated" =>
         /\ TypesOf(s[h])[k].handle \in DOMAIN s
         /\ ~IsSequence(s[h]) => w[TypesOf(s[h])[k].handle] # Uninit
    /\ IndexError(s[h], k) = "none"
    /\ WidthError(s[h], k, MemberWidth(s[h], k, w)) = "none"

(* A sequence inside a sequence is done when the chain of them is. *)
ElementDone(s, w, h) ==
  IsSequence(s[h]) /\ TypesOf(s[h])[1].tag = "allocated"
    /\ IsSequence(s[TypesOf(s[h])[1].handle]) => w[TypesOf(s[h])[1].handle] # Uninit

Complete(s, w, h) ==
  /\ Seen(s, w, h, Len(TypesOf(s[h])))
  /\ ElementDone(s, w, h)
  /\ w[h] = FinalWidth(s[h], PartialWidth(s[h], Len(TypesOf(s[h])), w))
  /\ s[h].kind = "packed" => ~Misaligned(w[h])

InProgress(s, w, f) ==
  Seen(s, w, f.handle, f.next - 1) /\ f.width = PartialWidth(s[f.handle], f.next - 1, w)

Completed == \A h \in Handles : bit_width[h] # Uninit => Complete(schema, bit_width, h)

Progress == \A i \in DOMAIN stack : InProgress(schema, bit_width, stack[i])

(* A frame is that of a type of the definition below. *)
Links(s, frames) ==
  \A i \in DOMAIN frames : i + 1 \in DOMAIN frames =>
    Mentions(s, frames[i].handle, frames[i + 1].handle)

Linked == Links(schema, stack)

ChainDone == stack # <<>> /\ Top.next # 1 => ElementDone(schema, bit_width, Top.handle)

Recorded == Completed /\ Progress /\ Linked /\ ChainDone

(* What is recorded of written widths holds when others are written. *)
LEMMA SeenKept ==
  ASSUME NEW s \in Seq(Definition), NEW v, NEW w, NEW h \in DOMAIN s, NEW n \in Nat,
         \A g \in DOMAIN s : w[g] # Uninit => v[g] = w[g],
         Seen(s, w, h, n), n <= Len(TypesOf(s[h]))
  PROVE  Seen(s, v, h, n) /\ PartialWidth(s[h], n, v) = PartialWidth(s[h], n, w)
<1> DEFINE def == s[h]
           types == TypesOf(def)
<1>1. def \in Definition /\ types \in Seq(Type)
  BY TypesOfDefinition
<1>2. CASE IsSequence(def)
  <2>1. def.kind \in {"vector", "stream"}
    BY <1>2 DEF IsSequence
  <2>2. PartialWidth(def, n, v) = Variable /\ PartialWidth(def, n, w) = Variable
    BY <2>1 DEF PartialWidth
  <2>3. \A k, width : WidthError(def, k, width) = "none"
    BY <2>1 DEF WidthError
  <2> QED
    BY <1>2, <2>2, <2>3 DEF Seen
<1>3. CASE ~IsSequence(def)
  <2>1. ASSUME NEW k \in 1..n PROVE MemberWidth(def, k, v) = MemberWidth(def, k, w)
    <3>1. types[k] \in Type
      BY <1>1
    <3>2. types[k].tag = "allocated" => types[k].handle \in DOMAIN s /\ w[types[k].handle] # Uninit
      BY <1>3 DEF Seen
    <3> QED
      BY <3>1, <3>2, TagOfType DEF MemberWidth, WidthOfType
  <2>2. PartialWidth(def, n, v) = PartialWidth(def, n, w)
    BY <2>1, PartialSame
  <2>3. \A k \in 1..n : types[k].tag = "allocated" =>
          types[k].handle \in DOMAIN s /\ v[types[k].handle] # Uninit
    BY <1>3 DEF Seen
  <2> QED
    BY <2>1, <2>2, <2>3 DEF Seen
<1> QED
  BY <1>2, <1>3

LEMMA InProgressKept ==
  ASSUME Typed, NEW v, \A g \in Handles : bit_width[g] # Uninit => v[g] = bit_width[g],
         NEW f \in Frames, InProgress(schema, bit_width, f)
  PROVE  InProgress(schema, v, f)
<1>1. schema \in Seq(Definition) /\ f.handle \in DOMAIN schema /\ f.next - 1 \in Nat
      /\ f.next - 1 <= Len(TypesOf(schema[f.handle]))
  <2>1. schema \in Seq(Definition) /\ f.handle \in DOMAIN schema /\ f.next \in Nat \ {0}
        /\ f.next <= Len(TypesOf(schema[f.handle])) + 1
    BY DEF Typed, TypeOK, Frames, Handles
  <2>2. Len(TypesOf(schema[f.handle])) \in Nat
    BY <2>1, TypesOfDefinition
  <2> QED
    BY <2>1, <2>2
<1> QED
  BY <1>1, SeenKept DEF InProgress, Handles

LEMMA CompleteKept ==
  ASSUME Typed, NEW v, \A g \in Handles : bit_width[g] # Uninit => v[g] = bit_width[g],
         NEW h \in Handles, bit_width[h] # Uninit, Complete(schema, bit_width, h)
  PROVE  Complete(schema, v, h)
<1> DEFINE n == Len(TypesOf(schema[h]))
<1>1. schema \in Seq(Definition) /\ h \in DOMAIN schema
  BY DEF Typed, TypeOK, Handles
<1>2. n \in Nat /\ n <= n /\ TypesOf(schema[h]) \in Seq(Type)
  BY <1>1, TypesOfDefinition
<1>3. Seen(schema, v, h, n) /\ PartialWidth(schema[h], n, v) = PartialWidth(schema[h], n, bit_width)
  <2>1. Seen(schema, bit_width, h, n)
    BY DEF Complete
  <2> HIDE DEF n
  <2> QED
    BY <1>1, <1>2, <2>1, SeenKept DEF Handles, n
<1>4. v[h] = bit_width[h]
  OBVIOUS
<1>5. ElementDone(schema, v, h)
  <2> SUFFICES ASSUME IsSequence(schema[h]), TypesOf(schema[h])[1].tag = "allocated",
                      IsSequence(schema[TypesOf(schema[h])[1].handle])
               PROVE  v[TypesOf(schema[h])[1].handle] # Uninit
    BY DEF ElementDone
  <2>1. bit_width[TypesOf(schema[h])[1].handle] # Uninit
    BY DEF Complete, ElementDone
  <2>2. TypesOf(schema[h])[1].handle \in Handles
    <3>1. n = 1
      BY <1>1, TypesOfDefinition
    <3> QED
      BY <3>1 DEF Complete, Seen, Handles
  <2> QED
    BY <2>1, <2>2
<1> QED
  BY <1>3, <1>4, <1>5 DEF Complete

(* A type that names a definition mentions it. *)
LEMMA AllocatedIsMention ==
  ASSUME NEW ty \in Type, ty.tag = "allocated"
  PROVE  ty = Allocated(ty.handle)
<1>1. ty \in AllocatedType
  BY DEF Type, IntegerType, VarintType, AllocatedType
<1> QED
  BY <1>1 DEF AllocatedType, Allocated

(* The types that have been looked at have a width, a packed one's is fixed. *)
LEMMA SeenTyped ==
  ASSUME Typed, NEW h \in Handles, NEW n \in Nat, n <= Len(TypesOf(schema[h])),
         Seen(schema, bit_width, h, n), ~IsSequence(schema[h]), NEW k \in 1..n
  PROVE  /\ MemberWidth(schema[h], k, bit_width) \in BitWidth
         /\ schema[h].kind = "packed" => MemberWidth(schema[h], k, bit_width) \in FixedWidths
<1> DEFINE ty == TypesOf(schema[h])[k]
<1>1. schema[h] \in Definition
  BY DEF Typed, TypeOK, Handles
<1>2. ty \in Type
  BY <1>1, TypesOfDefinition
<1>3. ty.tag = "allocated" => ty.handle \in Handles /\ bit_width[ty.handle] \in BitWidth
  BY DEF Seen, Typed, TypeOK, Handles
<1>4. WidthError(schema[h], k, MemberWidth(schema[h], k, bit_width)) = "none"
  BY DEF Seen
<1> HIDE DEF ty
<1>5. WidthOfType(ty, bit_width) \in BitWidth
  <2>1. CASE ty.tag = "integer"
    BY <1>2, <2>1, TagOfType, U16IsNat, FixedIsWidth DEF WidthOfType
  <2>2. CASE ty.tag = "varint"
    BY <2>2, VariableIsWidth DEF WidthOfType
  <2>3. CASE ty.tag = "allocated"
    BY <1>3, <2>3 DEF WidthOfType
  <2> QED
    BY <1>2, <2>1, <2>2, <2>3, TagOfType
<1>6. MemberWidth(schema[h], k, bit_width) = WidthOfType(ty, bit_width)
  BY DEF MemberWidth, ty
<1> QED
  BY <1>4, <1>5, <1>6 DEF WidthError, FixedWidths

(* What a call finds on record, that is entered from a caller on record. *)
LEMMA EnterRecorded ==
  ASSUME Typed, Completed, NEW caller \in Seq(Frames), NEW h \in Handles, Enter(caller, h),
         \A i \in DOMAIN caller : InProgress(schema, bit_width, caller[i]),
         Links(schema, caller),
         caller # <<>> => Mentions(schema, caller[Len(caller)].handle, h)
  PROVE  Recorded'
<1> DEFINE n == Len(caller)
           f == Frame(h)
<1>1. schema[h] \in Definition /\ schema' = schema /\ bit_width' = bit_width /\ Handles' = Handles
  <2>1. schema[h] \in Definition
    BY DEF Typed, TypeOK, Handles
  <2> QED
    BY <2>1 DEF Enter, Handles
<1>2. f \in Frames /\ f.handle = h /\ f.next = 1 /\ f.width = StartWidth(schema[h])
  <2>1. Len(TypesOf(schema[h])) \in Nat
    BY <1>1, TypesOfDefinition
  <2> QED
    BY <1>1, <2>1, StartsTyped DEF Frame, Frames
<1>3. InProgress(schema, bit_width, f)
  <2>1. f.next - 1 = 0
    BY <1>2
  <2>2. Seen(schema, bit_width, h, 0)
    BY DEF Seen
  <2> QED
    BY <1>1, <1>2, <2>1, <2>2, PartialStart DEF InProgress
<1> HIDE DEF n, f
<1>4. /\ n \in Nat /\ DOMAIN caller = 1..n
      /\ Len(stack') = n + 1 /\ DOMAIN stack' = 1..(n + 1)
      /\ stack'[n + 1] = f
      /\ \A i \in 1..n : stack'[i] = caller[i]
  BY <1>2 DEF Enter, n, f
<1>5. Completed'
  BY <1>1 DEF Completed
<1>6. Progress'
  BY <1>1, <1>3, <1>4 DEF Progress
<1>7. Linked'
  <2> SUFFICES ASSUME NEW i \in 1..(n + 1), i + 1 \in 1..(n + 1)
               PROVE  Mentions(schema, stack'[i].handle, stack'[i + 1].handle)
    BY <1>1, <1>4 DEF Linked, Links
  <2>1. CASE i = n
    <3>1. caller # <<>> /\ n \in 1..n
      BY <1>4, <2>1
    <3> QED
      BY <1>2, <1>4, <2>1, <3>1 DEF n
  <2>2. CASE i # n
    <3>1. i \in 1..n /\ i + 1 \in 1..n
      BY <1>4, <2>2
    <3> QED
      BY <1>4, <3>1 DEF Links
  <2> QED
    BY <2>1, <2>2
<1>8. ChainDone'
  BY <1>2, <1>4 DEF ChainDone, Top
<1> QED
  BY <1>5, <1>6, <1>7, <1>8 DEF Recorded

(* The frame on top moves past a type, and everything else stays. *)
LEMMA AdvanceRecorded ==
  ASSUME Typed, Recorded, stack # <<>>, Top.next \in DOMAIN Types,
         NEW width \in BitWidth, Def.kind = "packed" => width # Variable,
         Ty.tag = "allocated" =>
           Ty.handle \in Handles /\ (~IsSequence(Def) => bit_width[Ty.handle] # Uninit),
         IndexError(Def, Top.next) = "none",
         WidthError(Def, Top.next, Width) = "none",
         width = PartialWidth(Def, Top.next, bit_width)
  PROVE  /\ \A i \in DOMAIN Advance(width) : InProgress(schema, bit_width, Advance(width)[i])
         /\ Links(schema, Advance(width))
<1> DEFINE moved == [handle |-> Top.handle, next |-> Top.next + 1, width |-> width]
<1>1. stack \in Seq(Frames) /\ Len(stack) \in DOMAIN stack /\ Top.next \in Nat \ {0}
  BY TopTyped DEF Typed, TypeOK
<1>2. moved.handle = Top.handle /\ moved.next - 1 = Top.next /\ moved.width = width
  BY <1>1
<1>3. Advance(width) = [stack EXCEPT ![Len(stack)] = moved]
  BY DEF Advance
<1> HIDE DEF moved
<1>4. InProgress(schema, bit_width, stack[Len(stack)])
  BY <1>1 DEF Recorded, Progress
<1>5. Seen(schema, bit_width, Top.handle, Top.next - 1)
  BY <1>4 DEF InProgress, Top
<1>6. Seen(schema, bit_width, Top.handle, Top.next)
  <2> SUFFICES ASSUME NEW k \in 1..Top.next
               PROVE  /\ TypesOf(Def)[k].tag = "allocated" =>
                           /\ TypesOf(Def)[k].handle \in Handles
                           /\ ~IsSequence(Def) => bit_width[TypesOf(Def)[k].handle] # Uninit
                      /\ IndexError(Def, k) = "none"
                      /\ WidthError(Def, k, MemberWidth(Def, k, bit_width)) = "none"
    BY DEF Seen, Def, Handles
  <2>1. CASE k = Top.next
    BY <2>1 DEF MemberWidth, Width, Ty, Types
  <2>2. CASE k # Top.next
    <3>1. k \in 1..(Top.next - 1)
      BY <1>1, <2>2
    <3> QED
      BY <1>5, <3>1 DEF Seen, Def, Handles
  <2> QED
    BY <2>1, <2>2
<1>7. InProgress(schema, bit_width, moved)
  BY <1>2, <1>6 DEF InProgress, Def
<1>8. /\ DOMAIN Advance(width) = DOMAIN stack
      /\ \A i \in DOMAIN stack : Advance(width)[i] = IF i = Len(stack) THEN moved ELSE stack[i]
  BY <1>1, <1>3
<1>9. \A i \in DOMAIN stack : Advance(width)[i].handle = stack[i].handle
  BY <1>2, <1>8 DEF Top
<1>10. Links(schema, Advance(width))
  BY <1>8, <1>9 DEF Recorded, Linked, Links
<1> QED
  BY <1>7, <1>8, <1>10 DEF Recorded, Progress

LEMMA RecordedStart == Starts => Recorded
BY DEF Starts, New, Recorded, Completed, Progress, Linked, Links, ChainDone

(* At the end of a definition everything the rules ask of it is on record. *)
LEMMA EndComplete ==
  ASSUME Typed, Bounded, Recorded, AtEnd
  PROVE  /\ Top.next - 1 = Len(Types)
         /\ Seen(schema, bit_width, Top.handle, Len(Types))
         /\ ElementDone(schema, bit_width, Top.handle)
         /\ Top.width = PartialWidth(Def, Len(Types), bit_width)
<1>1. stack # <<>> /\ Len(stack) \in DOMAIN stack /\ Top.next \notin DOMAIN Types
  BY TopTyped DEF AtEnd, Active
<1>2. Top.next \in Nat \ {0} /\ Top.next <= Len(Types) + 1 /\ Types \in Seq(Type)
  BY <1>1, TopTyped
<1>3. Top.next - 1 = Len(Types)
  BY <1>1, <1>2
<1>4. InProgress(schema, bit_width, Top)
  BY <1>1 DEF Recorded, Progress, Top
<1>5. ElementDone(schema, bit_width, Top.handle)
  <2>1. CASE IsSequence(Def)
    <3>1. Top.next # 1
      BY <1>1, <2>1, SequenceFrame
    <3> QED
      BY <1>1, <3>1 DEF Recorded, ChainDone
  <2>2. CASE ~IsSequence(Def)
    BY <2>2 DEF ElementDone, Def
  <2> QED
    BY <2>1, <2>2
<1> QED
  BY <1>3, <1>4, <1>5 DEF InProgress, Def

(* A width that is written again is the one written before. *)
LEMMA LeaveRewrites ==
  ASSUME Typed, Bounded, Recorded, Leave
  PROVE  \A g \in Handles : bit_width[g] # Uninit => bit_width'[g] = bit_width[g]
<1>1. bit_width' = [bit_width EXCEPT ![Top.handle] = FinalWidth(Def, Top.width)] /\ AtEnd
  BY DEF Leave
<1>2. Top.width = PartialWidth(Def, Len(Types), bit_width)
  BY <1>1, EndComplete
<1>3. Top.handle \in Handles /\ DOMAIN bit_width = Handles
  BY <1>1, TopTyped DEF AtEnd, Active, Typed, TypeOK
<1>4. bit_width[Top.handle] # Uninit => bit_width[Top.handle] = FinalWidth(Def, Top.width)
  BY <1>2, <1>3 DEF Recorded, Completed, Complete, Def, Types
<1> QED
  BY <1>1, <1>3, <1>4

LEMMA LeaveRecorded ==
  ASSUME Typed, Bounded, Recorded, Leave
  PROVE  Recorded'
<1> DEFINE n == Len(stack) - 1
           t == Top.handle
           final == FinalWidth(Def, Top.width)
<1>1. /\ stack # <<>> /\ AtEnd /\ schema' = schema /\ Handles' = Handles
      /\ stack' = SubSeq(stack, 1, n)
      /\ bit_width' = [bit_width EXCEPT ![t] = final]
      /\ ~(Def.kind = "packed" /\ Misaligned(Top.width))
  BY DEF Leave, AtEnd, Active, Front, Handles
<1>2. /\ stack \in Seq(Frames) /\ n \in Nat /\ Len(stack) = n + 1 /\ DOMAIN stack = 1..(n + 1)
      /\ \A i \in DOMAIN stack : stack[i] \in Frames /\ stack[i].handle \in Handles
  BY <1>1 DEF Typed, TypeOK, Frames
<1>3. t \in Handles /\ DOMAIN bit_width = Handles /\ Def \in Definition /\ Top.width \in BitWidth
  BY <1>1, TopTyped DEF Typed, TypeOK
<1> HIDE DEF n
<1>4. DOMAIN stack' = 1..n /\ Len(stack') = n /\ \A i \in 1..n : stack'[i] = stack[i]
  BY <1>1, <1>2
<1> DEFINE w == bit_width'
<1>5. \A g \in Handles : bit_width[g] # Uninit => w[g] = bit_width[g]
  BY LeaveRewrites
<1>6. w[t] = final /\ final # Uninit
  <2>1. final \in BitWidth
    BY <1>3, FinalTyped
  <2> QED
    BY <1>1, <1>3, <2>1 DEF BitWidth, Uninit, Variable
<1> HIDE DEF w, final
<1>7. /\ Seen(schema, bit_width, t, Len(Types)) /\ ElementDone(schema, bit_width, t)
      /\ Top.width = PartialWidth(Def, Len(Types), bit_width) /\ Len(Types) \in Nat
  <2>1. Types \in Seq(Type)
    BY <1>1, TopTyped
  <2> QED
    BY <1>1, <2>1, EndComplete
<1>8. Complete(schema, w, t)
  <2>1. Seen(schema, w, t, Len(Types)) /\ PartialWidth(Def, Len(Types), w) = Top.width
    <3>1. schema \in Seq(Definition) /\ t \in DOMAIN schema
      BY <1>3 DEF Typed, TypeOK, Handles
    <3> DEFINE m == Len(Types)
    <3>2. m <= Len(TypesOf(schema[t])) /\ m \in Nat /\ Seen(schema, bit_width, t, m)
      BY <1>7 DEF Types, Def
    <3>3. \A g \in DOMAIN schema : bit_width[g] # Uninit => w[g] = bit_width[g]
      BY <1>5 DEF Handles
    <3> HIDE DEF m, t
    <3>4. PICK v : v = bit_width
      OBVIOUS
    <3>5. Seen(schema, w, t, m) /\ PartialWidth(schema[t], m, w) = PartialWidth(schema[t], m, v)
      <4>1. \A g \in DOMAIN schema : v[g] # Uninit => w[g] = v[g]
        BY <3>3, <3>4
      <4>2. Seen(schema, v, t, m)
        BY <3>2, <3>4
      <4> QED
        BY <3>1, <3>2, <4>1, <4>2, SeenKept
    <3> QED
      BY <1>7, <3>4, <3>5 DEF m, t, Def
  <2>2. ElementDone(schema, w, t)
    <3> SUFFICES ASSUME IsSequence(schema[t]), TypesOf(schema[t])[1].tag = "allocated",
                        IsSequence(schema[TypesOf(schema[t])[1].handle])
                 PROVE  w[TypesOf(schema[t])[1].handle] # Uninit
      BY DEF ElementDone
    <3>1. bit_width[TypesOf(schema[t])[1].handle] # Uninit
      BY <1>7 DEF ElementDone
    <3>2. TypesOf(schema[t])[1].handle \in Handles
      <4>1. Len(Types) = 1
        BY <1>1, SequenceFrame DEF Def
      <4> QED
        BY <1>7, <4>1 DEF Seen, Handles
    <3> QED
      BY <1>5, <3>1, <3>2
  <2>3. schema[t].kind = "packed" => ~Misaligned(w[t])
    BY <1>1, <1>6 DEF final, FinalWidth, Def
  <2> QED
    BY <1>6, <2>1, <2>2, <2>3 DEF Complete, Types, Def, final
<1>9. Completed'
  <2> SUFFICES ASSUME NEW h \in Handles, w[h] # Uninit
               PROVE  Complete(schema, w, h)
    BY <1>1 DEF Completed, w
  <2>1. CASE h = t
    BY <1>8, <2>1
  <2>2. CASE h # t
    <3>1. w[h] = bit_width[h]
      BY <1>1, <1>3, <2>2 DEF w
    <3> QED
      BY <1>5, <3>1, CompleteKept DEF Recorded, Completed
  <2> QED
    BY <2>1, <2>2
<1>10. Progress'
  <2>1. ASSUME NEW i \in 1..n PROVE InProgress(schema, w, stack[i])
    <3>1. i \in DOMAIN stack
      BY <1>2
    <3> QED
      BY <1>2, <1>5, <3>1, InProgressKept DEF Recorded, Progress
  <2> QED
    BY <1>1, <1>4, <2>1 DEF Progress, w
<1>11. Linked'
  BY <1>1, <1>2, <1>4 DEF Recorded, Linked, Links
<1>12. ChainDone'
  <2> SUFFICES ASSUME stack' # <<>>, IsSequence(schema[stack[n].handle])
               PROVE  ElementDone(schema, w, stack[n].handle)
    <3>1. ChainDone' <=> (stack' # <<>> /\ stack[n].next # 1 => ElementDone(schema, w, stack[n].handle))
      <4>1. CASE stack' = <<>>
        BY <4>1 DEF ChainDone
      <4>2. CASE stack' # <<>>
        <5>1. n \in 1..n
          BY <1>2, <1>4, <4>2
        <5>2. Top' = stack[n]
          BY <1>4, <5>1 DEF Top
        <5> QED
          BY <1>1, <5>2 DEF ChainDone, w
      <4> QED
        BY <4>1, <4>2
    <3> QED
      BY <3>1 DEF ElementDone
  <2>1. n \in 1..n /\ n + 1 \in DOMAIN stack /\ n \in DOMAIN stack
    BY <1>2, <1>4
  <2>2. Mentions(schema, stack[n].handle, t)
    BY <1>2, <2>1 DEF Recorded, Linked, Links, Top
  <2>3. TypesOf(schema[stack[n].handle])[1] = Allocated(t)
    <3>1. schema[stack[n].handle] \in Definition
      <4>1. stack[n].handle \in Handles
        BY <1>2, <2>1
      <4> QED
        BY <4>1 DEF Typed, TypeOK, Handles
    <3>2. Len(TypesOf(schema[stack[n].handle])) = 1 /\ TypesOf(schema[stack[n].handle]) \in Seq(Type)
      BY <3>1, TypesOfDefinition
    <3> QED
      BY <2>2, <3>2 DEF Mentions
  <2> QED
    BY <1>6, <2>3 DEF ElementDone, Allocated
<1> QED
  BY <1>9, <1>10, <1>11, <1>12 DEF Recorded

LEMMA RecordedStep == Typed /\ Bounded /\ Recorded /\ [Next]_vars => Recorded'
<1> SUFFICES ASSUME Typed, Bounded, Recorded, [Next]_vars PROVE Recorded'
  OBVIOUS
<1>0. ASSUME UNCHANGED <<schema, bit_width, stack>> PROVE Recorded'
  BY <1>0 DEF Recorded, Completed, Progress, Linked, ChainDone, Top, Handles
<1>1. CASE UNCHANGED vars
  BY <1>0, <1>1 DEF vars
<1>2. CASE EnterRoot
  <2> DEFINE caller == <<>>
  <2>1. caller \in Seq(Frames) /\ DOMAIN caller = {} /\ Enter(caller, root) /\ root \in Handles
        /\ Links(schema, caller)
    BY <1>2 DEF EnterRoot, AtRoot, Links
  <2>2. caller = <<>>
    OBVIOUS
  <2> HIDE DEF caller
  <2> QED
    BY <2>1, <2>2, EnterRecorded DEF Recorded
<1>3. CASE SkipSequence
  BY <1>0, <1>3 DEF SkipSequence, tables
<1>4. ASSUME NEW error, Fail(error) PROVE Recorded'
  BY <1>0, <1>4 DEF Fail, tables
<1>5. CASE EnterMember
  <2>1. stack # <<>> /\ Top.next \in DOMAIN Types /\ Ty.handle \in Handles /\ Ty.tag = "allocated"
        /\ Enter(stack, Ty.handle)
    BY <1>5 DEF EnterMember, AtType, AtMember, Active
  <2>2. Mentions(schema, Top.handle, Ty.handle)
    BY <2>1, TopTyped, AllocatedIsMention DEF Mentions, Ty, Types, Def
  <2> QED
    BY <2>1, <2>2, EnterRecorded DEF Recorded, Progress, Linked, Top, Typed, TypeOK
<1>6. CASE TakeMember
  <2> DEFINE width == Absorb(Def, Top.next, Top.width, Width)
             n == Top.next - 1
  <2>1. /\ stack # <<>> /\ ~IsSequence(Def) /\ Top.next \in DOMAIN Types
        /\ IndexError(Def, Top.next) = "none" /\ WidthError(Def, Top.next, Width) = "none"
        /\ WidthKnown /\ stack' = Advance(width) /\ schema' = schema /\ bit_width' = bit_width
    BY <1>6 DEF TakeMember, AtType, AtMember, Active
  <2>2. /\ Def \in Definition /\ n \in Nat /\ n + 1 = Top.next /\ Top.width \in BitWidth
        /\ Ty \in Type /\ Top.handle \in Handles /\ (Def.kind = "packed" => Top.width # Variable)
        /\ Top.next <= Len(Types) + 1 /\ Types \in Seq(Type)
    BY <2>1, TopTyped
  <2>3. Width \in BitWidth
    BY <2>1, <2>2, WidthTyped
  <2>4. Def.kind = "packed" => Width # Variable
    BY <2>1 DEF WidthError
  <2>5. width \in BitWidth /\ (Def.kind = "packed" => width # Variable)
    BY <2>2, <2>3, <2>4, AbsorbTyped
  <2>6. Ty.tag = "allocated" => Ty.handle \in Handles /\ bit_width[Ty.handle] # Uninit
    BY <2>1 DEF WidthKnown, Status, Typed, Written
  <2>7. InProgress(schema, bit_width, Top)
    BY <2>1, TopTyped DEF Recorded, Progress, Top
  <2> HIDE DEF n
  <2>8. width = PartialWidth(Def, Top.next, bit_width)
    <3>1. Seen(schema, bit_width, Top.handle, n) /\ Top.width = PartialWidth(Def, n, bit_width)
      BY <2>7 DEF InProgress, Def, n
    <3>2. Width = MemberWidth(Def, Top.next, bit_width)
      BY DEF Width, MemberWidth, Ty, Types
    <3>3. ASSUME Def.kind = "packed", NEW k \in 1..(n + 1)
          PROVE  MemberWidth(Def, k, bit_width) \in FixedWidths
      <4>1. CASE k = n + 1
        BY <2>2, <2>3, <2>4, <3>2, <3>3, <4>1 DEF FixedWidths
      <4>2. CASE k # n + 1
        <5> DEFINE t == Top.handle
        <5>1. k \in 1..n /\ n <= Len(TypesOf(schema[t])) /\ ~IsSequence(schema[t])
              /\ schema[t].kind = "packed"
          BY <2>1, <2>2, <3>3, <4>2 DEF Types, Def
        <5>2. t \in Handles /\ Seen(schema, bit_width, t, n)
          BY <2>2, <3>1
        <5> HIDE DEF t
        <5>3. MemberWidth(schema[t], k, bit_width) \in FixedWidths
          BY <2>2, <5>1, <5>2, SeenTyped
        <5> QED
          BY <5>3 DEF Def, t
      <4> QED
        BY <4>1, <4>2
    <3>4. PartialWidth(Def, n + 1, bit_width)
            = Absorb(Def, n + 1, PartialWidth(Def, n, bit_width), MemberWidth(Def, n + 1, bit_width))
      BY <2>1, <2>2, <3>3, PartialAbsorbs DEF Types
    <3> QED
      BY <2>2, <3>1, <3>2, <3>4
  <2> HIDE DEF width
  <2>9. /\ \A i \in DOMAIN Advance(width) : InProgress(schema, bit_width, Advance(width)[i])
        /\ Links(schema, Advance(width))
    BY <2>1, <2>5, <2>6, <2>8, AdvanceRecorded
  <2>10. Progress' /\ Linked' /\ Completed'
    BY <2>1, <2>9 DEF Recorded, Progress, Linked, Completed, Handles
  <2>11. ChainDone'
    <3>1. Top'.handle = Top.handle
      <4>1. Len(stack) \in DOMAIN stack /\ stack \in Seq(Frames)
        BY <2>1, TopTyped DEF Typed, TypeOK
      <4> QED
        BY <2>1, <4>1 DEF Advance, Top
    <3> QED
      BY <2>1, <3>1 DEF ChainDone, ElementDone, Def
  <2> QED
    BY <2>10, <2>11 DEF Recorded
<1>7. ASSUME AtElement, Ty.tag = "allocated" => Ty.handle \in Handles
      PROVE  /\ \A i \in DOMAIN Advance(Variable) : InProgress(schema, bit_width, Advance(Variable)[i])
             /\ Links(schema, Advance(Variable))
             /\ Advance(Variable) \in Seq(Frames) /\ Advance(Variable) # <<>>
             /\ Advance(Variable)[Len(Advance(Variable))].handle = Top.handle
  <2>1. stack # <<>> /\ IsSequence(Def) /\ Top.next \in DOMAIN Types
    BY <1>7 DEF AtElement, Active
  <2>2. Def.kind \in {"vector", "stream"}
    BY <2>1 DEF IsSequence
  <2>3. /\ IndexError(Def, Top.next) = "none" /\ WidthError(Def, Top.next, Width) = "none"
        /\ Variable = PartialWidth(Def, Top.next, bit_width)
    BY <2>2 DEF IndexError, IsIndexed, WidthError, PartialWidth
  <2>4. /\ Advance(Variable) \in Seq(Frames) /\ Len(Advance(Variable)) = Len(stack)
        /\ \A i \in DOMAIN stack : Advance(Variable)[i].handle = stack[i].handle
    BY <2>1, <2>2, VariableIsWidth, AdvanceTyped
  <2>5. Len(stack) \in DOMAIN stack
    BY <2>1, TopTyped
  <2>6. Advance(Variable) # <<>>
    BY <2>1, <2>4 DEF Typed, TypeOK
  <2> QED
    BY <1>7, <2>1, <2>2, <2>3, <2>4, <2>5, <2>6, VariableIsWidth, AdvanceRecorded DEF Top
<1>8. CASE EnterElement
  <2> DEFINE caller == Advance(Variable)
             h == Ty.handle
  <2>1. /\ AtElement /\ h \in Handles /\ Ty.tag = "allocated" /\ Enter(caller, h)
        /\ stack # <<>> /\ Top.next \in DOMAIN Types
    BY <1>8 DEF EnterElement, AtElement, Active
  <2>2. Mentions(schema, Top.handle, h)
    BY <2>1, TopTyped, AllocatedIsMention DEF Mentions, Ty, Types, Def
  <2>3. /\ \A i \in DOMAIN caller : InProgress(schema, bit_width, caller[i])
        /\ Links(schema, caller) /\ caller \in Seq(Frames)
        /\ caller[Len(caller)].handle = Top.handle
    BY <1>7, <2>1
  <2> HIDE DEF caller, h
  <2> QED
    BY <2>1, <2>2, <2>3, EnterRecorded DEF Recorded
<1>9. CASE EndChain
  <2>1. /\ AtElement /\ stack' = Advance(Variable) /\ schema' = schema /\ bit_width' = bit_width
        /\ Ty.tag = "allocated" => Ty.handle \in Handles /\ ~IsSequence(schema[Ty.handle])
    BY <1>9 DEF EndChain
  <2>2. Top'.handle = Top.handle /\ Progress' /\ Linked' /\ Completed'
    BY <1>7, <2>1 DEF Recorded, Progress, Linked, Completed, Handles, Top
  <2>3. stack # <<>> /\ IsSequence(Def) /\ Top.next \in DOMAIN Types
    BY <2>1 DEF AtElement, Active
  <2>4. TypesOf(schema[Top.handle])[1] = Ty
    BY <2>3, SequenceFrame DEF Ty, Types, Def
  <2>5. ChainDone'
    BY <2>1, <2>2, <2>4 DEF ChainDone, ElementDone
  <2> QED
    BY <2>2, <2>5 DEF Recorded
<1>10. CASE Leave
  BY <1>10, LeaveRecorded
<1>11. CASE Finish
  BY <1>0, <1>11 DEF Finish
<1>12. CASE RejectIndex \/ RejectHandle \/ RejectRecursion \/ RejectWidth
  BY <1>4, <1>12 DEF RejectIndex, RejectHandle, RejectRecursion, RejectWidth
<1>13. CASE RejectStream \/ RejectElement \/ RejectTotal \/ RejectUnused
  BY <1>4, <1>13 DEF RejectStream, RejectElement, RejectTotal, RejectUnused
<1> QED
  BY <1>1, <1>2, <1>3, <1>5, <1>6, <1>8, <1>9, <1>10, <1>11, <1>12, <1>13 DEF Next

(* With every width on record, the widths are those of the rules. *)
LEMMA RulesAgree == Typed /\ Recorded => WidthsAgree
<1> SUFFICES ASSUME Typed, Recorded, NEW h \in Handles, states[h] = "validated"
             PROVE  bit_width[h] = WidthByRule(schema[h], bit_width)
  BY DEF WidthsAgree
<1> DEFINE n == Len(TypesOf(schema[h]))
<1>1. Complete(schema, bit_width, h)
  BY DEF Typed, Written, Recorded, Completed
<1>2. schema[h] \in Definition
  BY DEF Typed, TypeOK, Handles
<1>3. n \in Nat /\ DOMAIN TypesOf(schema[h]) = 1..n /\ n <= n
  BY <1>2, TypesOfDefinition
<1>4. schema[h].kind = "enum" => \A k \in 1..n : MemberWidth(schema[h], k, bit_width) \in BitWidth
  <2>1. Seen(schema, bit_width, h, n) /\ n <= Len(TypesOf(schema[h]))
    BY <1>1, <1>3 DEF Complete
  <2>2. schema[h].kind = "enum" => ~IsSequence(schema[h])
    BY DEF IsSequence
  <2> HIDE DEF n
  <2> QED
    BY <1>3, <2>1, <2>2, SeenTyped
<1>5. bit_width[h] = FinalWidth(schema[h], PartialWidth(schema[h], n, bit_width))
  BY <1>1 DEF Complete
<1> HIDE DEF n
<1> QED
  BY <1>2, <1>3, <1>4, <1>5, PartialFinal

(* The width of a validated definition is the one the rules give it, from  *)
(* the widths of what it mentions, for any schemas.                        *)
THEOREM WidthsAlwaysAgree == Spec => []WidthsAgree
BY RulesAgree, InitStarts, TypedStart, TypedStep, BoundedStart, BoundedStep, RecordedStart, RecordedStep,
   PTL DEF Spec

(* No step changes a width that has been handed out, although the loop     *)
(* over the definitions validates some of them again.                      *)
THEOREM WidthsAreFinal == Spec => WidthsNeverChange
<1> DEFINE Kept == \A h \in Handles : bit_width[h] # Uninit => bit_width'[h] = bit_width[h]
<1>1. Typed /\ Bounded /\ Recorded /\ [Next]_vars => [Kept]_vars
  <2> SUFFICES ASSUME Typed, Bounded, Recorded, Next PROVE Kept
    OBVIOUS
  <2>1. CASE Leave
    BY <2>1, LeaveRewrites
  <2>2. CASE ~Leave
    <3>1. bit_width' = bit_width
      BY <2>2 DEF Next, EnterRoot, SkipSequence, RejectIndex, RejectHandle, EnterMember,
                  RejectRecursion, RejectWidth, TakeMember, RejectStream, RejectElement,
                  EnterElement, EndChain, RejectTotal, RejectUnused, Finish, Enter, Fail, tables
    <3> QED
      BY <3>1
  <2> QED
    BY <2>1, <2>2
<1> QED
  BY <1>1, InitStarts, TypedStart, TypedStep, BoundedStart, BoundedStep, RecordedStart, RecordedStep, PTL
     DEF Spec, WidthsNeverChange
-----------------------------------------------------------------------------
(***************************************************************************)
(* Widths are written from the bottom up: what a definition mentions has   *)
(* its width before, so the definitions that have one never contain each   *)
(* other (the sequences of sequences likewise), and the n-th of them has   *)
(* the width that n rounds of the rules give it.                           *)
(***************************************************************************)
HaveWidth == {h \in Handles : bit_width[h] # Uninit}

Nested ==
  /\ Grounded(schema, {h \in HaveWidth : ~IsSequence(schema[h])})
  /\ Grounded(schema, {h \in HaveWidth : IsSequence(schema[h])})

LEMMA GroundedGrows ==
  ASSUME NEW s, NEW S, NEW x, Grounded(s, S), ~Mentions(s, x, x),
         \A h \in S : ~Mentions(s, h, x)
  PROVE  Grounded(s, S \cup {x})
<1> SUFFICES ASSUME NEW part \in SUBSET (S \cup {x}), part # {}
             PROVE  \E h \in part : \A t \in part : ~Mentions(s, h, t)
  BY DEF Grounded
<1>1. CASE part \ {x} = {}
  BY <1>1
<1>2. CASE part \ {x} # {}
  <2>1. part \ {x} \in SUBSET S
    OBVIOUS
  <2>2. PICK h \in part \ {x} : \A t \in part \ {x} : ~Mentions(s, h, t)
    BY <1>2, <2>1 DEF Grounded
  <2> QED
    BY <2>1, <2>2
<1> QED
  BY <1>1, <1>2

(* Only a sequence mentions what has no width yet: an element of another kind. *)
LEMMA MentionedHasWidth ==
  ASSUME Typed, NEW h \in Handles, NEW t \in Handles, Mentions(schema, h, t),
         Seen(schema, bit_width, h, Len(TypesOf(schema[h]))), ElementDone(schema, bit_width, h),
         IsSequence(schema[h]) => IsSequence(schema[t])
  PROVE  t \in HaveWidth
<1>1. schema[h] \in Definition
  BY DEF Typed, TypeOK, Handles
<1>2. TypesOf(schema[h]) \in Seq(Type) /\ (IsSequence(schema[h]) => Len(TypesOf(schema[h])) = 1)
  BY <1>1, TypesOfDefinition
<1>3. PICK k \in DOMAIN TypesOf(schema[h]) : TypesOf(schema[h])[k] = Allocated(t)
  BY DEF Mentions
<1>4. TypesOf(schema[h])[k].tag = "allocated" /\ TypesOf(schema[h])[k].handle = t
  BY <1>3 DEF Allocated
<1>5. k \in 1..Len(TypesOf(schema[h]))
  BY <1>2, <1>3
<1>6. CASE ~IsSequence(schema[h])
  <2>1. bit_width[TypesOf(schema[h])[k].handle] # Uninit
    BY <1>4, <1>5, <1>6 DEF Seen
  <2> QED
    BY <1>4, <2>1 DEF HaveWidth
<1>7. CASE IsSequence(schema[h])
  <2>1. k = 1
    BY <1>2, <1>5, <1>7
  <2>2. bit_width[t] # Uninit
    BY <1>4, <1>7, <2>1 DEF ElementDone
  <2> QED
    BY <2>2 DEF HaveWidth
<1> QED
  BY <1>6, <1>7

LEMMA OnlyLeaveWrites ==
  ASSUME [Next]_vars, ~Leave
  PROVE  schema' = schema /\ bit_width' = bit_width
BY DEF Next, EnterRoot, SkipSequence, RejectIndex, RejectHandle, EnterMember, RejectRecursion,
       RejectWidth, TakeMember, RejectStream, RejectElement, EnterElement, EndChain, RejectTotal,
       RejectUnused, Finish, Enter, Fail, tables, vars

(* What Leave does to the widths. *)
LEMMA LeaveWrites ==
  ASSUME Typed, Bounded, Recorded, Leave
  PROVE  /\ schema' = schema /\ Handles' = Handles /\ AtEnd /\ Top.handle \in Handles
         /\ bit_width'[Top.handle] = FinalWidth(Def, Top.width)
         /\ HaveWidth' = HaveWidth \cup {Top.handle}
         /\ \A h \in HaveWidth : bit_width'[h] = bit_width[h]
<1>1. schema' = schema /\ Handles' = Handles /\ AtEnd
      /\ bit_width' = [bit_width EXCEPT ![Top.handle] = FinalWidth(Def, Top.width)]
  BY DEF Leave, Handles
<1>2. Top.handle \in Handles /\ Def \in Definition /\ Top.width \in BitWidth /\ DOMAIN bit_width = Handles
  BY <1>1, TopTyped DEF AtEnd, Active, Typed, TypeOK
<1>3. FinalWidth(Def, Top.width) # Uninit
  <2>1. FinalWidth(Def, Top.width) \in BitWidth
    BY <1>2, FinalTyped
  <2> QED
    BY <2>1 DEF BitWidth, Uninit, Variable
<1>4. bit_width'[Top.handle] = FinalWidth(Def, Top.width)
  BY <1>1, <1>2
<1>5. \A h \in Handles : h # Top.handle => bit_width'[h] = bit_width[h]
  BY <1>1, <1>2
<1>6. \A h \in HaveWidth : bit_width'[h] = bit_width[h]
  BY LeaveRewrites DEF HaveWidth
<1>7. HaveWidth' = HaveWidth \cup {Top.handle}
  <2>1. HaveWidth' = {h \in Handles : bit_width'[h] # Uninit}
    BY <1>1 DEF HaveWidth
  <2> QED
    BY <1>2, <1>3, <1>4, <1>5, <2>1 DEF HaveWidth
<1> QED
  BY <1>1, <1>2, <1>4, <1>6, <1>7

LEMMA NestedStart == Starts => Nested
BY DEF Starts, New, Nested, HaveWidth, Grounded, Handles

LEMMA NestedStep == Typed /\ Bounded /\ Recorded /\ Nested /\ [Next]_vars => Nested'
<1> SUFFICES ASSUME Typed, Bounded, Recorded, Nested, [Next]_vars PROVE Nested'
  OBVIOUS
<1> DEFINE t == Top.handle
           plain == {h \in HaveWidth : ~IsSequence(schema[h])}
           nests == {h \in HaveWidth : IsSequence(schema[h])}
<1>1. ASSUME schema' = schema, HaveWidth' = HaveWidth PROVE Nested'
  BY <1>1 DEF Nested
<1>2. CASE ~Leave
  BY <1>1, <1>2, OnlyLeaveWrites DEF HaveWidth, Handles
<1>3. CASE Leave
  <2>1. schema' = schema /\ AtEnd /\ t \in Handles /\ HaveWidth' = HaveWidth \cup {t}
    BY <1>3, LeaveWrites
  <2>2. CASE t \in HaveWidth
    BY <1>1, <2>1, <2>2
  <2>3. CASE t \notin HaveWidth
    <3>1. ASSUME NEW h \in HaveWidth, IsSequence(schema[h]) => IsSequence(schema[t])
          PROVE  ~Mentions(schema, h, t)
      <4>1. h \in Handles /\ Complete(schema, bit_width, h)
        BY DEF HaveWidth, Recorded, Completed
      <4> QED
        BY <2>1, <2>3, <3>1, <4>1, MentionedHasWidth DEF Complete
    <3>2. ~Mentions(schema, t, t)
      <4>1. Seen(schema, bit_width, t, Len(TypesOf(schema[t]))) /\ ElementDone(schema, bit_width, t)
        BY <2>1, EndComplete DEF Types, Def
      <4> HIDE DEF t
      <4> QED
        BY <2>1, <2>3, <4>1, MentionedHasWidth
    <3> HIDE DEF t
    <3>3. CASE IsSequence(schema[t])
      <4>1. Grounded(schema, nests \cup {t})
        BY <3>1, <3>2, <3>3, GroundedGrows DEF Nested
      <4>2. {h \in HaveWidth' : IsSequence(schema[h])} = nests \cup {t}
            /\ {h \in HaveWidth' : ~IsSequence(schema[h])} = plain
        BY <2>1, <3>3
      <4> QED
        BY <2>1, <4>1, <4>2 DEF Nested
    <3>4. CASE ~IsSequence(schema[t])
      <4>1. Grounded(schema, plain \cup {t})
        BY <3>1, <3>2, <3>4, GroundedGrows DEF Nested
      <4>2. {h \in HaveWidth' : ~IsSequence(schema[h])} = plain \cup {t}
            /\ {h \in HaveWidth' : IsSequence(schema[h])} = nests
        BY <2>1, <3>4
      <4> QED
        BY <2>1, <4>1, <4>2 DEF Nested
    <3> QED
      BY <3>3, <3>4
  <2> QED
    BY <2>2, <2>3
<1> QED
  BY <1>2, <1>3
-----------------------------------------------------------------------------
(* One more round of the rules. *)
Round(s, k, w) ==
  [h \in DOMAIN s |->
     IF k = 0 \/ (s[h].kind = "packed" /\ Variable \in WidthsOfTypes(s[h], w))
     THEN Variable ELSE WidthByRule(s[h], w)]

Rounds(f, s) == \A k \in 0..Len(s) : f[k] = Round(s, k, f[k - 1])

(* The widths of a schema are what the last round comes to. *)
LEMMA WidthsAreLayers ==
  ASSUME NEW s \in Seq(Definition)
  PROVE  \E f : Rounds(f, s) /\ Widths(s) = f[Len(s)]
<1> DEFINE n == Len(s)
           D(f, k) == [i \in 0..k |-> Round(s, i, f[i - 1])]
           P(k) == \E f : f = D(f, k)
           K == {k \in Nat : P(k)}
           F == CHOOSE f : f = D(f, n)
<1>1. n \in Nat
  OBVIOUS
<1>2. P(0)
  <2> DEFINE w == [i \in 0..0 |-> Round(s, 0, s)]
  <2>1. Round(s, 0, s) = Round(s, 0, w[0 - 1])
    BY DEF Round
  <2>2. w = D(w, 0)
    <3>1. ASSUME NEW i \in 0..0 PROVE w[i] = Round(s, i, w[i - 1])
      <4>1. i = 0
        BY <3>1
      <4>2. w[0] = Round(s, 0, s)
        OBVIOUS
      <4> HIDE DEF w
      <4> QED
        BY <2>1, <4>1, <4>2
    <3>2. w = [i \in 0..0 |-> w[i]]
      OBVIOUS
    <3> HIDE DEF w
    <3> QED
      BY <3>1, <3>2
  <2> HIDE DEF w, D
  <2> QED
    BY <2>2
<1>3. ASSUME NEW k \in Nat, P(k) PROVE P(k + 1)
  <2>1. PICK f : f = D(f, k)
    BY <1>3
  <2> DEFINE g == [i \in 0..(k + 1) |-> IF i <= k THEN f[i] ELSE Round(s, k + 1, f[k])]
  <2>2. ASSUME NEW i \in 0..k PROVE f[i] = Round(s, i, f[i - 1])
    <3> HIDE DEF g
    <3> QED
      BY <2>1
  <2>3. ASSUME NEW i \in 0..(k + 1) PROVE g[i] = Round(s, i, g[i - 1])
    <3>1. CASE i = 0
      <4>1. g[0] = f[0] /\ f[0] = Round(s, 0, f[0 - 1])
        BY <2>2
      <4>2. Round(s, 0, f[0 - 1]) = Round(s, 0, g[0 - 1])
        BY DEF Round
      <4> HIDE DEF g
      <4> QED
        BY <3>1, <4>1, <4>2
    <3>2. CASE i # 0 /\ i <= k
      <4>1. g[i] = f[i] /\ g[i - 1] = f[i - 1] /\ i \in 0..k
        BY <3>2
      <4> HIDE DEF g
      <4> QED
        BY <2>2, <4>1
    <3>3. CASE ~(i <= k)
      <4>1. i = k + 1 /\ i - 1 = k /\ g[k] = f[k] /\ g[k + 1] = Round(s, k + 1, f[k])
        BY <3>3
      <4> HIDE DEF g
      <4> QED
        BY <4>1
    <3> QED
      BY <3>1, <3>2, <3>3
  <2>4. g = [i \in 0..(k + 1) |-> g[i]]
    OBVIOUS
  <2> HIDE DEF g
  <2>5. g = D(g, k + 1)
    BY <2>3, <2>4
  <2> QED
    BY <2>5
<1>4. P(n)
  <2> HIDE DEF P
  <2>1. 0 \in K /\ \A k \in Nat : k \in K => k + 1 \in K
    BY <1>2, <1>3
  <2>2. Nat \subseteq K
    <3> HIDE DEF K
    <3> QED
      BY <2>1, SetInduction
  <2> QED
    BY <1>1, <2>2
<1>5. F = D(F, n)
  <2> HIDE DEF D, n
  <2> QED
    BY <1>4
<1>6. Widths(s) = F[n]
  BY DEF Widths, Round
<1> HIDE DEF F
<1>7. Rounds(F, s)
  BY <1>5 DEF Rounds
<1> QED
  BY <1>6, <1>7

(***************************************************************************)
(* After as many rounds as definitions have their width, theirs are final. *)
(***************************************************************************)
RoundsGive(s, S, widths) ==
  \A f : Rounds(f, s) =>
    \A n \in 0..Len(s) : Cardinality(S) <= n => \A h \in S : f[n][h] = widths[h]

RoundsAgree == RoundsGive(schema, HaveWidth, bit_width)

LEMMA HaveWidthFinite ==
  ASSUME Typed
  PROVE  /\ Len(schema) \in Nat /\ Handles = 1..Len(schema)
         /\ IsFiniteSet(HaveWidth) /\ Cardinality(HaveWidth) \in Nat
         /\ Cardinality(HaveWidth) <= Len(schema)
         /\ HaveWidth # Handles => Cardinality(HaveWidth) < Len(schema)
<1>1. Len(schema) \in Nat /\ Handles = 1..Len(schema)
  BY DEF Typed, TypeOK, Handles
<1>2. IsFiniteSet(Handles) /\ Cardinality(Handles) = Len(schema)
  <2>1. IsFiniteSet(1..Len(schema))
        /\ Cardinality(1..Len(schema)) = IF 1 > Len(schema) THEN 0 ELSE Len(schema) - 1 + 1
    BY <1>1, FS_Interval
  <2>2. (IF 1 > Len(schema) THEN 0 ELSE Len(schema) - 1 + 1) = Len(schema)
    BY <1>1
  <2> QED
    BY <1>1, <2>1, <2>2
<1>3. HaveWidth \in SUBSET Handles
  BY DEF HaveWidth
<1>4. /\ IsFiniteSet(HaveWidth) /\ Cardinality(HaveWidth) <= Cardinality(Handles)
      /\ Cardinality(Handles) = Cardinality(HaveWidth) => Handles = HaveWidth
  BY <1>2, <1>3, FS_Subset
<1>5. Cardinality(HaveWidth) \in Nat
  BY <1>4, FS_CardinalityType
<1> QED
  BY <1>1, <1>2, <1>4, <1>5

(* At its end a definition has the width the rules give it, from any table *)
(* that has the widths which are known.                                    *)
LEMMA EndByRule ==
  ASSUME Typed, Bounded, Recorded, AtEnd,
         NEW w, \A h \in HaveWidth : w[h] = bit_width[h]
  PROVE  /\ WidthByRule(Def, w) = FinalWidth(Def, Top.width)
         /\ Def.kind = "packed" => Variable \notin WidthsOfTypes(Def, w)
<1> DEFINE t == Top.handle
           n == Len(Types)
<1>1. t \in Handles /\ Def \in Definition /\ Types \in Seq(Type)
  BY TopTyped DEF AtEnd, Active
<1>2. Seen(schema, bit_width, t, n) /\ Top.width = PartialWidth(Def, n, bit_width)
  BY EndComplete
<1>3. n \in Nat /\ n <= n /\ DOMAIN Types = 1..n /\ Types = TypesOf(Def) /\ Def = schema[t]
  BY <1>1 DEF Types, Def
<1> HIDE DEF n, t
<1>4. CASE IsSequence(Def)
  <2>1. Def.kind \in {"vector", "stream"}
    BY <1>4 DEF IsSequence
  <2> QED
    BY <1>2, <2>1 DEF WidthByRule, FinalWidth, PartialWidth
<1>5. CASE ~IsSequence(Def)
  <2>1. ASSUME NEW k \in 1..n
        PROVE  /\ MemberWidth(Def, k, bit_width) \in BitWidth
               /\ Def.kind = "packed" => MemberWidth(Def, k, bit_width) \in FixedWidths
               /\ MemberWidth(Def, k, w) = MemberWidth(Def, k, bit_width)
    <3>1. /\ MemberWidth(schema[t], k, bit_width) \in BitWidth
          /\ schema[t].kind = "packed" => MemberWidth(schema[t], k, bit_width) \in FixedWidths
      BY <1>1, <1>2, <1>3, <1>5, SeenTyped
    <3>2. Types[k] \in Type
      BY <1>1, <1>3
    <3>3. Types[k].tag = "allocated" => Types[k].handle \in HaveWidth
      BY <1>2, <1>3, <1>5 DEF Seen, HaveWidth, Handles
    <3>4. WidthOfType(Types[k], w) = WidthOfType(Types[k], bit_width)
      BY <3>2, <3>3, TagOfType DEF WidthOfType
    <3> QED
      BY <1>3, <3>1, <3>4 DEF MemberWidth
  <2>2. WidthByRule(Def, w) = WidthByRule(Def, bit_width)
        /\ WidthsOfTypes(Def, w) = WidthsOfTypes(Def, bit_width)
    BY <1>3, <2>1, RuleSame
  <2>3. FinalWidth(Def, PartialWidth(Def, n, bit_width)) = WidthByRule(Def, bit_width)
    BY <1>1, <1>3, <2>1, PartialFinal
  <2>4. Def.kind = "packed" => Variable \notin WidthsOfTypes(Def, bit_width)
    BY <1>3, <2>1 DEF WidthsOfTypes, MemberWidth, FixedWidths
  <2> QED
    BY <1>2, <2>2, <2>3, <2>4
<1> QED
  BY <1>4, <1>5

LEMMA EndRound ==
  ASSUME Typed, Bounded, Recorded, RoundsAgree, AtEnd, NEW f, Rounds(f, schema),
         NEW n \in 1..Len(schema), Cardinality(HaveWidth) <= n - 1
  PROVE  f[n][Top.handle] = FinalWidth(Def, Top.width)
<1> DEFINE t == Top.handle
           w == f[n - 1]
<1>1. Len(schema) \in Nat /\ n - 1 \in 0..Len(schema) /\ n \in 0..Len(schema) /\ n # 0
  BY HaveWidthFinite
<1>2. \A h \in HaveWidth : w[h] = bit_width[h]
  BY <1>1 DEF RoundsAgree, RoundsGive
<1>3. f[n] = Round(schema, n, w)
  BY <1>1 DEF Rounds
<1> HIDE DEF w
<1>4. WidthByRule(Def, w) = FinalWidth(Def, Top.width)
      /\ (Def.kind = "packed" => Variable \notin WidthsOfTypes(Def, w))
  BY <1>2, EndByRule
<1>5. t \in DOMAIN schema
  BY TopTyped DEF AtEnd, Active, Handles
<1>6. f[n][t] = IF n = 0 \/ (schema[t].kind = "packed" /\ Variable \in WidthsOfTypes(schema[t], w))
                THEN Variable ELSE WidthByRule(schema[t], w)
  <2> HIDE DEF t
  <2> QED
    BY <1>3, <1>5 DEF Round
<1> QED
  BY <1>1, <1>4, <1>6 DEF Def

LEMMA RoundsStart == Starts => RoundsAgree
BY DEF Starts, New, RoundsAgree, RoundsGive, HaveWidth, Handles

LEMMA RoundsStep == Typed /\ Bounded /\ Recorded /\ RoundsAgree /\ [Next]_vars => RoundsAgree'
<1> SUFFICES ASSUME Typed, Bounded, Recorded, RoundsAgree, [Next]_vars PROVE RoundsAgree'
  OBVIOUS
<1>1. CASE ~Leave
  BY <1>1, OnlyLeaveWrites DEF RoundsAgree, RoundsGive, HaveWidth, Handles
<1>2. CASE Leave
  <2> DEFINE t == Top.handle
  <2>1. /\ schema' = schema /\ AtEnd /\ bit_width'[t] = FinalWidth(Def, Top.width)
        /\ HaveWidth' = HaveWidth \cup {t} /\ \A h \in HaveWidth : bit_width'[h] = bit_width[h]
    BY <1>2, LeaveWrites
  <2>2. CASE t \in HaveWidth
    <3>1. HaveWidth' = HaveWidth
      BY <2>1, <2>2
    <3>2. RoundsGive(schema, HaveWidth, bit_width')
      BY <2>1 DEF RoundsAgree, RoundsGive
    <3> QED
      BY <2>1, <3>1, <3>2 DEF RoundsAgree
  <2>3. CASE t \notin HaveWidth
    <3>1. Cardinality(HaveWidth') = Cardinality(HaveWidth) + 1 /\ Cardinality(HaveWidth) \in Nat
          /\ Len(schema) \in Nat
      BY <2>1, <2>3, HaveWidthFinite, FS_AddElement
    <3> SUFFICES ASSUME NEW f, Rounds(f, schema), NEW n \in 0..Len(schema),
                        Cardinality(HaveWidth) + 1 <= n, NEW h \in HaveWidth \cup {t}
                 PROVE  f[n][h] = bit_width'[h]
      BY <2>1, <3>1 DEF RoundsAgree, RoundsGive
    <3>2. n \in 1..Len(schema) /\ Cardinality(HaveWidth) <= n - 1 /\ Cardinality(HaveWidth) <= n
      BY <3>1
    <3>3. CASE h = t
      BY <2>1, <3>2, <3>3, EndRound
    <3>4. CASE h # t
      BY <2>1, <3>2, <3>4 DEF RoundsAgree, RoundsGive
    <3> QED
      BY <3>3, <3>4
  <2> QED
    BY <2>2, <2>3
<1> QED
  BY <1>1, <1>2

(* What the rules say of the whole schema is what is in the table, *)
LEMMA WidthsKnown ==
  ASSUME Typed, RoundsAgree, NEW h \in HaveWidth
  PROVE  Widths(schema)[h] = bit_width[h]
<1>1. schema \in Seq(Definition)
  BY DEF Typed, TypeOK
<1>2. PICK f : Rounds(f, schema) /\ Widths(schema) = f[Len(schema)]
  BY <1>1, WidthsAreLayers
<1>3. Len(schema) \in 0..Len(schema) /\ Cardinality(HaveWidth) <= Len(schema)
  BY HaveWidthFinite
<1> QED
  BY <1>2, <1>3 DEF RoundsAgree, RoundsGive

(* and what is about to be written there. *)
LEMMA WidthsAtEnd ==
  ASSUME Typed, Bounded, Recorded, RoundsAgree, AtEnd
  PROVE  Widths(schema)[Top.handle] = FinalWidth(Def, Top.width)
<1> DEFINE t == Top.handle
<1>1. t \in Handles /\ schema \in Seq(Definition)
  BY TopTyped DEF AtEnd, Active, Typed, TypeOK
<1>2. CASE t \in HaveWidth
  <2>1. Widths(schema)[t] = bit_width[t]
    <3> HIDE DEF t
    <3> QED
      BY <1>2, WidthsKnown
  <2>2. Complete(schema, bit_width, t)
    BY <1>1, <1>2 DEF Recorded, Completed, HaveWidth
  <2>3. Top.width = PartialWidth(Def, Len(Types), bit_width)
    BY EndComplete
  <2> QED
    BY <2>1, <2>2, <2>3 DEF Complete, Types, Def
<1>3. CASE t \notin HaveWidth
  <2>1. PICK f : Rounds(f, schema) /\ Widths(schema) = f[Len(schema)]
    BY <1>1, WidthsAreLayers
  <2>2. /\ Len(schema) \in 1..Len(schema)
        /\ Cardinality(HaveWidth) <= Len(schema) - 1
    BY <1>1, <1>3, HaveWidthFinite
  <2> QED
    BY <2>1, <2>2, EndRound
<1> QED
  BY <1>2, <1>3
-----------------------------------------------------------------------------
(***************************************************************************)
(* Who has been visited: what has a width, what the loop has passed, and   *)
(* sequences only from a definition that mentions them.  What is flagged:  *)
(* the sequences below the top, while their chain is being descended.      *)
(***************************************************************************)
Met(h) == states[h] # "unvisited"

Visited ==
  /\ \A h \in HaveWidth : Met(h)
  /\ \A h \in Handles : h < root /\ ~IsSequence(schema[h]) => Met(h)
  /\ \A part \in SUBSET {h \in Handles : IsSequence(schema[h]) /\ Met(h)} : part # {} =>
       \E h \in Handles \ part, t \in part : Met(h) /\ Mentions(schema, h, t)

OnChain ==
  \A h \in Handles : rec_sequences[h] =>
    /\ stack # <<>> /\ IsSequence(Def) /\ Top.next = 1
    /\ \E i \in DOMAIN stack : i < Len(stack) /\ stack[i].handle = h

LEMMA EnterVisited ==
  ASSUME Typed, Visited, NEW h \in Handles, NEW caller, Enter(caller, h),
         IsSequence(schema[h]) => \E g \in Handles : Met(g) /\ Mentions(schema, g, h),
         root' = root \/ (root' = root + 1 /\ h = root)
  PROVE  Visited'
<1>1. /\ schema' = schema /\ Handles' = Handles /\ HaveWidth' = HaveWidth
      /\ states' = [states EXCEPT ![h] = "visited"]
  BY DEF Enter, Handles, HaveWidth
<1>2. DOMAIN states = Handles /\ root \in Nat /\ Handles \subseteq Nat
  BY DEF Typed, TypeOK, Handles
<1>3. \A g \in Handles : Met(g)' <=> Met(g) \/ g = h
  BY <1>1, <1>2 DEF Met
<1>4. \A g \in HaveWidth' : Met(g)'
  BY <1>1, <1>3 DEF Visited, HaveWidth
<1>5. ASSUME NEW g \in Handles, g < root', ~IsSequence(schema[g]) PROVE Met(g)'
  <2>1. CASE g < root
    BY <1>3, <1>5, <2>1 DEF Visited
  <2>2. CASE ~(g < root)
    <3>1. g = root /\ h = root
      BY <1>2, <1>5, <2>2
    <3> QED
      BY <1>3, <3>1
  <2> QED
    BY <2>1, <2>2
<1>6. ASSUME NEW part \in SUBSET {g \in Handles : IsSequence(schema[g]) /\ Met(g)'}, part # {}
      PROVE  \E g \in Handles \ part, t \in part : Met(g)' /\ Mentions(schema, g, t)
  <2>1. CASE part \ {h} = {} /\ ~Met(h)
    <3>1. part = {h} /\ IsSequence(schema[h])
      BY <1>6, <2>1
    <3>2. PICK g \in Handles : Met(g) /\ Mentions(schema, g, h)
      BY <3>1
    <3> QED
      BY <1>3, <2>1, <3>1, <3>2
  <2>2. CASE part \ {h} # {} /\ ~Met(h)
    <3>1. part \ {h} \in SUBSET {g \in Handles : IsSequence(schema[g]) /\ Met(g)}
      BY <1>3
    <3>2. PICK g \in Handles \ (part \ {h}), t \in part \ {h} : Met(g) /\ Mentions(schema, g, t)
      BY <2>2, <3>1 DEF Visited
    <3>3. g # h
      BY <2>2, <3>2
    <3> QED
      BY <1>3, <3>2, <3>3
  <2>3. CASE Met(h)
    <3>1. part \in SUBSET {g \in Handles : IsSequence(schema[g]) /\ Met(g)}
      BY <1>3, <2>3
    <3>2. PICK g \in Handles \ part, t \in part : Met(g) /\ Mentions(schema, g, t)
      BY <1>6, <3>1 DEF Visited
    <3> QED
      BY <1>3, <3>2
  <2> QED
    BY <2>1, <2>2, <2>3
<1> QED
  BY <1>1, <1>4, <1>5, <1>6 DEF Visited

LEMMA VisitedStart == Starts => Visited /\ OnChain
<1> SUFFICES ASSUME Starts PROVE Visited /\ OnChain
  OBVIOUS
<1>1. HaveWidth = {} /\ \A h \in Handles : ~Met(h)
  BY DEF Starts, New, HaveWidth, Met
<1>2. \A h \in Handles : ~(h < 1)
  BY DEF Starts, Handles
<1>3. \A h \in Handles : ~rec_sequences[h]
  BY DEF Starts, New
<1> QED
  BY <1>1, <1>2, <1>3 DEF Visited, OnChain, Starts, New

(* The definition on top has been met, and it mentions its next type. *)
LEMMA TopMentions ==
  ASSUME Typed, Bounded, stack # <<>>, Top.next \in DOMAIN Types, Ty.tag = "allocated"
  PROVE  Top.handle \in Handles /\ Met(Top.handle) /\ Mentions(schema, Top.handle, Ty.handle)
<1>1. Len(stack) \in DOMAIN stack /\ Top.handle \in Handles /\ Ty \in Type
  BY TopTyped
<1>2. Met(Top.handle)
  BY <1>1 DEF Bounded, Marked, Met, Top
<1> QED
  BY <1>1, <1>2, AllocatedIsMention DEF Mentions, Ty, Types, Def

LEMMA VisitedStep == Typed /\ Bounded /\ Recorded /\ Visited /\ [Next]_vars => Visited'
<1> SUFFICES ASSUME Typed, Bounded, Recorded, Visited, [Next]_vars PROVE Visited'
  OBVIOUS
<1>0. ASSUME UNCHANGED <<schema, states, bit_width, root>> PROVE Visited'
  BY <1>0 DEF Visited, Met, HaveWidth, Handles
<1>1. CASE EnterRoot
  <2>1. Enter(<<>>, root) /\ root \in Handles /\ ~IsSequence(schema[root]) /\ root' = root + 1
    BY <1>1 DEF EnterRoot, AtRoot, NextRoot
  <2> QED
    BY <2>1, EnterVisited
<1>2. CASE SkipSequence
  <2>1. /\ UNCHANGED <<schema, states, bit_width>> /\ IsSequence(schema[root])
        /\ root' = root + 1 /\ root \in Handles
    BY <1>2 DEF SkipSequence, AtRoot, NextRoot, tables
  <2>2. Handles \subseteq Nat /\ Handles' = Handles /\ HaveWidth' = HaveWidth
    BY <2>1 DEF Typed, TypeOK, Handles, HaveWidth
  <2>3. \A h \in Handles : h < root' => h < root \/ h = root
    BY <2>1, <2>2
  <2> QED
    BY <2>1, <2>2, <2>3 DEF Visited, Met
<1>3. CASE EnterMember
  <2> DEFINE h == Ty.handle
  <2>1. /\ stack # <<>> /\ Top.next \in DOMAIN Types /\ Ty.tag = "allocated"
        /\ h \in Handles /\ Enter(stack, h) /\ root' = root
    BY <1>3 DEF EnterMember, AtType, AtMember, Active
  <2>2. \E g \in Handles : Met(g) /\ Mentions(schema, g, h)
    BY <2>1, TopMentions
  <2> HIDE DEF h
  <2> QED
    BY <2>1, <2>2, EnterVisited
<1>4. CASE EnterElement
  <2> DEFINE h == Ty.handle
  <2>1. /\ stack # <<>> /\ Top.next \in DOMAIN Types /\ Ty.tag = "allocated"
        /\ h \in Handles /\ Enter(Advance(Variable), h) /\ root' = root
    BY <1>4 DEF EnterElement, AtElement, Active
  <2>2. \E g \in Handles : Met(g) /\ Mentions(schema, g, h)
    BY <2>1, TopMentions
  <2> HIDE DEF h
  <2> QED
    BY <2>1, <2>2, EnterVisited
<1>5. CASE Leave
  <2> DEFINE t == Top.handle
  <2>1. /\ schema' = schema /\ Handles' = Handles /\ AtEnd /\ t \in Handles
        /\ HaveWidth' = HaveWidth \cup {t}
    BY <1>5, LeaveWrites
  <2>2. states' = [states EXCEPT ![t] = "validated"] /\ root' = root
    BY <1>5 DEF Leave
  <2>3. Met(t)
    BY <2>1, TopTyped DEF AtEnd, Active, Bounded, Marked, Met, Top
  <2>4. DOMAIN states = Handles
    BY DEF Typed, TypeOK
  <2>5. \A h \in Handles : Met(h)' <=> Met(h)
    <3>1. \A h \in Handles : states'[h] = IF h = t THEN "validated" ELSE states[h]
      <4> HIDE DEF t
      <4> QED
        BY <2>1, <2>2, <2>4
    <3> QED
      BY <2>3, <3>1 DEF Met
  <2>6. {h \in Handles : IsSequence(schema[h]) /\ Met(h)'} = {h \in Handles : IsSequence(schema[h]) /\ Met(h)}
    BY <2>5
  <2> HIDE DEF t
  <2>7. \A h \in HaveWidth' : Met(h)'
    BY <2>1, <2>3, <2>5 DEF Visited, HaveWidth
  <2>8. \A h \in Handles' : h < root' /\ ~IsSequence(schema'[h]) => Met(h)'
    BY <2>1, <2>2, <2>5 DEF Visited
  <2>9. ASSUME NEW part \in SUBSET {h \in Handles : IsSequence(schema[h]) /\ Met(h)'}, part # {}
        PROVE  \E h \in Handles \ part, g \in part : Met(h)' /\ Mentions(schema, h, g)
    <3>1. PICK h \in Handles \ part, g \in part : Met(h) /\ Mentions(schema, h, g)
      BY <2>6, <2>9 DEF Visited
    <3> QED
      BY <2>5, <3>1
  <2> QED
    BY <2>1, <2>7, <2>8, <2>9 DEF Visited
<1>6. CASE UNCHANGED vars
  BY <1>0, <1>6 DEF vars
<1>7. CASE Next /\ ~(EnterRoot \/ SkipSequence \/ EnterMember \/ EnterElement \/ Leave)
  <2>1. UNCHANGED <<schema, states, bit_width, root>>
    BY <1>7 DEF Next, RejectIndex, RejectHandle, RejectRecursion, RejectWidth, TakeMember,
                RejectStream, RejectElement, EndChain, RejectTotal, RejectUnused, Finish, Fail, tables
  <2> QED
    BY <1>0, <2>1
<1> QED
  BY <1>1, <1>2, <1>3, <1>4, <1>5, <1>6, <1>7

(* Whoever is about to enter or leave anything but a sequence finds no flag. *)
LEMMA OnChainStep == Typed /\ Bounded /\ OnChain /\ [Next]_vars => OnChain'
<1> SUFFICES ASSUME Typed, Bounded, OnChain, [Next]_vars PROVE OnChain'
  OBVIOUS
<1>0. ASSUME UNCHANGED <<schema, rec_sequences, stack>> PROVE OnChain'
  BY <1>0 DEF OnChain, Top, Def, Handles
<1>1. ASSUME schema' = schema, rec_sequences' = rec_sequences,
             stack = <<>> \/ ~IsSequence(Def) \/ Top.next # 1
      PROVE  OnChain'
  <2>1. \A h \in Handles : ~rec_sequences[h]
    BY <1>1 DEF OnChain
  <2> QED
    BY <1>1, <2>1 DEF OnChain, Handles
<1>2. CASE EnterRoot
  BY <1>1, <1>2 DEF EnterRoot, AtRoot, Enter
<1>3. CASE EnterMember
  BY <1>1, <1>3 DEF EnterMember, AtType, AtMember, Enter
<1>4. CASE TakeMember
  BY <1>1, <1>4 DEF TakeMember, AtType, AtMember
<1>5. CASE Leave
  <2>1. AtEnd /\ schema' = schema /\ rec_sequences' = rec_sequences
    BY <1>5 DEF Leave
  <2>2. IsSequence(Def) => Top.next # 1
    BY <2>1, SequenceFrame DEF AtEnd, Active
  <2> QED
    BY <1>1, <2>1, <2>2
<1>6. CASE EndChain
  <2>1. \A h \in Handles : ~rec_sequences'[h]
    BY <1>6 DEF EndChain, ClearedFlags
  <2> QED
    BY <1>6, <2>1 DEF OnChain, EndChain, Handles
<1>7. CASE EnterElement
  <2> DEFINE caller == Advance(Variable)
             h == Ty.handle
             n == Len(stack)
  <2>1. /\ stack # <<>> /\ IsSequence(Def) /\ Top.next \in DOMAIN Types
        /\ h \in Handles /\ IsSequence(schema[h]) /\ Enter(caller, h)
        /\ rec_sequences' = [rec_sequences EXCEPT ![Top.handle] = TRUE]
    BY <1>7 DEF EnterElement, AtElement, Active
  <2>2. /\ caller \in Seq(Frames) /\ DOMAIN caller = DOMAIN stack /\ Len(caller) = n
        /\ \A i \in DOMAIN stack : caller[i].handle = stack[i].handle
    BY <2>1, VariableIsWidth, AdvanceTyped DEF IsSequence
  <2>3. n \in DOMAIN stack /\ stack \in Seq(Frames) /\ rec_sequences \in [Handles -> BOOLEAN]
    BY <2>1, TopTyped DEF Typed, TypeOK
  <2>4. schema' = schema /\ stack' = Append(caller, Frame(h)) /\ Frame(h).handle = h /\ Frame(h).next = 1
    BY <2>1 DEF Enter, Frame
  <2> HIDE DEF caller, h, n
  <2>5. /\ Len(stack') = n + 1 /\ DOMAIN stack = 1..n /\ DOMAIN stack' = 1..(n + 1) /\ n \in Nat
        /\ stack'[n + 1] = Frame(h) /\ \A i \in 1..n : stack'[i] = caller[i]
    BY <2>2, <2>3, <2>4 DEF n
  <2>6. stack' # <<>> /\ Top' = Frame(h) /\ IsSequence(Def')
    BY <2>1, <2>4, <2>5 DEF Top, Def
  <2>7. \A g \in Handles : rec_sequences'[g] => rec_sequences[g] \/ g = Top.handle
    BY <2>1, <2>3
  <2>8. ASSUME NEW g \in Handles, rec_sequences'[g]
        PROVE  \E i \in DOMAIN stack' : i < Len(stack') /\ stack'[i].handle = g
    <3>1. \E i \in DOMAIN stack : stack[i].handle = g
      <4>1. CASE rec_sequences[g]
        BY <4>1 DEF OnChain
      <4>2. CASE g = Top.handle
        BY <2>3, <4>2 DEF Top, n
      <4> QED
        BY <2>7, <2>8, <4>1, <4>2
    <3>2. PICK i \in 1..n : stack[i].handle = g
      BY <2>5, <3>1
    <3>3. i \in DOMAIN stack' /\ i < Len(stack') /\ stack'[i].handle = g
      BY <2>2, <2>5, <3>2
    <3> QED
      BY <3>3
  <2> QED
    BY <2>4, <2>6, <2>8 DEF OnChain, Handles
<1>8. CASE UNCHANGED vars
  BY <1>0, <1>8 DEF vars
<1>9. CASE Next /\ ~(EnterRoot \/ EnterMember \/ TakeMember \/ EnterElement \/ EndChain \/ Leave)
  <2>1. UNCHANGED <<schema, rec_sequences, stack>>
    BY <1>9 DEF Next, SkipSequence, RejectIndex, RejectHandle, RejectRecursion, RejectWidth,
                RejectStream, RejectElement, RejectTotal, RejectUnused, Finish, Fail, tables
  <2> QED
    BY <1>0, <2>1
<1> QED
  BY <1>2, <1>3, <1>4, <1>5, <1>6, <1>7, <1>8, <1>9
-----------------------------------------------------------------------------
(***************************************************************************)
(* The rules, on a schema in which every definition is on record.          *)
(***************************************************************************)
LEMMA KnownWidth ==
  ASSUME Typed, RoundsAgree, NEW ty \in Type, ty.tag = "allocated" => ty.handle \in HaveWidth
  PROVE  WidthOfType(ty, Widths(schema)) = WidthOfType(ty, bit_width)
<1>1. CASE ty.tag = "allocated"
  <2>1. Widths(schema)[ty.handle] = bit_width[ty.handle]
    BY <1>1, WidthsKnown
  <2> QED
    BY <1>1, <2>1 DEF WidthOfType
<1>2. CASE ty.tag # "allocated"
  BY <1>2, TagOfType DEF WidthOfType
<1> QED
  BY <1>1, <1>2

(* The members of a definition are what its types are listed from. *)
LEMMA MembersOfDefinition ==
  ASSUME NEW def \in Definition, def.kind \in {"packed", "struct", "enum", "dict"}
  PROVE  /\ DOMAIN def.members = DOMAIN TypesOf(def)
         /\ \A i \in DOMAIN def.members : TypesOf(def)[i] = def.members[i].ty
         /\ IsIndexed(def) =>
              /\ def.index_ty \in 1..8
              /\ \A i \in DOMAIN def.members : def.members[i].index \in Nat
<1>1. TypesOf(def) = [i \in DOMAIN def.members |-> def.members[i].ty]
  BY DEF TypesOf, IsSequence
<1>2. ASSUME IsIndexed(def) PROVE /\ def.index_ty \in 1..8
                                  /\ \A i \in DOMAIN def.members : def.members[i].index \in Nat
  <2>1. def.index_ty \in 1..8 /\ def.members \in Seq(IndexedMember)
    BY <1>2, KindOfDefinition DEF IsIndexed
  <2>2. \A i \in DOMAIN def.members : def.members[i] \in IndexedMember
    BY <2>1
  <2> QED
    BY <2>1, <2>2 DEF IndexedMember
<1> QED
  BY <1>1, <1>2

(* The cap of a tag of less than 64 bits is that of the rules. *)
LEMMA CapOfTag ==
  ASSUME NEW def, def.kind = "enum", def.index_ty \in 1..8, ~ShiftOverflows(def)
  PROVE  8 * def.index_ty # 64 /\ IndexCap(def) = 2 ^ (8 * def.index_ty)
<1> DEFINE n == def.index_ty
<1>1. n \in 1..8 /\ ~(8 * n >= 64)
  BY DEF ShiftOverflows
<1> HIDE DEF n
<1>2. (8 * n) % 64 = 8 * n /\ 8 * n # 64
  BY <1>1
<1> QED
  BY <1>2 DEF IndexCap, n

(* An index that is let through is in range, one that is refused is not,   *)
(* unless the tag has 64 bits.                                             *)
InRange(def, i) ==
  IF def.kind = "dict" THEN def.members[i].index < 8 * def.index_ty
  ELSE 8 * def.index_ty = 64 \/ def.members[i].index < 2 ^ (8 * def.index_ty)

LEMMA IndexInRange ==
  ASSUME NEW def \in Definition, IsIndexed(def), NEW i \in DOMAIN def.members,
         IndexError(def, i) = "none"
  PROVE  InRange(def, i)
<1>1. def.index_ty \in 1..8 /\ def.kind \in {"enum", "dict"}
  BY MembersOfDefinition DEF IsIndexed
<1>2. def.members[i].index < IndexCap(def)
  BY DEF IndexError, IndexFits
<1>3. CASE def.kind = "dict"
  BY <1>2, <1>3 DEF IndexCap, InRange
<1>4. CASE def.kind = "enum" /\ ShiftOverflows(def)
  <2>1. 8 * def.index_ty = 64
    BY <1>1, <1>4 DEF ShiftOverflows
  <2> QED
    BY <1>4, <2>1 DEF InRange
<1>5. CASE def.kind = "enum" /\ ~ShiftOverflows(def)
  BY <1>1, <1>2, <1>5, CapOfTag DEF InRange
<1> QED
  BY <1>1, <1>3, <1>4, <1>5

LEMMA IndexNotInRange ==
  ASSUME NEW def \in Definition, NEW i \in DOMAIN TypesOf(def),
         IndexError(def, i) = "IndexOutOfRange", ~ShiftOverflows(def)
  PROVE  IsIndexed(def) /\ i \in DOMAIN def.members /\ ~InRange(def, i)
<1>1. IsIndexed(def) /\ ~(def.members[i].index < IndexCap(def))
  BY DEF IndexError, IndexFits
<1>2. i \in DOMAIN def.members /\ def.index_ty \in 1..8 /\ def.kind \in {"enum", "dict"}
  BY <1>1, MembersOfDefinition DEF IsIndexed
<1>3. CASE def.kind = "dict"
  BY <1>1, <1>2, <1>3 DEF IndexCap, InRange
<1>4. CASE def.kind = "enum"
  BY <1>1, <1>2, <1>4, CapOfTag DEF InRange
<1> QED
  BY <1>2, <1>3, <1>4

(* Ok: with every definition on record, every rule is kept. *)
LEMMA AllOnRecord ==
  ASSUME Typed, Recorded, Nested, RoundsAgree, Visited, HaveWidth = Handles
  PROVE  /\ HandlesInRange(schema)
         /\ RecursionGuarded(schema) /\ SequencesFounded(schema) /\ SequencesUsed(schema)
         /\ PackedMembersFixed(schema) /\ PackedAligned(schema) /\ MembersAligned(schema, 2)
         /\ IndicesInRange(schema) /\ IndicesDistinct(schema)
<1>1. DOMAIN schema = Handles
  BY DEF Handles
<1>2. ASSUME NEW h \in Handles
      PROVE  /\ Complete(schema, bit_width, h) /\ schema[h] \in Definition
             /\ TypesOf(schema[h]) \in Seq(Type) /\ Len(TypesOf(schema[h])) \in Nat
             /\ DOMAIN TypesOf(schema[h]) = 1..Len(TypesOf(schema[h]))
             /\ Seen(schema, bit_width, h, Len(TypesOf(schema[h])))
             /\ Len(TypesOf(schema[h])) <= Len(TypesOf(schema[h]))
  <2>1. schema[h] \in Definition
    BY DEF Typed, TypeOK, Handles
  <2>2. TypesOf(schema[h]) \in Seq(Type)
    BY <2>1, TypesOfDefinition
  <2>3. Complete(schema, bit_width, h)
    BY DEF Recorded, Completed, HaveWidth
  <2> QED
    BY <2>1, <2>2, <2>3 DEF Complete
<1>3. HandlesInRange(schema)
  <2> SUFFICES ASSUME NEW h \in Handles, NEW i \in DOMAIN TypesOf(schema[h]),
                      TypesOf(schema[h])[i].tag = "allocated"
               PROVE  TypesOf(schema[h])[i].handle \in Handles
    BY <1>1 DEF HandlesInRange
  <2> QED
    BY <1>1, <1>2 DEF Seen
<1>4. RecursionGuarded(schema)
  <2>1. DOMAIN schema \ SequencesIn(schema) = {h \in HaveWidth : ~IsSequence(schema[h])}
    BY <1>1 DEF SequencesIn
  <2> QED
    BY <2>1 DEF RecursionGuarded, Nested
<1>5. SequencesFounded(schema)
  <2>1. SequencesIn(schema) = {h \in HaveWidth : IsSequence(schema[h])}
    BY <1>1 DEF SequencesIn
  <2> QED
    BY <2>1 DEF SequencesFounded, Nested
<1>6. SequencesUsed(schema)
  <2>1. SequencesIn(schema) = {h \in Handles : IsSequence(schema[h]) /\ Met(h)}
    BY <1>1 DEF SequencesIn, Visited
  <2>2. ASSUME NEW part \in SUBSET SequencesIn(schema), part # {}
        PROVE  \E h \in DOMAIN schema \ part, t \in part : Mentions(schema, h, t)
    BY <1>1, <2>1, <2>2 DEF Visited
  <2> QED
    BY <2>2 DEF SequencesUsed
<1>7. ASSUME NEW h \in Handles, ~IsSequence(schema[h]), NEW i \in DOMAIN TypesOf(schema[h])
      PROVE  /\ MemberWidth(schema[h], i, Widths(schema)) = MemberWidth(schema[h], i, bit_width)
             /\ schema[h].kind = "packed" => MemberWidth(schema[h], i, bit_width) \in FixedWidths
             /\ WidthError(schema[h], i, MemberWidth(schema[h], i, bit_width)) = "none"
             /\ IndexError(schema[h], i) = "none"
  <2> DEFINE ty == TypesOf(schema[h])[i]
             n == Len(TypesOf(schema[h]))
  <2>1. ty \in Type /\ i \in 1..n /\ n \in Nat /\ n <= Len(TypesOf(schema[h]))
        /\ Seen(schema, bit_width, h, n)
    BY <1>2
  <2>2. ty.tag = "allocated" => ty.handle \in HaveWidth
    BY <1>1, <2>1 DEF Seen
  <2> HIDE DEF ty, n
  <2>3. WidthOfType(ty, Widths(schema)) = WidthOfType(ty, bit_width)
    BY <2>1, <2>2, KnownWidth
  <2>4. schema[h].kind = "packed" => MemberWidth(schema[h], i, bit_width) \in FixedWidths
    BY <1>7, <2>1, SeenTyped
  <2>5. WidthError(schema[h], i, MemberWidth(schema[h], i, bit_width)) = "none"
        /\ IndexError(schema[h], i) = "none"
    BY <2>1 DEF Seen
  <2> QED
    BY <2>3, <2>4, <2>5 DEF MemberWidth, ty
<1>8. PackedMembersFixed(schema)
  <2> SUFFICES ASSUME NEW h \in Handles, schema[h].kind = "packed", NEW i \in DOMAIN TypesOf(schema[h])
               PROVE  MemberWidth(schema[h], i, Widths(schema)) # Variable
    BY <1>1 DEF PackedMembersFixed, WidthsOfTypes, MemberWidth
  <2>1. ~IsSequence(schema[h])
    BY DEF IsSequence
  <2> QED
    BY <1>7, <2>1 DEF FixedWidths
<1>9. PackedAligned(schema)
  <2> SUFFICES ASSUME NEW h \in Handles, schema[h].kind = "packed"
               PROVE  ~Misaligned(Widths(schema)[h])
    BY <1>1 DEF PackedAligned
  <2>1. Widths(schema)[h] = bit_width[h]
    BY WidthsKnown
  <2> QED
    BY <1>2, <2>1 DEF Complete
<1>10. MembersAligned(schema, 2)
  <2> SUFFICES ASSUME NEW h \in Handles, schema[h].kind \in {"struct", "enum", "dict"},
                      NEW i \in DOMAIN schema[h].members, schema[h].kind # "enum" \/ i >= 2
               PROVE  ~Misaligned(WidthOfType(schema[h].members[i].ty, Widths(schema)))
    BY <1>1 DEF MembersAligned
  <2>1. ~IsSequence(schema[h])
    BY DEF IsSequence
  <2>2. i \in DOMAIN TypesOf(schema[h]) /\ TypesOf(schema[h])[i] = schema[h].members[i].ty
        /\ DOMAIN TypesOf(schema[h]) \subseteq Nat
    BY <1>2, MembersOfDefinition
  <2>3. WidthOfType(schema[h].members[i].ty, Widths(schema)) = MemberWidth(schema[h], i, bit_width)
        /\ WidthError(schema[h], i, MemberWidth(schema[h], i, bit_width)) = "none"
    BY <1>7, <2>1, <2>2 DEF MemberWidth
  <2>4. schema[h].kind # "enum" \/ i > 1
    BY <2>2
  <2> QED
    BY <2>3, <2>4 DEF WidthError
<1>11. ASSUME NEW h \in Handles, IsIndexed(schema[h]), NEW i \in DOMAIN schema[h].members
       PROVE  IndexError(schema[h], i) = "none"
  <2>1. ~IsSequence(schema[h]) /\ i \in DOMAIN TypesOf(schema[h])
    BY <1>2, <1>11, MembersOfDefinition DEF IsSequence, IsIndexed
  <2> QED
    BY <1>7, <2>1
<1>12. IndicesInRange(schema)
  BY <1>1, <1>2, <1>11, IndexInRange DEF IndicesInRange, InRange
<1>13. IndicesDistinct(schema)
  <2> SUFFICES ASSUME NEW h \in Handles, IsIndexed(schema[h]),
                      NEW i \in DOMAIN schema[h].members, NEW j \in DOMAIN schema[h].members,
                      schema[h].members[i].index = schema[h].members[j].index, i # j
               PROVE  FALSE
    BY <1>1 DEF IndicesDistinct
  <2>1. DOMAIN schema[h].members = 1..Len(TypesOf(schema[h])) /\ Len(TypesOf(schema[h])) \in Nat
    BY <1>2, MembersOfDefinition DEF IsIndexed
  <2>2. i \in 1..(j - 1) \/ j \in 1..(i - 1)
    BY <2>1
  <2>3. IndexError(schema[h], i) = "none" /\ IndexError(schema[h], j) = "none"
    BY <1>11
  <2>4. \A k \in DOMAIN schema[h].members : IndexError(schema[h], k) = "none" =>
          ~\E l \in 1..(k - 1) : schema[h].members[l].index = schema[h].members[k].index
    BY DEF IndexError
  <2> QED
    BY <2>2, <2>3, <2>4
<1> QED
  BY <1>3, <1>4, <1>5, <1>6, <1>8, <1>9, <1>10, <1>12, <1>13
-----------------------------------------------------------------------------
(***************************************************************************)
(* Each error is given for a schema that breaks the rule it is about.      *)
(***************************************************************************)

(* A part of the stack whose top mentions its bottom contains itself. *)
LEMMA CycleOnStack ==
  ASSUME Typed, Recorded, NEW i \in DOMAIN stack, NEW m \in DOMAIN stack, i <= m,
         Mentions(schema, stack[m].handle, stack[i].handle),
         NEW S, \A k \in i..m : stack[k].handle \in S
  PROVE  ~Grounded(schema, S)
<1> DEFINE part == {stack[k].handle : k \in i..m}
<1>1. stack \in Seq(Frames) /\ i \in Nat /\ m \in Nat /\ i \in i..m /\ i..m \subseteq DOMAIN stack
  BY DEF Typed, TypeOK
<1>2. part \in SUBSET S /\ part # {}
  BY <1>1
<1>3. ASSUME NEW h \in part PROVE \E t \in part : Mentions(schema, h, t)
  <2>1. PICK k \in i..m : h = stack[k].handle
    BY <1>3
  <2>2. CASE k = m
    BY <1>1, <2>1, <2>2
  <2>3. CASE k # m
    <3>1. k + 1 \in i..m /\ k \in DOMAIN stack /\ k + 1 \in DOMAIN stack
      BY <1>1, <2>1, <2>3
    <3>2. Mentions(schema, stack[k].handle, stack[k + 1].handle)
      BY <3>1 DEF Recorded, Linked, Links
    <3> QED
      BY <2>1, <3>1, <3>2
  <2> QED
    BY <2>2, <2>3
<1> QED
  BY <1>2, <1>3 DEF Grounded

LEMMA RecursionIsReal ==
  ASSUME Typed, Bounded, Accounted, Recorded, RejectRecursion
  PROVE  ~RecursionGuarded(schema)
<1> DEFINE n == Len(stack)
<1>1. /\ stack # <<>> /\ ~IsSequence(Def) /\ Top.next \in DOMAIN Types
      /\ Ty.tag = "allocated" /\ Ty.handle \in Handles /\ states[Ty.handle] = "visited"
  BY DEF RejectRecursion, AtType, AtMember, Active, Status
<1>2. stack \in Seq(Frames) /\ n \in DOMAIN stack /\ DOMAIN stack = 1..n /\ n \in Nat
      /\ \A k \in DOMAIN stack : stack[k].handle \in Handles
  <2>1. stack \in Seq(Frames)
    BY DEF Typed, TypeOK
  <2>2. n \in DOMAIN stack
    BY <1>1, TopTyped
  <2>3. DOMAIN stack = 1..n /\ n \in Nat
    BY <2>1
  <2>4. \A k \in DOMAIN stack : stack[k].handle \in Handles
    BY <2>1 DEF Frames
  <2> QED
    BY <2>1, <2>2, <2>3, <2>4
<1>3. PICK i \in DOMAIN stack : stack[i].handle = Ty.handle
  BY <1>1 DEF Accounted
<1>4. Mentions(schema, stack[n].handle, stack[i].handle)
  BY <1>1, <1>3, TopMentions DEF Top
<1>5. \A k \in DOMAIN stack : ~IsSequence(schema[stack[k].handle])
  <2> TAKE k \in DOMAIN stack
  <2>1. CASE k = n
    BY <1>1, <2>1 DEF Top, Def
  <2>2. CASE k # n
    <3>1. k < n
      BY <1>2, <2>2
    <3> QED
      BY <1>1, <1>2, <3>1 DEF Bounded, SequencesOnTop, Top, Def
  <2> QED
    BY <2>1, <2>2
<1> HIDE DEF n
<1>6. \A k \in i..n : stack[k].handle \in DOMAIN schema \ SequencesIn(schema)
  BY <1>2, <1>5 DEF SequencesIn, Handles
<1>7. i <= n
  BY <1>2
<1> QED
  BY <1>2, <1>4, <1>6, <1>7, CycleOnStack DEF RecursionGuarded

LEMMA StreamIsUnfounded ==
  ASSUME Typed, Bounded, OnChain, Recorded, RejectStream
  PROVE  ~SequencesFounded(schema)
<1> DEFINE n == Len(stack)
<1>1. stack # <<>> /\ IsSequence(Def) /\ rec_sequences[Top.handle]
  BY DEF RejectStream, AtElement, Active
<1>2. stack \in Seq(Frames) /\ n \in DOMAIN stack /\ DOMAIN stack = 1..n /\ n \in Nat
      /\ \A k \in DOMAIN stack : stack[k].handle \in Handles
  <2>1. stack \in Seq(Frames)
    BY DEF Typed, TypeOK
  <2>2. \A k \in DOMAIN stack : stack[k] \in Frames
    BY <2>1
  <2>3. \A k \in DOMAIN stack : stack[k].handle \in Handles
    BY <2>2 DEF Frames
  <2>4. DOMAIN stack = 1..n /\ n \in Nat
    BY <2>1
  <2> QED
    BY <1>1, <2>1, <2>3, <2>4, TopTyped
<1>3. PICK i \in DOMAIN stack : i < n /\ stack[i].handle = stack[n].handle
  BY <1>1, <1>2 DEF OnChain, Top
<1>4. IsSequence(schema[stack[i].handle])
  BY <1>1, <1>3 DEF Top, Def
<1>5. \A k \in i..n : IsSequence(schema[stack[k].handle])
  <2> TAKE k \in i..n
  <2>1. k \in DOMAIN stack /\ (k = i \/ i < k)
    BY <1>2, <1>3
  <2> QED
    BY <1>4, <2>1 DEF Bounded, SequencesOnTop
<1> HIDE DEF n
<1>6. n - 1 \in DOMAIN stack /\ i <= n - 1 /\ (n - 1) + 1 = n
  BY <1>2, <1>3
<1>7. Mentions(schema, stack[n - 1].handle, stack[i].handle)
  <2>1. Mentions(schema, stack[n - 1].handle, stack[(n - 1) + 1].handle)
    BY <1>2, <1>6 DEF Recorded, Linked, Links
  <2> QED
    BY <1>3, <1>6, <2>1
<1>8. \A k \in i..(n - 1) : stack[k].handle \in SequencesIn(schema)
  <2> TAKE k \in i..(n - 1)
  <2>1. k \in i..n /\ k \in DOMAIN stack
    BY <1>2, <1>3
  <2> QED
    BY <1>2, <1>5, <2>1 DEF SequencesIn, Handles
<1> QED
  BY <1>6, <1>7, <1>8, CycleOnStack DEF SequencesFounded

(* With the loop over, a visited definition has its width. *)
LEMMA LoopOver ==
  ASSUME Typed, Accounted, AtFinish, NEW h \in Handles, Met(h)
  PROVE  h \in HaveWidth
<1>1. stack = <<>> /\ states[h] # "visited"
  BY DEF AtFinish, Accounted
<1>2. states[h] = "validated"
  BY <1>1 DEF Met, Typed, TypeOK
<1> QED
  BY <1>2 DEF Typed, Written, HaveWidth

LEMMA UnusedIsUnused ==
  ASSUME Typed, Accounted, Recorded, Visited, RejectUnused
  PROVE  ~SequencesUsed(schema)
<1>1. AtFinish /\ Unused # {} /\ root \notin Handles
  BY DEF RejectUnused, AtFinish
<1>2. \A h \in Handles : h < root
  BY <1>1 DEF Typed, TypeOK, Handles
<1>3. \A h \in Unused : h \in Handles /\ IsSequence(schema[h]) /\ ~Met(h)
  BY <1>2 DEF Visited, Unused, Met
<1>4. Unused \in SUBSET SequencesIn(schema)
  BY <1>3 DEF SequencesIn, Handles
<1>5. ASSUME NEW h \in DOMAIN schema \ Unused, NEW t \in Unused, Mentions(schema, h, t)
      PROVE  FALSE
  <2>1. h \in Handles /\ Met(h)
    BY <1>5 DEF Handles, Unused, Met
  <2>2. Complete(schema, bit_width, h)
    BY <1>1, <2>1, LoopOver DEF Recorded, Completed, HaveWidth
  <2>3. t \in HaveWidth
    BY <1>3, <1>5, <2>1, <2>2, MentionedHasWidth DEF Complete
  <2> QED
    BY <1>3, <2>3 DEF Visited
<1> QED
  BY <1>1, <1>4, <1>5 DEF SequencesUsed

LEMMA MemberIsRefused ==
  ASSUME Typed, RoundsAgree, RejectWidth
  PROVE  \/ result' = "RequiresFixedSize" /\ ~PackedMembersFixed(schema)
         \/ result' = "RequiresByteAligned" /\ ~MembersAligned(schema, 2)
<1>1. /\ stack # <<>> /\ Top.next \in DOMAIN Types /\ WidthKnown
      /\ WidthError(Def, Top.next, Width) # "none" /\ result' = WidthError(Def, Top.next, Width)
  BY DEF RejectWidth, AtType, AtMember, Active, Fail
<1>2. Top.handle \in DOMAIN schema /\ Def \in Definition /\ Ty \in Type /\ Top.next \in Nat
  BY <1>1, TopTyped DEF Handles
<1>3. Ty.tag = "allocated" => Ty.handle \in HaveWidth
  BY <1>1 DEF WidthKnown, Status, Typed, Written, HaveWidth
<1>4. WidthOfType(Ty, Widths(schema)) = Width
  BY <1>2, <1>3, KnownWidth DEF Width
<1>5. CASE Def.kind = "packed" /\ Width = Variable
  <2>1. Variable \in WidthsOfTypes(Def, Widths(schema))
    BY <1>1, <1>4, <1>5 DEF WidthsOfTypes, Ty, Types
  <2>2. ~PackedMembersFixed(schema)
    BY <1>2, <1>5, <2>1 DEF PackedMembersFixed, Def
  <2> QED
    BY <1>1, <1>5, <2>2 DEF WidthError
<1>6. CASE ~(Def.kind = "packed" /\ Width = Variable)
  <2>1. /\ Def.kind \in {"struct", "enum", "dict"} /\ Misaligned(Width)
        /\ Def.kind = "enum" => Top.next > 1
        /\ WidthError(Def, Top.next, Width) = "RequiresByteAligned"
    BY <1>1, <1>6 DEF WidthError
  <2>2. Top.next \in DOMAIN Def.members /\ Ty = Def.members[Top.next].ty
    BY <1>1, <1>2, <2>1, MembersOfDefinition DEF Ty, Types
  <2>3. Def.kind # "enum" \/ Top.next >= 2
    BY <1>2, <2>1
  <2>4. ~MembersAligned(schema, 2)
    BY <1>2, <1>4, <2>1, <2>2, <2>3 DEF MembersAligned, Def
  <2> QED
    BY <1>1, <2>1, <2>4
<1> QED
  BY <1>5, <1>6

LEMMA TotalIsRefused ==
  ASSUME Typed, Bounded, Recorded, RoundsAgree, RejectTotal
  PROVE  ~PackedAligned(schema)
<1>1. AtEnd /\ Def.kind = "packed" /\ Misaligned(Top.width)
  BY DEF RejectTotal
<1>2. Widths(schema)[Top.handle] = Top.width
  BY <1>1, WidthsAtEnd DEF FinalWidth
<1>3. Top.handle \in DOMAIN schema
  BY <1>1, TopTyped DEF AtEnd, Active, Handles
<1> QED
  BY <1>1, <1>2, <1>3 DEF PackedAligned, Def

LEMMA IndexIsRefused ==
  ASSUME Typed, RejectIndex
  PROVE  \/ result' = "panic" /\ TagOverflows
         \/ result' = "IndexOutOfRange" /\ (~IndicesInRange(schema) \/ TagOverflows)
         \/ result' = "DuplicateIndex" /\ ~IndicesDistinct(schema)
<1> DEFINE i == Top.next
<1>1. /\ stack # <<>> /\ i \in DOMAIN Types /\ IndexError(Def, i) # "none"
      /\ result' = IndexError(Def, i)
  BY DEF RejectIndex, AtMember, Active, Fail
<1>2. Top.handle \in Handles /\ Handles = DOMAIN schema /\ Def \in Definition /\ i \in Nat
      /\ i \in DOMAIN TypesOf(Def) /\ Types \in Seq(Type)
  BY <1>1, TopTyped DEF Handles, Types
<1>3. ShiftOverflows(Def) => TagOverflows
  BY <1>2 DEF TagOverflows, Def
<1> HIDE DEF i
<1>4. CASE IndexError(Def, i) = "panic"
  BY <1>1, <1>3, <1>4 DEF IndexError
<1>5. CASE IndexError(Def, i) = "IndexOutOfRange"
  <2>1. CASE ShiftOverflows(Def)
    BY <1>1, <1>3, <1>5, <2>1
  <2>2. CASE ~ShiftOverflows(Def)
    <3>1. IsIndexed(Def) /\ i \in DOMAIN Def.members /\ ~InRange(Def, i)
      BY <1>2, <1>5, <2>2, IndexNotInRange
    <3>2. ~IndicesInRange(schema)
      BY <1>2, <3>1 DEF IndicesInRange, InRange, Def
    <3> QED
      BY <1>1, <1>5, <3>2
  <2> QED
    BY <2>1, <2>2
<1>6. CASE IndexError(Def, i) = "DuplicateIndex"
  <2>1. IsIndexed(Def) /\ \E j \in 1..(i - 1) : Def.members[j].index = Def.members[i].index
    BY <1>6 DEF IndexError
  <2>2. PICK j \in 1..(i - 1) : Def.members[j].index = Def.members[i].index
    BY <2>1
  <2>3. DOMAIN Def.members = DOMAIN Types /\ DOMAIN Types = 1..Len(Types) /\ Len(Types) \in Nat
    BY <1>2, <2>1, MembersOfDefinition DEF IsIndexed, Types
  <2>4. i \in DOMAIN Def.members /\ j \in DOMAIN Def.members /\ i # j
    BY <1>1, <1>2, <2>3
  <2>5. ~IndicesDistinct(schema)
    BY <1>2, <2>1, <2>2, <2>4 DEF IndicesDistinct, Def
  <2> QED
    BY <1>1, <1>6, <2>5
<1> QED
  BY <1>1, <1>4, <1>5, <1>6 DEF IndexError

LEMMA HandleIsRefused ==
  ASSUME Typed, RejectHandle \/ RejectElement
  PROVE  result' = "panic" /\ ~HandlesInRange(schema)
<1>1. /\ stack # <<>> /\ Top.next \in DOMAIN Types /\ Ty.tag = "allocated"
      /\ Ty.handle \notin Handles /\ result' = "panic"
  BY DEF RejectHandle, RejectElement, AtType, AtMember, AtElement, Active, Fail
<1>2. Top.handle \in Handles
  BY <1>1, TopTyped
<1> QED
  BY <1>1, <1>2 DEF HandlesInRange, Handles, Ty, Types, Def

(* The inductive invariant of the validator's verdict. *)
Judged ==
  /\ Typed /\ Bounded /\ Accounted
  /\ Recorded /\ Nested /\ RoundsAgree /\ Visited /\ OnChain

LEMMA JudgedStart == Starts => Judged
BY TypedStart, BoundedStart, AccountedStart, RecordedStart, NestedStart, RoundsStart, VisitedStart
   DEF Judged

LEMMA JudgedStep == Judged /\ [Next]_vars => Judged'
BY TypedStep, BoundedStep, AccountedStep, RecordedStep, NestedStep, RoundsStep, VisitedStep,
   OnChainStep DEF Judged

LEMMA VerdictStart == Starts => VerdictCorrect
BY DEF Starts, New, VerdictCorrect

LEMMA VerdictStep == Judged /\ VerdictCorrect /\ [Next]_vars => VerdictCorrect'
<1> SUFFICES ASSUME Judged, VerdictCorrect, [Next]_vars PROVE VerdictCorrect'
  OBVIOUS
<1> USE DEF Judged
<1>1. schema' = schema /\ TagOverflows' = TagOverflows
  <2>1. schema' = schema
    BY OnlyLeaveWrites DEF Leave
  <2> QED
    BY <2>1 DEF TagOverflows, Handles
<1>2. CASE result' = result
  BY <1>1, <1>2 DEF VerdictCorrect
<1>3. CASE RejectIndex
  BY <1>1, <1>3, IndexIsRefused DEF VerdictCorrect
<1>4. CASE RejectHandle \/ RejectElement
  BY <1>1, <1>4, HandleIsRefused DEF VerdictCorrect
<1>5. CASE RejectRecursion
  <2>1. result' = "RecursiveDefinition"
    BY <1>5 DEF RejectRecursion, Fail
  <2> QED
    BY <1>1, <1>5, <2>1, RecursionIsReal DEF VerdictCorrect
<1>6. CASE RejectWidth
  BY <1>1, <1>6, MemberIsRefused DEF VerdictCorrect
<1>7. CASE RejectStream
  <2>1. result' = "RecursiveStream"
    BY <1>7 DEF RejectStream, Fail
  <2> QED
    BY <1>1, <1>7, <2>1, StreamIsUnfounded DEF VerdictCorrect
<1>8. CASE RejectTotal
  <2>1. result' = "RequiresByteAligned"
    BY <1>8 DEF RejectTotal, Fail
  <2> QED
    BY <1>1, <1>8, <2>1, TotalIsRefused DEF VerdictCorrect
<1>9. CASE RejectUnused
  <2>1. result' = "UnusedSequence"
    BY <1>9 DEF RejectUnused, Fail
  <2> QED
    BY <1>1, <1>9, <2>1, UnusedIsUnused DEF VerdictCorrect
<1>10. CASE Finish
  <2>1. AtFinish /\ Unused = {} /\ result' = "ok"
    BY <1>10 DEF Finish
  <2>2. \A h \in Handles : Met(h)
    BY <2>1 DEF Unused, Met
  <2>3. HaveWidth = Handles
    BY <2>1, <2>2, LoopOver DEF HaveWidth
  <2> QED
    BY <1>1, <2>1, <2>3, AllOnRecord DEF VerdictCorrect
<1>11. CASE Next /\ ~(RejectIndex \/ RejectHandle \/ RejectElement \/ RejectRecursion \/ RejectWidth
                     \/ RejectStream \/ RejectTotal \/ RejectUnused \/ Finish)
  <2>1. result' = result
    BY <1>11 DEF Next, EnterRoot, SkipSequence, EnterMember, TakeMember, EnterElement, EndChain,
                 Leave, Enter
  <2> QED
    BY <1>2, <2>1
<1>12. CASE UNCHANGED vars
  BY <1>2, <1>12 DEF vars
<1> QED
  BY <1>3, <1>4, <1>5, <1>6, <1>7, <1>8, <1>9, <1>10, <1>11, <1>12

(* The verdict is right for any schemas and in both builds: Ok for those   *)
(* that keep the rules, each error for those that break the rule it is     *)
(* about, with the three departures that VerdictCorrect names.             *)
THEOREM VerdictAlwaysCorrect == Spec => []VerdictCorrect
BY InitStarts, JudgedStart, JudgedStep, VerdictStart, VerdictStep, PTL DEF Spec
-----------------------------------------------------------------------------
(***************************************************************************)
(* Who refers to whom.  Of a definition whose first n types have been      *)
(* looked at, each definition among them has it as a referrer; and nobody  *)
(* is a referrer of what he does not mention.                              *)
(***************************************************************************)
Noted(s, r, h, n) ==
  \A k \in 1..n : TypesOf(s[h])[k].tag = "allocated" =>
    /\ TypesOf(s[h])[k].handle \in DOMAIN s
    /\ h \in Range(r[TypesOf(s[h])[k].handle])

OnlyMentioned == \A t \in Handles : \A h \in Range(referrers[t]) : h \in Handles /\ Mentions(schema, h, t)

FramesNoted(s, r, frames) ==
  \A i \in DOMAIN frames : Noted(s, r, frames[i].handle, frames[i].next - 1)

AllNoted ==
  /\ FramesNoted(schema, referrers, stack)
  /\ \A h \in HaveWidth : Noted(schema, referrers, h, Len(TypesOf(schema[h])))

Listed == result # "ok" => OnlyMentioned /\ AllNoted

(* What is noted stays noted when referrers are added. *)
LEMMA NotedKept ==
  ASSUME NEW s, NEW v, NEW r, NEW h, NEW n, Noted(s, v, h, n),
         \A t \in DOMAIN s : Range(v[t]) \subseteq Range(r[t])
  PROVE  Noted(s, r, h, n)
BY DEF Noted

(* The frame on top moves past a type whose referrer it is. *)
LEMMA AddNotes ==
  ASSUME Typed, Listed, result = "running", stack # <<>>, Top.next \in DOMAIN Types,
         Ty.tag = "allocated" => Ty.handle \in Handles,
         NEW r, r = AddReferrer(Ty, Top.handle), NEW width
  PROVE  /\ \A t \in Handles : \A h \in Range(r[t]) : h \in Handles /\ Mentions(schema, h, t)
         /\ FramesNoted(schema, r, Advance(width))
         /\ \A h \in HaveWidth : Noted(schema, r, h, Len(TypesOf(schema[h])))
<1> DEFINE me == Top.handle
           to == Ty.handle
           n == Top.next
           moved == [handle |-> me, next |-> n + 1, width |-> width]
<1>1. /\ me \in Handles /\ n \in Nat \ {0} /\ Ty \in Type /\ Len(stack) \in DOMAIN stack
      /\ stack \in Seq(Frames) /\ referrers \in [Handles -> Seq(Handles)]
      /\ Ty = TypesOf(schema[me])[n]
  BY TopTyped DEF Typed, TypeOK, Ty, Types, Def
<1>2. OnlyMentioned /\ AllNoted
  BY DEF Listed
<1>3. Ty.tag = "allocated" => Mentions(schema, me, to)
  BY <1>1, AllocatedIsMention DEF Mentions, Ty, Types, Def
<1>4. Advance(width) = [stack EXCEPT ![Len(stack)] = moved]
  BY DEF Advance
<1>5. ASSUME NEW t \in Handles
      PROVE  Range(r[t]) = IF Ty.tag = "allocated" /\ t = to
                           THEN Range(referrers[t]) \cup {me} ELSE Range(referrers[t])
  <2>1. referrers[t] \in Seq(Handles)
    BY <1>1
  <2> HIDE DEF me, to
  <2>2. Range(Append(referrers[t], me)) = Range(referrers[t]) \cup {me}
    BY <1>1, <2>1, RangeOfAppend
  <2>3. CASE Ty.tag = "allocated" /\ t = to
    <3>1. r[t] = Append(referrers[t], me)
      BY <1>1, <2>3 DEF AddReferrer, me, to
    <3> QED
      BY <2>2, <2>3, <3>1
  <2>4. CASE ~(Ty.tag = "allocated" /\ t = to)
    <3>1. r[t] = referrers[t]
      BY <1>1, <2>4 DEF AddReferrer, me, to
    <3> QED
      BY <2>4, <3>1
  <2> QED
    BY <2>3, <2>4
<1> HIDE DEF me, to, n
<1>6. \A t \in DOMAIN schema : Range(referrers[t]) \subseteq Range(r[t])
  BY <1>5 DEF Handles
<1>7. ASSUME NEW t \in Handles, NEW h \in Range(r[t])
      PROVE  h \in Handles /\ Mentions(schema, h, t)
  BY <1>1, <1>2, <1>3, <1>5 DEF OnlyMentioned
<1>8. \A h \in HaveWidth : Noted(schema, r, h, Len(TypesOf(schema[h])))
  BY <1>2, <1>6, NotedKept DEF AllNoted
<1>9. \A i \in DOMAIN stack : Noted(schema, r, stack[i].handle, stack[i].next - 1)
  BY <1>2, <1>6, NotedKept DEF AllNoted, FramesNoted
<1>10. Noted(schema, r, me, n)
  <2> SUFFICES ASSUME NEW k \in 1..n, TypesOf(schema[me])[k].tag = "allocated"
               PROVE  /\ TypesOf(schema[me])[k].handle \in DOMAIN schema
                      /\ me \in Range(r[TypesOf(schema[me])[k].handle])
    BY DEF Noted
  <2>1. CASE k = n
    <3>1. Ty.tag = "allocated" /\ to = TypesOf(schema[me])[k].handle /\ to \in Handles
      BY <1>1, <2>1 DEF to
    <3> QED
      BY <1>5, <3>1 DEF Handles
  <2>2. CASE k # n
    <3>1. k \in 1..(n - 1)
      BY <1>1, <2>2
    <3>2. Noted(schema, r, me, n - 1)
      BY <1>1, <1>9 DEF Top, me, n
    <3> QED
      BY <3>1, <3>2 DEF Noted
  <2> QED
    BY <2>1, <2>2
<1>11. FramesNoted(schema, r, Advance(width))
  <2>1. moved.handle = me /\ moved.next - 1 = n
    BY <1>1
  <2> HIDE DEF moved
  <2>2. \A i \in DOMAIN stack : Advance(width)[i] = IF i = Len(stack) THEN moved ELSE stack[i]
    BY <1>1, <1>4
  <2>3. DOMAIN Advance(width) = DOMAIN stack
    BY <1>1, <1>4
  <2> QED
    BY <1>9, <1>10, <2>1, <2>2, <2>3 DEF FramesNoted
<1> QED
  BY <1>7, <1>8, <1>11

(* A frame that begins has noted nothing. *)
LEMMA EnterNotes ==
  ASSUME NEW r, NEW S, NEW caller \in Seq(S), NEW h, FramesNoted(schema, r, caller)
  PROVE  FramesNoted(schema, r, Append(caller, Frame(h)))
<1>1. /\ DOMAIN Append(caller, Frame(h)) = 1..(Len(caller) + 1)
      /\ Append(caller, Frame(h))[Len(caller) + 1] = Frame(h)
      /\ \A i \in 1..Len(caller) : Append(caller, Frame(h))[i] = caller[i]
      /\ DOMAIN caller = 1..Len(caller) /\ Len(caller) \in Nat
  OBVIOUS
<1>2. Frame(h).handle = h /\ Frame(h).next - 1 = 0
  BY DEF Frame
<1>3. Noted(schema, r, h, 0)
  BY DEF Noted
<1> DEFINE f == Frame(h)
           a == Append(caller, f)
           n == Len(caller)
<1> HIDE DEF f, a, n
<1>4. ASSUME NEW i \in 1..(n + 1) PROVE Noted(schema, r, a[i].handle, a[i].next - 1)
  <2>1. i = n + 1 \/ i \in 1..n
    BY <1>1 DEF n
  <2> QED
    BY <1>1, <1>2, <1>3, <2>1 DEF f, a, n, FramesNoted
<1> QED
  BY <1>1, <1>4 DEF FramesNoted, f, a, n

LEMMA ListedStart == Starts => Listed
<1> SUFFICES ASSUME Starts PROVE Listed
  OBVIOUS
<1>1. \A h \in Handles : referrers[h] = <<>> /\ bit_width[h] = Uninit
  BY DEF Starts, New
<1>2. stack = <<>>
  BY DEF Starts, New
<1> QED
  BY <1>1, <1>2 DEF Listed, OnlyMentioned, AllNoted, FramesNoted, HaveWidth, Range

LEMMA ListedStep == Typed /\ Bounded /\ Recorded /\ Listed /\ [Next]_vars => Listed'
<1> SUFFICES ASSUME Typed, Bounded, Recorded, Listed, [Next]_vars PROVE Listed'
  OBVIOUS
<1>1. ASSUME UNCHANGED <<schema, bit_width, referrers, stack>>, result # "ok" PROVE Listed'
  BY <1>1 DEF Listed, OnlyMentioned, AllNoted, FramesNoted, HaveWidth, Handles
<1>2. CASE UNCHANGED vars
  BY <1>2 DEF vars, Listed, OnlyMentioned, AllNoted, FramesNoted, HaveWidth, Handles
<1>3. ASSUME result = "running", schema' = schema, bit_width' = bit_width,
             NEW frames, stack' = frames, NEW r, referrers' = r,
             FramesNoted(schema, r, frames),
             \A t \in Handles : \A h \in Range(r[t]) : h \in Handles /\ Mentions(schema, h, t),
             \A h \in HaveWidth : Noted(schema, r, h, Len(TypesOf(schema[h])))
      PROVE  Listed'
  <2>1. HaveWidth' = HaveWidth /\ Handles' = Handles
    BY <1>3 DEF HaveWidth, Handles
  <2> QED
    BY <1>3, <2>1 DEF Listed, OnlyMentioned, AllNoted
<1>4. ASSUME NEW caller \in Seq(Frames), NEW h, Enter(caller, h), result = "running",
             NEW r, referrers' = r, FramesNoted(schema, r, caller),
             \A t \in Handles : \A g \in Range(r[t]) : g \in Handles /\ Mentions(schema, g, t),
             \A g \in HaveWidth : Noted(schema, r, g, Len(TypesOf(schema[g])))
      PROVE  Listed'
  <2>1. schema' = schema /\ bit_width' = bit_width /\ stack' = Append(caller, Frame(h))
    BY <1>4 DEF Enter
  <2>2. FramesNoted(schema, r, Append(caller, Frame(h)))
    BY <1>4, EnterNotes
  <2> QED
    BY <1>3, <1>4, <2>1, <2>2
<1>5. result = "running" => OnlyMentioned /\ AllNoted
  BY DEF Listed
<1>6. CASE EnterRoot
  <2> DEFINE caller == <<>>
  <2>1. caller \in Seq(Frames) /\ FramesNoted(schema, referrers, caller)
    BY DEF FramesNoted
  <2>2. Enter(caller, root) /\ result = "running" /\ referrers' = referrers
    BY <1>6 DEF EnterRoot, AtRoot
  <2> HIDE DEF caller
  <2> QED
    BY <1>4, <1>5, <2>1, <2>2 DEF OnlyMentioned, AllNoted
<1>7. CASE SkipSequence
  BY <1>1, <1>7 DEF SkipSequence, AtRoot, tables
<1>8. ASSUME NEW error, Fail(error), result = "running" PROVE Listed'
  BY <1>1, <1>8 DEF Fail, tables
<1>9. CASE EnterMember
  <2>1. Enter(stack, Ty.handle) /\ result = "running" /\ referrers' = referrers
        /\ stack \in Seq(Frames)
    BY <1>9 DEF EnterMember, AtType, AtMember, Active, Typed, TypeOK
  <2> QED
    BY <1>4, <1>5, <2>1 DEF OnlyMentioned, AllNoted
<1>10. CASE TakeMember
  <2> DEFINE width == Absorb(Def, Top.next, Top.width, Width)
             r == AddReferrer(Ty, Top.handle)
  <2>1. /\ stack # <<>> /\ Top.next \in DOMAIN Types /\ result = "running"
        /\ Ty.tag = "allocated" => Ty.handle \in Handles
        /\ stack' = Advance(width) /\ referrers' = r
        /\ schema' = schema /\ bit_width' = bit_width
    BY <1>10 DEF TakeMember, AtType, AtMember, Active, WidthKnown
  <2>2. r = AddReferrer(Ty, Top.handle)
    OBVIOUS
  <2> HIDE DEF width, r
  <2> QED
    BY <1>3, <2>1, <2>2, AddNotes
<1>11. CASE EnterElement
  <2> DEFINE caller == Advance(Variable)
             r == AddReferrer(Ty, Top.handle)
  <2>1. /\ stack # <<>> /\ Top.next \in DOMAIN Types /\ result = "running"
        /\ Ty.handle \in Handles /\ IsSequence(Def)
        /\ Enter(caller, Ty.handle) /\ referrers' = r
    BY <1>11 DEF EnterElement, AtElement, Active
  <2>2. r = AddReferrer(Ty, Top.handle)
    OBVIOUS
  <2>3. Def.kind \in {"vector", "stream"}
    BY <2>1 DEF IsSequence
  <2>4. caller \in Seq(Frames)
    BY <2>1, <2>3, VariableIsWidth, AdvanceTyped
  <2> HIDE DEF r
  <2>5. /\ \A t \in Handles : \A h \in Range(r[t]) : h \in Handles /\ Mentions(schema, h, t)
        /\ FramesNoted(schema, r, caller)
        /\ \A h \in HaveWidth : Noted(schema, r, h, Len(TypesOf(schema[h])))
    BY <2>1, <2>2, AddNotes
  <2> HIDE DEF caller
  <2> QED
    BY <1>4, <2>1, <2>4, <2>5
<1>12. CASE EndChain
  <2> DEFINE frames == Advance(Variable)
             r == AddReferrer(Ty, Top.handle)
  <2>1. /\ stack # <<>> /\ Top.next \in DOMAIN Types /\ result = "running"
        /\ Ty.tag = "allocated" => Ty.handle \in Handles
        /\ stack' = frames /\ referrers' = r /\ schema' = schema /\ bit_width' = bit_width
    BY <1>12 DEF EndChain, AtElement, Active
  <2>2. r = AddReferrer(Ty, Top.handle)
    OBVIOUS
  <2> HIDE DEF r
  <2>3. /\ \A t \in Handles : \A h \in Range(r[t]) : h \in Handles /\ Mentions(schema, h, t)
        /\ FramesNoted(schema, r, frames)
        /\ \A h \in HaveWidth : Noted(schema, r, h, Len(TypesOf(schema[h])))
    BY <2>1, <2>2, AddNotes
  <2> HIDE DEF frames
  <2> QED
    BY <1>3, <2>1, <2>3
<1>13. CASE Leave
  <2> DEFINE t == Top.handle
             m == Len(stack) - 1
  <2>1. /\ schema' = schema /\ Handles' = Handles /\ AtEnd /\ t \in Handles
        /\ HaveWidth' = HaveWidth \cup {t}
    BY <1>13, LeaveWrites
  <2>2. /\ stack # <<>> /\ result = "running" /\ Top.next - 1 = Len(TypesOf(schema[t]))
    BY <2>1, EndComplete DEF AtEnd, Active, Types, Def
  <2>3. referrers' = referrers /\ stack' = SubSeq(stack, 1, m)
    BY <1>13 DEF Leave, Front
  <2>4. /\ stack \in Seq(Frames) /\ m \in Nat /\ Len(stack) = m + 1
    BY <2>2 DEF Typed, TypeOK
  <2>5. DOMAIN stack' = 1..m /\ DOMAIN stack = 1..(m + 1) /\ \A i \in 1..m : stack'[i] = stack[i]
    <3> HIDE DEF m
    <3> QED
      BY <2>3, <2>4
  <2>6. Noted(schema, referrers, t, Len(TypesOf(schema[t])))
    <3>1. Len(stack) \in DOMAIN stack
      BY <2>2, TopTyped
    <3>2. Noted(schema, referrers, Top.handle, Top.next - 1)
      BY <1>5, <2>2, <3>1 DEF AllNoted, FramesNoted, Top
    <3> QED
      BY <2>2, <3>2
  <2>7. FramesNoted(schema, referrers, stack')
    <3> HIDE DEF m
    <3> QED
      BY <1>5, <2>2, <2>4, <2>5 DEF AllNoted, FramesNoted
  <2> HIDE DEF t
  <2> QED
    BY <1>5, <2>1, <2>2, <2>3, <2>6, <2>7 DEF Listed, OnlyMentioned, AllNoted
<1>14. CASE Finish
  BY <1>14 DEF Finish, Listed
<1>15. CASE RejectIndex \/ RejectHandle \/ RejectRecursion \/ RejectWidth
  BY <1>8, <1>15 DEF RejectIndex, RejectHandle, RejectRecursion, RejectWidth, AtType, AtMember, Active
<1>16. CASE RejectStream \/ RejectElement \/ RejectTotal \/ RejectUnused
  BY <1>8, <1>16 DEF RejectStream, RejectElement, RejectTotal, RejectUnused, AtElement, AtEnd,
                     AtFinish, Active
<1> QED
  BY <1>2, <1>6, <1>7, <1>9, <1>10, <1>11, <1>12, <1>13, <1>14, <1>15, <1>16 DEF Next

(* The steps that leave an accepted schema, or reach one. *)
LEMMA ExactStep == Judged /\ Listed /\ ReferrersExact /\ [Next]_vars => ReferrersExact'
<1> SUFFICES ASSUME Judged, Listed, ReferrersExact, [Next]_vars, result' = "ok"
             PROVE  \A t \in Handles' : Range(referrers'[t]) = {h \in Handles' : Mentions(schema', h, t)}
  BY DEF ReferrersExact
<1> USE DEF Judged
<1>1. CASE UNCHANGED vars
  BY <1>1 DEF vars, ReferrersExact, Handles
<1>2. CASE Finish
  <2>1. /\ schema' = schema /\ Handles' = Handles /\ AtFinish /\ Unused = {} /\ result = "running"
        /\ referrers' = [h \in Handles |-> Dedup(referrers[h])]
    BY <1>2 DEF Finish, AtFinish, Handles
  <2>2. HaveWidth = Handles
    <3>1. \A h \in Handles : Met(h)
      BY <2>1 DEF Unused, Met
    <3> QED
      BY <2>1, <3>1, LoopOver DEF HaveWidth
  <2>3. referrers \in [Handles -> Seq(Handles)] /\ OnlyMentioned /\ AllNoted
    BY <2>1 DEF Listed, Typed, TypeOK
  <2>4. ASSUME NEW t \in Handles
        PROVE  Range(referrers'[t]) = {h \in Handles : Mentions(schema, h, t)}
    <3>1. Range(referrers'[t]) = Range(referrers[t])
      <4>1. referrers[t] \in Seq(Handles) /\ referrers'[t] = Dedup(referrers[t])
        BY <2>1, <2>3
      <4> QED
        BY <4>1, DedupKeeps
    <3>2. ASSUME NEW h \in Handles, Mentions(schema, h, t) PROVE h \in Range(referrers[t])
      <4>1. PICK k \in DOMAIN TypesOf(schema[h]) : TypesOf(schema[h])[k] = Allocated(t)
        BY <3>2 DEF Mentions
      <4>2. TypesOf(schema[h])[k].tag = "allocated" /\ TypesOf(schema[h])[k].handle = t
        BY <4>1 DEF Allocated
      <4>3. Noted(schema, referrers, h, Len(TypesOf(schema[h])))
        BY <2>2, <2>3 DEF AllNoted
      <4>4. k \in 1..Len(TypesOf(schema[h]))
        <5>1. schema[h] \in Definition
          BY DEF Typed, TypeOK, Handles
        <5>2. TypesOf(schema[h]) \in Seq(Type)
          BY <5>1, TypesOfDefinition
        <5> QED
          BY <5>2
      <4> QED
        BY <4>2, <4>3, <4>4 DEF Noted
    <3> QED
      BY <2>3, <3>1, <3>2 DEF OnlyMentioned
  <2> QED
    BY <2>1, <2>4
<1>3. CASE Next /\ ~Finish
  <2>1. result = "running"
    BY <1>3 DEF Next, EnterRoot, SkipSequence, RejectIndex, RejectHandle, EnterMember, RejectRecursion,
       RejectWidth, TakeMember, RejectStream, RejectElement, EnterElement, EndChain, RejectTotal,
       Leave, RejectUnused, AtRoot, AtType, AtMember, AtElement, AtEnd, AtFinish, Active
  <2>2. CASE result' = result
    BY <2>1, <2>2
  <2>3. CASE RejectIndex
    BY <2>3, IndexIsRefused
  <2>4. CASE RejectWidth
    BY <2>4, MemberIsRefused
  <2>5. CASE RejectHandle \/ RejectRecursion \/ RejectStream \/ RejectElement \/ RejectTotal \/ RejectUnused
    BY <2>5 DEF RejectHandle, RejectRecursion, RejectStream, RejectElement, RejectTotal, RejectUnused, Fail
  <2>6. CASE EnterRoot \/ SkipSequence \/ EnterMember \/ TakeMember \/ EnterElement \/ EndChain \/ Leave
    <3>1. result' = result
      BY <2>6 DEF EnterRoot, SkipSequence, EnterMember, TakeMember, EnterElement, EndChain, Leave, Enter
    <3> QED
      BY <2>1, <3>1
  <2> QED
    BY <1>3, <2>3, <2>4, <2>5, <2>6 DEF Next
<1> QED
  BY <1>1, <1>2, <1>3

(* The referrers of a definition in an accepted schema are those that      *)
(* mention it, for any schemas and whatever was visited twice.             *)
THEOREM ReferrersAlwaysExact == Spec => []ReferrersExact
<1>1. Starts => ReferrersExact
  BY DEF Starts, New, ReferrersExact
<1>2. Judged => Typed /\ Bounded /\ Recorded
  BY DEF Judged
<1> QED
  BY <1>1, <1>2, InitStarts, JudgedStart, JudgedStep, ListedStart, ListedStep, ExactStep, PTL DEF Spec

-----------------------------------------------------------------------------
(***************************************************************************)
(* What is left to do: definitions to meet first and for the loop to come  *)
(* to, calls that are not those of sequences, members of the last of them, *)
(* and what is left of the chain of sequences that the last member is.     *)
(***************************************************************************)
PlainCalls(s, frames, d) ==
  d \in Nat /\ d <= Len(frames) /\ \A i \in DOMAIN frames : IsSequence(s[frames[i].handle]) <=> d < i

Calls(s, frames) == CHOOSE d \in Nat : PlainCalls(s, frames, d)

Unmet(seen) == {h \in DOMAIN seen : seen[h] = "unvisited"}
Unflagged(flags) == {h \in DOMAIN flags : ~flags[h]}

ToMeet(s, seen, r) == Cardinality(Unmet(seen)) + (Len(s) + 1 - r)

MembersLeft(s, frames, d) ==
  IF d = 0 THEN 0 ELSE Len(TypesOf(s[frames[d].handle])) + 1 - frames[d].next

ChainLeft(s, flags, frames) ==
  IF frames # <<>> /\ IsSequence(s[frames[Len(frames)].handle]) /\ frames[Len(frames)].next = 1
  THEN Len(frames) + 2 * Cardinality(Unflagged(flags)) + 1 ELSE Len(frames)

Left ==
  <<ToMeet(schema, states, root), Calls(schema, stack), MembersLeft(schema, stack, Calls(schema, stack)),
    ChainLeft(schema, rec_sequences, stack)>>

(* The calls for sequences are those on top. *)
LEMMA CallsExist == Typed /\ Bounded => \E d \in Nat : PlainCalls(schema, stack, d)
<1> SUFFICES ASSUME Typed, Bounded PROVE \E d \in Nat : PlainCalls(schema, stack, d)
  OBVIOUS
<1>1. stack \in Seq(Frames)
  BY DEF Typed, TypeOK
<1>2. Len(stack) \in Nat /\ DOMAIN stack = 1..Len(stack)
  BY <1>1
<1> DEFINE T == {n \in Nat : n <= Len(stack) /\ \A i \in DOMAIN stack : n < i => IsSequence(schema[stack[i].handle])}
<1>3. Len(stack) \in T
  BY <1>2
<1>4. PICK d \in T : \A m \in T : d <= m
  BY <1>3, LeastNatural
<1>5. ASSUME NEW i \in DOMAIN stack, IsSequence(schema[stack[i].handle]) PROVE d < i
  <2>1. \A j \in DOMAIN stack : i < j => IsSequence(schema[stack[j].handle])
    BY <1>5 DEF Bounded, SequencesOnTop
  <2>2. i - 1 \in T
    BY <1>2, <1>5, <2>1
  <2>3. d <= i - 1
    BY <1>4, <2>2
  <2> QED
    BY <1>2, <1>4, <2>3
<1> QED
  BY <1>4, <1>5 DEF PlainCalls

LEMMA CallsUnique ==
  ASSUME NEW s, NEW frames, Len(frames) \in Nat, DOMAIN frames = 1..Len(frames),
         NEW d \in Nat, PlainCalls(s, frames, d)
  PROVE  Calls(s, frames) = d
<1> DEFINE e == Calls(s, frames)
<1>1. e \in Nat /\ PlainCalls(s, frames, e)
  BY DEF Calls
<1> HIDE DEF e
<1>2. e = d
  <2>1. CASE e < d
    BY <1>1, <2>1 DEF PlainCalls
  <2>2. CASE d < e
    BY <1>1, <2>2 DEF PlainCalls
  <2> QED
    BY <1>1, <2>1, <2>2
<1> QED
  BY <1>2 DEF e

LEMMA LeftTyped == Typed /\ Bounded =>
  /\ PlainCalls(schema, stack, Calls(schema, stack))
  /\ ToMeet(schema, states, root) \in Nat
  /\ Calls(schema, stack) \in Nat
  /\ MembersLeft(schema, stack, Calls(schema, stack)) \in Nat
  /\ ChainLeft(schema, rec_sequences, stack) \in Nat
  /\ IsFiniteSet(Handles) /\ DOMAIN states = Handles /\ DOMAIN rec_sequences = Handles
  /\ Cardinality(Unmet(states)) \in Nat /\ Cardinality(Unflagged(rec_sequences)) \in Nat
<1> SUFFICES ASSUME Typed, Bounded
             PROVE  /\ PlainCalls(schema, stack, Calls(schema, stack))
                    /\ ToMeet(schema, states, root) \in Nat
                    /\ Calls(schema, stack) \in Nat
                    /\ MembersLeft(schema, stack, Calls(schema, stack)) \in Nat
                    /\ ChainLeft(schema, rec_sequences, stack) \in Nat
                    /\ IsFiniteSet(Handles) /\ DOMAIN states = Handles /\ DOMAIN rec_sequences = Handles
                    /\ Cardinality(Unmet(states)) \in Nat
                    /\ Cardinality(Unflagged(rec_sequences)) \in Nat
  OBVIOUS
<1>1. /\ stack \in Seq(Frames) /\ root \in 1..(Len(schema) + 1)
      /\ schema \in Seq(Definition)
      /\ DOMAIN states = Handles /\ DOMAIN rec_sequences = Handles
  BY DEF Typed, TypeOK
<1>2. Len(stack) \in Nat /\ DOMAIN stack = 1..Len(stack) /\ Handles = 1..Len(schema) /\ Len(schema) \in Nat
  BY <1>1 DEF Handles
<1>3. IsFiniteSet(Handles)
  BY <1>2, FS_Interval
<1>4. /\ Cardinality(Unmet(states)) \in Nat /\ Cardinality(Unflagged(rec_sequences)) \in Nat
  <2>1. Unmet(states) \in SUBSET Handles /\ Unflagged(rec_sequences) \in SUBSET Handles
    BY <1>1 DEF Unmet, Unflagged
  <2>2. IsFiniteSet(Unmet(states)) /\ IsFiniteSet(Unflagged(rec_sequences))
    BY <1>3, <2>1, FS_Subset
  <2> QED
    BY <2>2, FS_CardinalityType
<1>5. ToMeet(schema, states, root) \in Nat
  BY <1>1, <1>2, <1>4 DEF ToMeet
<1>6. ChainLeft(schema, rec_sequences, stack) \in Nat
  BY <1>2, <1>4 DEF ChainLeft
<1> DEFINE d == Calls(schema, stack)
<1>7. PlainCalls(schema, stack, d) /\ d \in Nat
  BY CallsExist DEF Calls
<1> HIDE DEF d
<1>8. MembersLeft(schema, stack, d) \in Nat
  <2>1. CASE d = 0
    BY <2>1 DEF MembersLeft
  <2>2. CASE d # 0
    <3>1. stack[d] \in Frames
      BY <1>1, <1>2, <1>7, <2>2 DEF PlainCalls
    <3>2. /\ stack[d].next \in Nat /\ stack[d].next <= Len(TypesOf(schema[stack[d].handle])) + 1
          /\ schema[stack[d].handle] \in Definition
      BY <1>1, <3>1 DEF Frames, Handles
    <3>3. Len(TypesOf(schema[stack[d].handle])) \in Nat
      BY <3>2, TypesOfDefinition
    <3> QED
      BY <2>2, <3>2, <3>3 DEF MembersLeft
  <2> QED
    BY <2>1, <2>2
<1> QED
  BY <1>1, <1>3, <1>4, <1>5, <1>6, <1>7, <1>8 DEF d

(* A definition that is met for the first time is one less to meet. *)
LEMMA EnterMeets ==
  ASSUME Typed, Bounded, NEW h \in Handles
  PROVE  LET seen == [states EXCEPT ![h] = "visited"]
         IN  /\ Cardinality(Unmet(seen)) <= Cardinality(Unmet(states))
             /\ states[h] = "unvisited" => Cardinality(Unmet(seen)) = Cardinality(Unmet(states)) - 1
             /\ Cardinality(Unmet(seen)) \in Nat
<1> DEFINE seen == [states EXCEPT ![h] = "visited"]
<1>1. Unmet(seen) = Unmet(states) \ {h}
  BY DEF Unmet
<1>2. IsFiniteSet(Unmet(states))
  <2>1. Unmet(states) \in SUBSET Handles /\ IsFiniteSet(Handles)
    BY LeftTyped DEF Unmet
  <2> QED
    BY <2>1, FS_Subset
<1>3. IsFiniteSet(Unmet(states) \ {h})
      /\ Cardinality(Unmet(states) \ {h}) =
           IF h \in Unmet(states) THEN Cardinality(Unmet(states)) - 1 ELSE Cardinality(Unmet(states))
  BY <1>2, FS_RemoveElement
<1>4. Cardinality(Unmet(states)) \in Nat /\ Cardinality(Unmet(states) \ {h}) \in Nat
  BY <1>2, <1>3, FS_CardinalityType
<1>5. states[h] = "unvisited" => h \in Unmet(states)
  BY LeftTyped DEF Unmet
<1> HIDE DEF seen
<1>6. /\ Cardinality(Unmet(seen)) <= Cardinality(Unmet(states))
      /\ states[h] = "unvisited" => Cardinality(Unmet(seen)) = Cardinality(Unmet(states)) - 1
      /\ Cardinality(Unmet(seen)) \in Nat
  BY <1>1, <1>3, <1>4, <1>5
<1> QED
  BY <1>6 DEF seen

LEMMA LeftDescends ==
  Typed /\ Bounded /\ Typed' /\ Bounded' /\ Next /\ result' = "running" => <<Left', Left>> \in Less(4)
<1> SUFFICES ASSUME Typed, Bounded, Typed', Bounded', Next, result' = "running"
             PROVE  <<Left', Left>> \in Less(4)
  OBVIOUS
<1> DEFINE a == ToMeet(schema, states, root)
           d == Calls(schema, stack)
           r == MembersLeft(schema, stack, d)
           c == ChainLeft(schema, rec_sequences, stack)
<1>1. a \in Nat /\ d \in Nat /\ r \in Nat /\ c \in Nat /\ PlainCalls(schema, stack, d)
  BY LeftTyped
<1>2. (Typed /\ Bounded =>
         /\ PlainCalls(schema, stack, Calls(schema, stack))
         /\ ToMeet(schema, states, root) \in Nat
         /\ Calls(schema, stack) \in Nat
         /\ MembersLeft(schema, stack, Calls(schema, stack)) \in Nat
         /\ ChainLeft(schema, rec_sequences, stack) \in Nat
         /\ Cardinality(Unmet(states)) \in Nat /\ Cardinality(Unflagged(rec_sequences)) \in Nat)'
  BY LeftTyped, PTL
<1>3. a' \in Nat /\ d' \in Nat /\ r' \in Nat /\ c' \in Nat /\ PlainCalls(schema', stack', d')
      /\ Cardinality(Unmet(states')) \in Nat
  BY <1>2
<1>4. SUFFICES \/ a' < a
               \/ a' = a /\ d' < d
               \/ a' = a /\ d' = d /\ r' < r
               \/ a' = a /\ d' = d /\ r' = r /\ c' < c
  <2> HIDE DEF a, d, r, c
  <2>1. <<<<a', d', r', c'>>, <<a, d, r, c>>>> \in Less(4)
    BY <1>1, <1>3, <1>4, LessOfFour
  <2> QED
    BY <2>1 DEF Left, a, d, r, c
<1>5. /\ stack \in Seq(Frames) /\ Len(stack) \in Nat /\ DOMAIN stack = 1..Len(stack)
      /\ schema \in Seq(Definition) /\ Len(schema) \in Nat /\ root \in 1..(Len(schema) + 1)
      /\ Cardinality(Unmet(states)) \in Nat /\ Cardinality(Unflagged(rec_sequences)) \in Nat
      /\ states \in [Handles -> {"unvisited", "visited", "validated"}]
      /\ rec_sequences \in [Handles -> BOOLEAN]
  BY LeftTyped DEF Typed, TypeOK
<1>6. CASE EnterRoot
  <2>1. schema' = schema /\ root' = root + 1 /\ states' = [states EXCEPT ![root] = "visited"] /\ root \in Handles
    BY <1>6 DEF EnterRoot, AtRoot, Enter, NextRoot
  <2>2. Cardinality(Unmet(states')) <= Cardinality(Unmet(states))
    BY <2>1, EnterMeets
  <2>3. a' < a
    BY <1>3, <1>5, <2>1, <2>2 DEF ToMeet
  <2> QED
    BY <2>3
<1>7. CASE SkipSequence
  <2>1. schema' = schema /\ root' = root + 1 /\ states' = states
    BY <1>7 DEF SkipSequence, NextRoot, tables
  <2>2. a' < a
    BY <1>3, <1>5, <2>1 DEF ToMeet
  <2> QED
    BY <2>2
<1>8. CASE EnterMember
  <2> DEFINE h == Ty.handle
  <2>1. schema' = schema /\ root' = root /\ h \in Handles /\ states[h] = "unvisited"
        /\ states' = [states EXCEPT ![h] = "visited"]
    BY <1>8 DEF EnterMember, Enter, Status
  <2> HIDE DEF h
  <2>2. Cardinality(Unmet(states')) = Cardinality(Unmet(states)) - 1
    BY <2>1, EnterMeets
  <2>3. a' < a
    BY <1>3, <1>5, <2>1, <2>2 DEF ToMeet
  <2> QED
    BY <2>3
(* The frames that go on are the same but for the one on top. *)
<1>9. CASE TakeMember
  <2>1. stack # <<>> /\ ~IsSequence(Def) /\ Top.next \in DOMAIN Types
        /\ schema' = schema /\ root' = root /\ states' = states
    BY <1>9 DEF TakeMember, AtType, AtMember, Active
  <2>2. PICK width : stack' = Advance(width)
    BY <1>9 DEF TakeMember
  <2>3. /\ Len(stack') = Len(stack) /\ DOMAIN stack' = DOMAIN stack
        /\ \A i \in DOMAIN stack : stack'[i].handle = stack[i].handle
        /\ stack'[Len(stack)].next = stack[Len(stack)].next + 1
    BY <1>5, <2>1, <2>2 DEF Advance, Top
  <2>4. a' = a
    BY <2>1
  <2>5. d = Len(stack) /\ d # 0
    BY <1>1, <1>5, <2>1 DEF PlainCalls, Top, Def
  <2>6. d' = d
    <3>1. PlainCalls(schema', stack', d)
      BY <1>1, <2>1, <2>3 DEF PlainCalls
    <3>2. Calls(schema', stack') = d
      BY <1>1, <1>5, <2>3, <3>1, CallsUnique
    <3> QED
      BY <3>2
  <2>7. r' < r
    <3> DEFINE k == Len(TypesOf(schema[stack[d].handle]))
               x == stack[d].next
    <3>1. k \in Nat /\ x \in Nat
      BY <2>1, <2>5, TopTyped DEF Top, Types, Def
    <3>2. r = k + 1 - x
      BY <2>5 DEF MembersLeft
    <3>3. r' = MembersLeft(schema', stack', d)
      BY <2>6
    <3>4. MembersLeft(schema', stack', d) = k + 1 - (x + 1)
      BY <1>5, <2>1, <2>3, <2>5 DEF MembersLeft
    <3> HIDE DEF k, x, r
    <3> QED
      BY <3>1, <3>2, <3>3, <3>4
  <2> QED
    BY <2>4, <2>6, <2>7
<1>10. CASE EnterElement \/ EndChain
  <2>1. stack # <<>> /\ IsSequence(Def) /\ Top.next \in DOMAIN Types /\ ~rec_sequences[Top.handle]
    BY <1>10 DEF EnterElement, EndChain, AtElement, Active
  <2>2. Top.next = 1
    BY <2>1, SequenceFrame
  <2> DEFINE L == Len(stack)
             u == Cardinality(Unflagged(rec_sequences))
             top == Top.handle
             went == Advance(Variable)
  <2>0. went \in Seq(Frames)
    BY <2>1, VariableIsWidth, AdvanceTyped DEF IsSequence
  <2>3. c = L + 2 * u + 1
    BY <2>1, <2>2 DEF ChainLeft, Top, Def
  <2>4. d < L
    BY <1>1, <1>5, <2>1 DEF PlainCalls, Top, Def
  <2>5. /\ Len(went) = L /\ DOMAIN went = 1..L
        /\ \A i \in 1..L : /\ went[i].handle = stack[i].handle
                           /\ went[i].next = IF i = L THEN 2 ELSE stack[i].next
    BY <1>5, <2>1, <2>2 DEF Advance, Top
  <2> HIDE DEF went
  <2>6. CASE EndChain
    <3>1. schema' = schema /\ root' = root /\ states' = states /\ stack' = went
      BY <2>6 DEF EndChain, went
    <3>2. PlainCalls(schema', stack', d)
      BY <1>1, <1>5, <2>5, <3>1 DEF PlainCalls
    <3>3. d' = d
      <4>1. Calls(schema', stack') = d
        BY <1>1, <1>5, <2>5, <3>1, <3>2, CallsUnique
      <4> QED
        BY <4>1
    <3>4. r' = r
      <4>0. L \in Nat /\ d \in Nat /\ d < L
        BY <1>1, <1>5, <2>4
      <4> HIDE DEF d, L, r
      <4>1. ASSUME d # 0 PROVE went[d].handle = stack[d].handle /\ went[d].next = stack[d].next
        <5>1. d \in 1..L /\ d # L
          BY <4>0, <4>1
        <5> QED
          BY <2>5, <5>1
      <4>3. MembersLeft(schema', stack', d) = MembersLeft(schema, stack, d)
        BY <3>1, <4>1 DEF MembersLeft
      <4> QED
        BY <3>3, <4>3 DEF d, r
    <3>5. c' = L
      <4>3. L \in Nat /\ L # 0
        BY <1>5, <2>1
      <4> HIDE DEF L
      <4>0. Len(stack') = L /\ L \in DOMAIN went
        BY <2>5, <3>1, <4>3
      <4>2. stack'[L].next = 2
        BY <2>5, <3>1, <4>0
      <4>1. ChainLeft(schema', rec_sequences', stack') = L
        BY <4>0, <4>2 DEF ChainLeft
      <4> QED
        BY <4>1
    <3>6. L < L + 2 * u + 1
      BY <1>5
    <3> QED
      BY <2>3, <3>1, <3>3, <3>4, <3>5, <3>6
  <2>7. CASE EnterElement
    <3> DEFINE h == Ty.handle
    <3>1. /\ schema' = schema /\ root' = root /\ h \in Handles /\ IsSequence(schema[h])
          /\ states' = [states EXCEPT ![h] = "visited"]
          /\ stack' = Append(went, Frame(h))
          /\ rec_sequences' = [rec_sequences EXCEPT ![top] = TRUE]
      BY <2>7 DEF EnterElement, Enter, went
    <3>2. top \in Handles /\ ~rec_sequences[top]
      BY <2>1, TopTyped
    <3> HIDE DEF h, top
    <3>3. a' <= a
      <4>1. Cardinality(Unmet(states')) <= Cardinality(Unmet(states))
        BY <3>1, EnterMeets
      <4> QED
        BY <1>3, <1>5, <3>1, <4>1 DEF ToMeet
    <3>4. /\ Len(stack') = L + 1 /\ DOMAIN stack' = 1..(L + 1)
          /\ \A i \in 1..L : stack'[i].handle = stack[i].handle
          /\ \A i \in 1..L : i # L => stack'[i].next = stack[i].next
          /\ stack'[L + 1].handle = h /\ stack'[L + 1].next = 1
      <4> DEFINE f == Frame(h)
      <4>1. f.handle = h /\ f.next = 1
        BY DEF Frame
      <4>2. stack' = Append(went, f)
        BY <3>1
      <4> HIDE DEF f, L
      <4>3. Len(went) = L /\ L \in Nat
        BY <1>5, <2>5 DEF L
      <4>4. /\ Len(stack') = L + 1 /\ DOMAIN stack' = 1..(L + 1)
            /\ \A i \in 1..L : stack'[i] = went[i]
            /\ stack'[L + 1] = f
        BY <2>0, <4>2, <4>3
      <4> QED
        BY <2>5, <4>1, <4>4
    <3> HIDE DEF L
    <3>5. L = Len(stack) /\ L \in Nat /\ L # 0
      BY <1>5, <2>1 DEF L
    <3>6. PlainCalls(schema', stack', d)
      <4> HIDE DEF d
      <4>1. \A i \in 1..L : IsSequence(schema'[stack'[i].handle]) <=> d < i
        BY <1>1, <1>5, <3>1, <3>4, <3>5 DEF PlainCalls
      <4>2. IsSequence(schema'[stack'[L + 1].handle]) /\ d < L + 1
        BY <1>1, <2>4, <3>1, <3>4, <3>5
      <4>3. \A i \in 1..(L + 1) : i \in 1..L \/ i = L + 1
        BY <3>5
      <4> QED
        BY <1>1, <2>4, <3>4, <3>5, <4>1, <4>2, <4>3 DEF PlainCalls
    <3>7. d' = d
      <4>1. Calls(schema', stack') = d
        BY <1>1, <3>4, <3>5, <3>6, CallsUnique
      <4> QED
        BY <4>1
    <3>8. r' = r
      <4>1. MembersLeft(schema', stack', d) = MembersLeft(schema, stack, d)
        BY <1>1, <2>4, <3>1, <3>4, <3>5 DEF MembersLeft
      <4> QED
        BY <3>7, <4>1
    <3>9. Cardinality(Unflagged(rec_sequences')) = u - 1
      <4>1. Unflagged(rec_sequences') = Unflagged(rec_sequences) \ {top}
        BY <1>5, <3>1, <3>2 DEF Unflagged
      <4>2. Unflagged(rec_sequences) \in SUBSET Handles /\ IsFiniteSet(Handles)
        BY LeftTyped DEF Unflagged
      <4>3. IsFiniteSet(Unflagged(rec_sequences)) /\ top \in Unflagged(rec_sequences)
        BY <1>5, <3>2, <4>2, FS_Subset DEF Unflagged
      <4> QED
        BY <4>1, <4>3, FS_RemoveElement
    <3>10. c' = (L + 1) + 2 * (u - 1) + 1
      <4>1. ChainLeft(schema', rec_sequences', stack') = (L + 1) + 2 * Cardinality(Unflagged(rec_sequences')) + 1
        BY <3>1, <3>4, <3>5 DEF ChainLeft
      <4> QED
        BY <3>9, <4>1
    <3>11. (L + 1) + 2 * (u - 1) + 1 < L + 2 * u + 1
      BY <1>5, <3>5
    <3> QED
      BY <1>1, <1>3, <2>3, <3>3, <3>5, <3>7, <3>8, <3>10, <3>11
  <2> QED
    BY <1>10, <2>6, <2>7
<1>11. CASE Leave
  <2> DEFINE n == Len(stack) - 1
  <2>1. stack # <<>> /\ Top.next \notin DOMAIN Types /\ schema' = schema /\ root' = root
        /\ stack' = SubSeq(stack, 1, n)
        /\ states' = [states EXCEPT ![Top.handle] = "validated"]
    BY <1>11 DEF Leave, AtEnd, Active, Front
  <2>2. n \in Nat /\ Len(stack) = n + 1 /\ Len(stack') = n /\ DOMAIN stack' = 1..n
        /\ \A i \in 1..n : stack'[i] = stack[i]
    BY <1>5, <2>1
  <2> HIDE DEF n
  <2>3. a' = a
    <3>1. states[Top.handle] = "visited"
      BY <2>1, TopTyped DEF Bounded, Marked, Top
    <3>2. Unmet(states') = Unmet(states)
      BY <1>5, <2>1, <3>1 DEF Unmet
    <3> QED
      BY <2>1, <3>2 DEF ToMeet
  <2>4. CASE ~IsSequence(Def)
    <3>1. d = n + 1
      BY <1>1, <1>5, <2>1, <2>2, <2>4 DEF PlainCalls, Top, Def
    <3>2. d' <= n
      BY <1>3, <2>2 DEF PlainCalls
    <3> QED
      BY <1>1, <1>3, <2>2, <2>3, <3>1, <3>2
  <2>5. CASE IsSequence(Def)
    <3>1. d <= n
      BY <1>1, <1>5, <2>1, <2>2, <2>5 DEF PlainCalls, Top, Def
    <3>2. PlainCalls(schema', stack', d)
      BY <1>1, <1>5, <2>1, <2>2, <3>1 DEF PlainCalls
    <3>3. d' = d
      <4>1. Calls(schema', stack') = d
        BY <1>1, <2>2, <3>2, CallsUnique
      <4> QED
        BY <4>1
    <3>4. r' = r
      <4>1. MembersLeft(schema', stack', d) = MembersLeft(schema, stack, d)
        BY <1>1, <2>1, <2>2, <3>1 DEF MembersLeft
      <4> QED
        BY <3>3, <4>1
    <3>5. c = n + 1
      <4>1. Top.next # 1
        BY <2>1, <2>5, SequenceFrame
      <4> QED
        BY <2>2, <4>1 DEF ChainLeft, Top
    <3>6. c' = n
      <4>1. n # 0 /\ IsSequence(schema[stack[n].handle]) => stack[n].next = 2
        <5> SUFFICES ASSUME n # 0, IsSequence(schema[stack[n].handle]) PROVE stack[n].next = 2
          OBVIOUS
        <5>1. n \in DOMAIN stack /\ n + 1 \in DOMAIN stack /\ n < n + 1
          BY <1>5, <2>2
        <5>2. SequencesOnTop
          BY DEF Bounded
        <5> QED
          BY <5>1, <5>2 DEF SequencesOnTop
      <4>2. ChainLeft(schema', rec_sequences', stack') = n
        BY <2>1, <2>2, <4>1 DEF ChainLeft
      <4> QED
        BY <4>2
    <3> QED
      BY <2>2, <2>3, <3>3, <3>4, <3>5, <3>6
  <2> QED
    BY <2>4, <2>5
<1>12. ASSUME NEW error, Fail(error), error # "running" PROVE FALSE
  BY <1>12 DEF Fail
<1>13. CASE RejectHandle \/ RejectRecursion \/ RejectStream \/ RejectElement \/ RejectTotal \/ RejectUnused
  BY <1>12, <1>13 DEF RejectHandle, RejectRecursion, RejectStream, RejectElement, RejectTotal, RejectUnused
<1>14. CASE RejectIndex
  BY <1>12, <1>14 DEF RejectIndex, IndexError
<1>15. CASE RejectWidth
  BY <1>12, <1>15 DEF RejectWidth, WidthError
<1>16. CASE Finish
  BY <1>16 DEF Finish
<1> QED
  BY <1>6, <1>7, <1>8, <1>9, <1>10, <1>11, <1>13, <1>14, <1>15, <1>16 DEF Next

(***************************************************************************)
(* No schema, one that contains itself too, keeps the validator busy       *)
(* forever: every step that does not end the run descends in an order in   *)
(* which nothing descends forever (NoEndlessDescent).                      *)
(***************************************************************************)
THEOREM AlwaysDescends == Spec => [][result' = "running" => <<Left', Left>> \in Less(4)]_vars
<1>1. Typed /\ Bounded /\ Typed' /\ Bounded' /\ [Next]_vars =>
        [result' = "running" => <<Left', Left>> \in Less(4)]_vars
  BY LeftDescends
<1> QED
  BY <1>1, InitStarts, TypedStart, TypedStep, BoundedStart, BoundedStep, PTL DEF Spec
=============================================================================
