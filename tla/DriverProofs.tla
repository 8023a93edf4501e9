----------------------------- MODULE DriverProofs -----------------------------
(***************************************************************************)
(* What the phases of the compiler hand each other, for any documents and  *)
(* any schemas: what is proved of the resolver, the validator and the      *)
(* marking of lifetimes holds from one end of the compiler to the other.   *)
(***************************************************************************)
EXTENDS Driver, ValidatorProofs

(***************************************************************************)
(* What the generator is handed: the referrers of a definition are a list  *)
(* of those that mention it, each width follows from the widths of what is *)
(* mentioned, and no sequence is nested in itself alone.                   *)
(***************************************************************************)
Accepted ==
  /\ schema \in Seq(Definition) /\ bit_width \in [Handles -> BitWidth]
  /\ referrers \in [Handles -> Seq(Handles)]
  /\ \A t \in Handles : Range(referrers[t]) = {h \in Handles : Mentions(schema, h, t)}
  /\ \A h \in Handles : bit_width[h] = WidthByRule(schema[h], bit_width)
  /\ \A h \in Handles : schema[h].kind = "packed" => Variable \notin WidthsOfTypes(schema[h], bit_width)
  /\ HandlesInRange(schema) /\ SequencesFounded(schema)

(* Members of a packed definition that is on record have a fixed width. *)
LEMMA PackedHasFixed ==
  ASSUME Typed, Recorded, NEW h \in HaveWidth, schema[h].kind = "packed"
  PROVE  Variable \notin WidthsOfTypes(schema[h], bit_width)
<1> DEFINE n == Len(TypesOf(schema[h]))
<1>1. h \in Handles /\ Complete(schema, bit_width, h)
  BY DEF HaveWidth, Recorded, Completed
<1>2. schema[h] \in Definition
  BY <1>1 DEF Typed, TypeOK, Handles
<1>3. n \in Nat /\ DOMAIN TypesOf(schema[h]) = 1..n /\ n <= Len(TypesOf(schema[h]))
  BY <1>2, TypesOfDefinition
<1>4. Seen(schema, bit_width, h, n) /\ ~IsSequence(schema[h])
  BY <1>1 DEF Complete, IsSequence
<1> HIDE DEF n
<1>5. \A k \in 1..n : MemberWidth(schema[h], k, bit_width) \in FixedWidths
  BY <1>1, <1>3, <1>4, SeenTyped
<1> QED
  BY <1>3, <1>5 DEF WidthsOfTypes, MemberWidth, FixedWidths

LEMMA AcceptedSchema ==
  ASSUME Judged, VerdictCorrect, ReferrersExact, result = "ok"
  PROVE  Accepted
<1> USE DEF Judged
<1>1. schema \in Seq(Definition) /\ referrers \in [Handles -> Seq(Handles)]
  BY DEF Typed, TypeOK
<1>2. \A h \in Handles : states[h] = "validated" /\ bit_width[h] # Uninit
  BY DEF Typed, Written, Accounted
<1>3. bit_width \in [Handles -> BitWidth] /\ HaveWidth = Handles
  BY <1>2 DEF Typed, TypeOK, HaveWidth
<1>4. \A h \in Handles : bit_width[h] = WidthByRule(schema[h], bit_width)
  BY <1>2, RulesAgree DEF WidthsAgree
<1>5. \A h \in Handles : schema[h].kind = "packed" => Variable \notin WidthsOfTypes(schema[h], bit_width)
  BY <1>3, PackedHasFixed
<1>6. \A t \in Handles : Range(referrers[t]) = {h \in Handles : Mentions(schema, h, t)}
  BY DEF ReferrersExact
<1>7. HandlesInRange(schema) /\ SequencesFounded(schema)
  BY DEF VerdictCorrect
<1> QED
  BY <1>1, <1>3, <1>4, <1>5, <1>6, <1>7 DEF Accepted

(* What mentions a definition of variable width is of variable width, and  *)
(* not packed.                                                             *)
LEMMA VariableSpreads ==
  ASSUME Accepted, NEW h \in Handles, NEW t \in Handles, Mentions(schema, h, t),
         bit_width[t] = Variable
  PROVE  bit_width[h] = Variable /\ schema[h].kind # "packed"
<1>1. Variable \in WidthsOfTypes(schema[h], bit_width)
  <2>1. PICK i \in DOMAIN TypesOf(schema[h]) : TypesOf(schema[h])[i] = Allocated(t)
    BY DEF Mentions
  <2>2. WidthOfType(Allocated(t), bit_width) = Variable
    BY DEF WidthOfType, Allocated
  <2> QED
    BY <2>1, <2>2 DEF WidthsOfTypes
<1>2. schema[h] \in Definition
  BY DEF Accepted, Handles
<1>3. schema[h].kind \notin {"packed", "primitive"}
  <2>1. CASE schema[h].kind = "primitive"
    <3>1. TypesOf(schema[h]) = <<>>
      BY <2>1 DEF TypesOf, IsSequence
    <3>2. DOMAIN TypesOf(schema[h]) = {}
      BY <3>1
    <3> QED
      BY <1>1, <3>2 DEF WidthsOfTypes
  <2> QED
    BY <1>1, <2>1 DEF Accepted
<1>4. ~(WidthsOfTypes(schema[h], bit_width) \subseteq {Fixed(0)})
  BY <1>1 DEF Variable, Fixed
<1>5. ~\E width \in WidthsOfTypes(schema[h], bit_width) \ {Variable} :
         WidthsOfTypes(schema[h], bit_width) = {width}
  BY <1>1
<1>6. WidthByRule(schema[h], bit_width) = Variable
  BY <1>1, <1>3, <1>4, <1>5 DEF WidthByRule
<1> QED
  BY <1>3, <1>6 DEF Accepted

(* Vectors and streams have no fixed width. *)
LEMMA SequenceIsVariable ==
  ASSUME Accepted, NEW h \in Handles, IsSequence(schema[h])
  PROVE  bit_width[h] = Variable
<1>1. WidthByRule(schema[h], bit_width) = Variable
  BY DEF WidthByRule, IsSequence
<1> QED
  BY <1>1 DEF Accepted

LEMMA MentionInRange ==
  ASSUME Accepted, NEW h \in Handles, NEW i \in DOMAIN TypesOf(schema[h]),
         TypesOf(schema[h])[i].tag = "allocated"
  PROVE  /\ TypesOf(schema[h])[i].handle \in Handles
         /\ Mentions(schema, h, TypesOf(schema[h])[i].handle)
<1>1. TypesOf(schema[h])[i].handle \in Handles
  BY DEF Accepted, HandlesInRange, Handles
<1>2. schema[h] \in Definition
  BY DEF Accepted, Handles
<1>3. TypesOf(schema[h])[i] \in Type
  BY <1>2, TypesOfDefinition
<1>4. TypesOf(schema[h])[i] = Allocated(TypesOf(schema[h])[i].handle)
  BY <1>3, AllocatedIsMention
<1> QED
  BY <1>1, <1>4 DEF Mentions
-----------------------------------------------------------------------------
(***************************************************************************)
(* The marking.  A mark has a reason, which shows where lifetimes come     *)
(* from: the definition is read in place, or it mentions a marked one.     *)
(* Who has a mark is of variable width, so no packed type gets one.  Only  *)
(* the decoder has marks, and the sources that the loop has passed do.     *)
(***************************************************************************)
MarksTyped ==
  /\ kind \in CodeGenKind \cup {"none"}
  /\ has_lifetime \in [Handles -> BOOLEAN]
  /\ source \in 1..(Len(schema) + 1)
  /\ calls \in Seq([handle : Handles, next : Nat \ {0}])

CallsMarked == \A c \in DOMAIN calls : has_lifetime[calls[c].handle]

MarksReasoned ==
  \A h \in Handles : has_lifetime[h] =>
    /\ bit_width[h] = Variable
    /\ IsSource(schema[h]) \/ \E t \in Handles : has_lifetime[t] /\ Mentions(schema, h, t)

SourcesMarked == \A h \in Handles : h < source /\ IsSource(schema[h]) => has_lifetime[h]

OnlyDecoderMarks == kind # "decode" => calls = <<>> /\ \A h \in Handles : ~has_lifetime[h]

Marking ==
  /\ MarksTyped /\ CallsMarked /\ MarkedOnce /\ MarksSpread
  /\ MarksReasoned /\ SourcesMarked /\ OnlyDecoderMarks

LEMMA MarkingStart ==
  ASSUME Accepted, NewMarks, kind \in CodeGenKind \cup {"none"}
  PROVE  Marking
<1>1. Len(schema) \in Nat /\ Handles = 1..Len(schema)
  BY DEF Accepted, Handles
<1>2. MarksTyped
  BY <1>1 DEF MarksTyped, NewMarks
<1>3. SourcesMarked
  BY <1>1 DEF SourcesMarked, NewMarks
<1> QED
  BY <1>2, <1>3 DEF Marking, CallsMarked, MarkedOnce, MarksSpread, MarksReasoned, OnlyDecoderMarks, NewMarks

(* The frame on top of the stack. *)
LEMMA CallTyped ==
  ASSUME Accepted, Marking, calls # <<>>
  PROVE  /\ Len(calls) \in Nat \ {0} /\ DOMAIN calls = 1..Len(calls)
         /\ Call.handle \in Handles /\ Call.next \in Nat \ {0} /\ has_lifetime[Call.handle]
         /\ referrers[Call.handle] \in Seq(Handles)
<1>1. calls \in Seq([handle : Handles, next : Nat \ {0}])
  BY DEF Marking, MarksTyped
<1>2. Len(calls) \in Nat \ {0} /\ DOMAIN calls = 1..Len(calls)
  BY <1>1
<1>3. calls[Len(calls)] \in [handle : Handles, next : Nat \ {0}]
  <2> DEFINE S == [handle : Handles, next : Nat \ {0}]
  <2> HIDE DEF S
  <2>1. calls \in Seq(S)
    BY <1>1 DEF S
  <2>2. calls[Len(calls)] \in S
    BY <1>2, <2>1
  <2> QED
    BY <2>2 DEF S
<1>4. has_lifetime[calls[Len(calls)].handle]
  BY <1>2 DEF Marking, CallsMarked
<1> QED
  BY <1>2, <1>3, <1>4 DEF Call, Accepted

(* A definition in a list of referrers mentions whose list it is. *)
LEMMA ReferrerMentions ==
  ASSUME Accepted, NEW t \in Handles, NEW i \in DOMAIN referrers[t]
  PROVE  referrers[t][i] \in Handles /\ Mentions(schema, referrers[t][i], t)
<1>1. referrers[t][i] \in Range(referrers[t])
  BY DEF Range
<1> QED
  BY <1>1 DEF Accepted

(* A definition gets a mark for a reason. *)
LEMMA MarkKeeps ==
  ASSUME Accepted, Marking, NEW h \in Handles, ~has_lifetime[h],
         has_lifetime' = [has_lifetime EXCEPT ![h] = TRUE], UNCHANGED <<vars, kind>>,
         bit_width[h] = Variable,
         IsSource(schema[h]) \/ \E t \in Handles : has_lifetime[t] /\ Mentions(schema, h, t)
  PROVE  /\ has_lifetime' \in [Handles -> BOOLEAN] /\ MarksReasoned'
         /\ \A t \in Handles : has_lifetime'[t] <=> has_lifetime[t] \/ t = h
<1>1. has_lifetime \in [Handles -> BOOLEAN]
  BY DEF Marking, MarksTyped
<1>2. \A t \in Handles : has_lifetime'[t] <=> has_lifetime[t] \/ t = h
  BY <1>1
<1>3. Handles' = Handles /\ schema' = schema /\ bit_width' = bit_width
  BY DEF vars, Handles
<1>4. \A t \in Handles : IsSource(schema[t])' <=> IsSource(schema[t])
  BY <1>3 DEF IsSource, ZeroCopy
<1>5. MarksReasoned'
  <2> SUFFICES ASSUME NEW t \in Handles, has_lifetime'[t]
               PROVE  /\ bit_width[t] = Variable
                      /\ \/ IsSource(schema[t])
                         \/ \E x \in Handles : has_lifetime'[x] /\ Mentions(schema, t, x)
    BY <1>3, <1>4 DEF MarksReasoned
  <2> QED
    BY <1>2 DEF Marking, MarksReasoned
<1> QED
  BY <1>1, <1>2, <1>5

(* The frame on top moves on to the next referrer. *)
LEMMA AdvancedFrames ==
  ASSUME Accepted, Marking, calls # <<>>
  PROVE  /\ Advanced \in Seq([handle : Handles, next : Nat \ {0}]) /\ Len(Advanced) = Len(calls)
         /\ DOMAIN Advanced = DOMAIN calls
         /\ \A c \in DOMAIN calls :
              /\ Advanced[c].handle = calls[c].handle
              /\ Advanced[c].next = IF c = Len(calls) THEN calls[c].next + 1 ELSE calls[c].next
<1> DEFINE S == [handle : Handles, next : Nat \ {0}]
           n == Len(calls)
           f == [calls[n] EXCEPT !.next = @ + 1]
<1>1. calls \in Seq(S) /\ n \in Nat \ {0} /\ DOMAIN calls = 1..n
  BY CallTyped DEF Marking, MarksTyped
<1>2. calls[n] \in S
  <2> HIDE DEF S, n
  <2> QED
    BY <1>1
<1>3. f \in S /\ f.handle = calls[n].handle /\ f.next = calls[n].next + 1
  BY <1>2
<1>4. Advanced = [calls EXCEPT ![n] = f]
  BY DEF Advanced
<1> HIDE DEF S, n, f
<1>5. Advanced \in Seq(S) /\ Len(Advanced) = n /\ DOMAIN Advanced = 1..n
  BY <1>1, <1>3, <1>4
<1>6. \A c \in 1..n : Advanced[c] = IF c = n THEN f ELSE calls[c]
  BY <1>1, <1>4
<1> QED
  BY <1>1, <1>3, <1>5, <1>6 DEF S, n

(* With these frames, all but h will come to what refers to a marked one.  *)
Spreading(frames, h) ==
  \A t \in Handles : has_lifetime[t] => \A i \in DOMAIN referrers[t] :
    \/ has_lifetime[referrers[t][i]] \/ referrers[t][i] = h
    \/ \E c \in DOMAIN calls : frames[c].handle = t /\ frames[c].next <= i

SameCalls(frames) ==
  /\ frames \in Seq([handle : Handles, next : Nat \ {0}])
  /\ DOMAIN frames = DOMAIN calls
  /\ \A c \in DOMAIN calls : frames[c].handle = calls[c].handle

HasReason(h) ==
  /\ bit_width[h] = Variable
  /\ IsSource(schema[h]) \/ \E t \in Handles : has_lifetime[t] /\ Mentions(schema, h, t)

(* mark_lifetime is entered for h, from a caller whose frames are below.   *)
LEMMA EnterMarking ==
  ASSUME Accepted, Marking, UNCHANGED <<vars, kind>>, kind = "decode",
         NEW frames, SameCalls(frames), NEW h \in Handles, ~has_lifetime[h], HasReason(h),
         Spreading(frames, h), Mark(frames, h), source' \in 1..(Len(schema) + 1)
  PROVE  MarksTyped' /\ CallsMarked' /\ MarkedOnce' /\ MarksSpread' /\ MarksReasoned' /\ OnlyDecoderMarks'
<1> DEFINE S == [handle : Handles, next : Nat \ {0}]
           f == [handle |-> h, next |-> 1]
           n == Len(frames)
<1>1. /\ Handles' = Handles /\ schema' = schema /\ referrers' = referrers /\ kind' = kind
      /\ calls' = Append(frames, f) /\ has_lifetime' = [has_lifetime EXCEPT ![h] = TRUE]
  BY DEF vars, Mark, Handles
<1>2. has_lifetime' \in [Handles -> BOOLEAN] /\ MarksReasoned'
      /\ \A t \in Handles : has_lifetime'[t] <=> has_lifetime[t] \/ t = h
  BY <1>1, MarkKeeps DEF HasReason
<1>3. f \in S /\ f.handle = h /\ f.next = 1
  OBVIOUS
<1>4. n \in Nat /\ DOMAIN frames = 1..n /\ frames \in Seq(S) /\ DOMAIN frames = DOMAIN calls
      /\ \A c \in DOMAIN calls : frames[c].handle = calls[c].handle
  BY DEF SameCalls
<1> HIDE DEF S, f, n
<1>5. /\ calls' \in Seq(S) /\ DOMAIN calls' = 1..(n + 1) /\ calls'[n + 1] = f
      /\ \A c \in 1..n : calls'[c] = frames[c]
  BY <1>1, <1>3, <1>4 DEF n
<1>6. MarksTyped'
  BY <1>1, <1>2, <1>5 DEF Marking, MarksTyped, S
<1>7. \A c \in 1..n : calls'[c].handle = calls[c].handle /\ calls'[c].handle # h
                        /\ calls[c].handle \in Handles
  <2>1. \A c \in DOMAIN calls : calls[c].handle \in Handles
    <3>1. calls \in Seq(S)
      BY DEF Marking, MarksTyped, S
    <3>2. \A c \in DOMAIN calls : calls[c] \in S
      BY <3>1
    <3> QED
      BY <3>2 DEF S
  <2> QED
    BY <1>4, <1>5, <2>1 DEF Marking, CallsMarked
<1>8. CallsMarked'
  <2> SUFFICES ASSUME NEW c \in 1..(n + 1) PROVE has_lifetime'[calls'[c].handle]
    BY <1>5 DEF CallsMarked
  <2>1. CASE c \in 1..n
    BY <1>2, <1>4, <1>7, <2>1 DEF Marking, CallsMarked
  <2>2. CASE c = n + 1
    BY <1>2, <1>3, <1>5, <2>2
  <2> QED
    BY <1>4, <2>1, <2>2
<1>9. MarkedOnce'
  <2> SUFFICES ASSUME NEW c \in 1..(n + 1), NEW d \in 1..(n + 1), calls'[c].handle = calls'[d].handle
               PROVE  c = d
    BY <1>5 DEF MarkedOnce
  <2>1. c \in 1..n \/ c = n + 1
    BY <1>4
  <2>2. d \in 1..n \/ d = n + 1
    BY <1>4
  <2>3. \A a, b \in 1..n : calls[a].handle = calls[b].handle => a = b
    BY <1>4 DEF Marking, MarkedOnce
  <2>4. calls'[n + 1].handle = h
    BY <1>3, <1>5
  <2> QED
    BY <1>7, <2>1, <2>2, <2>3, <2>4
<1>10. ASSUME NEW t \in Handles, has_lifetime'[t], NEW i \in DOMAIN referrers[t]
       PROVE  \/ has_lifetime'[referrers[t][i]]
              \/ \E c \in DOMAIN calls' : calls'[c].handle = t /\ calls'[c].next <= i
  <2>1. referrers[t][i] \in Handles /\ i \in Nat /\ 1 <= i
    <3>1. referrers[t] \in Seq(Handles)
      BY DEF Accepted
    <3> QED
      BY <3>1
  <2>2. CASE t = h
    <3>1. n + 1 \in DOMAIN calls' /\ calls'[n + 1].handle = t /\ calls'[n + 1].next <= i
      BY <1>3, <1>4, <1>5, <2>1, <2>2
    <3> QED
      BY <3>1
  <2>3. CASE has_lifetime[t]
    <3>1. CASE has_lifetime[referrers[t][i]] \/ referrers[t][i] = h
      BY <1>2, <2>1, <3>1
    <3>2. CASE \E c \in DOMAIN calls : frames[c].handle = t /\ frames[c].next <= i
      <4>1. PICK c \in DOMAIN calls : frames[c].handle = t /\ frames[c].next <= i
        BY <3>2
      <4>2. c \in 1..n
        BY <1>4
      <4>3. c \in DOMAIN calls' /\ calls'[c] = frames[c]
        BY <1>4, <1>5, <4>2
      <4> QED
        BY <4>1, <4>3
    <3>3. \/ has_lifetime[referrers[t][i]] \/ referrers[t][i] = h
          \/ \E c \in DOMAIN calls : frames[c].handle = t /\ frames[c].next <= i
      BY <2>3 DEF Spreading
    <3> QED
      BY <3>1, <3>2, <3>3
  <2> QED
    BY <1>2, <1>10, <2>2, <2>3
<1>11. OnlyDecoderMarks'
  BY <1>1 DEF OnlyDecoderMarks
<1>12. MarksSpread'
  BY <1>1, <1>10 DEF MarksSpread
<1> QED
  BY <1>2, <1>6, <1>8, <1>9, <1>11, <1>12

(* What is read in place is of variable width, like every sequence. *)
LEMMA SourceIsSequence ==
  ASSUME NEW h \in Handles, IsSource(schema[h])
  PROVE  IsSequence(schema[h])
BY DEF IsSource, ZeroCopy, IsSequence

LEMMA MarkSourceKeeps == Accepted /\ Marking /\ MarkSource /\ UNCHANGED <<vars, kind>> => Marking'
<1> SUFFICES ASSUME Accepted, Marking, MarkSource, UNCHANGED <<vars, kind>> PROVE Marking'
  OBVIOUS
<1>1. /\ kind = "decode" /\ calls = <<>> /\ source \in Handles /\ IsSource(schema[source])
      /\ ~has_lifetime[source] /\ Mark(<<>>, source) /\ source' = source + 1
  BY DEF MarkSource, AtSource, NextSource
<1>2. Len(schema) \in Nat /\ Handles = 1..Len(schema)
  BY DEF Accepted, Handles
<1>3. bit_width[source] = Variable
  BY <1>1, SourceIsSequence, SequenceIsVariable
<1>4. \A t \in Handles : has_lifetime[t] => \A k \in DOMAIN referrers[t] : has_lifetime[referrers[t][k]]
  BY <1>1 DEF Marking, MarksSpread
<1>5. MarksTyped' /\ CallsMarked' /\ MarkedOnce' /\ MarksSpread' /\ MarksReasoned' /\ OnlyDecoderMarks'
  <2> DEFINE frames == <<>>
             h == source
  <2>1. frames \in Seq([handle : Handles, next : Nat \ {0}]) /\ DOMAIN frames = {} /\ DOMAIN calls = {}
    BY <1>1
  <2>2. Mark(frames, h) /\ h \in Handles /\ source' \in 1..(Len(schema) + 1)
    BY <1>1, <1>2
  <2>3. IsSource(schema[h]) /\ ~has_lifetime[h] /\ bit_width[h] = Variable
    BY <1>1, <1>3
  <2> HIDE DEF frames, h
  <2>4. SameCalls(frames) /\ Spreading(frames, h) /\ HasReason(h)
    BY <1>4, <2>1, <2>3 DEF SameCalls, Spreading, HasReason
  <2> QED
    BY <1>1, <2>2, <2>3, <2>4, EnterMarking
<1>6. SourcesMarked'
  <2>1. Handles' = Handles /\ schema' = schema /\ bit_width' = bit_width
    BY DEF vars, Handles
  <2>2. \A t \in Handles : IsSource(schema[t])' <=> IsSource(schema[t])
    BY <2>1 DEF IsSource, ZeroCopy
  <2>3. \A t \in Handles : has_lifetime'[t] <=> has_lifetime[t] \/ t = source
    BY <1>1 DEF Mark, Marking, MarksTyped
  <2>4. \A t \in Handles : t < source + 1 => t < source \/ t = source
    BY <1>1, <1>2
  <2> QED
    BY <1>1, <2>1, <2>2, <2>3, <2>4 DEF Marking, SourcesMarked
<1> QED
  BY <1>5, <1>6 DEF Marking

(* A step that gives no mark, and after which the calls come to what they  *)
(* came to before, or it is marked.                                        *)
LEMMA PassMarking ==
  ASSUME Accepted, Marking, UNCHANGED <<vars, kind, has_lifetime>>,
         source' \in 1..(Len(schema) + 1), SourcesMarked',
         calls' \in Seq([handle : Handles, next : Nat \ {0}]),
         DOMAIN calls' \subseteq DOMAIN calls,
         \A c \in DOMAIN calls' : calls'[c].handle = calls[c].handle,
         kind # "decode" => calls' = <<>>,
         \A c \in DOMAIN calls : \A k \in DOMAIN referrers[calls[c].handle] : calls[c].next <= k =>
           \/ has_lifetime[referrers[calls[c].handle][k]]
           \/ c \in DOMAIN calls' /\ calls'[c].next <= k
  PROVE  Marking'
<1>1. /\ Handles' = Handles /\ schema' = schema /\ referrers' = referrers /\ kind' = kind
      /\ has_lifetime' = has_lifetime /\ bit_width' = bit_width
  BY DEF vars, Handles
<1>2. MarksTyped'
  BY <1>1 DEF Marking, MarksTyped
<1>3. CallsMarked' /\ MarkedOnce'
  <2>1. CallsMarked'
    BY <1>1 DEF Marking, CallsMarked
  <2>2. MarkedOnce'
    BY DEF Marking, MarkedOnce
  <2> QED
    BY <2>1, <2>2
<1>4. ASSUME NEW t \in Handles, has_lifetime[t], NEW k \in DOMAIN referrers[t]
      PROVE  \/ has_lifetime[referrers[t][k]]
             \/ \E c \in DOMAIN calls' : calls'[c].handle = t /\ calls'[c].next <= k
  <2>1. CASE has_lifetime[referrers[t][k]]
    BY <2>1
  <2>2. CASE \E c \in DOMAIN calls : calls[c].handle = t /\ calls[c].next <= k
    BY <2>2
  <2> QED
    BY <1>4, <2>1, <2>2 DEF Marking, MarksSpread
<1>5. MarksSpread'
  BY <1>1, <1>4 DEF MarksSpread
<1>6. MarksReasoned'
  <2>1. \A t \in Handles : IsSource(schema[t])' <=> IsSource(schema[t])
    BY <1>1 DEF IsSource, ZeroCopy
  <2> QED
    BY <1>1, <2>1 DEF Marking, MarksReasoned
<1>7. OnlyDecoderMarks'
  BY <1>1 DEF Marking, OnlyDecoderMarks
<1> QED
  BY <1>2, <1>3, <1>5, <1>6, <1>7 DEF Marking

(* The sources stay marked while the loop stands still. *)
LEMMA SourcesStay ==
  ASSUME Marking, UNCHANGED <<vars, source>>,
         \A t \in Handles : has_lifetime[t] => has_lifetime'[t]
  PROVE  SourcesMarked'
<1>1. Handles' = Handles /\ schema' = schema /\ bit_width' = bit_width /\ source' = source
  BY DEF vars, Handles
<1>2. \A t \in Handles : IsSource(schema[t])' <=> IsSource(schema[t])
  BY <1>1 DEF IsSource, ZeroCopy
<1> QED
  BY <1>1, <1>2 DEF Marking, SourcesMarked

LEMMA PassSourceKeeps == Accepted /\ Marking /\ PassSource /\ UNCHANGED <<vars, kind>> => Marking'
<1> SUFFICES ASSUME Accepted, Marking, PassSource, UNCHANGED <<vars, kind>> PROVE Marking'
  OBVIOUS
<1>1. /\ kind = "decode" /\ calls = <<>> /\ source \in Handles /\ source' = source + 1
      /\ has_lifetime' = has_lifetime /\ calls' = calls
      /\ ~IsSource(schema[source]) \/ has_lifetime[source]
  BY DEF PassSource, AtSource, NextSource
<1>2. Len(schema) \in Nat /\ Handles = 1..Len(schema)
  BY DEF Accepted, Handles
<1>3. SourcesMarked'
  <2>1. Handles' = Handles /\ schema' = schema /\ bit_width' = bit_width
    BY DEF vars, Handles
  <2>2. \A t \in Handles : IsSource(schema[t])' <=> IsSource(schema[t])
    BY <2>1 DEF IsSource, ZeroCopy
  <2>3. \A t \in Handles : t < source + 1 => t < source \/ t = source
    BY <1>1, <1>2
  <2> QED
    BY <1>1, <2>1, <2>2, <2>3 DEF Marking, SourcesMarked
<1>4. calls' \in Seq([handle : Handles, next : Nat \ {0}]) /\ source' \in 1..(Len(schema) + 1)
  BY <1>1, <1>2 DEF Marking, MarksTyped
<1>5. DOMAIN calls = {}
  BY <1>1
<1> QED
  BY <1>1, <1>3, <1>4, <1>5, PassMarking

LEMMA MarkReferrerKeeps == Accepted /\ Marking /\ MarkReferrer /\ UNCHANGED <<vars, kind>> => Marking'
<1> SUFFICES ASSUME Accepted, Marking, MarkReferrer, UNCHANGED <<vars, kind>> PROVE Marking'
  OBVIOUS
<1> DEFINE h == NextReferrer
           t == Call.handle
           frames == Advanced
<1>1. /\ calls # <<>> /\ Call.next \in DOMAIN referrers[t] /\ h = referrers[t][Call.next]
      /\ ~has_lifetime[h] /\ Mark(frames, h) /\ source' = source
  BY DEF MarkReferrer, AtReferrer, NextReferrer
<1>2. /\ t \in Handles /\ has_lifetime[t] /\ Len(calls) \in Nat \ {0} /\ DOMAIN calls = 1..Len(calls)
      /\ Call.next \in Nat /\ Call = calls[Len(calls)]
  BY <1>1, CallTyped DEF Call
<1>3. /\ frames \in Seq([handle : Handles, next : Nat \ {0}])
      /\ DOMAIN frames = DOMAIN calls
      /\ \A c \in DOMAIN calls :
           /\ frames[c].handle = calls[c].handle
           /\ frames[c].next = IF c = Len(calls) THEN calls[c].next + 1 ELSE calls[c].next
  BY <1>1, AdvancedFrames
<1> HIDE DEF h, t, frames
<1>4. h \in Handles /\ Mentions(schema, h, t)
  BY <1>1, <1>2, ReferrerMentions
<1>5. bit_width[h] = Variable
  <2>1. bit_width[t] = Variable
    BY <1>2 DEF Marking, MarksReasoned
  <2> QED
    BY <1>2, <1>4, <2>1, VariableSpreads
<1>6. kind = "decode" /\ source' \in 1..(Len(schema) + 1)
  BY <1>1 DEF Marking, OnlyDecoderMarks, MarksTyped
<1>7. ASSUME NEW x \in Handles, has_lifetime[x], NEW k \in DOMAIN referrers[x]
      PROVE  \/ has_lifetime[referrers[x][k]] \/ referrers[x][k] = h
             \/ \E c \in DOMAIN calls : frames[c].handle = x /\ frames[c].next <= k
  <2>1. CASE has_lifetime[referrers[x][k]]
    BY <2>1
  <2>2. CASE \E c \in DOMAIN calls : calls[c].handle = x /\ calls[c].next <= k
    <3>1. PICK c \in DOMAIN calls : calls[c].handle = x /\ calls[c].next <= k
      BY <2>2
    <3>2. CASE c # Len(calls)
      BY <1>3, <3>1, <3>2
    <3>3. CASE c = Len(calls)
      <4>1. x = t /\ Call.next <= k /\ frames[c].handle = x /\ frames[c].next = Call.next + 1
        BY <1>2, <1>3, <3>1, <3>3 DEF t
      <4>2. k \in Nat
        <5>1. referrers[x] \in Seq(Handles)
          BY DEF Accepted
        <5> QED
          BY <5>1
      <4>3. k = Call.next \/ Call.next + 1 <= k
        BY <1>2, <4>1, <4>2
      <4> QED
        BY <1>1, <4>1, <4>3
    <3> QED
      BY <3>2, <3>3
  <2> QED
    BY <1>7, <2>1, <2>2 DEF Marking, MarksSpread
<1>8. MarksTyped' /\ CallsMarked' /\ MarkedOnce' /\ MarksSpread' /\ MarksReasoned' /\ OnlyDecoderMarks'
  <2>1. SameCalls(frames) /\ Spreading(frames, h) /\ HasReason(h)
    BY <1>2, <1>3, <1>4, <1>5, <1>7 DEF SameCalls, Spreading, HasReason
  <2> QED
    BY <1>1, <1>4, <1>6, <2>1, EnterMarking
<1>9. SourcesMarked'
  <2>1. \A x \in Handles : has_lifetime[x] => has_lifetime'[x]
    BY <1>1, <1>4 DEF Mark, Marking, MarksTyped
  <2> QED
    BY <1>1, <2>1, SourcesStay
<1> QED
  BY <1>8, <1>9 DEF Marking

LEMMA PassReferrerKeeps == Accepted /\ Marking /\ PassReferrer /\ UNCHANGED <<vars, kind>> => Marking'
<1> SUFFICES ASSUME Accepted, Marking, PassReferrer, UNCHANGED <<vars, kind>> PROVE Marking'
  OBVIOUS
<1> DEFINE n == Len(calls)
<1>1. /\ calls # <<>> /\ calls' = Advanced /\ source' = source /\ has_lifetime' = has_lifetime
      /\ has_lifetime[referrers[calls[n].handle][calls[n].next]]
  BY DEF PassReferrer, AtReferrer, NextReferrer, Call
<1>2. n \in Nat \ {0} /\ DOMAIN calls = 1..n /\ calls[n].handle \in Handles /\ calls[n].next \in Nat
      /\ referrers[calls[n].handle] \in Seq(Handles)
  BY <1>1, CallTyped DEF Call
<1>3. /\ calls' \in Seq([handle : Handles, next : Nat \ {0}])
      /\ DOMAIN calls' = DOMAIN calls
      /\ \A c \in DOMAIN calls :
           /\ calls'[c].handle = calls[c].handle
           /\ calls'[c].next = IF c = n THEN calls[c].next + 1 ELSE calls[c].next
  BY <1>1, AdvancedFrames
<1> HIDE DEF n
<1>4. SourcesMarked' /\ source' \in 1..(Len(schema) + 1)
  BY <1>1, SourcesStay DEF Marking, MarksTyped
<1>5. kind = "decode"
  BY <1>1 DEF Marking, OnlyDecoderMarks
<1>6. ASSUME NEW c \in DOMAIN calls, NEW k \in DOMAIN referrers[calls[c].handle], calls[c].next <= k
      PROVE  has_lifetime[referrers[calls[c].handle][k]] \/ (c \in DOMAIN calls' /\ calls'[c].next <= k)
  <2>1. CASE c # n
    BY <1>3, <1>6, <2>1
  <2>2. CASE c = n
    <3>1. k \in Nat
      BY <1>2, <2>2
    <3>2. k = calls[c].next \/ calls[c].next + 1 <= k
      BY <1>2, <1>6, <2>2, <3>1
    <3> QED
      BY <1>1, <1>3, <2>2, <3>2
  <2> QED
    BY <2>1, <2>2
<1> QED
  BY <1>1, <1>3, <1>4, <1>5, <1>6, PassMarking

LEMMA ReturnKeeps == Accepted /\ Marking /\ Return /\ UNCHANGED <<vars, kind>> => Marking'
<1> SUFFICES ASSUME Accepted, Marking, Return, UNCHANGED <<vars, kind>> PROVE Marking'
  OBVIOUS
<1> DEFINE n == Len(calls)
           S == [handle : Handles, next : Nat \ {0}]
<1>1. /\ calls # <<>> /\ calls' = Front(calls) /\ source' = source /\ has_lifetime' = has_lifetime
      /\ calls[n].next \notin DOMAIN referrers[calls[n].handle]
  BY DEF Return, Call
<1>2. n \in Nat \ {0} /\ DOMAIN calls = 1..n /\ calls[n].handle \in Handles /\ calls[n].next \in Nat \ {0}
      /\ referrers[calls[n].handle] \in Seq(Handles)
  BY <1>1, CallTyped DEF Call
<1>3. /\ calls' \in Seq(S) /\ DOMAIN calls' = 1..(n - 1)
      /\ \A c \in 1..(n - 1) : calls'[c] = calls[c]
  <2>1. calls \in Seq(S)
    BY DEF Marking, MarksTyped
  <2> HIDE DEF S
  <2> QED
    BY <1>1, <1>2, <2>1 DEF Front
<1> HIDE DEF n
<1>4. SourcesMarked' /\ source' \in 1..(Len(schema) + 1)
  BY <1>1, SourcesStay DEF Marking, MarksTyped
<1>5. kind = "decode"
  BY <1>1 DEF Marking, OnlyDecoderMarks
<1>6. ASSUME NEW c \in DOMAIN calls, NEW k \in DOMAIN referrers[calls[c].handle], calls[c].next <= k
      PROVE  c \in DOMAIN calls' /\ calls'[c].next <= k
  <2>1. CASE c \in 1..(n - 1)
    BY <1>3, <1>6, <2>1
  <2>2. CASE c = n
    <3>1. \A x \in Nat \ {0} : x \notin DOMAIN referrers[calls[n].handle]
                                 => x > Len(referrers[calls[n].handle])
      BY <1>2
    <3>2. k \in Nat /\ k <= Len(referrers[calls[n].handle]) /\ Len(referrers[calls[n].handle]) \in Nat
      BY <1>2, <2>2
    <3> QED
      BY <1>1, <1>2, <1>6, <2>2, <3>1, <3>2
  <2> QED
    BY <1>2, <2>1, <2>2
<1>7. DOMAIN calls' \subseteq DOMAIN calls /\ \A c \in DOMAIN calls' : calls'[c].handle = calls[c].handle
  BY <1>2, <1>3
<1> QED
  BY <1>1, <1>3, <1>4, <1>5, <1>6, <1>7, PassMarking DEF S

LEMMA MarkingStep == Accepted /\ Marking /\ CalcLifetime => Marking'
BY MarkSourceKeeps, PassSourceKeeps, MarkReferrerKeeps, PassReferrerKeeps, ReturnKeeps DEF CalcLifetime

-----------------------------------------------------------------------------
(***************************************************************************)
(* The generated types.  Whether the text of a type names the lifetime is  *)
(* found by looking through n sequences; as no sequence contains itself,   *)
(* as many as there are definitions suffice.                               *)
(***************************************************************************)
Borrowing(n, inner) ==
  [h \in Handles |->
     CASE schema[h].kind \in {"primitive", "extern"} -> FALSE
       [] schema[h].kind \in {"packed", "struct", "enum", "dict"} -> has_lifetime[h] /\ kind = "decode"
       [] IsSequence(schema[h]) /\ kind = "decode" /\ ReadInPlace(schema[h]) -> TRUE
       [] OTHER -> /\ n > 0
                   /\ schema[h].elem_ty.tag = "allocated"
                   /\ inner[schema[h].elem_ty.handle]]

Borrows(f) == \A n \in 0..Len(schema) : f[n] = Borrowing(n, f[n - 1])

LEMMA BorrowsDefined ==
  ASSUME Accepted, Marking
  PROVE  \E f : Borrows(f) /\ \A type : TypeBorrows(type) <=>
                                  type.tag = "allocated" /\ f[Len(schema)][type.handle]
<1> DEFINE N == Len(schema)
           S == [Handles -> BOOLEAN]
           D(f) == [n \in 0..N |-> Borrowing(n, f[n - 1])]
           base == Borrowing(0, schema)
           step == [n \in 1..N |-> [inner \in S |-> Borrowing(n, inner)]]
           F == CHOOSE f : f = D(f)
<1>1. N \in Nat
  BY DEF Accepted
<1>2. \A n, inner : Borrowing(n, inner) \in S
  BY DEF Borrowing, Marking, MarksTyped
<1>3. base \in S /\ step \in StepsOver(N, S)
  <2> HIDE DEF S
  <2> QED
    BY <1>2 DEF StepsOver
<1>4. \A inner : Borrowing(0, inner) = base
  BY DEF Borrowing
<1> HIDE DEF N, S, base
<1>5. PICK g : Iterates(g, N, S, base, step)
  <2> HIDE DEF step
  <2> QED
    BY <1>1, <1>3, IntervalRecursion
<1>6. g \in [0..N -> S] /\ g[0] = base /\ \A n \in 1..N : g[n] = step[n][g[n - 1]]
  <2> HIDE DEF step
  <2> QED
    BY <1>5 DEF Iterates
<1>7. ASSUME NEW n \in 0..N PROVE g[n] = Borrowing(n, g[n - 1])
  <2>1. CASE n = 0
    <3>1. Borrowing(0, g[0 - 1]) = base
      BY <1>4
    <3> HIDE DEF step
    <3> QED
      BY <1>6, <2>1, <3>1
  <2>2. CASE n # 0
    <3>1. n \in 1..N /\ n - 1 \in 0..N
      BY <1>1, <2>2
    <3>2. g[n - 1] \in S
      BY <1>6, <3>1
    <3>3. g[n] = step[n][g[n - 1]]
      BY <1>6, <3>1
    <3> QED
      BY <3>1, <3>2, <3>3
  <2> QED
    BY <2>1, <2>2
<1>8. g = D(g)
  <2> HIDE DEF step
  <2>1. g = [n \in 0..N |-> g[n]]
    BY <1>6
  <2> QED
    BY <1>7, <2>1
<1>9. F = D(F)
  <2> HIDE DEF D, step
  <2> QED
    BY <1>8
<1>10. \A type : TypeBorrows(type) <=> type.tag = "allocated" /\ F[N][type.handle]
  BY DEF TypeBorrows, N, Borrowing
<1> HIDE DEF F
<1>11. Borrows(F)
  BY <1>9 DEF Borrows, N
<1> QED
  BY <1>10, <1>11 DEF N

LEMMA BorrowCases ==
  ASSUME Accepted, Marking, kind = "decode", NEW f, Borrows(f), NEW n \in 0..Len(schema),
         NEW h \in Handles
  PROVE  /\ schema[h].kind \in {"primitive", "extern"} => ~f[n][h]
         /\ schema[h].kind \in {"packed", "struct", "enum", "dict"} => (f[n][h] <=> has_lifetime[h])
         /\ IsSequence(schema[h]) /\ IsSource(schema[h]) => f[n][h]
         /\ IsSequence(schema[h]) /\ ~IsSource(schema[h]) =>
              (f[n][h] <=> /\ n > 0 /\ schema[h].elem_ty.tag = "allocated"
                           /\ f[n - 1][schema[h].elem_ty.handle])
<1> DEFINE inner == f[n - 1]
<1>1. f[n][h] = Borrowing(n, inner)[h]
  BY DEF Borrows
<1> HIDE DEF inner
<1>2. IsSequence(schema[h]) => (ReadInPlace(schema[h]) <=> IsSource(schema[h]))
  BY DEF IsSequence, ReadInPlace, IsSource, ZeroCopy
<1>3. CASE schema[h].kind \in {"primitive", "extern"}
  BY <1>1, <1>3 DEF Borrowing, IsSequence
<1>4. CASE schema[h].kind \in {"packed", "struct", "enum", "dict"}
  BY <1>1, <1>4 DEF Borrowing, IsSequence
<1>5. CASE IsSequence(schema[h]) /\ IsSource(schema[h])
  BY <1>1, <1>2, <1>5 DEF Borrowing, IsSequence
<1>6. CASE IsSequence(schema[h]) /\ ~IsSource(schema[h])
  <2>1. f[n][h] <=> n > 0 /\ schema[h].elem_ty.tag = "allocated" /\ inner[schema[h].elem_ty.handle]
    BY <1>1, <1>2, <1>6 DEF Borrowing, IsSequence
  <2> QED
    BY <1>6, <2>1 DEF inner, IsSequence
<1>7. schema[h].kind \in {"primitive", "extern"} \/ schema[h].kind \in {"packed", "struct", "enum", "dict"}
      \/ IsSequence(schema[h])
  <2>1. schema[h] \in Definition
    BY DEF Accepted, Handles
  <2> QED
    BY <2>1, KindOfDefinition DEF IsSequence
<1> QED
  BY <1>3, <1>4, <1>5, <1>6, <1>7

(* When the marking is over the marks are closed: every source has one,    *)
(* and with a definition all that mention it.                              *)
LEMMA MarksClosed ==
  ASSUME Accepted, Marking, Generated, kind = "decode"
  PROVE  /\ \A h \in Handles : IsSource(schema[h]) => has_lifetime[h]
         /\ \A h, t \in Handles : has_lifetime[t] /\ Mentions(schema, h, t) => has_lifetime[h]
<1>1. calls = <<>> /\ source \notin Handles
  BY DEF Generated
<1>2. Len(schema) \in Nat /\ Handles = 1..Len(schema) /\ source \in 1..(Len(schema) + 1)
  BY DEF Accepted, Handles, Marking, MarksTyped
<1>3. \A h \in Handles : h < source
  BY <1>1, <1>2
<1>4. ASSUME NEW h \in Handles, NEW t \in Handles, has_lifetime[t], Mentions(schema, h, t)
      PROVE  has_lifetime[h]
  <2>1. h \in Range(referrers[t])
    BY <1>4 DEF Accepted
  <2>2. PICK i \in DOMAIN referrers[t] : referrers[t][i] = h
    BY <2>1 DEF Range
  <2>3. DOMAIN calls = {}
    BY <1>1
  <2> QED
    BY <1>4, <2>2, <2>3 DEF Marking, MarksSpread
<1> QED
  BY <1>3, <1>4 DEF Marking, SourcesMarked

(* The element of a sequence is the one type it mentions. *)
LEMMA ElementOfSequence ==
  ASSUME Accepted, NEW h \in Handles, IsSequence(schema[h])
  PROVE  /\ \A t \in Handles : Mentions(schema, h, t) <=> schema[h].elem_ty = Allocated(t)
         /\ schema[h].elem_ty.tag = "allocated" =>
              /\ schema[h].elem_ty.handle \in Handles
              /\ Mentions(schema, h, schema[h].elem_ty.handle)
<1>1. TypesOf(schema[h]) = <<schema[h].elem_ty>>
  BY DEF TypesOf, IsSequence
<1>2. 1 \in DOMAIN TypesOf(schema[h]) /\ TypesOf(schema[h])[1] = schema[h].elem_ty
      /\ \A i \in DOMAIN TypesOf(schema[h]) : i = 1
  BY <1>1
<1>3. \A t \in Handles : Mentions(schema, h, t) <=> schema[h].elem_ty = Allocated(t)
  BY <1>2 DEF Mentions
<1>4. schema[h].elem_ty.tag = "allocated" =>
        /\ schema[h].elem_ty.handle \in Handles
        /\ Mentions(schema, h, schema[h].elem_ty.handle)
  BY <1>2, MentionInRange
<1> QED
  BY <1>3, <1>4

(* A type that names the lifetime is marked, if it is defined. *)
LEMMA BorrowsIsMarked ==
  ASSUME Accepted, Marking, Generated, kind = "decode", NEW f, Borrows(f), NEW h \in Handles,
         f[Len(schema)][h]
  PROVE  has_lifetime[h]
<1> DEFINE N == Len(schema)
           K == {n \in Nat : n <= N => \A t \in Handles : f[n][t] => has_lifetime[t]}
<1>1. N \in Nat
  BY DEF Accepted
<1>2. ASSUME NEW n \in 0..N, NEW t \in Handles, f[n][t],
             n > 0 => \A x \in Handles : f[n - 1][x] => has_lifetime[x]
      PROVE  has_lifetime[t]
  <2> HIDE DEF N
  <2>1. CASE schema[t].kind \in {"primitive", "extern"}
    BY <1>2, <2>1, BorrowCases DEF N
  <2>2. CASE schema[t].kind \in {"packed", "struct", "enum", "dict"}
    BY <1>2, <2>2, BorrowCases DEF N
  <2>3. CASE IsSequence(schema[t]) /\ IsSource(schema[t])
    BY <2>3, MarksClosed
  <2>4. CASE IsSequence(schema[t]) /\ ~IsSource(schema[t])
    <3>1. n > 0 /\ schema[t].elem_ty.tag = "allocated" /\ f[n - 1][schema[t].elem_ty.handle]
      BY <1>2, <2>4, BorrowCases DEF N
    <3>2. schema[t].elem_ty.handle \in Handles /\ Mentions(schema, t, schema[t].elem_ty.handle)
      BY <2>4, <3>1, ElementOfSequence
    <3>3. has_lifetime[schema[t].elem_ty.handle]
      BY <1>2, <3>1, <3>2
    <3> QED
      BY <3>2, <3>3, MarksClosed
  <2>5. schema[t] \in Definition
    BY DEF Accepted, Handles
  <2> QED
    BY <2>1, <2>2, <2>3, <2>4, <2>5, KindOfDefinition DEF IsSequence
<1> HIDE DEF N
<1>3. 0 \in K
  <2>1. 0 \in 0..N /\ ~(0 > 0)
    BY <1>1
  <2> QED
    BY <1>2, <2>1
<1>4. ASSUME NEW n \in Nat, n \in K PROVE n + 1 \in K
  <2> SUFFICES ASSUME n + 1 <= N, NEW t \in Handles, f[n + 1][t] PROVE has_lifetime[t]
    OBVIOUS
  <2>1. n + 1 \in 0..N /\ n <= N /\ (n + 1) - 1 = n
    BY <1>1
  <2>2. \A x \in Handles : f[n][x] => has_lifetime[x]
    BY <1>4, <2>1
  <2> HIDE DEF K
  <2> QED
    BY <1>2, <2>1, <2>2
<1>5. N \in K
  <2> HIDE DEF K
  <2> QED
    BY <1>1, <1>3, <1>4, SetInduction
<1>6. \A t \in Handles : f[N][t] => has_lifetime[t]
  BY <1>1, <1>5
<1> QED
  BY <1>6 DEF N

(* Looking through more sequences finds no less. *)
LEMMA BorrowsGrow ==
  ASSUME Accepted, Marking, kind = "decode", NEW f, Borrows(f), NEW n \in 1..Len(schema),
         NEW h \in Handles, f[n - 1][h]
  PROVE  f[n][h]
<1> DEFINE N == Len(schema)
           K == {k \in Nat : k + 1 <= N => \A t \in Handles : f[k][t] => f[k + 1][t]}
<1>1. N \in Nat
  BY DEF Accepted
<1>2. ASSUME NEW k \in Nat, k + 1 <= N, NEW t \in Handles, f[k][t],
             k > 0 => \A x \in Handles : f[k - 1][x] => f[k][x]
      PROVE  f[k + 1][t]
  <2>1. k \in 0..N /\ k + 1 \in 0..N /\ k + 1 > 0 /\ (k + 1) - 1 = k
    BY <1>1, <1>2
  <2> HIDE DEF N
  <2>2. CASE schema[t].kind \in {"primitive", "extern"}
    BY <1>2, <2>1, <2>2, BorrowCases DEF N
  <2>3. CASE schema[t].kind \in {"packed", "struct", "enum", "dict"}
    BY <1>2, <2>1, <2>3, BorrowCases DEF N
  <2>4. CASE IsSequence(schema[t]) /\ IsSource(schema[t])
    BY <2>1, <2>4, BorrowCases DEF N
  <2>5. CASE IsSequence(schema[t]) /\ ~IsSource(schema[t])
    <3>1. k > 0 /\ schema[t].elem_ty.tag = "allocated" /\ f[k - 1][schema[t].elem_ty.handle]
      BY <1>2, <2>1, <2>5, BorrowCases DEF N
    <3>2. f[k][schema[t].elem_ty.handle]
      BY <1>2, <2>5, <3>1, ElementOfSequence
    <3>3. f[k + 1][t] <=> /\ k + 1 > 0 /\ schema[t].elem_ty.tag = "allocated"
                          /\ f[(k + 1) - 1][schema[t].elem_ty.handle]
      BY <2>1, <2>5, BorrowCases DEF N
    <3> QED
      BY <2>1, <3>1, <3>2, <3>3
  <2>6. schema[t] \in Definition
    BY DEF Accepted, Handles
  <2> QED
    BY <2>2, <2>3, <2>4, <2>5, <2>6, KindOfDefinition DEF IsSequence
<1>3. n \in 1..N
  BY DEF N
<1> HIDE DEF N
<1>4. 0 \in K
  <2>1. ~(0 > 0) /\ 0 \in Nat
    OBVIOUS
  <2> QED
    BY <1>2, <2>1
<1>5. ASSUME NEW k \in Nat, k \in K PROVE k + 1 \in K
  <2> SUFFICES ASSUME (k + 1) + 1 <= N, NEW t \in Handles, f[k + 1][t] PROVE f[(k + 1) + 1][t]
    OBVIOUS
  <2>1. k + 1 <= N /\ k + 1 \in Nat /\ (k + 1) - 1 = k
    BY <1>1
  <2>2. \A x \in Handles : f[k][x] => f[k + 1][x]
    BY <1>5, <2>1
  <2> HIDE DEF K
  <2> QED
    BY <1>2, <2>1, <2>2
<1>6. n - 1 \in Nat /\ (n - 1) + 1 = n /\ n <= N
  BY <1>1, <1>3
<1>7. n - 1 \in K
  <2> HIDE DEF K
  <2> QED
    BY <1>4, <1>5, <1>6, SetInduction
<1> QED
  BY <1>6, <1>7

(* A marked definition is no primitive and no extern. *)
LEMMA MarkedKind ==
  ASSUME Accepted, Marking, NEW h \in Handles, has_lifetime[h]
  PROVE  schema[h].kind \in {"packed", "struct", "enum", "dict"} \/ IsSequence(schema[h])
<1>1. CASE schema[h].kind \in {"primitive", "extern"}
  <2>1. TypesOf(schema[h]) = <<>> /\ ~IsSource(schema[h])
    BY <1>1 DEF TypesOf, IsSequence, IsSource, ZeroCopy
  <2>2. DOMAIN TypesOf(schema[h]) = {}
    BY <2>1
  <2>3. \A t \in Handles : ~Mentions(schema, h, t)
    BY <2>2 DEF Mentions
  <2> QED
    BY <2>1, <2>3 DEF Marking, MarksReasoned
<1>2. schema[h] \in Definition
  BY DEF Accepted, Handles
<1> QED
  BY <1>1, <1>2, KindOfDefinition DEF IsSequence

(***************************************************************************)
(* Through n sequences, of the marked ones some are not seen to borrow.    *)
(* Each of them has its reason in another that n - 1 do not reveal, so as  *)
(* sequences are founded there are fewer of them the further one looks.    *)
(***************************************************************************)
Hidden(f, n) == {h \in Handles : IsSequence(schema[h]) /\ has_lifetime[h] /\ ~f[n][h]}

LEMMA HiddenBehind ==
  ASSUME Accepted, Marking, kind = "decode", NEW f, Borrows(f), NEW n \in 1..Len(schema),
         NEW h \in Hidden(f, n)
  PROVE  \E t \in Hidden(f, n - 1) : Mentions(schema, h, t)
<1>1. Len(schema) \in Nat
  BY DEF Accepted
<1>2. n \in 0..Len(schema) /\ n - 1 \in 0..Len(schema) /\ n > 0
  BY <1>1
<1>3. h \in Handles /\ IsSequence(schema[h]) /\ has_lifetime[h] /\ ~f[n][h]
  BY DEF Hidden
<1>4. ~IsSource(schema[h])
  BY <1>2, <1>3, BorrowCases
<1>5. PICK t \in Handles : has_lifetime[t] /\ Mentions(schema, h, t)
  BY <1>3, <1>4 DEF Marking, MarksReasoned
<1>6. schema[h].elem_ty.tag = "allocated" /\ schema[h].elem_ty.handle = t
  <2>1. schema[h].elem_ty = Allocated(t)
    BY <1>3, <1>5, ElementOfSequence
  <2> QED
    BY <2>1 DEF Allocated
<1>7. f[n][h] <=> n > 0 /\ schema[h].elem_ty.tag = "allocated" /\ f[n - 1][schema[h].elem_ty.handle]
  BY <1>2, <1>3, <1>4, BorrowCases
<1>8. ~f[n - 1][t]
  BY <1>2, <1>3, <1>6, <1>7
<1>9. IsSequence(schema[t])
  BY <1>2, <1>5, <1>8, BorrowCases, MarkedKind
<1> QED
  BY <1>5, <1>8, <1>9 DEF Hidden

LEMMA HiddenShrinks ==
  ASSUME Accepted, Marking, kind = "decode", NEW f, Borrows(f), NEW n \in 1..Len(schema),
         IsFiniteSet(Hidden(f, n - 1))
  PROVE  /\ IsFiniteSet(Hidden(f, n))
         /\ Hidden(f, n) = {} \/ Cardinality(Hidden(f, n)) < Cardinality(Hidden(f, n - 1))
<1> DEFINE B == Hidden(f, n)
           S == Hidden(f, n - 1)
<1>1. B \subseteq S
  BY BorrowsGrow DEF Hidden
<1>2. ASSUME B # {} PROVE B # S
  <2>1. S \in SUBSET SequencesIn(schema) /\ S # {}
    BY <1>1, <1>2 DEF Hidden, SequencesIn, Handles
  <2> HIDE DEF S, B
  <2>2. PICK h \in S : \A t \in S : ~Mentions(schema, h, t)
    BY <2>1 DEF Accepted, SequencesFounded, Grounded
  <2>3. h \notin B
    BY <2>2, HiddenBehind DEF S, B
  <2> QED
    BY <2>2, <2>3
<1>3. IsFiniteSet(S)
  OBVIOUS
<1> HIDE DEF B, S
<1>4. IsFiniteSet(B) /\ Cardinality(B) <= Cardinality(S) /\ (Cardinality(S) = Cardinality(B) => S = B)
  BY <1>1, <1>3, FS_Subset
<1>5. Cardinality(S) \in Nat /\ Cardinality(B) \in Nat
  BY <1>3, <1>4, FS_CardinalityType
<1> QED
  BY <1>2, <1>4, <1>5 DEF B, S

(* So nothing that is marked is missed in the end. *)
LEMMA MarkedBorrows ==
  ASSUME Accepted, Marking, kind = "decode", NEW f, Borrows(f), NEW h \in Handles, has_lifetime[h]
  PROVE  f[Len(schema)][h]
<1> DEFINE N == Len(schema)
           B(n) == Hidden(f, n)
           Small(n) == IsFiniteSet(B(n)) /\ (B(n) = {} \/ Cardinality(B(n)) + n <= N)
           K == {n \in Nat : n <= N => Small(n)}
<1>1. N \in Nat /\ Handles = 1..N
  BY DEF Accepted, Handles
<1>2. Small(0)
  <2>1. B(0) \in SUBSET Handles
    BY DEF Hidden
  <2> HIDE DEF N, B
  <2>2. IsFiniteSet(Handles) /\ Cardinality(Handles) = N
    BY <1>1, FS_Interval
  <2>3. IsFiniteSet(B(0)) /\ Cardinality(B(0)) <= Cardinality(Handles)
    BY <2>1, <2>2, FS_Subset
  <2>4. Cardinality(B(0)) \in Nat
    BY <2>3, FS_CardinalityType
  <2> QED
    BY <1>1, <2>2, <2>3, <2>4
<1>3. ASSUME NEW n \in Nat, n + 1 <= N, Small(n) PROVE Small(n + 1)
  <2>1. n + 1 \in 1..Len(schema) /\ (n + 1) - 1 = n
    BY <1>1, <1>3
  <2>2. IsFiniteSet(Hidden(f, n))
    BY <1>3
  <2>3. /\ IsFiniteSet(Hidden(f, n + 1))
        /\ Hidden(f, n + 1) = {} \/ Cardinality(Hidden(f, n + 1)) < Cardinality(Hidden(f, n))
    BY <2>1, <2>2, HiddenShrinks
  <2>4. Cardinality(Hidden(f, n)) \in Nat /\ Cardinality(Hidden(f, n + 1)) \in Nat
    BY <2>2, <2>3, FS_CardinalityType
  <2>5. Hidden(f, n) = {} => Hidden(f, n + 1) = {}
    <3>1. Hidden(f, n) = {} => Cardinality(Hidden(f, n)) = 0
      BY FS_EmptySet
    <3> QED
      BY <2>3, <2>4, <3>1
  <2> HIDE DEF N
  <2>6. CASE Hidden(f, n + 1) = {}
    BY <2>3, <2>6
  <2>7. CASE Hidden(f, n + 1) # {}
    <3>1. Cardinality(Hidden(f, n)) + n <= N
      BY <1>3, <2>5, <2>7
    <3> QED
      BY <1>1, <2>3, <2>4, <2>7, <3>1
  <2> QED
    BY <2>6, <2>7
<1> HIDE DEF N, Small
<1>4. 0 \in K
  BY <1>2
<1>5. ASSUME NEW n \in Nat, n \in K PROVE n + 1 \in K
  BY <1>1, <1>3, <1>5
<1>6. N \in K
  <2> HIDE DEF K
  <2> QED
    BY <1>1, <1>4, <1>5, SetInduction
<1>7. Small(N)
  BY <1>1, <1>6
<1>8. B(N) = {}
  <2> HIDE DEF B
  <2>1. IsFiniteSet(B(N)) /\ (B(N) = {} \/ Cardinality(B(N)) + N <= N)
    BY <1>7 DEF Small
  <2>2. Cardinality(B(N)) \in Nat /\ (Cardinality(B(N)) = 0 => B(N) = {})
    BY <2>1, FS_CardinalityType, FS_EmptySet
  <2> QED
    BY <1>1, <2>1, <2>2
<1>9. N \in 0..Len(schema)
  BY <1>1 DEF N
<1>10. CASE IsSequence(schema[h])
  BY <1>8, <1>10 DEF Hidden, N
<1>11. CASE schema[h].kind \in {"packed", "struct", "enum", "dict"}
  BY <1>9, <1>11, BorrowCases DEF N
<1> QED
  BY <1>10, <1>11, MarkedKind

(* The encoder borrows nothing. *)
LEMMA EncoderOwns ==
  ASSUME Accepted, kind # "decode", NEW f, Borrows(f), NEW h \in Handles
  PROVE  ~f[Len(schema)][h]
<1> DEFINE N == Len(schema)
           K == {n \in Nat : n <= N => \A t \in Handles : ~f[n][t]}
<1>1. N \in Nat
  BY DEF Accepted
<1>2. ASSUME NEW n \in 0..N, NEW t \in Handles, f[n][t],
             n > 0 => \A x \in Handles : ~f[n - 1][x]
      PROVE  FALSE
  <2> DEFINE inner == f[n - 1]
  <2>1. Borrowing(n, inner)[t]
    BY <1>2 DEF Borrows
  <2>2. n > 0 => \A x \in Handles : ~inner[x]
    BY <1>2
  <2>3. schema[t] \in Definition
    BY DEF Accepted, Handles
  <2> HIDE DEF inner, N
  <2>4. CASE schema[t].kind \in {"primitive", "extern"}
    BY <2>1, <2>4 DEF Borrowing, IsSequence
  <2>5. CASE schema[t].kind \in {"packed", "struct", "enum", "dict"}
    BY <2>1, <2>5 DEF Borrowing, IsSequence
  <2>6. CASE IsSequence(schema[t])
    <3>1. n > 0 /\ schema[t].elem_ty.tag = "allocated" /\ inner[schema[t].elem_ty.handle]
      BY <2>1, <2>6 DEF Borrowing, IsSequence
    <3> QED
      BY <2>2, <2>6, <3>1, ElementOfSequence
  <2> QED
    BY <2>3, <2>4, <2>5, <2>6, KindOfDefinition DEF IsSequence
<1> HIDE DEF N
<1>3. 0 \in K
  <2>1. 0 \in 0..N /\ ~(0 > 0)
    BY <1>1
  <2> QED
    BY <1>2, <2>1
<1>4. ASSUME NEW n \in Nat, n \in K PROVE n + 1 \in K
  <2> SUFFICES ASSUME n + 1 <= N, NEW t \in Handles, f[n + 1][t] PROVE FALSE
    OBVIOUS
  <2>1. n + 1 \in 0..N /\ n <= N /\ (n + 1) - 1 = n
    BY <1>1
  <2>2. \A x \in Handles : ~f[n][x]
    BY <1>4, <2>1
  <2> HIDE DEF K
  <2> QED
    BY <1>2, <2>1, <2>2
<1>5. N \in K
  <2> HIDE DEF K
  <2> QED
    BY <1>1, <1>3, <1>4, SetInduction
<1>6. \A t \in Handles : ~f[N][t]
  BY <1>1, <1>5
<1> QED
  BY <1>6 DEF N

(* The invariant gives that the declared lifetimes are those needed. *)
LEMMA MarksDeclare == Accepted /\ Marking => LifetimesDeclared
<1> SUFFICES ASSUME Accepted, Marking, Generated, NEW h \in Handles, ~IsSequence(schema[h])
             PROVE  DeclaresLifetime(schema[h], h)
                      <=> \E i \in DOMAIN TypesOf(schema[h]) : TypeBorrows(TypesOf(schema[h])[i])
  BY DEF LifetimesDeclared
<1>1. PICK f : Borrows(f) /\ \A type : TypeBorrows(type) <=>
                                 type.tag = "allocated" /\ f[Len(schema)][type.handle]
  BY BorrowsDefined
<1>2. CASE kind # "decode"
  <2>1. ~DeclaresLifetime(schema[h], h)
    BY <1>2 DEF DeclaresLifetime, Marking, OnlyDecoderMarks
  <2>2. ASSUME NEW i \in DOMAIN TypesOf(schema[h]), TypeBorrows(TypesOf(schema[h])[i]) PROVE FALSE
    <3>1. TypesOf(schema[h])[i].tag = "allocated" /\ f[Len(schema)][TypesOf(schema[h])[i].handle]
      BY <1>1, <2>2
    <3>2. TypesOf(schema[h])[i].handle \in Handles
      BY <3>1, MentionInRange
    <3> QED
      BY <1>1, <1>2, <3>1, <3>2, EncoderOwns
  <2> QED
    BY <2>1, <2>2
<1>3. CASE kind = "decode"
  <2>1. ASSUME DeclaresLifetime(schema[h], h)
        PROVE  \E i \in DOMAIN TypesOf(schema[h]) : TypeBorrows(TypesOf(schema[h])[i])
    <3>1. has_lifetime[h]
      BY <2>1 DEF DeclaresLifetime
    <3>2. ~IsSource(schema[h])
      BY <2>1 DEF DeclaresLifetime, IsSource, ZeroCopy
    <3>3. PICK t \in Handles : has_lifetime[t] /\ Mentions(schema, h, t)
      BY <3>1, <3>2 DEF Marking, MarksReasoned
    <3>4. f[Len(schema)][t]
      BY <1>1, <1>3, <3>3, MarkedBorrows
    <3>5. PICK i \in DOMAIN TypesOf(schema[h]) : TypesOf(schema[h])[i] = Allocated(t)
      BY <3>3 DEF Mentions
    <3>6. TypeBorrows(Allocated(t))
      BY <1>1, <3>4 DEF Allocated
    <3> QED
      BY <3>5, <3>6
  <2>2. ASSUME NEW i \in DOMAIN TypesOf(schema[h]), TypeBorrows(TypesOf(schema[h])[i])
        PROVE  DeclaresLifetime(schema[h], h)
    <3> DEFINE t == TypesOf(schema[h])[i].handle
    <3>1. TypesOf(schema[h])[i].tag = "allocated" /\ f[Len(schema)][t]
      BY <1>1, <2>2
    <3>2. t \in Handles /\ Mentions(schema, h, t)
      BY <3>1, MentionInRange
    <3> HIDE DEF t
    <3>3. has_lifetime[t]
      BY <1>1, <1>3, <3>1, <3>2, BorrowsIsMarked
    <3>4. bit_width[t] = Variable
      BY <3>2, <3>3 DEF Marking, MarksReasoned
    <3>5. has_lifetime[h] /\ schema[h].kind # "packed"
      BY <1>3, <3>2, <3>3, <3>4, MarksClosed, VariableSpreads
    <3> QED
      BY <3>5, MarkedKind DEF DeclaresLifetime
  <2> QED
    BY <2>1, <2>2
<1> QED
  BY <1>2, <1>3
-----------------------------------------------------------------------------
R == INSTANCE ResolverProofs WITH Documents <- AstDocument, result <- resolution

(* Driver has the resolver in the same instance as the theorems about it.  *)
LEMMA SameResolver == (Resolver!Next <=> R!Next) /\ (Resolver!New <=> R!New)
<1> USE DEF Resolver!Def, R!Def, Resolver!AstMemberAt, R!AstMemberAt,
           Resolver!NoHandle, R!NoHandle, Resolver!AtDefinition,
           R!AtDefinition, Resolver!InBody, R!InBody, Resolver!AtMember,
           R!AtMember, Resolver!AtLayer, R!AtLayer, Resolver!AtPush, R!AtPush,
           Resolver!AtClose, R!AtClose, Resolver!walk, R!walk, Resolver!arena,
           R!arena, Resolver!Fail, R!Fail
<1> USE DEF Resolver!MaxU16, R!MaxU16, Resolver!Uninit, R!Uninit,
           Resolver!IntegerError, R!IntegerError, Resolver!IndexTypeError,
           R!IndexTypeError, Resolver!Overflow, R!Overflow, Resolver!NameKey,
           R!NameKey, Resolver!Known, R!Known, Resolver!NewHandle,
           R!NewHandle, Resolver!HandleOf, R!HandleOf, Resolver!Cached,
           R!Cached, Resolver!Reserved, R!Reserved, Resolver!IsAssigned,
           R!IsAssigned
<1> USE DEF Resolver!NameUsed, R!NameUsed, Resolver!ExternError,
           R!ExternError, Resolver!Allocated, R!Allocated, Resolver!Integer,
           R!Integer, Resolver!Varint, R!Varint, Resolver!IsIndexed,
           R!IsIndexed, Resolver!Increments, R!Increments, Resolver!IndexOf,
           R!IndexOf, Resolver!IndexTypeOf, R!IndexTypeOf
<1>1. Resolver!Unknown = R!Unknown
  BY DEF Resolver!Unknown, R!Unknown, Resolver!FlattenSeq, R!FlattenSeq
<1>2. ASSUME NEW len PROVE Resolver!LenTypeError(len) = R!LenTypeError(len)
  BY DEF Resolver!LenTypeError, R!LenTypeError, Resolver!VarintError,
         R!VarintError
<1>3. ASSUME NEW type PROVE Resolver!TypeError(type) = R!TypeError(type)
  <2> DEFINE bad == {i \in DOMAIN type.layers : R!LenTypeError(type.layers[i].len_ty) # "none"}
             found == {i \in DOMAIN type.layers : Resolver!LenTypeError(type.layers[i].len_ty) # "none"}
  <2>1. found = bad
    BY <1>2
  <2>2. Resolver!Min(bad) = R!Min(bad)
    BY DEF Resolver!Min, R!Min
  <2>3. Resolver!BaseError(type.base) = R!BaseError(type.base)
    BY DEF Resolver!BaseError, R!BaseError, Resolver!VarintError, R!VarintError
  <2>4. Resolver!TypeError(type) = IF found # {} THEN Resolver!LenTypeError(type.layers[Resolver!Min(found)].len_ty)
                                                 ELSE Resolver!BaseError(type.base)
    BY DEF Resolver!TypeError
  <2>5. R!TypeError(type) = IF bad # {} THEN R!LenTypeError(type.layers[R!Min(bad)].len_ty)
                                        ELSE R!BaseError(type.base)
    BY DEF R!TypeError
  <2> HIDE DEF bad, found
  <2> QED
    BY <1>2, <2>1, <2>2, <2>3, <2>4, <2>5
<1>4. /\ (Resolver!RejectDuplicate <=> R!RejectDuplicate)
      /\ (Resolver!RejectExtern <=> R!RejectExtern)
  BY DEF Resolver!RejectDuplicate, R!RejectDuplicate, Resolver!RejectExtern,
         R!RejectExtern
<1>5. Resolver!DefineExtern <=> R!DefineExtern
  BY DEF Resolver!DefineExtern, R!DefineExtern, Resolver!ExternDefinition,
         R!ExternDefinition
<1>6. /\ (Resolver!RejectIndexType <=> R!RejectIndexType)
      /\ (Resolver!OpenDefinition <=> R!OpenDefinition)
  BY DEF Resolver!RejectIndexType, R!RejectIndexType, Resolver!OpenDefinition,
         R!OpenDefinition
<1>7. /\ (Resolver!RejectMember <=> R!RejectMember)
      /\ (Resolver!RejectType <=> R!RejectType)
      /\ (Resolver!StartVoid <=> R!StartVoid)
  BY <1>3 DEF Resolver!RejectMember, R!RejectMember, Resolver!RejectType,
         R!RejectType, Resolver!StartVoid, R!StartVoid
<1>8. Resolver!StartBase <=> R!StartBase
  BY <1>3 DEF Resolver!StartBase, R!StartBase
<1>9. Resolver!WrapSequence <=> R!WrapSequence
  BY DEF Resolver!WrapSequence, R!WrapSequence, Resolver!Anon, R!Anon,
         Resolver!LenTypeOf, R!LenTypeOf, Resolver!Remember, R!Remember
<1>10. /\ (Resolver!RejectNumber <=> R!RejectNumber)
      /\ (Resolver!OverflowPanic <=> R!OverflowPanic)
      /\ (Resolver!PushMember <=> R!PushMember)
  BY DEF Resolver!RejectNumber, R!RejectNumber, Resolver!OverflowPanic,
         R!OverflowPanic, Resolver!PushMember, R!PushMember
<1>11. Resolver!CloseDefinition <=> R!CloseDefinition
  BY DEF Resolver!CloseDefinition, R!CloseDefinition, Resolver!BodyDefinition,
         R!BodyDefinition
<1>12. Resolver!Finish <=> R!Finish
  BY <1>1 DEF Resolver!Finish, R!Finish
<1>13. Resolver!New <=> R!New
  BY DEF Resolver!New, R!New
<1> QED
  BY <1>4, <1>5, <1>6, <1>7, <1>8, <1>9, <1>10, <1>11, <1>12, <1>13 DEF Resolver!Next, R!Next

(* And what it hands on is a schema of the validator's. *)
LEMMA SameSchemas ==
  /\ R!Definition = Definition
  /\ \A s : R!HandlesInRange(s) => HandlesInRange(s)
  /\ \A s : R!SequencesFounded(s) => SequencesFounded(s)
  /\ \A s : R!SequencesUsed(s) => SequencesUsed(s)
<1>1. R!LenType = LenType /\ R!VarintSize = VarintSize /\ R!IndexType = IndexType /\ R!U16 = U16
      /\ R!Handle = Handle
  BY DEF R!LenType, LenType, R!VarintSize, VarintSize, R!IndexType, IndexType, R!U16, U16,
         R!MaxU16, MaxU16, R!Handle, Handle
<1>2. R!Type = Type
  BY <1>1 DEF R!Type, R!IntegerType, R!VarintType, R!AllocatedType,
         Type, IntegerType, VarintType, AllocatedType
<1>3. R!Definition = Definition
  BY <1>1, <1>2 DEF R!Definition, R!Primitive, R!Extern, R!Sequence, R!StructLike,
         R!IndexedStructLike, R!Member, R!IndexedMember, Definition, Primitive, Extern, Sequence,
         StructLike, IndexedStructLike, Member, IndexedMember
<1>4. \A def : R!IsSequence(def) <=> IsSequence(def)
  BY DEF R!IsSequence, IsSequence
<1>5. \A def : R!TypesOf(def) = TypesOf(def)
  BY <1>4 DEF R!TypesOf, TypesOf
<1>6. \A s, h, t : R!Mentions(s, h, t) <=> Mentions(s, h, t)
  BY <1>5 DEF R!Mentions, Mentions, R!Allocated, Allocated
<1>7. \A s : R!SequencesIn(s) = SequencesIn(s)
  BY <1>4 DEF R!SequencesIn, SequencesIn
<1>8. \A s : R!HandlesInRange(s) => HandlesInRange(s)
  BY <1>5 DEF R!HandlesInRange, HandlesInRange
<1>9. \A s : R!SequencesFounded(s) => SequencesFounded(s)
  BY <1>6, <1>7 DEF R!SequencesFounded, SequencesFounded, R!Grounded, Grounded
<1>10. \A s : R!SequencesUsed(s) => SequencesUsed(s)
  BY <1>6, <1>7 DEF R!SequencesUsed, SequencesUsed
<1> QED
  BY <1>3, <1>8, <1>9, <1>10
-----------------------------------------------------------------------------
(***************************************************************************)
(* The invariant of the phases: each has found what it needs, and what the *)
(* ones before it have established is still so.  The tables of the         *)
(* validator and of the generator are untouched until it is their turn.    *)
(***************************************************************************)
Phases == {"parse", "ParseError", "resolve", "ResolveError", "validate", "generate"}

Untouched ==
  phase \notin {"validate", "generate"} => schema = <<>> /\ New /\ NewMarks /\ kind = "none"

Resolving ==
  /\ phase = "parse" => R!New
  /\ phase = "resolve" => R!Kept /\ R!Finished /\ R!Referred

FromText == HandlesInRange(schema) /\ SequencesFounded(schema) /\ SequencesUsed(schema)

Validating ==
  phase \in {"validate", "generate"} =>
    /\ Judged /\ Listed /\ VerdictCorrect /\ ReferrersExact
    /\ tree # {} => FromText

Generates ==
  /\ phase = "validate" => NewMarks /\ kind = "none"
  /\ phase = "generate" => result = "ok" /\ Accepted /\ Marking

Handed ==
  /\ tree \in SUBSET AstDocument /\ phase \in Phases
  /\ Untouched /\ Resolving /\ Validating /\ Generates

(* A table that is new has judged and listed nothing yet. *)
LEMMA NewTables ==
  Starts => Judged /\ Listed /\ VerdictCorrect /\ ReferrersExact
<1>1. Starts => ReferrersExact
  BY DEF Starts, New, ReferrersExact
<1> QED
  BY <1>1, JudgedStart, ListedStart, VerdictStart

LEMMA HandedStart == InitDriver => Handed
<1> SUFFICES ASSUME InitDriver PROVE Handed
  OBVIOUS
<1>1. R!New
  BY SameResolver DEF InitDriver, InitResolver
<1>2. CASE tree \in SUBSET AstDocument /\ phase = "parse" /\ InitTables(<<>>)
  BY <1>1, <1>2 DEF Handed, Phases, Untouched, Resolving, Validating, Generates, InitTables
<1>3. CASE InitSchema
  <2>1. tree = {} /\ phase = "validate" /\ NewMarks /\ kind = "none" /\ Starts
    BY <1>3, SchemasAssumption DEF InitSchema, InitTables, Starts
  <2> QED
    BY <2>1, NewTables DEF Handed, Phases, Untouched, Resolving, Validating, Generates
<1> QED
  BY <1>2, <1>3 DEF InitDriver

LEMMA SchemaStays == Next => schema' = schema
BY DEF Next, EnterRoot, SkipSequence, RejectIndex, RejectHandle, EnterMember, RejectRecursion,
       RejectWidth, TakeMember, RejectStream, RejectElement, EnterElement, EndChain,
       RejectTotal, Leave, RejectUnused, Finish, Enter, Fail

(* What holds of tables nobody touches. *)
LEMMA TablesStay ==
  ASSUME UNCHANGED <<vars, marks>>
  PROVE  /\ Handles' = Handles
         /\ New => New'
         /\ NewMarks => NewMarks'
         /\ Judged /\ Listed /\ VerdictCorrect /\ ReferrersExact =>
              (Judged /\ Listed /\ VerdictCorrect /\ ReferrersExact)'
         /\ Accepted => Accepted'
<1>1. Handles' = Handles
  BY DEF vars, Handles
<1>2. Judged /\ Listed /\ VerdictCorrect /\ ReferrersExact =>
        (Judged /\ Listed /\ VerdictCorrect /\ ReferrersExact)'
  BY JudgedStep, VerdictStep, ExactStep, ListedStep DEF Judged
<1>3. Accepted => Accepted'
  BY <1>1 DEF vars, Accepted
<1> QED
  BY <1>1, <1>2, <1>3 DEF vars, tables, marks, New, NewMarks

(* A document, with the resolver that is made for it. *)
LEMMA SameDocuments == R!AstDocument = AstDocument
<1>1. R!Number = Number /\ R!Optional(R!Number) = Optional(Number)
  BY DEF R!Number, R!Overflow, Number, Overflow, R!Optional, Optional
<1>2. R!AstType = AstType
  BY <1>1 DEF R!AstType, R!Layer, R!AstLenType, R!Base, AstType, Layer, AstLenType, Base
<1>3. R!Optional(R!AstType) = Optional(AstType)
  BY <1>2 DEF R!Optional, Optional
<1>4. R!AstMember = AstMember /\ R!AstStructMember = AstStructMember
  BY <1>1, <1>3 DEF R!AstMember, R!AstStructMember, AstMember, AstStructMember
<1>5. R!NamedDefinition = NamedDefinition
  BY <1>1, <1>4 DEF R!NamedDefinition, NamedDefinition
<1> QED
  BY <1>5 DEF R!AstDocument, AstDocument

(* The resolver's constants are as it assumes. *)
LEMMA ResolverAssumptions ==
  /\ AstDocument \subseteq R!AstDocument
  /\ OverflowChecks \in BOOLEAN
  /\ MaxU64 \in Nat /\ MaxU64 > R!MaxU16
BY SameDocuments, OverflowChecksAssumption, MaxU64Assumption DEF MaxU16, R!MaxU16

LEMMA NewResolver == doc \in AstDocument /\ R!New => R!Kept /\ R!Finished /\ R!Referred
<1>1. doc \in AstDocument /\ R!New => R!Starts
  BY SameDocuments DEF R!Starts
<1> QED
  BY <1>1, ResolverAssumptions, R!KeptStart, R!FinishedStart, R!ReferredStart

LEMMA ResolverStep ==
  ASSUME R!Kept, R!Finished, R!Referred, [R!Next]_(R!vars)
  PROVE  R!Kept' /\ R!Finished' /\ R!Referred'
BY ResolverAssumptions, R!KeptStep, R!FinishedStep, R!ReferredStep

LEMMA ResolvedSchema ==
  ASSUME R!Kept, R!Finished, R!Referred, resolution = "ok"
  PROVE  /\ assigned \in Seq(Definition) /\ HandlesInRange(assigned)
         /\ SequencesFounded(assigned) /\ SequencesUsed(assigned)
BY ResolverAssumptions, R!FinishedArena, R!FinishedHandles, R!FinishedFounded, R!FinishedUsed,
   SameSchemas
-----------------------------------------------------------------------------
LEMMA ParseTextKeeps == Handed /\ ParseText => Handed'
<1> SUFFICES ASSUME Handed, ParseText PROVE Handed'
  OBVIOUS
<1>1. /\ phase = "parse" /\ phase' \in {"ParseError", "resolve"} /\ UNCHANGED <<vars, marks, tree>>
      /\ UNCHANGED <<at, handle, members, index_acc, ty, depth, assigned, unassigned, cache,
                     unknown, resolution>>
  BY DEF ParseText
<1>2. Untouched'
  BY <1>1, TablesStay DEF Handed, Untouched, vars, marks
<1>3. ASSUME phase' = "resolve" PROVE (R!Kept /\ R!Finished /\ R!Referred)'
  <2>1. R!New'
    BY <1>1 DEF Handed, Resolving, R!New, R!NoHandle
  <2>2. doc' \in AstDocument
    BY <1>3 DEF ParseText, Handed
  <2>3. (doc \in AstDocument /\ R!New => R!Kept /\ R!Finished /\ R!Referred)'
    BY NewResolver, PTL
  <2> QED
    BY <2>1, <2>2, <2>3
<1> QED
  BY <1>1, <1>2, <1>3 DEF Handed, Phases, Resolving, Validating, Generates

LEMMA ResolveKeeps == Handed /\ (Resolve \/ ResolveError) => Handed'
<1> SUFFICES ASSUME Handed, Resolve \/ ResolveError PROVE Handed'
  OBVIOUS
<1>1. /\ phase = "resolve" /\ phase' \in {"ResolveError", "resolve"} /\ UNCHANGED <<vars, marks, tree>>
      /\ phase' = "resolve" => R!Next
  BY SameResolver DEF Resolve, ResolveError
<1>2. Untouched'
  BY <1>1, TablesStay DEF Handed, Untouched, vars, marks
<1>3. phase' = "resolve" => (R!Kept /\ R!Finished /\ R!Referred)'
  BY <1>1, ResolverStep DEF Handed, Resolving
<1> QED
  BY <1>1, <1>2, <1>3 DEF Handed, Phases, Resolving, Validating, Generates

LEMMA StartValidatorKeeps == Handed /\ StartValidator => Handed'
<1> SUFFICES ASSUME Handed, StartValidator PROVE Handed'
  OBVIOUS
<1>1. /\ phase = "resolve" /\ phase' = "validate" /\ resolution = "ok" /\ schema' = assigned
      /\ UNCHANGED <<tree, kind>>
  BY DEF StartValidator
<1>2. /\ assigned \in Seq(Definition) /\ HandlesInRange(assigned)
      /\ SequencesFounded(assigned) /\ SequencesUsed(assigned)
  BY <1>1, ResolvedSchema DEF Handed, Resolving
<1>3. New /\ NewMarks /\ kind = "none"
  BY <1>1 DEF Handed, Untouched
<1>4. New' /\ NewMarks' /\ kind' = "none"
  BY <1>1, <1>3 DEF StartValidator, New, NewMarks, Handles
<1>5. (Starts => Judged /\ Listed /\ VerdictCorrect /\ ReferrersExact)'
  BY NewTables, PTL
<1>6. Starts'
  BY <1>1, <1>2, <1>4 DEF Starts
<1>7. FromText'
  BY <1>1, <1>2 DEF FromText
<1> QED
  BY <1>1, <1>4, <1>5, <1>6, <1>7 DEF Handed, Phases, Untouched, Resolving, Validating, Generates

LEMMA ValidateKeeps == Handed /\ Validate => Handed'
<1> SUFFICES ASSUME Handed, Validate PROVE Handed'
  OBVIOUS
<1>1. /\ phase = "validate" /\ phase' = "validate" /\ UNCHANGED <<tree, marks>> /\ Next
      /\ schema' = schema
  BY SchemaStays DEF Validate
<1>2. Judged /\ Listed /\ VerdictCorrect /\ ReferrersExact /\ (tree # {} => FromText)
      /\ NewMarks /\ kind = "none"
  BY <1>1 DEF Handed, Validating, Generates
<1>3. (Judged /\ Listed /\ VerdictCorrect /\ ReferrersExact)'
  BY <1>1, <1>2, JudgedStep, VerdictStep, ExactStep, ListedStep DEF Judged
<1>4. NewMarks' /\ kind' = "none"
  BY <1>1, <1>2 DEF NewMarks, marks, Handles
<1>5. (tree # {} => FromText)'
  BY <1>1, <1>2 DEF FromText
<1> QED
  BY <1>1, <1>3, <1>4, <1>5 DEF Handed, Phases, Untouched, Resolving, Validating, Generates

LEMMA NewMarking == Accepted /\ NewMarks /\ kind \in CodeGenKind \cup {"none"} => Marking
BY MarkingStart

LEMMA StartGeneratorKeeps == Handed /\ StartGenerator => Handed'
<1> SUFFICES ASSUME Handed, StartGenerator PROVE Handed'
  OBVIOUS
<1>1. /\ phase = "validate" /\ phase' = "generate" /\ result = "ok" /\ UNCHANGED <<vars, tree>>
      /\ kind' \in CodeGenKind \cup {"none"} /\ UNCHANGED <<has_lifetime, source, calls>>
  BY DEF StartGenerator
<1>2. Judged /\ Listed /\ VerdictCorrect /\ ReferrersExact /\ (tree # {} => FromText)
      /\ NewMarks /\ kind = "none"
  BY <1>1 DEF Handed, Validating, Generates
<1>3. Accepted
  BY <1>1, <1>2, AcceptedSchema
<1>4. (Judged /\ Listed /\ VerdictCorrect /\ ReferrersExact)'
  BY <1>1, <1>2, JudgedStep, VerdictStep, ExactStep, ListedStep DEF Judged
<1>5. Handles' = Handles /\ schema' = schema /\ result' = result
  BY <1>1 DEF vars, Handles
<1>6. NewMarks' /\ Accepted' /\ FromText' = FromText
  BY <1>1, <1>2, <1>3, <1>5 DEF vars, tables, NewMarks, Accepted, FromText
<1>7. Marking'
  <2>1. (Accepted /\ NewMarks /\ kind \in CodeGenKind \cup {"none"} => Marking)'
    BY NewMarking, PTL
  <2> QED
    BY <1>1, <1>6, <2>1
<1> QED
  BY <1>1, <1>2, <1>4, <1>5, <1>6, <1>7
     DEF Handed, Phases, Untouched, Resolving, Validating, Generates

LEMMA GenerateKeeps == Handed /\ Generate => Handed'
<1> SUFFICES ASSUME Handed, Generate PROVE Handed'
  OBVIOUS
<1>1. /\ phase = "generate" /\ phase' = "generate" /\ UNCHANGED <<vars, kind, tree>> /\ CalcLifetime
  BY DEF Generate, CalcLifetime
<1>2. Judged /\ Listed /\ VerdictCorrect /\ ReferrersExact /\ (tree # {} => FromText)
      /\ result = "ok" /\ Accepted /\ Marking
  BY <1>1 DEF Handed, Validating, Generates
<1>3. (Judged /\ Listed /\ VerdictCorrect /\ ReferrersExact)'
  BY <1>1, <1>2, JudgedStep, VerdictStep, ExactStep, ListedStep DEF Judged
<1>4. Marking'
  BY <1>1, <1>2, MarkingStep
<1>5. Accepted' /\ FromText' = FromText /\ result' = "ok"
  BY <1>1, <1>2 DEF vars, tables, Accepted, FromText, Handles
<1> QED
  BY <1>1, <1>2, <1>3, <1>4, <1>5 DEF Handed, Phases, Untouched, Resolving, Validating, Generates

LEMMA HandedStep == Handed /\ [NextPhase]_phases => Handed'
<1>1. Handed /\ NextPhase => Handed'
  BY ParseTextKeeps, ResolveKeeps, StartValidatorKeeps, ValidateKeeps, StartGeneratorKeeps,
     GenerateKeeps DEF NextPhase
<1>2. ASSUME Handed, UNCHANGED phases PROVE Handed'
  <2>1. UNCHANGED <<vars, marks, tree, phase>> /\ UNCHANGED R!vars
    BY <1>2 DEF phases, resolver, R!vars, R!walk, R!arena
  <2>2. Handles' = Handles /\ schema' = schema /\ result' = result /\ kind' = kind
    BY <2>1 DEF vars, marks, Handles
  <2>3. Untouched'
    BY <1>2, <2>1, <2>2, TablesStay DEF Handed, Untouched
  <2>4. phase = "resolve" => (R!Kept /\ R!Finished /\ R!Referred)'
    BY <1>2, <2>1, ResolverStep DEF Handed, Resolving
  <2>5. phase = "parse" => R!New'
    BY <1>2, <2>1 DEF Handed, Resolving, R!New, R!NoHandle, R!vars, R!walk, R!arena
  <2>6. Validating'
    BY <1>2, <2>1, <2>2, TablesStay DEF Handed, Validating, FromText
  <2>7. Marking => Marking'
    <3>1. UNCHANGED <<vars, marks>> /\ Handles' = Handles
      BY <2>1, <2>2
    <3> QED
      BY <3>1 DEF vars, tables, marks, Marking, MarksTyped, CallsMarked, MarkedOnce, MarksSpread,
                  MarksReasoned, SourcesMarked, OnlyDecoderMarks, IsSource, ZeroCopy
  <2>8. Generates'
    BY <1>2, <2>1, <2>2, <2>7, TablesStay DEF Handed, Generates
  <2> QED
    BY <1>2, <2>1, <2>3, <2>4, <2>5, <2>6, <2>8 DEF Handed, Resolving
<1> QED
  BY <1>1, <1>2

(* Each phase is handed what it needs, whatever the text or the schema. *)
THEOREM AlwaysHanded == DriverSpec => []Handed
BY HandedStart, HandedStep, PTL DEF DriverSpec
-----------------------------------------------------------------------------
(* The errors a text can come to are its author's: once the resolver has   *)
(* passed it, the validator neither panics, but for a tag of 64 bits, nor  *)
(* reports a handle or a sequence that no text can name.                   *)
THEOREM ErrorsAlwaysOfUser == DriverSpec => []ErrorsOfUser
<1>1. Handed => ErrorsOfUser
  BY DEF Handed, Validating, FromText, VerdictCorrect, ErrorsOfUser
<1> QED
  BY <1>1, AlwaysHanded, PTL

(* Tables without a mark, and no call that spreads one. *)
LEMMA Unmarked == NewMarks => MarkedOnce /\ MarksSpread
BY DEF NewMarks, MarkedOnce, MarksSpread

LEMMA PhaseOfMarks == Handed => (NewMarks /\ kind = "none") \/ (Accepted /\ Marking)
BY DEF Handed, Phases, Untouched, Generates

(* mark_lifetime comes to no definition it is still marking: its recursion *)
(* is bounded by the schema, one that contains itself included.            *)
THEOREM AlwaysMarkedOnce == DriverSpec => []MarkedOnce
<1>1. Handed => MarkedOnce
  BY PhaseOfMarks, Unmarked DEF Marking
<1> QED
  BY <1>1, AlwaysHanded, PTL

(* No referrer of a marked definition is forgotten: it is marked, or a     *)
(* call is on its way to it.                                               *)
THEOREM MarksAlwaysSpread == DriverSpec => []MarksSpread
<1>1. Handed => MarksSpread
  BY PhaseOfMarks, Unmarked DEF Marking
<1> QED
  BY <1>1, AlwaysHanded, PTL

(* The lifetimes of the generated code agree, for any schema: a type has   *)
(* the parameter 'a if and only if the text of one of its members names    *)
(* it, through however many definitions and sequences.                     *)
THEOREM LifetimesAlwaysDeclared == DriverSpec => []LifetimesDeclared
<1>1. kind = "none" => LifetimesDeclared
  BY DEF LifetimesDeclared, Generated
<1>2. Handed => LifetimesDeclared
  BY <1>1, PhaseOfMarks, MarksDeclare
<1> QED
  BY <1>2, AlwaysHanded, PTL
=============================================================================
