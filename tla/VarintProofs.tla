----------------------------- MODULE VarintProofs -----------------------------
(***************************************************************************)
(* Theorems about the varint codec, for any messages and any input: what   *)
(* is encoded is decoded again, and what is decoded of bytes nobody has    *)
(* encoded.                                                                *)
(***************************************************************************)
EXTENDS Varint, DataTheorems

(* The width of a type is one of three numbers. *)
LEMMA WidthOfType ==
  ASSUME type \in IntType
  PROVE  Width \in {16, 32, 64} /\ Signed \in BOOLEAN /\ Width \in Nat /\ Width >= 16 /\ Width <= 64
  BY DEF IntType, Width, Signed

-----------------------------------------------------------------------------
(* A byte for every seven bits up to the highest that is set. *)
LEMMA SizeOfWord ==
  ASSUME NEW w \in Word
  PROVE  /\ w = {} => CalcSize(w) = 1
         /\ w # {} => /\ Max(w) \in w /\ Max(w) \in 0..63 /\ \A b \in w : b <= Max(w)
                      /\ CalcSize(w) = Max(w) \div 7 + 1
         /\ CalcSize(w) \in Nat \ {0}
<1>1. w \in SUBSET Nat /\ \A b \in w : b <= 63
  BY DEF Word, Bits
<1>2. w # {} => Max(w) \in w /\ Max(w) \in 0..63 /\ \A b \in w : b <= Max(w)
  <2>1. PICK top \in Nat : top = 63
    OBVIOUS
  <2>2. w # {} => Max(w) \in w /\ \A b \in w : b <= Max(w)
    BY <1>1, <2>1, MaxOfBounded
  <2>3. ASSUME NEW m, m \in w PROVE m \in 0..63
    BY <2>3 DEF Word, Bits
  <2> QED
    BY <2>2, <2>3
<1> DEFINE d == (64 - LeadingZeros(w) + 6) \div 7
           T == {d, 1}
<1>3. w = {} => d = 0
  BY DEF LeadingZeros
<1>4. w # {} => d = Max(w) \div 7 + 1
  BY <1>2 DEF LeadingZeros
<1>5. d \in Nat
  BY <1>2, <1>3, <1>4
<1> HIDE DEF d
<1>6. T \in SUBSET Nat /\ T # {} /\ d + 1 \in Nat /\ \A m \in T : m <= d + 1
  BY <1>5
<1>7. Max(T) \in T /\ d <= Max(T) /\ 1 <= Max(T)
  BY <1>6, MaxOfBounded
<1>8. CalcSize(w) = Max(T)
  BY DEF CalcSize, d
<1> HIDE DEF T
<1>9. CalcSize(w) \in {d, 1} /\ CalcSize(w) >= d /\ CalcSize(w) >= 1
  BY <1>5, <1>7, <1>8 DEF T
<1>10. w # {} => Max(w) \div 7 \in Nat
  BY <1>2
<1> QED
  BY <1>2, <1>3, <1>4, <1>5, <1>9, <1>10

(* What is left of a value when the first groups are written. *)
LEMMA RestOfWord ==
  ASSUME NEW w \in Word, NEW g \in Nat, g < CalcSize(w)
  PROVE  /\ Shr(w, 7 * g) \in Word
         /\ CalcSize(Shr(w, 7 * g)) = CalcSize(w) - g
         /\ Continues(Shr(w, 7 * g)) <=> g + 1 < CalcSize(w)
<1> DEFINE r == Shr(w, 7 * g)
<1>1. \A b : b \in r <=> b \in Bits(64) /\ b + 7 * g \in w
  BY DEF Shr, Word, Bits
<1>2. r \in Word
  BY <1>1 DEF Word
<1> HIDE DEF r
<1>3. CASE w = {}
  <2>1. r = {} /\ g = 0
    BY <1>1, <1>3, SizeOfWord
  <2> QED
    BY <1>2, <1>3, <2>1, SizeOfWord DEF Continues, r
<1>4. CASE w # {}
  <2> DEFINE m == Max(w)
  <2>1. m \in w /\ m \in 0..63 /\ (\A b \in w : b <= m) /\ CalcSize(w) = m \div 7 + 1
    BY <1>4, SizeOfWord
  <2> HIDE DEF m
  <2>2. g <= m \div 7 /\ 7 * g <= m
    BY <2>1
  <2>3. m - 7 * g \in r
    BY <1>1, <2>1, <2>2 DEF Bits
  <2>4. \A b \in r : b <= m - 7 * g
    BY <1>1, <2>1, <2>2 DEF Bits
  <2>5. Max(r) = m - 7 * g
    <3>1. Max(r) \in r /\ \A b \in r : b <= Max(r)
      BY <1>2, <2>3, SizeOfWord
    <3>2. Max(r) \in Nat
      BY <1>1, <3>1 DEF Bits
    <3> QED
      BY <2>1, <2>2, <2>3, <2>4, <3>1, <3>2
  <2>6. CalcSize(r) = (m - 7 * g) \div 7 + 1
    BY <1>2, <2>3, <2>5, SizeOfWord
  <2>7. (m - 7 * g) \div 7 = m \div 7 - g
    BY <2>1, <2>2
  <2>8. Continues(r) <=> m - 7 * g >= 7
    <3>1. \A b \in r : b \in Nat
      BY <1>1 DEF Bits
    <3> QED
      BY <2>1, <2>2, <2>3, <2>4, <3>1 DEF Continues
  <2>9. m - 7 * g >= 7 <=> g + 1 < m \div 7 + 1
    BY <2>1, <2>2
  <2> QED
    BY <1>2, <2>1, <2>6, <2>7, <2>8, <2>9 DEF r
<1> QED
  BY <1>3, <1>4

(* The byte of a group of seven bits. *)
ByteOf(w, g) == [low |-> Shr(w, 7 * g) \cap Bits(7), more |-> g + 1 < CalcSize(w)]

(* A group that is shifted back is where it was. *)
LEMMA GroupBack ==
  ASSUME NEW w \in Word, NEW g \in 0..9
  PROVE  (w \cap Bits(7 * g)) \cup Shl(ByteOf(w, g).low, (7 * g) % 64) = w \cap Bits(7 * (g + 1))
<1>1. (7 * g) % 64 = 7 * g
  OBVIOUS
<1>2. \A b : b \in ByteOf(w, g).low <=> b \in Bits(7) /\ b + 7 * g \in w
  BY DEF ByteOf, Shr, Word, Bits
<1>4. \A b \in w : b \in Nat /\ b \in Bits(64)
  BY DEF Word, Bits
<1>3. \A b : b \in Shl(ByteOf(w, g).low, 7 * g) <=> b \in Bits(64) /\ b \in w /\ b - 7 * g \in Bits(7)
  <2>1. ASSUME NEW b \in Shl(ByteOf(w, g).low, 7 * g)
        PROVE  b \in Bits(64) /\ b \in w /\ b - 7 * g \in Bits(7)
    <3>1. b \in Bits(64) /\ \E c \in ByteOf(w, g).low : b = c + 7 * g
      BY <2>1 DEF Shl
    <3> QED
      BY <1>2, <3>1 DEF Bits
  <2>2. ASSUME NEW b \in w, b - 7 * g \in Bits(7)
        PROVE  b \in Shl(ByteOf(w, g).low, 7 * g)
    <3>1. b - 7 * g \in ByteOf(w, g).low /\ b = (b - 7 * g) + 7 * g /\ b \in Bits(64)
      BY <1>2, <1>4, <2>2
    <3> QED
      BY <3>1 DEF Shl
  <2> QED
    BY <1>4, <2>1, <2>2
<1>5. \A b \in Nat : b \in Bits(7 * (g + 1)) <=> b \in Bits(7 * g) \/ b - 7 * g \in Bits(7)
  BY DEF Bits
<1> QED
  BY <1>1, <1>3, <1>4, <1>5

(* All of it fits the groups of its size. *)
LEMMA GroupsCover ==
  ASSUME NEW w \in Word
  PROVE  w \cap Bits(7 * CalcSize(w)) = w
<1>1. CASE w = {}
  BY <1>1
<1>2. CASE w # {}
  <2> DEFINE m == Max(w)
  <2>1. m \in 0..63 /\ (\A b \in w : b <= m) /\ CalcSize(w) = m \div 7 + 1
    BY <1>2, SizeOfWord
  <2> HIDE DEF m
  <2>2. m < 7 * (m \div 7 + 1)
    BY <2>1
  <2>3. \A b \in w : b \in Nat
    BY DEF Word, Bits
  <2> QED
    BY <2>1, <2>2, <2>3 DEF Bits
<1> QED
  BY <1>1, <1>2
-----------------------------------------------------------------------------
(* A value of w bits, negative if the last of them is set. *)
Extended(v, w) == IF w - 1 \in v THEN v \cup (Bits(64) \ Bits(w)) ELSE v

LEMMA ZigZagUndone ==
  ASSUME NEW w \in {16, 32, 64}, NEW v \in SUBSET Bits(w), NEW x \in Word, x = Extended(v, w)
  PROVE  /\ ZigZag(x) \in Word /\ ZigZag(x) \subseteq Bits(w)
         /\ UnZigZag(ZigZag(x)) \cap Bits(w) = v
<1> DEFINE neg == w - 1 \in v
           z == ZigZag(x)
<1>1. w \in Nat /\ w >= 16 /\ w <= 64
  OBVIOUS
<1>2. \A b : b \in Bits(64) <=> b \in Nat /\ b <= 63
  BY DEF Bits
<1>3. \A b : b \in Bits(w) <=> b \in Nat /\ b < w
  BY <1>1 DEF Bits
<1>4. \A b \in v : b \in Nat /\ b < w
  BY <1>3
<1>5. \A b \in Nat : b <= 63 => (b \in x <=> b \in v \/ (neg /\ b >= w))
  BY <1>1, <1>2, <1>3 DEF Extended
<1>6. \A b \in x : b \in Nat /\ b <= 63
  BY <1>2 DEF Word
<1>7. \A b : b \in Shl(x, 1) <=> b \in Nat /\ b <= 63 /\ b - 1 \in x
  <2>1. ASSUME NEW b \in Shl(x, 1) PROVE b \in Nat /\ b <= 63 /\ b - 1 \in x
    <3>1. b \in Bits(64) /\ \E c \in x : b = c + 1
      BY <2>1 DEF Shl
    <3>2. PICK c \in x : b = c + 1
      BY <3>1
    <3>3. b - 1 = c
      BY <1>6, <3>2
    <3> QED
      BY <1>2, <3>1, <3>3
  <2>2. ASSUME NEW b \in Nat, b <= 63, b - 1 \in x PROVE b \in Shl(x, 1)
    <3>1. b = (b - 1) + 1 /\ b \in Bits(64)
      BY <1>2, <2>2
    <3> QED
      BY <2>2, <3>1 DEF Shl
  <2> QED
    BY <2>1, <2>2
<1> HIDE DEF neg
<1>8. 63 \in x <=> neg
  <2>1. w = 64 \/ w <= 63
    BY <1>1
  <2>2. w = 64 => (63 \in v <=> neg)
    BY DEF neg
  <2> QED
    BY <1>1, <1>4, <1>5, <2>1, <2>2
<1>9. \A b : b \in z <=> b \in Nat /\ b <= 63 /\ ~(b - 1 \in x <=> neg)
  BY <1>2, <1>7, <1>8 DEF ZigZag, Xor, Fill
<1> HIDE DEF z
<1>10. ASSUME NEW b \in z PROVE b \in Bits(64) /\ b \in Bits(w)
  <2>1. b \in Nat /\ b <= 63 /\ ~(b - 1 \in x <=> neg)
    BY <1>9, <1>10
  <2>2. ASSUME b >= w PROVE FALSE
    <3>1. b - 1 \in Nat /\ b - 1 <= 63 /\ b - 1 >= w - 1
      BY <1>1, <2>1, <2>2
    <3>2. b - 1 \in x <=> b - 1 \in v \/ (neg /\ b - 1 >= w)
      BY <1>5, <3>1
    <3>3. CASE b = w
      BY <1>1, <2>1, <3>2, <3>3 DEF neg
    <3>4. CASE b > w
      BY <1>1, <1>4, <2>1, <3>1, <3>2, <3>4
    <3> QED
      BY <1>1, <2>1, <2>2, <3>3, <3>4
  <2> QED
    BY <1>1, <1>2, <1>3, <2>1, <2>2
<1>11. 0 \in z <=> neg
  <2>1. 0 - 1 \notin x
    BY <1>6
  <2> QED
    BY <1>9, <2>1
<1>12. \A b : b \in Shr(z, 1) <=> b \in Nat /\ b + 1 \in z
  BY <1>9 DEF Shr
<1>13. ASSUME NEW b \in Nat, b < w PROVE b \in UnZigZag(z) <=> b \in v
  <2>1. b <= 63
    BY <1>1, <1>13
  <2>2. b \in UnZigZag(z) <=> ~(b + 1 \in z <=> neg)
    BY <1>2, <1>11, <1>12, <2>1 DEF UnZigZag, Xor, Fill
  <2>3. b \in x <=> b \in v
    BY <1>1, <1>5, <1>13, <2>1
  <2>4. CASE b = 63
    <3>1. b + 1 \notin z
      BY <1>9, <2>4
    <3>2. 63 \in x <=> neg
      BY <1>8
    <3> QED
      BY <2>2, <2>3, <2>4, <3>1, <3>2
  <2>5. CASE b < 63
    <3>1. b + 1 \in z <=> ~(b \in x <=> neg)
      <4>1. b + 1 \in Nat /\ b + 1 <= 63 /\ (b + 1) - 1 = b
        BY <2>5
      <4> QED
        BY <1>9, <4>1
    <3> QED
      BY <2>2, <2>3, <3>1
  <2> QED
    BY <2>1, <2>4, <2>5
<1>14. UnZigZag(z) \cap Bits(w) = v
  BY <1>3, <1>4, <1>13
<1>15. z \in Word /\ z \subseteq Bits(w)
  BY <1>10 DEF Word
<1> QED
  BY <1>14, <1>15 DEF z

(* What is written of a value has no more bits than its type, and is       *)
(* turned back into the value.                                             *)
LEMMA CodedBack ==
  ASSUME type \in IntType, NEW v \in SUBSET Bits(Width)
  PROVE  /\ Coded(v) \in Word /\ Coded(v) \subseteq Bits(Width)
         /\ Returned(Coded(v)) = v
<1>1. PICK w : w = Width
  OBVIOUS
<1>2. w \in {16, 32, 64} /\ w \in Nat /\ w <= 64 /\ Signed \in BOOLEAN /\ v \in SUBSET Bits(w)
  BY <1>1, WidthOfType
<1>3. \A b \in Bits(w) : b \in Bits(64)
  BY <1>2 DEF Bits
<1>4. Widen(v) \in Word
  BY <1>1, <1>2, <1>3 DEF Widen, Word
<1>5. CASE Signed
  <2>1. PICK x : x = Extended(v, w)
    OBVIOUS
  <2>2. Widen(v) = x /\ x \in Word
    BY <1>1, <1>4, <1>5, <2>1 DEF Widen, Extended
  <2>3. /\ ZigZag(x) \in Word /\ ZigZag(x) \subseteq Bits(w)
        /\ UnZigZag(ZigZag(x)) \cap Bits(w) = v
    BY <1>2, <2>1, <2>2, ZigZagUndone
  <2> QED
    BY <1>1, <1>5, <2>2, <2>3 DEF Coded, Returned, Narrow
<1>6. CASE ~Signed
  BY <1>1, <1>2, <1>4, <1>6 DEF Coded, Returned, Narrow, Widen
<1> QED
  BY <1>2, <1>5, <1>6

(* A value of so many bits takes no byte that is shifted further. *)
LEMMA SizeFits ==
  ASSUME NEW n \in Nat, NEW w \in Word, w \subseteq Bits(n), NEW g \in Nat, g < CalcSize(w), n >= 1
  PROVE  7 * g < n
<1>1. CASE w = {}
  BY <1>1, SizeOfWord
<1>2. CASE w # {}
  <2> DEFINE m == Max(w)
  <2>1. m \in w /\ m \in 0..63 /\ CalcSize(w) = m \div 7 + 1
    BY <1>2, SizeOfWord
  <2> HIDE DEF m
  <2>2. m < n
    BY <2>1 DEF Bits
  <2>3. g <= m \div 7 /\ 7 * g <= m
    BY <2>1
  <2> QED
    BY <2>1, <2>2, <2>3
<1> QED
  BY <1>1, <1>2
-----------------------------------------------------------------------------
(* A message is laid out one member after the other, each byte by byte: c  *)
(* are the values that are written, l their lengths, f what the lengths    *)
(* before each come to.                                                    *)
Codes == [k \in DOMAIN message |-> Coded(message[k])]
Lengths == [k \in DOMAIN message |-> CalcSize(Coded(message[k]))]

Laid(b, f, n, l, c) ==
  \A k \in 1..n : \A g \in Nat :
    g < l[k] /\ f[k - 1] + g < Len(b) => b[f[k - 1] + g + 1] = ByteOf(c[k], g)

LEMMA LaidGrows ==
  ASSUME NEW n \in Nat, NEW l \in [1..n -> Nat], NEW c, NEW f, SumsTo(f, n, l),
         NEW b \in Seq(Byte), Laid(b, f, n, l, c),
         NEW k \in 1..n, NEW g \in Nat, g < l[k], Len(b) = f[k - 1] + g,
         ByteOf(c[k], g) \in Byte
  PROVE  Laid(Append(b, ByteOf(c[k], g)), f, n, l, c)
<1> DEFINE new == Append(b, ByteOf(c[k], g))
<1> SUFFICES ASSUME NEW i \in 1..n, NEW h \in Nat, h < l[i], f[i - 1] + h < Len(new)
             PROVE  new[f[i - 1] + h + 1] = ByteOf(c[i], h)
  BY DEF Laid
<1>0. Appended(b, ByteOf(c[k], g), new)
  BY AppendParts
<1> HIDE DEF new
<1>1. /\ Len(new) = Len(b) + 1 /\ new[Len(b) + 1] = ByteOf(c[k], g) /\ Len(b) \in Nat
      /\ \A j \in 1..Len(b) : new[j] = b[j]
  BY <1>0 DEF Appended
<1>2. /\ i - 1 \in 0..n /\ k - 1 \in 0..n /\ i \in 0..n /\ k \in 0..n
      /\ i \in Nat /\ k \in Nat
  OBVIOUS
<1>3. /\ f[i - 1] \in Nat /\ f[k - 1] \in Nat /\ f[i] = f[i - 1] + l[i] /\ f[k] = f[k - 1] + l[k]
      /\ l[i] \in Nat /\ l[k] \in Nat
  BY <1>2 DEF SumsTo
<1>4. PICK p, q, z \in Nat : p = f[i - 1] /\ q = f[k - 1] /\ z = Len(b)
  BY <1>1, <1>3
<1>7. z = q + g /\ p + h < z + 1
  BY <1>1, <1>4
<1>5. CASE p + h < z
  <2>1. p + h + 1 \in 1..Len(b)
    <3>1. p + h + 1 \in 1..z
      BY <1>5
    <3> QED
      BY <1>4, <3>1
  <2>2. new[p + h + 1] = b[p + h + 1]
    BY <1>1, <2>1
  <2>3. b[p + h + 1] = ByteOf(c[i], h)
    BY <1>4, <1>5 DEF Laid
  <2> QED
    BY <1>4, <2>2, <2>3
<1>6. CASE p + h = z
  <2>1. q + g = p + h
    BY <1>6, <1>7
  <2>2. CASE i < k
    <3>1. i <= k - 1
      BY <1>2, <2>2
    <3>2. f[i] <= f[k - 1]
      BY <1>2, <3>1, SumsGrow
    <3>3. p + l[i] <= q
      BY <1>3, <1>4, <3>2
    <3> QED
      BY <1>3, <2>1, <3>3
  <2>3. CASE k < i
    <3>1. k <= i - 1
      BY <1>2, <2>3
    <3>2. f[k] <= f[i - 1]
      BY <1>2, <3>1, SumsGrow
    <3>3. q + l[k] <= p
      BY <1>3, <1>4, <3>2
    <3> QED
      BY <1>3, <2>1, <3>3
  <2>4. CASE i = k
    <3>1. g = h
      <4>1. p = q
        BY <1>4, <2>4
      <4> QED
        BY <2>1, <4>1
    <3>2. p + h + 1 = Len(b) + 1
      BY <1>4, <1>6
    <3> QED
      BY <1>1, <1>4, <2>4, <3>1, <3>2
  <2> QED
    BY <1>2, <2>2, <2>3, <2>4
<1> QED
  BY <1>5, <1>6, <1>7

(* What the message is made of. *)
MessageTyped == type \in IntType /\ message \in Seq(SUBSET Bits(Width))

LEMMA MessageParts ==
  ASSUME MessageTyped
  PROVE  /\ Len(message) \in Nat /\ DOMAIN message = 1..Len(message)
         /\ Lengths \in [1..Len(message) -> Nat]
         /\ \A k \in 1..Len(message) :
              /\ message[k] \in SUBSET Bits(Width)
              /\ Codes[k] \in Word /\ Codes[k] \subseteq Bits(Width)
              /\ Returned(Codes[k]) = message[k] /\ Codes[k] = Coded(message[k])
              /\ Lengths[k] = CalcSize(Codes[k]) /\ Lengths[k] \in Nat \ {0}
<1>1. Len(message) \in Nat /\ DOMAIN message = 1..Len(message)
  BY DEF MessageTyped
<1>2. ASSUME NEW k \in 1..Len(message)
      PROVE  /\ message[k] \in SUBSET Bits(Width)
             /\ Codes[k] \in Word /\ Codes[k] \subseteq Bits(Width)
             /\ Returned(Codes[k]) = message[k] /\ Codes[k] = Coded(message[k])
             /\ Lengths[k] = CalcSize(Codes[k]) /\ Lengths[k] \in Nat \ {0}
  <2>1. message[k] \in SUBSET Bits(Width)
    <3> DEFINE S == SUBSET Bits(Width)
    <3>1. message \in Seq(S)
      BY DEF MessageTyped
    <3> HIDE DEF S
    <3>2. message[k] \in S
      BY <3>1
    <3> QED
      BY <3>2 DEF S
  <2>2. Codes[k] = Coded(message[k]) /\ Lengths[k] = CalcSize(Coded(message[k]))
    BY <1>1 DEF Codes, Lengths
  <2>3. /\ Coded(message[k]) \in Word /\ Coded(message[k]) \subseteq Bits(Width)
        /\ Returned(Coded(message[k])) = message[k]
    BY <2>1, CodedBack DEF MessageTyped
  <2> QED
    BY <2>1, <2>2, <2>3, SizeOfWord
<1>3. Lengths \in [1..Len(message) -> Nat]
  BY <1>1, <1>2 DEF Lengths
<1> QED
  BY <1>1, <1>2, <1>3
(***************************************************************************)
(* The encoder.  f[k] is the place where member k ends.  The encoder is at *)
(* the place where a member begins, or in the middle of one: then what is  *)
(* left of it is the member without the groups that are written.           *)
(***************************************************************************)
InMember(f) ==
  /\ result = "encoding" /\ next \in DOMAIN message
  /\ \E g \in Nat : /\ g < Lengths[next] /\ Len(buf) = f[next - 1] + g
                   /\ word = <<Shr(Codes[next], 7 * g)>>

Writing(f) ==
  /\ buf \in Seq(Byte) /\ next \in 1..(Len(message) + 1)
  /\ result # "preparing" => size = f[Len(message)]
  /\ result = "preparing" => next = 1 /\ word = Idle /\ size = 0
  /\ result \notin {"preparing", "encoding"} => next = Len(message) + 1
  /\ word = Idle => Len(buf) = f[next - 1]
  /\ word # Idle => InMember(f)
  /\ Laid(buf, f, Len(message), Lengths, Codes)

(***************************************************************************)
(* The decoder.  It has returned the members before the one it is at, and  *)
(* holds the groups of that one that it has read.                          *)
(***************************************************************************)
AtGroup(f, k) ==
  \E g \in Nat : /\ g < Lengths[k] /\ pos = f[k - 1] + g
                /\ shift = 7 * g /\ value = Codes[k] \cap Bits(7 * g)

Reading(f) ==
  /\ decoded \in Seq(SUBSET Bits(Width)) /\ Len(decoded) <= Len(message)
  /\ \A i \in DOMAIN decoded : decoded[i] = message[i]
  /\ result \in {"preparing", "encoding", "decoding", "ok"}
  /\ result \in {"preparing", "encoding"} => pos = 0 /\ decoded = <<>>
  /\ result = "ok" => Len(decoded) = Len(message)
  /\ Len(decoded) < Len(message) => AtGroup(f, Len(decoded) + 1)
  /\ Len(decoded) = Len(message) => pos = f[Len(message)] /\ shift = 0 /\ value = {}

MessageTransferred ==
  /\ MessageTyped /\ checks \in BOOLEAN /\ count = Len(message)
  /\ \E f : SumsTo(f, Len(message), Lengths) /\ Writing(f) /\ Reading(f)
-----------------------------------------------------------------------------
LEMMA MessageStarts == InitMessage => MessageTransferred
<1> SUFFICES ASSUME InitMessage PROVE MessageTransferred
  OBVIOUS
<1>1. MessageTyped
  <2>1. PICK m \in Messages : type = m.type /\ message = m.values
    BY DEF InitMessage
  <2>2. m.type \in IntType /\ m.values \in Seq(SUBSET Bits(m.type.width))
    BY MessagesAssumption
  <2> QED
    BY <2>1, <2>2 DEF MessageTyped, Width
<1> DEFINE n == Len(message)
<1>2. /\ n \in Nat /\ DOMAIN message = 1..n /\ Lengths \in [1..n -> Nat]
      /\ \A k \in 1..n : Lengths[k] \in Nat \ {0}
  BY <1>1, MessageParts
<1>3. PICK F : FoldsSum(F, n, Lengths)
  <2> HIDE DEF n
  <2> QED
    BY <1>2, SumFoldExists
<1>4. PICK f : SumsTo(f, n, Lengths)
  <2> HIDE DEF n
  <2> QED
    BY <1>2, <1>3, FoldedSum
<1>5. f[0] = 0 /\ f \in [0..n -> Nat]
  BY <1>4 DEF SumsTo
<1>6. /\ checks \in BOOLEAN /\ size = 0 /\ next = 1 /\ word = Idle /\ buf = <<>> /\ count = n
      /\ pos = 0 /\ value = {} /\ shift = 0 /\ decoded = <<>> /\ result = "preparing"
  BY DEF InitMessage, InitDecoder
<1>7. Writing(f)
  <2>1. Laid(buf, f, n, Lengths, Codes)
    <3>1. \A k \in 1..n : f[k - 1] \in Nat
      BY <1>2, <1>5
    <3>2. Len(buf) = 0
      BY <1>6
    <3> QED
      BY <3>1, <3>2 DEF Laid
  <2>2. buf \in Seq(Byte) /\ Len(buf) = f[next - 1] /\ next \in 1..(n + 1)
    BY <1>2, <1>5, <1>6
  <2> QED
    BY <1>6, <2>1, <2>2 DEF Writing
<1>8. Reading(f)
  <2>1. n > 0 => AtGroup(f, 1)
    <3>1. ASSUME n > 0 PROVE 0 < Lengths[1] /\ pos = f[1 - 1] + 0 /\ 0 = 7 * 0
      BY <1>2, <1>5, <1>6, <3>1
    <3>2. Codes[1] \cap Bits(7 * 0) = {}
      BY DEF Bits
    <3> QED
      BY <1>6, <3>1, <3>2 DEF AtGroup
  <2>2. Len(decoded) = 0 /\ decoded \in Seq(SUBSET Bits(Width)) /\ DOMAIN decoded = {}
    BY <1>6
  <2> HIDE DEF n
  <2>3. Len(decoded) < n => AtGroup(f, Len(decoded) + 1)
    BY <2>1, <2>2
  <2>4. Len(decoded) = n => pos = f[n]
    BY <1>5, <1>6, <2>2
  <2> QED
    BY <1>2, <1>6, <2>2, <2>3, <2>4 DEF Reading, n
<1> QED
  BY <1>1, <1>4, <1>6, <1>7, <1>8 DEF MessageTransferred
LEMMA SameMessage ==
  ASSUME UNCHANGED <<type, message>>
  PROVE  /\ Codes' = Codes /\ Lengths' = Lengths /\ Width' = Width
         /\ MessageTyped => MessageTyped'
<1>1. Width' = Width /\ Signed' = Signed
  BY DEF Width, Signed
<1>2. \A v : Coded(v)' = Coded(v)
  BY <1>1 DEF Coded, Widen
<1> QED
  BY <1>1, <1>2 DEF Codes, Lengths, MessageTyped

LEMMA ReaderWaits ==
  ASSUME NEW f, Reading(f), UNCHANGED <<type, message, decoder>>,
         result \in {"preparing", "encoding"}, result' \in {"preparing", "encoding", "decoding"}
  PROVE  Reading(f)'
<1>1. Codes' = Codes /\ Lengths' = Lengths /\ Width' = Width
  BY SameMessage
<1>2. UNCHANGED <<pos, value, shift, decoded, message>>
  BY DEF decoder
<1>3. \A k : AtGroup(f, k) => AtGroup(f, k)'
  BY <1>1, <1>2 DEF AtGroup
<1>4. Len(decoded)' = Len(decoded) /\ Len(message)' = Len(message)
  BY <1>2
<1> QED
  BY <1>1, <1>2, <1>3, <1>4 DEF Reading

(* The next byte of the member that is written. *)
LEMMA NextGroup ==
  ASSUME MessageTyped, NEW f, SumsTo(f, Len(message), Lengths), Writing(f), word # Idle
  PROVE  \E g \in Nat :
           /\ next \in 1..Len(message) /\ g < Lengths[next] /\ Len(buf) = f[next - 1] + g
           /\ Rest = Shr(Codes[next], 7 * g)
           /\ Continues(Rest) <=> g + 1 < Lengths[next]
           /\ CalcSize(Rest) = Lengths[next] - g
           /\ Rest \in Word
           /\ Continues(Rest) => [low |-> Rest \cap Bits(7), more |-> TRUE] = ByteOf(Codes[next], g)
           /\ ~Continues(Rest) =>
                [low |-> Rest \cap Bits(7), more |-> 7 \in Rest] = ByteOf(Codes[next], g)
           /\ ByteOf(Codes[next], g) \in Byte
           /\ Shr(Rest, 7) = Shr(Codes[next], 7 * (g + 1))
<1>1. InMember(f)
  BY DEF Writing
<1>2. PICK g \in Nat : /\ g < Lengths[next] /\ Len(buf) = f[next - 1] + g
                       /\ word = <<Shr(Codes[next], 7 * g)>>
  BY <1>1 DEF InMember
<1>3. PICK w : w = Codes[next]
  OBVIOUS
<1>4. next \in 1..Len(message) /\ w \in Word /\ Lengths[next] = CalcSize(w)
  BY <1>1, <1>3, MessageParts DEF InMember
<1>5. Rest = Shr(w, 7 * g)
  BY <1>2, <1>3 DEF Rest
<1>6. /\ Rest \in Word
      /\ CalcSize(Rest) = CalcSize(w) - g
      /\ Continues(Rest) <=> g + 1 < CalcSize(w)
  BY <1>2, <1>4, <1>5, RestOfWord
<1>7. /\ Continues(Rest) => [low |-> Rest \cap Bits(7), more |-> TRUE] = ByteOf(w, g)
      /\ ~Continues(Rest) => [low |-> Rest \cap Bits(7), more |-> 7 \in Rest] = ByteOf(w, g)
  <2>1. Continues(Rest) => (g + 1 < CalcSize(w)) = TRUE
    BY <1>6
  <2>2. ~Continues(Rest) => (g + 1 < CalcSize(w)) = FALSE
    BY <1>6
  <2>3. ~Continues(Rest) => (7 \in Rest) = FALSE
    BY DEF Continues
  <2> QED
    BY <1>5, <2>1, <2>2, <2>3 DEF ByteOf
<1>8. ByteOf(w, g) \in Byte
  <2>1. (g + 1 < CalcSize(w)) \in BOOLEAN
    OBVIOUS
  <2>2. Shr(w, 7 * g) \cap Bits(7) \in SUBSET Bits(7)
    OBVIOUS
  <2> QED
    BY <2>1, <2>2 DEF ByteOf, Byte
<1>9. Shr(Rest, 7) = Shr(w, 7 * (g + 1))
  <2>1. \A b \in w : b \in Nat
    BY <1>4 DEF Word, Bits
  <2> DEFINE a == 7 * g
  <2>2. a \in Nat /\ 7 * (g + 1) = a + 7
    OBVIOUS
  <2> HIDE DEF a
  <2>3. ASSUME NEW b \in Shr(Shr(w, a), 7) PROVE b \in Shr(w, a + 7)
    <3>1. PICK d \in Shr(w, a) : d >= 7 /\ b = d - 7
      BY <2>3 DEF Shr
    <3>2. PICK e \in w : e >= a /\ d = e - a
      BY DEF Shr
    <3>3. e >= a + 7 /\ b = e - (a + 7)
      BY <2>1, <2>2, <3>1, <3>2
    <3> QED
      BY <3>3 DEF Shr
  <2>4. ASSUME NEW b \in Shr(w, a + 7) PROVE b \in Shr(Shr(w, a), 7)
    <3>1. PICK e \in w : e >= a + 7 /\ b = e - (a + 7)
      BY <2>4 DEF Shr
    <3>2. e >= a /\ e - a >= 7 /\ b = (e - a) - 7
      BY <2>1, <2>2, <3>1
    <3>3. e - a \in Shr(w, a)
      BY <3>2 DEF Shr
    <3> QED
      BY <3>2, <3>3 DEF Shr
  <2>5. Shr(Shr(w, a), 7) = Shr(w, a + 7)
    BY <2>3, <2>4
  <2> QED
    BY <1>5, <2>2, <2>5 DEF a
<1> QED
  BY <1>2, <1>3, <1>4, <1>5, <1>6, <1>7, <1>8, <1>9
(* What prepare adds up is the sum of the lengths. *)
LEMMA PreparedSize ==
  ASSUME MessageTyped, NEW f, SumsTo(f, Len(message), Lengths)
  PROVE  FoldLeft(LAMBDA sum, v : sum + CalcSize(Coded(v)), 0, message) = f[Len(message)]
<1> DEFINE D(h) == [s \in SUBSET DOMAIN message |->
                      IF s = {} THEN 0 ELSE h[s \ {Max(s)}] + CalcSize(Coded(message[Max(s)]))]
           F == CHOOSE h : h = D(h)
           n == Len(message)
<1>1. n \in Nat /\ DOMAIN message = 1..n /\ Lengths \in [1..n -> Nat]
  BY MessageParts
<1>2. \A k \in 1..n : Lengths[k] = CalcSize(Coded(message[k]))
  BY <1>1 DEF Lengths
<1> HIDE DEF n
<1>3. PICK g \in [SUBSET (1..n) -> Nat] : FoldsSum(g, n, Lengths)
  BY <1>1, SumFoldExists
<1>4. \A s \in SUBSET (1..n) : s # {} => Lengths[Max(s)] = CalcSize(Coded(message[Max(s)]))
  BY <1>1, <1>2, MaxOfPrefix
<1>5. g = D(g)
  <2>1. \A s \in SUBSET (1..n) :
          g[s] = IF s = {} THEN 0 ELSE g[s \ {Max(s)}] + CalcSize(Coded(message[Max(s)]))
    BY <1>3, <1>4 DEF FoldsSum
  <2> QED
    BY <1>1, <1>3, <2>1
<1>6. F = D(F)
  <2> HIDE DEF D
  <2> QED
    BY <1>5
<1>7. FoldLeft(LAMBDA sum, v : sum + CalcSize(Coded(v)), 0, message) = F[1..n]
  BY <1>1 DEF FoldLeft, MapThenFoldSet
<1> HIDE DEF F
<1>8. \A s \in SUBSET (1..n) :
        F[s] = IF s = {} THEN 0 ELSE F[s \ {Max(s)}] + CalcSize(Coded(message[Max(s)]))
  BY <1>1, <1>6
<1>9. FoldsSum(F, n, Lengths)
  BY <1>4, <1>8 DEF FoldsSum
<1>10. PICK h : SumsTo(h, n, Lengths) /\ F[1..n] = h[n]
  BY <1>1, <1>9, FoldedSum
<1>11. h[n] = f[n]
  BY <1>1, <1>10, SumsAreUnique DEF n
<1> QED
  BY <1>7, <1>10, <1>11 DEF n

(* Writing a byte of the member moves the encoder on. *)
LEMMA ByteWritten ==
  ASSUME MessageTyped, NEW f, SumsTo(f, Len(message), Lengths), Writing(f), word # Idle,
         PushMore \/ PushLast
  PROVE  Writing(f)'
<1>1. PICK n, l, c : n = Len(message) /\ l = Lengths /\ c = Codes
  OBVIOUS
<1>2. /\ n \in Nat /\ DOMAIN message = 1..n /\ l \in [1..n -> Nat]
  BY <1>1, MessageParts
<1>3. PICK g \in Nat :
        /\ next \in 1..n /\ g < l[next] /\ Len(buf) = f[next - 1] + g
        /\ Rest = Shr(c[next], 7 * g)
        /\ Continues(Rest) <=> g + 1 < l[next]
        /\ Continues(Rest) => [low |-> Rest \cap Bits(7), more |-> TRUE] = ByteOf(c[next], g)
        /\ ~Continues(Rest) => [low |-> Rest \cap Bits(7), more |-> 7 \in Rest] = ByteOf(c[next], g)
        /\ ByteOf(c[next], g) \in Byte
        /\ Shr(Rest, 7) = Shr(c[next], 7 * (g + 1))
  BY <1>1, NextGroup
<1>4. /\ UNCHANGED <<type, message, size, result>> /\ result = "encoding"
      /\ buf' = Append(buf, ByteOf(c[next], g))
  BY <1>3 DEF PushMore, PushLast, build
<1>5. Lengths' = l /\ Codes' = c /\ Len(message)' = n
  BY <1>1, <1>4, SameMessage
<1>6. buf \in Seq(Byte) /\ Laid(buf, f, n, l, c) /\ size = f[n]
  BY <1>1, <1>4 DEF Writing
<1>7. Laid(buf', f, n, l, c)
  <2>1. Laid(Append(buf, ByteOf(c[next], g)), f, n, l, c)
    BY <1>1, <1>2, <1>3, <1>6, LaidGrows
  <2> QED
    BY <1>4, <2>1
<1>8. PICK q, len \in Nat : q = f[next - 1] /\ len = l[next] /\ f[next] = q + len
  <2>1. next - 1 \in 0..n /\ next \in 1..n
    BY <1>2, <1>3
  <2>2. f[next - 1] \in Nat /\ l[next] \in Nat /\ f[next] = f[next - 1] + l[next]
    BY <1>1, <1>2, <2>1 DEF SumsTo
  <2> QED
    BY <2>2
<1>9. buf' \in Seq(Byte) /\ Len(buf') = q + g + 1
  <2>1. Len(buf') = Len(buf) + 1 /\ buf' \in Seq(Byte)
    <3> DEFINE byte == ByteOf(c[next], g)
    <3>1. buf \in Seq(Byte) /\ byte \in Byte /\ buf' = Append(buf, byte)
      BY <1>3, <1>4, <1>6
    <3> HIDE DEF byte
    <3> QED
      BY <3>1
  <2>2. Len(buf) = q + g
    BY <1>3, <1>8
  <2> QED
    BY <2>1, <2>2
<1>10. CASE PushMore
  <2>1. next' = next /\ word' = <<Shr(c[next], 7 * (g + 1))>> /\ g + 1 < l[next]
    BY <1>3, <1>10 DEF PushMore
  <2>2. Len(buf') = f[next - 1] + (g + 1) /\ g + 1 \in Nat
    <3>1. g + 1 \in Nat /\ q + g + 1 = q + (g + 1)
      OBVIOUS
    <3> QED
      BY <1>8, <1>9, <3>1
  <2>3. word' # Idle
    BY <2>1 DEF Idle
  <2>4. InMember(f)'
    BY <1>2, <1>3, <1>4, <1>5, <2>1, <2>2 DEF InMember
  <2>5. next \in 1..(n + 1)
    BY <1>1 DEF Writing
  <2> QED
    BY <1>4, <1>5, <1>6, <1>7, <1>9, <2>1, <2>3, <2>4, <2>5 DEF Writing
<1>11. CASE PushLast
  <2>1. next' = next + 1 /\ word' = Idle /\ ~(g + 1 < len)
    BY <1>3, <1>8, <1>11 DEF PushLast
  <2>2. g < len
    BY <1>3, <1>8
  <2>3. next' - 1 = next /\ next' \in 1..(n + 1)
    BY <1>2, <1>3, <2>1
  <2>4. Len(buf') = f[next' - 1]
    <3>1. q + g + 1 = q + len
      <4>1. g + 1 = len
        BY <2>1, <2>2
      <4> QED
        BY <4>1
    <3>2. Len(buf') = f[next]
      BY <1>8, <1>9, <3>1
    <3> QED
      BY <2>3, <3>2
  <2> QED
    BY <1>4, <1>5, <1>6, <1>7, <1>9, <2>1, <2>3, <2>4 DEF Writing
<1> QED
  BY <1>10, <1>11

LEMMA WriterSteps ==
  ASSUME MessageTyped, NEW f, SumsTo(f, Len(message), Lengths), Writing(f), Reading(f),
         Prepare \/ StartValue \/ PushMore \/ PushLast \/ Send
  PROVE  Writing(f)' /\ Reading(f)' /\ UNCHANGED <<type, message, checks, count>>
<1>1. /\ UNCHANGED <<type, message, checks, count, decoder>>
      /\ result \in {"preparing", "encoding"} /\ result' \in {"preparing", "encoding", "decoding"}
  BY DEF Prepare, StartValue, PushMore, PushLast, Send, build, encoder
<1>2. Reading(f)'
  BY <1>1, ReaderWaits
<1>3. PICK n, l, c : n = Len(message) /\ l = Lengths /\ c = Codes
  OBVIOUS
<1>4. /\ n \in Nat /\ DOMAIN message = 1..n /\ l \in [1..n -> Nat]
      /\ \A k \in 1..n : l[k] \in Nat \ {0} /\ c[k] \in Word /\ c[k] = Coded(message[k])
  BY <1>3, MessageParts
<1>5. Lengths' = l /\ Codes' = c /\ Len(message)' = n /\ DOMAIN message' = 1..n
  BY <1>1, <1>3, <1>4, SameMessage
<1>6. CASE Prepare
  <2>1. /\ result = "preparing" /\ result' = "encoding" /\ UNCHANGED <<next, word, buf>>
    BY <1>6 DEF Prepare
  <2>2. size' = f[n]
    <3>1. size' = FoldLeft(LAMBDA sum, v : sum + CalcSize(Coded(v)), 0, message)
      BY <1>6 DEF Prepare
    <3> QED
      BY <1>3, <3>1, PreparedSize
  <2> QED
    BY <1>1, <1>2, <1>3, <1>5, <2>1, <2>2 DEF Writing
<1>7. CASE StartValue
  <2>1. /\ result = "encoding" /\ result' = result /\ UNCHANGED <<size, next, buf>> /\ word = Idle
        /\ next \in 1..n /\ word' = <<Coded(message[next])>>
    BY <1>4, <1>7 DEF StartValue
  <2>2. Shr(c[next], 7 * 0) = c[next]
    <3>1. PICK w : w = c[next]
      OBVIOUS
    <3>2. w \in Word
      BY <1>4, <2>1, <3>1
    <3>3. \A b \in w : b \in Nat
      BY <3>2 DEF Word, Bits
    <3>4. Shr(w, 7 * 0) = w
      BY <3>3 DEF Shr
    <3> QED
      BY <3>1, <3>4
  <2>3. word' = <<Shr(c[next], 7 * 0)>> /\ 0 < l[next]
    BY <1>4, <2>1, <2>2
  <2>4. Len(buf) = f[next - 1] /\ f[next - 1] \in Nat
    <3>1. next - 1 \in 0..n
      BY <1>4, <2>1
    <3> QED
      BY <1>3, <2>1, <3>1 DEF Writing, SumsTo
  <2>5. Len(buf) = f[next - 1] + 0
    BY <2>4
  <2>6. InMember(f)'
    BY <1>5, <2>1, <2>3, <2>5 DEF InMember
  <2>7. word' # Idle
    BY <2>1 DEF Idle
  <2> QED
    BY <1>1, <1>2, <1>3, <1>5, <2>1, <2>6, <2>7 DEF Writing
<1>8. CASE PushMore \/ PushLast
  <2>1. word # Idle
    BY <1>8 DEF PushMore, PushLast
  <2> QED
    BY <1>1, <1>2, <1>8, <2>1, ByteWritten
<1>9. CASE Send
  <2>1. /\ UNCHANGED <<size, next, word, buf>> /\ word = Idle /\ next \notin 1..n
        /\ result = "encoding" /\ result' = "decoding"
    BY <1>4, <1>9 DEF Send, encoder
  <2>2. next = n + 1
    BY <1>3, <1>4, <2>1 DEF Writing
  <2> QED
    BY <1>1, <1>2, <1>3, <1>5, <2>1, <2>2 DEF Writing
<1> QED
  BY <1>6, <1>7, <1>8, <1>9
(* The next byte that is read is the next group of the member. *)
LEMMA NextByteIsGroup ==
  ASSUME MessageTyped, NEW f, SumsTo(f, Len(message), Lengths), Writing(f), Reading(f),
         count = Len(message), Decoding
  PROVE  LET k == Len(decoded) + 1 IN
         /\ k \in 1..Len(message) /\ pos < Len(buf) /\ pos \in Nat
         /\ \E g \in 0..9 :
              /\ g < Lengths[k] /\ pos = f[k - 1] + g /\ shift = 7 * g /\ 7 * g < Width
              /\ value = Codes[k] \cap Bits(7 * g) /\ NextByte = ByteOf(Codes[k], g)
<1>1. PICK n, l, c, k : n = Len(message) /\ l = Lengths /\ c = Codes /\ k = Len(decoded) + 1
  OBVIOUS
<1>2. /\ n \in Nat /\ l \in [1..n -> Nat]
      /\ \A i \in 1..n : c[i] \in Word /\ c[i] \subseteq Bits(Width) /\ l[i] = CalcSize(c[i])
  BY <1>1, MessageParts
<1>3. Len(decoded) \in Nat /\ Len(decoded) < n
  BY <1>1 DEF Decoding, Reading
<1>4. k \in 1..n /\ k - 1 \in 0..n /\ k \in 0..n
  BY <1>1, <1>2, <1>3
<1>5. PICK g \in Nat : /\ g < l[k] /\ pos = f[k - 1] + g
                       /\ shift = 7 * g /\ value = c[k] \cap Bits(7 * g)
  BY <1>1, <1>3 DEF Reading, AtGroup
<1>6. PICK q, len, end \in Nat : q = f[k - 1] /\ len = l[k] /\ end = f[n] /\ f[k] = q + len
  <2>1. f[k - 1] \in Nat /\ l[k] \in Nat /\ f[n] \in Nat /\ f[k] = f[k - 1] + l[k]
    BY <1>1, <1>2, <1>4 DEF SumsTo
  <2> QED
    BY <2>1
<1>7. q + len <= end
  <2>1. n \in 0..n /\ k <= n
    BY <1>2, <1>4
  <2>2. f[k] <= f[n]
    BY <1>1, <1>2, <1>4, <2>1, SumsGrow
  <2> QED
    BY <1>6, <2>2
<1>8. Len(buf) = end
  <2>1. result = "decoding"
    BY DEF Decoding
  <2>2. next = n + 1 /\ word = Idle
    BY <1>1, <2>1 DEF Writing, InMember
  <2>3. next - 1 = n
    BY <1>2, <2>2
  <2> QED
    BY <1>6, <2>2, <2>3 DEF Writing
<1>9. pos = q + g /\ pos \in Nat /\ pos < end
  BY <1>5, <1>6, <1>7
<1>10. NextByte = ByteOf(c[k], g)
  <2>1. q + g < Len(buf)
    BY <1>8, <1>9
  <2>2. buf[f[k - 1] + g + 1] = ByteOf(c[k], g)
    BY <1>1, <1>4, <1>5, <1>6, <2>1 DEF Writing, Laid
  <2> QED
    BY <1>6, <1>9, <2>2 DEF NextByte
<1>11. 7 * g < Width /\ g \in 0..9
  <2>1. PICK w : w = Width
    OBVIOUS
  <2>2. w \in Nat /\ w >= 1 /\ w <= 64
    BY <2>1, WidthOfType DEF MessageTyped
  <2>3. c[k] \in Word /\ c[k] \subseteq Bits(w) /\ g < CalcSize(c[k])
    BY <1>2, <1>4, <1>5, <2>1
  <2>4. 7 * g < w
    BY <2>2, <2>3, SizeFits
  <2>5. g <= 9
    BY <2>2, <2>4
  <2> QED
    BY <2>1, <2>4, <2>5
<1>12. pos < Len(buf)
  BY <1>8, <1>9
<1> QED
  BY <1>1, <1>4, <1>5, <1>9, <1>10, <1>11, <1>12

(* The writer has nothing to do any more. *)
LEMMA WriterIsDone ==
  ASSUME NEW f, Writing(f), UNCHANGED encoder, result = "decoding",
         result' \in {"decoding", "ok"}
  PROVE  Writing(f)'
<1>1. UNCHANGED <<type, message, size, next, word, buf>>
  BY DEF encoder, build
<1>2. Codes' = Codes /\ Lengths' = Lengths /\ Len(message)' = Len(message)
  BY <1>1, SameMessage
<1>3. word = Idle
  BY DEF Writing, InMember
<1> QED
  BY <1>1, <1>2, <1>3 DEF Writing

LEMMA ReaderSteps ==
  ASSUME MessageTyped, NEW f, SumsTo(f, Len(message), Lengths), Writing(f), Reading(f),
         count = Len(message),
         UnexpectedEnd \/ ShiftPanic \/ TakeLast \/ RejectLong \/ TakeMore \/ Finish
  PROVE  Writing(f)' /\ Reading(f)' /\ UNCHANGED <<type, message, checks, count>>
<1>1. result = "decoding" /\ UNCHANGED encoder /\ UNCHANGED <<type, message, checks, count, buf>>
  BY DEF UnexpectedEnd, ShiftPanic, TakeLast, RejectLong, TakeMore, Finish, Shifts, AtByte,
         Decoding, encoder, build
<1>2. PICK n, l, c, k : n = Len(message) /\ l = Lengths /\ c = Codes /\ k = Len(decoded) + 1
  OBVIOUS
<1>3. /\ n \in Nat /\ l \in [1..n -> Nat]
      /\ \A i \in 1..n : /\ c[i] \in Word /\ l[i] = CalcSize(c[i]) /\ l[i] \in Nat \ {0}
                        /\ Returned(c[i]) = message[i] /\ message[i] \in SUBSET Bits(Width)
  BY <1>2, MessageParts
<1>4. Lengths' = l /\ Codes' = c /\ Len(message)' = n /\ Width' = Width
  BY <1>1, <1>2, SameMessage
<1>5. CASE Finish
  <2>1. UNCHANGED <<pos, value, shift, decoded>> /\ result' = "ok" /\ Len(decoded) = n
    BY <1>2, <1>5 DEF Finish, decoder
  <2>2. Writing(f)'
    BY <1>1, <2>1, WriterIsDone
  <2> QED
    BY <1>1, <1>2, <1>4, <2>1, <2>2 DEF Reading
<1>6. CASE UnexpectedEnd \/ ShiftPanic \/ TakeLast \/ RejectLong \/ TakeMore
  <2>1. Decoding
    BY <1>6 DEF UnexpectedEnd, ShiftPanic, TakeLast, RejectLong, TakeMore, Shifts, AtByte
  <2>2. k \in 1..n /\ pos < Len(buf) /\ pos \in Nat
    BY <1>2, <2>1, NextByteIsGroup
  <2>3. PICK g \in 0..9 :
          /\ g < l[k] /\ pos = f[k - 1] + g /\ shift = 7 * g /\ 7 * g < Width
          /\ value = c[k] \cap Bits(7 * g) /\ NextByte = ByteOf(c[k], g)
    BY <1>2, <2>1, NextByteIsGroup
  <2>4. PICK w, b, q, len : w = Width /\ b = c[k] /\ q = f[k - 1] /\ len = l[k]
    OBVIOUS
  <2>5. /\ w \in Nat /\ w <= 64 /\ b \in Word /\ len = CalcSize(b) /\ len \in Nat
        /\ q \in Nat /\ f[k] = q + len
    <3>1. k - 1 \in 0..n
      BY <1>3, <2>2
    <3>2. q \in Nat /\ f[k] = q + len
      BY <1>2, <2>2, <2>4, <3>1 DEF SumsTo
    <3> QED
      BY <1>3, <2>2, <2>4, <3>2, WidthOfType DEF MessageTyped
  <2>6. g \in Nat /\ shift < 64 /\ shift <= w /\ shift = 7 * g /\ 7 * g < w
    BY <2>3, <2>4, <2>5
  <2>7. WithByte = b \cap Bits(7 * (g + 1))
    BY <2>3, <2>4, <2>5, GroupBack DEF WithByte
  <2>8. NextByte.more <=> g + 1 < len
    BY <2>3, <2>4, <2>5 DEF ByteOf
  <2>9. /\ decoded \in Seq(SUBSET Bits(Width)) /\ Len(decoded) \in Nat /\ Len(decoded) + 1 = k
        /\ \A i \in DOMAIN decoded : decoded[i] = message[i]
    BY <1>2 DEF Reading
  <2>10. ~UnexpectedEnd /\ ~ShiftPanic
    BY <2>2, <2>6 DEF UnexpectedEnd, ShiftPanic
  <2>11. ~RejectLong
    <3>1. shift \in Nat /\ ~(shift > Width)
      BY <2>4, <2>5, <2>6
    <3> QED
      BY <3>1 DEF RejectLong, TooLong
  <2>12. CASE TakeMore
    <3>1. /\ UNCHANGED <<decoded, result>> /\ pos' = pos + 1 /\ value' = WithByte
          /\ shift' = shift + 7 /\ NextByte.more
      BY <2>12 DEF TakeMore
    <3>2. /\ g + 1 < l[k] /\ pos' = f[k - 1] + (g + 1) /\ shift' = 7 * (g + 1)
          /\ value' = c[k] \cap Bits(7 * (g + 1)) /\ g + 1 \in Nat
      BY <2>3, <2>4, <2>5, <2>6, <2>7, <2>8, <3>1
    <3>3. AtGroup(f, k)'
      BY <1>4, <3>2 DEF AtGroup
    <3>4. Len(decoded)' + 1 = k /\ Len(decoded)' # n /\ Len(decoded)' <= n
      BY <1>3, <2>2, <2>9, <3>1
    <3>5. Reading(f)'
      BY <1>1, <1>4, <2>9, <3>1, <3>3, <3>4 DEF Reading
    <3> QED
      BY <1>1, <3>1, <3>5, WriterIsDone
  <2>13. CASE TakeLast
    <3>1. /\ UNCHANGED result /\ pos' = pos + 1 /\ value' = {} /\ shift' = 0
          /\ decoded' = Append(decoded, Returned(WithByte)) /\ ~NextByte.more
      BY <2>13 DEF TakeLast
    <3>2. g + 1 = len
      <4>1. g < len /\ ~(g + 1 < len)
        BY <2>3, <2>4, <2>8, <3>1
      <4> QED
        BY <2>5, <2>6, <4>1
    <3>3. WithByte = b
      BY <2>5, <2>7, <3>2, GroupsCover
    <3>4. Returned(WithByte) = message[k] /\ message[k] \in SUBSET Bits(Width)
      BY <1>3, <2>2, <2>4, <3>3
    <3>5. /\ decoded' \in Seq(SUBSET Bits(Width)) /\ Len(decoded') = k
          /\ \A i \in DOMAIN decoded' : decoded'[i] = message[i]
      <4> DEFINE S == SUBSET Bits(Width)
                 x == message[k]
      <4>1. decoded \in Seq(S) /\ x \in S /\ decoded' = Append(decoded, x)
        BY <2>9, <3>1, <3>4
      <4> HIDE DEF S, x
      <4>2. /\ decoded' \in Seq(S) /\ Len(decoded') = k /\ decoded'[k] = x /\ DOMAIN decoded' = 1..k
            /\ \A i \in 1..(k - 1) : decoded'[i] = decoded[i]
            /\ DOMAIN decoded = 1..(k - 1)
        BY <2>9, <4>1
      <4>3. \A i \in 1..k : i = k \/ i \in 1..(k - 1)
        BY <2>2
      <4> QED
        BY <2>9, <4>2, <4>3 DEF S, x
    <3>6. pos' = f[k]
      <4>1. pos' = q + g + 1
        BY <2>3, <2>4, <3>1
      <4>2. q + g + 1 = q + len
        BY <2>5, <2>6, <3>2
      <4> QED
        BY <2>5, <4>1, <4>2
    <3>7. ASSUME k < n PROVE AtGroup(f, k + 1)'
      <4>1. k + 1 \in 1..n /\ (k + 1) - 1 = k
        BY <1>3, <2>2, <3>7
      <4>2. f[k] \in Nat /\ 0 < l[k + 1]
        BY <1>3, <2>5, <4>1
      <4>3. pos' = f[(k + 1) - 1] + 0 /\ shift' = 7 * 0
        BY <3>1, <3>6, <4>1, <4>2
      <4>4. c[k + 1] \cap Bits(7 * 0) = {}
        BY DEF Bits
      <4> QED
        BY <1>4, <3>1, <4>2, <4>3, <4>4 DEF AtGroup
    <3>8. Reading(f)'
      BY <1>1, <1>3, <1>4, <2>2, <3>1, <3>5, <3>6, <3>7 DEF Reading
    <3> QED
      BY <1>1, <3>1, <3>8, WriterIsDone
  <2> QED
    BY <1>6, <2>10, <2>11, <2>12, <2>13
<1> QED
  BY <1>5, <1>6

LEMMA MessageStays == MessageTransferred /\ [Next]_vars => MessageTransferred'
<1> SUFFICES ASSUME MessageTransferred, [Next]_vars PROVE MessageTransferred'
  OBVIOUS
<1>1. PICK f : SumsTo(f, Len(message), Lengths) /\ Writing(f) /\ Reading(f)
  BY DEF MessageTransferred
<1>2. MessageTyped /\ checks \in BOOLEAN /\ count = Len(message)
  BY DEF MessageTransferred
<1>3. Writing(f)' /\ Reading(f)' /\ UNCHANGED <<type, message, checks, count>>
  <2>1. CASE Prepare \/ StartValue \/ PushMore \/ PushLast \/ Send
    BY <1>1, <1>2, <2>1, WriterSteps
  <2>2. CASE UnexpectedEnd \/ ShiftPanic \/ TakeLast \/ RejectLong \/ TakeMore \/ Finish
    BY <1>1, <1>2, <2>2, ReaderSteps
  <2>3. CASE UNCHANGED vars
    <3>1. UNCHANGED <<type, message, checks, count, size, next, word, buf, pos, value, shift,
                      decoded, result>>
      BY <2>3 DEF vars, encoder, decoder, build
    <3>2. Codes' = Codes /\ Lengths' = Lengths /\ Width' = Width
      BY <3>1, SameMessage
    <3>3. \A k : AtGroup(f, k) => AtGroup(f, k)'
      BY <3>1, <3>2 DEF AtGroup
    <3>4. Reading(f)'
      BY <1>1, <3>1, <3>2, <3>3 DEF Reading
    <3>5. Writing(f)'
      BY <1>1, <3>1, <3>2 DEF Writing, InMember
    <3> QED
      BY <3>1, <3>4, <3>5
  <2> QED
    BY <2>1, <2>2, <2>3 DEF Next
<1>4. MessageTyped' /\ Lengths' = Lengths
  BY <1>2, <1>3, SameMessage
<1> QED
  BY <1>1, <1>2, <1>3, <1>4 DEF MessageTransferred

LEMMA AlwaysTransferred == MessageSpec => []MessageTransferred
  BY MessageStarts, MessageStays, PTL DEF MessageSpec
-----------------------------------------------------------------------------
(* What the encoder has written and what is left of the value never exceed *)
(* what prepare has computed, and are all of it in the end: no byte is     *)
(* written out of bounds, and none is left uninitialised.                  *)
THEOREM NeverOverrun == MessageSpec => []PrepareExact
<1>1. MessageTransferred => PrepareExact
  <2> SUFFICES ASSUME MessageTransferred PROVE PrepareExact
    OBVIOUS
  <2>1. PICK f : SumsTo(f, Len(message), Lengths) /\ Writing(f)
    BY DEF MessageTransferred
  <2>2. MessageTyped
    BY DEF MessageTransferred
  <2>3. PICK n, l : n = Len(message) /\ l = Lengths
    OBVIOUS
  <2>4. n \in Nat /\ l \in [1..n -> Nat] /\ next \in 1..(n + 1) /\ SumsTo(f, n, l)
    BY <2>1, <2>2, <2>3, MessageParts DEF Writing
  <2>5. ASSUME NEW i \in 0..n PROVE f[i] \in Nat /\ f[i] <= f[n]
    <3>1. n \in 0..n /\ i <= n
      BY <2>4
    <3> QED
      BY <2>4, <3>1, SumsGrow DEF SumsTo
  <2>6. CASE result = "preparing"
    BY <2>6 DEF PrepareExact
  <2>7. CASE result = "encoding" /\ word = Idle
    <3>1. Len(buf) = f[next - 1] /\ size = f[n] /\ next - 1 \in 0..n
      BY <2>1, <2>3, <2>4, <2>7 DEF Writing
    <3>2. Len(buf) + 0 <= size
      BY <2>5, <3>1
    <3> QED
      BY <2>7, <3>2 DEF PrepareExact
  <2>8. CASE result = "encoding" /\ word # Idle
    <3>1. PICK g \in Nat : /\ next \in 1..n /\ g < l[next] /\ Len(buf) = f[next - 1] + g
                           /\ CalcSize(Rest) = l[next] - g
      BY <2>1, <2>2, <2>3, <2>8, NextGroup
    <3>2. next - 1 \in 0..n /\ next \in 0..n
      BY <2>4, <3>1
    <3>3. PICK p, len \in Nat : p = f[next - 1] /\ len = l[next]
      BY <2>4, <2>5, <3>1, <3>2
    <3>4. f[next] = p + len /\ size = f[n]
      BY <2>1, <2>3, <2>4, <2>8, <3>1, <3>3 DEF SumsTo, Writing
    <3>5. p + len <= size
      BY <2>5, <3>2, <3>4
    <3>6. Len(buf) + CalcSize(Rest) = p + len
      <4>1. Len(buf) = p + g
        BY <3>1, <3>3
      <4>2. CalcSize(Rest) = len - g
        BY <3>1, <3>3
      <4> QED
        BY <4>1, <4>2
    <3> QED
      BY <2>8, <3>5, <3>6 DEF PrepareExact
  <2>9. CASE result \notin {"preparing", "encoding"}
    <3>1. next = n + 1 /\ word = Idle /\ size = f[n]
      BY <2>1, <2>3, <2>9 DEF Writing, InMember
    <3>2. next - 1 = n
      BY <2>4, <3>1
    <3>3. Len(buf) = size
      BY <2>1, <3>1, <3>2 DEF Writing
    <3> QED
      BY <2>9, <3>3 DEF PrepareExact
  <2> QED
    BY <2>6, <2>7, <2>8, <2>9
<1> QED
  BY <1>1, AlwaysTransferred, PTL

(* The variables have their types in every message. *)
THEOREM MessagesTyped == MessageSpec => []TypeOK
<1>1. MessageTransferred => TypeOK
  <2> SUFFICES ASSUME MessageTransferred PROVE TypeOK
    OBVIOUS
  <2>1. PICK f : SumsTo(f, Len(message), Lengths) /\ Writing(f) /\ Reading(f)
    BY DEF MessageTransferred
  <2>2. MessageTyped /\ checks \in BOOLEAN /\ count = Len(message)
    BY DEF MessageTransferred
  <2>3. PICK n, l, c : n = Len(message) /\ l = Lengths /\ c = Codes
    OBVIOUS
  <2>4. /\ n \in Nat /\ l \in [1..n -> Nat] /\ SumsTo(f, n, l)
        /\ \A k \in 1..n : c[k] \in Word
    BY <2>1, <2>2, <2>3, MessageParts
  <2>5. ASSUME NEW i \in 0..n PROVE f[i] \in Nat /\ f[i] <= f[n]
    <3>1. n \in 0..n /\ i <= n
      BY <2>4
    <3> QED
      BY <2>4, <3>1, SumsGrow DEF SumsTo
  <2>6. n \in 0..n
    BY <2>4
  <2>7. size \in Nat
    BY <2>1, <2>3, <2>5, <2>6 DEF Writing
  <2>8. word \in Seq(SUBSET Bits(64)) /\ Len(word) <= 1
    <3>1. CASE word = Idle
      BY <3>1 DEF Idle
    <3>2. CASE word # Idle
      <4> DEFINE S == SUBSET Bits(64)
      <4>1. PICK r : word = <<r>>
        BY <2>1, <3>2 DEF Writing, InMember
      <4>2. r \in S
        <5>1. Rest \in Word
          BY <2>1, <2>2, <3>2, NextGroup
        <5> QED
          BY <4>1, <5>1 DEF Rest, Word
      <4> HIDE DEF S
      <4>3. word \in Seq(S) /\ Len(word) = 1
        BY <4>1, <4>2
      <4> QED
        BY <4>3 DEF S
    <3> QED
      BY <3>1, <3>2
  <2>9. pos \in 0..Len(buf)
    <3>1. Len(buf) \in Nat /\ Len(decoded) \in Nat
      BY <2>1 DEF Writing, Reading
    <3>2. CASE result \in {"preparing", "encoding"}
      BY <2>1, <3>1, <3>2 DEF Reading
    <3>3. CASE result = "ok" \/ (result = "decoding" /\ Len(decoded) = n)
      <4>1. pos = f[n] /\ word = Idle /\ next = n + 1
        BY <2>1, <2>3, <3>3 DEF Reading, Writing, InMember
      <4>2. next - 1 = n
        BY <2>4, <4>1
      <4>3. Len(buf) = f[n]
        BY <2>1, <4>1, <4>2 DEF Writing
      <4> QED
        BY <3>1, <4>1, <4>3
    <3>4. CASE result = "decoding" /\ Len(decoded) < n
      <4>1. Decoding
        BY <2>2, <2>3, <3>4 DEF Decoding
      <4>2. pos \in Nat /\ pos < Len(buf)
        BY <2>1, <2>2, <4>1, NextByteIsGroup
      <4> QED
        BY <3>1, <4>2
    <3> QED
      BY <2>1, <2>3, <2>4, <3>1, <3>2, <3>3, <3>4 DEF Reading
  <2>10. value \subseteq Bits(64) /\ shift \in Nat
    <3>1. CASE Len(decoded) = n
      BY <2>1, <2>3, <3>1 DEF Reading
    <3>2. CASE Len(decoded) < n
      <4>1. PICK k : k = Len(decoded) + 1
        OBVIOUS
      <4>2. k \in 1..n
        <5>1. Len(decoded) \in Nat
          BY <2>1 DEF Reading
        <5> QED
          BY <2>4, <3>2, <4>1, <5>1
      <4>3. PICK g \in Nat : shift = 7 * g /\ value = c[k] \cap Bits(7 * g)
        BY <2>1, <2>3, <3>2, <4>1 DEF Reading, AtGroup
      <4>4. c[k] \in SUBSET Bits(64)
        BY <2>4, <4>2 DEF Word
      <4> QED
        BY <4>3, <4>4
    <3>3. Len(decoded) <= n /\ Len(decoded) \in Nat
      BY <2>1, <2>3 DEF Reading
    <3> QED
      BY <2>4, <3>1, <3>2, <3>3
  <2>11. /\ type \in IntType /\ checks \in BOOLEAN /\ message \in Seq(SUBSET Bits(Width))
         /\ next \in 1..(Len(message) + 1) /\ buf \in Seq(Byte) /\ count \in Nat
         /\ decoded \in Seq(SUBSET Bits(Width))
         /\ result \in {"preparing", "encoding", "decoding", "ok"}
    BY <2>1, <2>2, <2>3, <2>4 DEF MessageTyped, Writing, Reading
  <2> QED
    BY <2>7, <2>8, <2>9, <2>10, <2>11 DEF TypeOK
<1> QED
  BY <1>1, AlwaysTransferred, PTL

(* A decoder that has finished has all of the message, member by member,   *)
(* and no error: every value of every integer type survives the codec.     *)
Delivered ==
  /\ result \notin {"panic", "UnexpectedEnd", "VarintOverflow"}
  /\ result = "ok" => decoded = message

THEOREM AlwaysDelivered == MessageSpec => []Delivered
<1>1. MessageTransferred => Delivered
  <2> SUFFICES ASSUME MessageTransferred PROVE Delivered
    OBVIOUS
  <2>1. PICK f : Reading(f)
    BY DEF MessageTransferred
  <2>2. message \in Seq(SUBSET Bits(Width)) /\ decoded \in Seq(SUBSET Bits(Width))
    BY <2>1 DEF MessageTransferred, MessageTyped, Reading
  <2>3. ASSUME Len(decoded) = Len(message) PROVE decoded = message
    <3>1. \A i \in DOMAIN decoded : decoded[i] = message[i]
      BY <2>1 DEF Reading
    <3> QED
      BY <2>2, <2>3, <3>1
  <2> QED
    BY <2>1, <2>3 DEF Reading, Delivered
<1> QED
  BY <1>1, AlwaysTransferred, PTL

(* The codec delivers a message as Transfer says it does: every step of it *)
(* returns the next member, or none.                                       *)
THEOREM CodecTransfers ==
  MessageSpec => Channel!Init /\ [][Channel!Deliver]_<<message, decoded>>
<1>1. InitMessage => Channel!Init
  BY DEF InitMessage, InitDecoder, Channel!Init
<1>2. MessageTransferred /\ MessageTransferred' /\ [Next]_vars
        => [Channel!Deliver]_<<message, decoded>>
  <2> SUFFICES ASSUME MessageTransferred, MessageTransferred', [Next]_vars
               PROVE  [Channel!Deliver]_<<message, decoded>>
    OBVIOUS
  <2>1. UNCHANGED message
    BY DEF Next, Prepare, StartValue, PushMore, PushLast, Send, UnexpectedEnd, ShiftPanic,
           TakeLast, RejectLong, TakeMore, Finish, encoder, vars
  <2>2. CASE TakeLast
    <3>1. PICK f : Reading(f)'
      BY DEF MessageTransferred
    <3>2. PICK x, k : x = Returned(WithByte) /\ k = Len(decoded) + 1
      OBVIOUS
    <3>3. decoded' = Append(decoded, x) /\ Len(decoded) < Len(message)
      BY <2>2, <3>2 DEF TakeLast, Shifts, AtByte, Decoding, MessageTransferred
    <3>4. /\ \A i \in DOMAIN decoded' : decoded'[i] = message[i]
      BY <2>1, <3>1 DEF Reading
    <3>5. PICK S : decoded \in Seq(S)
      BY DEF MessageTransferred, Reading
    <3>6. k \in DOMAIN decoded' /\ decoded'[k] = x
      BY <3>2, <3>3, <3>5
    <3> QED
      BY <2>1, <3>2, <3>3, <3>4, <3>6 DEF Channel!Deliver
  <2>3. CASE ~TakeLast
    <3>1. UNCHANGED decoded
      BY <2>3 DEF Next, Prepare, StartValue, PushMore, PushLast, Send, UnexpectedEnd,
           ShiftPanic, RejectLong, TakeMore, Finish, decoder, vars
    <3> QED
      BY <2>1, <3>1
  <2> QED
    BY <2>2, <2>3
<1> QED
  BY <1>1, <1>2, AlwaysTransferred, PTL DEF MessageSpec
-----------------------------------------------------------------------------
(* Bytes of any origin.  No varint ends in the first p bytes; what they    *)
(* carry.                                                                  *)
Unended(b, p) == \A i \in 1..p : b[i].more
Carried(b, p) == (UNION {{7 * (i - 1) + x : x \in b[i].low} : i \in 1..p}) \cap Bits(64)

LEMMA CarriedGrows ==
  ASSUME NEW b \in Seq(Byte), NEW p \in Nat, p < Len(b)
  PROVE  /\ b[p + 1].low \subseteq Bits(7) /\ b[p + 1].more \in BOOLEAN
         /\ Carried(b, p + 1) = Carried(b, p) \cup Shl(b[p + 1].low, 7 * p)
<1>1. \A i \in 1..Len(b) : b[i] \in Byte
  OBVIOUS
<1>2. p + 1 \in 1..Len(b) /\ Len(b) \in Nat
  OBVIOUS
<1>3. b[p + 1].low \subseteq Bits(7) /\ b[p + 1].more \in BOOLEAN
  BY <1>1, <1>2 DEF Byte
<1> DEFINE In(p1, y) == \E i \in 1..p1 : \E x \in b[i].low : y = 7 * (i - 1) + x
<1>4. \A p1 : \A y : y \in Carried(b, p1) <=> y \in Bits(64) /\ In(p1, y)
  BY DEF Carried
<1>5. \A y : y \in Shl(b[p + 1].low, 7 * p) <=> y \in Bits(64) /\ \E x \in b[p + 1].low : y = x + 7 * p
  BY DEF Shl
<1>6. \A y : In(p + 1, y) <=> In(p, y) \/ \E x \in b[p + 1].low : y = x + 7 * p
  <2>1. \A i : i \in 1..(p + 1) <=> i \in 1..p \/ i = p + 1
    OBVIOUS
  <2>2. \A x \in b[p + 1].low : 7 * ((p + 1) - 1) + x = x + 7 * p
    BY <1>3 DEF Bits
  <2> QED
    BY <2>1, <2>2
<1> HIDE DEF In
<1> QED
  BY <1>3, <1>4, <1>5, <1>6

(* How long a varint is that has been read so far, or to its end. *)
LEMMA LengthOfVarint ==
  ASSUME NEW b \in Seq(Byte), NEW p \in 0..Len(b), Unended(b, p)
  PROVE  /\ VarintLen(b) \in Nat /\ VarintLen(b) > p
         /\ p = Len(b) => Ends(b) = {}
         /\ Ends(b) = {} => VarintLen(b) > Len(b)
         /\ p < Len(b) /\ ~b[p + 1].more => VarintLen(b) = p + 1
<1>1. Len(b) \in Nat /\ DOMAIN b = 1..Len(b)
  OBVIOUS
<1>2. Ends(b) \in SUBSET Nat /\ \A i \in Ends(b) : i \in 1..Len(b) /\ ~b[i].more /\ i > p
  BY <1>1 DEF Ends, Unended
<1>3. CASE Ends(b) = {}
  <2>1. VarintLen(b) = Len(b) + 1
    BY <1>3 DEF VarintLen
  <2>2. p < Len(b) => b[p + 1].more
    BY <1>1, <1>3 DEF Ends
  <2> QED
    BY <1>1, <1>3, <2>1, <2>2
<1>4. CASE Ends(b) # {}
  <2>1. PICK m : m = VarintLen(b)
    OBVIOUS
  <2>2. m = Min(Ends(b)) /\ m \in Ends(b) /\ \A i \in Ends(b) : m <= i
    BY <1>2, <1>4, <2>1, MinOfNaturals DEF VarintLen
  <2>3. m \in Nat /\ m > p /\ m <= Len(b)
    BY <1>2, <2>2
  <2>4. ASSUME p < Len(b), ~b[p + 1].more PROVE m = p + 1
    <3>1. p + 1 \in Ends(b)
      BY <1>1, <2>4 DEF Ends
    <3> QED
      BY <2>2, <2>3, <3>1
  <2>5. p # Len(b)
    BY <2>3
  <2> QED
    BY <1>4, <2>1, <2>3, <2>4, <2>5
<1> QED
  BY <1>3, <1>4
-----------------------------------------------------------------------------
(***************************************************************************)
(* A decoder of such bytes: it is in the middle of the varint, at its end, *)
(* or has given up.  Two bytes more than the type may have are shifted too *)
(* far for what they carry to be told.                                     *)
(***************************************************************************)
InVarint ==
  /\ result \in {"decoding", "UnexpectedEnd"} /\ decoded = <<>>
  /\ result = "UnexpectedEnd" => pos = Len(buf)
  /\ Unended(buf, pos) /\ shift = 7 * pos
  /\ pos <= 10 => value = Carried(buf, pos)
  /\ pos > 0 => 7 * (pos - 1) <= Width

AtEnd ==
  /\ result \in {"decoding", "ok"} /\ Len(decoded) = 1
  /\ pos > 0 /\ Unended(buf, pos - 1) /\ ~buf[pos].more
  /\ pos <= 10 => decoded = <<Returned(Carried(buf, pos))>>

GivenUp ==
  /\ decoded = <<>> /\ pos > 0 /\ Unended(buf, pos - 1)
  /\ \/ result = "panic" /\ checks /\ 7 * (pos - 1) >= 64
     \/ result = "VarintOverflow" /\ buf[pos].more /\ 7 * (pos - 1) > Width

InputRead ==
  /\ type \in IntType /\ checks \in BOOLEAN
  /\ message = <<>> /\ size = 0 /\ next = 1 /\ word = Idle /\ count = 1
  /\ buf \in Seq(Byte) /\ pos \in 0..Len(buf)
  /\ value \subseteq Bits(64) /\ shift \in Nat /\ decoded \in Seq(SUBSET Bits(Width))
  /\ pos > 1 => 7 * (pos - 2) <= Width
  /\ InVarint \/ AtEnd \/ GivenUp

LEMMA InputStarts == InitInput => InputRead
<1> SUFFICES ASSUME InitInput PROVE InputRead
  OBVIOUS
<1>1. type \in IntType /\ buf \in Seq(Byte)
  <2>1. PICK i \in Inputs : type = i.type /\ buf = i.bytes
    BY DEF InitInput
  <2> QED
    BY <2>1, InputsAssumption
<1>2. /\ checks \in BOOLEAN /\ message = <<>> /\ size = 0 /\ next = 1 /\ word = Idle /\ count = 1
      /\ pos = 0 /\ value = {} /\ shift = 0 /\ decoded = <<>> /\ result = "decoding"
  BY DEF InitInput, InitDecoder
<1>3. InVarint
  <2>1. Unended(buf, 0)
    BY DEF Unended
  <2>2. Carried(buf, 0) = {}
    BY DEF Carried
  <2> QED
    BY <1>2, <2>1, <2>2 DEF InVarint
<1>4. pos \in 0..Len(buf) /\ decoded \in Seq(SUBSET Bits(Width))
  BY <1>1, <1>2
<1> QED
  BY <1>1, <1>2, <1>3, <1>4 DEF InputRead
LEMMA InputStays == InputRead /\ [Next]_vars => InputRead'
<1> SUFFICES ASSUME InputRead, [Next]_vars PROVE InputRead'
  OBVIOUS
<1>1. CASE UNCHANGED vars
  <2>1. UNCHANGED <<type, checks, message, size, next, word, buf, count, pos, value, shift,
                    decoded, result>>
    BY <1>1 DEF vars, encoder, decoder, build
  <2>2. Width' = Width /\ \A w : Returned(w)' = Returned(w)
    BY <2>1 DEF Width, Returned, Narrow, Signed
  <2> QED
    BY <2>1, <2>2 DEF InputRead, InVarint, AtEnd, GivenUp, Unended, Carried
<1>2. CASE Next
  <2>1. /\ result = "decoding" /\ UNCHANGED encoder
        /\ UnexpectedEnd \/ ShiftPanic \/ TakeLast \/ RejectLong \/ TakeMore \/ Finish
    <3>1. result \notin {"preparing", "encoding"}
      BY DEF InputRead, InVarint, AtEnd, GivenUp
    <3> QED
      BY <1>2, <3>1 DEF Next, Prepare, StartValue, PushMore, PushLast, Send, UnexpectedEnd,
         ShiftPanic, TakeLast, RejectLong, TakeMore, Finish, Shifts, AtByte, Decoding
  <2>0. decoded = <<>> => Len(decoded) = 0
    OBVIOUS
  <2>9. Len(decoded) < 1 => InVarint
    <3>1. AtEnd => ~(Len(decoded) < 1)
      BY DEF AtEnd
    <3>2. ~GivenUp
      BY <2>1 DEF GivenUp
    <3> QED
      BY <3>1, <3>2 DEF InputRead
  <2>2. UNCHANGED <<type, checks, message, size, next, word, buf, count>>
    BY <2>1 DEF encoder, build
  <2>3. Width' = Width /\ \A w : Returned(w)' = Returned(w)
    BY <2>2 DEF Width, Returned, Narrow, Signed
  <2>4. PICK b, p, w : b = buf /\ p = pos /\ w = Width
    OBVIOUS
  <2>5. /\ b \in Seq(Byte) /\ p \in 0..Len(b) /\ p \in Nat /\ Len(b) \in Nat /\ w \in Nat
    BY <2>4, WidthOfType DEF InputRead
  <2>6. CASE Finish
    <3>1. UNCHANGED <<pos, value, shift, decoded>> /\ result' = "ok" /\ Len(decoded) = 1
      BY <2>6 DEF Finish, decoder, InputRead
    <3>2. AtEnd
      BY <2>0, <2>1, <3>1 DEF InputRead, InVarint, GivenUp
    <3>3. AtEnd'
      BY <2>2, <2>3, <3>1, <3>2 DEF AtEnd
    <3> QED
      BY <2>2, <2>3, <3>1, <3>3 DEF InputRead
  <2>7. CASE UnexpectedEnd
    <3>1. UNCHANGED <<pos, value, shift, decoded>> /\ result' = "UnexpectedEnd"
          /\ Len(decoded) < 1 /\ pos = Len(buf)
      BY <2>7 DEF UnexpectedEnd, decoder, Decoding, InputRead
    <3>2. InVarint
      BY <2>9, <3>1
    <3>3. InVarint'
      BY <2>2, <2>3, <3>1, <3>2 DEF InVarint
    <3> QED
      BY <2>2, <2>3, <3>1, <3>3 DEF InputRead
  <2>8. CASE ShiftPanic \/ TakeLast \/ RejectLong \/ TakeMore
    <3>1. Len(decoded) < 1 /\ pos < Len(buf) /\ pos' = pos + 1
      BY <2>8 DEF ShiftPanic, TakeLast, RejectLong, TakeMore, Shifts, AtByte, Decoding, InputRead
    <3>2. InVarint /\ decoded = <<>>
      BY <2>9, <3>1 DEF InVarint
    <3>3. /\ p < Len(b) /\ p + 1 \in 0..Len(b) /\ p + 1 > 0 /\ (p + 1) - 1 = p
          /\ pos' = p + 1 /\ buf' = b /\ NextByte = b[p + 1] /\ shift = 7 * p
      BY <2>2, <2>4, <2>5, <3>1, <3>2 DEF NextByte, InVarint
    <3>4. pos' > 1 => 7 * (pos' - 2) <= Width'
      <4>1. p > 0 => 7 * (p - 1) <= w
        BY <2>4, <3>2 DEF InVarint
      <4>2. pos' - 2 = p - 1 /\ (pos' > 1 <=> p > 0)
        BY <2>5, <3>3
      <4> QED
        BY <2>3, <2>4, <4>1, <4>2
    <3>5. Unended(b, p) /\ (p <= 10 => value = Carried(b, p))
      BY <2>4, <3>2 DEF InVarint
    <3>6. WithByte \in SUBSET Bits(64)
      BY DEF WithByte, Shl, InputRead
    <3>7. ASSUME p + 1 <= 10 PROVE WithByte = Carried(b, p + 1)
      <4>1. shift % 64 = 7 * p
        BY <2>5, <3>3, <3>7
      <4>2. value = Carried(b, p)
        BY <2>5, <3>5, <3>7
      <4> QED
        BY <2>5, <3>3, <4>1, <4>2, CarriedGrows DEF WithByte
    <3>8. b[p + 1].more => Unended(b, p + 1)
      <4>1. \A i \in 1..(p + 1) : i \in 1..p \/ i = p + 1
        BY <2>5
      <4> QED
        BY <3>5, <4>1 DEF Unended
    <3>9. CASE ShiftPanic
      <4>1. /\ UNCHANGED <<value, shift, decoded>> /\ result' = "panic" /\ checks /\ shift >= 64
        BY <3>9 DEF ShiftPanic
      <4>2. GivenUp'
        BY <2>2, <3>2, <3>3, <3>5, <4>1 DEF GivenUp
      <4> QED
        BY <2>2, <2>3, <3>3, <3>4, <4>1, <4>2 DEF InputRead
    <3>10. CASE RejectLong
      <4>1. /\ UNCHANGED <<value, shift, decoded>> /\ result' = "VarintOverflow" /\ b[p + 1].more
            /\ shift > Width
        BY <3>3, <3>10 DEF RejectLong, TooLong
      <4>2. GivenUp'
        BY <2>2, <2>3, <3>2, <3>3, <3>5, <4>1 DEF GivenUp
      <4> QED
        BY <2>2, <2>3, <3>3, <3>4, <4>1, <4>2 DEF InputRead
    <3>11. CASE TakeMore
      <4>1. /\ UNCHANGED <<decoded, result>> /\ value' = WithByte /\ shift' = shift + 7
            /\ b[p + 1].more /\ ~(shift > Width)
        BY <3>3, <3>11 DEF TakeMore, TooLong
      <4>2. shift' = 7 * (p + 1) /\ 7 * p <= w /\ shift' \in Nat
        BY <2>4, <2>5, <3>3, <4>1
      <4>3. InVarint'
        BY <2>1, <2>3, <2>4, <3>2, <3>3, <3>7, <3>8, <4>1, <4>2 DEF InVarint
      <4> QED
        BY <2>2, <2>3, <3>3, <3>4, <3>6, <4>1, <4>2, <4>3 DEF InputRead
    <3>12. CASE TakeLast
      <4>1. /\ UNCHANGED result /\ value' = {} /\ shift' = 0 /\ ~b[p + 1].more
            /\ decoded' = Append(decoded, Returned(WithByte))
        BY <3>3, <3>12 DEF TakeLast
      <4>2. decoded' = <<Returned(WithByte)>>
        BY <3>2, <4>1
      <4>3. Returned(WithByte) \in SUBSET Bits(Width)
        BY DEF Returned, Narrow
      <4>4. decoded' \in Seq(SUBSET Bits(Width)) /\ Len(decoded') = 1
        <5> DEFINE S == SUBSET Bits(Width)
        <5> HIDE DEF S
        <5>1. Returned(WithByte) \in S
          BY <4>3 DEF S
        <5>2. decoded' \in Seq(S) /\ Len(decoded') = 1
          BY <4>2, <5>1
        <5> QED
          BY <5>2 DEF S
      <4>5. AtEnd'
        BY <2>1, <2>3, <3>3, <3>5, <3>7, <4>1, <4>2, <4>4 DEF AtEnd
      <4> QED
        BY <2>2, <2>3, <3>3, <3>4, <4>1, <4>4, <4>5 DEF InputRead
    <3> QED
      BY <2>8, <3>9, <3>10, <3>11, <3>12
  <2> QED
    BY <2>1, <2>6, <2>7, <2>8
<1> QED
  BY <1>1, <1>2

LEMMA AlwaysRead == InputSpec => []InputRead
  BY InputStarts, InputStays, PTL DEF InputSpec

(* The variables have their types for every input. *)
THEOREM InputsTyped == InputSpec => []TypeOK
<1>1. InputRead => TypeOK
  <2> SUFFICES ASSUME InputRead PROVE TypeOK
    OBVIOUS
  <2>1. message = <<>> /\ next = 1 /\ word = <<>> /\ size = 0 /\ count = 1
    BY DEF InputRead, Idle
  <2>2. /\ message \in Seq(SUBSET Bits(Width)) /\ next \in 1..(Len(message) + 1)
        /\ word \in Seq(SUBSET Bits(64)) /\ Len(word) <= 1
    BY <2>1
  <2> QED
    BY <2>1, <2>2 DEF InputRead, InVarint, AtEnd, GivenUp, TypeOK
<1> QED
  BY <1>1, AlwaysRead, PTL

(* Whatever the bytes, a varint that is no longer than its type needs is   *)
(* accepted and read to its end, one is refused as cut off only if it has  *)
(* no end, and the decoder reads no more than one byte too many before it  *)
(* refuses one, or panics.                                                 *)
THEOREM VerdictOnInput == InputSpec => []InputVerdict
<1>1. InputRead => InputVerdict
  <2> SUFFICES ASSUME InputRead PROVE InputVerdict
    OBVIOUS
  <2>1. PICK b, p, w, len, r : b = buf /\ p = pos /\ w = Width /\ len = VarintLen(buf) /\ r = Required
    OBVIOUS
  <2>2. b \in Seq(Byte) /\ p \in 0..Len(b) /\ p \in Nat /\ Len(b) \in Nat
    BY <2>1 DEF InputRead
  <2>3. w \in {16, 32, 64} /\ w \in Nat /\ r \in Nat /\ r = (w + 6) \div 7
    <3>1. w \in {16, 32, 64} /\ w \in Nat
      BY <2>1, WidthOfType DEF InputRead
    <3> QED
      BY <2>1, <3>1 DEF Required
  <2>4. pos <= Width \div 7 + 2
    <3>1. p > 1 => 7 * (p - 2) <= w
      BY <2>1 DEF InputRead
    <3>2. p <= w \div 7 + 2
      BY <2>2, <2>3, <3>1
    <3> QED
      BY <2>1, <3>2
  <2>5. Min({Required, Len(buf)}) <= r /\ Min({Required, Len(buf)}) <= Len(b)
        /\ Min({Required, Len(buf)}) \in Nat
    BY <2>1, <2>2, <2>3, MinOfTwo
  <2>6. len \in Nat
    <3>1. Unended(b, 0) /\ 0 \in 0..Len(b)
      BY <2>2 DEF Unended
    <3> QED
      BY <2>1, <2>2, <3>1, LengthOfVarint
  <2>7. CASE result = "decoding"
    BY <2>4, <2>7 DEF InputVerdict, Done
  <2>8. CASE result = "ok"
    <3>1. p > 0 /\ Unended(b, p - 1) /\ ~b[p].more
      BY <2>1, <2>8 DEF InputRead, InVarint, GivenUp, AtEnd
    <3>2. p - 1 \in 0..Len(b) /\ p - 1 < Len(b) /\ (p - 1) + 1 = p
      BY <2>2, <3>1
    <3>3. len = p
      BY <2>1, <2>2, <3>1, <3>2, LengthOfVarint
    <3> QED
      BY <2>1, <2>4, <2>8, <3>3 DEF InputVerdict
  <2>9. CASE result = "UnexpectedEnd"
    <3>1. p = Len(b) /\ Unended(b, p)
      BY <2>1, <2>9 DEF InputRead, InVarint, GivenUp, AtEnd
    <3>2. Ends(b) = {} /\ len > Len(b)
      BY <2>1, <2>2, <3>1, LengthOfVarint
    <3>3. ~(len <= Min({Required, Len(buf)}))
      BY <2>2, <2>5, <2>6, <3>2
    <3> QED
      BY <2>1, <2>4, <2>9, <3>2, <3>3 DEF InputVerdict
  <2>10. CASE result \in {"panic", "VarintOverflow"}
    <3>1. GivenUp
      BY <2>10 DEF InputRead, InVarint, AtEnd
    <3>2. p > 0 /\ Unended(b, p - 1)
      BY <2>1, <3>1 DEF GivenUp
    <3>3. p - 1 \in 0..Len(b)
      BY <2>2, <3>2
    <3>4. len > p - 1
      BY <2>1, <2>2, <3>2, <3>3, LengthOfVarint
    <3>5. len > r
      <4>1. CASE result = "panic"
        <5>1. 7 * (p - 1) >= 64
          BY <2>1, <3>1, <4>1 DEF GivenUp
        <5>2. p >= 11 /\ r <= 10
          BY <2>2, <2>3, <5>1
        <5> QED
          BY <2>2, <2>3, <2>6, <3>4, <5>2
      <4>2. CASE result = "VarintOverflow"
        <5>1. 7 * (p - 1) > w /\ b[p].more
          BY <2>1, <3>1, <4>2 DEF GivenUp
        <5>2. Unended(b, p)
          <6>1. \A i \in 1..p : i \in 1..(p - 1) \/ i = p
            BY <2>2
          <6> QED
            BY <3>2, <5>1, <6>1 DEF Unended
        <5>3. len > p
          BY <2>1, <2>2, <5>2, LengthOfVarint
        <5>4. p >= r
          BY <2>2, <2>3, <5>1
        <5> QED
          BY <2>2, <2>3, <2>6, <5>3, <5>4
      <4> QED
        BY <2>10, <4>1, <4>2
    <3>6. ~(len <= Min({Required, Len(buf)}))
      BY <2>3, <2>5, <2>6, <3>5
    <3>7. result = "panic" => checks /\ w = 64
      <4>1. SUFFICES ASSUME result = "panic" PROVE checks /\ w = 64
        OBVIOUS
      <4>2. 7 * (p - 1) >= 64 /\ checks
        BY <2>1, <3>1, <4>1 DEF GivenUp
      <4>3. p > 1 => 7 * (p - 2) <= w
        BY <2>1 DEF InputRead
      <4>4. w = 64
        BY <2>2, <2>3, <4>2, <4>3
      <4> QED
        BY <4>2, <4>4
    <3> QED
      BY <2>1, <2>4, <2>10, <3>5, <3>6, <3>7 DEF InputVerdict
  <2>11. result \in {"decoding", "ok", "UnexpectedEnd", "panic", "VarintOverflow"}
    BY DEF InputRead, InVarint, AtEnd, GivenUp
  <2> QED
    BY <2>7, <2>8, <2>9, <2>10, <2>11
<1> QED
  BY <1>1, AlwaysRead, PTL
(* Only the bits of the type count, and one more if it is signed. *)
LEMMA BitsThatCount ==
  ASSUME type \in IntType, NEW w \in Word
  PROVE  /\ Signed => Returned(w) = Returned(w \cap Bits(Width + 1))
         /\ ~Signed => Returned(w) = Returned(w \cap Bits(Width))
<1>1. PICK n : n = Width
  OBVIOUS
<1>2. n \in Nat /\ n >= 16 /\ n <= 64
  BY <1>1, WidthOfType
<1>3. CASE ~Signed
  BY <1>3 DEF Returned, Narrow
<1>4. CASE Signed
  <2> DEFINE u == w \cap Bits(n + 1)
  <2>1. \A b : b \in w => b \in Nat
    BY DEF Word, Bits
  <2>2. \A b \in Nat : b <= n => (b \in u <=> b \in w)
    BY <1>2 DEF Bits
  <2>3. \A b : b \in u => b \in Nat
    BY <2>1
  <2> HIDE DEF u
  <2>4. ASSUME NEW b \in Nat, b < n PROVE b \in UnZigZag(u) <=> b \in UnZigZag(w)
    <3>1. 0 \in u <=> 0 \in w
      BY <1>2, <2>2
    <3>2. b + 1 \in u <=> b + 1 \in w
      BY <1>2, <2>2, <2>4
    <3>3. b \in Shr(u, 1) <=> b + 1 \in u
      BY <2>3 DEF Shr
    <3>4. b \in Shr(w, 1) <=> b + 1 \in w
      BY <2>1 DEF Shr
    <3> QED
      BY <3>1, <3>2, <3>3, <3>4 DEF UnZigZag, Xor, Fill
  <2>5. \A b \in Bits(n) : b \in Nat /\ b < n
    BY <1>2 DEF Bits
  <2>6. UnZigZag(u) \cap Bits(n) = UnZigZag(w) \cap Bits(n)
    BY <2>4, <2>5
  <2> QED
    BY <1>1, <1>4, <2>6 DEF Returned, Narrow, u
<1> QED
  BY <1>3, <1>4

(* What is decoded of a varint of the right length depends on the bits of  *)
(* its type, and on the one after them if the type is signed.              *)
THEOREM ExtraBitsNeverCount == InputSpec => []ExtraBitsIgnored
<1>1. InputRead => ExtraBitsIgnored
  <2> SUFFICES ASSUME InputRead, result = "ok", VarintLen(buf) <= Required
               PROVE  LET bits == Payload(buf) \cap Bits(64)
                          used == IF Signed THEN bits \cap Bits(Width + 1) ELSE bits \cap Bits(Width)
                      IN  decoded = <<Narrow(IF Signed THEN UnZigZag(used) ELSE used)>>
    BY DEF ExtraBitsIgnored
  <2>1. AtEnd
    BY DEF InputRead, InVarint, GivenUp
  <2>2. buf \in Seq(Byte) /\ pos \in 0..Len(buf) /\ pos \in Nat /\ Len(buf) \in Nat
    BY DEF InputRead
  <2>3. pos - 1 \in 0..Len(buf) /\ pos - 1 < Len(buf) /\ (pos - 1) + 1 = pos
    BY <2>1, <2>2 DEF AtEnd
  <2>4. VarintLen(buf) = pos
    BY <2>1, <2>2, <2>3, LengthOfVarint DEF AtEnd
  <2>5. pos <= 10
    <3>1. PICK w : w = Width
      OBVIOUS
    <3>2. w \in Nat /\ w <= 64 /\ pos <= (w + 6) \div 7
      BY <2>4, <3>1, WidthOfType DEF InputRead, Required
    <3> QED
      BY <2>2, <3>2
  <2> DEFINE bits == Payload(buf) \cap Bits(64)
  <2>6. bits = Carried(buf, pos)
    BY <2>4 DEF Payload, Carried
  <2>7. bits \in Word
    BY DEF Word
  <2>8. decoded = <<Returned(bits)>>
    BY <2>1, <2>5, <2>6 DEF AtEnd
  <2> HIDE DEF bits
  <2>9. CASE Signed
    BY <2>7, <2>8, <2>9, BitsThatCount DEF InputRead, Returned, bits
  <2>10. CASE ~Signed
    BY <2>7, <2>8, <2>10, BitsThatCount DEF InputRead, Returned, bits
  <2> QED
    BY <2>9, <2>10
<1> QED
  BY <1>1, AlwaysRead, PTL
=============================================================================
