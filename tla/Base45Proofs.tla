---------------------------- MODULE Base45Proofs ----------------------------
(***************************************************************************)
(* base45 loses and repairs nothing, for payloads and texts of any length. *)
(* Both directions are shown place by place: a pair of bytes and its group *)
(* of characters are the digits of one number, to base 256 and base 45.    *)
(***************************************************************************)
EXTENDS Base45, TLAPS
------------------------------------------------------------------------------
(* Numbers and their digits *)

\* Bytes and values of the alphabet are small natural numbers.
LEMMA Bounds ==
  /\ \A x \in Bytes : x \in Nat /\ x <= 255
  /\ \A x \in Alphabet : x \in Nat /\ x < 45
BY DEF Bytes, Alphabet

\* Division by 45 finds the quotient and the rest of a number put together.
LEMMA QuotientIs ==
  ASSUME NEW v \in Nat, NEW q \in Nat, NEW r \in Nat, r < 45, v = 45 * q + r
  PROVE  v \div 45 = q /\ v % 45 = r
BY SMT

\* Division by 45, once and twice.
LEMMA Divide ==
  ASSUME NEW v \in Nat
  PROVE  /\ v \div 45 \in Nat /\ v % 45 \in Nat /\ v % 45 < 45
         /\ v = 45 * (v \div 45) + (v % 45)
         /\ v \div 2025 = (v \div 45) \div 45
BY SMT

\* The digits of a number below 2^16 are in the alphabet, and add up to it.
LEMMA DigitsAddUp ==
  ASSUME NEW v \in Nat, v <= 65535
  PROVE  /\ Digit(v, 0) \in Alphabet /\ Digit(v, 1) \in Alphabet
         /\ Digit(v, 2) \in Alphabet
         /\ Digit(v, 0) + 45 * Digit(v, 1) + 2025 * Digit(v, 2) = v
<1> DEFINE q == v \div 45  r == v % 45  s == (v \div 45) % 45  p == v \div 2025
<1>1. Digit(v, 0) = r /\ Digit(v, 1) = s /\ Digit(v, 2) = p
  BY DEF Digit
<1>2. q \in Nat /\ r \in Nat /\ r < 45 /\ v = 45 * q + r /\ p = q \div 45
  BY Divide
<1>3. p \in Nat /\ s \in Nat /\ s < 45 /\ q = 45 * p + s
  BY <1>2, Divide
<1> HIDE DEF q, r, s, p
<1>4. r + 45 * s + 2025 * p = v
  BY <1>2, <1>3
<1>5. p <= 44
  BY <1>2, <1>3, <1>4
<1>6. r \in Alphabet /\ s \in Alphabet /\ p \in Alphabet
  BY <1>2, <1>3, <1>5 DEF Alphabet
<1> QED
  BY <1>1, <1>4, <1>6

\* A byte has no third digit.
LEMMA DigitsOfByte ==
  ASSUME NEW v \in Nat, v <= 255
  PROVE  Digit(v, 2) = 0
<1>1. v \div 2025 = 0
  BY SMT
<1> QED
  BY <1>1 DEF Digit

\* The digits of a sum are what was added up.
LEMMA DigitsOfSum ==
  ASSUME NEW c \in Nat, NEW d \in Nat, NEW e \in Nat, c < 45, d < 45,
         NEW v \in Nat, v = c + 45 * d + 2025 * e
  PROVE  v % 45 = c /\ (v \div 45) % 45 = d /\ v \div 2025 = e
<1> DEFINE q == d + 45 * e
<1>1. v = 45 * q + c /\ q \in Nat
  OBVIOUS
<1>2. q = 45 * e + d
  OBVIOUS
<1> HIDE DEF q
<1>3. v % 45 = c /\ v \div 45 = q
  BY <1>1, QuotientIs
<1>4. q % 45 = d /\ q \div 45 = e
  BY <1>1, <1>2, QuotientIs
<1>5. v \div 2025 = e
  BY <1>1, <1>3, <1>4, Divide
<1> QED
  BY <1>3, <1>4, <1>5

\* Two bytes are the high and the low half of the number they make.
LEMMA HalvesOfPair ==
  ASSUME NEW h \in Nat, NEW l \in Nat, h <= 255, l <= 255
  PROVE  /\ 256 * h + l <= 65535
         /\ ((256 * h + l) \div 256) % 256 = h
         /\ (256 * h + l) % 256 = l
BY SMT

\* The high and the low half of a number below 2^16 make it up.
LEMMA PairOfHalves ==
  ASSUME NEW v \in Nat, v <= 65535
  PROVE  /\ (v \div 256) % 256 \in Bytes /\ v % 256 \in Bytes
         /\ 256 * ((v \div 256) % 256) + (v % 256) = v
BY SMT DEF Bytes

------------------------------------------------------------------------------
(* Sizes and places *)

LEMMA IsSeq ==
  ASSUME NEW S, NEW n \in Nat, NEW f \in [1 .. n -> S]
  PROVE  f \in Seq(S) /\ Len(f) = n
BY SMT

\* The sizes of a payload and of its text determine one another, and a pair is
\* whole where its group is.
LEMMA TextSizes ==
  ASSUME NEW n \in Nat, NEW m, m = TextLength(n)
  PROVE  /\ m \in Nat /\ m % 3 # 1 /\ PayloadLength(m) = n
         /\ \A g \in Nat : g < (m + 2) \div 3 =>
              /\ 3 * g + 2 <= m /\ 2 * g + 1 <= n
              /\ 3 * g + 2 < m <=> 2 * g + 1 < n
<1> DEFINE a == n \div 2  r == n % 2
<1>1. a \in Nat /\ r \in Nat /\ r < 2 /\ n = 2 * a + r
  BY SMT
<1>2. m = 3 * a + 2 * r
  BY DEF TextLength
<1> HIDE DEF a, r
<1>3. m \in Nat /\ m % 3 # 1
  BY <1>1, <1>2, SMT
<1>4. m \div 3 = a /\ (m % 3 = 2 <=> r = 1) /\ (m + 2) \div 3 = a + r
  BY <1>1, <1>2, SMT
<1>5. PayloadLength(m) = n
  <2>1. PayloadLength(m) = 2 * a + (IF r = 1 THEN 1 ELSE 0)
    BY <1>4 DEF PayloadLength
  <2> QED
    BY <2>1, <1>1
<1>6. ASSUME NEW g \in Nat, g < a + r
      PROVE  /\ 3 * g + 2 <= m /\ 2 * g + 1 <= n
             /\ 3 * g + 2 < m <=> 2 * g + 1 < n
  BY <1>1, <1>2, <1>6
<1> QED
  BY <1>3, <1>4, <1>5, <1>6

\* And the other way round.
LEMMA PayloadSizes ==
  ASSUME NEW m \in Nat, m % 3 # 1, NEW n, n = PayloadLength(m)
  PROVE  n \in Nat /\ TextLength(n) = m
<1> DEFINE a == m \div 3  r == m % 3
<1>1. a \in Nat /\ r \in Nat /\ r < 3 /\ r # 1 /\ m = 3 * a + r
  BY SMT
<1>2. n = 2 * a + (IF r = 2 THEN 1 ELSE 0)
  BY DEF PayloadLength
<1> HIDE DEF a, r
<1>3. n \in Nat /\ n \div 2 = a /\ n % 2 = (IF r = 2 THEN 1 ELSE 0)
  BY <1>1, <1>2, SMT
<1> QED
  <2>1. TextLength(n) = 3 * a + 2 * (IF r = 2 THEN 1 ELSE 0)
    BY <1>3 DEF TextLength
  <2> QED
    BY <2>1, <1>1, <1>3

\* The pair a place of a payload is in has a group in the text.
LEMMA PairInText ==
  ASSUME NEW t, NEW n \in Nat, NEW g \in Nat,
         Len(t) = TextLength(n), 2 * g + 1 <= n
  PROVE  g \in Groups(t)
<1> DEFINE a == n \div 2  r == n % 2
<1>1. a \in Nat /\ r \in Nat /\ r < 2 /\ n = 2 * a + r
  BY SMT
<1>2. Len(t) = 3 * a + 2 * r
  BY DEF TextLength
<1> HIDE DEF a, r
<1>3. (Len(t) + 2) \div 3 = a + r
  BY <1>1, <1>2, SMT
<1>4. g < a + r
  BY <1>1
<1> QED
  BY <1>1, <1>3, <1>4 DEF Groups

\* What a place of a text or of a payload belongs to.
LEMMA Places ==
  ASSUME NEW g \in Nat
  PROVE  /\ ((3 * g + 1) - 1) \div 3 = g /\ ((3 * g + 1) - 1) % 3 = 0
         /\ ((3 * g + 2) - 1) \div 3 = g /\ ((3 * g + 2) - 1) % 3 = 1
         /\ ((3 * g + 3) - 1) \div 3 = g /\ ((3 * g + 3) - 1) % 3 = 2
         /\ ((2 * g + 1) - 1) \div 2 = g /\ ((2 * g + 1) - 1) % 2 = 0
         /\ ((2 * g + 2) - 1) \div 2 = g /\ ((2 * g + 2) - 1) % 2 = 1
BY SMT

\* A place of a text is the first, second or third of its group.
LEMMA PlaceInText ==
  ASSUME NEW k \in Nat, 1 <= k, NEW g, g = (k - 1) \div 3
  PROVE  /\ g \in Nat
         /\ \/ k = 3 * g + 1 /\ (k - 1) % 3 = 0
            \/ k = 3 * g + 2 /\ (k - 1) % 3 = 1
            \/ k = 3 * g + 3 /\ (k - 1) % 3 = 2
BY SMT

\* A place of a payload is the first or second of its pair.
LEMMA PlaceInPayload ==
  ASSUME NEW j \in Nat, 1 <= j, NEW g, g = (j - 1) \div 2
  PROVE  /\ g \in Nat
         /\ \/ j = 2 * g + 1 /\ (j - 1) % 2 = 0
            \/ j = 2 * g + 2 /\ (j - 1) % 2 = 1
BY SMT
------------------------------------------------------------------------------
\* An element of a payload is a byte.
LEMMA ByteOf ==
  ASSUME NEW b \in Seq(Bytes), NEW i \in Nat, 1 <= i, i <= Len(b)
  PROVE  b[i] \in Nat /\ b[i] <= 255
<1>1. b[i] \in Bytes
  OBVIOUS
<1> QED
  BY <1>1, Bounds

\* The values of a payload's pairs.
LEMMA PairValues ==
  ASSUME NEW b \in Seq(Bytes), NEW g \in Nat, 2 * g + 1 <= Len(b)
  PROVE  /\ PairValue(b, g) \in Nat /\ PairValue(b, g) <= 65535
         /\ 2 * g + 1 >= Len(b) =>
              PairValue(b, g) <= 255 /\ PairValue(b, g) = b[2 * g + 1]
         /\ 2 * g + 1 < Len(b) =>
              /\ (PairValue(b, g) \div 256) % 256 = b[2 * g + 1]
              /\ PairValue(b, g) % 256 = b[2 * g + 2]
<1>1. b[2 * g + 1] \in Nat /\ b[2 * g + 1] <= 255
  BY ByteOf
<1>2. CASE 2 * g + 1 < Len(b)
  <2>1. b[2 * g + 2] \in Nat /\ b[2 * g + 2] <= 255
    BY <1>2, ByteOf
  <2> DEFINE h == b[2 * g + 1]  l == b[2 * g + 2]
  <2>2. PairValue(b, g) = 256 * h + l
    BY <1>2 DEF PairValue
  <2>3. h \in Nat /\ l \in Nat /\ h <= 255 /\ l <= 255
    BY <1>1, <2>1
  <2> HIDE DEF h, l
  <2>4. 256 * h + l \in Nat
    BY <2>3
  <2>5. /\ 256 * h + l <= 65535
        /\ ((256 * h + l) \div 256) % 256 = h
        /\ (256 * h + l) % 256 = l
    BY <2>3, HalvesOfPair
  <2>6. ~(2 * g + 1 >= Len(b))
    BY <1>2
  <2> QED
    BY <2>2, <2>4, <2>5, <2>6 DEF h, l
<1>3. CASE 2 * g + 1 >= Len(b)
  BY <1>1, <1>3 DEF PairValue
<1> QED
  BY <1>2, <1>3

\* A text's groups have the values of its payload's pairs.
LEMMA TextOf ==
  ASSUME NEW b \in Seq(Bytes), NEW t, t = ToBase45(b)
  PROVE  /\ t \in Seq(Alphabet) /\ Len(t) = TextLength(Len(b))
         /\ \A g \in Groups(t) :
              /\ GroupValue(t, g) = PairValue(b, g)
              /\ g \in Nat /\ 2 * g + 1 <= Len(b)
              /\ InGroup(t, g) <=> 2 * g + 1 < Len(b)
<1> DEFINE n == Len(b)  m == TextLength(Len(b))
<1>1. n \in Nat /\ m \in Nat
  BY TextSizes
<1>2. ASSUME NEW k \in 1 .. m
      PROVE  Digit(PairValue(b, (k - 1) \div 3), (k - 1) % 3) \in Alphabet
  <2> DEFINE g == (k - 1) \div 3
  <2>1. g \in Nat /\ g < (m + 2) \div 3
    BY <1>1, SMT
  <2>2. 2 * g + 1 <= n
    BY <2>1, <1>1, TextSizes
  <2>3. PairValue(b, g) \in Nat /\ PairValue(b, g) <= 65535
    BY <2>1, <2>2, PairValues
  <2>4. (k - 1) % 3 \in {0, 1, 2}
    BY <1>1, SMT
  <2> QED
    BY <2>3, <2>4, DigitsAddUp
<1>3. t \in [1 .. m -> Alphabet]
  BY <1>2 DEF ToBase45
<1>4. t \in Seq(Alphabet) /\ Len(t) = m
  BY <1>1, <1>3, IsSeq
<1>5. ASSUME NEW g \in Groups(t)
      PROVE  /\ GroupValue(t, g) = PairValue(b, g)
             /\ g \in Nat /\ 2 * g + 1 <= n
             /\ InGroup(t, g) <=> 2 * g + 1 < n
  <2>1. g \in Nat /\ g < (m + 2) \div 3
    BY <1>1, <1>4 DEF Groups
  <2>2. /\ 3 * g + 2 <= m /\ 2 * g + 1 <= n
        /\ 3 * g + 2 < m <=> 2 * g + 1 < n
    BY <2>1, <1>1, TextSizes
  <2>3. InGroup(t, g) <=> 2 * g + 1 < n
    BY <2>2, <1>4 DEF InGroup
  <2> DEFINE v == PairValue(b, g)
  <2>4. v \in Nat /\ v <= 65535 /\ (2 * g + 1 >= n => v <= 255)
    BY <2>1, <2>2, PairValues
  <2>5. t[3 * g + 1] = Digit(v, 0) /\ t[3 * g + 2] = Digit(v, 1)
    <3>1. 3 * g + 1 \in 1 .. m /\ 3 * g + 2 \in 1 .. m
      BY <2>1, <2>2, <1>1
    <3> QED
      BY <3>1, <2>1, Places DEF ToBase45
  <2>6. InGroup(t, g) => t[3 * g + 3] = Digit(v, 2)
    <3>1. InGroup(t, g) => 3 * g + 3 \in 1 .. m
      BY <2>1, <1>1, <1>4 DEF InGroup
    <3> QED
      BY <3>1, <2>1, Places DEF ToBase45
  <2>7. ~InGroup(t, g) => Digit(v, 2) = 0
    BY <2>1, <2>3, <2>4, <1>1, DigitsOfByte
  <2> HIDE DEF v
  <2>8. GroupValue(t, g) = Digit(v, 0) + 45 * Digit(v, 1) + 2025 * Digit(v, 2)
    <3>1. Digit(v, 0) \in Nat /\ Digit(v, 1) \in Nat /\ Digit(v, 2) \in Nat
      <4>1. /\ Digit(v, 0) \in Alphabet /\ Digit(v, 1) \in Alphabet
            /\ Digit(v, 2) \in Alphabet
        BY <2>4, DigitsAddUp
      <4> QED
        BY <4>1, Bounds
    <3>2. CASE InGroup(t, g)
      BY <3>1, <3>2, <2>5, <2>6 DEF GroupValue
    <3>3. CASE ~InGroup(t, g)
      BY <3>1, <3>3, <2>5, <2>7 DEF GroupValue
    <3> QED
      BY <3>2, <3>3
  <2> QED
    BY <2>1, <2>2, <2>3, <2>4, <2>8, DigitsAddUp DEF v
<1> QED
  BY <1>4, <1>5

\* toBase45 makes a text that fromBase45 takes back to the same bytes.
LEMMA TextDecodes ==
  ASSUME NEW b \in Seq(Bytes)
  PROVE  /\ Decodable(ToBase45(b))
         /\ FromBase45(ToBase45(b)) = b
<1> DEFINE t == ToBase45(b)  n == Len(b)
<1>1. /\ t \in Seq(Alphabet) /\ Len(t) = TextLength(n)
      /\ \A g \in Groups(t) :
           /\ GroupValue(t, g) = PairValue(b, g)
           /\ g \in Nat /\ 2 * g + 1 <= n
           /\ InGroup(t, g) <=> 2 * g + 1 < n
  BY TextOf
<1>2. n \in Nat /\ Len(t) \in Nat /\ Len(t) % 3 # 1 /\ PayloadLength(Len(t)) = n
  <2>1. n \in Nat
    OBVIOUS
  <2> QED
    BY <2>1, <1>1, TextSizes
<1> HIDE DEF t, n
<1>3. Decodable(t)
  <2>1. \A k \in 1 .. Len(t) : t[k] \in Alphabet
    BY <1>1
  <2>2. ASSUME NEW g \in Groups(t)
        PROVE  GroupValue(t, g) <= IF InGroup(t, g) THEN 65535 ELSE 255
    <3>1. GroupValue(t, g) = PairValue(b, g) /\ g \in Nat /\ 2 * g + 1 <= n
      BY <1>1
    <3>2. InGroup(t, g) <=> ~(2 * g + 1 >= n)
      BY <1>1, <1>2, <3>1
    <3>3. PairValue(b, g) <= 65535 /\ (2 * g + 1 >= n => PairValue(b, g) <= 255)
      BY <3>1, PairValues DEF n
    <3> QED
      BY <3>1, <3>2, <3>3
  <2> QED
    BY <1>2, <2>1, <2>2 DEF Decodable
<1>4. ASSUME NEW j \in 1 .. n
      PROVE  FromBase45(t)[j] = b[j]
  <2> DEFINE g == (j - 1) \div 2
  <2>1. /\ g \in Nat /\ j \in Nat /\ 1 <= j /\ j <= n
        /\ \/ j = 2 * g + 1 /\ (j - 1) % 2 = 0
           \/ j = 2 * g + 2 /\ (j - 1) % 2 = 1
    <3>1. j \in Nat /\ 1 <= j /\ j <= n
      BY <1>2
    <3> QED
      BY <3>1, PlaceInPayload
  <2>2. g \in Groups(t)
    BY <1>1, <1>2, <2>1, PairInText
  <2>3. FromBase45(t)[j] = IF InGroup(t, g) /\ (j - 1) % 2 = 0
                           THEN (GroupValue(t, g) \div 256) % 256
                           ELSE GroupValue(t, g) % 256
    BY <1>2 DEF FromBase45
  <2> HIDE DEF g
  <2>4. GroupValue(t, g) = PairValue(b, g) /\ 2 * g + 1 <= n
    BY <1>1, <2>2
  <2>5. CASE 2 * g + 1 < n
    <3>1. /\ (PairValue(b, g) \div 256) % 256 = b[2 * g + 1]
          /\ PairValue(b, g) % 256 = b[2 * g + 2]
      BY <2>1, <2>4, <2>5, PairValues DEF n
    <3> QED
      BY <1>1, <2>1, <2>2, <2>3, <2>4, <2>5, <3>1
  <2>6. CASE ~(2 * g + 1 < n)
    <3>1. j = 2 * g + 1 /\ 2 * g + 1 >= n
      BY <1>2, <2>1, <2>6
    <3>2. PairValue(b, g) = b[j] /\ b[j] \in Nat /\ b[j] <= 255
      BY <2>1, <2>4, <3>1, PairValues, ByteOf DEF n
    <3>3. b[j] % 256 = b[j]
      BY <3>2, SMT
    <3> QED
      BY <1>1, <2>2, <2>3, <2>4, <2>6, <3>2, <3>3
  <2> QED
    BY <2>5, <2>6
<1>5. DOMAIN FromBase45(t) = 1 .. n
  BY <1>2 DEF FromBase45
<1>6. FromBase45(t) = [j \in 1 .. n |-> FromBase45(t)[j]]
  BY <1>5 DEF FromBase45
<1>7. b = [j \in 1 .. n |-> b[j]]
  BY DEF n
<1> QED
  BY <1>3, <1>4, <1>6, <1>7 DEF t
------------------------------------------------------------------------------
\* The characters of a text that decodes are the digits of its groups' values.
LEMMA GroupValues ==
  ASSUME NEW t \in Seq(Characters), Decodable(t), NEW g \in Groups(t)
  PROVE  /\ GroupValue(t, g) \in Nat /\ GroupValue(t, g) <= 65535
         /\ ~InGroup(t, g) => GroupValue(t, g) <= 255
         /\ Digit(GroupValue(t, g), 0) = t[3 * g + 1]
         /\ Digit(GroupValue(t, g), 1) = t[3 * g + 2]
         /\ InGroup(t, g) => Digit(GroupValue(t, g), 2) = t[3 * g + 3]
<1>1. Len(t) \in Nat /\ Len(t) % 3 # 1
  BY DEF Decodable
<1> DEFINE n == PayloadLength(Len(t))
<1>2. n \in Nat /\ TextLength(n) = Len(t)
  BY <1>1, PayloadSizes
<1>3. g \in Nat /\ g < (Len(t) + 2) \div 3
  BY <1>1 DEF Groups
<1>4. 3 * g + 2 <= Len(t)
  BY <1>2, <1>3, TextSizes
<1> DEFINE c == t[3 * g + 1]  d == t[3 * g + 2]
           e == IF InGroup(t, g) THEN t[3 * g + 3] ELSE 0
<1>5. /\ c \in Alphabet /\ d \in Alphabet
      /\ InGroup(t, g) => t[3 * g + 3] \in Alphabet
  <2>1. 3 * g + 1 \in 1 .. Len(t) /\ 3 * g + 2 \in 1 .. Len(t)
    BY <1>1, <1>3, <1>4
  <2>2. InGroup(t, g) => 3 * g + 3 \in 1 .. Len(t)
    BY <1>1, <1>3 DEF InGroup
  <2> QED
    BY <2>1, <2>2 DEF Decodable
<1>6. c \in Nat /\ d \in Nat /\ e \in Nat /\ c < 45 /\ d < 45
  <2>1. InGroup(t, g) => t[3 * g + 3] \in Nat
    BY <1>5, Bounds
  <2> QED
    BY <1>5, <2>1, Bounds
<1>7. GroupValue(t, g) = c + 45 * d + 2025 * e
  <2>1. CASE InGroup(t, g)
    BY <2>1, <1>6 DEF GroupValue
  <2>2. CASE ~InGroup(t, g)
    BY <2>2, <1>6 DEF GroupValue
  <2> QED
    BY <2>1, <2>2
<1>8. GroupValue(t, g) <= IF InGroup(t, g) THEN 65535 ELSE 255
  BY DEF Decodable
<1> HIDE DEF c, d
<1>9. /\ GroupValue(t, g) \in Nat
      /\ Digit(GroupValue(t, g), 0) = c /\ Digit(GroupValue(t, g), 1) = d
      /\ Digit(GroupValue(t, g), 2) = e
  <2> DEFINE v == GroupValue(t, g)
  <2>1. v \in Nat /\ v = c + 45 * d + 2025 * e
    BY <1>6, <1>7
  <2> HIDE DEF e, v
  <2>2. Digit(v, 0) = c /\ Digit(v, 1) = d /\ Digit(v, 2) = e
    <3>1. v % 45 = c /\ (v \div 45) % 45 = d /\ v \div 2025 = e
      BY <2>1, <1>6, DigitsOfSum
    <3> QED
      BY <3>1 DEF Digit
  <2> QED
    BY <2>1, <2>2 DEF v
<1>10. GroupValue(t, g) <= 65535 /\ (~InGroup(t, g) => GroupValue(t, g) <= 255)
  BY <1>8, <1>9
<1> QED
  BY <1>9, <1>10 DEF c, d

\* fromBase45 makes bytes that toBase45 takes back to the same text.
LEMMA TextOfPayload ==
  ASSUME NEW t \in Seq(Characters), Decodable(t)
  PROVE  /\ FromBase45(t) \in Seq(Bytes)
         /\ ToBase45(FromBase45(t)) = t
<1> DEFINE p == FromBase45(t)  m == Len(t)  n == PayloadLength(Len(t))
<1>1. m \in Nat /\ m % 3 # 1
  BY DEF Decodable
<1>2. n \in Nat /\ TextLength(n) = m
  BY <1>1, PayloadSizes
<1>3. ASSUME NEW g \in Groups(t)
      PROVE  /\ g \in Nat /\ 2 * g + 1 <= n
             /\ InGroup(t, g) <=> 2 * g + 1 < n
  <2>1. g \in Nat /\ g < (m + 2) \div 3
    BY <1>1 DEF Groups
  <2> QED
    BY <1>2, <2>1, TextSizes DEF InGroup
<1>4. ASSUME NEW j \in 1 .. n, NEW g, g = (j - 1) \div 2
      PROVE  /\ g \in Groups(t)
             /\ p[j] = IF InGroup(t, g) /\ (j - 1) % 2 = 0
                       THEN (GroupValue(t, g) \div 256) % 256
                       ELSE GroupValue(t, g) % 256
  <2>1. g \in Nat /\ 2 * g + 1 <= n
    BY <1>2, <1>4, SMT
  <2>2. g \in Groups(t)
    BY <1>2, <2>1, PairInText
  <2> QED
    BY <1>2, <1>4, <2>2 DEF FromBase45
<1>5. p \in Seq(Bytes) /\ Len(p) = n
  <2>1. ASSUME NEW j \in 1 .. n
        PROVE  p[j] \in Bytes
    <3> DEFINE g == (j - 1) \div 2
    <3>1. g \in Groups(t)
      BY <1>4
    <3>2. GroupValue(t, g) \in Nat /\ GroupValue(t, g) <= 65535
      BY <3>1, GroupValues
    <3>3. /\ (GroupValue(t, g) \div 256) % 256 \in Bytes
          /\ GroupValue(t, g) % 256 \in Bytes
      BY <3>2, PairOfHalves
    <3> QED
      BY <1>4, <3>3
  <2>2. p \in [1 .. n -> Bytes]
    BY <2>1 DEF FromBase45
  <2> QED
    BY <1>2, <2>2, IsSeq
<1>6. ASSUME NEW g \in Groups(t)
      PROVE  PairValue(p, g) = GroupValue(t, g)
  <2> DEFINE v == GroupValue(t, g)
  <2>1. g \in Nat /\ 2 * g + 1 <= n /\ (InGroup(t, g) <=> 2 * g + 1 < n)
    BY <1>3
  <2>2. v \in Nat /\ v <= 65535 /\ (~InGroup(t, g) => v <= 255)
    BY GroupValues
  <2>3. 2 * g + 1 \in 1 .. n
    BY <2>1, <1>2
  <2>4. p[2 * g + 1] = IF InGroup(t, g) THEN (v \div 256) % 256 ELSE v % 256
    BY <2>3, <2>1, <1>4, Places
  <2>5. CASE InGroup(t, g)
    <3>1. 2 * g + 2 \in 1 .. n
      BY <2>1, <2>5, <1>2
    <3>2. p[2 * g + 2] = v % 256
      BY <3>1, <2>1, <1>4, Places
    <3>3. PairValue(p, g) = 256 * ((v \div 256) % 256) + (v % 256)
      BY <2>1, <2>4, <2>5, <3>2, <1>5 DEF PairValue
    <3> QED
      BY <3>3, <2>2, PairOfHalves
  <2>6. CASE ~InGroup(t, g)
    <3>1. v % 256 = v
      BY <2>2, <2>6, SMT
    <3> QED
      BY <3>1, <2>1, <2>4, <2>6, <1>5 DEF PairValue
  <2> QED
    BY <2>5, <2>6
<1>7. ASSUME NEW k \in 1 .. m
      PROVE  ToBase45(p)[k] = t[k]
  <2> DEFINE g == (k - 1) \div 3
  <2>1. ToBase45(p)[k] = Digit(PairValue(p, g), (k - 1) % 3)
    BY <1>2, <1>5 DEF ToBase45
  <2>2. /\ g \in Nat
        /\ \/ k = 3 * g + 1 /\ (k - 1) % 3 = 0
           \/ k = 3 * g + 2 /\ (k - 1) % 3 = 1
           \/ k = 3 * g + 3 /\ (k - 1) % 3 = 2
    <3>1. k \in Nat /\ 1 <= k
      BY <1>1
    <3> QED
      BY <3>1, PlaceInText
  <2>3. g \in Groups(t)
    <3>1. g <= ((m + 2) \div 3) - 1
      BY <1>1, SMT
    <3> QED
      BY <3>1, <2>2, <1>1 DEF Groups
  <2>4. k = 3 * g + 3 => InGroup(t, g)
    BY <2>2, <1>1 DEF InGroup
  <2>5. PairValue(p, g) = GroupValue(t, g)
    BY <2>3, <1>6
  <2>6. /\ Digit(GroupValue(t, g), 0) = t[3 * g + 1]
        /\ Digit(GroupValue(t, g), 1) = t[3 * g + 2]
        /\ InGroup(t, g) => Digit(GroupValue(t, g), 2) = t[3 * g + 3]
    BY <2>3, GroupValues
  <2> HIDE DEF g
  <2> QED
    BY <2>1, <2>2, <2>4, <2>5, <2>6
<1>8. DOMAIN ToBase45(p) = 1 .. m
  BY <1>2, <1>5 DEF ToBase45
<1>9. ToBase45(p) = [k \in 1 .. m |-> ToBase45(p)[k]]
  BY <1>8 DEF ToBase45
<1>10. t = [k \in 1 .. m |-> t[k]]
  OBVIOUS
<1> QED
  BY <1>5, <1>7, <1>9, <1>10
------------------------------------------------------------------------------
(* The theorems *)

\* Every payload survives its QR code: toBase45 writes a text that fromBase45
\* accepts and turns into the same bytes (base45.ts, transport MUST 1).
THEOREM RoundTrip ==
  \A b \in Seq(Bytes) : Decodable(ToBase45(b)) /\ FromBase45(ToBase45(b)) = b
BY TextDecodes

\* A text that fromBase45 accepts is the only one that decodes to these bytes:
\* no length, group or tail is repaired (base45.ts, receive rule 11, D37).
THEOREM NothingRepaired ==
  \A t \in Seq(Characters) :
    Decodable(t) => FromBase45(t) \in Seq(Bytes) /\ ToBase45(FromBase45(t)) = t
BY TextOfPayload
==============================================================================
