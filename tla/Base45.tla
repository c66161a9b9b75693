------------------------------- MODULE Base45 -------------------------------
(***************************************************************************)
(* The text in a Vadum QR code: packages/wire/src/base45.ts.  A text is a  *)
(* sequence of values of RFC 9285's alphabet, 0 to 44, SPACE among them; a *)
(* character outside it is -1.  Three characters carry two bytes, and an   *)
(* odd last byte two.                                                      *)
(***************************************************************************)
EXTENDS Integers, Sequences

Bytes == 0 .. 255
Alphabet == 0 .. 44
Characters == Alphabet \cup {-1}

\* Sizes: whole pairs of bytes, or groups of characters, and what is left.
TextLength(n) == 3 * (n \div 2) + 2 * (n % 2)
PayloadLength(n) == 2 * (n \div 3) + (IF n % 3 = 2 THEN 1 ELSE 0)

\* The value of the g-th pair, or of the odd last byte.
PairValue(bytes, g) ==
  IF 2 * g + 1 < Len(bytes) THEN 256 * bytes[2 * g + 1] + bytes[2 * g + 2]
                            ELSE bytes[2 * g + 1]

Digit(value, i) ==
  CASE i = 0 -> value % 45
    [] i = 1 -> (value \div 45) % 45
    [] OTHER -> value \div 2025

ToBase45(bytes) ==
  [k \in 1 .. TextLength(Len(bytes)) |->
     Digit(PairValue(bytes, (k - 1) \div 3), (k - 1) % 3)]

InGroup(text, g) == 3 * g + 2 < Len(text)

\* The value of the g-th group, or of a tail of two characters.
GroupValue(text, g) ==
  text[3 * g + 1] + 45 * text[3 * g + 2]
    + (IF InGroup(text, g) THEN 2025 * text[3 * g + 3] ELSE 0)

Groups(text) == 0 .. ((Len(text) + 2) \div 3) - 1

\* Mutant: only groups of three are checked, so a tail of two wraps around.
DecodableTail(text) ==
  /\ Len(text) % 3 # 1
  /\ \A k \in 1 .. Len(text) : text[k] \in Alphabet
  /\ \A g \in Groups(text) : InGroup(text, g) => GroupValue(text, g) <= 65535

\* Every rejection of receive rule 11.
Decodable(text) ==
  /\ Len(text) % 3 # 1
  /\ \A k \in 1 .. Len(text) : text[k] \in Alphabet
  /\ \A g \in Groups(text) :
       GroupValue(text, g) <= IF InGroup(text, g) THEN 65535 ELSE 255

\* Mutant: the bytes go into a plain array, and the low one is not masked.
FromBase45Unmasked(text) ==
  [j \in 1 .. PayloadLength(Len(text)) |->
     LET g == (j - 1) \div 2
     IN  IF InGroup(text, g) /\ (j - 1) % 2 = 0 THEN GroupValue(text, g) \div 256
                                               ELSE GroupValue(text, g)]

\* An element of a Uint8Array keeps the low eight bits of what it is given.
FromBase45(text) ==
  [j \in 1 .. PayloadLength(Len(text)) |->
     LET g == (j - 1) \div 2
     IN  IF InGroup(text, g) /\ (j - 1) % 2 = 0
         THEN (GroupValue(text, g) \div 256) % 256
         ELSE GroupValue(text, g) % 256]
==============================================================================
