------------------------------ MODULE Base64Proofs ------------------------------
(***************************************************************************)
(* Theorems about Base64: every value has a text, it reads back, and it is *)
(* the only text that does.                                                *)
(***************************************************************************)
EXTENDS Base64, TLAPS

(* Three bytes as one number, and as the four digits of that number.          *)
LEMMA DigitsOfAGroup ==
  ASSUME NEW x \in Byte, NEW y \in Byte, NEW z \in Byte, NEW n,
         n = x * 65536 + y * 256 + z
  PROVE  /\ n \in Nat
         /\ (n \div 262144) % 64 \in Digit /\ (n \div 4096) % 64 \in Digit
         /\ (n \div 64) % 64 \in Digit /\ (n \div 1) % 64 \in Digit
         /\ ((n \div 262144) % 64) * 262144 + ((n \div 4096) % 64) * 4096
              + ((n \div 64) % 64) * 64 + ((n \div 1) % 64) = n
<1>1. n \in Nat /\ n <= 16777215
  BY DEF Byte
<1>2. n \div 1 = n /\ n = 64 * (n \div 64) + (n % 64)
  BY <1>1
<1>3. n \div 64 = 64 * (n \div 4096) + ((n \div 64) % 64)
  BY <1>1
<1>4. n \div 4096 = 64 * (n \div 262144) + ((n \div 4096) % 64)
  BY <1>1
<1>5. (n \div 262144) % 64 = n \div 262144
  BY <1>1
<1>6. /\ (n \div 262144) % 64 \in Digit /\ (n \div 4096) % 64 \in Digit
      /\ (n \div 64) % 64 \in Digit /\ (n \div 1) % 64 \in Digit
  BY <1>1 DEF Digit
<1> DEFINE a == (n \div 262144) % 64  b == (n \div 4096) % 64  c == (n \div 64) % 64
           d == (n \div 1) % 64  p == n \div 64  q == n \div 4096
<1>7. /\ n = 64 * p + d /\ p = 64 * q + c /\ q = 64 * a + b
      /\ a \in Int /\ b \in Int /\ c \in Int /\ d \in Int /\ p \in Int /\ q \in Int
  BY <1>1, <1>2, <1>3, <1>4, <1>5
<1> HIDE DEF a, b, c, d, p, q
<1>8. a * 262144 + b * 4096 + c * 64 + d = n
  BY <1>7
<1> QED
  BY <1>1, <1>6, <1>8 DEF a, b, c, d

(* The bytes of the number are those it was made of.                          *)
LEMMA BytesOfAGroup ==
  ASSUME NEW x \in Byte, NEW y \in Byte, NEW z \in Byte, NEW n,
         n = x * 65536 + y * 256 + z
  PROVE  /\ (n \div 65536) % 256 = x
         /\ (n \div 256) % 256 = y
         /\ (n \div 1) % 256 = z
  BY DEF Byte

(* The digits that padding stands for are 0. *)
LEMMA PaddedDigits ==
  ASSUME NEW x \in Byte, NEW y \in Byte, NEW n, n = x * 65536 + y * 256
  PROVE  /\ (n \div 1) % 64 = 0
         /\ y = 0 => (n \div 64) % 64 = 0
  BY DEF Byte

(* What encodeBinary writes: the digits of each group, padded at the end.     *)
LEMMA TextOfAValue ==
  ASSUME NEW v \in Seq(Byte), NEW g \in Nat, 3 * g < Len(v), NEW j \in 0..3
  PROVE  EncodeBinary(v)[4 * g + j + 1] =
           IF 3 * g + j > Len(v) THEN Pad ELSE (Group(v, g) \div DigitPlace[j + 1]) % 64
<1> DEFINE k == 4 * g + j + 1
<1>1. Len(v) \in Nat
  OBVIOUS
<1>2. /\ k \in 1..(4 * ((Len(v) + 2) \div 3))
      /\ (k - 1) \div 4 = g /\ (k - 1) % 4 = j
  BY <1>1, SMT
<1> HIDE DEF k
<1>3. EncodeBinary(v)[k] =
        IF 3 * g + j > Len(v) THEN Pad ELSE (Group(v, g) \div DigitPlace[j + 1]) % 64
  BY <1>2, SMT DEF EncodeBinary
<1> QED
  BY <1>3, SMT DEF k

(* Every place of a group holds a byte. *)
LEMMA BytesAreBytes ==
  ASSUME NEW v \in Seq(Byte), NEW i \in Nat, i > 0
  PROVE  ByteAt(v, i) \in Byte
<1>1. 0 \in Byte
  BY SMT DEF Byte
<1>2. CASE i <= Len(v)
  <2>1. i \in 1..Len(v)
    BY <1>2, SMT
  <2>2. v[i] \in Byte
    BY <2>1, SMT
  <2> QED
    BY <1>2, <2>2, SMT DEF ByteAt
<1>3. CASE ~(i <= Len(v))
  BY <1>1, <1>3, SMT DEF ByteAt
<1> QED
  BY <1>2, <1>3

(* The digits of a group by themselves, padding read as 0.                    *)
LEMMA DigitsOfTheText ==
  ASSUME NEW v \in Seq(Byte), NEW g \in Nat, 3 * g < Len(v)
  PROVE  \A j \in 0..3 :
            DigitAt(EncodeBinary(v), 4 * g + j + 1) = (Group(v, g) \div DigitPlace[j + 1]) % 64
<1> DEFINE x == ByteAt(v, 3 * g + 1)
           y == ByteAt(v, 3 * g + 2)
           z == ByteAt(v, 3 * g + 3)
           n == Group(v, g)
<1>1. x \in Byte /\ y \in Byte /\ z \in Byte
  BY BytesAreBytes, SMT
<1>2. n = x * 65536 + y * 256 + z
  BY SMT DEF Group
<1>3. (3 * g + 3 > Len(v) => z = 0) /\ (3 * g + 2 > Len(v) => y = 0 /\ z = 0)
  BY SMT DEF ByteAt
<1> HIDE DEF x, y, z, n
<1>4. /\ (n \div 262144) % 64 \in Digit /\ (n \div 4096) % 64 \in Digit
      /\ (n \div 64) % 64 \in Digit /\ (n \div 1) % 64 \in Digit
  BY <1>1, <1>2, DigitsOfAGroup
<1>5. ASSUME z = 0
      PROVE  (n \div 1) % 64 = 0 /\ (y = 0 => (n \div 64) % 64 = 0)
  <2>1. n = x * 65536 + y * 256
    BY <1>1, <1>2, <1>5, SMT DEF Byte
  <2> QED
    BY <1>1, <2>1, PaddedDigits
<1>6. /\ DigitPlace[0 + 1] = 262144 /\ DigitPlace[1 + 1] = 4096
      /\ DigitPlace[2 + 1] = 64 /\ DigitPlace[3 + 1] = 1
  BY SMT DEF DigitPlace
<1>7. Pad \notin Digit
  BY CharactersAssumption DEF Digit
<1>8. ASSUME NEW j \in 0..3
      PROVE  DigitAt(EncodeBinary(v), 4 * g + j + 1) = (n \div DigitPlace[j + 1]) % 64
  <2> DEFINE d == (n \div DigitPlace[j + 1]) % 64
             c == EncodeBinary(v)[4 * g + j + 1]
  <2>1. c = IF 3 * g + j > Len(v) THEN Pad ELSE d
    BY TextOfAValue DEF n
  <2>2. d \in Digit
    BY <1>4, <1>6, SMT
  <2>3. 3 * g + j > Len(v) => d = 0
    <3>1. CASE j = 0 \/ j = 1
      BY <3>1, SMT
    <3>2. CASE j = 2
      BY <1>3, <1>5, <1>6, <3>2, SMT
    <3>3. CASE j = 3
      BY <1>3, <1>5, <1>6, <3>3, SMT
    <3> QED
      BY <3>1, <3>2, <3>3, SMT
  <2> HIDE DEF d
  <2> QED
    BY <1>7, <2>1, <2>2, <2>3, Zenon DEF DigitAt, d
<1> QED
  BY <1>8, Zenon DEF n

(* Each group of the text is the number of the group of bytes.                *)
LEMMA WordOfAGroup ==
  ASSUME NEW v \in Seq(Byte), NEW g \in Nat, 3 * g < Len(v)
  PROVE  Word(EncodeBinary(v), g) = Group(v, g)
<1> DEFINE t == EncodeBinary(v)
           n == Group(v, g)
           x == ByteAt(v, 3 * g + 1)
           y == ByteAt(v, 3 * g + 2)
           z == ByteAt(v, 3 * g + 3)
<1>1. /\ DigitPlace[0 + 1] = 262144 /\ DigitPlace[1 + 1] = 4096
      /\ DigitPlace[2 + 1] = 64 /\ DigitPlace[3 + 1] = 1
  BY SMT DEF DigitPlace
<1>2. \A j \in 0..3 : DigitAt(t, 4 * g + j + 1) = (n \div DigitPlace[j + 1]) % 64
  BY DigitsOfTheText
<1> HIDE DEF t
<1>3. /\ DigitAt(t, 4 * g + 1) = (n \div 262144) % 64
      /\ DigitAt(t, 4 * g + 2) = (n \div 4096) % 64
      /\ DigitAt(t, 4 * g + 3) = (n \div 64) % 64
      /\ DigitAt(t, 4 * g + 4) = (n \div 1) % 64
  <2> HIDE DEF n
  <2>1. /\ 4 * g + 0 + 1 = 4 * g + 1 /\ 4 * g + 1 + 1 = 4 * g + 2
        /\ 4 * g + 2 + 1 = 4 * g + 3 /\ 4 * g + 3 + 1 = 4 * g + 4
        /\ 0 \in 0..3 /\ 1 \in 0..3 /\ 2 \in 0..3 /\ 3 \in 0..3
    BY SMT
  <2> QED
    BY <1>1, <1>2, <2>1, SMT
<1>4. x \in Byte /\ y \in Byte /\ z \in Byte
  BY BytesAreBytes, SMT
<1>5. n = x * 65536 + y * 256 + z
  BY SMT DEF Group
<1> HIDE DEF x, y, z, n
<1>6. ((n \div 262144) % 64) * 262144 + ((n \div 4096) % 64) * 4096
        + ((n \div 64) % 64) * 64 + ((n \div 1) % 64) = n
  BY <1>4, <1>5, DigitsOfAGroup
<1>7. Word(t, g) = ((n \div 262144) % 64) * 262144 + ((n \div 4096) % 64) * 4096
                     + ((n \div 64) % 64) * 64 + ((n \div 1) % 64)
  BY <1>3 DEF Word
<1>8. Word(t, g) = n
  BY <1>6, <1>7
<1> QED
  BY <1>8 DEF n, t

(* The text of a value has as many whole groups as it takes.                  *)
LEMMA LengthOfTheText ==
  ASSUME NEW v \in Seq(Byte)
  PROVE  /\ Len(v) \in Nat
         /\ (Len(v) + 2) \div 3 \in Nat
         /\ Len(EncodeBinary(v)) = 4 * ((Len(v) + 2) \div 3)
<1>1. Len(v) \in Nat
  OBVIOUS
<1>2. (Len(v) + 2) \div 3 \in Nat
  BY <1>1, SMT
<1>3. ASSUME NEW n \in Nat PROVE 4 * n \in Nat
  BY SMT
<1>4. ASSUME NEW n \in Nat, NEW f, DOMAIN f = 1..n, f = [k \in 1..n |-> f[k]] PROVE Len(f) = n
  BY <1>4, SMT
<1>5. EncodeBinary(v) = [k \in 1..(4 * ((Len(v) + 2) \div 3)) |-> EncodeBinary(v)[k]]
  BY Zenon DEF EncodeBinary
<1> QED
  BY <1>1, <1>2, <1>3, <1>4, <1>5

(* The character at each place of the text.                                   *)
LEMMA CharactersOfTheText ==
  ASSUME NEW v \in Seq(Byte), NEW k \in 1..(4 * ((Len(v) + 2) \div 3))
  PROVE  \E g \in Nat, j \in 0..3 :
            /\ k = 4 * g + j + 1
            /\ 3 * g < Len(v)
            /\ 3 * g + j > Len(v) => EncodeBinary(v)[k] = Pad
            /\ 3 * g + j <= Len(v) => EncodeBinary(v)[k] \in Digit
<1> DEFINE g == (k - 1) \div 4
           j == (k - 1) % 4
<1>1. Len(v) \in Nat /\ (Len(v) + 2) \div 3 \in Nat
  BY LengthOfTheText
<1>2. g \in Nat /\ j \in 0..3 /\ k = 4 * g + j + 1 /\ 3 * g < Len(v)
  BY <1>1, SMT
<1> HIDE DEF g, j
<1>3. /\ ByteAt(v, 3 * g + 1) \in Byte
      /\ ByteAt(v, 3 * g + 2) \in Byte
      /\ ByteAt(v, 3 * g + 3) \in Byte
  BY <1>2, BytesAreBytes, SMT
<1>4. Group(v, g) \in Nat
  <2>1. \A x, y, z \in Byte : x * 65536 + y * 256 + z \in Nat
    BY SMT DEF Byte
  <2> QED
    BY <1>3, <2>1 DEF Group
<1>5. EncodeBinary(v)[k] =
        IF 3 * g + j > Len(v) THEN Pad ELSE (Group(v, g) \div DigitPlace[j + 1]) % 64
  BY <1>2, TextOfAValue
<1>6. ASSUME NEW n \in Nat PROVE (n \div DigitPlace[j + 1]) % 64 \in Digit
  <2>1. DigitPlace[j + 1] \in Nat \ {0}
    BY <1>2, SMT DEF DigitPlace
  <2>2. \A m \in Nat \ {0} : n \div m \in Int
    BY SMT
  <2>3. \A q \in Int : q % 64 \in Digit
    BY SMT DEF Digit
  <2> QED
    BY <2>1, <2>2, <2>3, Zenon
<1>7. /\ 3 * g + j > Len(v) => EncodeBinary(v)[k] = Pad
      /\ ~(3 * g + j > Len(v)) => EncodeBinary(v)[k] \in Digit
  BY <1>4, <1>5, <1>6, Zenon
<1>8. 3 * g + j <= Len(v) => ~(3 * g + j > Len(v))
  BY <1>1, <1>2, SMT
<1> QED
  BY <1>2, <1>7, <1>8, Zenon

(* Padding stands at the end and nowhere else, as much as the last group      *)
(* lacks bytes.                                                               *)
LEMMA TextIsWellPadded ==
  ASSUME NEW v \in Seq(Byte)
  PROVE  /\ WellPadded(EncodeBinary(v))
         /\ Padding(EncodeBinary(v)) = 3 * ((Len(v) + 2) \div 3) - Len(v)
<1> DEFINE t == EncodeBinary(v)
           m == (Len(v) + 2) \div 3
<1>1. Len(v) \in Nat /\ m \in Nat /\ Len(t) = 4 * m
  BY LengthOfTheText
<1>2. 3 * m >= Len(v) /\ 3 * m <= Len(v) + 2
  BY <1>1, SMT
<1>3. \A k \in 1..(4 * m) : \E g \in Nat, j \in 0..3 :
        /\ k = 4 * g + j + 1 /\ 3 * g < Len(v)
        /\ 3 * g + j > Len(v) => t[k] = Pad
        /\ 3 * g + j <= Len(v) => t[k] \in Digit
  BY CharactersOfTheText
<1>4. Pad \notin Digit
  BY CharactersAssumption DEF Digit
<1> HIDE DEF t, m
<1>5. m > 0 => (t[4 * m] = Pad <=> 3 * m > Len(v)) /\ (t[4 * m - 1] = Pad <=> 3 * m > Len(v) + 1)
  <2> SUFFICES ASSUME m > 0
               PROVE  (t[4 * m] = Pad <=> 3 * m > Len(v)) /\ (t[4 * m - 1] = Pad <=> 3 * m > Len(v) + 1)
    OBVIOUS
  <2>1. PICK g \in Nat, j \in 0..3 :
          /\ 4 * m = 4 * g + j + 1 /\ 3 * g < Len(v)
          /\ 3 * g + j > Len(v) => t[4 * m] = Pad
          /\ 3 * g + j <= Len(v) => t[4 * m] \in Digit
    BY <1>1, <1>3, SMT
  <2>2. g = m - 1 /\ j = 3
    BY <1>1, <2>1, SMT
  <2>3. PICK h \in Nat, i \in 0..3 :
          /\ 4 * m - 1 = 4 * h + i + 1 /\ 3 * h < Len(v)
          /\ 3 * h + i > Len(v) => t[4 * m - 1] = Pad
          /\ 3 * h + i <= Len(v) => t[4 * m - 1] \in Digit
    BY <1>1, <1>3, SMT
  <2>4. h = m - 1 /\ i = 2
    BY <1>1, <2>3, SMT
  <2> QED
    BY <1>1, <1>4, <2>1, <2>2, <2>3, <2>4, SMT
<1>6. WellPadded(t)
  <2>1. ASSUME NEW k \in 1..(4 * m)
        PROVE  \/ t[k] \in Digit
               \/ t[k] = Pad /\ k = 4 * m
               \/ t[k] = Pad /\ k = 4 * m - 1 /\ t[4 * m] = Pad
    <3>1. PICK g \in Nat, j \in 0..3 :
            /\ k = 4 * g + j + 1 /\ 3 * g < Len(v)
            /\ 3 * g + j > Len(v) => t[k] = Pad
            /\ 3 * g + j <= Len(v) => t[k] \in Digit
      BY <1>3
    <3>2. 3 * g + j > Len(v) => g = m - 1 /\ j \in {2, 3}
      BY <1>1, <1>2, <3>1, SMT
    <3>3. CASE 3 * g + j > Len(v)
      BY <1>1, <1>5, <3>1, <3>2, <3>3, SMT
    <3>4. CASE ~(3 * g + j > Len(v))
      BY <1>1, <3>1, <3>4, SMT
    <3> QED
      BY <3>3, <3>4
  <2>2. (4 * m) % 4 = 0
    BY <1>1, SMT
  <2> QED
    BY <1>1, <2>1, <2>2 DEF WellPadded
<1>7. Padding(t) = 3 * m - Len(v)
  <2>1. CASE m = 0
    BY <1>1, <1>2, <2>1, SMT DEF Padding
  <2>2. CASE m > 0
    BY <1>1, <1>2, <1>5, <2>2, SMT DEF Padding
  <2> QED
    BY <1>1, <2>1, <2>2, SMT
<1> QED
  BY <1>6, <1>7 DEF t, m

(* What has been written reads back, byte by byte.                            *)
LEMMA BytesOfTheText ==
  ASSUME NEW v \in Seq(Byte)
  PROVE  Bytes(EncodeBinary(v)) = v
<1> DEFINE t == EncodeBinary(v)
           m == (Len(v) + 2) \div 3
<1>1. Len(v) \in Nat /\ m \in Nat /\ Len(t) = 4 * m /\ Padding(t) = 3 * m - Len(v)
  BY LengthOfTheText, TextIsWellPadded
<1>2. ASSUME NEW k \in 1..Len(v)
      PROVE  (Word(t, (k - 1) \div 3) \div BytePlace[((k - 1) % 3) + 1]) % 256 = v[k]
  <2> DEFINE g == (k - 1) \div 3
             j == (k - 1) % 3
             x == ByteAt(v, 3 * g + 1)
             y == ByteAt(v, 3 * g + 2)
             z == ByteAt(v, 3 * g + 3)
             n == Group(v, g)
  <2> SUFFICES (Word(t, g) \div BytePlace[j + 1]) % 256 = v[k]
    OBVIOUS
  <2>1. g \in Nat /\ j \in 0..2 /\ k = 3 * g + j + 1 /\ 3 * g < Len(v)
    BY <1>1, SMT
  <2> HIDE DEF g, j
  <2>2. Word(t, g) = n
    BY <2>1, WordOfAGroup
  <2>3. x \in Byte /\ y \in Byte /\ z \in Byte
    BY <2>1, BytesAreBytes, SMT
  <2>4. n = x * 65536 + y * 256 + z
    BY SMT DEF Group
  <2>5. /\ j = 0 => v[k] = x
        /\ j = 1 => v[k] = y
        /\ j = 2 => v[k] = z
    BY <1>1, <2>1, SMT DEF ByteAt
  <2> HIDE DEF x, y, z, n
  <2>6. /\ (n \div 65536) % 256 = x
        /\ (n \div 256) % 256 = y
        /\ (n \div 1) % 256 = z
    BY <2>3, <2>4, BytesOfAGroup
  <2>7. BytePlace[0 + 1] = 65536 /\ BytePlace[1 + 1] = 256 /\ BytePlace[2 + 1] = 1
    BY SMT DEF BytePlace
  <2>8. j = 0 \/ j = 1 \/ j = 2
    BY <2>1, SMT
  <2>9. CASE j = 0
    BY <2>2, <2>5, <2>6, <2>7, <2>9, SMT
  <2>10. CASE j = 1
    BY <2>2, <2>5, <2>6, <2>7, <2>10, SMT
  <2>11. CASE j = 2
    BY <2>2, <2>5, <2>6, <2>7, <2>11, SMT
  <2> QED
    BY <2>8, <2>9, <2>10, <2>11
<1> HIDE DEF t, m
<1>3. 3 * (Len(t) \div 4) - Padding(t) = Len(v)
  BY <1>1, SMT
<1>4. Bytes(t) = [k \in 1..Len(v) |-> v[k]]
  BY <1>2, <1>3, Zenon DEF Bytes
<1>5. v = [k \in 1..Len(v) |-> v[k]]
  OBVIOUS
<1> QED
  BY <1>4, <1>5, Zenon DEF t

(* Every value reads back from the text that was written for it.              *)
THEOREM ValuesReadBack ==
  ASSUME NEW v \in Seq(Byte)
  PROVE  Binary(EncodeBinary(v)) = [ok |-> TRUE, data |-> v]
  BY BytesOfTheText, TextIsWellPadded, Zenon DEF Binary

(* The texts that binary takes are those that encodeBinary writes, and no two *)
(* of them are read as one value.                                             *)
THEOREM OneTextForAValue ==
  ASSUME NEW s, NEW t, Binary(s).ok, Binary(t).ok, Binary(s).data = Binary(t).data
  PROVE  s = t
<1>1. ASSUME NEW u, Binary(u).ok PROVE EncodeBinary(Binary(u).data) = u
  BY <1>1 DEF Binary
<1> QED
  BY <1>1
================================================================================
