------------------------------- MODULE CodecProofs -------------------------------
(***************************************************************************)
(* Theorems about the codec of a Value: what the reader takes for text,    *)
(* for an escaped string and for base64 is what the Unicode standard, JSON *)
(* and the base64 standard say it is, however long the input.              *)
(***************************************************************************)
EXTENDS MCCodec, Base64Proofs, SequenceTheorems, WellFoundedInduction

(* The inputs have the types of the modules that read them.                   *)
CodecTypeOK ==
    bytes \in Seq(Octet) /\ pieces \in Seq(Piece) /\ chars \in Seq(Char) /\ value \in Seq(Byte)

(* Every state has inputs of those types.                                     *)
THEOREM CodecTypes == CodecSpec => []CodecTypeOK
<1>1. CodecInit => CodecTypeOK
  BY DEF CodecInit, CodecTypeOK
<1>2. CodecTypeOK /\ [CodecNext]_<<vars, inputs>> => CodecTypeOK'
  <2> SUFFICES ASSUME CodecTypeOK, [CodecNext]_<<vars, inputs>> PROVE CodecTypeOK'
    OBVIOUS
  <2> USE TriedAssumption DEF CodecTypeOK
  <2>1. CASE GrowBytes
    BY <2>1, AppendProperties DEF GrowBytes
  <2>2. CASE GrowPieces
    BY <2>2, AppendProperties DEF GrowPieces
  <2>3. CASE GrowChars
    BY <2>3, AppendProperties DEF GrowChars
  <2>4. CASE GrowValue
    BY <2>4, AppendProperties DEF GrowValue
  <2>5. CASE UNCHANGED inputs
    BY <2>5 DEF inputs
  <2> QED
    BY <2>1, <2>2, <2>3, <2>4, <2>5 DEF CodecNext
<1> QED
  BY <1>1, <1>2, PTL DEF CodecSpec

(* The bytes of every value come back from its text.                          *)
THEOREM EveryValueSurvives == CodecSpec => []BytesSurvive
<1>1. CodecTypeOK => BytesSurvive
  BY ValuesReadBack DEF CodecTypeOK, BytesSurvive
<1> QED
  BY <1>1, CodecTypes, PTL

--------------------------------------------------------------------------------
(* What the code points of each length are made of, and the bytes that the    *)
(* table has for the longer ones.                                             *)
Spelled2(a, b)       == (a % 32) * 64 + (b % 64)
Spelled3(a, b, c)    == ((a % 16) * 64 + (b % 64)) * 64 + (c % 64)
Spelled4(a, b, c, d) == (((a % 8) * 64 + (b % 64)) * 64 + (c % 64)) * 64 + (d % 64)

Row3(a, b) ==
    \/ a = 224 /\ b \in 160..191
    \/ a \in (225..239) \ {237}
    \/ a = 237 /\ b \in 128..159
Row4(a, b) ==
    \/ a = 240 /\ b \in 144..191
    \/ a \in 241..243
    \/ a = 244 /\ b \in 128..143

(* The loop over the bytes of a code point makes it of them.                  *)
LEMMA CodePoints ==
  ASSUME NEW b \in Seq(Octet), NEW i \in 1..Len(b), NEW n \in 1..4, i + n - 1 <= Len(b)
  PROVE  CodePoint(b, i, n) =
           CASE n = 1 -> b[i] % 128
             [] n = 2 -> Spelled2(b[i], b[i + 1])
             [] n = 3 -> Spelled3(b[i], b[i + 1], b[i + 2])
             [] n = 4 -> Spelled4(b[i], b[i + 1], b[i + 2], b[i + 3])
<1> DEFINE Fits(f) == f = [k \in 0..(n - 1) |->
                             IF k = 0 THEN b[i] % Lead[n] ELSE f[k - 1] * 64 + (b[i + k] % 64)]
           one   == b[i] % Lead[n]
           two   == one * 64 + (b[i + 1] % 64)
           three == two * 64 + (b[i + 2] % 64)
           four  == three * 64 + (b[i + 3] % 64)
           g     == [k \in 0..(n - 1) |->
                        IF k = 0 THEN one ELSE IF k = 1 THEN two ELSE IF k = 2 THEN three ELSE four]
           cp    == CHOOSE f : Fits(f)
<1>1. CodePoint(b, i, n) = cp[n - 1]
  BY DEF CodePoint
<1>2. Fits(g)
  <2> HIDE DEF one
  <2>1. ASSUME NEW k \in 0..(n - 1)
        PROVE  g[k] = IF k = 0 THEN one ELSE g[k - 1] * 64 + (b[i + k] % 64)
    <3>1. CASE k = 0
      BY <3>1
    <3>2. CASE k = 1
      BY <3>2
    <3>3. CASE k = 2
      BY <3>3
    <3>4. CASE k = 3
      BY <3>4
    <3> QED
      BY <3>1, <3>2, <3>3, <3>4
  <2> QED
    BY <2>1 DEF one
<1>3. Fits(cp)
  BY <1>2
<1> HIDE DEF cp
<1>4. /\ cp[0] = one
      /\ n > 1 => cp[1] = cp[0] * 64 + (b[i + 1] % 64)
      /\ n > 2 => cp[2] = cp[1] * 64 + (b[i + 2] % 64)
      /\ n > 3 => cp[3] = cp[2] * 64 + (b[i + 3] % 64)
  <2> HIDE DEF one
  <2>1. \A k \in 0..(n - 1) : cp[k] = IF k = 0 THEN one ELSE cp[k - 1] * 64 + (b[i + k] % 64)
    BY <1>3 DEF one
  <2> QED
    BY <2>1
<1>5. Lead[1] = 128 /\ Lead[2] = 32 /\ Lead[3] = 16 /\ Lead[4] = 8
  BY DEF Lead
<1>6. CASE n = 1
  BY <1>1, <1>4, <1>5, <1>6
<1>7. CASE n = 2
  BY <1>1, <1>4, <1>5, <1>7 DEF Spelled2
<1>8. CASE n = 3
  BY <1>1, <1>4, <1>5, <1>8 DEF Spelled3
<1>9. CASE n = 4
  BY <1>1, <1>4, <1>5, <1>9 DEF Spelled4
<1> QED
  BY <1>6, <1>7, <1>8, <1>9

(* The first byte of each length, and the ones that go on.                    *)
LEMMA FirstBytes ==
  ASSUME NEW c \in Octet
  PROVE  /\ Announced(c) \in 0..4
         /\ Announced(c) = 1 <=> c \in 0..127
         /\ Announced(c) = 2 <=> c \in 192..223
         /\ Announced(c) = 3 <=> c \in 224..239
         /\ Announced(c) = 4 <=> c \in 240..247
         /\ c \div 64 = 2 <=> c \in More
BY DEF Announced, Octet, More

(* The code points that n bytes may spell.                                    *)
Surrogate(cp) == 55296 <= cp /\ cp <= 57343

LEMMA Ranges ==
  ASSUME NEW cp \in Int
  PROVE  /\ InRange(cp, 1) <=> 0 <= cp /\ cp <= 1114111 /\ ~Surrogate(cp)
         /\ InRange(cp, 2) <=> 128 <= cp /\ cp <= 1114111 /\ ~Surrogate(cp)
         /\ InRange(cp, 3) <=> 2048 <= cp /\ cp <= 1114111 /\ ~Surrogate(cp)
         /\ InRange(cp, 4) <=> 65536 <= cp /\ cp <= 1114111 /\ ~Surrogate(cp)
<1>1. Lowest[1] = 0 /\ Lowest[2] = 128 /\ Lowest[3] = 2048 /\ Lowest[4] = 65536
  BY SMT DEF Lowest
<1>2. cp \notin High \cup Low <=> ~Surrogate(cp)
  BY SMT DEF High, Low, Surrogate
<1> QED
  BY <1>1, <1>2, SMT DEF InRange

(* Two bytes spell a code point that needs them where the table of the        *)
(* standard has them.                                                         *)
LEMMA TwoBytes ==
  ASSUME NEW a \in 192..223, NEW b \in More
  PROVE  InRange(Spelled2(a, b), 2) <=> a \in 194..223
<1> DEFINE cp == (a - 192) * 64 + (b - 128)
<1>1. a % 32 = a - 192 /\ b % 64 = b - 128
  BY SMT DEF More
<1>2. Spelled2(a, b) = cp
  BY <1>1, SMT DEF Spelled2
<1>3. cp \in Int /\ cp <= 2047 /\ (128 <= cp <=> a \in 194..223)
  BY SMT DEF More
<1> HIDE DEF cp
<1>4. InRange(cp, 2) <=> a \in 194..223
  BY <1>3, Ranges, SMT DEF Surrogate
<1> QED
  BY <1>2, <1>4, SMT

(* Three bytes spell a code point as the table has them: neither one that two *)
(* bytes would do for, nor a surrogate.                                       *)
LEMMA ThreeBytes ==
  ASSUME NEW a \in 224..239, NEW b \in More, NEW c \in More
  PROVE  InRange(Spelled3(a, b, c), 3) <=> Row3(a, b)
<1> DEFINE cp == (a - 224) * 4096 + (b - 128) * 64 + (c - 128)
<1>1. a % 16 = a - 224 /\ b % 64 = b - 128 /\ c % 64 = c - 128
  BY SMT DEF More
<1>2. Spelled3(a, b, c) = cp
  BY <1>1, SMT DEF More, Spelled3
<1>3. cp \in Int
  BY SMT DEF More
<1>4. 2048 <= cp /\ cp <= 1114111 /\ ~Surrogate(cp) <=> Row3(a, b)
  <2>1. a \in Int /\ b \in Int /\ c \in Int /\ 224 <= a /\ a <= 239
        /\ 128 <= b /\ b <= 191 /\ 128 <= c /\ c <= 191
    BY SMT DEF More
  <2>2. cp <= 65535
    BY <2>1, SMT
  <2>3. 2048 <= cp <=> a > 224 \/ b >= 160
    BY <2>1, SMT
  <2>4. Surrogate(cp) <=> a = 237 /\ b >= 160
    BY <2>1, SMT DEF Surrogate
  <2> HIDE DEF cp
  <2> QED
    BY <1>3, <2>1, <2>2, <2>3, <2>4, SMT DEF Row3
<1> HIDE DEF cp
<1>5. InRange(cp, 3) <=> Row3(a, b)
  BY <1>3, <1>4, Ranges, SMT
<1> QED
  BY <1>2, <1>5, SMT

(* Four bytes spell one that needs them, and none past the last.              *)
LEMMA FourBytes ==
  ASSUME NEW a \in 240..247, NEW b \in More, NEW c \in More, NEW d \in More
  PROVE  InRange(Spelled4(a, b, c, d), 4) <=> Row4(a, b)
<1> DEFINE cp == (a - 240) * 262144 + (b - 128) * 4096 + (c - 128) * 64 + (d - 128)
<1>1. a % 8 = a - 240 /\ b % 64 = b - 128 /\ c % 64 = c - 128 /\ d % 64 = d - 128
  BY SMT DEF More
<1>2. Spelled4(a, b, c, d) = cp
  BY <1>1, SMT DEF More, Spelled4
<1>3. cp \in Int
  BY SMT DEF More
<1>4. 65536 <= cp /\ cp <= 1114111 /\ ~Surrogate(cp) <=> Row4(a, b)
  <2>1. /\ a \in Int /\ b \in Int /\ c \in Int /\ d \in Int /\ 240 <= a /\ a <= 247
        /\ 128 <= b /\ b <= 191 /\ 128 <= c /\ c <= 191 /\ 128 <= d /\ d <= 191
    BY SMT DEF More
  <2>2. 65536 <= cp <=> a > 240 \/ b >= 144
    BY <2>1, SMT
  <2>3. cp <= 1114111 <=> a < 244 \/ (a = 244 /\ b <= 143)
    BY <2>1, SMT
  <2> HIDE DEF cp
  <2> QED
    BY <1>3, <2>1, <2>2, <2>3, SMT DEF Surrogate, Row4
<1> HIDE DEF cp
<1>5. InRange(cp, 4) <=> Row4(a, b)
  BY <1>3, <1>4, Ranges, SMT
<1> QED
  BY <1>2, <1>5, SMT

(* One code point of the text, as the reader takes it, and as the standard    *)
(* tabulates it.                                                              *)
Taken(b, i, n) ==
    /\ n = Announced(b[i]) /\ i + n - 1 <= Len(b)
    /\ \A k \in 1..(n - 1) : b[i + k] \div 64 = 2
    /\ InRange(CodePoint(b, i, n), n)
Tabled(b, i, n) == \E row \in Rows :
    n = Len(row) /\ i + Len(row) - 1 <= Len(b) /\ \A k \in DOMAIN row : b[i + k - 1] \in row[k]

(* The table, row by row.                                                     *)
LEMMA TableOfTheStandard ==
  ASSUME NEW b, NEW i \in Nat, NEW n \in 1..4
  PROVE  Tabled(b, i, n) <=>
           /\ i + n - 1 <= Len(b)
           /\ \/ n = 1 /\ b[i] \in 0..127
              \/ n = 2 /\ b[i] \in 194..223 /\ b[i + 1] \in More
              \/ /\ n = 3
                 /\ \/ b[i] = 224 /\ b[i + 1] \in 160..191
                    \/ b[i] \in (225..239) \ {237} /\ b[i + 1] \in More
                    \/ b[i] = 237 /\ b[i + 1] \in 128..159
                 /\ b[i + 2] \in More
              \/ /\ n = 4
                 /\ \/ b[i] = 240 /\ b[i + 1] \in 144..191
                    \/ b[i] \in 241..243 /\ b[i + 1] \in More
                    \/ b[i] = 244 /\ b[i + 1] \in 128..143
                 /\ b[i + 2] \in More /\ b[i + 3] \in More
<1>1. ASSUME NEW A
      PROVE  /\ Len(<<A>>) = 1
             /\ (\A k \in DOMAIN <<A>> : b[i + k - 1] \in <<A>>[k]) <=> b[i] \in A
  <2>1. i + 1 - 1 = i
    OBVIOUS
  <2> QED
    BY <2>1
<1>2. ASSUME NEW A, NEW B
      PROVE  /\ Len(<<A, B>>) = 2
             /\ (\A k \in DOMAIN <<A, B>> : b[i + k - 1] \in <<A, B>>[k])
                   <=> b[i] \in A /\ b[i + 1] \in B
  <2>1. i + 1 - 1 = i /\ i + 2 - 1 = i + 1
    OBVIOUS
  <2> QED
    BY <2>1
<1>3. ASSUME NEW A, NEW B, NEW C
      PROVE  /\ Len(<<A, B, C>>) = 3
             /\ (\A k \in DOMAIN <<A, B, C>> : b[i + k - 1] \in <<A, B, C>>[k])
                   <=> b[i] \in A /\ b[i + 1] \in B /\ b[i + 2] \in C
  <2>1. i + 1 - 1 = i /\ i + 2 - 1 = i + 1 /\ i + 3 - 1 = i + 2
    OBVIOUS
  <2> QED
    BY <2>1
<1>4. ASSUME NEW A, NEW B, NEW C, NEW D
      PROVE  /\ Len(<<A, B, C, D>>) = 4
             /\ (\A k \in DOMAIN <<A, B, C, D>> : b[i + k - 1] \in <<A, B, C, D>>[k])
                   <=> b[i] \in A /\ b[i + 1] \in B /\ b[i + 2] \in C /\ b[i + 3] \in D
  <2>1. i + 1 - 1 = i /\ i + 2 - 1 = i + 1 /\ i + 3 - 1 = i + 2 /\ i + 4 - 1 = i + 3
    OBVIOUS
  <2> QED
    BY <2>1
<1> DEFINE Fits(row) == n = Len(row) /\ i + Len(row) - 1 <= Len(b)
                        /\ \A k \in DOMAIN row : b[i + k - 1] \in row[k]
<1>5. Tabled(b, i, n) <=> \E row \in Rows : Fits(row)
  BY DEF Tabled
<1>6. ASSUME NEW A
      PROVE  Fits(<<A>>) <=> n = 1 /\ i + n - 1 <= Len(b) /\ b[i] \in A
  BY <1>1
<1>7. ASSUME NEW A, NEW B
      PROVE  Fits(<<A, B>>) <=> n = 2 /\ i + n - 1 <= Len(b) /\ b[i] \in A /\ b[i + 1] \in B
  BY <1>2
<1>8. ASSUME NEW A, NEW B
      PROVE  Fits(<<A, B, More>>) <=>
                n = 3 /\ i + n - 1 <= Len(b) /\ b[i] \in A /\ b[i + 1] \in B /\ b[i + 2] \in More
  BY <1>3
<1>9. ASSUME NEW A, NEW B
      PROVE  Fits(<<A, B, More, More>>) <=>
                /\ n = 4 /\ i + n - 1 <= Len(b)
                /\ b[i] \in A /\ b[i + 1] \in B /\ b[i + 2] \in More /\ b[i + 3] \in More
  BY <1>4
<1> HIDE DEF Fits
<1> DEFINE a1 == 0..127      a2 == 194..223
           a3 == {224}       b3 == 160..191
           a4 == (225..239) \ {237}
           a5 == {237}       b5 == 128..159
           a6 == {240}       b6 == 144..191
           a7 == 241..243
           a8 == {244}       b8 == 128..143
<1>10. Rows = {<<a1>>, <<a2, More>>, <<a3, b3, More>>, <<a4, More, More>>, <<a5, b5, More>>,
               <<a6, b6, More, More>>, <<a7, More, More, More>>, <<a8, b8, More, More>>}
  BY Zenon DEF Rows
<1>11. /\ b[i] \in a3 <=> b[i] = 224
       /\ b[i] \in a5 <=> b[i] = 237
       /\ b[i] \in a6 <=> b[i] = 240
       /\ b[i] \in a8 <=> b[i] = 244
  OBVIOUS
<1> HIDE DEF a1, a2, a3, b3, a4, a5, b5, a6, b6, a7, a8, b8
<1>12. (\E row \in Rows : Fits(row)) <=>
        \/ Fits(<<a1>>) \/ Fits(<<a2, More>>)
        \/ Fits(<<a3, b3, More>>) \/ Fits(<<a4, More, More>>) \/ Fits(<<a5, b5, More>>)
        \/ Fits(<<a6, b6, More, More>>) \/ Fits(<<a7, More, More, More>>) \/ Fits(<<a8, b8, More, More>>)
  BY <1>10
<1>13. Tabled(b, i, n) <=>
           /\ i + n - 1 <= Len(b)
           /\ \/ n = 1 /\ b[i] \in a1
              \/ n = 2 /\ b[i] \in a2 /\ b[i + 1] \in More
              \/ /\ n = 3
                 /\ \/ b[i] = 224 /\ b[i + 1] \in b3
                    \/ b[i] \in a4 /\ b[i + 1] \in More
                    \/ b[i] = 237 /\ b[i + 1] \in b5
                 /\ b[i + 2] \in More
              \/ /\ n = 4
                 /\ \/ b[i] = 240 /\ b[i + 1] \in b6
                    \/ b[i] \in a7 /\ b[i + 1] \in More
                    \/ b[i] = 244 /\ b[i + 1] \in b8
                 /\ b[i + 2] \in More /\ b[i + 3] \in More
  BY <1>5, <1>6, <1>7, <1>8, <1>9, <1>11, <1>12, SMTT(30)
<1> QED
  BY <1>13, Zenon DEF a1, a2, b3, a4, b5, b6, a7, b8

(* The reader takes the code points of the table.                             *)
LEMMA TakenAsTabled ==
  ASSUME NEW b \in Seq(Octet), NEW i \in 1..Len(b), NEW n \in 1..4
  PROVE  Taken(b, i, n) <=> Tabled(b, i, n)
<1>1. Len(b) \in Nat /\ i \in Nat /\ b[i] \in Octet
  BY LenProperties, ElementOfSeq
<1>2. ~(i + n - 1 <= Len(b)) => ~Taken(b, i, n) /\ ~Tabled(b, i, n)
  BY <1>1, TableOfTheStandard DEF Taken
<1> SUFFICES ASSUME i + n - 1 <= Len(b) PROVE Taken(b, i, n) <=> Tabled(b, i, n)
  BY <1>2
<1>3. \A k \in 1..(n - 1) : b[i + k] \in Octet /\ (b[i + k] \div 64 = 2 <=> b[i + k] \in More)
  <2> TAKE k \in 1..(n - 1)
  <2>1. i + k \in 1..Len(b)
    BY <1>1
  <2>2. b[i + k] \in Octet
    BY <2>1, ElementOfSeq
  <2> QED
    BY <2>2, FirstBytes
<1> DEFINE cp == CodePoint(b, i, n)
<1>4. Taken(b, i, n) <=> n = Announced(b[i]) /\ InRange(cp, n) /\ \A k \in 1..(n - 1) : b[i + k] \in More
  BY <1>3 DEF Taken
<1>5. CASE n = 1
  <2>1. cp = b[i] % 128
    BY <1>5, CodePoints
  <2>2. n = Announced(b[i]) <=> b[i] \in 0..127
    BY <1>1, <1>5, FirstBytes
  <2>3. b[i] \in 0..127 => InRange(cp, 1)
    <3> SUFFICES ASSUME b[i] \in 0..127 PROVE InRange(cp, 1)
      OBVIOUS
    <3> HIDE DEF cp
    <3>1. cp \in Int /\ 0 <= cp /\ cp <= 127
      <4>1. \A c \in 0..127 : c % 128 \in Int /\ 0 <= c % 128 /\ c % 128 <= 127
        OBVIOUS
      <4> QED
        BY <2>1, <4>1, Zenon
    <3> QED
      BY <3>1, Ranges, SMT DEF Surrogate
  <2>4. Taken(b, i, n) <=> b[i] \in 0..127
    <3> HIDE DEF cp
    <3> QED
      BY <1>4, <1>5, <2>2, <2>3
  <2>5. Tabled(b, i, n) <=> b[i] \in 0..127
    BY <1>1, <1>5, TableOfTheStandard
  <2> QED
    BY <2>4, <2>5
<1>6. CASE n = 2
  <2>1. cp = Spelled2(b[i], b[i + 1])
    BY <1>6, CodePoints
  <2> HIDE DEF cp
  <2>2. Taken(b, i, n) <=> b[i] \in 192..223 /\ b[i + 1] \in More /\ InRange(cp, 2)
    BY <1>1, <1>4, <1>6, FirstBytes
  <2>3. b[i] \in 192..223 /\ b[i + 1] \in More => (InRange(cp, 2) <=> b[i] \in 194..223)
    <3>1. ASSUME b[i] \in 192..223, b[i + 1] \in More
          PROVE  InRange(Spelled2(b[i], b[i + 1]), 2) <=> b[i] \in 194..223
      <4> DEFINE S == 192..223
                 T == 194..223
      <4>1. \A x \in S, y \in More : InRange(Spelled2(x, y), 2) <=> x \in T
        BY TwoBytes
      <4>2. b[i] \in S /\ b[i + 1] \in More
        BY <3>1
      <4> HIDE DEF S, T
      <4>3. InRange(Spelled2(b[i], b[i + 1]), 2) <=> b[i] \in T
        BY <4>1, <4>2, Zenon
      <4> QED
        BY <4>3 DEF T
    <3> QED
      BY <2>1, <3>1, Zenon
  <2>4. Tabled(b, i, n) <=> b[i] \in 194..223 /\ b[i + 1] \in More
    BY <1>1, <1>6, TableOfTheStandard
  <2>5. b[i] \in 194..223 => b[i] \in 192..223
    OBVIOUS
  <2> QED
    BY <2>2, <2>3, <2>4, <2>5
<1>7. CASE n = 3
  <2>1. cp = Spelled3(b[i], b[i + 1], b[i + 2])
    BY <1>7, CodePoints
  <2> HIDE DEF cp
  <2>2. Taken(b, i, n) <=> b[i] \in 224..239 /\ b[i + 1] \in More /\ b[i + 2] \in More /\ InRange(cp, 3)
    <3>1. (\A k \in 1..(n - 1) : b[i + k] \in More) <=> b[i + 1] \in More /\ b[i + 2] \in More
      BY <1>7
    <3> QED
      BY <1>1, <1>4, <1>7, <3>1, FirstBytes
  <2>3. b[i] \in 224..239 /\ b[i + 1] \in More /\ b[i + 2] \in More =>
           (InRange(cp, 3) <=> Row3(b[i], b[i + 1]))
    <3>1. ASSUME b[i] \in 224..239, b[i + 1] \in More, b[i + 2] \in More
          PROVE  InRange(Spelled3(b[i], b[i + 1], b[i + 2]), 3) <=> Row3(b[i], b[i + 1])
      BY <3>1, ThreeBytes
    <3> QED
      BY <2>1, <3>1, Zenon
  <2>4. Tabled(b, i, n) <=>
           /\ \/ b[i] = 224 /\ b[i + 1] \in 160..191
              \/ b[i] \in (225..239) \ {237} /\ b[i + 1] \in More
              \/ b[i] = 237 /\ b[i + 1] \in 128..159
           /\ b[i + 2] \in More
    BY <1>1, <1>7, TableOfTheStandard
  <2>5. Tabled(b, i, n) <=> b[i] \in 224..239 /\ b[i + 1] \in More /\ b[i + 2] \in More /\ Row3(b[i], b[i + 1])
    BY <1>1, <2>4, SMT DEF More, Row3
  <2> QED
    BY <2>2, <2>3, <2>5
<1>8. CASE n = 4
  <2>1. cp = Spelled4(b[i], b[i + 1], b[i + 2], b[i + 3])
    BY <1>8, CodePoints
  <2> HIDE DEF cp
  <2> DEFINE more == b[i + 1] \in More /\ b[i + 2] \in More /\ b[i + 3] \in More
  <2>2. Taken(b, i, n) <=> b[i] \in 240..247 /\ more /\ InRange(cp, 4)
    <3>1. (\A k \in 1..(n - 1) : b[i + k] \in More) <=> more
      BY <1>8
    <3> HIDE DEF more
    <3> QED
      BY <1>1, <1>4, <1>8, <3>1, FirstBytes
  <2>3. b[i] \in 240..247 /\ more => (InRange(cp, 4) <=> Row4(b[i], b[i + 1]))
    <3>1. ASSUME b[i] \in 240..247, b[i + 1] \in More, b[i + 2] \in More, b[i + 3] \in More
          PROVE  InRange(Spelled4(b[i], b[i + 1], b[i + 2], b[i + 3]), 4) <=> Row4(b[i], b[i + 1])
      BY <3>1, FourBytes
    <3> QED
      BY <2>1, <3>1, Zenon
  <2>4. Tabled(b, i, n) <=>
           /\ \/ b[i] = 240 /\ b[i + 1] \in 144..191
              \/ b[i] \in 241..243 /\ b[i + 1] \in More
              \/ b[i] = 244 /\ b[i + 1] \in 128..143
           /\ b[i + 2] \in More /\ b[i + 3] \in More
    BY <1>1, <1>8, TableOfTheStandard
  <2>5. Tabled(b, i, n) <=> b[i] \in 240..247 /\ more /\ Row4(b[i], b[i + 1])
    BY <1>1, <2>4, SMT DEF More, Row4
  <2> HIDE DEF more
  <2> QED
    BY <2>2, <2>3, <2>5
<1> QED
  BY <1>5, <1>6, <1>7, <1>8

(* The reader and the table go through the text alike, from any place.        *)
LEMMA StepsAlike ==
  ASSUME NEW b \in Seq(Octet), NEW i \in 1..(Len(b) + 1), NEW f
  PROVE  (\/ i = Len(b) + 1
          \/ LET n == Announced(b[i])
             IN  /\ n > 0 /\ i + n - 1 <= Len(b)
                 /\ \A k \in 1..(n - 1) : b[i + k] \div 64 = 2
                 /\ InRange(CodePoint(b, i, n), n)
                 /\ f[i + n])
         <=>
         (\/ i = Len(b) + 1
          \/ \E row \in Rows :
                /\ i + Len(row) - 1 <= Len(b)
                /\ \A k \in DOMAIN row : b[i + k - 1] \in row[k]
                /\ f[i + Len(row)])
<1> DEFINE Takes == LET n == Announced(b[i])
                    IN  /\ n > 0 /\ i + n - 1 <= Len(b)
                        /\ \A k \in 1..(n - 1) : b[i + k] \div 64 = 2
                        /\ InRange(CodePoint(b, i, n), n)
                        /\ f[i + n]
           Finds == \E row \in Rows :
                        /\ i + Len(row) - 1 <= Len(b)
                        /\ \A k \in DOMAIN row : b[i + k - 1] \in row[k]
                        /\ f[i + Len(row)]
<1>1. Len(b) \in Nat
  BY LenProperties
<1> SUFFICES ASSUME i # Len(b) + 1 PROVE Takes <=> Finds
  OBVIOUS
<1>2. i \in 1..Len(b) /\ b[i] \in Octet
  BY <1>1, ElementOfSeq
<1>3. Takes <=> \E n \in 1..4 : Taken(b, i, n) /\ f[i + n]
  <2>1. Announced(b[i]) \in 0..4
    BY <1>2, FirstBytes
  <2>2. Announced(b[i]) > 0 <=> Announced(b[i]) \in 1..4
    BY <2>1
  <2> QED
    BY <2>2, Zenon DEF Taken
<1>4. Finds <=> \E n \in 1..4 : Tabled(b, i, n) /\ f[i + n]
  <2>1. \A row \in Rows : Len(row) \in 1..4
    BY DEF Rows
  <2> QED
    BY <2>1, Zenon DEF Tabled
<1> HIDE DEF Takes, Finds
<1> QED
  BY <1>2, <1>3, <1>4, TakenAsTabled

(* validUTF8 takes the well-formed texts and no others, of whatever length.   *)
THEOREM ValidIsWellFormed ==
  ASSUME NEW b \in Seq(Octet)
  PROVE  ValidUTF8(b) = WellFormed(b)
<1> DEFINE Takes(f, i) ==
              \/ i = Len(b) + 1
              \/ LET n == Announced(b[i])
                 IN  /\ n > 0 /\ i + n - 1 <= Len(b)
                     /\ \A k \in 1..(n - 1) : b[i + k] \div 64 = 2
                     /\ InRange(CodePoint(b, i, n), n)
                     /\ f[i + n]
           Finds(f, i) ==
              \/ i = Len(b) + 1
              \/ \E row \in Rows :
                    /\ i + Len(row) - 1 <= Len(b)
                    /\ \A k \in DOMAIN row : b[i + k - 1] \in row[k]
                    /\ f[i + Len(row)]
           valid == CHOOSE f : f = [i \in 1..(Len(b) + 1) |-> Takes(f, i)]
           from  == CHOOSE f : f = [i \in 1..(Len(b) + 1) |-> Finds(f, i)]
<1>1. ASSUME NEW f, NEW i \in 1..(Len(b) + 1) PROVE Takes(f, i) = Finds(f, i)
  <2>1. Takes(f, i) <=> Finds(f, i)
    BY StepsAlike
  <2>2. Takes(f, i) \in BOOLEAN /\ Finds(f, i) \in BOOLEAN
    OBVIOUS
  <2> HIDE DEF Takes, Finds
  <2> QED
    BY <2>1, <2>2
<1>2. ValidUTF8(b) = valid[1] /\ WellFormed(b) = from[1]
  BY DEF ValidUTF8, WellFormed
<1>3. valid = from
  <2> HIDE DEF Takes, Finds
  <2>1. \A f : [i \in 1..(Len(b) + 1) |-> Takes(f, i)] = [i \in 1..(Len(b) + 1) |-> Finds(f, i)]
    BY <1>1
  <2> QED
    BY <2>1
<1> HIDE DEF valid, from
<1> QED
  BY <1>2, <1>3

(* So does the reader in every state.                                         *)
THEOREM WellFormedTextIsTaken == CodecSpec => []TakesWellFormedText
<1>1. CodecTypeOK => TakesWellFormedText
  BY ValidIsWellFormed DEF CodecTypeOK, TakesWellFormedText
<1> QED
  BY <1>1, CodecTypes, PTL

--------------------------------------------------------------------------------
(* A set of numbers has a least one.                                          *)
LEMMA Least ==
  ASSUME NEW R \in SUBSET Nat, R # {}
  PROVE  \E m \in R : \A k \in R : m <= k
<1>1. PICK m \in R : \A k \in R : ~(<<k, m>> \in OpToRel(<, Nat))
  BY WFMin, NatLessThanWellFounded
<1>2. \A k \in R : ~(k < m)
  BY <1>1 DEF OpToRel
<1> QED
  BY <1>2

(* A loop from base over 1..size has a value after every round.               *)
Loop(S, size) == [1..size -> [S -> S]]
Run(f, S, base, size, step) ==
    f \in [0..size -> S] /\ f[0] = base /\ \A i \in 1..size : f[i] = step[i][f[i - 1]]

LEMMA Iterates ==
  ASSUME NEW S, NEW base \in S, NEW size \in Nat, NEW step \in Loop(S, size)
  PROVE  \E f : Run(f, S, base, size, step)
<1> USE DEF Loop
<1> DEFINE Rounds(f, k) == Run(f, S, base, k, step)
           R == {k \in 0..size : \A f : ~Rounds(f, k)}
<1> USE DEF Run
<1>1. ASSUME NEW k \in 0..size, k = 0 \/ k - 1 \notin R PROVE k \notin R
  <2>1. CASE k = 0
    <3>1. Rounds([i \in 0..0 |-> base], 0)
      OBVIOUS
    <3> QED
      BY <2>1, <3>1
  <2>2. CASE k # 0
    <3>1. k - 1 \in 0..size /\ k \in 1..size
      BY <2>2
    <3>2. PICK f : Rounds(f, k - 1)
      BY <1>1, <2>2, <3>1
    <3> DEFINE g == [i \in 0..k |-> IF i = k THEN step[k][f[k - 1]] ELSE f[i]]
    <3>3. f[k - 1] \in S /\ step[k][f[k - 1]] \in S
      BY <3>1, <3>2
    <3>4. g \in [0..k -> S] /\ g[0] = base
      BY <3>1, <3>2, <3>3
    <3>5. ASSUME NEW i \in 1..k PROVE g[i] = step[i][g[i - 1]]
      <4>1. CASE i = k
        <5>1. k \in 0..k /\ k - 1 \in 0..k /\ k - 1 # k
          BY <3>1
        <5> QED
          BY <4>1, <5>1
      <4>2. CASE i # k
        <5>1. i \in 0..k /\ i - 1 \in 0..k /\ i \in 1..(k - 1) /\ i - 1 # k
          BY <3>1, <4>2
        <5> QED
          BY <3>2, <4>2, <5>1
      <4> QED
        BY <4>1, <4>2
    <3>6. Rounds(g, k)
      BY <3>4, <3>5
    <3> HIDE DEF g, Rounds
    <3> QED
      BY <3>6
  <2> QED
    BY <2>1, <2>2
<1> HIDE DEF Rounds
<1>2. R = {}
  <2>1. R \subseteq 0..size
    OBVIOUS
  <2> HIDE DEF R
  <2> SUFFICES ASSUME R # {} PROVE FALSE
    OBVIOUS
  <2>2. PICK k \in R : \A j \in R : k <= j
    BY <2>1, Least
  <2>3. k \in 0..size /\ k - 1 \notin R
    BY <2>1, <2>2
  <2> QED
    BY <1>1, <2>3
<1>3. \E f : Rounds(f, size)
  <2> HIDE DEF R
  <2>1. size \in 0..size /\ size \notin R
    BY <1>2
  <2> QED
    BY <2>1 DEF R
<1> QED
  BY <1>3 DEF Rounds

--------------------------------------------------------------------------------
(* Four digits are a number of sixteen bits.                                  *)
LEMMA HexIsANumber ==
  ASSUME NEW d \in [1..4 -> 0..15 \cup {Junk}], AllHex(d)
  PROVE  Hex4(d) \in Nat /\ Hex4(d) <= 65535
<1> DEFINE u == d[1]  v == d[2]  w == d[3]  x == d[4]
<1>1. u \in 0..15 /\ v \in 0..15 /\ w \in 0..15 /\ x \in 0..15
  BY DEF AllHex
<1>2. Hex4(d) = u * 4096 + v * 256 + w * 16 + x
  BY DEF Hex4
<1> HIDE DEF u, v, w, x
<1>3. /\ u \in Nat /\ v \in Nat /\ w \in Nat /\ x \in Nat
      /\ u <= 15 /\ v <= 15 /\ w <= 15 /\ x <= 15
  BY <1>1, SMT
<1> QED
  BY <1>2, <1>3, SMT

(* A code point is put at the end, in bytes.                                  *)
CodeSpace == {cp \in Nat : cp <= 1114111}

LEMMA RuneIsAppended ==
  ASSUME NEW out \in Seq(Octet), NEW cp \in CodeSpace
  PROVE  /\ AppendRune(<<>>, cp) \in Seq(Octet)
         /\ AppendRune(out, cp) \in Seq(Octet)
         /\ AppendRune(out, cp) = out \o AppendRune(<<>>, cp)
<1> DEFINE tail(place) == 128 + ((cp \div place) % 64)
           rune == IF cp < 128 THEN <<cp>>
                   ELSE IF cp < 2048 THEN <<192 + cp \div 64, tail(1)>>
                   ELSE IF cp < 65536 THEN <<224 + cp \div 4096, tail(64), tail(1)>>
                   ELSE <<240 + cp \div 262144, tail(4096), tail(64), tail(1)>>
<1>0. cp \in Nat /\ cp <= 1114111
  BY SMT DEF CodeSpace
<1>1. tail(1) \in Octet /\ tail(64) \in Octet /\ tail(4096) \in Octet
  BY <1>0, SMT DEF Octet
<1>2. /\ cp < 128 => cp \in Octet
      /\ cp < 2048 => 192 + cp \div 64 \in Octet
      /\ cp < 65536 => 224 + cp \div 4096 \in Octet
      /\ 240 + cp \div 262144 \in Octet
  <2>1. cp < 128 => cp \in Octet
    BY <1>0, SMT DEF Octet
  <2>2. cp < 2048 => 192 + cp \div 64 \in Octet
    BY <1>0, SMT DEF Octet
  <2>3. cp < 65536 => 224 + cp \div 4096 \in Octet
    BY <1>0, SMT DEF Octet
  <2>4. cp \div 262144 \in Nat /\ cp \div 262144 <= 4
    BY <1>0, SMT
  <2>5. 240 + cp \div 262144 \in Octet
    <3> DEFINE q == cp \div 262144
    <3>1. q \in Nat /\ q <= 4
      BY <2>4, SMT
    <3> HIDE DEF q
    <3>2. 240 + q \in Octet
      BY <3>1, SMT DEF Octet
    <3> QED
      BY <3>2, SMT DEF q
  <2> QED
    BY <2>1, <2>2, <2>3, <2>5, SMT
<1>3. AppendRune(<<>>, cp) = <<>> \o rune /\ AppendRune(out, cp) = out \o rune
  BY SMT DEF AppendRune
<1>4. rune \in Seq(Octet)
  <2> HIDE DEF tail
  <2>1. cp < 128 => <<cp>> \in Seq(Octet)
    BY <1>2, SMT
  <2>2. cp < 2048 => <<192 + cp \div 64, tail(1)>> \in Seq(Octet)
    BY <1>1, <1>2, SMT
  <2>3. cp < 65536 => <<224 + cp \div 4096, tail(64), tail(1)>> \in Seq(Octet)
    BY <1>1, <1>2, SMT
  <2>4. <<240 + cp \div 262144, tail(4096), tail(64), tail(1)>> \in Seq(Octet)
    BY <1>1, <1>2, SMT
  <2> QED
    BY <2>1, <2>2, <2>3, <2>4, SMT
<1> HIDE DEF rune
<1> QED
  BY <1>3, <1>4, ConcatEmptySeq, ConcatProperties, SMT

(* The code point that all the bytes of a sequence spell.                     *)
LEMMA WholeCodePoints ==
  ASSUME NEW b \in Seq(Octet), NEW n \in 1..4, n = Len(b)
  PROVE  /\ n = 1 => CodePoint(b, 1, n) = b[1] % 128
         /\ n = 2 => CodePoint(b, 1, n) = Spelled2(b[1], b[2])
         /\ n = 3 => CodePoint(b, 1, n) = Spelled3(b[1], b[2], b[3])
         /\ n = 4 => CodePoint(b, 1, n) = Spelled4(b[1], b[2], b[3], b[4])
<1>1. 1 \in 1..Len(b) /\ 1 + n - 1 <= Len(b)
  OBVIOUS
<1>2. 1 + 1 = 2 /\ 1 + 2 = 3 /\ 1 + 3 = 4
  OBVIOUS
<1>3. CodePoint(b, 1, n) =
           CASE n = 1 -> b[1] % 128
             [] n = 2 -> Spelled2(b[1], b[1 + 1])
             [] n = 3 -> Spelled3(b[1], b[1 + 1], b[1 + 2])
             [] n = 4 -> Spelled4(b[1], b[1 + 1], b[1 + 2], b[1 + 3])
  BY <1>1, CodePoints, Zenon
<1>4. CASE n = 1
  BY <1>3, <1>4
<1>5. CASE n = 2
  BY <1>2, <1>3, <1>5
<1>6. CASE n = 3
  BY <1>2, <1>3, <1>6
<1>7. CASE n = 4
  BY <1>2, <1>3, <1>7
<1> QED
  BY <1>4, <1>5, <1>6, <1>7

(* The two, three and four bytes of a code point: they are those of a row of  *)
(* the table, and spell it.                                                   *)
LEMMA Rune2 ==
  ASSUME NEW cp \in Nat, 128 <= cp, cp < 2048
  PROVE  /\ 192 + cp \div 64 \in 194..223
         /\ 128 + (cp % 64) \in More
         /\ Spelled2(192 + cp \div 64, 128 + (cp % 64)) = cp
<1> DEFINE q == cp \div 64
           r == cp % 64
<1>1. q \in Nat /\ r \in 0..63 /\ cp = q * 64 + r
  BY SMT
<1> HIDE DEF q, r
<1>2. q \in 2..31
  BY <1>1, SMT
<1>3. (192 + q) % 32 = q /\ (128 + r) % 64 = r
  BY <1>1, <1>2, SMT
<1>4. Spelled2(192 + q, 128 + r) = cp
  BY <1>1, <1>3, SMT DEF Spelled2
<1>5. 192 + q \in 194..223 /\ 128 + r \in More
  BY <1>1, <1>2, SMT DEF More
<1> QED
  BY <1>4, <1>5 DEF q, r

LEMMA Rune3 ==
  ASSUME NEW cp \in Nat, 2048 <= cp, cp < 65536, ~Surrogate(cp)
  PROVE  LET a == 224 + cp \div 4096
             b == 128 + ((cp \div 64) % 64)
             c == 128 + (cp % 64)
         IN  /\ \/ a = 224 /\ b \in 160..191
                \/ a \in (225..239) \ {237} /\ b \in More
                \/ a = 237 /\ b \in 128..159
             /\ c \in More
             /\ Spelled3(a, b, c) = cp
<1> DEFINE p == cp \div 4096
           q == (cp \div 64) % 64
           r == cp % 64
<1>1. p \in Nat /\ q \in 0..63 /\ r \in 0..63 /\ cp = (p * 64 + q) * 64 + r
  BY SMT
<1> HIDE DEF p, q, r
<1>2. p \in 0..15 /\ (p = 0 => q >= 32) /\ (p = 13 => q < 32)
  BY <1>1, SMT DEF Surrogate
<1>3. (224 + p) % 16 = p /\ (128 + q) % 64 = q /\ (128 + r) % 64 = r
  BY <1>1, <1>2, SMT
<1>4. Spelled3(224 + p, 128 + q, 128 + r) = cp
  BY <1>1, <1>3, SMT DEF Spelled3
<1>5. /\ \/ 224 + p = 224 /\ 128 + q \in 160..191
         \/ 224 + p \in (225..239) \ {237} /\ 128 + q \in More
         \/ 224 + p = 237 /\ 128 + q \in 128..159
      /\ 128 + r \in More
  BY <1>1, <1>2, SMT DEF More
<1> QED
  BY <1>4, <1>5, SMT DEF p, q, r

LEMMA Rune4 ==
  ASSUME NEW cp \in CodeSpace, 65536 <= cp
  PROVE  LET a == 240 + cp \div 262144
             b == 128 + ((cp \div 4096) % 64)
             c == 128 + ((cp \div 64) % 64)
             d == 128 + (cp % 64)
         IN  /\ \/ a = 240 /\ b \in 144..191
                \/ a \in 241..243 /\ b \in More
                \/ a = 244 /\ b \in 128..143
             /\ c \in More /\ d \in More
             /\ Spelled4(a, b, c, d) = cp
<1> DEFINE o == cp \div 262144
           p == (cp \div 4096) % 64
           q == (cp \div 64) % 64
           r == cp % 64
<1>0. cp \in Nat /\ cp <= 1114111
  BY SMT DEF CodeSpace
<1>1. /\ o \in Nat /\ p \in 0..63 /\ q \in 0..63 /\ r \in 0..63
      /\ cp = ((o * 64 + p) * 64 + q) * 64 + r
  BY <1>0, SMT
<1> HIDE DEF o, p, q, r
<1>2. o \in 0..4 /\ (o = 0 => p >= 16) /\ (o = 4 => p < 16)
  BY <1>0, <1>1, SMT
<1>3. (240 + o) % 8 = o /\ (128 + p) % 64 = p /\ (128 + q) % 64 = q /\ (128 + r) % 64 = r
  BY <1>1, <1>2, SMT
<1>4. Spelled4(240 + o, 128 + p, 128 + q, 128 + r) = cp
  BY <1>1, <1>3, SMT DEF Spelled4
<1>5. /\ \/ 240 + o = 240 /\ 128 + p \in 144..191
         \/ 240 + o \in 241..243 /\ 128 + p \in More
         \/ 240 + o = 244 /\ 128 + p \in 128..143
      /\ 128 + q \in More /\ 128 + r \in More
  BY <1>1, <1>2, SMT DEF More
<1> QED
  BY <1>4, <1>5, SMT DEF o, p, q, r

(* Bytes that are a row of the table, of any length and of each.              *)
LEMMA RowFits ==
  ASSUME NEW row \in Rows, NEW b, NEW n \in Nat, n = Len(row), n = Len(b),
         \A k \in DOMAIN row : k \in Nat /\ b[k] \in row[k]
  PROVE  Tabled(b, 1, n)
<1>1. \A k \in DOMAIN row : b[1 + k - 1] \in row[k]
  <2>1. \A k \in Nat : 1 + k - 1 = k
    OBVIOUS
  <2> QED
    BY <2>1
<1>2. 1 + n - 1 <= n
  OBVIOUS
<1> QED
  BY <1>1, <1>2 DEF Tabled

LEMMA OneFits ==
  ASSUME NEW A, <<A>> \in Rows,
         NEW w \in A
  PROVE  Tabled(<<w>>, 1, 1)
<1>1. /\ Len(<<A>>) = 1 /\ Len(<<w>>) = 1
      /\ \A k \in DOMAIN <<A>> : k \in Nat /\ <<w>>[k] \in <<A>>[k]
  OBVIOUS
<1> QED
  BY <1>1, RowFits

LEMMA TwoFit ==
  ASSUME NEW A, NEW B, <<A, B>> \in Rows,
         NEW w \in A, NEW x \in B
  PROVE  Tabled(<<w, x>>, 1, 2)
<1>1. /\ Len(<<A, B>>) = 2 /\ Len(<<w, x>>) = 2
      /\ \A k \in DOMAIN <<A, B>> : k \in Nat /\ <<w, x>>[k] \in <<A, B>>[k]
  OBVIOUS
<1> QED
  BY <1>1, RowFits

LEMMA ThreeFit ==
  ASSUME NEW A, NEW B, NEW C, <<A, B, C>> \in Rows,
         NEW w \in A, NEW x \in B, NEW y \in C
  PROVE  Tabled(<<w, x, y>>, 1, 3)
<1>1. /\ Len(<<A, B, C>>) = 3 /\ Len(<<w, x, y>>) = 3
      /\ \A k \in DOMAIN <<A, B, C>> : k \in Nat /\ <<w, x, y>>[k] \in <<A, B, C>>[k]
  OBVIOUS
<1> QED
  BY <1>1, RowFits

LEMMA FourFit ==
  ASSUME NEW A, NEW B, NEW C, NEW D, <<A, B, C, D>> \in Rows,
         NEW w \in A, NEW x \in B, NEW y \in C, NEW z \in D
  PROVE  Tabled(<<w, x, y, z>>, 1, 4)
<1>1. /\ Len(<<A, B, C, D>>) = 4 /\ Len(<<w, x, y, z>>) = 4
      /\ \A k \in DOMAIN <<A, B, C, D>> : k \in Nat /\ <<w, x, y, z>>[k] \in <<A, B, C, D>>[k]
  OBVIOUS
<1> QED
  BY <1>1, RowFits

(* The rows, one by one.                                                      *)
LEMMA RowByRow ==
  /\ <<0..127>> \in Rows /\ <<194..223, More>> \in Rows
  /\ <<{224}, 160..191, More>> \in Rows /\ <<(225..239) \ {237}, More, More>> \in Rows
  /\ <<{237}, 128..159, More>> \in Rows
  /\ <<{240}, 144..191, More, More>> \in Rows /\ <<241..243, More, More, More>> \in Rows
  /\ <<{244}, 128..143, More, More>> \in Rows
BY DEF Rows

(* Nothing before a few elements.                                             *)
LEMMA NothingBefore ==
  ASSUME NEW w, NEW x, NEW y, NEW z
  PROVE  /\ <<>> \o <<w>> = <<w>>
         /\ <<>> \o <<w, x>> = <<w, x>>
         /\ <<>> \o <<w, x, y>> = <<w, x, y>>
         /\ <<>> \o <<w, x, y, z>> = <<w, x, y, z>>
<1> DEFINE A == {w, x, y, z}
<1>1. <<w>> \in Seq(A) /\ <<w, x>> \in Seq(A) /\ <<w, x, y>> \in Seq(A)
      /\ <<w, x, y, z>> \in Seq(A)
  OBVIOUS
<1> HIDE DEF A
<1> QED
  BY <1>1, ConcatEmptySeq

(* What is appended for a code point of each length.                          *)
LEMMA RuneOfLength ==
  ASSUME NEW cp \in Nat
  PROVE  LET c == 128 + (cp % 64)
             d == 128 + ((cp \div 64) % 64)
             e == 128 + ((cp \div 4096) % 64)
         IN  /\ cp < 128 => AppendRune(<<>>, cp) = <<cp>>
             /\ 128 <= cp /\ cp < 2048 => AppendRune(<<>>, cp) = <<192 + cp \div 64, c>>
             /\ 2048 <= cp /\ cp < 65536 => AppendRune(<<>>, cp) = <<224 + cp \div 4096, d, c>>
             /\ 65536 <= cp => AppendRune(<<>>, cp) = <<240 + cp \div 262144, e, d, c>>
<1> DEFINE tail(place) == 128 + ((cp \div place) % 64)
           one   == <<cp>>
           two   == <<192 + cp \div 64, tail(1)>>
           three == <<224 + cp \div 4096, tail(64), tail(1)>>
           four  == <<240 + cp \div 262144, tail(4096), tail(64), tail(1)>>
<1>1. AppendRune(<<>>, cp) = <<>> \o (IF cp < 128 THEN one ELSE IF cp < 2048 THEN two
                                       ELSE IF cp < 65536 THEN three ELSE four)
  BY SMT DEF AppendRune
<1>2. <<>> \o one = one /\ <<>> \o two = two /\ <<>> \o three = three /\ <<>> \o four = four
  <2>1. ASSUME NEW w, NEW x, NEW y, NEW z
        PROVE  /\ <<>> \o <<w>> = <<w>>
               /\ <<>> \o <<w, x>> = <<w, x>>
               /\ <<>> \o <<w, x, y>> = <<w, x, y>>
               /\ <<>> \o <<w, x, y, z>> = <<w, x, y, z>>
    BY NothingBefore
  <2> QED
    BY <2>1, SMT
<1>3. cp \div 1 = cp
  BY SMT
<1>4. tail(1) = 128 + (cp % 64)
  BY <1>3, SMT
<1> HIDE DEF one, two, three, four
<1>5. /\ cp < 128 => AppendRune(<<>>, cp) = one
      /\ 128 <= cp /\ cp < 2048 => AppendRune(<<>>, cp) = two
      /\ 2048 <= cp /\ cp < 65536 => AppendRune(<<>>, cp) = three
      /\ 65536 <= cp => AppendRune(<<>>, cp) = four
  BY <1>1, <1>2, SMT
<1> HIDE DEF tail
<1>6. /\ two = <<192 + cp \div 64, 128 + (cp % 64)>>
      /\ three = <<224 + cp \div 4096, tail(64), 128 + (cp % 64)>>
      /\ four = <<240 + cp \div 262144, tail(4096), tail(64), 128 + (cp % 64)>>
  BY <1>4, SMT DEF two, three, four
<1> QED
  BY <1>5, <1>6, SMT DEF one, tail

(* The bytes that the reader appends for a code point, surrogates apart, are  *)
(* a row of the standard's table, and spell that code point again: appendRune *)
(* and validUTF8 have one UTF-8.                                              *)
THEOREM RunesAreTabled ==
  ASSUME NEW cp \in CodeSpace, ~Surrogate(cp), NEW b, b = AppendRune(<<>>, cp)
  PROVE  Tabled(b, 1, Len(b)) /\ CodePoint(b, 1, Len(b)) = cp
<1>1. cp \in Nat
  BY SMT DEF CodeSpace
<1>2. b \in Seq(Octet)
  <2>1. <<>> \in Seq(Octet)
    OBVIOUS
  <2>2. AppendRune(<<>>, cp) \in Seq(Octet)
    BY <2>1, RuneIsAppended, Zenon
  <2> QED
    BY <2>2
<1>3. CASE cp < 128
  <2>1. b = <<cp>>
    BY <1>1, <1>3, RuneOfLength, SMT
  <2>2. cp % 128 = cp /\ cp \in 0..127
    BY <1>1, <1>3, SMT
  <2>3. Len(b) = 1 /\ b[1] = cp
    BY <2>1
  <2>4. CodePoint(b, 1, 1) = cp
    BY <1>2, <2>2, <2>3, WholeCodePoints
  <2>5. Tabled(b, 1, 1)
    <3>1. Tabled(<<cp>>, 1, 1)
      <4> DEFINE S == 0..127
      <4>1. <<S>> \in Rows /\ cp \in S
        BY <2>2, RowByRow
      <4> HIDE DEF S
      <4> QED
        BY <4>1, OneFits
    <3> QED
      BY <2>1, <3>1
  <2> QED
    BY <2>3, <2>4, <2>5
<1>4. CASE 128 <= cp /\ cp < 2048
  <2> DEFINE a == 192 + cp \div 64
             c == 128 + (cp % 64)
  <2>1. b = <<a, c>>
    BY <1>1, <1>4, RuneOfLength, SMT
  <2>2. a \in 194..223 /\ c \in More /\ Spelled2(a, c) = cp
    BY <1>1, <1>4, Rune2
  <2> HIDE DEF a, c
  <2>3. Len(b) = 2 /\ b[1] = a /\ b[2] = c
    BY <2>1
  <2>4. CodePoint(b, 1, 2) = cp
    BY <1>2, <2>2, <2>3, WholeCodePoints
  <2>5. Tabled(b, 1, 2)
    <3>1. Tabled(<<a, c>>, 1, 2)
      <4> DEFINE S == 194..223
      <4>1. <<S, More>> \in Rows /\ a \in S
        BY <2>2, RowByRow
      <4> HIDE DEF S
      <4> QED
        BY <2>2, <4>1, TwoFit
    <3> QED
      BY <2>1, <3>1
  <2> QED
    BY <2>3, <2>4, <2>5
<1>5. CASE 2048 <= cp /\ cp < 65536
  <2> DEFINE a == 224 + cp \div 4096
             d == 128 + ((cp \div 64) % 64)
             c == 128 + (cp % 64)
  <2>1. b = <<a, d, c>>
    BY <1>1, <1>5, RuneOfLength, SMT
  <2>2. /\ \/ a = 224 /\ d \in 160..191
           \/ a \in (225..239) \ {237} /\ d \in More
           \/ a = 237 /\ d \in 128..159
        /\ c \in More
        /\ Spelled3(a, d, c) = cp
    BY <1>1, <1>5, Rune3, SMT
  <2> HIDE DEF a, d, c
  <2>3. Len(b) = 3 /\ b[1] = a /\ b[2] = d /\ b[3] = c
    BY <2>1
  <2>4. CodePoint(b, 1, 3) = cp
    BY <1>2, <2>2, <2>3, WholeCodePoints
  <2>5. Tabled(b, 1, 3)
    <3>1. ASSUME NEW A, NEW B, <<A, B, More>> \in Rows, a \in A, d \in B
          PROVE  Tabled(b, 1, 3)
      <4>1. Tabled(<<a, d, c>>, 1, 3)
        BY <2>2, <3>1, ThreeFit
      <4> QED
        BY <2>1, <4>1
    <3>2. CASE a \in {224} /\ d \in 160..191
      <4> DEFINE S == {224}
                 T == 160..191
      <4>1. <<S, T, More>> \in Rows /\ a \in S /\ d \in T
        BY <3>2, RowByRow
      <4> HIDE DEF S, T
      <4> QED
        BY <3>1, <4>1
    <3>3. CASE a \in (225..239) \ {237} /\ d \in More
      <4> DEFINE S == (225..239) \ {237}
                 T == More
      <4>1. <<S, T, More>> \in Rows /\ a \in S /\ d \in T
        BY <3>3, RowByRow
      <4> HIDE DEF S, T
      <4> QED
        BY <3>1, <4>1
    <3>4. CASE a \in {237} /\ d \in 128..159
      <4> DEFINE S == {237}
                 T == 128..159
      <4>1. <<S, T, More>> \in Rows /\ a \in S /\ d \in T
        BY <3>4, RowByRow
      <4> HIDE DEF S, T
      <4> QED
        BY <3>1, <4>1
    <3> QED
      BY <2>2, <3>2, <3>3, <3>4
  <2> QED
    BY <2>3, <2>4, <2>5
<1>6. CASE 65536 <= cp
  <2> DEFINE a == 240 + cp \div 262144
             e == 128 + ((cp \div 4096) % 64)
             d == 128 + ((cp \div 64) % 64)
             c == 128 + (cp % 64)
  <2>1. b = <<a, e, d, c>>
    BY <1>1, <1>6, RuneOfLength, SMT
  <2>2. /\ \/ a = 240 /\ e \in 144..191
           \/ a \in 241..243 /\ e \in More
           \/ a = 244 /\ e \in 128..143
        /\ d \in More /\ c \in More
        /\ Spelled4(a, e, d, c) = cp
    BY <1>6, Rune4, SMT
  <2> HIDE DEF a, e, d, c
  <2>3. Len(b) = 4 /\ b[1] = a /\ b[2] = e /\ b[3] = d /\ b[4] = c
    BY <2>1
  <2>4. CodePoint(b, 1, 4) = cp
    BY <1>2, <2>2, <2>3, WholeCodePoints
  <2>5. Tabled(b, 1, 4)
    <3>1. ASSUME NEW A, NEW B, <<A, B, More, More>> \in Rows, a \in A, e \in B
          PROVE  Tabled(b, 1, 4)
      <4>1. Tabled(<<a, e, d, c>>, 1, 4)
        BY <2>2, <3>1, FourFit
      <4> QED
        BY <2>1, <4>1
    <3>2. CASE a \in {240} /\ e \in 144..191
      <4> DEFINE S == {240}
                 T == 144..191
      <4>1. <<S, T, More, More>> \in Rows /\ a \in S /\ e \in T
        BY <3>2, RowByRow
      <4> HIDE DEF S, T
      <4> QED
        BY <3>1, <4>1
    <3>3. CASE a \in 241..243 /\ e \in More
      <4> DEFINE S == 241..243
                 T == More
      <4>1. <<S, T, More, More>> \in Rows /\ a \in S /\ e \in T
        BY <3>3, RowByRow
      <4> HIDE DEF S, T
      <4> QED
        BY <3>1, <4>1
    <3>4. CASE a \in {244} /\ e \in 128..143
      <4> DEFINE S == {244}
                 T == 128..143
      <4>1. <<S, T, More, More>> \in Rows /\ a \in S /\ e \in T
        BY <3>4, RowByRow
      <4> HIDE DEF S, T
      <4> QED
        BY <3>1, <4>1
    <3> QED
      BY <2>2, <3>2, <3>3, <3>4
  <2> QED
    BY <2>3, <2>4, <2>5
<1> QED
  BY <1>1, <1>3, <1>4, <1>5, <1>6, SMT

(* What the reader of a string may have read: the bytes so far, the first     *)
(* half that waits for its second, and whether it has refused.                *)
Reading == [out : Seq(Octet), high : {0} \cup High, word : {"none", "bad_string"}]

Joined(h, l) == 65536 + (h - 55296) * 1024 + (l - 56320)

(* The number of a unit is a code point, or half of one.                      *)
LEMMA UnitsArePoints ==
  ASSUME NEW d \in [1..4 -> 0..15 \cup {Junk}], AllHex(d)
  PROVE  Hex4(d) \in CodeSpace
BY HexIsANumber, SMT DEF CodeSpace

(* The two halves of a pair are one beyond the numbers of a unit.             *)
LEMMA PairsArePoints ==
  ASSUME NEW h \in High, NEW l \in Low
  PROVE  Joined(h, l) \in CodeSpace
<1>1. h \in Nat /\ 55296 <= h /\ h <= 56319
  BY SMT DEF High
<1>2. l \in Nat /\ 56320 <= l /\ l <= 57343
  BY SMT DEF Low
<1> QED
  BY <1>1, <1>2, SMT DEF Joined, CodeSpace

(* One more piece, case by case.                                              *)
Plain(a)   == a.kind = "unit" /\ AllHex(a.digits)
Single(a)  == a.kind = "escape" /\ a.byte \in DOMAIN Letters
Itself(a)  == a.kind = "byte" /\ a.byte >= 32
Unit(a)    == Hex4(a.digits)

LEMMA OneMore ==
  ASSUME NEW s, NEW a, s.word = "none"
  PROVE  /\ s.high # 0 /\ Plain(a) /\ Unit(a) \in Low
              => OnePieceMore(s, a) = Rune(s, Joined(s.high, Unit(a)))
         /\ s.high # 0 /\ ~(Plain(a) /\ Unit(a) \in Low) => OnePieceMore(s, a) = Refused(s)
         /\ s.high = 0 /\ Plain(a) /\ Unit(a) \in Low => OnePieceMore(s, a) = Refused(s)
         /\ s.high = 0 /\ Plain(a) /\ Unit(a) \notin Low /\ Unit(a) \in High
              => OnePieceMore(s, a) = [s EXCEPT !.high = Unit(a)]
         /\ s.high = 0 /\ Plain(a) /\ Unit(a) \notin Low /\ Unit(a) \notin High
              => OnePieceMore(s, a) = Rune(s, Unit(a))
         /\ s.high = 0 /\ Single(a)
              => OnePieceMore(s, a) = [s EXCEPT !.out = Append(s.out, Letters[a.byte])]
         /\ s.high = 0 /\ Itself(a)
              => OnePieceMore(s, a) = [s EXCEPT !.out = Append(s.out, a.byte)]
         /\ s.high = 0 /\ ~Plain(a) /\ ~Single(a) /\ ~Itself(a)
              => OnePieceMore(s, a) = Refused(s)
<1> DEFINE u == Hex4(a.digits)
           plain == AllHex(a.digits)
<1>1. u = Unit(a) /\ (Plain(a) <=> a.kind = "unit" /\ plain)
  BY Zenon DEF Plain, Unit
<1>2. OnePieceMore(s, a) =
        IF a.kind = "unit" /\ ~plain THEN Refused(s)
        ELSE IF s.high # 0
        THEN IF a.kind = "unit" /\ u \in Low THEN Rune(s, Joined(s.high, u)) ELSE Refused(s)
        ELSE IF a.kind = "unit"
        THEN IF u \in Low THEN Refused(s)
             ELSE IF u \in High THEN [s EXCEPT !.high = u] ELSE Rune(s, u)
        ELSE IF a.kind = "escape" /\ a.byte \in DOMAIN Letters
        THEN [s EXCEPT !.out = Append(s.out, Letters[a.byte])]
        ELSE IF a.kind = "byte" /\ a.byte >= 32
        THEN [s EXCEPT !.out = Append(s.out, a.byte)]
        ELSE Refused(s)
  BY SMT DEF OnePieceMore, Joined
<1> HIDE DEF u, plain
<1>3. CASE s.high # 0
  BY <1>1, <1>2, <1>3, Zenon
<1>4. CASE s.high = 0 /\ Plain(a)
  <2> DEFINE low == u \in Low
             high == u \in High
             waits == [s EXCEPT !.high = u]
             out == Rune(s, u)
  <2>1. OnePieceMore(s, a) =
          IF low THEN Refused(s) ELSE IF high THEN waits ELSE out
    BY <1>1, <1>2, <1>4, SMT
  <2> HIDE DEF low, high, waits, out
  <2>2. low => OnePieceMore(s, a) = Refused(s)
    BY <2>1, SMT
  <2>3. ~low /\ high => OnePieceMore(s, a) = waits
    BY <2>1, SMT
  <2>4. ~low /\ ~high => OnePieceMore(s, a) = out
    BY <2>1, SMT
  <2>5. (low <=> Unit(a) \in Low) /\ (high <=> Unit(a) \in High)
    BY <1>1, Zenon DEF low, high
  <2>6. waits = [s EXCEPT !.high = Unit(a)] /\ out = Rune(s, Unit(a))
    BY <1>1, Zenon DEF waits, out
  <2> HIDE DEF low, high, waits, out
  <2>7. ~Single(a) /\ ~Itself(a)
    BY <1>4 DEF Plain, Single, Itself
  <2> QED
    BY <1>4, <2>2, <2>3, <2>4, <2>5, <2>6, <2>7, Zenon
<1>5. CASE s.high = 0 /\ ~Plain(a)
  BY <1>1, <1>2, <1>5, SMTT(30) DEF Single, Itself
<1> QED
  BY <1>3, <1>4, <1>5, Zenon

(* What has been refused stays refused.                                       *)
LEMMA RefusedIsRefused ==
  ASSUME NEW s, NEW a, s.word # "none"
  PROVE  OnePieceMore(s, a) = Refused(s)
BY SMT DEF OnePieceMore

(* One more piece leaves it so.                                               *)
LEMMA OneMoreIsReading ==
  ASSUME NEW s \in Reading, NEW a \in Piece
  PROVE  OnePieceMore(s, a) \in Reading
<1>0. s.out \in Seq(Octet) /\ s.high \in {0} \cup High /\ s.word \in {"none", "bad_string"}
  BY Zenon DEF Reading
<1>1. Refused(s) \in Reading
  BY Zenon DEF Refused, Reading
<1>2. ASSUME NEW cp \in CodeSpace PROVE Rune(s, cp) \in Reading
  <2>1. AppendRune(s.out, cp) \in Seq(Octet)
    BY <1>0, RuneIsAppended, Zenon
  <2> QED
    BY <2>1, Zenon DEF Rune, Reading
<1>3. Plain(a) => Unit(a) \in CodeSpace
  <2>1. a.kind = "unit" => a.digits \in [1..4 -> 0..15 \cup {Junk}]
    BY SMT DEF Piece
  <2> QED
    BY <2>1, UnitsArePoints, Zenon DEF Plain, Unit
<1>4. ASSUME s.high # 0, Unit(a) \in Low
      PROVE  Joined(s.high, Unit(a)) \in CodeSpace
  BY <1>0, <1>4, PairsArePoints, Zenon
<1>5. ASSUME NEW c \in Octet PROVE [s EXCEPT !.out = Append(s.out, c)] \in Reading
  <2>1. Append(s.out, c) \in Seq(Octet)
    BY <1>0, AppendProperties, Zenon
  <2> QED
    BY <2>1, Zenon DEF Reading
<1>6. ASSUME NEW h \in High PROVE [s EXCEPT !.high = h] \in Reading
  BY Zenon DEF Reading
<1>7. Single(a) => Letters[a.byte] \in Octet
  BY SMT DEF Letters, Octet, Single
<1>8. Itself(a) => a.byte \in Octet
  BY SMT DEF Piece, Itself
<1>9. CASE s.word # "none"
  BY <1>1, <1>9, RefusedIsRefused, Zenon
<1>10. CASE s.word = "none" /\ s.high # 0
  BY <1>1, <1>2, <1>4, <1>10, OneMore, Zenon
<1>11. CASE s.word = "none" /\ s.high = 0 /\ Plain(a)
  <2>1. CASE Unit(a) \in Low
    BY <1>1, <1>11, <2>1, OneMore, Zenon
  <2>2. CASE Unit(a) \notin Low /\ Unit(a) \in High
    BY <1>6, <1>11, <2>2, OneMore, Zenon
  <2>3. CASE Unit(a) \notin Low /\ Unit(a) \notin High
    BY <1>2, <1>3, <1>11, <2>3, OneMore, Zenon
  <2> QED
    BY <2>1, <2>2, <2>3, Zenon
<1>12. CASE s.word = "none" /\ s.high = 0 /\ ~Plain(a)
  BY <1>1, <1>5, <1>7, <1>8, <1>12, OneMore, Zenon
<1> QED
  BY <1>9, <1>10, <1>11, <1>12, Zenon

--------------------------------------------------------------------------------
(* How far str has come: each piece takes what the ones before it left.       *)
Unfolds(text, s) ==
    /\ s \in [0..Len(text) -> Reading]
    /\ s[0] = NothingYet
    /\ \A k \in 1..Len(text) : s[k] = OnePieceMore(s[k - 1], text[k])
    /\ AllRead(text) = s[Len(text)]

LEMMA ReadUnfolds ==
  ASSUME NEW text \in Seq(Piece)
  PROVE  \E s : Unfolds(text, s)
<1> DEFINE size == Len(text)
           step == [k \in 1..size |-> [r \in Reading |-> OnePieceMore(r, text[k])]]
           Fits(f) == f = [k \in 0..size |->
                             IF k = 0 THEN NothingYet ELSE OnePieceMore(f[k - 1], text[k])]
           sofar == CHOOSE f : Fits(f)
<1>1. NothingYet \in Reading
  <2>1. <<>> \in Seq(Octet)
    OBVIOUS
  <2> QED
    BY <2>1, Zenon DEF NothingYet, Reading
<1>2. \A k \in 1..size : text[k] \in Piece
  OBVIOUS
<1>3. step \in [1..size -> [Reading -> Reading]]
  BY <1>2, OneMoreIsReading, Zenon
<1>4. PICK f \in [0..size -> Reading] :
         f[0] = NothingYet /\ \A k \in 1..size : f[k] = step[k][f[k - 1]]
  <2> HIDE DEF step, size
  <2>1. size \in Nat
    BY DEF size
  <2>2. step \in Loop(Reading, size)
    BY <1>3, Zenon DEF Loop
  <2>3. PICK f : Run(f, Reading, NothingYet, size, step)
    BY <1>1, <2>1, <2>2, Iterates
  <2> QED
    BY <2>3, Zenon DEF Run
<1>5. \A k \in 1..size : f[k - 1] \in Reading
  OBVIOUS
<1>6. \A k \in 1..size : f[k] = OnePieceMore(f[k - 1], text[k])
  BY <1>4, <1>5, Zenon
<1>7. Fits(f)
  BY <1>4, <1>6, SMT
<1>8. Fits(sofar)
  BY <1>7, Zenon
<1>9. AllRead(text) = sofar[size]
  BY DEF AllRead
<1>10. sofar = [k \in 0..size |->
                 IF k = 0 THEN NothingYet ELSE OnePieceMore(sofar[k - 1], text[k])]
  BY <1>8
<1> HIDE DEF sofar, step
<1>11. sofar[0] = NothingYet /\ \A k \in 1..size : sofar[k] = OnePieceMore(sofar[k - 1], text[k])
  BY <1>10, SMT
<1>12. sofar = f
  <2> DEFINE R == {k \in 0..size : sofar[k] # f[k]}
  <2>1. R = {}
    <3> SUFFICES ASSUME R # {} PROVE FALSE
      OBVIOUS
    <3>0. R \subseteq 0..size
      OBVIOUS
    <3> HIDE DEF R, Fits
    <3>1. PICK k \in R : \A j \in R : k <= j
      BY <3>0, Least
    <3> USE DEF R
    <3>2. k # 0 /\ k - 1 \in 0..size /\ k - 1 \notin R
      BY <1>4, <1>11, <3>1
    <3> QED
      BY <1>6, <1>11, <3>1, <3>2
  <2> QED
    BY <1>10, <2>1
<1>13. Unfolds(text, f)
  BY <1>4, <1>6, <1>9, <1>12, Zenon DEF Unfolds
<1> QED
  BY <1>13

(* The two tables of short escapes, the writer's and the reader's, agree.     *)
LEMMA TablesAgree ==
  \A c \in DOMAIN Shorts : Shorts[c] \in DOMAIN Letters /\ Letters[Shorts[c]] = c
<1> SUFFICES ASSUME NEW c \in DOMAIN Shorts
             PROVE  Shorts[c] \in DOMAIN Letters /\ Letters[Shorts[c]] = c
  OBVIOUS
<1>1. c \in {34, 92, 8, 12, 10, 13, 9}
  BY DEF Shorts
<1>2. Shorts[c] = CASE c = 8 -> 98 [] c = 12 -> 102 [] c = 10 -> 110 [] c = 13 -> 114
                    [] c = 9 -> 116 [] OTHER -> c
  BY <1>1, Zenon DEF Shorts
<1>3. \A l \in {34, 92, 47, 98, 102, 110, 114, 116} :
        Letters[l] = CASE l = 98 -> 8 [] l = 102 -> 12 [] l = 110 -> 10 [] l = 114 -> 13
                       [] l = 116 -> 9 [] OTHER -> l
  BY Zenon DEF Letters
<1>4. DOMAIN Letters = {34, 92, 47, 98, 102, 110, 114, 116}
  BY Zenon DEF Letters
<1> QED
  BY <1>1, <1>2, <1>3, <1>4, SMT

(* The reader's letters are those of the grammar of JSON.                     *)
LEMMA EscapesOfJSON ==
  /\ Escaping = DOMAIN Letters
  /\ \A l \in DOMAIN Letters : Escaped(l) = Letters[l]
<1>1. Escaping = {34, 92, 47, 98, 102, 110, 114, 116}
  BY SMT DEF Escaping, JSONEscapes
<1>2. DOMAIN Letters = {34, 92, 47, 98, 102, 110, 114, 116}
  BY Zenon DEF Letters
<1>3. ASSUME NEW l \in DOMAIN Letters PROVE Escaped(l) = Letters[l]
  <2>1. Letters[l] = CASE l = 98 -> 8 [] l = 102 -> 12 [] l = 110 -> 10 [] l = 114 -> 13
                       [] l = 116 -> 9 [] OTHER -> l
    BY <1>2, <1>3, Zenon DEF Letters
  <2>2. <<l, Letters[l]>> \in JSONEscapes
    BY <1>2, <1>3, <2>1, SMT DEF JSONEscapes
  <2>3. \A c : <<l, c>> \in JSONEscapes => c = Letters[l]
    BY <1>2, <1>3, <2>1, SMT DEF JSONEscapes
  <2>4. Letters[l] \in {e[2] : e \in JSONEscapes}
    BY <2>2
  <2> QED
    BY <2>2, <2>3, <2>4, Zenon DEF Escaped
<1> QED
  BY <1>1, <1>2, <1>3

(* What esc writes for a byte is a piece, and reads as that byte.             *)
LEMMA OneByteReadsBack ==
  ASSUME NEW s \in Reading, s.word = "none", s.high = 0, NEW c \in Octet
  PROVE  /\ EscByte(c) \in Piece
         /\ OnePieceMore(s, EscByte(c)) = [s EXCEPT !.out = Append(s.out, c)]
<1> DEFINE a == EscByte(c)
           Short == c \in DOMAIN Shorts
           Longer(x) == [s EXCEPT !.out = Append(s.out, x)]
<1>0. OnePieceMore(s, a) =
        IF Single(a) THEN Longer(Letters[a.byte])
        ELSE IF Itself(a) THEN Longer(a.byte)
        ELSE OnePieceMore(s, a)
  <2> HIDE DEF a
  <2>1. Single(a) => OnePieceMore(s, a) = Longer(Letters[a.byte])
    BY OneMore, Zenon
  <2>2. Itself(a) => OnePieceMore(s, a) = Longer(a.byte)
    BY OneMore, Zenon
  <2> HIDE DEF More
  <2> QED
    BY <2>1, <2>2
<1>1. CASE Short
  <2>1. a = [kind |-> "escape", byte |-> Shorts[c]]
    BY <1>1 DEF EscByte
  <2>2. Shorts[c] \in DOMAIN Letters /\ Letters[Shorts[c]] = c
    BY <1>1, TablesAgree
  <2>3. DOMAIN Letters \subseteq Octet
    BY SMT DEF Letters, Octet
  <2>4. a \in Piece
    BY <2>1, <2>2, <2>3 DEF Piece
  <2>5. Single(a) /\ Letters[a.byte] = c
    BY <2>1, <2>2 DEF Single
  <2> QED
    BY <1>0, <2>4, <2>5
<1>2. CASE ~Short /\ c < 32
  <2> DEFINE d == <<0, 0, c \div 16, c % 16>>
  <2>1. a = [kind |-> "unit", digits |-> d]
    BY <1>2 DEF EscByte
  <2>2. c \div 16 \in 0..15 /\ c % 16 \in 0..15 /\ 0 \in 0..15
    BY <1>2 DEF Octet
  <2>3. d \in [1..4 -> 0..15 \cup {Junk}] /\ AllHex(d)
    BY <2>2, JunkAssumption DEF AllHex
  <2>4. Hex4(d) = c
    BY <1>2, SMT DEF Hex4, Octet
  <2> HIDE DEF d
  <2>5. a \in Piece
    BY <2>1, <2>3 DEF Piece
  <2>6. Plain(a) /\ Unit(a) = c
    BY <2>1, <2>3, <2>4 DEF Plain, Unit
  <2>7. c \notin Low /\ c \notin High
    BY <1>2, SMTT(30) DEF Low, High
  <2>8. OnePieceMore(s, a) = Rune(s, c)
    <3> HIDE DEF a
    <3> QED
      BY <2>6, <2>7, OneMore, Zenon
  <2>9. AppendRune(s.out, c) = s.out \o <<c>>
    <3>1. c < 128
      BY <1>2 DEF Octet
    <3> QED
      BY <3>1, SMT DEF AppendRune
  <2>10. s.out \o <<c>> = Append(s.out, c)
    BY AppendIsConcat DEF Reading
  <2>11. Rune(s, c) = [s EXCEPT !.out = Append(s.out, c)]
    BY <2>9, <2>10, Zenon DEF Rune, Reading
  <2> QED
    BY <2>5, <2>8, <2>11, Zenon
<1>3. CASE ~Short /\ ~(c < 32)
  <2>1. a = [kind |-> "byte", byte |-> c]
    BY <1>3 DEF EscByte
  <2>2. c # 34 /\ c # 92
    BY <1>3 DEF Shorts
  <2>3. a \in Piece
    BY <2>1, <2>2 DEF Piece, Octet
  <2>4. Itself(a) /\ a.byte = c
    BY <1>3, <2>1 DEF Itself, Octet
  <2> QED
    BY <1>0, <2>3, <2>4 DEF Single, Itself
<1> QED
  BY <1>1, <1>2, <1>3

(* Whatever bytes a string has, the pieces that esc writes for it are read as *)
(* those bytes.                                                               *)
THEOREM EveryStringIsEscaped ==
  ASSUME NEW b \in Seq(Octet)
  PROVE  AllRead(Esc(b)) = [out |-> b, high |-> 0, word |-> "none"]
<1> DEFINE size == Len(b)
           far(k) == [out |-> SubSeq(b, 1, k), high |-> 0, word |-> "none"]
<1>1. Esc(b) \in Seq(Piece) /\ Len(Esc(b)) = size
  <2>1. \A i \in 1..Len(b) : EscByte(b[i]) \in Piece
    <3>1. NothingYet \in Reading /\ NothingYet.word = "none" /\ NothingYet.high = 0
      BY DEF NothingYet, Reading
    <3> QED
      BY <3>1, OneByteReadsBack
  <2> QED
    BY <2>1 DEF Esc
<1>2. PICK s : Unfolds(Esc(b), s)
  BY <1>1, ReadUnfolds
<1>3. s \in [0..size -> Reading] /\ s[0] = NothingYet /\ AllRead(Esc(b)) = s[size]
  BY <1>1, <1>2 DEF Unfolds
<1>4. \A k \in 1..size : s[k] = OnePieceMore(s[k - 1], EscByte(b[k]))
  BY <1>1, <1>2 DEF Unfolds, Esc
<1> DEFINE R == {k \in 0..size : s[k] # far(k)}
<1>5. ASSUME NEW k \in 1..size, s[k - 1] = far(k - 1) PROVE s[k] = far(k)
  <2>1. b[k] \in Octet /\ k - 1 \in 0..size
    OBVIOUS
  <2>2. s[k - 1] \in Reading /\ s[k - 1].word = "none" /\ s[k - 1].high = 0
    BY <1>3, <1>5, <2>1, SMTT(30)
  <2>3. s[k] = [s[k - 1] EXCEPT !.out = Append(s[k - 1].out, b[k])]
    BY <1>4, <2>1, <2>2, OneByteReadsBack
  <2>4. Append(SubSeq(b, 1, k - 1), b[k]) = SubSeq(b, 1, k)
    OBVIOUS
  <2>5. s[k - 1].out = SubSeq(b, 1, k - 1)
    <3> DEFINE sofar == SubSeq(b, 1, k - 1)
    <3> HIDE DEF sofar
    <3>1. s[k - 1] = [out |-> sofar, high |-> 0, word |-> "none"]
      BY <1>5 DEF sofar
    <3>2. s[k - 1].out = sofar
      BY <3>1
    <3> QED
      BY <3>2 DEF sofar
  <2>6. Append(s[k - 1].out, b[k]) = SubSeq(b, 1, k)
    BY <2>4, <2>5, Zenon
  <2>7. s[k] = [far(k - 1) EXCEPT !.out = SubSeq(b, 1, k)]
    BY <1>5, <2>3, <2>6, Zenon
  <2> QED
    BY <2>7, Zenon
<1>6. s[0] = far(0)
  BY <1>3 DEF NothingYet
<1>7. R = {}
  <2> HIDE DEF far
  <2> SUFFICES ASSUME R # {} PROVE FALSE
    OBVIOUS
  <2>1. R \subseteq Nat
    OBVIOUS
  <2> HIDE DEF R
  <2>2. PICK k \in R : \A j \in R : k <= j
    BY <2>1, Least
  <2>3. k \in 1..size /\ k - 1 \in 0..size /\ k - 1 \notin R
    BY <1>6, <2>2 DEF R
  <2> QED
    BY <1>5, <2>2, <2>3 DEF R
<1>8. s[size] = far(size)
  <2> HIDE DEF far
  <2>1. size \in 0..size
    OBVIOUS
  <2> QED
    BY <1>7, <2>1
<1>9. SubSeq(b, 1, size) = b
  OBVIOUS
<1> QED
  BY <1>3, <1>8, <1>9

(* Every string that is well-formed UTF-8 comes back from what esc wrote, and *)
(* every other is refused.                                                    *)
THEOREM EveryStringReadsBack == CodecSpec => []EscapedTextReadsBack
<1>1. CodecTypeOK => EscapedTextReadsBack
  <2> SUFFICES ASSUME CodecTypeOK PROVE EscapedTextReadsBack
    OBVIOUS
  <2>1. bytes \in Seq(Octet)
    BY DEF CodecTypeOK
  <2>2. AllRead(Esc(bytes)) = [out |-> bytes, high |-> 0, word |-> "none"]
    BY <2>1, EveryStringIsEscaped
  <2>3. Str(Esc(bytes), TRUE) =
          Answer(IF ~ValidUTF8(bytes) THEN "bad_string" ELSE "none", bytes)
    BY <2>2 DEF Str
  <2>4. ValidUTF8(bytes) = WellFormed(bytes)
    BY <2>1, ValidIsWellFormed
  <2> QED
    BY <2>3, <2>4 DEF EscapedTextReadsBack, Answer
<1> QED
  BY <1>1, CodecTypes, PTL

--------------------------------------------------------------------------------
(* A piece that may stand after the ones before it: the second half of a pair *)
(* after the first, and nowhere else.                                         *)
Proper(i) == Plain(pieces[i]) \/ Single(pieces[i]) \/ Itself(pieces[i])
Follows(i) == IF Is(i - 1, High) THEN Is(i, Low) ELSE ~Is(i, Low) /\ Proper(i)
Waiting(i) == IF Is(i, High) THEN Unit(pieces[i]) ELSE 0

(* No number is both halves, and none that waits is the mark of none waiting. *)
LEMMA Halves ==
  /\ 0 \notin High
  /\ \A u : u \in High => u \notin Low
<1>1. 0 \notin High
  BY SMT DEF High
<1>2. ASSUME NEW u, u \in High PROVE u \notin Low
  <2>1. u \in Int /\ u <= 56319
    BY <1>2, SMT DEF High
  <2> QED
    BY <2>1, SMT DEF Low
<1> QED
  BY <1>1, <1>2, Zenon

Rest(u)      == u % 1024
Whole(h, l)  == 65536 + Rest(h) * 1024 + Rest(l)

(* The halves of a pair by what they have beside their ranges, as MCCodec!Half *)
(* takes them.                                                                *)
LEMMA HalvesJoined ==
  ASSUME NEW h \in High, NEW l \in Low
  PROVE  Joined(h, l) = Whole(h, l)
<1>1. h \in Nat /\ 55296 <= h /\ h <= 56319
  BY SMT DEF High
<1>2. l \in Nat /\ 56320 <= l /\ l <= 57343
  BY SMT DEF Low
<1>3. Rest(h) = h - 55296 /\ Rest(l) = l - 56320
  BY <1>1, <1>2, SMT DEF Rest
<1> QED
  BY <1>1, <1>2, <1>3, SMT DEF Joined, Whole

(* A piece that is a number of S, in the terms of the reader's cases.         *)
LEMMA IsOfPieces ==
  ASSUME NEW i, NEW S
  PROVE  Is(i, S) <=> i \in DOMAIN pieces /\ Plain(pieces[i]) /\ Unit(pieces[i]) \in S
BY Zenon DEF Is, Plain, Unit

(* What the next piece does to the reader, where it may stand and where not.  *)
LEMMA OnePieceFollows ==
  ASSUME pieces \in Seq(Piece), NEW i \in 1..Len(pieces), NEW s \in Reading,
         s.word = "none", s.high = Waiting(i - 1)
  PROVE  LET r == OnePieceMore(s, pieces[i])
         IN  /\ Follows(i) => /\ r.word = "none" /\ r.high = Waiting(i)
                              /\ r.out = s.out \o Spelled(i)
             /\ ~Follows(i) => r.word = "bad_string"
<1> DEFINE a == pieces[i]
           r == OnePieceMore(s, a)
<1>1. i \in DOMAIN pieces /\ a \in Piece /\ a.kind \in {"byte", "escape", "unit"}
  <2>1. a \in Piece
    OBVIOUS
  <2> QED
    BY <2>1, SMT DEF Piece
<1>2. s.out \in Seq(Octet) /\ s = [out |-> s.out, high |-> s.high, word |-> s.word]
  BY Zenon DEF Reading
<1>3. Refused(s).word = "bad_string"
  BY <1>2, Zenon DEF Refused, Reading
<1>4. ASSUME NEW cp \in CodeSpace
      PROVE  LET q == Rune(s, cp)
             IN  q.word = "none" /\ q.high = 0 /\ q.out = s.out \o AppendRune(<<>>, cp)
  <2>1. AppendRune(s.out, cp) = s.out \o AppendRune(<<>>, cp)
    BY <1>2, RuneIsAppended
  <2> QED
    BY <1>2, <2>1, Zenon DEF Rune, Reading
<1>5. Plain(a) => Unit(a) \in CodeSpace
  <2>1. a.kind = "unit" => a.digits \in [1..4 -> 0..15 \cup {Junk}]
    BY <1>1, SMTT(30) DEF Piece
  <2> QED
    BY <2>1, UnitsArePoints, Zenon DEF Plain, Unit
<1> HIDE DEF a
<1>6. CASE Is(i - 1, High)
  <2>1. s.high = Unit(pieces[i - 1]) /\ s.high \in High /\ s.high # 0 /\ i - 1 \in DOMAIN pieces
    BY <1>6, Halves, IsOfPieces, Zenon DEF Waiting
  <2>2. CASE Is(i, Low)
    <3>1. Plain(a) /\ Unit(a) \in Low
      BY <2>2, IsOfPieces, Zenon DEF a
    <3>2. r = Rune(s, Joined(s.high, Unit(a)))
      BY <2>1, <3>1, OneMore, Zenon
    <3>3. Joined(s.high, Unit(a)) \in CodeSpace
      BY <2>1, <3>1, PairsArePoints, Zenon
    <3>4. ~Is(i, High)
      BY <2>2, Halves, IsOfPieces, Zenon
    <3>5. Spelled(i) = AppendRune(<<>>, Joined(s.high, Unit(a)))
      <4>1. a.kind = "unit"
        BY <3>1 DEF Plain
      <4>2. Joined(s.high, Unit(a)) = Whole(s.high, Unit(a))
        BY <2>1, <3>1, HalvesJoined, Zenon
      <4>3. Half(i - 1) = Rest(s.high) /\ Half(i) = Rest(Unit(a))
        BY <2>1, ZenonT(90) DEF Half, Unit, Rest, a
      <4> QED
        BY <2>2, <3>4, <4>1, <4>2, <4>3, SMT DEF Spelled, Whole, a
    <3> QED
      BY <1>4, <1>6, <2>2, <3>2, <3>3, <3>4, <3>5, Zenon DEF Follows, Waiting, a
  <2>3. CASE ~Is(i, Low)
    <3>1. ~(Plain(a) /\ Unit(a) \in Low)
      BY <1>1, <2>3, IsOfPieces, Zenon DEF a
    <3>2. r = Refused(s)
      BY <2>1, <3>1, OneMore, Zenon
    <3> QED
      BY <1>3, <1>6, <2>3, <3>2, Zenon DEF Follows, a
  <2> QED
    BY <2>2, <2>3
<1>7. CASE ~Is(i - 1, High)
  <2>1. s.high = 0
    BY <1>7, Zenon DEF Waiting
  <2>2. CASE Plain(a)
    <3>1. a.kind = "unit" /\ Unit(a) = Hex4(a.digits)
      BY <2>2, Zenon DEF Plain, Unit
    <3>2. CASE Unit(a) \in Low
      <4>1. r = Refused(s) /\ Is(i, Low)
        BY <1>1, <2>1, <2>2, <3>2, OneMore, IsOfPieces, Zenon DEF a
      <4> QED
        BY <1>3, <1>7, <4>1, Zenon DEF Follows, a
    <3>3. CASE Unit(a) \notin Low /\ Unit(a) \in High
      <4>1. r = [s EXCEPT !.high = Unit(a)]
        BY <2>1, <2>2, <3>3, OneMore, Zenon
      <4>2. Is(i, High) /\ ~Is(i, Low)
        BY <1>1, <2>2, <3>3, IsOfPieces, Zenon DEF a
      <4>3. Spelled(i) = <<>>
        BY <3>1, <4>2 DEF Spelled, a
      <4>4. s.out \o <<>> = s.out
        BY <1>2
      <4>5. Follows(i) /\ Waiting(i) = Unit(a)
        BY <1>7, <2>2, <4>2, Zenon DEF Follows, Proper, Waiting, a
      <4>6. r.word = "none" /\ r.high = Unit(a) /\ r.out = s.out
        BY <4>1, Zenon DEF Reading
      <4> QED
        BY <4>3, <4>4, <4>5, <4>6, Zenon DEF a
    <3>4. CASE Unit(a) \notin Low /\ Unit(a) \notin High
      <4>1. r = Rune(s, Unit(a))
        BY <2>1, <2>2, <3>4, OneMore, Zenon
      <4>2. ~Is(i, High) /\ ~Is(i, Low)
        BY <3>4, IsOfPieces, Zenon DEF a
      <4>3. Spelled(i) = AppendRune(<<>>, Unit(a))
        BY <3>1, <4>2, SMT DEF Spelled, a
      <4>4. Follows(i) /\ Waiting(i) = 0
        BY <1>7, <2>2, <4>2, Zenon DEF Follows, Proper, Waiting, a
      <4> QED
        BY <1>4, <1>5, <2>2, <4>1, <4>3, <4>4, Zenon DEF a
    <3> QED
      BY <3>2, <3>3, <3>4
  <2>3. CASE ~Plain(a)
    <3>1. ~Is(i, High) /\ ~Is(i, Low) /\ Waiting(i) = 0
      BY <2>3, IsOfPieces, Zenon DEF a, Waiting
    <3>2. Follows(i) <=> Single(a) \/ Itself(a)
      BY <1>7, <2>3, <3>1, Zenon DEF Follows, Proper, a
    <3>3. ASSUME NEW c PROVE s.out \o <<c>> = Append(s.out, c)
      BY <1>2
    <3>4. CASE Single(a)
      <4>1. r = [s EXCEPT !.out = Append(s.out, Letters[a.byte])]
        BY <2>1, <3>4, OneMore, Zenon
      <4>2. Spelled(i) = <<Letters[a.byte]>>
        BY <3>4, EscapesOfJSON, SMT DEF Spelled, Single, a
      <4>3. r.word = "none" /\ r.high = 0 /\ r.out = Append(s.out, Letters[a.byte])
        BY <2>1, <4>1, Zenon DEF Reading
      <4> QED
        BY <3>1, <3>2, <3>3, <3>4, <4>2, <4>3, Zenon DEF a
    <3>5. CASE Itself(a)
      <4>1. r = [s EXCEPT !.out = Append(s.out, a.byte)]
        BY <2>1, <3>5, OneMore, Zenon
      <4>2. Spelled(i) = <<a.byte>>
        BY <3>5, SMT DEF Spelled, Itself, a
      <4>3. r.word = "none" /\ r.high = 0 /\ r.out = Append(s.out, a.byte)
        BY <2>1, <4>1, Zenon DEF Reading
      <4> QED
        BY <3>1, <3>2, <3>3, <3>5, <4>2, <4>3, Zenon DEF a
    <3>6. CASE ~Single(a) /\ ~Itself(a)
      <4>1. r = Refused(s)
        BY <2>1, <2>3, <3>6, OneMore, Zenon
      <4> QED
        BY <1>3, <3>2, <3>6, <4>1, Zenon DEF a
    <3> QED
      BY <3>4, <3>5, <3>6
  <2> QED
    BY <2>2, <2>3
<1> QED
  BY <1>6, <1>7

(* How far the reader has come after each piece.                              *)
LEMMA PiecesFollow ==
  ASSUME pieces \in Seq(Piece), NEW s, Unfolds(pieces, s), NEW k \in 0..Len(pieces)
  PROVE  /\ (\A i \in 1..k : Follows(i)) => s[k].word = "none" /\ s[k].high = Waiting(k)
         /\ (\E i \in 1..k : ~Follows(i)) => s[k].word = "bad_string"
<1> DEFINE Far(j) == /\ (\A i \in 1..j : Follows(i)) => s[j].word = "none" /\ s[j].high = Waiting(j)
                     /\ (\E i \in 1..j : ~Follows(i)) => s[j].word = "bad_string"
           R == {j \in 0..k : ~Far(j)}
<1>1. s \in [0..Len(pieces) -> Reading] /\ s[0] = NothingYet
  BY Zenon DEF Unfolds
<1>2. \A i \in 1..Len(pieces) : s[i] = OnePieceMore(s[i - 1], pieces[i])
  BY Zenon DEF Unfolds
<1>3. Far(0)
  <2>1. ~Is(0, High)
    BY IsOfPieces
  <2>2. s[0].word = "none" /\ s[0].high = 0
    BY <1>1 DEF NothingYet
  <2> QED
    BY <2>1, <2>2 DEF Waiting
<1>4. ASSUME NEW j \in 1..k, Far(j - 1) PROVE Far(j)
  <2>0. j \in 1..Len(pieces) /\ s[j - 1] \in Reading /\ s[j - 1].word \in {"none", "bad_string"}
    <3>1. j \in 1..Len(pieces) /\ j - 1 \in 0..Len(pieces)
      OBVIOUS
    <3>2. s[j - 1] \in Reading
      BY <1>1, <3>1
    <3> QED
      BY <3>1, <3>2, Zenon DEF Reading
  <2>1. CASE \A i \in 1..(j - 1) : Follows(i)
    <3>1. s[j - 1].word = "none" /\ s[j - 1].high = Waiting(j - 1)
      BY <1>4, <2>1, Zenon
    <3>2. /\ Follows(j) => s[j].word = "none" /\ s[j].high = Waiting(j)
          /\ ~Follows(j) => s[j].word = "bad_string"
      BY <1>2, <2>0, <3>1, OnePieceFollows, Zenon
    <3>3. (\A i \in 1..j : Follows(i)) <=> Follows(j)
      <4>1. \A i \in 1..j : i = j \/ i \in 1..(j - 1)
        OBVIOUS
      <4>2. j \in 1..j
        OBVIOUS
      <4> QED
        BY <2>1, <4>1, <4>2, Zenon
    <3> QED
      BY <3>2, <3>3, Zenon
  <2>2. CASE \E i \in 1..(j - 1) : ~Follows(i)
    <3>1. s[j - 1].word = "bad_string"
      BY <1>4, <2>2, Zenon
    <3>2. s[j] = Refused(s[j - 1])
      <4>1. s[j - 1].word # "none"
        BY <3>1
      <4> QED
        BY <1>2, <2>0, <4>1, RefusedIsRefused, Zenon
    <3>3. s[j].word = "bad_string"
      BY <2>0, <3>2, Zenon DEF Refused, Reading
    <3>4. \E i \in 1..j : ~Follows(i)
      <4>1. \A i \in 1..(j - 1) : i \in 1..j
        OBVIOUS
      <4> QED
        BY <2>2, <4>1, Zenon
    <3> QED
      BY <3>3, <3>4, Zenon
  <2> QED
    BY <2>1, <2>2, Zenon
<1> HIDE DEF Far
<1>5. R = {}
  <2> SUFFICES ASSUME R # {} PROVE FALSE
    OBVIOUS
  <2>1. R \subseteq Nat
    OBVIOUS
  <2> HIDE DEF R
  <2>2. PICK j \in R : \A i \in R : j <= i
    BY <2>1, Least
  <2>3. j \in 0..k /\ ~Far(j)
    BY <2>2, Zenon DEF R
  <2>4. j # 0
    BY <1>3, <2>3, Zenon
  <2>5. j \in 1..k /\ j - 1 \in 0..k /\ ~(j <= j - 1)
    BY <2>3, <2>4
  <2>6. Far(j - 1)
    BY <2>2, <2>5, Zenon DEF R
  <2> QED
    BY <1>4, <2>3, <2>5, <2>6, Zenon
<1>6. k \in 0..k
  OBVIOUS
<1>7. Far(k)
  BY <1>5, <1>6, Zenon
<1> QED
  BY <1>7, Zenon DEF Far

(* The pieces that all follow, with no half left over, are those of a string. *)
LEMMA WellSpelledFollows ==
  ASSUME pieces \in Seq(Piece)
  PROVE  WellSpelled <=> /\ \A i \in 1..Len(pieces) : Follows(i)
                         /\ ~Is(Len(pieces), High)
<1> DEFINE L == Len(pieces)
<1>1. DOMAIN pieces = 1..L /\ L \in Nat
  OBVIOUS
<1>2. ASSUME NEW i \in 1..L
      PROVE  Proper(i) <=> /\ pieces[i].kind = "byte" => pieces[i].byte >= 32
                           /\ pieces[i].kind = "escape" => pieces[i].byte \in Escaping
                           /\ pieces[i].kind = "unit" => AllHex(pieces[i].digits)
  <2>1. pieces[i].kind \in {"byte", "escape", "unit"}
    <3>1. pieces[i] \in Piece
      OBVIOUS
    <3> QED
      BY <3>1, SMT DEF Piece
  <2> QED
    BY <2>1, EscapesOfJSON, SMT DEF Proper, Plain, Single, Itself
<1>3. \A i, S : Is(i, S) => i \in 1..L /\ Plain(pieces[i])
  BY <1>1, IsOfPieces, Zenon
<1>4. \A i : ~(Is(i, High) /\ Is(i, Low))
  BY Halves, IsOfPieces, Zenon
<1> HIDE DEF L
<1>5. WellSpelled <=> \A i \in 1..L : /\ Proper(i)
                                      /\ Is(i, High) => Is(i + 1, Low)
                                      /\ Is(i, Low) => Is(i - 1, High)
  BY <1>1, <1>2, Zenon DEF WellSpelled
<1>6. ASSUME WellSpelled PROVE (\A i \in 1..L : Follows(i)) /\ ~Is(L, High)
  <2>1. ASSUME NEW i \in 1..L PROVE Follows(i)
    <3>1. CASE Is(i - 1, High)
      <4>1. i - 1 \in 1..L /\ (i - 1) + 1 = i
        BY <1>1, <1>3, <3>1
      <4>2. Is((i - 1) + 1, Low)
        BY <1>5, <1>6, <3>1, <4>1, Zenon
      <4>3. Is(i, Low)
        BY <4>1, <4>2, Zenon
      <4> QED
        BY <3>1, <4>3, Zenon DEF Follows
    <3>2. CASE ~Is(i - 1, High)
      BY <1>5, <1>6, <3>2, Zenon DEF Follows
    <3> QED
      BY <3>1, <3>2
  <2>2. ASSUME Is(L, High) PROVE FALSE
    <3>1. L \in 1..L /\ L + 1 \in 1..L
      BY <1>3, <1>5, <1>6, <2>2, Zenon
    <3> QED
      BY <1>1, <3>1
  <2> QED
    BY <2>1, <2>2
<1>7. ASSUME \A i \in 1..L : Follows(i), ~Is(L, High) PROVE WellSpelled
  <2> SUFFICES ASSUME NEW i \in 1..L
               PROVE  /\ Proper(i)
                      /\ Is(i, High) => Is(i + 1, Low)
                      /\ Is(i, Low) => Is(i - 1, High)
    BY <1>5, Zenon
  <2>1. CASE Is(i - 1, High)
    <3>1. Is(i, Low)
      BY <1>7, <2>1, Zenon DEF Follows
    <3> QED
      BY <1>3, <1>4, <2>1, <3>1, Zenon DEF Proper
  <2>2. CASE ~Is(i - 1, High)
    <3>1. Proper(i) /\ ~Is(i, Low)
      BY <1>7, <2>2, Zenon DEF Follows
    <3>2. ASSUME Is(i, High) PROVE Is(i + 1, Low)
      <4>1. i # L
        BY <1>7, <3>2, Zenon
      <4>2. i + 1 \in 1..L /\ (i + 1) - 1 = i
        BY <1>1, <4>1
      <4>3. Is((i + 1) - 1, High)
        BY <3>2, <4>2, Zenon
      <4> QED
        BY <1>7, <4>2, <4>3, Zenon DEF Follows
    <3> QED
      BY <3>1, <3>2
  <2> QED
    BY <2>1, <2>2
<1> QED
  BY <1>6, <1>7, Zenon DEF L

(* What the reader holds at the end of a string is what the string means.     *)
LEMMA ReadMeans ==
  ASSUME pieces \in Seq(Piece), NEW s, Unfolds(pieces, s),
         \A i \in 1..Len(pieces) : Follows(i)
  PROVE  s[Len(pieces)].out = Means
<1> DEFINE L == Len(pieces)
           Text(f) == f = [i \in 0..L |-> IF i = 0 THEN <<>> ELSE f[i - 1] \o Spelled(i)]
           g == [i \in 0..L |-> s[i].out]
           text == CHOOSE f : Text(f)
<1>1. s \in [0..L -> Reading] /\ s[0] = NothingYet
  BY Zenon DEF Unfolds
<1>2. \A i \in 1..L : s[i] = OnePieceMore(s[i - 1], pieces[i])
  BY Zenon DEF Unfolds
<1>3. g[0] = <<>>
  <2>1. 0 \in 0..L
    OBVIOUS
  <2> QED
    BY <1>1, <2>1 DEF NothingYet
<1>4. ASSUME NEW i \in 1..L PROVE g[i] = g[i - 1] \o Spelled(i)
  <2>1. i - 1 \in 0..L /\ i \in 0..L /\ \A j \in 1..(i - 1) : j \in 1..L
    OBVIOUS
  <2>2. s[i - 1].word = "none" /\ s[i - 1].high = Waiting(i - 1)
    BY <2>1, PiecesFollow, Zenon
  <2>3. s[i - 1] \in Reading
    BY <1>1, <2>1
  <2>4. OnePieceMore(s[i - 1], pieces[i]).out = s[i - 1].out \o Spelled(i)
    BY <2>2, <2>3, OnePieceFollows, Zenon
  <2>5. s[i].out = s[i - 1].out \o Spelled(i)
    BY <1>2, <2>4, Zenon
  <2> QED
    BY <2>1, <2>5, Zenon
<1>5. Text(g)
  <2>0. g = [i \in 0..L |-> g[i]]
    OBVIOUS
  <2> HIDE DEF g
  <2>1. \A i \in 0..L : g[i] = IF i = 0 THEN <<>> ELSE g[i - 1] \o Spelled(i)
    <3>1. \A i \in 0..L : i = 0 \/ i \in 1..L
      OBVIOUS
    <3>2. \A i \in 1..L : i # 0
      OBVIOUS
    <3> QED
      BY <1>3, <1>4, <3>1, <3>2, Zenon
  <2> QED
    BY <2>0, <2>1, Zenon
<1>6. Text(text)
  BY <1>5, Zenon
<1>7. Means = text[L]
  BY DEF Means
<1> HIDE DEF g, text
<1>8. text[0] = <<>> /\ \A i \in 1..L : text[i] = text[i - 1] \o Spelled(i)
  <2>1. \A i \in 0..L : text[i] = IF i = 0 THEN <<>> ELSE text[i - 1] \o Spelled(i)
    BY <1>6, Zenon
  <2>2. 0 \in 0..L /\ \A i \in 1..L : i \in 0..L /\ i # 0
    OBVIOUS
  <2> QED
    BY <2>1, <2>2, Zenon
<1> DEFINE R == {i \in 0..L : text[i] # g[i]}
<1>9. R = {}
  <2> SUFFICES ASSUME R # {} PROVE FALSE
    OBVIOUS
  <2>1. R \subseteq Nat
    OBVIOUS
  <2> HIDE DEF R
  <2>2. PICK i \in R : \A j \in R : i <= j
    BY <2>1, Least
  <2>3. i \in 0..L /\ text[i] # g[i]
    BY <2>2, Zenon DEF R
  <2>4. i # 0
    BY <1>3, <1>8, <2>3, Zenon
  <2>5. i \in 1..L /\ i - 1 \in 0..L /\ ~(i <= i - 1)
    BY <2>3, <2>4
  <2>6. text[i - 1] = g[i - 1]
    BY <2>2, <2>5, Zenon DEF R
  <2> QED
    BY <1>4, <1>8, <2>3, <2>5, <2>6, Zenon
<1>10. L \in 0..L
  OBVIOUS
<1>11. text[L] = g[L]
  BY <1>9, <1>10, Zenon
<1> QED
  BY <1>7, <1>10, <1>11, Zenon DEF g

(* Whatever pieces stand before a closing quote, or before the document's end,*)
(* str reads the strings of JSON for what they mean, and refuses the rest.    *)
THEOREM StringsAreThoseOfJSON ==
  ASSUME pieces \in Seq(Piece)
  PROVE  ReadsStringsOfJSON
<1> SUFFICES ASSUME NEW closed \in BOOLEAN
             PROVE  Str(pieces, closed) =
                      IF ~WellSpelled THEN Answer("bad_string", <<>>)
                      ELSE IF ~closed THEN Answer("malformed", <<>>)
                      ELSE IF WellFormed(Means) THEN Answer("none", Means)
                      ELSE Answer("bad_string", <<>>)
  BY DEF ReadsStringsOfJSON
<1> DEFINE L == Len(pieces)
<1>1. PICK s : Unfolds(pieces, s)
  BY ReadUnfolds
<1>2. L \in 0..L
  OBVIOUS
<1>3. AllRead(pieces) = s[L] /\ s[L] \in Reading
  <2>1. AllRead(pieces) = s[L] /\ s \in [0..L -> Reading]
    BY <1>1, Zenon DEF Unfolds
  <2> QED
    BY <1>2, <2>1
<1> HIDE DEF L
<1>4. CASE WellSpelled
  <2>1. (\A i \in 1..L : Follows(i)) /\ ~Is(L, High)
    BY <1>4, WellSpelledFollows, Zenon DEF L
  <2>2. s[L].word = "none" /\ s[L].high = 0
    BY <1>1, <1>2, <2>1, PiecesFollow, Zenon DEF L, Waiting
  <2>3. s[L].out = Means
    BY <1>1, <2>1, ReadMeans, Zenon DEF L
  <2>4. Means \in Seq(Octet)
    BY <1>3, <2>3, Zenon DEF Reading
  <2>5. ValidUTF8(Means) = WellFormed(Means)
    BY <2>4, ValidIsWellFormed
  <2> QED
    BY <1>3, <1>4, <2>2, <2>3, <2>5 DEF Str, Answer
<1>5. CASE ~WellSpelled
  <2>1. s[L].word # "none" \/ s[L].high # 0
    <3>1. CASE \E i \in 1..L : ~Follows(i)
      <4>1. s[L].word = "bad_string"
        BY <1>1, <1>2, <3>1, PiecesFollow, Zenon DEF L
      <4> QED
        BY <4>1
    <3>2. CASE \A i \in 1..L : Follows(i)
      <4>1. Is(L, High)
        BY <1>5, <3>2, WellSpelledFollows, Zenon DEF L
      <4>2. s[L].high = Unit(pieces[L])
        BY <1>1, <1>2, <3>2, <4>1, PiecesFollow, Zenon DEF L, Waiting
      <4>3. s[L].high # 0
        BY <4>1, <4>2, Halves, IsOfPieces, Zenon
      <4> QED
        BY <4>3
    <3> QED
      BY <3>1, <3>2, Zenon
  <2> QED
    BY <1>3, <1>5, <2>1 DEF Str, Answer
<1> QED
  BY <1>4, <1>5

(* str reads the strings of JSON for what they mean, and no others, however   *)
(* long they are and whatever escapes they mix.                               *)
THEOREM EveryJSONStringIsRead == CodecSpec => []ReadsStringsOfJSON
<1>1. CodecTypeOK => ReadsStringsOfJSON
  BY StringsAreThoseOfJSON DEF CodecTypeOK
<1> QED
  BY <1>1, CodecTypes, PTL

--------------------------------------------------------------------------------
(* The three bytes that four digits are, and the bits that one digit is.      *)
ByteOne(a, b)   == 4 * a + (b \div 16)
ByteTwo(b, c)   == (b % 16) * 16 + (c \div 4)
ByteThree(c, d) == (c % 4) * 64 + d
BitOf(a, s)     == (a \div BitPlace[s]) % 2

LEMMA BytesOfAWord ==
  ASSUME NEW a \in Digit, NEW b \in Digit, NEW c \in Digit, NEW d \in Digit, NEW w,
         w = a * 262144 + b * 4096 + c * 64 + d
  PROVE  /\ (w \div 65536) % 256 = ByteOne(a, b)
         /\ (w \div 256) % 256 = ByteTwo(b, c)
         /\ (w \div 1) % 256 = ByteThree(c, d)
         /\ ByteOne(a, b) \in Byte /\ ByteTwo(b, c) \in Byte /\ ByteThree(c, d) \in Byte
<1>1. /\ a \in Nat /\ b \in Nat /\ c \in Nat /\ d \in Nat
      /\ a <= 63 /\ b <= 63 /\ c <= 63 /\ d <= 63
  BY DEF Digit
<1> DEFINE b1 == b \div 16
           b0 == b % 16
           c1 == c \div 4
           c0 == c % 4
<1>2. /\ b1 \in Nat /\ b0 \in Nat /\ b1 <= 3 /\ b0 <= 15 /\ b = b1 * 16 + b0
      /\ c1 \in Nat /\ c0 \in Nat /\ c1 <= 15 /\ c0 <= 3 /\ c = c1 * 4 + c0
  BY <1>1, SMT
<1> DEFINE x == 4 * a + b1
           y == b0 * 16 + c1
           z == c0 * 64 + d
<1>3. x = ByteOne(a, b) /\ y = ByteTwo(b, c) /\ z = ByteThree(c, d)
  BY DEF ByteOne, ByteTwo, ByteThree
<1> HIDE DEF b1, b0, c1, c0
<1>4. x \in Nat /\ y \in Nat /\ z \in Nat /\ x <= 255 /\ y <= 255 /\ z <= 255
  BY <1>1, <1>2, SMT
<1>5. w = x * 65536 + y * 256 + z
  BY <1>1, <1>2, SMT
<1> HIDE DEF x, y, z
<1>6. x \in Byte /\ y \in Byte /\ z \in Byte
  BY <1>4, SMT DEF Byte
<1>7. (w \div 65536) % 256 = x /\ (w \div 256) % 256 = y /\ (w \div 1) % 256 = z
  BY <1>5, <1>6, BytesOfAGroup
<1> QED
  BY <1>3, <1>6, <1>7

(* The four digits of three bytes.                                            *)
LEMMA DigitsOfBytes ==
  ASSUME NEW x \in Byte, NEW y \in Byte, NEW z \in Byte, NEW n,
         n = x * 65536 + y * 256 + z
  PROVE  /\ (n \div 262144) % 64 = x \div 4
         /\ (n \div 4096) % 64 = (x % 4) * 16 + (y \div 16)
         /\ (n \div 64) % 64 = (y % 16) * 4 + (z \div 64)
         /\ (n \div 1) % 64 = z % 64
<1>1. /\ x \in Nat /\ y \in Nat /\ z \in Nat
      /\ x <= 255 /\ y <= 255 /\ z <= 255
  BY DEF Byte
<1> DEFINE x1 == x \div 4
           x0 == x % 4
           y1 == y \div 16
           y0 == y % 16
           z1 == z \div 64
           z0 == z % 64
<1>2. /\ x1 \in Nat /\ x0 \in Nat /\ x1 <= 63 /\ x0 <= 3 /\ x = x1 * 4 + x0
      /\ y1 \in Nat /\ y0 \in Nat /\ y1 <= 15 /\ y0 <= 15 /\ y = y1 * 16 + y0
      /\ z1 \in Nat /\ z0 \in Nat /\ z1 <= 3 /\ z0 <= 63 /\ z = z1 * 64 + z0
  BY <1>1, SMT
<1> HIDE DEF x1, x0, y1, y0, z1, z0
<1> DEFINE a == x1
           b == x0 * 16 + y1
           c == y0 * 4 + z1
           d == z0
<1>3. /\ a \in Nat /\ b \in Nat /\ c \in Nat /\ d \in Nat
      /\ a <= 63 /\ b <= 63 /\ c <= 63 /\ d <= 63
      /\ n = a * 262144 + b * 4096 + c * 64 + d
  BY <1>1, <1>2, SMT
<1> HIDE DEF a, b, c, d
<1>4. (n \div 262144) % 64 = a
  BY <1>3, SMT
<1>5. (n \div 4096) % 64 = b
  BY <1>3, SMT
<1>6. (n \div 64) % 64 = c
  BY <1>3, SMT
<1>7. (n \div 1) % 64 = d
  BY <1>3, SMT
<1> QED
  BY <1>4, <1>5, <1>6, <1>7 DEF a, b, c, d, x1, x0, y1, y0, z1, z0

(* A digit is its six bits.                                                   *)
LEMMA BitsOfADigit ==
  ASSUME NEW a \in Digit
  PROVE  /\ \A s \in 1..6 : BitOf(a, s) \in 0..1
         /\ a = BitOf(a, 1) * 32 + BitOf(a, 2) * 16 + BitOf(a, 3) * 8
                  + BitOf(a, 4) * 4 + BitOf(a, 5) * 2 + BitOf(a, 6)
<1>1. a \in Nat /\ a <= 63
  BY DEF Digit
<1>2. /\ BitPlace[1] = 32 /\ BitPlace[2] = 16 /\ BitPlace[3] = 8
      /\ BitPlace[4] = 4 /\ BitPlace[5] = 2 /\ BitPlace[6] = 1
  BY DEF BitPlace
<1>3. /\ BitOf(a, 1) = (a \div 32) % 2 /\ BitOf(a, 2) = (a \div 16) % 2
      /\ BitOf(a, 3) = (a \div 8) % 2 /\ BitOf(a, 4) = (a \div 4) % 2
      /\ BitOf(a, 5) = (a \div 2) % 2 /\ BitOf(a, 6) = (a \div 1) % 2
  BY <1>2 DEF BitOf
<1>4. /\ BitOf(a, 1) \in 0..1 /\ BitOf(a, 2) \in 0..1 /\ BitOf(a, 3) \in 0..1
      /\ BitOf(a, 4) \in 0..1 /\ BitOf(a, 5) \in 0..1 /\ BitOf(a, 6) \in 0..1
  BY <1>1, <1>3, SMT
<1>5. \A s \in 1..6 : s = 1 \/ s = 2 \/ s = 3 \/ s = 4 \/ s = 5 \/ s = 6
  BY SMT
<1>6. /\ a = (a \div 2) * 2 + ((a \div 1) % 2)
      /\ a \div 2 = (a \div 4) * 2 + ((a \div 2) % 2)
      /\ a \div 4 = (a \div 8) * 2 + ((a \div 4) % 2)
      /\ a \div 8 = (a \div 16) * 2 + ((a \div 8) % 2)
      /\ a \div 16 = (a \div 32) * 2 + ((a \div 16) % 2)
      /\ a \div 32 = (a \div 32) % 2
  <2>1. a = (a \div 2) * 2 + ((a \div 1) % 2)
    BY <1>1, SMT
  <2>2. a \div 2 = (a \div 4) * 2 + ((a \div 2) % 2)
    BY <1>1, SMT
  <2>3. a \div 4 = (a \div 8) * 2 + ((a \div 4) % 2)
    BY <1>1, SMT
  <2>4. a \div 8 = (a \div 16) * 2 + ((a \div 8) % 2)
    BY <1>1, SMT
  <2>5. a \div 16 = (a \div 32) * 2 + ((a \div 16) % 2)
    BY <1>1, SMT
  <2>6. a \div 32 = (a \div 32) % 2
    BY <1>1, SMT
  <2> QED
    BY <2>1, <2>2, <2>3, <2>4, <2>5, <2>6
<1>7. /\ a \div 2 \in Nat /\ a \div 4 \in Nat /\ a \div 8 \in Nat
      /\ a \div 16 \in Nat /\ a \div 32 \in Nat
  BY <1>1, SMT
<1> DEFINE h2 == a \div 2  h4 == a \div 4  h8 == a \div 8  h16 == a \div 16  h32 == a \div 32
<1>8. /\ a = h2 * 2 + BitOf(a, 6) /\ h2 = h4 * 2 + BitOf(a, 5) /\ h4 = h8 * 2 + BitOf(a, 4)
      /\ h8 = h16 * 2 + BitOf(a, 3) /\ h16 = h32 * 2 + BitOf(a, 2) /\ h32 = BitOf(a, 1)
  BY <1>3, <1>6, Zenon
<1>9. h2 \in Nat /\ h4 \in Nat /\ h8 \in Nat /\ h16 \in Nat /\ h32 \in Nat
  BY <1>7
<1> HIDE DEF h2, h4, h8, h16, h32
<1>10. a = BitOf(a, 1) * 32 + BitOf(a, 2) * 16 + BitOf(a, 3) * 8
             + BitOf(a, 4) * 4 + BitOf(a, 5) * 2 + BitOf(a, 6)
  BY <1>4, <1>8, <1>9, SMT
<1>11. \A s \in 1..6 : BitOf(a, s) \in 0..1
  BY <1>4, <1>5, Zenon
<1> QED
  BY <1>10, <1>11, Zenon

(* The parts of a digit are the bits of that part.                            *)
LEMMA PartsOfADigit ==
  ASSUME NEW a \in Digit
  PROVE  /\ a \div 16 = BitOf(a, 1) * 2 + BitOf(a, 2)
         /\ a % 16 = BitOf(a, 3) * 8 + BitOf(a, 4) * 4 + BitOf(a, 5) * 2 + BitOf(a, 6)
         /\ a \div 4 = BitOf(a, 1) * 8 + BitOf(a, 2) * 4 + BitOf(a, 3) * 2 + BitOf(a, 4)
         /\ a % 4 = BitOf(a, 5) * 2 + BitOf(a, 6)
<1> DEFINE p == BitOf(a, 1)  q == BitOf(a, 2)  r == BitOf(a, 3)
           u == BitOf(a, 4)  v == BitOf(a, 5)  w == BitOf(a, 6)
<1>1. p \in 0..1 /\ q \in 0..1 /\ r \in 0..1 /\ u \in 0..1 /\ v \in 0..1 /\ w \in 0..1
  BY BitsOfADigit
<1>2. a = p * 32 + q * 16 + r * 8 + u * 4 + v * 2 + w
  BY BitsOfADigit
<1> HIDE DEF p, q, r, u, v, w
<1>3. a \div 16 = p * 2 + q
  BY <1>1, <1>2, SMT
<1>4. a % 16 = r * 8 + u * 4 + v * 2 + w
  BY <1>1, <1>2, SMT
<1>5. a \div 4 = p * 8 + q * 4 + r * 2 + u
  BY <1>1, <1>2, SMT
<1>6. a % 4 = v * 2 + w
  BY <1>1, <1>2, SMT
<1> QED
  BY <1>3, <1>4, <1>5, <1>6 DEF p, q, r, u, v, w

(* The bits of a text are those of its digits, six and six.                   *)
LEMMA BitsOfAText ==
  ASSUME NEW t, NEW q \in Nat, NEW s \in 1..6, NEW i, i = 6 * q + s
  PROVE  Bit(t, i) = BitOf(t[q + 1], s)
<1>1. (i - 1) \div 6 = q /\ (i - 1) % 6 = s - 1
  BY SMT
<1>2. (s - 1) + 1 = s
  OBVIOUS
<1> QED
  BY <1>1, <1>2 DEF Bit, BitOf

(* Eight bits from where a byte of a group begins are that byte.              *)
LEMMA EightIsAByte ==
  ASSUME NEW t, NEW g \in Nat, NEW a, NEW b, NEW c, NEW d,
         a = t[4 * g + 1], b = t[4 * g + 2], c = t[4 * g + 3], d = t[4 * g + 4]
  PROVE  /\ a \in Digit /\ b \in Digit => Eight(t, 24 * g) = ByteOne(a, b)
         /\ b \in Digit /\ c \in Digit => Eight(t, 24 * g + 8) = ByteTwo(b, c)
         /\ c \in Digit /\ d \in Digit => Eight(t, 24 * g + 16) = ByteThree(c, d)
<1> DEFINE f == 24 * g
<1>1. \A s \in 1..6 : /\ Bit(t, f + s) = BitOf(a, s)
                      /\ Bit(t, f + 6 + s) = BitOf(b, s)
                      /\ Bit(t, f + 12 + s) = BitOf(c, s)
                      /\ Bit(t, f + 18 + s) = BitOf(d, s)
  <2> TAKE s \in 1..6
  <2>1. /\ 4 * g \in Nat /\ 4 * g + 1 \in Nat /\ 4 * g + 2 \in Nat /\ 4 * g + 3 \in Nat
        /\ (4 * g + 1) + 1 = 4 * g + 2 /\ (4 * g + 2) + 1 = 4 * g + 3 /\ (4 * g + 3) + 1 = 4 * g + 4
        /\ f + s = 6 * (4 * g) + s /\ f + 6 + s = 6 * (4 * g + 1) + s
        /\ f + 12 + s = 6 * (4 * g + 2) + s /\ f + 18 + s = 6 * (4 * g + 3) + s
    OBVIOUS
  <2>6. \A q \in Nat : \A i : i = 6 * q + s => Bit(t, i) = BitOf(t[q + 1], s)
    BY BitsOfAText
  <2> HIDE DEF f
  <2>2. Bit(t, f + s) = BitOf(t[4 * g + 1], s)
    BY <2>1, <2>6, Zenon
  <2>3. Bit(t, f + 6 + s) = BitOf(t[(4 * g + 1) + 1], s)
    BY <2>1, <2>6, Zenon
  <2>4. Bit(t, f + 12 + s) = BitOf(t[(4 * g + 2) + 1], s)
    BY <2>1, <2>6, Zenon
  <2>5. Bit(t, f + 18 + s) = BitOf(t[(4 * g + 3) + 1], s)
    BY <2>1, <2>6, Zenon
  <2> QED
    BY <2>1, <2>2, <2>3, <2>4, <2>5
<1>2. f \in Nat
  OBVIOUS
<1> HIDE DEF f
<1>3. Eight(t, f) = BitOf(a, 1) * 128 + BitOf(a, 2) * 64 + BitOf(a, 3) * 32 + BitOf(a, 4) * 16
                      + BitOf(a, 5) * 8 + BitOf(a, 6) * 4 + BitOf(b, 1) * 2 + BitOf(b, 2)
  <2>1. f + 7 = f + 6 + 1 /\ f + 8 = f + 6 + 2
    BY <1>2
  <2> QED
    BY <1>1, <2>1 DEF Eight
<1>4. Eight(t, f + 8) = BitOf(b, 3) * 128 + BitOf(b, 4) * 64 + BitOf(b, 5) * 32 + BitOf(b, 6) * 16
                          + BitOf(c, 1) * 8 + BitOf(c, 2) * 4 + BitOf(c, 3) * 2 + BitOf(c, 4)
  <2>1. /\ f + 8 + 1 = f + 6 + 3 /\ f + 8 + 2 = f + 6 + 4 /\ f + 8 + 3 = f + 6 + 5
        /\ f + 8 + 4 = f + 6 + 6 /\ f + 8 + 5 = f + 12 + 1 /\ f + 8 + 6 = f + 12 + 2
        /\ f + 8 + 7 = f + 12 + 3 /\ f + 8 + 8 = f + 12 + 4
    BY <1>2
  <2> QED
    BY <1>1, <2>1 DEF Eight
<1>5. Eight(t, f + 16) = BitOf(c, 5) * 128 + BitOf(c, 6) * 64 + BitOf(d, 1) * 32 + BitOf(d, 2) * 16
                           + BitOf(d, 3) * 8 + BitOf(d, 4) * 4 + BitOf(d, 5) * 2 + BitOf(d, 6)
  <2>1. /\ f + 16 + 1 = f + 12 + 5 /\ f + 16 + 2 = f + 12 + 6 /\ f + 16 + 3 = f + 18 + 1
        /\ f + 16 + 4 = f + 18 + 2 /\ f + 16 + 5 = f + 18 + 3 /\ f + 16 + 6 = f + 18 + 4
        /\ f + 16 + 7 = f + 18 + 5 /\ f + 16 + 8 = f + 18 + 6
    BY <1>2
  <2> QED
    BY <1>1, <2>1 DEF Eight
<1>6. ASSUME NEW u \in Digit PROVE \A s \in 1..6 : BitOf(u, s) \in 0..1
  BY BitsOfADigit
<1>7. ASSUME a \in Digit, b \in Digit PROVE Eight(t, f) = ByteOne(a, b)
  <2>1. a = BitOf(a, 1) * 32 + BitOf(a, 2) * 16 + BitOf(a, 3) * 8
              + BitOf(a, 4) * 4 + BitOf(a, 5) * 2 + BitOf(a, 6)
    BY <1>7, BitsOfADigit
  <2>2. b \div 16 = BitOf(b, 1) * 2 + BitOf(b, 2)
    BY <1>7, PartsOfADigit
  <2> QED
    BY <1>3, <1>6, <1>7, <2>1, <2>2, SMT DEF ByteOne
<1>8. ASSUME b \in Digit, c \in Digit PROVE Eight(t, f + 8) = ByteTwo(b, c)
  <2>1. /\ b % 16 = BitOf(b, 3) * 8 + BitOf(b, 4) * 4 + BitOf(b, 5) * 2 + BitOf(b, 6)
        /\ c \div 4 = BitOf(c, 1) * 8 + BitOf(c, 2) * 4 + BitOf(c, 3) * 2 + BitOf(c, 4)
    BY <1>8, PartsOfADigit
  <2> QED
    BY <1>4, <1>6, <1>8, <2>1, SMT DEF ByteTwo
<1>9. ASSUME c \in Digit, d \in Digit PROVE Eight(t, f + 16) = ByteThree(c, d)
  <2>1. /\ c % 4 = BitOf(c, 5) * 2 + BitOf(c, 6)
        /\ d = BitOf(d, 1) * 32 + BitOf(d, 2) * 16 + BitOf(d, 3) * 8
                 + BitOf(d, 4) * 4 + BitOf(d, 5) * 2 + BitOf(d, 6)
    BY <1>9, BitsOfADigit, PartsOfADigit
  <2> QED
    BY <1>5, <1>6, <1>9, <2>1, SMT DEF ByteThree
<1> QED
  BY <1>7, <1>8, <1>9 DEF f

(* Where the padding is where it may be, the digits before it are the text's, *)
(* and there is one place where they end.                                     *)
LEMMA PaddingEnds ==
  ASSUME NEW t \in Seq(Char)
  PROVE  /\ WellPadded(t) <=> Len(t) % 4 = 0 /\ \E n \in 0..Len(t) : Ends(t, n)
         /\ WellPadded(t) =>
              /\ Padding(t) \in 0..2 /\ Padding(t) <= Len(t)
              /\ Ends(t, Len(t) - Padding(t))
              /\ \A n \in 0..Len(t) : Ends(t, n) => n = Len(t) - Padding(t)
<1> DEFINE L == Len(t)
           p == Padding(t)
<1>1. L \in Nat /\ Pad \notin Digit
  BY CharactersAssumption DEF Digit
<1>2. ASSUME WellPadded(t) PROVE p \in 0..2 /\ p <= L /\ Ends(t, L - p)
  <2>1. /\ L % 4 = 0
        /\ \A k \in 1..L : \/ t[k] \in Digit
                           \/ t[k] = Pad /\ k = L
                           \/ t[k] = Pad /\ k = L - 1 /\ t[L] = Pad
    BY <1>2, Zenon DEF WellPadded
  <2>2. L = 0 \/ L >= 4
    BY <1>1, <2>1, SMT
  <2>3. CASE L = 0
    <3>1. p = 0
      BY <2>3 DEF Padding
    <3> QED
      BY <2>3, <3>1 DEF Ends
  <2>4. CASE L >= 4 /\ t[L] # Pad
    <3>1. p = 0
      BY <2>4 DEF Padding
    <3>2. \A k \in 1..L : t[k] \in Digit
      BY <2>1, <2>4, Zenon
    <3> QED
      BY <1>1, <3>1, <3>2 DEF Ends
  <2>5. CASE L >= 4 /\ t[L] = Pad /\ t[L - 1] # Pad
    <3>1. p = 1
      BY <2>5 DEF Padding
    <3>2. \A k \in 1..(L - 1) : k \in 1..L /\ k # L
      BY <1>1
    <3>3. \A k \in 1..(L - 1) : t[k] \in Digit
      BY <2>1, <2>5, <3>2, Zenon
    <3>4. \A k \in ((L - 1) + 1)..L : k = L
      BY <1>1
    <3>5. Ends(t, L - 1)
      BY <1>1, <2>5, <3>3, <3>4 DEF Ends
    <3> QED
      BY <2>5, <3>1, <3>5
  <2>6. CASE L >= 4 /\ t[L] = Pad /\ t[L - 1] = Pad
    <3>1. p = 2
      BY <2>6 DEF Padding
    <3>2. \A k \in 1..(L - 2) : k \in 1..L /\ k # L /\ k # L - 1
      BY <1>1
    <3>3. \A k \in 1..(L - 2) : t[k] \in Digit
      BY <2>1, <2>6, <3>2, Zenon
    <3>4. \A k \in ((L - 2) + 1)..L : k = L \/ k = L - 1
      BY <1>1
    <3>5. Ends(t, L - 2)
      BY <1>1, <2>6, <3>3, <3>4 DEF Ends
    <3> QED
      BY <2>6, <3>1, <3>5
  <2> QED
    BY <2>2, <2>3, <2>4, <2>5, <2>6
<1>3. ASSUME L % 4 = 0, NEW n \in 0..L, Ends(t, n) PROVE WellPadded(t)
  <2>1. ASSUME NEW k \in 1..L
        PROVE  \/ t[k] \in Digit
               \/ t[k] = Pad /\ k = L
               \/ t[k] = Pad /\ k = L - 1 /\ t[L] = Pad
    <3>1. CASE k <= n
      <4>1. k \in 1..n
        BY <3>1
      <4> QED
        BY <1>3, <4>1, Zenon DEF Ends
    <3>2. CASE k > n
      <4>1. k \in (n + 1)..L /\ L \in (n + 1)..L
        BY <1>1, <3>2
      <4>2. t[k] = Pad /\ t[L] = Pad /\ n >= L - 2
        BY <1>3, <4>1, Zenon DEF Ends
      <4>3. k = L \/ k = L - 1
        BY <1>1, <3>2, <4>2
      <4> QED
        BY <4>2, <4>3
    <3> QED
      BY <3>1, <3>2
  <2> QED
    BY <1>3, <2>1, Zenon DEF WellPadded
<1>4. ASSUME NEW i \in 0..L, NEW n \in 0..L, Ends(t, i), Ends(t, n) PROVE ~(i < n)
  <2> SUFFICES ASSUME i < n PROVE FALSE
    OBVIOUS
  <2>1. i + 1 \in 1..n /\ i + 1 \in (i + 1)..L
    BY <1>1
  <2>2. t[i + 1] \in Digit /\ t[i + 1] = Pad
    BY <1>4, <2>1, Zenon DEF Ends
  <2> QED
    BY <1>1, <2>2
<1> HIDE DEF L, p
<1>5. WellPadded(t) => \A n \in 0..L : Ends(t, n) => n = L - p
  <2>1. ASSUME WellPadded(t), NEW n \in 0..L, Ends(t, n) PROVE n = L - p
    <3>1. L - p \in 0..L /\ Ends(t, L - p)
      BY <1>1, <1>2, <2>1
    <3>2. ~(n < L - p) /\ ~(L - p < n)
      BY <1>4, <2>1, <3>1, Zenon
    <3> QED
      BY <1>1, <3>1, <3>2
  <2> QED
    BY <2>1
<1>6. WellPadded(t) => L % 4 = 0 /\ \E n \in 0..L : Ends(t, n)
  <2>1. ASSUME WellPadded(t) PROVE L - p \in 0..L
    BY <1>1, <1>2, <2>1
  <2>2. WellPadded(t) => L % 4 = 0
    BY DEF WellPadded, L
  <2> QED
    BY <1>2, <2>1, <2>2, Zenon
<1> QED
  BY <1>2, <1>3, <1>5, <1>6, Zenon DEF L, p

(* The shape of a text with its padding where it may be: m groups of four,    *)
(* the last with p characters of padding.                                     *)
Shape(t, m, p) ==
    /\ m \in Nat /\ p \in 0..2 /\ p <= m + m
    /\ Len(t) = 4 * m /\ Padding(t) = p
    /\ \A k \in 1..(4 * m - p) : t[k] \in Digit
    /\ \A k \in (4 * m - p + 1)..(4 * m) : t[k] = Pad

LEMMA PaddedShape ==
  ASSUME NEW t \in Seq(Char), WellPadded(t)
  PROVE  Shape(t, Len(t) \div 4, Padding(t))
<1> DEFINE m == Len(t) \div 4
           p == Padding(t)
<1>1. Len(t) \in Nat /\ Len(t) % 4 = 0
  BY DEF WellPadded
<1>2. m \in Nat /\ Len(t) = 4 * m
  BY <1>1, SMT
<1>3. p \in 0..2 /\ p <= Len(t) /\ Ends(t, Len(t) - p)
  BY PaddingEnds, Zenon
<1> HIDE DEF m, p
<1>4. p <= m + m
  BY <1>2, <1>3
<1>5. Ends(t, 4 * m - p)
  BY <1>2, <1>3, Zenon
<1>6. /\ \A k \in 1..(4 * m - p) : t[k] \in Digit
      /\ \A k \in (4 * m - p + 1)..(4 * m) : t[k] = Pad
  BY <1>2, <1>5, Zenon DEF Ends
<1> QED
  BY <1>2, <1>3, <1>4, <1>6, Zenon DEF Shape, m, p

(* The digits of a group, and which of them stand in the text.                *)
LEMMA DigitsOfAShape ==
  ASSUME NEW t, NEW m, NEW p, Shape(t, m, p), NEW g \in 0..(m - 1), NEW j \in 1..4
  PROVE  /\ DigitAt(t, 4 * g + j) \in Digit
         /\ g < m - 1 \/ j <= 4 - p => t[4 * g + j] \in Digit /\ t[4 * g + j] = DigitAt(t, 4 * g + j)
         /\ ~(g < m - 1 \/ j <= 4 - p) => t[4 * g + j] = Pad /\ DigitAt(t, 4 * g + j) = 0
<1>1. m \in Nat /\ p \in 0..2
  BY Zenon DEF Shape
<1>2. 0 \in Digit /\ Pad \notin Digit
  BY CharactersAssumption DEF Digit
<1> DEFINE k == 4 * g + j
<1>3. g < m - 1 \/ j <= 4 - p => k \in 1..(4 * m - p)
  BY <1>1
<1>4. ~(g < m - 1 \/ j <= 4 - p) => k \in (4 * m - p + 1)..(4 * m)
  BY <1>1
<1> HIDE DEF k
<1>5. CASE g < m - 1 \/ j <= 4 - p
  <2>1. t[k] \in Digit
    BY <1>3, <1>5, Zenon DEF Shape
  <2> QED
    BY <1>2, <1>5, <2>1 DEF DigitAt, k
<1>6. CASE ~(g < m - 1 \/ j <= 4 - p)
  <2>1. t[k] = Pad
    BY <1>4, <1>6, Zenon DEF Shape
  <2> QED
    BY <1>2, <1>6, <2>1 DEF DigitAt, k
<1> QED
  BY <1>5, <1>6

(* The bytes of a text are those of its groups.                               *)
LEMMA BytesOfAShape ==
  ASSUME NEW t, NEW m, NEW p, Shape(t, m, p)
  PROVE  /\ Bytes(t) \in Seq(Byte)
         /\ Len(Bytes(t)) = 3 * m - p
         /\ \A g \in 0..(m - 1) :
              LET a == DigitAt(t, 4 * g + 1)
                  b == DigitAt(t, 4 * g + 2)
                  c == DigitAt(t, 4 * g + 3)
                  d == DigitAt(t, 4 * g + 4)
              IN  /\ Bytes(t)[3 * g + 1] = ByteOne(a, b)
                  /\ g < m - 1 \/ p < 2 => Bytes(t)[3 * g + 2] = ByteTwo(b, c)
                  /\ g < m - 1 \/ p < 1 => Bytes(t)[3 * g + 3] = ByteThree(c, d)
<1> DEFINE v == Bytes(t)
           size == 3 * m - p
           A(g) == DigitAt(t, 4 * g + 1)
           B(g) == DigitAt(t, 4 * g + 2)
           C(g) == DigitAt(t, 4 * g + 3)
           D(g) == DigitAt(t, 4 * g + 4)
<1>1. m \in Nat /\ p \in 0..2 /\ p <= m + m /\ size \in Nat
  <2>1. m \in Nat /\ p \in 0..2 /\ p <= m + m
    BY Zenon DEF Shape
  <2> QED
    BY <2>1
<1>2. v = [k \in 1..size |-> (Word(t, (k - 1) \div 3) \div BytePlace[((k - 1) % 3) + 1]) % 256]
  <2>1. Len(t) = 4 * m /\ Padding(t) = p
    BY Zenon DEF Shape
  <2>2. 3 * (Len(t) \div 4) - Padding(t) = size
    BY <1>1, <2>1, SMT
  <2> QED
    BY <2>2, Zenon DEF Bytes
<1>3. BytePlace[1] = 65536 /\ BytePlace[2] = 256 /\ BytePlace[3] = 1
  BY SMT DEF BytePlace
<1> HIDE DEF v
<1>4. ASSUME NEW g \in 0..(m - 1)
      PROVE  /\ (Word(t, g) \div BytePlace[1]) % 256 = ByteOne(A(g), B(g))
             /\ (Word(t, g) \div BytePlace[2]) % 256 = ByteTwo(B(g), C(g))
             /\ (Word(t, g) \div BytePlace[3]) % 256 = ByteThree(C(g), D(g))
             /\ ByteOne(A(g), B(g)) \in Byte /\ ByteTwo(B(g), C(g)) \in Byte
             /\ ByteThree(C(g), D(g)) \in Byte
  <2>1. A(g) \in Digit /\ B(g) \in Digit /\ C(g) \in Digit /\ D(g) \in Digit
    BY DigitsOfAShape
  <2>2. Word(t, g) = A(g) * 262144 + B(g) * 4096 + C(g) * 64 + D(g)
    BY SMT DEF Word
  <2> HIDE DEF A, B, C, D
  <2>3. /\ (Word(t, g) \div 65536) % 256 = ByteOne(A(g), B(g))
        /\ (Word(t, g) \div 256) % 256 = ByteTwo(B(g), C(g))
        /\ (Word(t, g) \div 1) % 256 = ByteThree(C(g), D(g))
        /\ ByteOne(A(g), B(g)) \in Byte /\ ByteTwo(B(g), C(g)) \in Byte
        /\ ByteThree(C(g), D(g)) \in Byte
    BY <2>1, <2>2, BytesOfAWord
  <2> QED
    BY <1>3, <2>3
<1> HIDE DEF A, B, C, D
<1>5. ASSUME NEW g \in 0..(m - 1)
      PROVE  /\ v[3 * g + 1] = ByteOne(A(g), B(g))
             /\ g < m - 1 \/ p < 2 => v[3 * g + 2] = ByteTwo(B(g), C(g))
             /\ g < m - 1 \/ p < 1 => v[3 * g + 3] = ByteThree(C(g), D(g))
  <2>1. /\ ((3 * g + 1) - 1) \div 3 = g /\ (((3 * g + 1) - 1) % 3) + 1 = 1
        /\ ((3 * g + 2) - 1) \div 3 = g /\ (((3 * g + 2) - 1) % 3) + 1 = 2
        /\ ((3 * g + 3) - 1) \div 3 = g /\ (((3 * g + 3) - 1) % 3) + 1 = 3
    BY <1>1, SMT
  <2>2. /\ 3 * g + 1 \in 1..size
        /\ g < m - 1 \/ p < 2 => 3 * g + 2 \in 1..size
        /\ g < m - 1 \/ p < 1 => 3 * g + 3 \in 1..size
    BY <1>1, SMT
  <2> HIDE DEF size
  <2>3. \A k \in 1..size : v[k] = (Word(t, (k - 1) \div 3) \div BytePlace[((k - 1) % 3) + 1]) % 256
    BY <1>2, Zenon
  <2>4. v[3 * g + 1] = ByteOne(A(g), B(g))
    BY <1>4, <2>1, <2>2, <2>3
  <2>5. g < m - 1 \/ p < 2 => v[3 * g + 2] = ByteTwo(B(g), C(g))
    BY <1>4, <2>1, <2>2, <2>3
  <2>6. g < m - 1 \/ p < 1 => v[3 * g + 3] = ByteThree(C(g), D(g))
    BY <1>4, <2>1, <2>2, <2>3
  <2> QED
    BY <2>4, <2>5, <2>6
<1>6. v \in Seq(Byte) /\ Len(v) = size
  <2>1. ASSUME NEW k \in 1..size
        PROVE  (Word(t, (k - 1) \div 3) \div BytePlace[((k - 1) % 3) + 1]) % 256 \in Byte
    <3>1. (k - 1) \div 3 \in 0..(m - 1)
      BY <1>1, SMT
    <3>2. ((k - 1) % 3) + 1 \in {1, 2, 3}
      BY <1>1, SMT
    <3> QED
      BY <1>4, <3>1, <3>2
  <2> HIDE DEF size
  <2>2. v \in [1..size -> Byte]
    BY <1>2, <2>1, Zenon
  <2> QED
    BY <1>1, <2>2
<1> QED
  BY <1>5, <1>6 DEF v, A, B, C, D

(* What is left of the last digit after whole bytes is zeros.                 *)
LastDigit(t, m, j) == DigitAt(t, 4 * (m - 1) + j)
Zeros(t, m, p) ==
    /\ p = 1 => LastDigit(t, m, 3) % 4 = 0
    /\ p = 2 => LastDigit(t, m, 2) % 16 = 0

LEMMA PartsOfBytes ==
  ASSUME NEW a \in Digit, NEW b \in Digit, NEW c \in Digit, NEW d \in Digit
  PROVE  /\ ByteOne(a, b) \div 4 = a /\ ByteOne(a, b) % 4 = b \div 16
         /\ ByteTwo(b, c) \div 16 = b % 16 /\ ByteTwo(b, c) % 16 = c \div 4
         /\ ByteThree(c, d) \div 64 = c % 4 /\ ByteThree(c, d) % 64 = d
         /\ b = (b \div 16) * 16 + (b % 16) /\ c = (c \div 4) * 4 + (c % 4)
<1>1. /\ a \in Nat /\ b \in Nat /\ c \in Nat /\ d \in Nat
      /\ a <= 63 /\ b <= 63 /\ c <= 63 /\ d <= 63
  BY DEF Digit
<1>2. ByteOne(a, b) \div 4 = a /\ ByteOne(a, b) % 4 = b \div 16
  BY <1>1, SMT DEF ByteOne
<1>3. ByteTwo(b, c) \div 16 = b % 16 /\ ByteTwo(b, c) % 16 = c \div 4
  BY <1>1, SMT DEF ByteTwo
<1>4. ByteThree(c, d) \div 64 = c % 4 /\ ByteThree(c, d) % 64 = d
  BY <1>1, SMT DEF ByteThree
<1>5. b = (b \div 16) * 16 + (b % 16) /\ c = (c \div 4) * 4 + (c % 4)
  BY <1>1, SMT
<1> QED
  BY <1>2, <1>3, <1>4, <1>5

(* Writing the bytes of a text again, group by group.                         *)
LEMMA GroupWrittenAgain ==
  ASSUME NEW t, NEW m, NEW p, Shape(t, m, p), NEW g \in 0..(m - 1)
  PROVE  LET enc == EncodeBinary(Bytes(t))
         IN  /\ enc[4 * g + 1] = t[4 * g + 1]
             /\ enc[4 * g + 2] = t[4 * g + 2]
                  <=> (g = m - 1 /\ p = 2 => DigitAt(t, 4 * g + 2) % 16 = 0)
             /\ enc[4 * g + 3] = t[4 * g + 3]
                  <=> (g = m - 1 /\ p = 1 => DigitAt(t, 4 * g + 3) % 4 = 0)
             /\ enc[4 * g + 4] = t[4 * g + 4]
<1> DEFINE v == Bytes(t)
           enc == EncodeBinary(v)
           a == DigitAt(t, 4 * g + 1)
           b == DigitAt(t, 4 * g + 2)
           c == DigitAt(t, 4 * g + 3)
           d == DigitAt(t, 4 * g + 4)
           x == ByteOne(a, b)
           y == IF g < m - 1 \/ p < 2 THEN ByteTwo(b, c) ELSE 0
           z == IF g < m - 1 \/ p < 1 THEN ByteThree(c, d) ELSE 0
           n == Group(v, g)
<1>1. m \in Nat /\ p \in 0..2 /\ g \in Nat /\ g <= m - 1
  <2>1. m \in Nat /\ p \in 0..2
    BY Zenon DEF Shape
  <2> QED
    BY <2>1
<1>2. a \in Digit /\ b \in Digit /\ c \in Digit /\ d \in Digit
  BY DigitsOfAShape
<1>3. /\ t[4 * g + 1] = a
      /\ g < m - 1 \/ 2 <= 4 - p => t[4 * g + 2] = b
      /\ g < m - 1 \/ 3 <= 4 - p => t[4 * g + 3] = c
      /\ g < m - 1 \/ 4 <= 4 - p => t[4 * g + 4] = d
      /\ ~(g < m - 1 \/ 3 <= 4 - p) => t[4 * g + 3] = Pad
      /\ ~(g < m - 1 \/ 4 <= 4 - p) => t[4 * g + 4] = Pad
  <2>1. 1 \in 1..4 /\ 2 \in 1..4 /\ 3 \in 1..4 /\ 4 \in 1..4 /\ 1 <= 4 - p
    BY <1>1
  <2>2. \A j \in 1..4 :
          /\ g < m - 1 \/ j <= 4 - p => t[4 * g + j] = DigitAt(t, 4 * g + j)
          /\ ~(g < m - 1 \/ j <= 4 - p) => t[4 * g + j] = Pad
    BY DigitsOfAShape, Zenon
  <2> QED
    BY <2>1, <2>2, Zenon
<1>4. v \in Seq(Byte) /\ Len(v) = 3 * m - p
  BY BytesOfAShape
<1>5. /\ v[3 * g + 1] = x
      /\ g < m - 1 \/ p < 2 => v[3 * g + 2] = ByteTwo(b, c)
      /\ g < m - 1 \/ p < 1 => v[3 * g + 3] = ByteThree(c, d)
  BY BytesOfAShape
<1>6. x \in Byte /\ y \in Byte /\ z \in Byte
  <2>1. 0 \in Byte
    BY DEF Byte
  <2>2. ByteOne(a, b) \in Byte /\ ByteTwo(b, c) \in Byte /\ ByteThree(c, d) \in Byte
    <3> HIDE DEF a, b, c, d
    <3> QED
      BY <1>2, BytesOfAWord
  <2> QED
    BY <2>1, <2>2
<1>7. /\ x \div 4 = a /\ x % 4 = b \div 16
      /\ ByteTwo(b, c) \div 16 = b % 16 /\ ByteTwo(b, c) % 16 = c \div 4
      /\ ByteThree(c, d) \div 64 = c % 4 /\ ByteThree(c, d) % 64 = d
      /\ b = (b \div 16) * 16 + (b % 16) /\ c = (c \div 4) * 4 + (c % 4)
  <2> HIDE DEF a, b, c, d
  <2> QED
    BY <1>2, PartsOfBytes
<1> HIDE DEF v, a, b, c, d
<1>8. n = x * 65536 + y * 256 + z
  <2>1. /\ 3 * g + 1 <= Len(v)
        /\ 3 * g + 2 <= Len(v) <=> g < m - 1 \/ p < 2
        /\ 3 * g + 3 <= Len(v) <=> g < m - 1 \/ p < 1
    BY <1>1, <1>4, SMT
  <2>2. ByteAt(v, 3 * g + 1) = x /\ ByteAt(v, 3 * g + 2) = y /\ ByteAt(v, 3 * g + 3) = z
    BY <1>5, <2>1, Zenon DEF ByteAt
  <2> QED
    BY <2>2, SMT DEF Group
<1> HIDE DEF n
<1>9. /\ (n \div DigitPlace[1]) % 64 = x \div 4
      /\ (n \div DigitPlace[2]) % 64 = (x % 4) * 16 + (y \div 16)
      /\ (n \div DigitPlace[3]) % 64 = (y % 16) * 4 + (z \div 64)
      /\ (n \div DigitPlace[4]) % 64 = z % 64
  <2> HIDE DEF x, y, z
  <2>1. DigitPlace[1] = 262144 /\ DigitPlace[2] = 4096 /\ DigitPlace[3] = 64 /\ DigitPlace[4] = 1
    BY SMT DEF DigitPlace
  <2>2. /\ (n \div 262144) % 64 = x \div 4
        /\ (n \div 4096) % 64 = (x % 4) * 16 + (y \div 16)
        /\ (n \div 64) % 64 = (y % 16) * 4 + (z \div 64)
        /\ (n \div 1) % 64 = z % 64
    BY <1>6, <1>8, DigitsOfBytes
  <2> QED
    BY <2>1, <2>2
<1>10. /\ enc[4 * g + 1] = (n \div DigitPlace[1]) % 64
       /\ enc[4 * g + 2] = (n \div DigitPlace[2]) % 64
       /\ enc[4 * g + 3] = IF g < m - 1 \/ p < 2 THEN (n \div DigitPlace[3]) % 64 ELSE Pad
       /\ enc[4 * g + 4] = IF g < m - 1 \/ p < 1 THEN (n \div DigitPlace[4]) % 64 ELSE Pad
  <2>1. /\ 3 * g < Len(v) /\ ~(3 * g + 0 > Len(v)) /\ ~(3 * g + 1 > Len(v))
        /\ 3 * g + 2 > Len(v) <=> ~(g < m - 1 \/ p < 2)
        /\ 3 * g + 3 > Len(v) <=> ~(g < m - 1 \/ p < 1)
    BY <1>1, <1>4, SMT
  <2>2. \A j \in 0..3 : enc[4 * g + j + 1] =
            IF 3 * g + j > Len(v) THEN Pad ELSE (n \div DigitPlace[j + 1]) % 64
    BY <1>1, <1>4, <2>1, TextOfAValue, Zenon DEF n
  <2>3. /\ 4 * g + 0 + 1 = 4 * g + 1 /\ 4 * g + 1 + 1 = 4 * g + 2
        /\ 4 * g + 2 + 1 = 4 * g + 3 /\ 4 * g + 3 + 1 = 4 * g + 4
        /\ 0 + 1 = 1 /\ 1 + 1 = 2 /\ 2 + 1 = 3 /\ 3 + 1 = 4
        /\ 0 \in 0..3 /\ 1 \in 0..3 /\ 2 \in 0..3 /\ 3 \in 0..3
    BY <1>1, SMT
  <2> HIDE DEF enc
  <2>4. enc[4 * g + 1] = (n \div DigitPlace[1]) % 64
    BY <2>1, <2>2, <2>3, Zenon
  <2>5. enc[4 * g + 2] = (n \div DigitPlace[2]) % 64
    BY <2>1, <2>2, <2>3, Zenon
  <2>6. enc[4 * g + 3] = IF g < m - 1 \/ p < 2 THEN (n \div DigitPlace[3]) % 64 ELSE Pad
    BY <2>1, <2>2, <2>3, Zenon
  <2>7. enc[4 * g + 4] = IF g < m - 1 \/ p < 1 THEN (n \div DigitPlace[4]) % 64 ELSE Pad
    BY <2>1, <2>2, <2>3, Zenon
  <2> QED
    BY <2>4, <2>5, <2>6, <2>7
<1> HIDE DEF enc, x
<1>11. b \div 16 \in Nat /\ b % 16 \in Nat /\ c \div 4 \in Nat /\ c % 4 \in Nat
  BY <1>2, SMT DEF Digit
<1>12. enc[4 * g + 1] = t[4 * g + 1]
  BY <1>3, <1>7, <1>9, <1>10, Zenon
<1>13. enc[4 * g + 2] = t[4 * g + 2] <=> (g = m - 1 /\ p = 2 => b % 16 = 0)
  <2>1. t[4 * g + 2] = b
    BY <1>1, <1>3
  <2>2. g < m - 1 \/ p < 2 <=> ~(g = m - 1 /\ p = 2)
    BY <1>1
  <2>3. CASE g < m - 1 \/ p < 2
    <3>1. y \div 16 = b % 16
      BY <1>7, <2>3
    <3> QED
      BY <1>7, <1>9, <1>10, <2>1, <2>2, <2>3, <3>1, Zenon
  <2>4. CASE ~(g < m - 1 \/ p < 2)
    <3>1. y \div 16 = 0
      BY <2>4
    <3>2. enc[4 * g + 2] = (b \div 16) * 16
      BY <1>7, <1>9, <1>10, <1>11, <3>1
    <3> QED
      BY <1>7, <1>11, <2>1, <2>2, <2>4, <3>2
  <2> QED
    BY <2>3, <2>4
<1>14. enc[4 * g + 3] = t[4 * g + 3] <=> (g = m - 1 /\ p = 1 => c % 4 = 0)
  <2>1. CASE g < m - 1 \/ p < 1
    <3>1. t[4 * g + 3] = c /\ ~(g = m - 1 /\ p = 1)
      BY <1>1, <1>3, <2>1
    <3>2. y % 16 = c \div 4 /\ z \div 64 = c % 4 /\ (g < m - 1 \/ p < 2)
      BY <1>1, <1>7, <2>1
    <3> QED
      BY <1>7, <1>9, <1>10, <3>1, <3>2, Zenon
  <2>2. CASE g = m - 1 /\ p = 1
    <3>1. t[4 * g + 3] = c
      BY <1>1, <1>3, <2>2
    <3>2. y % 16 = c \div 4 /\ z \div 64 = 0 /\ (g < m - 1 \/ p < 2)
      BY <1>1, <1>7, <2>2
    <3>3. enc[4 * g + 3] = (c \div 4) * 4
      BY <1>9, <1>10, <1>11, <3>2
    <3> QED
      BY <1>7, <1>11, <2>2, <3>1, <3>3
  <2>3. CASE g = m - 1 /\ p = 2
    <3>1. t[4 * g + 3] = Pad /\ ~(g < m - 1 \/ p < 2) /\ p # 1
      BY <1>1, <1>3, <2>3
    <3> QED
      BY <1>10, <3>1, Zenon
  <2> QED
    BY <1>1, <2>1, <2>2, <2>3
<1>15. enc[4 * g + 4] = t[4 * g + 4]
  <2>1. CASE g < m - 1 \/ p < 1
    <3>1. t[4 * g + 4] = d
      BY <1>1, <1>3, <2>1
    <3>2. z % 64 = d
      BY <1>7, <2>1
    <3> QED
      BY <1>9, <1>10, <2>1, <3>1, <3>2, Zenon
  <2>2. CASE ~(g < m - 1 \/ p < 1)
    <3>1. t[4 * g + 4] = Pad
      BY <1>1, <1>3, <2>2
    <3> QED
      BY <1>10, <2>2, <3>1, Zenon
  <2> QED
    BY <2>1, <2>2
<1> QED
  BY <1>12, <1>13, <1>14, <1>15, Zenon DEF enc, v, b, c

(* The bytes of a text are written as it was spelled where the bits that no   *)
(* byte takes are zeros, and nowhere else.                                    *)
LEMMA WrittenAsSpelled ==
  ASSUME NEW t \in Seq(Char), NEW m, NEW p, Shape(t, m, p)
  PROVE  EncodeBinary(Bytes(t)) = t <=> Zeros(t, m, p)
<1> DEFINE v == Bytes(t)
           enc == EncodeBinary(v)
<1>1. m \in Nat /\ p \in 0..2 /\ p <= m + m /\ Len(t) = 4 * m
  BY Zenon DEF Shape
<1>2. v \in Seq(Byte) /\ Len(v) = 3 * m - p
  BY BytesOfAShape
<1>3. (Len(v) + 2) \div 3 = m
  <2> HIDE DEF v
  <2> QED
    BY <1>1, <1>2, SMT
<1>4. enc = [k \in 1..(4 * m) |-> enc[k]]
  BY <1>3 DEF EncodeBinary
<1>5. t = [k \in 1..(4 * m) |-> t[k]]
  BY <1>1
<1> HIDE DEF v, enc
<1>6. enc = t <=> \A k \in 1..(4 * m) : enc[k] = t[k]
  BY <1>4, <1>5, Zenon
<1>7. ASSUME NEW g \in 0..(m - 1)
      PROVE  /\ enc[4 * g + 1] = t[4 * g + 1]
             /\ enc[4 * g + 2] = t[4 * g + 2]
                  <=> (g = m - 1 /\ p = 2 => DigitAt(t, 4 * g + 2) % 16 = 0)
             /\ enc[4 * g + 3] = t[4 * g + 3]
                  <=> (g = m - 1 /\ p = 1 => DigitAt(t, 4 * g + 3) % 4 = 0)
             /\ enc[4 * g + 4] = t[4 * g + 4]
  BY GroupWrittenAgain, Zenon DEF enc, v
<1>8. ASSUME Zeros(t, m, p), NEW k \in 1..(4 * m) PROVE enc[k] = t[k]
  <2> DEFINE g == (k - 1) \div 4
  <2>1. /\ g \in 0..(m - 1)
        /\ k = 4 * g + 1 \/ k = 4 * g + 2 \/ k = 4 * g + 3 \/ k = 4 * g + 4
    BY <1>1, SMT
  <2> HIDE DEF g
  <2>2. /\ g = m - 1 /\ p = 2 => DigitAt(t, 4 * g + 2) % 16 = 0
        /\ g = m - 1 /\ p = 1 => DigitAt(t, 4 * g + 3) % 4 = 0
    BY <1>8, Zenon DEF Zeros, LastDigit
  <2>3. /\ enc[4 * g + 1] = t[4 * g + 1] /\ enc[4 * g + 2] = t[4 * g + 2]
        /\ enc[4 * g + 3] = t[4 * g + 3] /\ enc[4 * g + 4] = t[4 * g + 4]
    BY <1>7, <2>1, <2>2, Zenon
  <2> QED
    BY <2>1, <2>3, Zenon
<1>9. ASSUME \A k \in 1..(4 * m) : enc[k] = t[k] PROVE Zeros(t, m, p)
  <2>1. CASE m = 0
    BY <1>1, <2>1 DEF Zeros
  <2>2. CASE m # 0
    <3> DEFINE g == m - 1
    <3>1. g \in 0..(m - 1) /\ 4 * g + 2 \in 1..(4 * m) /\ 4 * g + 3 \in 1..(4 * m)
      BY <1>1, <2>2
    <3>2. enc[4 * g + 2] = t[4 * g + 2] /\ enc[4 * g + 3] = t[4 * g + 3]
      BY <1>9, <3>1, Zenon
    <3>3. /\ p = 2 => DigitAt(t, 4 * g + 2) % 16 = 0
          /\ p = 1 => DigitAt(t, 4 * g + 3) % 4 = 0
      BY <1>7, <3>1, <3>2, Zenon
    <3> QED
      BY <3>3, Zenon DEF Zeros, LastDigit
  <2> QED
    BY <2>1, <2>2
<1>10. enc = t <=> Zeros(t, m, p)
  BY <1>6, <1>8, <1>9, Zenon
<1> QED
  BY <1>10, Zenon DEF enc, v

(* The bits after the last whole byte are the ones that are to be zeros.      *)
LEMMA BitsLeftOver ==
  ASSUME NEW t, NEW m, NEW p, Shape(t, m, p), NEW from, NEW to,
         from = 24 * m - 8 * p + 1, to = 24 * m - 6 * p
  PROVE  (\A i \in from..to : Bit(t, i) = 0) <=> Zeros(t, m, p)
<1> DEFINE g == m - 1
           b == DigitAt(t, 4 * g + 2)
           c == DigitAt(t, 4 * g + 3)
<1>1. m \in Nat /\ p \in 0..2 /\ p <= m + m
  BY Zenon DEF Shape
<1>2. CASE p = 0
  <2>1. \A i \in from..to : FALSE
    BY <1>1, <1>2
  <2>2. Zeros(t, m, p)
    BY <1>2 DEF Zeros
  <2> QED
    BY <2>1, <2>2
<1>3. CASE p = 1
  <2>1. g \in 0..(m - 1) /\ 4 * g + 2 \in Nat /\ 3 \in 1..4 /\ 3 <= 4 - p
    BY <1>1, <1>3
  <2>2. c \in Digit /\ t[4 * g + 3] = c
    <3> HIDE DEF g
    <3>1. ASSUME NEW j \in 1..4, j <= 4 - p
          PROVE  DigitAt(t, 4 * g + j) \in Digit /\ t[4 * g + j] = DigitAt(t, 4 * g + j)
      <4>1. g \in 0..(m - 1)
        BY <2>1
      <4> QED
        BY <3>1, <4>1, DigitsOfAShape
    <3> QED
      BY <2>1, <3>1, Zenon DEF c
  <2>3. /\ from = 6 * (4 * g + 2) + 5 /\ to = 6 * (4 * g + 2) + 6
        /\ (4 * g + 2) + 1 = 4 * g + 3
    BY <1>1, <1>3, SMT
  <2>4. \A i \in from..to : i = from \/ i = to
    BY <1>1, <1>3, SMT
  <2>5. from \in from..to /\ to \in from..to
    BY <1>1, <1>3, SMT
  <2> HIDE DEF g, c
  <2>6. Bit(t, from) = BitOf(c, 5)
    <3>1. 5 \in 1..6
      OBVIOUS
    <3> QED
      BY <2>1, <2>2, <2>3, <3>1, BitsOfAText
  <2>7. Bit(t, to) = BitOf(c, 6)
    <3>1. 6 \in 1..6
      OBVIOUS
    <3> QED
      BY <2>1, <2>2, <2>3, <3>1, BitsOfAText
  <2>8. c % 4 = BitOf(c, 5) * 2 + BitOf(c, 6) /\ BitOf(c, 5) \in 0..1 /\ BitOf(c, 6) \in 0..1
    BY <2>2, BitsOfADigit, PartsOfADigit
  <2>9. c % 4 = 0 <=> BitOf(c, 5) = 0 /\ BitOf(c, 6) = 0
    BY <2>8, SMT
  <2>10. (\A i \in from..to : Bit(t, i) = 0) <=> Bit(t, from) = 0 /\ Bit(t, to) = 0
    BY <2>4, <2>5, Zenon
  <2>11. Zeros(t, m, p) <=> c % 4 = 0
    BY <1>3 DEF Zeros, LastDigit, c, g
  <2> QED
    BY <2>6, <2>7, <2>9, <2>10, <2>11, Zenon
<1>4. CASE p = 2
  <2>1. g \in 0..(m - 1) /\ 4 * g + 1 \in Nat /\ 2 \in 1..4 /\ 2 <= 4 - p
    BY <1>1, <1>4
  <2>2. b \in Digit /\ t[4 * g + 2] = b
    <3> HIDE DEF g
    <3>1. ASSUME NEW j \in 1..4, j <= 4 - p
          PROVE  DigitAt(t, 4 * g + j) \in Digit /\ t[4 * g + j] = DigitAt(t, 4 * g + j)
      <4>1. g \in 0..(m - 1)
        BY <2>1
      <4> QED
        BY <3>1, <4>1, DigitsOfAShape
    <3> QED
      BY <2>1, <3>1, Zenon DEF b
  <2>3. /\ from = 6 * (4 * g + 1) + 3 /\ from + 1 = 6 * (4 * g + 1) + 4
        /\ from + 2 = 6 * (4 * g + 1) + 5 /\ to = 6 * (4 * g + 1) + 6
        /\ (4 * g + 1) + 1 = 4 * g + 2
    BY <1>1, <1>4, SMT
  <2>4. \A i \in from..to : i = from \/ i = from + 1 \/ i = from + 2 \/ i = to
    BY <1>1, <1>4, SMT
  <2>5. from \in from..to /\ from + 1 \in from..to /\ from + 2 \in from..to /\ to \in from..to
    BY <1>1, <1>4, SMT
  <2> HIDE DEF g, b
  <2>6. Bit(t, from) = BitOf(b, 3)
    <3>1. 3 \in 1..6
      OBVIOUS
    <3> QED
      BY <2>1, <2>2, <2>3, <3>1, BitsOfAText
  <2>7. Bit(t, from + 1) = BitOf(b, 4)
    <3>1. 4 \in 1..6
      OBVIOUS
    <3> QED
      BY <2>1, <2>2, <2>3, <3>1, BitsOfAText
  <2>8. Bit(t, from + 2) = BitOf(b, 5)
    <3>1. 5 \in 1..6
      OBVIOUS
    <3> QED
      BY <2>1, <2>2, <2>3, <3>1, BitsOfAText
  <2>9. Bit(t, to) = BitOf(b, 6)
    <3>1. 6 \in 1..6
      OBVIOUS
    <3> QED
      BY <2>1, <2>2, <2>3, <3>1, BitsOfAText
  <2>10. /\ b % 16 = BitOf(b, 3) * 8 + BitOf(b, 4) * 4 + BitOf(b, 5) * 2 + BitOf(b, 6)
         /\ BitOf(b, 3) \in 0..1 /\ BitOf(b, 4) \in 0..1 /\ BitOf(b, 5) \in 0..1 /\ BitOf(b, 6) \in 0..1
    BY <2>2, BitsOfADigit, PartsOfADigit
  <2>11. b % 16 = 0 <=> BitOf(b, 3) = 0 /\ BitOf(b, 4) = 0 /\ BitOf(b, 5) = 0 /\ BitOf(b, 6) = 0
    BY <2>10, SMT
  <2>12. (\A i \in from..to : Bit(t, i) = 0)
            <=> Bit(t, from) = 0 /\ Bit(t, from + 1) = 0 /\ Bit(t, from + 2) = 0 /\ Bit(t, to) = 0
    BY <2>4, <2>5, Zenon
  <2>13. Zeros(t, m, p) <=> b % 16 = 0
    BY <1>4 DEF Zeros, LastDigit, b, g
  <2> QED
    BY <2>6, <2>7, <2>8, <2>9, <2>11, <2>12, <2>13, Zenon
<1> QED
  BY <1>1, <1>2, <1>3, <1>4

(* Each eight bits of a text are the byte that the reader has for them.       *)
LEMMA EightsAreBytes ==
  ASSUME NEW t, NEW m, NEW p, Shape(t, m, p), NEW k \in 1..(3 * m - p)
  PROVE  Eight(t, 8 * k - 8) = Bytes(t)[k]
<1> DEFINE g == (k - 1) \div 3
           a == DigitAt(t, 4 * g + 1)
           b == DigitAt(t, 4 * g + 2)
           c == DigitAt(t, 4 * g + 3)
           d == DigitAt(t, 4 * g + 4)
<1>1. m \in Nat /\ p \in 0..2
  BY Zenon DEF Shape
<1>2. /\ g \in 0..(m - 1) /\ g \in Nat
      /\ \/ k = 3 * g + 1 /\ 8 * k - 8 = 24 * g
         \/ k = 3 * g + 2 /\ 8 * k - 8 = 24 * g + 8 /\ (g < m - 1 \/ p < 2)
         \/ k = 3 * g + 3 /\ 8 * k - 8 = 24 * g + 16 /\ (g < m - 1 \/ p < 1)
  BY <1>1, SMT
<1> HIDE DEF g
<1>3. /\ Bytes(t)[3 * g + 1] = ByteOne(a, b)
      /\ g < m - 1 \/ p < 2 => Bytes(t)[3 * g + 2] = ByteTwo(b, c)
      /\ g < m - 1 \/ p < 1 => Bytes(t)[3 * g + 3] = ByteThree(c, d)
  BY <1>2, BytesOfAShape
<1>4. /\ a \in Digit /\ t[4 * g + 1] = a /\ b \in Digit /\ t[4 * g + 2] = b
      /\ g < m - 1 \/ p < 2 => c \in Digit /\ t[4 * g + 3] = c
      /\ g < m - 1 \/ p < 1 => d \in Digit /\ t[4 * g + 4] = d
  <2>1. ASSUME NEW j \in 1..4
        PROVE  g < m - 1 \/ j <= 4 - p =>
                 DigitAt(t, 4 * g + j) \in Digit /\ t[4 * g + j] = DigitAt(t, 4 * g + j)
    <3>1. g \in 0..(m - 1)
      BY <1>2
    <3> QED
      BY <3>1, DigitsOfAShape
  <2>2. (p < 2 => 3 <= 4 - p) /\ (p < 1 => 4 <= 4 - p)
    BY <1>1
  <2>3. 1 <= 4 - p /\ 2 <= 4 - p
    BY <1>1
  <2>4. 1 \in 1..4 /\ 2 \in 1..4 /\ 3 \in 1..4 /\ 4 \in 1..4
    OBVIOUS
  <2> QED
    BY <2>1, <2>2, <2>3, <2>4, Zenon
<1> DEFINE a1 == t[4 * g + 1]
           b1 == t[4 * g + 2]
           c1 == t[4 * g + 3]
           d1 == t[4 * g + 4]
<1>5. /\ a1 \in Digit /\ b1 \in Digit => Eight(t, 24 * g) = ByteOne(a1, b1)
      /\ b1 \in Digit /\ c1 \in Digit => Eight(t, 24 * g + 8) = ByteTwo(b1, c1)
      /\ c1 \in Digit /\ d1 \in Digit => Eight(t, 24 * g + 16) = ByteThree(c1, d1)
  <2>1. g \in Nat
    BY <1>2
  <2> QED
    BY <2>1, EightIsAByte
<1> HIDE DEF a, b, c, d
<1>6. Eight(t, 24 * g) = Bytes(t)[3 * g + 1]
  BY <1>3, <1>4, <1>5, Zenon
<1>7. g < m - 1 \/ p < 2 => Eight(t, 24 * g + 8) = Bytes(t)[3 * g + 2]
  BY <1>3, <1>4, <1>5, Zenon
<1>8. g < m - 1 \/ p < 1 => Eight(t, 24 * g + 16) = Bytes(t)[3 * g + 3]
  <2>1. g < m - 1 \/ p < 1 => g < m - 1 \/ p < 2
    BY <1>1
  <2> QED
    BY <1>3, <1>4, <1>5, <2>1, Zenon
<1> QED
  BY <1>2, <1>6, <1>7, <1>8, Zenon

(* Whatever characters a text has, binary takes it as the base64 standard     *)
(* does.                                                                      *)
THEOREM BinaryIsTheStandard ==
  ASSUME NEW t \in Seq(Char)
  PROVE  Binary(t) = Standard(t)
<1> DEFINE L == Len(t)
           n == CHOOSE n \in 0..L : Ends(t, n)
           size == (6 * n) \div 8
           Padded == L % 4 = 0 /\ \E k \in 0..L : Ends(t, k)
           Left == \A i \in (8 * size + 1)..(6 * n) : Bit(t, i) = 0
           eights == [k \in 1..size |-> Eight(t, 8 * k - 8)]
<1>1. Standard(t) = IF Padded /\ Left THEN [ok |-> TRUE, data |-> eights]
                    ELSE [ok |-> FALSE, data |-> <<>>]
  BY Zenon DEF Standard
<1>2. WellPadded(t) <=> Padded
  BY PaddingEnds, Zenon
<1> HIDE DEF Padded, Left, eights
<1>3. CASE ~WellPadded(t)
  BY <1>1, <1>2, <1>3, Zenon DEF Binary
<1>4. CASE WellPadded(t)
  <2> DEFINE m == L \div 4
             p == Padding(t)
  <2>1. Shape(t, m, p)
    BY <1>4, PaddedShape, Zenon
  <2>2. m \in Nat /\ p \in 0..2 /\ p <= m + m /\ L = 4 * m
    BY <2>1, Zenon DEF Shape
  <2>3. n = L - p
    <3>1. \E k \in 0..L : Ends(t, k)
      BY <1>2, <1>4, Zenon DEF Padded
    <3>2. n \in 0..L /\ Ends(t, n)
      BY <3>1, Zenon
    <3> HIDE DEF n
    <3> QED
      BY <1>4, <3>2, PaddingEnds, Zenon
  <2> HIDE DEF n, m, p, L
  <2>4. size = 3 * m - p
    BY <2>2, <2>3, SMT
  <2>5. 8 * size + 1 = 24 * m - 8 * p + 1 /\ 6 * n = 24 * m - 6 * p
    BY <2>2, <2>3, <2>4, SMT
  <2> HIDE DEF size
  <2>6. Left <=> Zeros(t, m, p)
    BY <2>1, <2>5, BitsLeftOver, Zenon DEF Left
  <2>7. EncodeBinary(Bytes(t)) = t <=> Zeros(t, m, p)
    BY <2>1, WrittenAsSpelled, Zenon
  <2>8. eights = Bytes(t)
    <3>1. Bytes(t) \in Seq(Byte) /\ Len(Bytes(t)) = size
      BY <2>1, <2>4, BytesOfAShape, Zenon
    <3>2. Bytes(t) = [k \in 1..size |-> Bytes(t)[k]]
      BY <3>1
    <3>3. \A k \in 1..size : Eight(t, 8 * k - 8) = Bytes(t)[k]
      BY <2>1, <2>4, EightsAreBytes, Zenon
    <3> QED
      BY <3>2, <3>3, Zenon DEF eights
  <2> QED
    BY <1>1, <1>2, <1>4, <2>6, <2>7, <2>8, Zenon DEF Binary
<1> QED
  BY <1>3, <1>4

(* binary takes the texts of the standard and no others, however long, and    *)
(* for the bytes that the standard has for them.                              *)
THEOREM EveryTextIsOfTheStandard == CodecSpec => []ReadsTheStandard
<1>1. CodecTypeOK => ReadsTheStandard
  BY BinaryIsTheStandard, Zenon DEF CodecTypeOK, ReadsTheStandard
<1> QED
  BY <1>1, CodecTypes, PTL
================================================================================
