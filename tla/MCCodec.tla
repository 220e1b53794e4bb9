-------------------------------- MODULE MCCodec --------------------------------
(***************************************************************************)
(* The codec of a Value against what it is to be: every short document,    *)
(* every short string to write and to read, every short value and every    *)
(* short text of base64.                                                   *)
(***************************************************************************)
EXTENDS Documents, Text

CONSTANTS
    MaxBytes, MaxPieces, MaxChars, MaxData,   \* how long the inputs get
    Alphabet, Octets                          \* the characters and bytes of base64 tried

VARIABLES bytes, pieces, chars, value
inputs == <<bytes, pieces, chars, value>>

(* The strings of a document: no characters, the name of the field (which is  *)
(* base64 too), one byte, its other spelling, and what is no base64.          *)
SomeTexts  == {<<>>, DataKey, <<0, 16, Pad, Pad>>, <<0, 17, Pad, Pad>>, <<0, Pad>>}
SomeValues == {<<>>, <<1>>, <<117, 171, 90>>}

(* The bounds of the ranges that the codes are made of, on either side.       *)
Bytes8 == {8, 9, 10, 12, 13, 31, 34, 47, 92, 127, 128, 143, 144, 159, 160, 191, 192,
           193, 194, 223, 224, 225, 237, 239, 240, 244, 245, 255}

Units == {<<0, 0, 2, 2>>, <<0, 0, 14, 9>>, <<13, 7, 15, 15>>, <<13, 8, 0, 0>>,
          <<13, 11, 15, 15>>, <<13, 12, 0, 0>>, <<13, 15, 15, 15>>, <<14, 0, 0, 0>>,
          <<15, 15, 15, 15>>, <<0, Junk, 0, 0>>}

Pieces ==
    {[kind |-> "byte", byte |-> b] : b \in {31, 32, 128, 195}}
        \cup {[kind |-> "escape", byte |-> b] : b \in {34, 92, 47, 98, 102, 110, 114, 116, 120}}
        \cup {[kind |-> "unit", digits |-> d] : d \in Units}

ASSUME TriedAssumption ==
    /\ Bytes8 \subseteq Octet /\ Pieces \subseteq Piece
    /\ Alphabet \subseteq Char /\ Octets \subseteq Byte

CodecInit == Init /\ bytes = <<>> /\ pieces = <<>> /\ chars = <<>> /\ value = <<>>

(* One input at a time grows. *)
GrowBytes ==
    /\ pieces = <<>> /\ chars = <<>> /\ value = <<>> /\ Len(bytes) < MaxBytes
    /\ \E b \in Bytes8 : bytes' = Append(bytes, b)
    /\ UNCHANGED <<pieces, chars, value>>

GrowPieces ==
    /\ bytes = <<>> /\ chars = <<>> /\ value = <<>> /\ Len(pieces) < MaxPieces
    /\ \E p \in Pieces : pieces' = Append(pieces, p)
    /\ UNCHANGED <<bytes, chars, value>>

GrowChars ==
    /\ bytes = <<>> /\ pieces = <<>> /\ value = <<>> /\ Len(chars) < MaxChars
    /\ \E c \in Alphabet : chars' = Append(chars, c)
    /\ UNCHANGED <<bytes, pieces, value>>

GrowValue ==
    /\ bytes = <<>> /\ pieces = <<>> /\ chars = <<>> /\ Len(value) < MaxData
    /\ \E b \in Octets : value' = Append(value, b)
    /\ UNCHANGED <<bytes, pieces, chars>>

CodecNext ==
    \/ /\ pos = 0 /\ phase = "open"
       /\ GrowBytes \/ GrowPieces \/ GrowChars \/ GrowValue
       /\ UNCHANGED vars
    \/ /\ inputs = <<<<>>, <<>>, <<>>, <<>>>>
       /\ Next
       /\ UNCHANGED inputs

CodecSpec == CodecInit /\ [][CodecNext]_<<vars, inputs>>

--------------------------------------------------------------------------------
(* The well-formed byte sequences, as the Unicode standard tabulates them.    *)
More == 128..191
Rows == {<<0..127>>, <<194..223, More>>, <<{224}, 160..191, More>>,
         <<(225..239) \ {237}, More, More>>, <<{237}, 128..159, More>>,
         <<{240}, 144..191, More, More>>, <<241..243, More, More, More>>,
         <<{244}, 128..143, More, More>>}

WellFormed(b) ==
    LET from[i \in 1..(Len(b) + 1)] ==
            \/ i = Len(b) + 1
            \/ \E row \in Rows :
                  /\ i + Len(row) - 1 <= Len(b)
                  /\ \A k \in DOMAIN row : b[i + k - 1] \in row[k]
                  /\ from[i + Len(row)]
    IN  from[1]

(* validUTF8 takes the well-formed strings and no others: none cut short, none*)
(* spelled longer than it need be, no surrogate and nothing past the last code*)
(* point.                                                                     *)
TakesWellFormedText == ValidUTF8(bytes) = WellFormed(bytes)

(* What Encode writes for a string, Decode reads as that string, and refuses  *)
(* it where the string was not UTF-8.                                         *)
EscapedTextReadsBack ==
    Str(Esc(bytes), TRUE) =
        IF WellFormed(bytes) THEN Answer("none", bytes) ELSE Answer("bad_string", <<>>)

(* The escapes of one letter, as the grammar of JSON lists them: each letter  *)
(* with the byte that it stands for.                                          *)
JSONEscapes == {<<34, 34>>, <<92, 92>>, <<47, 47>>, <<98, 8>>, <<102, 12>>,
                <<110, 10>>, <<114, 13>>, <<116, 9>>}
Escaping   == {e[1] : e \in JSONEscapes}
Escaped(l) == CHOOSE c \in {e[2] : e \in JSONEscapes} : <<l, c>> \in JSONEscapes

Is(i, S) ==
    /\ i \in DOMAIN pieces
    /\ pieces[i].kind = "unit" /\ AllHex(pieces[i].digits)
    /\ Hex4(pieces[i].digits) \in S

(* The pieces are those of a JSON string, each half of a pair with the other. *)
WellSpelled == \A i \in DOMAIN pieces :
    /\ pieces[i].kind = "byte" => pieces[i].byte >= 32
    /\ pieces[i].kind = "escape" => pieces[i].byte \in Escaping
    /\ pieces[i].kind = "unit" => AllHex(pieces[i].digits)
    /\ Is(i, High) => Is(i + 1, Low)
    /\ Is(i, Low) => Is(i - 1, High)

(* What a piece stands for, a pair being spelled where it is complete.        *)
Half(i) == Hex4(pieces[i].digits) % 1024
Spelled(i) ==
    IF pieces[i].kind = "byte" THEN <<pieces[i].byte>>
    ELSE IF pieces[i].kind = "escape" THEN <<Escaped(pieces[i].byte)>>
    ELSE IF Is(i, High) THEN <<>>
    ELSE IF Is(i, Low) THEN AppendRune(<<>>, 65536 + Half(i - 1) * 1024 + Half(i))
    ELSE AppendRune(<<>>, Hex4(pieces[i].digits))

Means ==
    LET text[i \in 0..Len(pieces)] == IF i = 0 THEN <<>> ELSE text[i - 1] \o Spelled(i)
    IN  text[Len(pieces)]

(* str reads the strings of JSON and no others, whatever escapes they mix and *)
(* wherever the document ends.                                                *)
ReadsStringsOfJSON ==
    \A closed \in BOOLEAN :
        Str(pieces, closed) =
            IF ~WellSpelled THEN Answer("bad_string", <<>>)
            ELSE IF ~closed THEN Answer("malformed", <<>>)
            ELSE IF WellFormed(Means) THEN Answer("none", Means)
            ELSE Answer("bad_string", <<>>)

--------------------------------------------------------------------------------
(* The standard: digits are six bits each, padded to a multiple of four with  *)
(* Pad, and what is left of the last digit after whole bytes is zeros.        *)
Ends(t, n) ==
    /\ n >= Len(t) - 2
    /\ \A i \in 1..n : t[i] \in Digit
    /\ \A i \in (n + 1)..Len(t) : t[i] = Pad

BitPlace  == <<32, 16, 8, 4, 2, 1>>
Bit(t, i) == (t[(i - 1) \div 6 + 1] \div BitPlace[((i - 1) % 6) + 1]) % 2
Eight(t, i) ==
    Bit(t, i + 1) * 128 + Bit(t, i + 2) * 64 + Bit(t, i + 3) * 32 + Bit(t, i + 4) * 16
        + Bit(t, i + 5) * 8 + Bit(t, i + 6) * 4 + Bit(t, i + 7) * 2 + Bit(t, i + 8)

Standard(t) ==
    LET n    == CHOOSE n \in 0..Len(t) : Ends(t, n)
        size == (6 * n) \div 8
    IN  IF /\ Len(t) % 4 = 0 /\ \E k \in 0..Len(t) : Ends(t, k)
           /\ \A i \in (8 * size + 1)..(6 * n) : Bit(t, i) = 0
        THEN [ok |-> TRUE, data |-> [k \in 1..size |-> Eight(t, 8 * k - 8)]]
        ELSE [ok |-> FALSE, data |-> <<>>]

(* binary takes the texts of the standard and no others, for what they mean.  *)
ReadsTheStandard == Binary(chars) = Standard(chars)

(* What encodeBinary writes, binary reads, whatever the bytes and wherever    *)
(* they end in their group.                                                   *)
BytesSurvive == Binary(EncodeBinary(value)) = [ok |-> TRUE, data |-> value]
================================================================================
