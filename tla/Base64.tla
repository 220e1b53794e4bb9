--------------------------------- MODULE Base64 ---------------------------------
(***************************************************************************)
(* The bytes of a value as the text of its field: three bytes are four     *)
(* digits of the alphabet, a digit standing here for its character.        *)
(***************************************************************************)
EXTENDS Integers, Sequences

CONSTANTS Pad,      \* the character =
          Others    \* the characters that are neither digits nor Pad

ASSUME CharactersAssumption == Pad \notin 0..63 /\ Others \cap ((0..63) \cup {Pad}) = {}

Byte  == 0..255
Digit == 0..63
Char  == Digit \cup {Pad} \cup Others

DigitPlace == <<262144, 4096, 64, 1>>
BytePlace  == <<65536, 256, 1>>

(* The number in group g of three bytes, those past the end being 0.          *)
ByteAt(value, i) == IF i <= Len(value) THEN value[i] ELSE 0
Group(value, g) ==
    ByteAt(value, 3 * g + 1) * 65536 + ByteAt(value, 3 * g + 2) * 256 + ByteAt(value, 3 * g + 3)

(* As a slip would have it: the last byte taken for padding. *)
EncodeBinaryShort(value) ==
    [k \in 1..(4 * ((Len(value) + 2) \div 3)) |->
        LET g == (k - 1) \div 4
            j == (k - 1) % 4
        IN  IF 3 * g + j >= Len(value) /\ j > 1 THEN Pad
            ELSE (Group(value, g) \div DigitPlace[j + 1]) % 64]

EncodeBinary(value) ==
    [k \in 1..(4 * ((Len(value) + 2) \div 3)) |->
        LET g == (k - 1) \div 4
            j == (k - 1) % 4
        IN  IF 3 * g + j > Len(value) THEN Pad
            ELSE (Group(value, g) \div DigitPlace[j + 1]) % 64]

(* Padding is one or both of the last two characters of the last four.        *)
WellPadded(text) ==
    /\ Len(text) % 4 = 0
    /\ \A k \in 1..Len(text) :
          \/ text[k] \in Digit
          \/ text[k] = Pad /\ k = Len(text)
          \/ text[k] = Pad /\ k = Len(text) - 1 /\ text[Len(text)] = Pad

Padding(text) ==
    IF Len(text) = 0 \/ text[Len(text)] # Pad THEN 0
    ELSE IF text[Len(text) - 1] # Pad THEN 1
    ELSE 2

(* The number in group g of four digits, padding being 0.                     *)
DigitAt(text, k) == IF text[k] = Pad THEN 0 ELSE text[k]
Word(text, g) ==
    DigitAt(text, 4 * g + 1) * 262144 + DigitAt(text, 4 * g + 2) * 4096
        + DigitAt(text, 4 * g + 3) * 64 + DigitAt(text, 4 * g + 4)

Bytes(text) ==
    [k \in 1..(3 * (Len(text) \div 4) - Padding(text)) |->
        (Word(text, (k - 1) \div 3) \div BytePlace[((k - 1) % 3) + 1]) % 256]

(* As a slip would have it: any bits in the last digit, where none are used.  *)
BinaryLoose(text) ==
    IF WellPadded(text) THEN [ok |-> TRUE, data |-> Bytes(text)]
    ELSE [ok |-> FALSE, data |-> <<>>]

(* What is read must be written as it was spelled: a value has one text.      *)
Binary(text) ==
    IF WellPadded(text) /\ EncodeBinary(Bytes(text)) = text
    THEN [ok |-> TRUE, data |-> Bytes(text)]
    ELSE [ok |-> FALSE, data |-> <<>>]
================================================================================
