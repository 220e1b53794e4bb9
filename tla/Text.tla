---------------------------------- MODULE Text ----------------------------------
(***************************************************************************)
(* The strings of a Value document: how esc writes the bytes of one, and   *)
(* how str reads what stands between its quotes.                           *)
(*                                                                         *)
(* What is read is a sequence of pieces: a byte as it is, a backslash with *)
(* one character, or \u with four hexadecimal digits, of which one may be  *)
(* anything else (Junk).  A byte piece is neither a quote, which ends the  *)
(* string, nor a backslash, which begins an escape.                        *)
(***************************************************************************)
EXTENDS Integers, Sequences

CONSTANT Junk      \* a character that is no hexadecimal digit

ASSUME JunkAssumption == Junk \notin 0..15

Octet       == 0..255
Piece       == [kind : {"byte"}, byte : Octet \ {34, 92}]
                 \cup [kind : {"escape"}, byte : Octet]
                 \cup [kind : {"unit"}, digits : [1..4 -> 0..15 \cup {Junk}]]
High        == 55296..56319     \* the first half of a surrogate pair
Low         == 56320..57343     \* and the second

(* The short escapes: the byte that the reader takes each letter for.         *)
Letters == [l \in {34, 92, 47, 98, 102, 110, 114, 116} |->
    CASE l = 98 -> 8 [] l = 102 -> 12 [] l = 110 -> 10 [] l = 114 -> 13 [] l = 116 -> 9
      [] OTHER -> l]

(* As a slip would have it: the letter n for a carriage return too.           *)
ShortsMixed == [c \in {34, 92, 8, 12, 10, 13, 9} |->
    CASE c = 8 -> 98 [] c = 12 -> 102 [] c \in {10, 13} -> 110 [] c = 9 -> 116
      [] OTHER -> c]

(* And what the writer, by a table of its own, writes a byte as.              *)
Shorts == [c \in {34, 92, 8, 12, 10, 13, 9} |->
    CASE c = 8 -> 98 [] c = 12 -> 102 [] c = 10 -> 110 [] c = 13 -> 114 [] c = 9 -> 116
      [] OTHER -> c]

EscByte(c) ==
    IF c \in DOMAIN Shorts THEN [kind |-> "escape", byte |-> Shorts[c]]
    ELSE IF c < 32 THEN [kind |-> "unit", digits |-> <<0, 0, c \div 16, c % 16>>]
    ELSE [kind |-> "byte", byte |-> c]

Esc(s) == [i \in DOMAIN s |-> EscByte(s[i])]

Hex4(d)  == d[1] * 4096 + d[2] * 256 + d[3] * 16 + d[4]
AllHex(d) == \A k \in 1..4 : d[k] # Junk

(* A code point in UTF-8.                                                     *)
AppendRune(out, cp) ==
    LET tail(place) == 128 + ((cp \div place) % 64)
    IN  out \o (IF cp < 128 THEN <<cp>>
                ELSE IF cp < 2048 THEN <<192 + cp \div 64, tail(1)>>
                ELSE IF cp < 65536 THEN <<224 + cp \div 4096, tail(64), tail(1)>>
                ELSE <<240 + cp \div 262144, tail(4096), tail(64), tail(1)>>)

(* How many bytes the one that begins a code point announces, or 0.           *)
Announced(c) ==
    IF c < 128 THEN 1
    ELSE IF c \div 32 = 6 THEN 2
    ELSE IF c \div 16 = 14 THEN 3
    ELSE IF c \div 8 = 30 THEN 4
    ELSE 0

Lowest == <<0, 128, 2048, 65536>>
Lead   == <<128, 32, 16, 8>>

(* As a slip would have it: code points spelled longer than they need be.     *)
InRangeOverlong(cp, n) == cp <= 1114111 /\ cp \notin High \cup Low

InRange(cp, n) == Lowest[n] <= cp /\ cp <= 1114111 /\ cp \notin High \cup Low

(* The code point that n bytes from the ith on spell: what the first has left *)
(* beside the announcement, and six bits of each of the others.               *)
CodePoint(b, i, n) ==
    LET cp[k \in 0..(n - 1)] ==
            IF k = 0 THEN b[i] % Lead[n] ELSE cp[k - 1] * 64 + (b[i + k] % 64)
    IN  cp[n - 1]

ValidUTF8(b) ==
    LET valid[i \in 1..(Len(b) + 1)] ==
            \/ i = Len(b) + 1
            \/ LET n == Announced(b[i])
               IN  /\ n > 0 /\ i + n - 1 <= Len(b)
                   /\ \A k \in 1..(n - 1) : b[i + k] \div 64 = 2
                   /\ InRange(CodePoint(b, i, n), n)
                   /\ valid[i + n]
    IN  valid[1]

(* One piece more: out is what has been read, high the first half of a pair   *)
(* that waits for its second, or 0.                                           *)
Refused(s)   == [s EXCEPT !.word = "bad_string"]
Rune(s, cp)  == [s EXCEPT !.out = AppendRune(@, cp), !.high = 0]
OnePieceMore(s, a) ==
    IF s.word # "none" \/ (a.kind = "unit" /\ ~AllHex(a.digits)) THEN Refused(s)
    ELSE IF s.high # 0
    THEN IF a.kind = "unit" /\ Hex4(a.digits) \in Low
         THEN Rune(s, 65536 + (s.high - 55296) * 1024 + (Hex4(a.digits) - 56320))
         ELSE Refused(s)
    ELSE IF a.kind = "unit"
    THEN LET u == Hex4(a.digits)
         IN  IF u \in Low THEN Refused(s)
             ELSE IF u \in High THEN [s EXCEPT !.high = u]
             ELSE Rune(s, u)
    ELSE IF a.kind = "escape" /\ a.byte \in DOMAIN Letters
    THEN [s EXCEPT !.out = Append(@, Letters[a.byte])]
    ELSE IF a.kind = "byte" /\ a.byte >= 32
    THEN [s EXCEPT !.out = Append(@, a.byte)]
    ELSE Refused(s)

(* What str answers for the pieces up to the closing quote, or up to the end  *)
(* of the document when there is none.                                        *)
Answer(word, out) == [word |-> word, out |-> IF word = "none" THEN out ELSE <<>>]
NothingYet        == [out |-> <<>>, high |-> 0, word |-> "none"]
AllRead(text) ==
    LET s[k \in 0..Len(text)] ==
            IF k = 0 THEN NothingYet ELSE OnePieceMore(s[k - 1], text[k])
    IN  s[Len(text)]

(* As a slip would have it: a first half left waiting at the closing quote.   *)
StrHalfway(text, closed) ==
    LET s == AllRead(text)
    IN  Answer(IF s.word # "none" THEN s.word
               ELSE IF ~closed THEN "malformed"
               ELSE IF ~ValidUTF8(s.out) THEN "bad_string" ELSE "none", s.out)

Str(text, closed) ==
    LET s == AllRead(text)
    IN  Answer(IF s.word # "none" \/ s.high # 0 THEN "bad_string"
               ELSE IF ~closed THEN "malformed"
               ELSE IF ~ValidUTF8(s.out) THEN "bad_string" ELSE "none", s.out)
================================================================================
