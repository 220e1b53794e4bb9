-------------------------------- MODULE Documents --------------------------------
(***************************************************************************)
(* The document of one value, {"data": "<base64>"} or {}, as the generated *)
(* Encode writes it and the generated reader takes it.  The reader looks   *)
(* at one token at a time, takes it or refuses the document; the document  *)
(* is any sequence of tokens, chosen as the reader comes to them.          *)
(*                                                                         *)
(* A token is a mark, one byte of white space, some other byte, the end of *)
(* the document, or a string with what str makes of it (Text!Str).  The    *)
(* nesting depth is left out: nothing nests in a value, and the limit of   *)
(* 64 that enter keeps is not met.                                         *)
(***************************************************************************)
EXTENDS Base64

CONSTANTS
    Texts,      \* the strings that a document may hold, as characters
    NoData,     \* the data of a value that has none: nil, not the empty bytes
    Values,     \* the data that values are written with
    MaxTokens   \* how long documents get

DataKey == <<29, 26, 45, 26>>    \* the characters d, a, t, a

ASSUME DocumentsAssumption ==
    /\ Texts \subseteq Seq(Char)
    /\ NoData \notin Seq(Byte) /\ Values \subseteq Seq(Byte)
    /\ MaxTokens \in Nat

Sign(m)   == [is |-> m, word |-> "none", text |-> <<>>]
LBrace    == Sign("{")
RBrace    == Sign("}")
ColonMark == Sign(":")
CommaMark == Sign(",")
Blank     == Sign("blank")
Other     == Sign("other")
EndMark   == Sign("end")
Mark      == {LBrace, RBrace, ColonMark, CommaMark, Blank, Other, EndMark}

String(t) == [is |-> "string", word |-> "none", text |-> t]
NoString  == {[is |-> "string", word |-> w, text |-> <<>>] : w \in {"bad_string", "malformed"}}
Token     == Mark \cup {String(t) : t \in Texts} \cup NoString

VARIABLES
    pos,     \* how many tokens the reader has passed
    read,    \* those of them that are not white space
    at,      \* the token that it refused
    phase,   \* what it waits for, or the answer
    key, seen, data, word   \* the field at hand, whether data was met, its value, the refusal
vars == <<pos, read, at, phase, key, seen, data, word>>

Init ==
    /\ pos = 0 /\ read = <<>> /\ at = Blank
    /\ phase = "open" /\ key = <<>> /\ seen = FALSE /\ data = NoData /\ word = "none"

Running == phase \notin {"accepted", "refused"}

(* The token at pos: there is always one, and the end is the last.            *)
Comes(t) == Running /\ (t = EndMark \/ pos < MaxTokens)

(* As a slip would have it: a newline after the value is trailing bytes.      *)
SkippedInside(t) == t = Blank /\ phase # "trail"

Skipped(t) == t = Blank

Take(t, next) ==
    /\ pos' = pos + 1 /\ read' = Append(read, t) /\ phase' = next
    /\ UNCHANGED <<at, word>>

Refuse(t, w) ==
    /\ phase' = "refused" /\ word' = w /\ at' = t
    /\ UNCHANGED <<pos, read, key, seen, data>>

(* White space is passed before and after every token.                        *)
Space(t) ==
    /\ Skipped(t)
    /\ pos' = pos + 1
    /\ UNCHANGED <<read, at, phase, key, seen, data, word>>

(* What str answers for a token that need not be a string, when there is one. *)
StrFault(t, other) == IF t \in Mark THEN other ELSE t.word

Open(t) ==
    /\ phase = "open" /\ ~Skipped(t)
    /\ \/ t = LBrace /\ Take(t, "first") /\ UNCHANGED <<key, seen, data>>
       \/ t # LBrace /\ Refuse(t, "wrong_type")

Key(t) ==
    /\ phase \in {"first", "key"} /\ ~Skipped(t)
    /\ ~(phase = "first" /\ t = RBrace)
    /\ LET fault == StrFault(t, "malformed")
       IN  \/ fault = "none" /\ Take(t, "colon") /\ key' = t.text /\ UNCHANGED <<seen, data>>
           \/ fault # "none" /\ Refuse(t, fault)

Colon(t) ==
    /\ phase = "colon" /\ ~Skipped(t)
    /\ \/ t = ColonMark /\ Take(t, "field") /\ UNCHANGED <<key, seen, data>>
       \/ t # ColonMark /\ Refuse(t, "malformed")

(* The value of the field, which is refused unread when the field is not      *)
(* known or has been met.                                                     *)
Field(t) ==
    /\ phase = "field" /\ ~Skipped(t)
    /\ LET b     == Binary(t.text)
           fault == IF key # DataKey THEN "unknown_field"
                    ELSE IF seen THEN "duplicate_field"
                    ELSE IF StrFault(t, "wrong_type") # "none" THEN StrFault(t, "wrong_type")
                    ELSE IF ~b.ok THEN "bad_binary" ELSE "none"
       IN  \/ /\ fault = "none" /\ Take(t, "after")
              /\ seen' = TRUE /\ data' = b.data /\ UNCHANGED key
           \/ fault # "none" /\ Refuse(t, fault)

(* As a slip would have it: a comma may be the last thing in the braces.      *)
CommaTrailing(t) ==
    /\ phase = "after" /\ t = CommaMark /\ Take(t, "first")
    /\ UNCHANGED <<key, seen, data>>

Comma(t) ==
    /\ phase = "after" /\ t = CommaMark /\ Take(t, "key")
    /\ UNCHANGED <<key, seen, data>>

Close(t) ==
    /\ phase \in {"first", "after"} /\ ~Skipped(t)
    /\ \/ t = RBrace /\ Take(t, "trail") /\ UNCHANGED <<key, seen, data>>
       \/ phase = "after" /\ t \notin {RBrace, CommaMark} /\ Refuse(t, "malformed")

End(t) ==
    /\ phase = "trail" /\ ~Skipped(t)
    /\ \/ t = EndMark /\ phase' = "accepted" /\ UNCHANGED <<pos, read, at, key, seen, data, word>>
       \/ t # EndMark /\ Refuse(t, "trailing_bytes")

Next == \E t \in Token : Comes(t) /\
    (Space(t) \/ Open(t) \/ Key(t) \/ Colon(t) \/ Field(t) \/ Comma(t) \/ Close(t) \/ End(t))

Spec == Init /\ [][Next]_vars

--------------------------------------------------------------------------------
(* As a slip would have it: no field for no bytes. *)
EncodeOmitting(d) ==
    IF d \in {NoData, <<>>} THEN <<LBrace, RBrace>>
    ELSE <<LBrace, String(DataKey), ColonMark, String(EncodeBinary(d)), RBrace>>

(* What Encode writes for a value, but for the white space.                   *)
Encode(d) ==
    IF d = NoData THEN <<LBrace, RBrace>>
    ELSE <<LBrace, String(DataKey), ColonMark, String(EncodeBinary(d)), RBrace>>

(* The documents, whatever their white space: a value without data, or one    *)
(* field, once, whose string t is canonical base64.                           *)
Bare        == <<LBrace, RBrace>>
Document(t) == <<LBrace, String(DataKey), ColonMark, String(t), RBrace>>

Begins(s, d) == Len(s) <= Len(d) /\ \A i \in 1..Len(s) : s[i] = d[i]

(* Whether t may come after s in document d: white space always may.          *)
MayFollow(d, s, t) ==
    Begins(s, d) /\ (t = Blank \/ (IF s = d THEN t = EndMark ELSE Begins(Append(s, t), d)))

(* What is accepted is a document, read for what it means: nothing before,    *)
(* between or after its tokens, no field twice, no field of another name, and *)
(* a value whose data is absent is not one whose data is empty.               *)
AcceptsOnlyDocuments ==
    phase = "accepted" =>
        \/ read = Bare /\ data = NoData
        \/ \E t \in Texts : Binary(t).ok /\ read = Document(t) /\ data = Binary(t).data

(* What is refused is no document: the token that was refused could not have  *)
(* come there in any.                                                         *)
RefusesNoDocument ==
    phase = "refused" =>
        /\ ~MayFollow(Bare, read, at)
        /\ \A t \in Texts : Binary(t).ok => ~MayFollow(Document(t), read, at)

(* What Encode wrote is taken for the value that it was written for.          *)
EncodedSurvives ==
    \A d \in Values \cup {NoData} :
        /\ phase = "refused" => ~MayFollow(Encode(d), read, at)
        /\ phase = "accepted" /\ read = Encode(d) => data = d
================================================================================
