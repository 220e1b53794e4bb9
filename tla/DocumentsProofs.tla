----------------------------- MODULE DocumentsProofs -----------------------------
(***************************************************************************)
(* Theorems about Documents: the reader takes the documents of the         *)
(* language and no others, for what they mean, whatever the strings in     *)
(* them and however long their white space.                                *)
(***************************************************************************)
EXTENDS Documents, Base64Proofs

Phase == {"open", "first", "key", "colon", "field", "after", "trail", "accepted", "refused"}

TypeOK ==
    /\ pos \in Nat /\ read \in Seq(Token) /\ at \in Token
    /\ phase \in Phase /\ seen \in BOOLEAN
    /\ key \in Texts \cup {<<>>}

(* What has been read when the reader waits for phase.  Once a second field   *)
(* has begun there is no document that goes on so.                            *)
Half(t) == <<LBrace, String(DataKey), ColonMark, String(t)>>
Second  == Len(read) >= 5 /\ read[5] = CommaMark

Shape ==
    /\ phase = "open" => read = <<>> /\ ~seen
    /\ phase = "first" => read = <<LBrace>> /\ ~seen
    /\ phase = "key" => Second /\ seen
    /\ phase = "colon" => (IF seen THEN Second ELSE read = <<LBrace, String(key)>>)
    /\ phase = "field" => (IF seen THEN Second ELSE read = <<LBrace, String(key), ColonMark>>)
    /\ phase = "after" =>
          /\ seen
          /\ \E t \in Texts : Binary(t).ok /\ read = Half(t) /\ data = Binary(t).data
    /\ phase \in {"trail", "accepted"} =>
          \/ read = Bare /\ data = NoData
          \/ \E t \in Texts : Binary(t).ok /\ read = Document(t) /\ data = Binary(t).data
    /\ ~seen => data = NoData

(* What is refused goes on as no document does, with strings of Texts or not. *)
NoDocument(s, u) == ~MayFollow(Bare, s, u) /\ \A t : Binary(t).ok => ~MayFollow(Document(t), s, u)
Refused == phase = "refused" => NoDocument(read, at)

ReaderInv == TypeOK /\ Shape /\ Refused

--------------------------------------------------------------------------------
(* Different tokens differ.                                                   *)
LEMMA TokensDiffer ==
  /\ LBrace # RBrace /\ LBrace # ColonMark /\ LBrace # CommaMark /\ LBrace # Blank /\ LBrace # EndMark
  /\ RBrace # ColonMark /\ RBrace # CommaMark /\ RBrace # Blank /\ RBrace # EndMark
  /\ ColonMark # CommaMark /\ ColonMark # Blank /\ ColonMark # EndMark
  /\ CommaMark # Blank /\ CommaMark # EndMark /\ Blank # EndMark
  BY DEF LBrace, RBrace, ColonMark, CommaMark, Blank, EndMark, Sign

(* A string is no mark, and is told from another by its characters.           *)
LEMMA StringsDiffer ==
  /\ \A s, t : String(s) = String(t) => s = t
  /\ \A s : String(s) \notin Mark /\ String(s).word = "none" /\ String(s).text = s
  /\ \A s : String(s) # LBrace /\ String(s) # RBrace /\ String(s) # ColonMark
            /\ String(s) # CommaMark /\ String(s) # EndMark /\ String(s) # Blank
<1>1. \A s : String(s).is = "string" /\ String(s).word = "none" /\ String(s).text = s
  BY DEF String
<1>2. \A m \in Mark : m.is # "string"
  <2>1. /\ LBrace.is # "string" /\ RBrace.is # "string" /\ ColonMark.is # "string"
        /\ CommaMark.is # "string" /\ Blank.is # "string" /\ Other.is # "string"
        /\ EndMark.is # "string"
    BY DEF LBrace, RBrace, ColonMark, CommaMark, Blank, Other, EndMark, Sign
  <2> QED
    BY <2>1, Zenon DEF Mark
<1>3. \A s : String(s) \notin Mark
  BY <1>1, <1>2
<1>4. \A s, t : String(s) = String(t) => s = t
  BY <1>1, Zenon
<1> QED
  BY <1>1, <1>3, <1>4, Zenon DEF Mark

(* A token that is neither a mark nor refused by str is a string of Texts.    *)
LEMMA Strings ==
  ASSUME NEW t \in Token, t \notin Mark, t.word = "none"
  PROVE  t = String(t.text) /\ t.text \in Texts
<1>1. CASE \E s \in Texts : t = String(s)
  BY <1>1, StringsDiffer
<1>2. CASE t \in NoString
  BY <1>2 DEF NoString
<1> QED
  BY <1>1, <1>2 DEF Token

(* What a document looks like from its start to the token that may follow.    *)
LEMMA Follows ==
  ASSUME NEW A, NEW s \in Seq(A), NEW u \in A, u # Blank,
         NEW d \in Seq(A), MayFollow(d, s, u)
  PROVE  /\ Len(s) <= Len(d) /\ \A i \in 1..Len(s) : s[i] = d[i]
         /\ \/ s = d /\ u = EndMark
            \/ Len(s) < Len(d) /\ d[Len(s) + 1] = u
  BY DEF MayFollow, Begins

(* Counting to two and to five.                                               *)
LEMMA Small ==
  ASSUME NEW n \in Nat
  PROVE  /\ n < 2 => n = 0 \/ n = 1
         /\ n < 5 => n \in {0, 1, 2, 3, 4}
         /\ ~(n < n)
  OBVIOUS

(* The places of the value without data, each with what may come there.       *)
LEMMA BareGoesOn ==
  ASSUME NEW s \in Seq(Token), NEW u \in Token, u # Blank, MayFollow(Bare, s, u)
  PROVE  \/ Len(s) = 0 /\ u = LBrace
         \/ Len(s) = 1 /\ u = RBrace
         \/ Len(s) = 2 /\ s[2] = RBrace /\ u = EndMark
<1>1. Bare \in Seq(Token)
  BY DEF Bare, Token, Mark
<1>2. \/ s = Bare /\ u = EndMark
      \/ Len(s) < Len(Bare) /\ Bare[Len(s) + 1] = u
  BY <1>1, Follows
<1>3. Len(Bare) = 2 /\ Bare[1] = LBrace /\ Bare[2] = RBrace
  BY DEF Bare
<1> DEFINE n == Len(s)
<1>4. n \in Nat
  OBVIOUS
<1>5. CASE s = Bare /\ u = EndMark
  BY <1>3, <1>5, Zenon
<1>6. CASE n < 2 /\ Bare[n + 1] = u
  <2>1. n = 0 \/ n = 1
    BY <1>4, <1>6, Small, Zenon
  <2>2. n = 0 => u = Bare[1]
    BY <1>6
  <2>3. n = 1 => u = Bare[2]
    BY <1>6
  <2> QED
    BY <1>3, <2>1, <2>2, <2>3, Zenon
<1> QED
  BY <1>2, <1>3, <1>5, <1>6, Zenon

(* The same of the document with the text t.                                  *)
LEMMA DocumentGoesOn ==
  ASSUME NEW s \in Seq(Token), NEW u \in Token, u # Blank, NEW t, MayFollow(Document(t), s, u)
  PROVE  \/ Len(s) = 0 /\ u = LBrace
         \/ Len(s) = 1 /\ u = String(DataKey)
         \/ Len(s) = 2 /\ s[2] = String(DataKey) /\ u = ColonMark
         \/ Len(s) = 3 /\ s[2] = String(DataKey) /\ u = String(t)
         \/ Len(s) = 4 /\ u = RBrace
         \/ Len(s) = 5 /\ s[5] = RBrace /\ u = EndMark
<1> DEFINE A == Token \cup {String(DataKey), String(t)}
           d == Document(t)
           n == Len(s)
<1>1. d \in Seq(A)
  BY DEF Document, Token, Mark
<1>2. /\ n <= Len(d) /\ \A i \in 1..n : s[i] = d[i]
      /\ \/ s = d /\ u = EndMark
         \/ n < Len(d) /\ d[n + 1] = u
  <2>1. s \in Seq(A) /\ u \in A
    OBVIOUS
  <2> HIDE DEF A, d
  <2>2. MayFollow(d, s, u)
    BY DEF d
  <2> QED
    BY <1>1, <2>1, <2>2, Follows
<1>3. /\ Len(d) = 5 /\ d[1] = LBrace /\ d[2] = String(DataKey) /\ d[3] = ColonMark
      /\ d[4] = String(t) /\ d[5] = RBrace
  BY DEF Document
<1>4. n \in Nat
  OBVIOUS
<1> HIDE DEF d, A
<1>5. CASE s = d /\ u = EndMark
  BY <1>3, <1>5, Zenon
<1>6. CASE n < 5 /\ d[n + 1] = u
  <2>1. n \in {0, 1, 2, 3, 4}
    BY <1>4, <1>6, Small, Zenon
  <2>2. n = 0 => u = d[1]
    BY <1>6
  <2>3. n = 1 => u = d[2]
    BY <1>6
  <2>4. n = 2 => u = d[3] /\ s[2] = d[2]
    BY <1>2, <1>6
  <2>5. n = 3 => u = d[4] /\ s[2] = d[2]
    BY <1>2, <1>6
  <2>6. n = 4 => u = d[5]
    BY <1>6
  <2> QED
    BY <1>3, <2>1, <2>2, <2>3, <2>4, <2>5, <2>6, Zenon
<1> QED
  BY <1>2, <1>3, <1>5, <1>6, Zenon

(* What may not come, place by place.                                         *)
LEMMA NothingFollows ==
  ASSUME NEW s \in Seq(Token), NEW u \in Token, u # Blank
  PROVE  /\ Len(s) = 0 /\ u # LBrace => NoDocument(s, u)
         /\ Len(s) = 1 /\ u # RBrace /\ (u \in Mark \/ u.word # "none") => NoDocument(s, u)
         /\ Len(s) = 2 /\ s[2] # RBrace /\ u # ColonMark => NoDocument(s, u)
         /\ Len(s) = 3 /\ (\/ s[2] # String(DataKey) \/ u \in Mark
                            \/ u.word # "none" \/ ~Binary(u.text).ok) => NoDocument(s, u)
         /\ Len(s) = 4 /\ u # RBrace => NoDocument(s, u)
         /\ Len(s) \in {2, 5} /\ s[Len(s)] = RBrace /\ u # EndMark => NoDocument(s, u)
         /\ Len(s) >= 5 /\ s[5] = CommaMark => NoDocument(s, u)
<1> DEFINE n == Len(s)
<1>1. MayFollow(Bare, s, u) =>
        \/ n = 0 /\ u = LBrace
        \/ n = 1 /\ u = RBrace
        \/ n = 2 /\ s[2] = RBrace /\ u = EndMark
  BY BareGoesOn
<1>2. ASSUME NEW t, MayFollow(Document(t), s, u)
      PROVE  \/ n = 0 /\ u = LBrace
             \/ n = 1 /\ u = String(DataKey)
             \/ n = 2 /\ s[2] = String(DataKey) /\ u = ColonMark
             \/ n = 3 /\ s[2] = String(DataKey) /\ u = String(t)
             \/ n = 4 /\ u = RBrace
             \/ n = 5 /\ s[5] = RBrace /\ u = EndMark
  BY <1>2, DocumentGoesOn
<1> DEFINE key1 == String(DataKey)
<1>3. /\ RBrace # key1 /\ RBrace # CommaMark
      /\ key1 \notin Mark /\ key1.word = "none"
  BY TokensDiffer, StringsDiffer
<1>4. \A t : String(t) \notin Mark /\ String(t).word = "none" /\ String(t).text = t
  BY StringsDiffer
<1> HIDE DEF n, key1
<1> USE <1>1, <1>2, <1>3 DEF NoDocument
<1>5. n = 0 /\ u # LBrace => NoDocument(s, u)
  OBVIOUS
<1>6. n = 1 /\ u # RBrace /\ (u \in Mark \/ u.word # "none") => NoDocument(s, u)
  BY DEF key1
<1>7. n = 2 /\ s[2] # RBrace /\ u # ColonMark => NoDocument(s, u)
  OBVIOUS
<1>8. n = 3 /\ (s[2] # key1 \/ u \in Mark \/ u.word # "none" \/ ~Binary(u.text).ok)
        => NoDocument(s, u)
  BY <1>4 DEF key1
<1>9. n = 4 /\ u # RBrace => NoDocument(s, u)
  OBVIOUS
<1>10. n \in {2, 5} /\ s[n] = RBrace /\ u # EndMark => NoDocument(s, u)
  BY DEF key1
<1>11. n \in Nat /\ n >= 5 /\ s[5] = CommaMark => NoDocument(s, u)
  OBVIOUS
<1>12. n \in Nat
  BY DEF n
<1> QED
  BY <1>5, <1>6, <1>7, <1>8, <1>9, <1>10, <1>11, <1>12 DEF n, key1

(* A short sequence is the tuple of its elements.                             *)
LEMMA ShortSequences ==
  ASSUME NEW A, NEW s \in Seq(A)
  PROVE  /\ Len(s) = 1 => s = <<s[1]>>
         /\ Len(s) = 2 => s = <<s[1], s[2]>>
         /\ Len(s) = 3 => s = <<s[1], s[2], s[3]>>
         /\ Len(s) = 4 => s = <<s[1], s[2], s[3], s[4]>>
         /\ Len(s) = 5 => s = <<s[1], s[2], s[3], s[4], s[5]>>
  OBVIOUS

(* What Append adds to.                                                       *)
LEMMA Appended ==
  ASSUME NEW A, NEW s \in Seq(A), NEW x \in A
  PROVE  /\ Append(s, x) \in Seq(A) /\ Len(Append(s, x)) = Len(s) + 1
         /\ \A i \in 1..Len(s) : Append(s, x)[i] = s[i]
         /\ Append(s, x)[Len(s) + 1] = x
  OBVIOUS

(* A tuple and one element more, up to three.                                 *)
LEMMA Tuples ==
  ASSUME NEW a, NEW b, NEW c
  PROVE  /\ Append(<<>>, a) = <<a>> /\ Append(<<a>>, b) = <<a, b>>
         /\ Append(<<a, b>>, c) = <<a, b, c>>
         /\ Len(<<>>) = 0 /\ Len(<<a>>) = 1
         /\ Len(<<a, b>>) = 2 /\ <<a, b>>[2] = b
         /\ Len(<<a, b, c>>) = 3 /\ <<a, b, c>>[2] = b
<1> DEFINE A == {a, b, c}
<1>1. <<>> \in Seq(A) /\ <<a>> \in Seq(A) /\ <<a, b>> \in Seq(A)
  OBVIOUS
<1>2. a \in A /\ b \in A /\ c \in A
  OBVIOUS
<1> HIDE DEF A
<1>3. Append(<<>>, a) = <<a>>
  <2> DEFINE s == Append(<<>>, a)
  <2>1. s \in Seq(A) /\ Len(s) = 1 /\ s[1] = a
    BY <1>1, <1>2, Appended
  <2> QED
    BY <2>1, ShortSequences
<1>4. Append(<<a>>, b) = <<a, b>>
  <2> DEFINE s == Append(<<a>>, b)
  <2>1. s \in Seq(A) /\ Len(s) = 2 /\ s[1] = a /\ s[2] = b
    BY <1>1, <1>2, Appended
  <2> QED
    BY <2>1, ShortSequences
<1>5. Append(<<a, b>>, c) = <<a, b, c>>
  <2> DEFINE s == Append(<<a, b>>, c)
  <2>1. s \in Seq(A) /\ Len(s) = 3 /\ s[1] = a /\ s[2] = b /\ s[3] = c
    BY <1>1, <1>2, Appended
  <2> QED
    BY <2>1, ShortSequences
<1> QED
  BY <1>3, <1>4, <1>5

(* Four elements.                                                             *)
LEMMA Fours ==
  ASSUME NEW a, NEW b, NEW c, NEW d
  PROVE  Append(<<a, b, c>>, d) = <<a, b, c, d>> /\ Len(<<a, b, c, d>>) = 4
<1> DEFINE A == {a, b, c, d}
           s == Append(<<a, b, c>>, d)
<1>1. s \in Seq(A) /\ Len(s) = 4 /\ s[1] = a /\ s[2] = b /\ s[3] = c /\ s[4] = d
  <2>1. <<a, b, c>> \in Seq(A) /\ d \in A
    OBVIOUS
  <2> HIDE DEF A
  <2> QED
    BY <2>1, Appended
<1> HIDE DEF A, s
<1>2. s = <<a, b, c, d>>
  BY <1>1, ShortSequences
<1> QED
  BY <1>2 DEF s

(* Five.                                                                      *)
LEMMA Fives ==
  ASSUME NEW a, NEW b, NEW c, NEW d, NEW e
  PROVE  /\ Append(<<a, b, c, d>>, e) = <<a, b, c, d, e>>
         /\ Len(<<a, b, c, d, e>>) = 5 /\ <<a, b, c, d, e>>[5] = e
<1> DEFINE A == {a, b, c, d, e}
           s == Append(<<a, b, c, d>>, e)
<1>1. /\ s \in Seq(A) /\ Len(s) = 5
      /\ s[1] = a /\ s[2] = b /\ s[3] = c /\ s[4] = d /\ s[5] = e
  <2>1. <<a, b, c, d>> \in Seq(A) /\ e \in A
    OBVIOUS
  <2> HIDE DEF A
  <2> QED
    BY <2>1, Appended
<1> HIDE DEF A, s
<1>2. s = <<a, b, c, d, e>>
  BY <1>1, ShortSequences
<1> QED
  BY <1>2 DEF s

(* What the reader has read so far, with the next token.                      *)
LEMMA Grows ==
  ASSUME NEW k, NEW x
  PROVE  /\ Append(<<LBrace, String(k)>>, ColonMark) = <<LBrace, String(k), ColonMark>>
         /\ Append(<<LBrace, String(DataKey), ColonMark>>, String(x)) = Half(x)
         /\ Append(Half(x), RBrace) = Document(x)
         /\ Len(Append(Half(x), CommaMark)) = 5 /\ Append(Half(x), CommaMark)[5] = CommaMark
         /\ Len(<<LBrace, String(k)>>) = 2 /\ <<LBrace, String(k)>>[2] = String(k)
         /\ Len(<<LBrace, String(k), ColonMark>>) = 3
         /\ <<LBrace, String(k), ColonMark>>[2] = String(k)
         /\ Len(Document(x)) = 5 /\ Document(x)[5] = RBrace
<1> DEFINE a == LBrace  b == String(k)  c == ColonMark  d == String(x)  e == RBrace
           f == CommaMark  g == String(DataKey)
<1> HIDE DEF a, b, c, d, e, f, g
<1>1. /\ Append(<<a, b>>, c) = <<a, b, c>> /\ Len(<<a, b>>) = 2 /\ <<a, b>>[2] = b
      /\ Len(<<a, b, c>>) = 3 /\ <<a, b, c>>[2] = b
  BY Tuples
<1>2. Append(<<a, g, c>>, d) = <<a, g, c, d>>
  BY Fours, Zenon
<1>3. /\ Append(<<a, g, c, d>>, e) = <<a, g, c, d, e>>
      /\ Len(<<a, g, c, d, e>>) = 5 /\ <<a, g, c, d, e>>[5] = e
  BY Fives
<1>4. /\ Append(<<a, g, c, d>>, f) = <<a, g, c, d, f>>
      /\ Len(<<a, g, c, d, f>>) = 5 /\ <<a, g, c, d, f>>[5] = f
  BY Fives
<1>5. Len(Append(<<a, g, c, d>>, f)) = 5 /\ Append(<<a, g, c, d>>, f)[5] = f
  BY <1>4, Zenon
<1> QED
  BY <1>1, <1>2, <1>3, <1>5, Zenon DEF Half, Document, a, b, c, d, e, f, g

--------------------------------------------------------------------------------
(* What the reader refuses where no document goes on so, it may refuse.       *)
LEMMA RefusingKeeps ==
  ASSUME ReaderInv, NEW t \in Token, NEW w, Refuse(t, w), NoDocument(read, t)
  PROVE  ReaderInv'
<1>1. TypeOK'
  BY DEF ReaderInv, TypeOK, Refuse, Phase
<1>2. Shape'
  BY DEF ReaderInv, Shape, Refuse
<1>3. Refused'
  BY DEF Refused, Refuse
<1> QED
  BY <1>1, <1>2, <1>3 DEF ReaderInv

(* Passing white space changes nothing else.                                  *)
LEMMA SpaceKeeps ==
  ASSUME ReaderInv, NEW t \in Token, Space(t)
  PROVE  ReaderInv'
<1>1. TypeOK'
  BY DEF ReaderInv, TypeOK, Space
<1>2. Shape' /\ Refused'
  BY DEF ReaderInv, Shape, Second, Refused, Space
<1> QED
  BY <1>1, <1>2 DEF ReaderInv

(* The brace that opens the value.                                            *)
LEMMA OpenKeeps ==
  ASSUME ReaderInv, NEW t \in Token, Open(t)
  PROVE  ReaderInv'
<1>1. read \in Seq(Token) /\ read = <<>> /\ ~seen /\ data = NoData /\ t # Blank
  BY DEF ReaderInv, TypeOK, Shape, Open, Skipped
<1>2. CASE t # LBrace /\ Refuse(t, "wrong_type")
  <2>1. Len(read) = 0
    BY <1>1
  <2>2. NoDocument(read, t)
    BY <1>1, <1>2, <2>1, NothingFollows
  <2> QED
    BY <1>2, <2>2, RefusingKeeps
<1>3. CASE t = LBrace /\ Take(t, "first") /\ UNCHANGED <<key, seen, data>>
  <2>1. TypeOK'
    BY <1>3 DEF ReaderInv, TypeOK, Take, Phase
  <2>2. read' = <<LBrace>>
    BY <1>1, <1>3, Tuples DEF Take
  <2>3. Shape' /\ Refused'
    BY <1>1, <1>3, <2>2 DEF Shape, Refused, Take
  <2> QED
    BY <2>1, <2>3 DEF ReaderInv
<1> QED
  BY <1>2, <1>3 DEF Open

(* The name of a field.                                                       *)
LEMMA KeyKeeps ==
  ASSUME ReaderInv, NEW t \in Token, Key(t)
  PROVE  ReaderInv'
<1> DEFINE fault == StrFault(t, "malformed")
<1>1. /\ read \in Seq(Token) /\ t # Blank /\ phase \in {"first", "key"}
      /\ phase = "first" => read = <<LBrace>> /\ t # RBrace /\ ~seen /\ data = NoData
      /\ phase = "key" => Second /\ seen
  BY DEF ReaderInv, TypeOK, Shape, Key, Skipped
<1>2. CASE fault # "none" /\ Refuse(t, fault)
  <2>1. t \in Mark \/ t.word # "none"
    BY <1>2 DEF StrFault
  <2>2. ASSUME phase = "first" PROVE NoDocument(read, t)
    <3>1. Len(read) = 1
      BY <1>1, <2>2, Tuples
    <3> QED
      BY <1>1, <2>1, <2>2, <3>1, NothingFollows
  <2>3. ASSUME phase = "key" PROVE NoDocument(read, t)
    BY <1>1, <2>3, NothingFollows DEF Second
  <2>4. NoDocument(read, t)
    BY <1>1, <2>2, <2>3
  <2> QED
    BY <1>2, <2>4, RefusingKeeps
<1>3. CASE fault = "none" /\ Take(t, "colon") /\ key' = t.text /\ UNCHANGED <<seen, data>>
  <2>1. t = String(t.text) /\ t.text \in Texts
    BY <1>3, Strings DEF StrFault
  <2>2. TypeOK'
    BY <1>3, <2>1 DEF ReaderInv, TypeOK, Take, Phase
  <2> DEFINE k == t.text
  <2>3. t = String(k) /\ key' = k
    BY <1>3, <2>1
  <2> HIDE DEF k
  <2>4. ASSUME phase = "first" PROVE Shape' /\ Refused'
    <3>1. read' = <<LBrace, String(k)>>
      BY <1>1, <1>3, <2>3, <2>4, Tuples, Zenon DEF Take
    <3>2. read' = <<LBrace, String(key')>>
      BY <2>3, <3>1, Zenon
    <3> QED
      BY <1>1, <1>3, <2>4, <3>2 DEF Shape, Refused, Take
  <2>5. ASSUME phase = "key" PROVE Shape' /\ Refused'
    <3>1. Second'
      BY <1>1, <1>3, <2>5 DEF Second, Take
    <3> QED
      BY <1>1, <1>3, <2>5, <3>1 DEF Shape, Refused, Take
  <2> QED
    BY <1>1, <2>2, <2>4, <2>5 DEF ReaderInv
<1> QED
  BY <1>2, <1>3 DEF Key

(* The colon after the name.                                                  *)
LEMMA ColonKeeps ==
  ASSUME ReaderInv, NEW t \in Token, Colon(t)
  PROVE  ReaderInv'
<1>1. /\ read \in Seq(Token) /\ t # Blank /\ phase = "colon" /\ (~seen => data = NoData)
      /\ IF seen THEN Second ELSE read = <<LBrace, String(key)>>
  BY DEF ReaderInv, TypeOK, Shape, Colon, Skipped
<1>2. CASE t # ColonMark /\ Refuse(t, "malformed")
  <2>1. ASSUME seen PROVE NoDocument(read, t)
    BY <1>1, <2>1, NothingFollows DEF Second
  <2>2. ASSUME ~seen PROVE NoDocument(read, t)
    <3>1. Len(read) = 2 /\ read[2] = String(key)
      BY <1>1, <2>2, Grows, Zenon
    <3>2. read[2] # RBrace
      BY <3>1, StringsDiffer
    <3> QED
      BY <1>1, <1>2, <3>1, <3>2, NothingFollows
  <2> QED
    BY <1>2, <2>1, <2>2, RefusingKeeps
<1>3. CASE t = ColonMark /\ Take(t, "field") /\ UNCHANGED <<key, seen, data>>
  <2>1. TypeOK'
    BY <1>3 DEF ReaderInv, TypeOK, Take, Phase
  <2>2. ASSUME ~seen PROVE Shape' /\ Refused'
    <3>1. read' = <<LBrace, String(key'), ColonMark>>
      BY <1>1, <1>3, <2>2, Grows, Zenon DEF Take
    <3> QED
      BY <1>1, <1>3, <2>2, <3>1 DEF Shape, Refused, Take
  <2>3. ASSUME seen PROVE Shape' /\ Refused'
    <3>1. Second'
      BY <1>1, <1>3, <2>3 DEF Second, Take
    <3> QED
      BY <1>1, <1>3, <2>3, <3>1 DEF Shape, Refused, Take
  <2> QED
    BY <2>1, <2>2, <2>3 DEF ReaderInv
<1> QED
  BY <1>2, <1>3 DEF Colon

(* The value of the field.                                                    *)
LEMMA FieldKeeps ==
  ASSUME ReaderInv, NEW t \in Token, Field(t)
  PROVE  ReaderInv'
<1> DEFINE b     == Binary(t.text)
           fault == IF key # DataKey THEN "unknown_field"
                    ELSE IF seen THEN "duplicate_field"
                    ELSE IF StrFault(t, "wrong_type") # "none" THEN StrFault(t, "wrong_type")
                    ELSE IF ~b.ok THEN "bad_binary" ELSE "none"
<1>1. /\ read \in Seq(Token) /\ t # Blank /\ phase = "field" /\ seen \in BOOLEAN
      /\ IF seen THEN Second ELSE read = <<LBrace, String(key), ColonMark>>
  BY DEF ReaderInv, TypeOK, Shape, Field, Skipped
<1>2. ~seen => Len(read) = 3 /\ read[2] = String(key)
  BY <1>1, Grows, Zenon
<1>3. CASE fault # "none" /\ Refuse(t, fault)
  <2>1. ASSUME seen PROVE NoDocument(read, t)
    BY <1>1, <2>1, NothingFollows DEF Second
  <2>2. ASSUME ~seen PROVE NoDocument(read, t)
    <3>1. key # DataKey \/ t \in Mark \/ t.word # "none" \/ ~b.ok
      BY <1>3, <2>2 DEF StrFault
    <3>2. key # DataKey => read[2] # String(DataKey)
      BY <1>2, <2>2, StringsDiffer
    <3> HIDE DEF b
    <3> QED
      BY <1>1, <1>2, <2>2, <3>1, <3>2, NothingFollows DEF b
  <2> QED
    BY <1>3, <2>1, <2>2, RefusingKeeps
<1>4. CASE /\ fault = "none" /\ Take(t, "after")
           /\ seen' = TRUE /\ data' = b.data /\ UNCHANGED key
  <2>1. key = DataKey /\ ~seen /\ t \notin Mark /\ t.word = "none" /\ b.ok
    BY <1>4 DEF StrFault
  <2>2. t = String(t.text) /\ t.text \in Texts
    BY <2>1, Strings
  <2>3. TypeOK'
    BY <1>4 DEF ReaderInv, TypeOK, Take, Phase
  <2> DEFINE x == t.text
  <2>4. t = String(x) /\ x \in Texts /\ Binary(x).ok /\ data' = Binary(x).data
    BY <1>4, <2>1, <2>2
  <2> HIDE DEF x
  <2>5. read' = Half(x)
    BY <1>1, <1>4, <2>1, <2>4, Grows, Zenon DEF Take
  <2>6. \E y \in Texts : Binary(y).ok /\ read' = Half(y) /\ data' = Binary(y).data
    BY <2>4, <2>5
  <2>7. seen' /\ phase' = "after"
    BY <1>4 DEF Take
  <2>8. Shape' /\ Refused'
    BY <2>6, <2>7 DEF Shape, Refused
  <2> QED
    BY <2>3, <2>8 DEF ReaderInv
<1> QED
  BY <1>3, <1>4 DEF Field

(* The comma after a field: there is no second field to come.                 *)
LEMMA CommaKeeps ==
  ASSUME ReaderInv, NEW t \in Token, Comma(t)
  PROVE  ReaderInv'
<1>1. TypeOK'
  BY DEF ReaderInv, TypeOK, Comma, Take, Phase
<1>2. PICK x \in Texts : read = Half(x)
  BY DEF ReaderInv, Shape, Comma
<1>3. seen /\ t = CommaMark /\ read' = Append(read, t) /\ phase' = "key" /\ seen' = seen
  BY DEF ReaderInv, Shape, Comma, Take
<1>4. Len(read') = 5 /\ read'[5] = CommaMark
  BY <1>2, <1>3, Grows, Zenon
<1>5. Second'
  BY <1>4 DEF Second
<1>6. Shape' /\ Refused'
  BY <1>3, <1>5 DEF Shape, Refused
<1> QED
  BY <1>1, <1>6 DEF ReaderInv

(* The brace that closes the value.                                           *)
LEMMA CloseKeeps ==
  ASSUME ReaderInv, NEW t \in Token, Close(t)
  PROVE  ReaderInv'
<1>1. read \in Seq(Token) /\ t # Blank /\ phase \in {"first", "after"}
  BY DEF ReaderInv, TypeOK, Close, Skipped
<1>2. CASE phase = "after" /\ t \notin {RBrace, CommaMark} /\ Refuse(t, "malformed")
  <2>1. PICK x \in Texts : read = Half(x)
    BY <1>2 DEF ReaderInv, Shape
  <2>2. Len(read) = 4
    BY <2>1, Fours, Zenon DEF Half
  <2>3. NoDocument(read, t)
    BY <1>1, <1>2, <2>2, NothingFollows
  <2> QED
    BY <1>2, <2>3, RefusingKeeps
<1>3. CASE t = RBrace /\ Take(t, "trail") /\ UNCHANGED <<key, seen, data>>
  <2>1. TypeOK'
    BY <1>3 DEF ReaderInv, TypeOK, Take, Phase
  <2>2. ASSUME phase = "first" PROVE read' = Bare /\ data' = NoData
    <3>1. read = <<LBrace>> /\ data = NoData
      BY <2>2 DEF ReaderInv, Shape
    <3> QED
      BY <1>3, <3>1, Tuples, Zenon DEF Take, Bare
  <2>3. ASSUME phase = "after"
        PROVE  \E x \in Texts : Binary(x).ok /\ read' = Document(x) /\ data' = Binary(x).data
    <3>1. PICK x \in Texts : Binary(x).ok /\ read = Half(x) /\ data = Binary(x).data
      BY <2>3 DEF ReaderInv, Shape
    <3>2. read' = Document(x) /\ data' = Binary(x).data
      BY <1>3, <3>1, Grows, Zenon DEF Take
    <3> QED
      BY <3>1, <3>2
  <2>4. phase' = "trail" /\ (~seen' => data' = NoData)
    BY <1>3 DEF ReaderInv, Shape, Take
  <2>5. Shape' /\ Refused'
    BY <1>1, <2>2, <2>3, <2>4 DEF Shape, Refused
  <2> QED
    BY <2>1, <2>5 DEF ReaderInv
<1> QED
  BY <1>2, <1>3 DEF Close

(* The end of the document.                                                   *)
LEMMA EndKeeps ==
  ASSUME ReaderInv, NEW t \in Token, End(t)
  PROVE  ReaderInv'
<1>1. read \in Seq(Token) /\ t # Blank /\ phase = "trail"
  BY DEF ReaderInv, TypeOK, End, Skipped
<1>2. CASE t # EndMark /\ Refuse(t, "trailing_bytes")
  <2>1. CASE read = Bare
    <3>1. Len(read) = 2 /\ read[2] = RBrace
      BY <2>1, Tuples, Zenon DEF Bare
    <3>2. Len(read) \in {2, 5} /\ read[Len(read)] = RBrace
      BY <3>1, Zenon
    <3>3. NoDocument(read, t)
      BY <1>1, <1>2, <3>2, NothingFollows
    <3> QED
      BY <1>2, <3>3, RefusingKeeps
  <2>2. CASE \E x \in Texts : read = Document(x)
    <3>1. Len(read) = 5 /\ read[5] = RBrace
      BY <2>2, Grows, Zenon
    <3>2. Len(read) \in {2, 5} /\ read[Len(read)] = RBrace
      BY <3>1, Zenon
    <3>3. NoDocument(read, t)
      BY <1>1, <1>2, <3>2, NothingFollows
    <3> QED
      BY <1>2, <3>3, RefusingKeeps
  <2> QED
    BY <1>1, <2>1, <2>2 DEF ReaderInv, Shape
<1>3. CASE t = EndMark /\ phase' = "accepted" /\ UNCHANGED <<pos, read, at, key, seen, data, word>>
  <2>1. TypeOK'
    BY <1>3 DEF ReaderInv, TypeOK, Phase
  <2>2. Shape' /\ Refused'
    BY <1>1, <1>3 DEF ReaderInv, Shape, Refused
  <2> QED
    BY <2>1, <2>2 DEF ReaderInv
<1> QED
  BY <1>2, <1>3 DEF End

--------------------------------------------------------------------------------
(* Every step of the reader keeps to what the documents are.                  *)
THEOREM ReaderHolds == Spec => []ReaderInv
<1>1. Init => ReaderInv
  <2> SUFFICES ASSUME Init PROVE ReaderInv
    OBVIOUS
  <2>1. TypeOK
    <3>1. Blank \in Token /\ <<>> \in Seq(Token)
      BY DEF Token, Mark
    <3> QED
      BY <3>1 DEF Init, TypeOK, Phase
  <2>2. Shape /\ Refused
    BY DEF Init, Shape, Refused
  <2> QED
    BY <2>1, <2>2 DEF ReaderInv
<1>2. ReaderInv /\ [Next]_vars => ReaderInv'
  <2> SUFFICES ASSUME ReaderInv, [Next]_vars PROVE ReaderInv'
    OBVIOUS
  <2>1. CASE Next
    <3>1. PICK t \in Token :
            \/ Space(t) \/ Open(t) \/ Key(t) \/ Colon(t) \/ Field(t)
            \/ Comma(t) \/ Close(t) \/ End(t)
      BY <2>1 DEF Next
    <3> QED
      BY <3>1, SpaceKeeps, OpenKeeps, KeyKeeps, ColonKeeps, FieldKeeps, CommaKeeps,
         CloseKeeps, EndKeeps
  <2>2. CASE UNCHANGED vars
    BY <2>2 DEF ReaderInv, TypeOK, Shape, Second, Refused, vars
  <2> QED
    BY <2>1, <2>2
<1> QED
  BY <1>1, <1>2, PTL DEF Spec

(* What is accepted is a document, read for what it means.                    *)
THEOREM ReaderTakesDocuments == Spec => []AcceptsOnlyDocuments
<1>1. ReaderInv => AcceptsOnlyDocuments
  BY DEF ReaderInv, Shape, AcceptsOnlyDocuments
<1> QED
  BY <1>1, ReaderHolds, PTL

(* What is refused is no document.                                            *)
THEOREM ReaderRefusesTheRest == Spec => []RefusesNoDocument
<1>1. ReaderInv => RefusesNoDocument
  BY DEF ReaderInv, Refused, NoDocument, RefusesNoDocument
<1> QED
  BY <1>1, ReaderHolds, PTL

(* What Encode wrote is not refused, and is taken for the value that it was   *)
(* written for: the text of the field reads back (ValuesReadBack).            *)
THEOREM ReaderReadsEncoded == Spec => []EncodedSurvives
<1>1. ASSUME ReaderInv, NEW d \in Values \cup {NoData}
      PROVE  /\ phase = "refused" => ~MayFollow(Encode(d), read, at)
             /\ phase = "accepted" /\ read = Encode(d) => data = d
  <2>1. CASE d = NoData
    <3>1. Encode(d) = Bare
      BY <2>1 DEF Encode, Bare
    <3>2. \A t : Document(t) # Bare
      <4>1. \A t : Len(Document(t)) = 5 /\ Len(Bare) = 2
        BY Tuples, Grows, Zenon DEF Bare
      <4> QED
        BY <4>1
    <3> QED
      BY <1>1, <2>1, <3>1, <3>2 DEF ReaderInv, Refused, NoDocument, Shape
  <2>2. CASE d # NoData
    <3> DEFINE t == EncodeBinary(d)
    <3>1. Encode(d) = Document(t)
      BY <2>2 DEF Encode, Document
    <3>2. Binary(t) = [ok |-> TRUE, data |-> d]
      BY <1>1, <2>2, DocumentsAssumption, ValuesReadBack
    <3>3. Binary(t).ok /\ Binary(t).data = d
      BY <3>2
    <3> HIDE DEF t
    <3>4. Document(t) # Bare
      <4>1. Len(Document(t)) = 5 /\ Len(Bare) = 2
        BY Tuples, Grows, Zenon DEF Bare
      <4> QED
        BY <4>1
    <3>5. ASSUME NEW x, Document(x) = Document(t) PROVE x = t
      <4>1. Document(x)[4] = String(x) /\ Document(t)[4] = String(t)
        BY DEF Document
      <4> QED
        BY <3>5, <4>1, StringsDiffer
    <3> QED
      BY <1>1, <3>1, <3>3, <3>4, <3>5 DEF ReaderInv, Refused, NoDocument, Shape
  <2> QED
    BY <2>1, <2>2
<1>2. ReaderInv => EncodedSurvives
  BY <1>1 DEF EncodedSurvives
<1> QED
  BY <1>2, ReaderHolds, PTL
================================================================================
