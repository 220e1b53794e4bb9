\* Documents of up to 12 tokens, of which Encode writes 5; strings of up to four
\* bytes or pieces, from either side of each range; texts of up to two groups of
\* base64, and values of up to two groups and one byte.
SPECIFICATION CodecSpec
CONSTANTS
    Pad = Pad
    Others = {Bad}
    Junk = Junk
    NoData = NoData
    Texts <- SomeTexts
    Values <- SomeValues
    MaxTokens = 12
    MaxBytes = 4
    MaxPieces = 4
    MaxChars = 8
    MaxData = 7
    Alphabet = {0, 16, 63, Pad, Bad}
    Octets = {0, 3, 129, 255}
INVARIANTS
    AcceptsOnlyDocuments
    RefusesNoDocument
    EncodedSurvives
    TakesWellFormedText
    EscapedTextReadsBack
    ReadsStringsOfJSON
    ReadsTheStandard
    BytesSurvive
\* The reader stops when it has answered, and inputs when they are long.
CHECK_DEADLOCK FALSE
