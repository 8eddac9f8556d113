\* Every value of every generated type over the sample fields, with arrays
\* of up to two elements: encoded, the stream cut or not, and decoded.
CONSTANTS
    Numbers <- MCNumbers
    Texts <- MCTexts
    Structures <- MCStructures
    MaxArrayLen = 2
    Followers <- MCFollowers
SPECIFICATION Spec
INVARIANTS
    TypeOK
    RoundTrip
    ByteLenIsEncodedLength
    TruncatedIsRefused
