\* Up to three inner tokens starting at offsets up to 5, each a word of
\* 1 or 3 bytes or an alphabetic token cut into up to two such words.
CONSTANTS
    MaxTokens = 3
    MaxPieces = 2
    Lens = {1, 3}
    MaxFrom = 5
SPECIFICATION Spec
INVARIANT TypeOK
INVARIANT OutputMatchesReference
\* The iteration ends when next() returns None.
CHECK_DEADLOCK FALSE
