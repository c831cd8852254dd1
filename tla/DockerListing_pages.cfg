\* Pages of one item, prefixes of up to two characters, the code's four
\* attempts; two items may share a prefix of that length.
SPECIFICATION Spec
CONSTANTS
    Ids <- FourIds
    Chars <- TwoChars
    PageSize = 1
    MaxDepth = 2
    MaxAttempts = 4
    MaxChanges = 2
INVARIANTS
    TypeOK
    ListingIsComplete
PROPERTIES
    ListingEnds
