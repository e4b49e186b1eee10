SPECIFICATION Spec
CONSTANTS
    Nodes <- OneNode
    Signers <- TwoSigners
    Amounts <- SmallAmounts
    Limit = 4
    Batches <- TwoBatches
    NoBatch = NoBatch
    Nobody = Nobody
    n1 = n1
    s1 = s1
    s2 = s2
    b1 = b1
    b2 = b2
PROPERTIES BooksExact EntriesPermanent
