SPECIFICATION MCSpec
CONSTANTS
    Lookups = {l1, l2}
    Names = {n1, n2, n3}
    MinTTL = 0
    MaxTTL = 1
    MaxEntries = 2
    TTLs = {0, 2}
    MaxEvents = 2
    HeadBytes <- MCHeadBytes
    Terminator <- MCTerminator
    InitialCap = 2
    HeadLimit = 6
    Token <- MCToken
    Letters = {"u", "p"}
    WideSpaces = {}
    MaxSymbols = 7
    Texts <- MCTexts
    ClassOf <- MCClassOf
SYMMETRY Symmetry
INVARIANTS
    EditsSeen
    AnswersCurrent
    HeadReads
    
    DecodeAsStd
    LanesExact
CHECK_DEADLOCK FALSE
