SPECIFICATION Spec
CONSTANTS
    a = a
    b = b
    Track = {a, b}
    Fetcher = {f1}
    Main = main
    NoThread = nobody
    Answers <- OneList
    Jingles <- MCJingles
    RateOf <- TwoRates
    NoRate = norate
    NoIndex = noindex
    NoTrack = notrack
    MaxFrames = 1
INVARIANTS
    PlayerTypeOK
    IteratorValid
    InTurn
    HeaderFirst
