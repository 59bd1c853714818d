SPECIFICATION FairSpec
CONSTANTS
    a = a
    b = b
    Track = {a, b}
    Fetcher = {f1}
    Main = main
    NoThread = nobody
    Answers <- OneList
    Jingles <- NoJingles
    RateOf <- TwoRates
    NoRate = norate
    NoIndex = noindex
    NoTrack = notrack
    MaxFrames = 1
PROPERTY
    ReconnectGivesUp
