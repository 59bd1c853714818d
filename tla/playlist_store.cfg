SPECIFICATION StoreSpec
CONSTANTS
    a = a
    b = b
    Track = {a, b}
    Fetcher = {f1, f2}
    Main = main
    NoThread = nobody
    Answers <- MCAnswers
    Jingles <- MCJingles
SYMMETRY Symmetric
INVARIANTS
    TypeOK
    MutualExclusion
    AnnouncedIsWhole
PROPERTY
    ImplementsRegister
