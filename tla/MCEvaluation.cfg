SPECIFICATION Spec
CONSTANTS
    Chunks = {1, 2, 3, 4, 5}
    Title <- MCTitle
    Words <- MCWords
    QueryWords <- MCQueryWords
    Dense <- MCDense
    Bm25 <- MCBm25
    Gain <- MCGain
    CaseLists <- MCCaseLists
    Configurations <- MCConfigurations
    TopK = 2
    MinSimilarity = 4
    MaxIngests = 1
    MaxFailures = 1
    Alpha = 3
    AlphaOf = 5
    Scale = 420
    Unit = 100000
    RrfK = 60
    CandidateLimit = 3
INVARIANTS TypeOK BetterGoesFirst MeasuresAgree
CHECK_DEADLOCK FALSE
