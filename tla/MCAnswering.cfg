SPECIFICATION FairSpec
CONSTANTS
    Ids = {1, 2, 3, 4, 5, 6, 7, 8}
    Unknown = {9}
    Chars <- MCChars
    Overlap <- MCOverlap
    CandidateLists <- MCLists
    Rerankers = {"none", "mock", "cross-encoder"}
    TopK = 3
    MaxChunks = 4
    MaxChars = 24
    MaxTokens = 7
    Providers = {"mock", "openai"}
    MaxRetries = 2
    Texts <- MCTexts
INVARIANTS TypeOK RerankIsFaithful WithinBudget TotalsAreExact ContextIsPrefix RetriesAreRight AnswerIsSupported
PROPERTY QueryEnds
CHECK_DEADLOCK FALSE
