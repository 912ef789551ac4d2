SPECIFICATION Spec
CONSTANTS
    w = w
    s1 = s1
    s2 = s2
    Threads = {w, s1, s2}
    Adders = {w, s1}
    Batches <- OneChunkBatches
    Removals = {}
    Queries = {"rag"}
    Tokenless = {}
    Score <- SignedScore
    TopK = 1
    Uses <- TwoWriters
INVARIANT HitsAreOwn
