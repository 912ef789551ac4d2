SPECIFICATION Spec
CONSTANTS
    w = w
    s1 = s1
    s2 = s2
    Threads = {w, s1, s2}
    Adders = {w}
    Batches <- MCBatches
    Removals <- MCRemovals
    Queries = {"rag", "negated", "..."}
    Tokenless = {"..."}
    Score <- SignedScore
    TopK = 2
    Uses <- MCUses
INVARIANTS TypeOK PositionsAgree HitsAreOwn
PROPERTY RefinesAtomic
\* An emptied index stops at the bound on writes: retrieve() never searches it.
CHECK_DEADLOCK FALSE
