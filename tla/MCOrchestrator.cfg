SPECIFICATION Spec
CONSTANTS
    Threads = {t1, t2}
    Texts = {"rag", "note"}
    Unloadable = {"broken"}
    Unembeddable = {"unembeddable"}
    Misfit = {"misfit"}
    DefaultLeast = 0
    Sim <- MCSim
    DenseWeighs = TRUE
    CandidateLimit = 50
    Uploads <- MCUploads
    Requests <- MCRequests
    CacheEnabled = TRUE
    Configurations <- MCConfigurations
    MaxCalls = 3
    MaxFailures = 1
    MaxRestarts = 1
INVARIANTS TypeOK LexicalHasVectors AckedIsSearchable FailuresAreIsolated DocumentsAreCounted
INVARIANT SearchesAreFresh
SYMMETRY Swap
CHECK_DEADLOCK FALSE
