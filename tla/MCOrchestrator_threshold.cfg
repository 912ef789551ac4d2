SPECIFICATION Spec
CONSTANTS
    Threads = {t1, t2}
    Texts = {"rag", "note"}
    Unloadable = {"broken"}
    Unembeddable = {"unembeddable"}
    Misfit = {"misfit"}
    DefaultLeast = 0
    Sim <- MCSim
    DenseWeighs = TRUE
    CandidateLimit = 50
    Uploads <- MCUploads
    Requests <- AnyThreshold
    CacheEnabled = TRUE
    Configurations <- Offline
    MaxCalls = 3
    MaxFailures = 1
    MaxRestarts = 0
INVARIANT OnlyMatches
CHECK_DEADLOCK FALSE
