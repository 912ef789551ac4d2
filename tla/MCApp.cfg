SPECIFICATION AppSpec
CONSTANTS
    t1 = t1
    t2 = t2
    k1 = k1
    k2 = k2
    k3 = k3
    Threads = {t1, t2}
    Keys = {k1, k2, k3}
    Values <- MCValues
    Matching <- MCMatching
    MaxEntries = 2
    Enabled = TRUE
    MaxCalls = 4
    MaxRequests = 4
SYMMETRY Symmetry
INVARIANTS TypeOK Capped LeastRecentlyUsedGoes AppTypeOK LostOnlyByRace CountsAgree
\* All requests of the bound have been answered.
CHECK_DEADLOCK FALSE
