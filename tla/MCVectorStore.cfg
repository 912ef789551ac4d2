SPECIFICATION FairSpec
CONSTANTS
    Threads = {t1, t2}
    Ids = {1, 2, 3}
    Docs = {"d1", "d2"}
    DocOf <- MCDocOf
    Texts = {"x", "y"}
    Vectors = {1, 2, 3}
    WrongVectors = {99}
    Sim <- MCSim
    Batches <- MCBatches
    Queries <- MCQueries
    Models = {"unknown", "mock"}
    MaxAdds = 2
INVARIANTS TypeOK Consistent
PROPERTIES RefinesAtomic LockIsReleased
