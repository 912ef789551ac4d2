SPECIFICATION Spec
CONSTANTS
    Characters <- MCCharacters
    Blanks <- MCBlanks
    Stops = {"."}
    Starters = {"A", "B", "D"}
    NewLine <- MCNewLine
    Space = " "
    Tag = "T"
    MaxBytes = 16
    JsonDepth = 1
    JsonValues <- MCJsonValues
    Nesting <- MCNesting
    Batches <- MCBatches
    Setups <- MCSetups
    BatchSize = 2
    MaxVanish = 1
    Longest = 4
INVARIANTS TypeOK ChunksAreTheText ChunksFit VectorsAreOwn ItemsAreIsolated
CHECK_DEADLOCK FALSE
