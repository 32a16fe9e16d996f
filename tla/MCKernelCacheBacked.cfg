SPECIFICATION Spec
CONSTANTS
    tuner = tuner
    server = server
    c1 = c1
    c2 = c2
    Writers = {tuner}
    Readers = {tuner, server}
    Gpus <- MCGpus
    Ops <- MCOps
    Entries <- MCEntries
    TuningDocs <- MCTuningDocs
    Paths = {"a.so"}
    Hashes = {"h1", "h2"}
    MaxEdits = 4
INVARIANT BinariesBacked
