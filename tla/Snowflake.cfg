CONSTANTS
    g1 = g1
    g2 = g2
    Generators = {g1, g2}
    WorkerID <- MCWorkerID
    MaxWorker = 1
    MaxSequence = 1
    MaxTime = 3
    MaxIssued = 3
SPECIFICATION Spec
INVARIANTS
    TypeOK
    IncreasingIds
    WorkersNeverCollide
