SPECIFICATION FairSpec
CONSTANT MaxOpens = 2
INVARIANTS NoLeak 
PROPERTIES RemovedIsReleased CleanupEnds
