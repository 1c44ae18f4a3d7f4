\* Three keys, two workers (NumThreads), one retry: a key is queued, held
\* and marked again while others wait behind it.
CONSTANTS
    k1 = k1
    k2 = k2
    k3 = k3
    w1 = w1
    w2 = w2
    Keys = {k1, k2, k3}
    Workers = {w1, w2}
    MaxRetries = 1
    NoKey = NoKey
SPECIFICATION FairSpec
INVARIANTS TypeOK MutualExclusion QueueOfDirty NoLostKey ProcessingIsHeld ExitedMeansDrained
PROPERTIES KeyQueueSpec EventIsProcessed FailedKeyIsRetried
\* the workers stop after ShutDown
CHECK_DEADLOCK FALSE
