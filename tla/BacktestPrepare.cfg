\* One prepare job and the backtests that wait for it or not.
SPECIFICATION FairSpec
CONSTANTS
    MaxConcurrent = 1
    MaxJobs = 1
    MaxRuns = 2
    MaxTroubles = 1
PROPERTIES
    StartedOnPreparedData
    EveryRunEnds
    StartedWaiterAnswered
CHECK_DEADLOCK FALSE
