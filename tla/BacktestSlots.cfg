\* Three runs, two slots, one restart, one child that fails to start.
SPECIFICATION Spec
CONSTANTS
    j1 = j1
    Jobs <- OneJob
    NoJob = NoJob
    MaxConcurrent = 2
    MaxRuns = 3
    MaxCrashes = 1
    MaxFaults = 1
INVARIANTS
    TypeOK
    RunningWithinLimit
    SlotsMatchChildren
    NoIdleQueue
PROPERTIES
    FinishedStaysFinished
\* once every run is over and the rows are deleted nothing is left to do
CHECK_DEADLOCK FALSE
