\* Three jobs, one schedule, one restart, one fault, under fairness.
SPECIFICATION FairSpec
CONSTANTS
    s1 = s1
    Schedules <- OneSchedule
    NoSchedule = NoSchedule
    MaxJobs = 3
    MaxCrashes = 1
    MaxFaults = 1
INVARIANTS
    TypeOK
    SerialExecution
    NoIdleRunner
    BroadcastMatchesRow
    RunFollowsJob
    OneActiveRunPerSchedule
    CancelReachesWorker
PROPERTIES
    OutcomeIsFinal
    EveryJobEnds
    NoScheduleBlocked
\* once every job is over nothing is left to do
CHECK_DEADLOCK FALSE
