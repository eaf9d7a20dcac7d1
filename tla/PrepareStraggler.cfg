\* A failed job, and the next one.
SPECIFICATION Spec
CONSTANTS
    s1 = s1
    Schedules <- OneSchedule
    NoSchedule = NoSchedule
    MaxJobs = 2
    MaxCrashes = 0
    MaxFaults = 0
INVARIANT
    OneJobExports
\* once every job is over nothing is left to do
CHECK_DEADLOCK FALSE
