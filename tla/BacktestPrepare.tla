--------------------------- MODULE BacktestPrepare ---------------------------
(***************************************************************************)
(* One server: the queue of backtest runs and the queue of prepare jobs,   *)
(* joined by the event that onSseEvent (api/server.js) hands from the      *)
(* second to the first.  A run may be enqueued with depends_on_job; it is  *)
(* let go when the job is announced as completed, by the very handler that *)
(* settles the job, and what this handler throws falls on the job.         *)
(*                                                                         *)
(* PrepareJobs and BacktestQueue are taken as they are: each step of the   *)
(* server is a step of one of them, of both for the event and for a        *)
(* restart.  Schedules touch the prepare jobs only and are left to         *)
(* PrepareJobs.                                                            *)
(***************************************************************************)
EXTENDS Integers

CONSTANTS
    MaxConcurrent,  \* config.maxConcurrentBacktests
    MaxJobs,        \* bound: prepare jobs ever inserted
    MaxRuns,        \* bound: backtest runs ever inserted
    MaxTroubles     \* bound: times the server process dies by itself, a child
                    \*   does not start, a worker dies or a listener throws

ASSUME ServerAssumption ==
    /\ MaxConcurrent \in Nat \ {0}
    /\ MaxJobs \in Nat
    /\ MaxRuns \in Nat
    /\ MaxTroubles \in Nat

VARIABLES
    row, worker, asked, mail,                \* of the prepare jobs
    current, cancelRequested, activeWorker,
    told, exists, owner, run, restarts, jobFaults,
    status, dep, child, active, owned,       \* of the backtest runs
    waiter, heard, up, crashes, faults

jobVars == <<row, worker, asked, mail, current, cancelRequested, activeWorker, told,
             exists, owner, run, restarts, jobFaults>>
runVars == <<status, dep, child, active, owned, waiter, heard, up, crashes, faults>>
vars == <<jobVars, runVars>>

(* A drain that throws can bring the process down as well.                 *)
P == INSTANCE PrepareJobs
     WITH Schedules <- {}, NoSchedule <- "none",
          MaxCrashes <- MaxTroubles, MaxFaults <- MaxTroubles,
          crashes <- restarts, faults <- jobFaults

Q == INSTANCE BacktestQueue
     WITH Jobs <- P!Jobs, NoJob <- P!NoJob, job <- heard,
          MaxCrashes <- MaxTroubles, MaxFaults <- MaxTroubles

Init == P!Init /\ Q!Init

-----------------------------------------------------------------------------
(* POST /api/backtest/run names a job that exists, or none.                *)
EnqueueRun(r) ==
    /\ Q!Enqueue(r)
    /\ dep'[r] # P!NoJob => row[dep'[r]] # "none"
    /\ UNCHANGED jobVars

RunStep(r) ==
    /\ Q!Cancel(r) \/ Q!Delete(r) \/ Q!OnExit(r) \/ Q!ChildStep(r)
    /\ UNCHANGED jobVars

JobStep(j) ==
    /\ up
    /\ P!Enqueue(j) \/ P!CancelQueued(j) \/ P!CancelRunning(j) \/ P!Hear(j)
       \/ P!Straggle(j) \/ P!OnExit(j)
    /\ UNCHANGED runVars

WorkerStep(j) ==
    /\ up
    /\ P!WorkerStep(j)
    /\ UNCHANGED runVars

(* The drain has thrown: a run was marked running and got no child.        *)
Thrown == \E r \in Q!Runs :
              /\ status[r] # "running" /\ status'[r] = "running"
              /\ child'[r] = "none"

(* The job is settled, and the queue of runs is the listener that may      *)
(* throw; the runner then announces the job a second time, as failed.      *)
Announce(j) ==
    /\ P!Settle(j)
    /\ IF mail[j] = "completed"
       THEN /\ Q!JobCompleted(j)
            /\ (jobFaults' # jobFaults) = Thrown
       ELSE Q!JobFailed(j)

Crash == Q!Crash /\ UNCHANGED jobVars

(* failOrphanedPrepareJobs (server.js) fails what is open; a job that was  *)
(* over without having been announced never will be.                       *)
Boot ==
    /\ Q!Boot
    /\ P!Restart
    /\ \A j \in P!Jobs :
          heard[j] = "pending" => (heard'[j] = "failed") = (row[j] # "none")

(* A drain that throws counts for both queues, and once.                   *)
WithinBounds == crashes' + faults' + jobFaults' - (IF jobFaults' > 0 /\ faults' > 0 THEN 1 ELSE 0)
                    <= MaxTroubles

Act ==
    \/ \E r \in Q!Runs : EnqueueRun(r) \/ RunStep(r)
    \/ \E j \in P!Jobs : JobStep(j) \/ WorkerStep(j) \/ Announce(j)
    \/ Crash
    \/ Boot

Next == Act /\ WithinBounds

(* A child ends by itself and its exit is delivered; so with a worker and  *)
(* its message.  Neither the end nor the delivery can wait for the other.  *)
Fairness ==
    /\ \A r \in Q!Runs : WF_vars((Q!ChildStep(r) \/ Q!OnExit(r)) /\ UNCHANGED jobVars)
    /\ \A j \in P!Jobs : WF_vars(WorkerStep(j) \/ Announce(j))

Spec == Init /\ [][Next]_vars
FairSpec == Spec /\ Fairness

-----------------------------------------------------------------------------
(* No run is started on data that its job has not finished: a run that was *)
(* told to wait starts when the row of that job says completed, and not on *)
(* a failure, a cancellation, a restart or another job's event.            *)
StartedOnPreparedData ==
    [][\A r \in Q!Runs :
          /\ status[r] = "queued" /\ dep[r] # P!NoJob
          /\ status'[r] # "queued" /\ status'[r] # "cancelled"
          => row[dep[r]] = "completed"]_vars

Troubled == Q!Disturbed \/ jobFaults > 0

(* Every run that waits for no job, or for one that is still open, ends    *)
(* unless that job fails: the worker, its message, the event, the drain    *)
(* and the exits that free a slot all have a part in it.  A worker that    *)
(* dies, a child that does not start and a restart are excepted, for       *)
(* nothing starts the queue again.                                         *)
EveryRunEnds ==
    \A r \in Q!Runs :
        \/ status[r] = "running"
        \/ status[r] = "queued" /\ (dep[r] = P!NoJob \/ row[dep[r]] \in P!Open)
        ~>
        \/ status[r] \notin {"queued", "running"}
        \/ dep[r] # P!NoJob /\ row[dep[r]] = "failed"
        \/ Troubled

(* A synchronous request whose run was given a child is answered, unless   *)
(* the run is deleted under it.                                            *)
StartedWaiterAnswered ==
    []<>(\/ Troubled
         \/ \A r \in Q!Runs :
                waiter[r] = "waiting" /\ child[r] # "none" => status[r] = "deleted")
=============================================================================
