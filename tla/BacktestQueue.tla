---------------------------- MODULE BacktestQueue ----------------------------
(***************************************************************************)
(* The queue of backtest runs (backtest/queue.js), the rows it keeps       *)
(* (state/backtestRuns.js) and the child processes that execute them       *)
(* (backtestProcessRunner.js, isolatedRunner.js, runBacktestJob.js).       *)
(*                                                                         *)
(* Three kinds of actor share a row of backtest_runs: the HTTP handlers    *)
(* that enqueue, cancel and delete; the queue, which reacts to the exit of *)
(* a child; and the child itself, another process, which writes the result *)
(* on its own database connection.  A handler of the server runs to its    *)
(* end before another one starts, so it is one action; a child reads the   *)
(* status of its row and writes it in two.                                 *)
(*                                                                         *)
(* Progress messages, traces and results are left out: they never change   *)
(* a status.                                                               *)
(***************************************************************************)
EXTENDS Integers, FiniteSets

CONSTANTS
    Jobs,           \* prepare jobs a run may be told to wait for
    NoJob,          \* no depends_on_job
    MaxConcurrent,  \* config.maxConcurrentBacktests
    MaxRuns,        \* bound: rows ever inserted
    MaxCrashes,     \* bound: times the server process dies by itself
    MaxFaults       \* bound: failures to start a child process

ASSUME QueueAssumption ==
    /\ NoJob \notin Jobs
    /\ MaxConcurrent \in Nat \ {0}
    /\ MaxRuns \in Nat
    /\ MaxCrashes \in Nat
    /\ MaxFaults \in Nat

Runs == 1 .. MaxRuns
NoRun == 0

(* "none": not inserted yet; "deleted": the row is gone.                   *)
Finished == {"completed", "partial", "failed_runtime"}
Status == {"none", "queued", "running", "cancelled", "deleted"} \cup Finished

(* "saving": the child has seen its row `running` and is about to write    *)
(* it; "done"/"dead": exited with code 0/another one, the exit event not   *)
(* delivered yet; "gone": the event was delivered.                         *)
Child == {"none", "working", "saving", "done", "dead", "gone"}

VARIABLES
    status,     \* status[r]: column of backtest_runs
    dep,        \* dep[r]: progress_json.depends_on_job
    child,      \* child[r]: the process that executes r
    active,     \* keys of activeWorkers: the occupied slots
    owned,      \* runs whose child this server process started
    waiter,     \* waiter[r]: the promise of enqueueAndWait
    job,        \* job[j]: what the server has heard of prepare job j
    up,         \* the server process is running
    crashes,
    faults

vars == <<status, dep, child, active, owned, waiter, job, up, crashes, faults>>

rowVars == <<status, dep>>
queueVars == <<active, owned, waiter>>
outside == <<job, up, crashes, faults>>

Init ==
    /\ status = [r \in Runs |-> "none"]
    /\ dep = [r \in Runs |-> NoJob]
    /\ child = [r \in Runs |-> "none"]
    /\ active = {}
    /\ owned = {}
    /\ waiter = [r \in Runs |-> "none"]
    /\ job = [j \in Jobs |-> "pending"]
    /\ up = TRUE
    /\ crashes = 0
    /\ faults = 0

-----------------------------------------------------------------------------
(* The queued runs that wait for no job.                                   *)
Startable(st, dp) == {r \in Runs : st[r] = "queued" /\ dp[r] = NoJob}

(* Mutant: the last slot is counted twice.                                 *)
BatchOneTooMany(queue, free) ==
    {r \in queue : Cardinality({q \in queue : q < r}) <= free}

(* The oldest of them, as many as there are free slots.                    *)
Batch(queue, free) ==
    {r \in queue : Cardinality({q \in queue : q < r}) < free}

(* drain, from the state its caller leaves: rows st and dp, children ch,   *)
(* slots act, promises wt.  The runs of the batch are marked running and   *)
(* given a child one by one.  The payload file of run `broken` cannot be   *)
(* written: the exception leaves it running with no child and ends the     *)
(* drain.  The children of `unborn` cannot be spawned: their error event   *)
(* comes before any other and fails them, freeing their slots.             *)
Drain(st, dp, ch, act, wt, broken) ==
    LET batch == Batch(Startable(st, dp), MaxConcurrent - Cardinality(act))
        begun == {r \in batch : broken = NoRun \/ r < broken}
    IN  /\ broken = NoRun \/ broken \in batch
        /\ \E unborn \in SUBSET begun :
            /\ LET fault == broken # NoRun \/ unborn # {}
               IN  /\ fault => faults < MaxFaults
                   /\ faults' = IF fault THEN faults + 1 ELSE faults
            /\ status' = [r \in Runs |->
                    CASE r \in unborn -> "failed_runtime"
                      [] r \in (begun \ unborn) \cup {broken} -> "running"
                      [] OTHER -> st[r]]
            /\ child' = [r \in Runs |->
                    CASE r \in unborn -> "gone"
                      [] r \in begun \ unborn -> "working"
                      [] OTHER -> ch[r]]
            /\ active' = act \cup (begun \ unborn)
            /\ waiter' = [r \in Runs |->
                    IF r \in unborn /\ wt[r] = "waiting" THEN "settled" ELSE wt[r]]
        /\ owned' = owned \cup begun
        /\ dep' = dp

-----------------------------------------------------------------------------
(* Handlers of the server.                                                 *)

(* POST /api/backtest/run, with or without async: false.  The promise is   *)
(* made once enqueue has returned: never, if the drain in it has thrown.   *)
Enqueue(r) ==
    /\ up
    /\ status[r] = "none"
    /\ \A q \in Runs : q < r => status[q] # "none"
    /\ \E d \in Jobs \cup {NoJob}, wait \in BOOLEAN, broken \in Runs \cup {NoRun} :
        Drain([status EXCEPT ![r] = "queued"],
              [dep EXCEPT ![r] = d],
              child,
              active,
              IF wait /\ broken = NoRun THEN [waiter EXCEPT ![r] = "waiting"]
                                        ELSE waiter,
              broken)
    /\ UNCHANGED <<job, up, crashes>>

(* Mutant: a status outside the vocabulary of backtest_runs.               *)
CancelMisspelt(r) ==
    /\ up
    /\ status[r] \in {"running", "queued"}
    /\ status' = [status EXCEPT ![r] = "canceled"]
    /\ dep' = [dep EXCEPT ![r] = NoJob]
    /\ active' = active \ {r}
    /\ UNCHANGED <<child, owned, waiter, outside>>

(* Mutant: the queue lets go of the child, the row is not updated.         *)
CancelInMemoryOnly(r) ==
    /\ up
    /\ status[r] \in {"running", "queued"}
    /\ active' = active \ {r}
    /\ UNCHANGED <<rowVars, child, owned, waiter, outside>>

(* cancelBacktestRun, then SIGKILL and the slot is free.  Nothing is       *)
(* drained and no promise settled: both are left to the exit of the child. *)
Cancel(r) ==
    /\ up
    /\ status[r] \in {"running", "queued"}
    /\ status' = [status EXCEPT ![r] = "cancelled"]
    /\ dep' = [dep EXCEPT ![r] = NoJob]
    /\ active' = active \ {r}
    /\ UNCHANGED <<child, owned, waiter, outside>>

Delete(r) ==
    /\ up
    /\ status[r] \in Finished \cup {"cancelled"}
    /\ status' = [status EXCEPT ![r] = "deleted"]
    /\ UNCHANGED <<dep, child, queueVars, outside>>

(* Mutant: a cancelled run is not taken for one that is over.              *)
AnsweredByResult(r) ==
    /\ waiter[r] = "waiting"
    /\ status[r] \in Finished \/ child[r] = "dead"

(* Mutant: a bad exit code fails the run whatever its row says.            *)
FailedByCode(r) == child[r] = "dead"

(* At the exit of its child, a run's promise is settled if the run is over *)
(* or the exit code says it never will be; a row still running with a bad  *)
(* exit code has failed.                                                   *)
AnsweredByExit(r) ==
    /\ waiter[r] = "waiting"
    /\ status[r] \in Finished \cup {"cancelled"} \/ child[r] = "dead"

FailedByExit(r) == status[r] = "running" /\ child[r] = "dead"

(* The exit event of a child.  Nobody catches an exception of the          *)
(* microtask that drains: the server dies.                                 *)
OnExit(r) ==
    /\ up
    /\ r \in owned
    /\ child[r] \in {"done", "dead"}
    /\ \E broken \in Runs \cup {NoRun} :
        /\ Drain([status EXCEPT ![r] = IF FailedByExit(r) THEN "failed_runtime" ELSE @],
                 dep,
                 [child EXCEPT ![r] = "gone"],
                 active \ {r},
                 [waiter EXCEPT ![r] = IF AnsweredByExit(r) THEN "settled" ELSE @],
                 broken)
        /\ up' = (broken = NoRun)
    /\ UNCHANGED <<job, crashes>>

(* Mutant: the dependency is cleared and the queue not drained.            *)
JobCompletedSilently(j) ==
    /\ up
    /\ job[j] = "pending"
    /\ job' = [job EXCEPT ![j] = "completed"]
    /\ dep' = [r \in Runs |->
                IF status[r] = "queued" /\ dep[r] = j THEN NoJob ELSE dep[r]]
    /\ UNCHANGED <<status, child, queueVars, up, crashes, faults>>

(* job:completed with status completed: releaseWaitingRuns.                *)
JobCompleted(j) ==
    /\ up
    /\ job[j] = "pending"
    /\ job' = [job EXCEPT ![j] = "completed"]
    /\ LET waiting == {r \in Runs : status[r] = "queued" /\ dep[r] = j}
       IN  \/ /\ waiting = {}
              /\ UNCHANGED <<rowVars, child, queueVars, faults>>
           \/ /\ waiting # {}
              /\ \E broken \in Runs \cup {NoRun} :
                    Drain(status,
                          [r \in Runs |-> IF r \in waiting THEN NoJob ELSE dep[r]],
                          child, active, waiter, broken)
    /\ UNCHANGED <<up, crashes>>

(* Mutant: any end of the job releases the runs that wait for it.          *)
JobFailedReleases(j) ==
    /\ up
    /\ job[j] = "pending"
    /\ job' = [job EXCEPT ![j] = "failed"]
    /\ \E broken \in Runs \cup {NoRun} :
          Drain(status,
                [r \in Runs |-> IF status[r] = "queued" /\ dep[r] = j THEN NoJob ELSE dep[r]],
                child, active, waiter, broken)
    /\ UNCHANGED <<up, crashes>>

(* A job that failed or was cancelled releases nobody.                     *)
JobFailed(j) ==
    /\ up
    /\ job[j] = "pending"
    /\ job' = [job EXCEPT ![j] = "failed"]
    /\ UNCHANGED <<rowVars, child, queueVars, up, crashes, faults>>

-----------------------------------------------------------------------------
(* The child process, whether or not its server lives.                     *)

(* The engine is through and the status is read: a row that is no longer   *)
(* running is left as it is.  A deleted one makes the child fail.          *)
Finish(r) ==
    /\ child[r] = "working"
    /\ \/ /\ status[r] = "running"
          /\ child' = [child EXCEPT ![r] = "saving"]
       \/ /\ status[r] # "running"
          /\ \E end \in {"done", "dead"} :
                /\ end = "done" => status[r] # "deleted"
                /\ child' = [child EXCEPT ![r] = end]
    /\ UNCHANGED <<rowVars, queueVars, outside>>

(* The UPDATE names the row, not the status it was read with.              *)
Save(r) ==
    /\ child[r] = "saving"
    /\ \/ /\ status[r] = "deleted"
          /\ child' = [child EXCEPT ![r] = "dead"]
          /\ UNCHANGED rowVars
       \/ /\ status[r] # "deleted"
          /\ \E result \in Finished :
                /\ status' = [status EXCEPT ![r] = result]
                /\ child' = [child EXCEPT ![r] =
                                IF result = "completed" THEN "done" ELSE "dead"]
          /\ dep' = [dep EXCEPT ![r] = NoJob]
    /\ UNCHANGED <<queueVars, outside>>

(* SIGKILL, out of memory, a write the database refuses.                   *)
Die(r) ==
    /\ child[r] \in {"working", "saving"}
    /\ child' = [child EXCEPT ![r] = "dead"]
    /\ UNCHANGED <<rowVars, queueVars, outside>>

-----------------------------------------------------------------------------
Crash ==
    /\ up
    /\ crashes < MaxCrashes
    /\ crashes' = crashes + 1
    /\ up' = FALSE
    /\ UNCHANGED <<rowVars, child, queueVars, job, faults>>

(* server.js starts with an empty queue and fails the prepare jobs left    *)
(* over; it neither drains the queued runs nor touches the running ones.   *)
(* A job that is pending here may be one that does not exist yet.          *)
Boot ==
    /\ ~up
    /\ up' = TRUE
    /\ active' = {}
    /\ owned' = {}
    /\ waiter' = [r \in Runs |-> "none"]
    /\ \E over \in SUBSET {j \in Jobs : job[j] = "pending"} :
        job' = [j \in Jobs |-> IF j \in over THEN "failed" ELSE job[j]]
    /\ UNCHANGED <<rowVars, child, crashes, faults>>

ChildStep(r) == Finish(r) \/ Save(r) \/ Die(r)
Handle(r)    == Enqueue(r) \/ Cancel(r) \/ Delete(r) \/ OnExit(r)

Next ==
    \/ \E r \in Runs : Handle(r)
    \/ \E r \in Runs : ChildStep(r)
    \/ \E j \in Jobs : JobCompleted(j) \/ JobFailed(j)
    \/ Crash
    \/ Boot

Spec == Init /\ [][Next]_vars

-----------------------------------------------------------------------------
TypeOK ==
    /\ status \in [Runs -> Status]
    /\ dep \in [Runs -> Jobs \cup {NoJob}]
    /\ child \in [Runs -> Child]
    /\ active \subseteq Runs
    /\ owned \subseteq Runs
    /\ waiter \in [Runs -> {"none", "waiting", "settled"}]
    /\ job \in [Jobs -> {"pending", "completed", "failed"}]
    /\ up \in BOOLEAN
    /\ crashes \in 0 .. MaxCrashes
    /\ faults \in 0 .. MaxFaults

Uncollected == {r \in owned : child[r] \in {"working", "saving", "done", "dead"}}
Disturbed == ~up \/ crashes > 0 \/ faults > 0

(* No more runs execute for this server than there are slots, although     *)
(* cancelling frees a slot before its child is dead, and a drain may start *)
(* several runs at once.                                                   *)
RunningWithinLimit ==
    Cardinality({r \in owned : status[r] = "running"}) <= MaxConcurrent

(* A slot is taken by a child whose exit is yet to be heard of, and only   *)
(* the child of a run that was cancelled can be without one: no slot leaks *)
(* and no run holds two.                                                   *)
SlotsMatchChildren ==
    up => /\ active \subseteq Uncollected
          /\ \A r \in Uncollected \ active : status[r] \notin {"queued", "running"}

(* A run that could start waits only for a slot, or for the exit event     *)
(* that will drain the queue: no lost wake-up, as long as no child failed  *)
(* to start and the server was never restarted.                            *)
NoIdleQueue ==
    ~Disturbed /\ Startable(status, dep) # {} =>
        \/ Cardinality(active) = MaxConcurrent
        \/ Uncollected \ active # {}

(* A finished run keeps its outcome: neither a late exit event, nor the    *)
(* child of a previous server, nor a cancellation that lost the race       *)
(* rewrites it.  It can only be deleted.                                   *)
FinishedStaysFinished ==
    [][\A r \in Runs : status[r] \in Finished =>
            status'[r] \in {status[r], "deleted"}]_vars

-----------------------------------------------------------------------------
(* The strengthenings that make the invariants inductive.                  *)

(* A run whose child this server started left the queue for good, and as   *)
(* long as it is running it holds a slot; only uncollected children do.    *)
SlotInv ==
    /\ \A r \in owned : status[r] \notin {"none", "queued"}
    /\ \A r \in owned : status[r] = "running" => r \in active
    /\ active \subseteq Uncollected
    /\ Cardinality(active) <= MaxConcurrent

(* What a child's state says of its row: no child without a start, only a  *)
(* run that has not finished is about to be saved, and exit code 0 means   *)
(* that it is over.                                                        *)
ChildInv ==
    \A r \in Runs :
        /\ child[r] = "working" => status[r] \notin {"none", "queued"}
        /\ child[r] = "saving" => status[r] \in {"running", "cancelled", "deleted"}
        /\ child[r] = "done" => status[r] \in Finished \cup {"cancelled", "deleted"}

(* The server is down only after something has gone wrong.                 *)
DownInv == ~up => crashes > 0 \/ faults > 0
=============================================================================
