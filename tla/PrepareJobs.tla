----------------------------- MODULE PrepareJobs -----------------------------
(***************************************************************************)
(* The serial queue of prepare jobs (prepare/runner.js), the worker thread *)
(* that executes one (prepare/worker.js, executor.js), the rows both write *)
(* (state/prepareJobs.js), and the schedules that enqueue jobs and follow  *)
(* them by a row of their own (scheduler/assetUpdates.js,                  *)
(* state/assetUpdateSchedules.js).                                         *)
(*                                                                         *)
(* The worker is a thread with a connection of its own: it writes the      *)
(* outcome into the row and posts it, the server hears of it later.  A     *)
(* cancellation travels the other way.  A handler of the server, with the  *)
(* microtask that starts the next job, is one action.                      *)
(*                                                                         *)
(* Left out: progress, the plan and the result of a job, the clock that    *)
(* makes a schedule due (a schedule may run whenever it has no active      *)
(* run), and the attempts of a schedule that enqueue nothing: they write a *)
(* row that is finished from the start.                                    *)
(***************************************************************************)
EXTENDS Integers

CONSTANTS
    Schedules,   \* rows of asset_update_schedules
    NoSchedule,  \* a job enqueued by hand, or whose schedule was deleted
    MaxJobs,     \* bound: rows of prepare_jobs ever inserted
    MaxCrashes,  \* bound: restarts of the server
    MaxFaults    \* bound: workers that die, listeners that throw

ASSUME PrepareAssumption ==
    /\ NoSchedule \notin Schedules
    /\ MaxJobs \in Nat
    /\ MaxCrashes \in Nat
    /\ MaxFaults \in Nat

Jobs == 1 .. MaxJobs
NoJob == 0

Over == {"completed", "failed"}
Open == {"queued", "running"}
Row  == {"none"} \cup Open \cup Over

(* "working": it will look at its cancel flag again; "leaving": it will    *)
(* not; "idle": it has posted its outcome; "straggling": it has posted a   *)
(* failure, and another export of the job goes on in it; "dead": an        *)
(* uncaught error; "gone": with the process.                               *)
Worker == {"none", "working", "leaving", "idle", "straggling", "dead", "gone"}
Live   == {"working", "leaving"}

(* What is on its way from the worker to the server.  A thread that dies   *)
(* is heard of twice, by its error and by its exit.                        *)
Outcome == {"completed", "cancelled", "failed"}
Mail    == {"none", "error", "exit"} \cup Outcome

VARIABLES
    row,              \* row[j]: column status of prepare_jobs
    worker,           \* worker[j]: the thread of job j
    asked,            \* asked[j]: the cancel message to that thread
    mail,             \* mail[j]: the event of that thread to be delivered
    current,          \* currentJobId of the runner; NoJob: not running
    cancelRequested,  \* of the runner
    activeWorker,     \* the job whose thread the runner can reach
    told,             \* told[j]: the last event broadcast about job j
    exists,           \* schedules that have not been deleted
    owner,            \* owner[j]: the schedule whose run row names job j
    run,              \* run[j]: column status of that run row
    crashes,
    faults

runner == <<current, cancelRequested, activeWorker>>
thread == <<worker, asked, mail>>
schedule == <<exists, owner, run>>
vars == <<row, thread, runner, told, schedule, crashes, faults>>

Init ==
    /\ row = [j \in Jobs |-> "none"]
    /\ worker = [j \in Jobs |-> "none"]
    /\ asked = [j \in Jobs |-> "no"]
    /\ mail = [j \in Jobs |-> "none"]
    /\ current = NoJob
    /\ cancelRequested = FALSE
    /\ activeWorker = NoJob
    /\ told = [j \in Jobs |-> "none"]
    /\ exists = Schedules
    /\ owner = [j \in Jobs |-> NoSchedule]
    /\ run = [j \in Jobs |-> "none"]
    /\ crashes = 0
    /\ faults = 0

-----------------------------------------------------------------------------
(* Mutant: the queue is left alone until somebody enqueues.                *)
RunNextNever(rows, threads) ==
    /\ row' = rows
    /\ worker' = threads
    /\ current' = NoJob
    /\ activeWorker' = NoJob
    /\ cancelRequested' = FALSE

(* Mutant: the flag of the previous job is kept.                           *)
RunNextKeepsFlag(rows, threads) ==
    LET queued == {j \in Jobs : rows[j] = "queued"}
    IN  /\ \/ /\ queued = {}
              /\ row' = rows
              /\ worker' = threads
              /\ current' = NoJob
           \/ \E j \in queued :
              /\ \A i \in queued : j <= i
              /\ row' = [rows EXCEPT ![j] = "running"]
              /\ worker' = [threads EXCEPT ![j] = "working"]
              /\ current' = j
        /\ activeWorker' = current'
        /\ UNCHANGED cancelRequested

(* runNext of an idle runner, from the rows and threads its caller leaves: *)
(* the oldest queued job gets a worker.                                    *)
RunNext(rows, threads) ==
    LET queued == {j \in Jobs : rows[j] = "queued"}
    IN  /\ \/ /\ queued = {}
              /\ row' = rows
              /\ worker' = threads
              /\ current' = NoJob
           \/ \E j \in queued :
              /\ \A i \in queued : j <= i
              /\ row' = [rows EXCEPT ![j] = "running"]
              /\ worker' = [threads EXCEPT ![j] = "working"]
              /\ current' = j
        /\ activeWorker' = current'
        /\ cancelRequested' = FALSE

(* The row is inserted; a runner at work looks at the queue when it is     *)
(* through.                                                                *)
Insert(j) ==
    /\ row[j] = "none"
    /\ \A i \in Jobs : i < j => row[i] # "none"
    /\ LET rows == [row EXCEPT ![j] = "queued"]
       IN  \/ /\ current = NoJob
              /\ RunNext(rows, worker)
           \/ /\ current # NoJob
              /\ row' = rows
              /\ UNCHANGED <<worker, runner>>
    /\ UNCHANGED <<asked, mail, told, exists, crashes, faults>>

(* POST /api/prepare/run, POST /api/data/fix and the re-sync of a quality  *)
(* decision.                                                               *)
Enqueue(j) == Insert(j) /\ UNCHANGED <<owner, run>>

(* Mutant: a run whose job is still queued is not active.                  *)
HasActiveRunningOnly(s) ==
    \E j \in Jobs : owner[j] = s /\ run[j] = "queued" /\ row[j] = "running"

(* hasActiveAssetUpdateRun: the newest open run row of the schedule counts *)
(* as long as its job is open.                                             *)
HasActiveRun(s) ==
    LET open == {j \in Jobs : owner[j] = s /\ run[j] = "queued"}
    IN  \E j \in open : (\A i \in open : i <= j) /\ row[j] \in Open

(* tick and runNow: an attempt that finds work to do.  The run row is      *)
(* created in the same turn as the job.                                    *)
RunSchedule(s, j) ==
    /\ s \in exists
    /\ ~HasActiveRun(s)
    /\ Insert(j)
    /\ owner' = [owner EXCEPT ![j] = s]
    /\ run' = [run EXCEPT ![j] = "queued"]

(* The run rows go with the schedule, the jobs stay.                       *)
DeleteSchedule(s) ==
    /\ s \in exists
    /\ exists' = exists \ {s}
    /\ owner' = [j \in Jobs |-> IF owner[j] = s THEN NoSchedule ELSE owner[j]]
    /\ run' = [j \in Jobs |-> IF owner[j] = s THEN "none" ELSE run[j]]
    /\ UNCHANGED <<row, thread, runner, told, crashes, faults>>

(* Mutant: only a completed job is followed.                               *)
FinishRunIfCompleted(j, outcome) ==
    run' = [run EXCEPT ![j] =
                IF owner[j] = NoSchedule \/ outcome # "completed" THEN @ ELSE outcome]

(* finishAssetUpdateRunByJobId, whatever the run row said before.          *)
FinishRun(j, outcome) ==
    run' = [run EXCEPT ![j] = IF owner[j] = NoSchedule THEN @ ELSE outcome]

(* Mutant: a status that prepare_jobs does not have.                       *)
CancelQueuedMisnamed(j) ==
    /\ row[j] = "queued"
    /\ row' = [row EXCEPT ![j] = "cancelled"]
    /\ FinishRun(j, "cancelled")
    /\ UNCHANGED <<thread, runner, told, exists, owner, crashes, faults>>

(* Mutant: the schedule is not told.                                       *)
CancelQueuedUntold(j) ==
    /\ row[j] = "queued"
    /\ row' = [row EXCEPT ![j] = "failed"]
    /\ UNCHANGED <<thread, runner, told, schedule, crashes, faults>>

(* POST .../cancel of a queued job.  No event is broadcast.                *)
CancelQueued(j) ==
    /\ row[j] = "queued"
    /\ row' = [row EXCEPT ![j] = "failed"]
    /\ FinishRun(j, "cancelled")
    /\ UNCHANGED <<thread, runner, told, exists, owner, crashes, faults>>

(* Mutant: cancelling fails the row at once, as it does for a backtest.    *)
CancelRunningInRow(j) ==
    /\ row[j] = "running"
    /\ current = j
    /\ cancelRequested' = TRUE
    /\ row' = [row EXCEPT ![j] = "failed"]
    /\ asked' = [i \in Jobs |->
            IF i = activeWorker /\ asked[i] = "no" THEN "sent" ELSE asked[i]]
    /\ UNCHANGED <<worker, mail, current, activeWorker, told, schedule, crashes, faults>>

(* Mutant: the runner turns to the next job without waiting for the worker *)
(* to stop.                                                                *)
CancelRunningAndGoOn(j) ==
    /\ row[j] = "running"
    /\ current = j
    /\ asked' = [asked EXCEPT ![j] = "sent"]
    /\ RunNext(row, worker)
    /\ UNCHANGED <<mail, told, schedule, crashes, faults>>

(* ... and of the running one: the worker is asked to stop, if the runner  *)
(* can reach it.                                                           *)
CancelRunning(j) ==
    /\ row[j] = "running"
    /\ current = j
    /\ cancelRequested' = TRUE
    /\ asked' = [i \in Jobs |->
            IF i = activeWorker /\ asked[i] = "no" THEN "sent" ELSE asked[i]]
    /\ UNCHANGED <<row, worker, mail, current, activeWorker, told, schedule, crashes, faults>>

-----------------------------------------------------------------------------
(* The worker thread.  Each outcome is written into the row and posted.    *)

Hear(j) ==
    /\ asked[j] = "sent"
    /\ worker[j] \in Live
    /\ asked' = [asked EXCEPT ![j] = "heard"]
    /\ UNCHANGED <<row, worker, mail, runner, told, schedule, crashes, faults>>

(* The Promise.all of mapPool settles with the first export that fails or  *)
(* finds the job cancelled; the others are not waited for.                 *)
End(j, status, message) ==
    /\ row' = [row EXCEPT ![j] = status]
    /\ \E left \in {"idle", "straggling"} :
        /\ left = "straggling" => status = "failed"
        /\ worker' = [worker EXCEPT ![j] = left]
    /\ mail' = [mail EXCEPT ![j] = message]
    /\ UNCHANGED <<asked, runner, told, schedule, crashes, faults>>

(* assertNotCancelled throws.                                              *)
StopAtCheck(j) ==
    /\ worker[j] = "working"
    /\ asked[j] = "heard"
    /\ End(j, "failed", "cancelled")

(* The last check is passed.                                               *)
PassLastCheck(j) ==
    /\ worker[j] = "working"
    /\ asked[j] # "heard"
    /\ worker' = [worker EXCEPT ![j] = "leaving"]
    /\ UNCHANGED <<row, asked, mail, runner, told, schedule, crashes, faults>>

(* Mutant: the result is posted, and not written.                          *)
CompleteUnwritten(j) ==
    /\ worker[j] = "leaving"
    /\ End(j, row[j], "completed")

Complete(j) ==
    /\ worker[j] = "leaving"
    /\ End(j, "completed", "completed")

(* Any other exception passes for a cancellation if one has been heard of. *)
Fail(j) ==
    /\ worker[j] \in Live
    /\ End(j, "failed", IF asked[j] = "heard" THEN "cancelled" ELSE "failed")

(* An error nobody catches: the row cannot be written, out of memory.      *)
Die(j) ==
    /\ worker[j] \in Live
    /\ faults < MaxFaults
    /\ faults' = faults + 1
    /\ worker' = [worker EXCEPT ![j] = "dead"]
    /\ mail' = [mail EXCEPT ![j] = "error"]
    /\ UNCHANGED <<row, asked, runner, told, schedule, crashes>>

(* What a failed job has left at work gets to its end: at the latest its   *)
(* upsert fails, the connection of the thread being closed.  It may take   *)
(* the thread down; of that the server only hears the exit.                *)
Straggle(j) ==
    /\ worker[j] = "straggling"
    /\ \/ /\ worker' = [worker EXCEPT ![j] = "idle"]
          /\ UNCHANGED <<mail, faults>>
       \/ /\ mail[j] = "none"
          /\ faults < MaxFaults
          /\ faults' = faults + 1
          /\ worker' = [worker EXCEPT ![j] = "dead"]
          /\ mail' = [mail EXCEPT ![j] = "exit"]
    /\ UNCHANGED <<row, asked, runner, told, schedule, crashes>>

-----------------------------------------------------------------------------
(* The event broadcast for a message.  A failure, and a listener that      *)
(* throws, pass for a cancellation if one was requested.                   *)
Announced(message, threw) ==
    CASE message \in {"completed", "cancelled"} /\ ~threw -> message
      [] OTHER -> IF cancelRequested THEN "cancelled" ELSE "failed"

(* Mutant: the error event of a thread is not listened to.                 *)
SettleMessagesOnly(j) ==
    /\ j = current
    /\ mail[j] \in Outcome
    /\ told' = [told EXCEPT ![j] = Announced(mail[j], FALSE)]
    /\ FinishRun(j, Announced(mail[j], FALSE))
    /\ mail' = [mail EXCEPT ![j] = "none"]
    /\ RunNext(row, worker)
    /\ UNCHANGED <<asked, exists, owner, crashes, faults>>

(* The promise of the current job is settled by the first message of its   *)
(* worker: listeners, then the next job.  The exit of a dead thread comes  *)
(* in the same turn or later.  onSseEvent updates the run row first; what  *)
(* throws is the release of the backtests that wait for a completed job.   *)
Settle(j) ==
    /\ j = current
    /\ mail[j] \in Outcome \cup {"error"}
    /\ \E threw \in BOOLEAN :
        /\ threw => mail[j] = "completed" /\ faults < MaxFaults
        /\ faults' = IF threw THEN faults + 1 ELSE faults
        /\ told' = [told EXCEPT ![j] = Announced(mail[j], threw)]
        /\ FinishRun(j, Announced(mail[j], threw))
    /\ \E rest \in {"none", "exit"} :
        /\ rest = "exit" => mail[j] = "error"
        /\ mail' = [mail EXCEPT ![j] = rest]
    /\ RunNext(row, worker)
    /\ UNCHANGED <<asked, exists, owner, crashes>>

(* The exit of a dead thread: the runner forgets its worker, whichever job *)
(* has it by now.                                                          *)
OnExit(j) ==
    /\ mail[j] = "exit"
    /\ mail' = [mail EXCEPT ![j] = "none"]
    /\ activeWorker' = NoJob
    /\ UNCHANGED <<row, worker, asked, current, cancelRequested, told, schedule, crashes, faults>>

(* The process ends with its threads; the next one fails what is open, and *)
(* starts with an empty runner.                                            *)
Restart ==
    /\ crashes < MaxCrashes
    /\ crashes' = crashes + 1
    /\ row' = [j \in Jobs |-> IF row[j] \in Open THEN "failed" ELSE row[j]]
    /\ run' = [j \in Jobs |-> IF run[j] = "queued" THEN "failed" ELSE run[j]]
    /\ worker' = [j \in Jobs |-> IF worker[j] = "none" THEN "none" ELSE "gone"]
    /\ mail' = [j \in Jobs |-> "none"]
    /\ current' = NoJob
    /\ cancelRequested' = FALSE
    /\ activeWorker' = NoJob
    /\ UNCHANGED <<asked, told, exists, owner, faults>>

-----------------------------------------------------------------------------
WorkerStep(j) ==
    StopAtCheck(j) \/ PassLastCheck(j) \/ Complete(j) \/ Fail(j) \/ Die(j)

Next ==
    \/ \E j \in Jobs : Enqueue(j) \/ CancelQueued(j) \/ CancelRunning(j)
    \/ \E s \in Schedules, j \in Jobs : RunSchedule(s, j)
    \/ \E s \in Schedules : DeleteSchedule(s)
    \/ \E j \in Jobs : WorkerStep(j) \/ Hear(j) \/ Straggle(j)
    \/ \E j \in Jobs : Settle(j) \/ OnExit(j)
    \/ Restart

(* A worker ends by itself and the event loop delivers its message.        *)
Fairness == \A j \in Jobs : WF_vars(WorkerStep(j)) /\ WF_vars(Settle(j))

Spec == Init /\ [][Next]_vars
FairSpec == Spec /\ Fairness

-----------------------------------------------------------------------------
TypeOK ==
    /\ row \in [Jobs -> Row]
    /\ worker \in [Jobs -> Worker]
    /\ asked \in [Jobs -> {"no", "sent", "heard"}]
    /\ mail \in [Jobs -> Mail]
    /\ current \in Jobs \cup {NoJob}
    /\ cancelRequested \in BOOLEAN
    /\ activeWorker \in Jobs \cup {NoJob}
    /\ told \in [Jobs -> {"none"} \cup Outcome]
    /\ exists \subseteq Schedules
    /\ owner \in [Jobs -> Schedules \cup {NoSchedule}]
    /\ run \in [Jobs -> {"none", "queued"} \cup Outcome]
    /\ crashes \in 0 .. MaxCrashes
    /\ faults \in 0 .. MaxFaults

(* Only the thread of the current job can still write an outcome, even     *)
(* when it was cancelled, died, or the server was restarted; an export     *)
(* that goes on in another thread is what a job left behind that failed or *)
(* was cancelled, never a part of one that says it is completed.           *)
SerialExecution ==
    \A j \in Jobs :
        /\ worker[j] \in Live => j = current
        /\ worker[j] = "straggling" => row[j] = "failed"

(* The README's sentence: jobs are executed serially.  What a failed job   *)
(* left at work runs beside the next one.                                  *)
OneJobExports ==
    \A i, j \in Jobs :
        worker[i] \in Live \cup {"straggling"} /\ worker[j] \in Live \cup {"straggling"}
            => i = j

(* A queued job waits for one that is executed, whose end starts the next: *)
(* no lost wake-up.                                                        *)
NoIdleRunner ==
    current = NoJob => \A j \in Jobs : row[j] # "queued"

(* The outcome of a job is written once: a late cancellation, a restart or *)
(* the thread of another process never rewrites it.                        *)
OutcomeIsFinal ==
    [][\A j \in Jobs : row[j] \in Over => row'[j] = row[j]]_vars

(* What was broadcast about a job is what its row says, for good, although *)
(* one thread writes and another broadcasts: a completion always, a        *)
(* failure unless a listener threw or the worker died.                     *)
BroadcastMatchesRow ==
    \A j \in Jobs :
        /\ told[j] = "completed" => row[j] = "completed"
        /\ told[j] \in {"cancelled", "failed"} /\ faults = 0 => row[j] = "failed"

(* The run row of a schedule follows its job: it is open as long as the    *)
(* job is, or its message is on the way; it is completed only if the job   *)
(* is, and not completed only if the job is not, a restart between the two *)
(* and faults excepted.                                                    *)
RunFollowsJob ==
    \A j \in Jobs :
        /\ run[j] = "queued" => row[j] \in Open \/ mail[j] \in Outcome
        /\ run[j] = "completed" => row[j] = "completed"
        /\ run[j] \in {"cancelled", "failed"} /\ crashes = 0 /\ faults = 0
                => row[j] = "failed"

(* A schedule never has two jobs waiting or executing, although a run is   *)
(* given up as soon as its job is over and its message still on the way.   *)
OneActiveRunPerSchedule ==
    \A i, j \in Jobs :
        /\ owner[i] = owner[j] /\ owner[j] \in Schedules
        /\ {run[i], run[j]} = {"queued"}
        /\ row[i] \in Open /\ row[j] \in Open
        => i = j

(* A cancellation that was acknowledged as `cancelling` has been sent to   *)
(* the worker of that job, unless a worker has died.                       *)
CancelReachesWorker ==
    cancelRequested /\ faults = 0 => current # NoJob /\ asked[current] # "no"

(* Every job is executed to its end or cancelled; only a job whose worker  *)
(* died stays running, and it holds up nobody.                             *)
EveryJobEnds ==
    \A j \in Jobs :
        row[j] \in Open ~> row[j] \in Over \/ (row[j] = "running" /\ faults > 0)

(* No schedule is blocked for ever by a run that does not end, whatever    *)
(* becomes of its job.                                                     *)
NoScheduleBlocked == \A j \in Jobs : run[j] = "queued" ~> run[j] # "queued"

-----------------------------------------------------------------------------
(* The strengthenings that make the invariants inductive.                  *)

(* What a thread says of its row: a live one belongs to the current job    *)
(* and has posted nothing; what it posts it has written before; a job that *)
(* has not been started has no thread.                                     *)
ThreadInv ==
    \A j \in Jobs :
        /\ worker[j] \in Live => j = current /\ row[j] = "running" /\ mail[j] = "none"
        /\ worker[j] = "straggling" => row[j] = "failed"
        /\ row[j] = "running" => worker[j] \in Live \cup {"dead"}
        /\ row[j] \in {"none", "queued"} =>
                worker[j] = "none" /\ mail[j] = "none" /\ told[j] = "none"
        /\ mail[j] = "completed" => row[j] = "completed"
        /\ mail[j] \in {"cancelled", "failed"} => row[j] = "failed"
        /\ mail[j] \in {"error", "exit"} \/ worker[j] = "dead" => faults > 0

(* The runner reaches the worker of its job until a thread dies.           *)
RunnerInv ==
    /\ faults = 0 => activeWorker = current
    /\ cancelRequested /\ faults = 0 => current # NoJob /\ asked[current] # "no"

(* Ids are given in order, and a run row has its job and its schedule.     *)
OwnerInv ==
    /\ \A i, j \in Jobs : i < j /\ row[j] # "none" => row[i] # "none"
    /\ \A j \in Jobs : run[j] # "none" => row[j] # "none" /\ owner[j] \in Schedules

(* Of two open run rows of a schedule the job of the older one is over.    *)
NewestInv ==
    \A i, j \in Jobs :
        /\ i < j
        /\ owner[i] = owner[j]
        /\ run[i] = "queued" /\ run[j] = "queued"
        => row[i] \notin Open

PrepareInv ==
    /\ TypeOK
    /\ NoIdleRunner
    /\ ThreadInv
    /\ RunnerInv
    /\ OwnerInv
    /\ NewestInv
    /\ BroadcastMatchesRow
    /\ RunFollowsJob
=============================================================================
