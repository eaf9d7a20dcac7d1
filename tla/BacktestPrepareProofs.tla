------------------------ MODULE BacktestPrepareProofs ------------------------
(***************************************************************************)
(* Theorems about BacktestPrepare, for every number of jobs, runs, slots   *)
(* and troubles.  The composition implements both of its components, so    *)
(* what their own theorems say of a queue is said of the server.           *)
(***************************************************************************)
EXTENDS BacktestPrepare, TLAPS

PP == INSTANCE PrepareJobsProofs
      WITH Schedules <- {}, NoSchedule <- "none",
           MaxCrashes <- MaxTroubles, MaxFaults <- MaxTroubles,
           crashes <- restarts, faults <- jobFaults

QP == INSTANCE BacktestQueueProofs
      WITH Jobs <- P!Jobs, NoJob <- P!NoJob, job <- heard,
           MaxCrashes <- MaxTroubles, MaxFaults <- MaxTroubles

-----------------------------------------------------------------------------
(* Every step of the server is a step of each queue, or none of its        *)
(* business.                                                               *)

LEMMA JobsStep == [Next]_vars => [P!Next]_P!vars
  <1> SUFFICES ASSUME Act \/ UNCHANGED vars PROVE P!Next \/ UNCHANGED P!vars
    BY DEF Next
  <1>1. UNCHANGED jobVars => UNCHANGED P!vars
    BY DEF jobVars, P!vars, P!thread, P!runner, P!schedule
  <1>2. ASSUME NEW r \in Q!Runs, EnqueueRun(r) \/ RunStep(r)
        PROVE  UNCHANGED P!vars
    BY <1>1, <1>2 DEF EnqueueRun, RunStep
  <1>3. ASSUME NEW j \in P!Jobs, JobStep(j) \/ WorkerStep(j) \/ Announce(j)
        PROVE  P!Next
    BY <1>3 DEF JobStep, WorkerStep, Announce, P!Next
  <1>4. CASE Crash
    BY <1>1, <1>4 DEF Crash
  <1>5. CASE Boot
    BY <1>5 DEF Boot, P!Next
  <1>6. CASE UNCHANGED vars
    BY <1>1, <1>6 DEF vars
  <1>7. QED
    BY <1>2, <1>3, <1>4, <1>5, <1>6 DEF Act

LEMMA RunsStep == [Next]_vars => [Q!Next]_Q!vars
  <1> SUFFICES ASSUME Act \/ UNCHANGED vars PROVE Q!Next \/ UNCHANGED Q!vars
    BY DEF Next
  <1>1. UNCHANGED runVars => UNCHANGED Q!vars
    BY DEF runVars, Q!vars
  <1>2. ASSUME NEW r \in Q!Runs, EnqueueRun(r) \/ RunStep(r)
        PROVE  Q!Next
    BY <1>2 DEF EnqueueRun, RunStep, Q!Next, Q!Handle
  <1>3. ASSUME NEW j \in P!Jobs, JobStep(j) \/ WorkerStep(j)
        PROVE  UNCHANGED Q!vars
    BY <1>1, <1>3 DEF JobStep, WorkerStep
  <1>4. ASSUME NEW j \in P!Jobs, Announce(j) PROVE Q!Next
    BY <1>4 DEF Announce, Q!Next
  <1>5. CASE Crash \/ Boot
    BY <1>5 DEF Crash, Boot, Q!Next
  <1>6. CASE UNCHANGED vars
    BY <1>1, <1>6 DEF vars
  <1>7. QED
    BY <1>2, <1>3, <1>4, <1>5, <1>6 DEF Act

(* The server is a queue of prepare jobs and a queue of backtest runs as   *)
(* PrepareJobs and BacktestQueue describe them: joining them by the event  *)
(* of a job adds no behaviour to either.                                   *)
THEOREM ServerIsBothQueues == Spec => P!Spec /\ Q!Spec
  <1>1. Init => P!Init /\ Q!Init
    BY DEF Init
  <1>2. QED
    BY <1>1, JobsStep, RunsStep, PTL DEF Spec, P!Spec, Q!Spec

-----------------------------------------------------------------------------
(* PP and QP hold copies of the definitions of P and Q: the theorems of    *)
(* the components are about these, and must be carried over.               *)

LEMMA SameJobs ==
    (P!Init => PP!Init) /\ ([P!Next]_P!vars => [PP!Next]_PP!vars)
  <1>1. (P!Init => PP!Init) /\ (UNCHANGED P!vars => UNCHANGED PP!vars)
    BY DEF P!Init, PP!Init, P!vars, PP!vars, P!thread, PP!thread,
        P!runner, PP!runner, P!schedule, PP!schedule, P!Jobs,
        PP!Jobs, P!NoJob, PP!NoJob
  <1>2. P!Next => PP!Next
    BY DEF P!Next, PP!Next, P!vars, PP!vars, P!thread, PP!thread,
        P!runner, PP!runner, P!schedule, PP!schedule, P!Jobs,
        PP!Jobs, P!NoJob, PP!NoJob, P!Enqueue, PP!Enqueue,
        P!CancelQueued, PP!CancelQueued, P!CancelRunning,
        PP!CancelRunning, P!RunSchedule, PP!RunSchedule,
        P!DeleteSchedule, PP!DeleteSchedule, P!WorkerStep,
        PP!WorkerStep, P!Hear, PP!Hear, P!Settle, PP!Settle,
        P!OnExit, PP!OnExit, P!Restart, PP!Restart, P!StopAtCheck,
        PP!StopAtCheck, P!PassLastCheck, PP!PassLastCheck,
        P!Complete, PP!Complete, P!Fail, PP!Fail, P!Die, PP!Die,
        P!Straggle, PP!Straggle,
        P!End, PP!End, P!Insert, PP!Insert, P!RunNext, PP!RunNext,
        P!HasActiveRun, PP!HasActiveRun, P!FinishRun,
        PP!FinishRun, P!Announced, PP!Announced, P!Open, PP!Open,
        P!Over, PP!Over, P!Live, PP!Live, P!Outcome, PP!Outcome
  <1>3. QED
    BY <1>1, <1>2

LEMMA SameDrain ==
    ASSUME NEW st, NEW dp, NEW ch, NEW act, NEW wt, NEW broken,
           Q!Drain(st, dp, ch, act, wt, broken)
    PROVE  QP!Drain(st, dp, ch, act, wt, broken)
  <1>1. \A S : Q!Cardinality(S) = QP!Cardinality(S)
    BY DEF Q!Cardinality, QP!Cardinality
  <1>2. Q!Batch(Q!Startable(st, dp), MaxConcurrent - Q!Cardinality(act))
            = QP!Batch(QP!Startable(st, dp), MaxConcurrent - QP!Cardinality(act))
    BY <1>1
    DEF Q!Batch, QP!Batch, Q!Startable, QP!Startable, Q!Runs, QP!Runs
  <1>3. Q!Runs = QP!Runs /\ Q!NoRun = QP!NoRun
    BY DEF Q!Runs, QP!Runs, Q!NoRun, QP!NoRun
  <1>4. QED
    BY <1>2, <1>3 DEF Q!Drain, QP!Drain

LEMMA SameRuns ==
    (Q!Init => QP!Init) /\ ([Q!Next]_Q!vars => [QP!Next]_QP!vars)
  <1>1. (Q!Init => QP!Init) /\ (UNCHANGED Q!vars => UNCHANGED QP!vars)
    BY DEF Q!Init, QP!Init, Q!vars, QP!vars, Q!Runs, QP!Runs
  <1>2. ASSUME NEW r, Q!Handle(r) PROVE QP!Handle(r)
    <2>1. Q!Enqueue(r) => QP!Enqueue(r)
      BY SameDrain DEF Q!Enqueue, QP!Enqueue, Q!Runs, QP!Runs, Q!NoRun, QP!NoRun
    <2>2. Q!OnExit(r) => QP!OnExit(r)
      BY SameDrain
      DEF Q!OnExit, QP!OnExit, Q!FailedByExit, QP!FailedByExit, Q!AnsweredByExit,
          QP!AnsweredByExit, Q!Finished, QP!Finished, Q!Runs, QP!Runs,
          Q!NoRun, QP!NoRun
    <2>3. (Q!Cancel(r) => QP!Cancel(r)) /\ (Q!Delete(r) => QP!Delete(r))
      BY DEF Q!Cancel, QP!Cancel, Q!Delete, QP!Delete, Q!Finished, QP!Finished,
             Q!queueVars, QP!queueVars, Q!outside, QP!outside
    <2>4. QED
      BY <1>2, <2>1, <2>2, <2>3 DEF Q!Handle, QP!Handle
  <1>3. ASSUME NEW r, Q!ChildStep(r) PROVE QP!ChildStep(r)
    BY <1>3
    DEF Q!ChildStep, QP!ChildStep, Q!Finish, QP!Finish, Q!Save, QP!Save,
        Q!Die, QP!Die, Q!Finished, QP!Finished, Q!rowVars, QP!rowVars,
        Q!queueVars, QP!queueVars, Q!outside, QP!outside
  <1>4. ASSUME NEW j, Q!JobCompleted(j) PROVE QP!JobCompleted(j)
    BY <1>4, SameDrain
    DEF Q!JobCompleted, QP!JobCompleted, Q!Runs, QP!Runs, Q!NoRun, QP!NoRun,
        Q!rowVars, QP!rowVars, Q!queueVars, QP!queueVars
  <1>5. ASSUME NEW j, Q!JobFailed(j) PROVE QP!JobFailed(j)
    BY <1>5
    DEF Q!JobFailed, QP!JobFailed, Q!rowVars, QP!rowVars, Q!queueVars, QP!queueVars
  <1>6. (Q!Crash => QP!Crash) /\ (Q!Boot => QP!Boot)
    BY DEF Q!Crash, QP!Crash, Q!Boot, QP!Boot, Q!Runs, QP!Runs,
           Q!rowVars, QP!rowVars, Q!queueVars, QP!queueVars
  <1>7. Q!Runs = QP!Runs
    BY DEF Q!Runs, QP!Runs
  <1>8. Q!Next => QP!Next
    BY <1>2, <1>3, <1>4, <1>5, <1>6, <1>7 DEF Q!Next, QP!Next
  <1>9. QED
    BY <1>1, <1>8

-----------------------------------------------------------------------------
(* What a start needs.                                                     *)

(* What is posted as completed has been written as completed.              *)
PostedIsWritten == \A j \in P!Jobs : mail[j] = "completed" => row[j] = "completed"

(* No child is about to save a run that has not left the queue.            *)
NobodySavesQueued == \A r \in Q!Runs : child[r] = "saving" => status[r] # "queued"

LEMMA PostedIsWrittenHolds == Spec => []PostedIsWritten
  <1>1. Spec => PP!Spec
    BY ServerIsBothQueues, SameJobs, PTL DEF P!Spec, PP!Spec
  <1>2. PP!Spec => []PP!PrepareInv
    BY PP!Invariance, ServerAssumption DEF PP!PrepareAssumption
  <1>3. PP!PrepareInv => PostedIsWritten
    BY DEF PP!PrepareInv, PP!ThreadInv, PP!Jobs, P!Jobs, PostedIsWritten
  <1>4. QED
    BY <1>1, <1>2, <1>3, PTL

LEMMA QueueHolds == Spec => [](Q!TypeOK /\ NobodySavesQueued)
  <1>1. Spec => QP!Spec
    BY ServerIsBothQueues, SameRuns, PTL DEF Q!Spec, QP!Spec
  <1>2. QP!QueueAssumption
    BY ServerAssumption DEF QP!QueueAssumption, P!Jobs, P!NoJob
  <1>3. QP!Spec => [](QP!TypeOK /\ QP!ChildInv /\ QP!SlotInv)
    BY <1>2, QP!SlotsAlways
  <1>4. QP!TypeOK /\ QP!ChildInv => Q!TypeOK /\ NobodySavesQueued
    BY DEF QP!TypeOK, Q!TypeOK, QP!ChildInv, NobodySavesQueued, Q!Runs, QP!Runs,
           QP!Status, Q!Status, QP!Finished, Q!Finished, QP!Child, Q!Child
  <1>5. QED
    BY <1>1, <1>3, <1>4, PTL

(* A drain leaves a run alone that waits for a job.                        *)
LEMMA DrainSkipsWaiting ==
    ASSUME NEW st, NEW dp, NEW ch, NEW act, NEW wt,
           NEW broken \in Q!Runs \cup {Q!NoRun},
           Q!Drain(st, dp, ch, act, wt, broken),
           NEW r \in Q!Runs, dp[r] # P!NoJob
    PROVE  status'[r] = st[r]
  <1> DEFINE batch == Q!Batch(Q!Startable(st, dp), MaxConcurrent - Q!Cardinality(act))
             begun == {q \in batch : broken = Q!NoRun \/ q < broken}
  <1>1. r \notin batch
    BY DEF Q!Batch, Q!Startable
  <1>2. broken = Q!NoRun \/ broken \in batch
    BY DEF Q!Drain
  <1>3. broken # r
    BY <1>1, <1>2, ServerAssumption DEF Q!NoRun, Q!Runs
  <1> HIDE DEF batch
  <1>4. PICK unborn \in SUBSET begun :
          status' = [q \in Q!Runs |->
              CASE q \in unborn -> "failed_runtime"
                [] q \in (begun \ unborn) \cup {broken} -> "running"
                [] OTHER -> st[q]]
    BY DEF Q!Drain, batch
  <1>5. r \notin begun
    BY <1>1
  <1> HIDE DEF begun
  <1>6. QED
    BY <1>3, <1>4, <1>5

LEMMA StartNeedsData ==
    ASSUME Q!TypeOK, PostedIsWritten, NobodySavesQueued, [Next]_vars,
           NEW r \in Q!Runs, status[r] = "queued", dep[r] # P!NoJob,
           status'[r] # "queued", status'[r] # "cancelled"
    PROVE  row[dep[r]] = "completed"
  <1> USE DEF Q!TypeOK
  <1>1. ASSUME NEW q \in Q!Runs, EnqueueRun(q) PROVE FALSE
    <2>1. q # r
      BY <1>1 DEF EnqueueRun, Q!Enqueue
    <2>2. PICK d, wt, broken :
            /\ broken \in Q!Runs \cup {Q!NoRun}
            /\ Q!Drain([status EXCEPT ![q] = "queued"], [dep EXCEPT ![q] = d], child,
                       active, wt, broken)
      BY <1>1 DEF EnqueueRun, Q!Enqueue
    <2>3. [dep EXCEPT ![q] = d][r] # P!NoJob
      BY <2>1
    <2>4. status'[r] = [status EXCEPT ![q] = "queued"][r]
      BY <2>2, <2>3, DrainSkipsWaiting
    <2>5. QED
      BY <2>1, <2>4
  <1>2. ASSUME NEW q \in Q!Runs, RunStep(q) PROVE FALSE
    <2>1. CASE Q!Cancel(q)
      BY <2>1 DEF Q!Cancel
    <2>2. CASE Q!Delete(q)
      BY <2>2 DEF Q!Delete, Q!Finished
    <2>3. CASE Q!OnExit(q)
      <3> DEFINE st == [status EXCEPT ![q] =
                            IF Q!FailedByExit(q) THEN "failed_runtime" ELSE @]
      <3>1. PICK ch, wt, broken :
              /\ broken \in Q!Runs \cup {Q!NoRun}
              /\ Q!Drain(st, dep, ch, active \ {q}, wt, broken)
        BY <2>3 DEF Q!OnExit
      <3>3. st[r] = status[r]
        BY DEF Q!FailedByExit
      <3> HIDE DEF st
      <3>2. status'[r] = st[r]
        BY <3>1, DrainSkipsWaiting
      <3>4. QED
        BY <3>2, <3>3
    <2>4. CASE Q!ChildStep(q)
      BY <2>4 DEF Q!ChildStep, Q!Finish, Q!Save, Q!Die, Q!rowVars, NobodySavesQueued
    <2>5. QED
      BY <1>2, <2>1, <2>2, <2>3, <2>4 DEF RunStep
  <1>3. ASSUME NEW j \in P!Jobs, Announce(j) PROVE row[dep[r]] = "completed"
    <2>1. mail[j] = "completed" /\ Q!JobCompleted(j)
      BY <1>3 DEF Announce, Q!JobFailed, Q!rowVars
    <2>2. row[j] = "completed"
      BY <2>1 DEF PostedIsWritten
    <2>3. SUFFICES ASSUME dep[r] # j PROVE FALSE
      BY <2>2
    <2> DEFINE waiting == {q \in Q!Runs : status[q] = "queued" /\ dep[q] = j}
               dp == [q \in Q!Runs |-> IF q \in waiting THEN P!NoJob ELSE dep[q]]
    <2>4. \E broken \in Q!Runs \cup {Q!NoRun} :
            Q!Drain(status, dp, child, active, waiter, broken)
      BY <2>1 DEF Q!JobCompleted, Q!rowVars
    <2>5. dp[r] # P!NoJob
      BY <2>3
    <2> HIDE DEF dp
    <2>6. status'[r] = status[r]
      BY <2>4, <2>5, DrainSkipsWaiting
    <2>7. QED
      BY <2>6
  <1>4. CASE UNCHANGED status
    BY <1>4
  <1>5. QED
    BY <1>1, <1>2, <1>3, <1>4
    DEF Next, Act, JobStep, WorkerStep, Crash, Boot, Q!Crash, Q!Boot, Q!rowVars,
        runVars, vars

(* No backtest that was told to wait starts before the row of its job says *)
(* completed: not on a failure, a cancellation, a restart, the event of    *)
(* another job or a drain by another run (StartedOnPreparedData).          *)
THEOREM StartsOnPreparedData == Spec => StartedOnPreparedData
  <1>1. Q!TypeOK /\ PostedIsWritten /\ NobodySavesQueued /\ [Next]_vars
          => [\A r \in Q!Runs :
                /\ status[r] = "queued" /\ dep[r] # P!NoJob
                /\ status'[r] # "queued" /\ status'[r] # "cancelled"
                => row[dep[r]] = "completed"]_vars
    BY StartNeedsData
  <1>2. QED
    BY <1>1, PostedIsWrittenHolds, QueueHolds, PTL DEF Spec, StartedOnPreparedData
=============================================================================
