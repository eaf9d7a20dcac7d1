-------------------------- MODULE PrepareJobsProofs --------------------------
(***************************************************************************)
(* Theorems about PrepareJobs, for any number of jobs, schedules, restarts *)
(* and faults.                                                             *)
(***************************************************************************)
EXTENDS PrepareJobs, TLAPS

-----------------------------------------------------------------------------
(* The compound steps, unfolded.                                           *)

LEMMA RunNextEffect ==
    ASSUME NEW rows \in [Jobs -> Row], NEW threads \in [Jobs -> Worker],
           RunNext(rows, threads)
    PROVE  /\ current' \in Jobs \cup {NoJob}
           /\ activeWorker' = current'
           /\ cancelRequested' = FALSE
           /\ \/ /\ current' = NoJob
                 /\ \A j \in Jobs : rows[j] # "queued"
                 /\ row' = rows
                 /\ worker' = threads
              \/ /\ current' \in Jobs
                 /\ rows[current'] = "queued"
                 /\ row' = [rows EXCEPT ![current'] = "running"]
                 /\ worker' = [threads EXCEPT ![current'] = "working"]
BY DEF RunNext, Jobs, NoJob

(* A new job is started at once by an idle runner: nothing else is queued. *)
Inserted(j) ==
    /\ row[j] = "none"
    /\ \A i \in Jobs : i < j => row[i] # "none"
    /\ UNCHANGED <<asked, mail, told, exists, crashes, faults>>
    /\ \/ /\ current = NoJob
          /\ current' = j
          /\ activeWorker' = j
          /\ cancelRequested' = FALSE
          /\ row' = [row EXCEPT ![j] = "running"]
          /\ worker' = [worker EXCEPT ![j] = "working"]
       \/ /\ current # NoJob
          /\ row' = [row EXCEPT ![j] = "queued"]
          /\ UNCHANGED <<worker, current, cancelRequested, activeWorker>>

LEMMA InsertEffect ==
    ASSUME PrepareInv, NEW j \in Jobs, Insert(j)
    PROVE  Inserted(j)
<1> DEFINE rows == [row EXCEPT ![j] = "queued"]
<1>1. rows \in [Jobs -> Row] /\ worker \in [Jobs -> Worker]
  BY DEF PrepareInv, TypeOK, Row, Open
<1>2. rows[j] = "queued"
  BY DEF PrepareInv, TypeOK
<1>3. CASE current = NoJob
  <2>1. \A i \in Jobs : rows[i] = "queued" => i = j
    BY <1>3 DEF PrepareInv, TypeOK, NoIdleRunner
  <2>2. RunNext(rows, worker)
    BY <1>3 DEF Insert
  <2> HIDE DEF rows
  <2>3. /\ current' = j
        /\ activeWorker' = j
        /\ cancelRequested' = FALSE
        /\ row' = [rows EXCEPT ![j] = "running"]
        /\ worker' = [worker EXCEPT ![j] = "working"]
    BY <1>1, <1>2, <2>1, <2>2, RunNextEffect
  <2>4. row' = [row EXCEPT ![j] = "running"]
    BY <2>3 DEF rows, PrepareInv, TypeOK
  <2> QED
    BY <1>3, <2>3, <2>4 DEF Insert, Inserted
<1>4. CASE current # NoJob
  BY <1>4 DEF Insert, Inserted, runner
<1> QED
  BY <1>3, <1>4

(* The current job is announced and its run row finished; the next one, if *)
(* any is queued, is another job.                                          *)
Settled(j) ==
    /\ j = current
    /\ mail[j] \in Outcome \cup {"error"}
    /\ \E threw \in BOOLEAN, outcome \in Outcome, rest \in {"none", "exit"} :
         /\ ~threw /\ mail[j] # "error" =>
                 outcome = mail[j] \/ (mail[j] = "failed" /\ outcome = "cancelled")
         /\ outcome = "completed" => mail[j] = "completed"
         /\ threw => faults' > 0
         /\ faults' \in faults .. MaxFaults
         /\ told' = [told EXCEPT ![j] = outcome]
         /\ run' = [run EXCEPT ![j] = IF owner[j] = NoSchedule THEN @ ELSE outcome]
         /\ rest = "exit" => mail[j] = "error"
         /\ mail' = [mail EXCEPT ![j] = rest]
    /\ UNCHANGED <<asked, exists, owner, crashes>>
    /\ current' \in Jobs \cup {NoJob}
    /\ activeWorker' = current'
    /\ cancelRequested' = FALSE
    /\ \/ /\ current' = NoJob
          /\ \A i \in Jobs : row[i] # "queued"
          /\ UNCHANGED <<row, worker>>
       \/ /\ current' \in Jobs
          /\ row[current'] = "queued"
          /\ row' = [row EXCEPT ![current'] = "running"]
          /\ worker' = [worker EXCEPT ![current'] = "working"]

LEMMA SettleEffect ==
    ASSUME PrepareInv, NEW j \in Jobs, Settle(j)
    PROVE  Settled(j)
<1>1. PICK threw \in BOOLEAN :
        /\ threw => mail[j] = "completed" /\ faults < MaxFaults
        /\ faults' = IF threw THEN faults + 1 ELSE faults
        /\ told' = [told EXCEPT ![j] = Announced(mail[j], threw)]
        /\ FinishRun(j, Announced(mail[j], threw))
  BY DEF Settle
<1>2. PICK rest \in {"none", "exit"} :
        /\ rest = "exit" => mail[j] = "error"
        /\ mail' = [mail EXCEPT ![j] = rest]
  BY DEF Settle
<1> DEFINE outcome == Announced(mail[j], threw)
<1>3. mail[j] \in Outcome \cup {"error"}
  BY DEF Settle
<1>4. /\ outcome \in Outcome
      /\ ~threw /\ mail[j] # "error" =>
            outcome = mail[j] \/ (mail[j] = "failed" /\ outcome = "cancelled")
      /\ outcome = "completed" => mail[j] = "completed"
  BY <1>3 DEF Announced, Outcome
<1>5. /\ threw => faults' > 0
      /\ faults' \in faults .. MaxFaults
  BY <1>1, PrepareAssumption DEF PrepareInv, TypeOK
<1>6. RunNext(row, worker)
  BY DEF Settle
<1>7. row \in [Jobs -> Row] /\ worker \in [Jobs -> Worker]
  BY DEF PrepareInv, TypeOK
<1> HIDE DEF outcome
<1>8. /\ told' = [told EXCEPT ![j] = outcome]
      /\ run' = [run EXCEPT ![j] = IF owner[j] = NoSchedule THEN @ ELSE outcome]
  BY <1>1 DEF FinishRun, outcome
<1>9. \E t \in BOOLEAN, o \in Outcome, r \in {"none", "exit"} :
        /\ ~t /\ mail[j] # "error" =>
                o = mail[j] \/ (mail[j] = "failed" /\ o = "cancelled")
        /\ o = "completed" => mail[j] = "completed"
        /\ t => faults' > 0
        /\ faults' \in faults .. MaxFaults
        /\ told' = [told EXCEPT ![j] = o]
        /\ run' = [run EXCEPT ![j] = IF owner[j] = NoSchedule THEN @ ELSE o]
        /\ r = "exit" => mail[j] = "error"
        /\ mail' = [mail EXCEPT ![j] = r]
  BY <1>2, <1>4, <1>5, <1>8
<1>10. j = current /\ UNCHANGED <<asked, exists, owner, crashes>>
  BY DEF Settle
<1> QED
  <2>1. /\ current' \in Jobs \cup {NoJob}
        /\ activeWorker' = current'
        /\ cancelRequested' = FALSE
        /\ \/ /\ current' = NoJob
              /\ \A i \in Jobs : row[i] # "queued"
              /\ row' = row
              /\ worker' = worker
           \/ /\ current' \in Jobs
              /\ row[current'] = "queued"
              /\ row' = [row EXCEPT ![current'] = "running"]
              /\ worker' = [worker EXCEPT ![current'] = "working"]
    BY <1>6, <1>7, RunNextEffect
  <2> QED
    BY <1>3, <1>9, <1>10, <2>1 DEF Settled

-----------------------------------------------------------------------------
(* Every step keeps every part of PrepareInv.                              *)

LEMMA TypeStep ==
    ASSUME PrepareInv, [Next]_vars
    PROVE  TypeOK'
<1> USE PrepareAssumption
<1>1. ASSUME NEW j \in Jobs, Enqueue(j) PROVE TypeOK'
  <2>1. Inserted(j)
    BY <1>1, InsertEffect DEF Enqueue
  <2> QED
    BY <1>1, <2>1
       DEF Enqueue, Inserted, PrepareInv, TypeOK, thread, runner, schedule,
           Row, Open, Over, Worker, Live, Mail, Outcome
<1>2. ASSUME NEW s \in Schedules, NEW j \in Jobs, RunSchedule(s, j) PROVE TypeOK'
  <2>1. Inserted(j)
    BY <1>2, InsertEffect DEF RunSchedule
  <2> QED
    BY <1>2, <2>1
       DEF RunSchedule, Inserted, PrepareInv, TypeOK, thread, runner, schedule,
           Row, Open, Over, Worker, Live, Mail, Outcome
<1>3. ASSUME NEW s \in Schedules, DeleteSchedule(s) PROVE TypeOK'
  BY <1>3
     DEF DeleteSchedule, PrepareInv, TypeOK, thread, runner, schedule, Row,
         Open, Over, Worker, Live, Mail, Outcome
<1>4. ASSUME NEW j \in Jobs, CancelQueued(j) PROVE TypeOK'
  BY <1>4
     DEF CancelQueued, FinishRun, PrepareInv, TypeOK, thread, runner, schedule,
         Row, Open, Over, Worker, Live, Mail, Outcome
<1>5. ASSUME NEW j \in Jobs, CancelRunning(j) PROVE TypeOK'
  BY <1>5
     DEF CancelRunning, PrepareInv, TypeOK, thread, runner, schedule, Row,
         Open, Over, Worker, Live, Mail, Outcome
<1>6. ASSUME NEW j \in Jobs, Hear(j) PROVE TypeOK'
  BY <1>6
     DEF Hear, PrepareInv, TypeOK, thread, runner, schedule, Row, Open, Over,
         Worker, Live, Mail, Outcome
<1>7. ASSUME NEW j \in Jobs, StopAtCheck(j) PROVE TypeOK'
  BY <1>7
     DEF StopAtCheck, End, PrepareInv, TypeOK, thread, runner, schedule, Row,
         Open, Over, Worker, Live, Mail, Outcome
<1>8. ASSUME NEW j \in Jobs, PassLastCheck(j) PROVE TypeOK'
  BY <1>8
     DEF PassLastCheck, PrepareInv, TypeOK, thread, runner, schedule, Row,
         Open, Over, Worker, Live, Mail, Outcome
<1>9. ASSUME NEW j \in Jobs, Complete(j) PROVE TypeOK'
  BY <1>9
     DEF Complete, End, PrepareInv, TypeOK, thread, runner, schedule, Row,
         Open, Over, Worker, Live, Mail, Outcome
<1>10. ASSUME NEW j \in Jobs, Fail(j) PROVE TypeOK'
  BY <1>10
     DEF Fail, End, PrepareInv, TypeOK, thread, runner, schedule, Row, Open,
         Over, Worker, Live, Mail, Outcome
<1>11. ASSUME NEW j \in Jobs, Die(j) PROVE TypeOK'
  BY <1>11
     DEF Die, PrepareInv, TypeOK, thread, runner, schedule, Row, Open, Over,
         Worker, Live, Mail, Outcome
<1>16. ASSUME NEW j \in Jobs, Straggle(j) PROVE TypeOK'
  BY <1>16
     DEF Straggle, PrepareInv, TypeOK, thread, runner, schedule, Row, Open, Over,
         Worker, Live, Mail, Outcome
<1>12. ASSUME NEW j \in Jobs, Settle(j) PROVE TypeOK'
  <2>1. Settled(j)
    BY <1>12, SettleEffect
  <2>2. /\ told' \in [Jobs -> {"none"} \cup Outcome]
        /\ run' \in [Jobs -> {"none", "queued"} \cup Outcome]
        /\ mail' \in [Jobs -> Mail]
        /\ faults' \in 0 .. MaxFaults
    BY <2>1 DEF Settled, PrepareInv, TypeOK, Mail
  <2>3. row' \in [Jobs -> Row] /\ worker' \in [Jobs -> Worker]
    BY <2>1 DEF Settled, PrepareInv, TypeOK, Row, Open, Worker
  <2> QED
    BY <2>1, <2>2, <2>3 DEF Settled, PrepareInv, TypeOK
<1>13. ASSUME NEW j \in Jobs, OnExit(j) PROVE TypeOK'
  BY <1>13
     DEF OnExit, PrepareInv, TypeOK, thread, runner, schedule, Row, Open, Over,
         Worker, Live, Mail, Outcome
<1>14. ASSUME Restart PROVE TypeOK'
  <2>1. row' \in [Jobs -> Row]
    BY <1>14 DEF Restart, PrepareInv, TypeOK, Row, Over
  <2>2. worker' \in [Jobs -> Worker]
    BY <1>14 DEF Restart, PrepareInv, TypeOK, Worker
  <2>3. run' \in [Jobs -> {"none", "queued"} \cup Outcome]
    BY <1>14 DEF Restart, PrepareInv, TypeOK, Outcome
  <2>4. mail' \in [Jobs -> Mail]
    BY <1>14 DEF Restart, Mail
  <2>5. /\ asked' \in [Jobs -> {"no", "sent", "heard"}]
        /\ told' \in [Jobs -> {"none"} \cup Outcome]
        /\ exists' \subseteq Schedules
        /\ owner' \in [Jobs -> Schedules \cup {NoSchedule}]
        /\ faults' \in 0 .. MaxFaults
    BY <1>14 DEF Restart, PrepareInv, TypeOK
  <2>6. /\ current' \in Jobs \cup {NoJob}
        /\ activeWorker' \in Jobs \cup {NoJob}
    BY <1>14 DEF Restart
  <2>7. cancelRequested' \in BOOLEAN
    BY <1>14 DEF Restart
  <2>8. crashes' \in 0 .. MaxCrashes
    BY <1>14 DEF Restart, PrepareInv, TypeOK
  <2> QED
    BY <2>1, <2>2, <2>3, <2>4, <2>5, <2>6, <2>7, <2>8 DEF TypeOK
<1>15. CASE UNCHANGED vars
  BY <1>15
     DEF vars, thread, runner, schedule, PrepareInv, TypeOK, Row, Open, Over,
         Worker, Live, Mail, Outcome
<1> QED
  BY <1>1, <1>2, <1>3, <1>4, <1>5, <1>6, <1>7, <1>8, <1>9, <1>10, <1>11, <1>12,
     <1>13, <1>14, <1>15, <1>16
     DEF Next, WorkerStep

LEMMA IdleStep ==
    ASSUME PrepareInv, [Next]_vars
    PROVE  NoIdleRunner'
<1>1. ASSUME NEW j \in Jobs, Enqueue(j) PROVE NoIdleRunner'
  <2>1. Inserted(j)
    BY <1>1, InsertEffect DEF Enqueue
  <2> QED
    BY <1>1, <2>1
       DEF Enqueue, Inserted, PrepareInv, TypeOK, thread, runner, schedule,
           NoIdleRunner, Open, Jobs, NoJob
<1>2. ASSUME NEW s \in Schedules, NEW j \in Jobs, RunSchedule(s, j) PROVE NoIdleRunner'
  <2>1. Inserted(j)
    BY <1>2, InsertEffect DEF RunSchedule
  <2> QED
    BY <1>2, <2>1
       DEF RunSchedule, Inserted, PrepareInv, TypeOK, thread, runner, schedule,
           NoIdleRunner, Open, Jobs, NoJob
<1>3. ASSUME NEW s \in Schedules, DeleteSchedule(s) PROVE NoIdleRunner'
  BY <1>3
     DEF DeleteSchedule, PrepareInv, TypeOK, thread, runner, schedule,
         NoIdleRunner, Open, Jobs, NoJob
<1>4. ASSUME NEW j \in Jobs, CancelQueued(j) PROVE NoIdleRunner'
  BY <1>4
     DEF CancelQueued, FinishRun, PrepareInv, TypeOK, thread, runner, schedule,
         NoIdleRunner, Open, Jobs, NoJob
<1>5. ASSUME NEW j \in Jobs, CancelRunning(j) PROVE NoIdleRunner'
  BY <1>5
     DEF CancelRunning, PrepareInv, TypeOK, thread, runner, schedule,
         NoIdleRunner, Open, Jobs, NoJob
<1>6. ASSUME NEW j \in Jobs, Hear(j) PROVE NoIdleRunner'
  BY <1>6
     DEF Hear, PrepareInv, TypeOK, thread, runner, schedule, NoIdleRunner,
         Open, Jobs, NoJob
<1>7. ASSUME NEW j \in Jobs, StopAtCheck(j) PROVE NoIdleRunner'
  BY <1>7
     DEF StopAtCheck, End, PrepareInv, TypeOK, thread, runner, schedule,
         NoIdleRunner, Open, Jobs, NoJob
<1>8. ASSUME NEW j \in Jobs, PassLastCheck(j) PROVE NoIdleRunner'
  BY <1>8
     DEF PassLastCheck, PrepareInv, TypeOK, thread, runner, schedule,
         NoIdleRunner, Open, Jobs, NoJob
<1>9. ASSUME NEW j \in Jobs, Complete(j) PROVE NoIdleRunner'
  BY <1>9
     DEF Complete, End, PrepareInv, TypeOK, thread, runner, schedule,
         NoIdleRunner, Open, Jobs, NoJob
<1>10. ASSUME NEW j \in Jobs, Fail(j) PROVE NoIdleRunner'
  BY <1>10
     DEF Fail, End, PrepareInv, TypeOK, thread, runner, schedule, NoIdleRunner,
         Open, Jobs, NoJob
<1>11. ASSUME NEW j \in Jobs, Die(j) PROVE NoIdleRunner'
  BY <1>11
     DEF Die, PrepareInv, TypeOK, thread, runner, schedule, NoIdleRunner, Open,
         Jobs, NoJob
<1>16. ASSUME NEW j \in Jobs, Straggle(j) PROVE NoIdleRunner'
  BY <1>16
     DEF Straggle, PrepareInv, TypeOK, thread, runner, schedule, NoIdleRunner, Open,
         Jobs, NoJob
<1>12. ASSUME NEW j \in Jobs, Settle(j) PROVE NoIdleRunner'
  <2>1. Settled(j)
    BY <1>12, SettleEffect
  <2> QED
    BY <1>12, <2>1
       DEF Settled, PrepareInv, TypeOK, thread, runner, schedule, NoIdleRunner,
           Open, Jobs, NoJob
<1>13. ASSUME NEW j \in Jobs, OnExit(j) PROVE NoIdleRunner'
  BY <1>13
     DEF OnExit, PrepareInv, TypeOK, thread, runner, schedule, NoIdleRunner,
         Open, Jobs, NoJob
<1>14. ASSUME Restart PROVE NoIdleRunner'
  BY <1>14
     DEF Restart, PrepareInv, TypeOK, thread, runner, schedule, NoIdleRunner,
         Open, Jobs, NoJob
<1>15. CASE UNCHANGED vars
  BY <1>15
     DEF vars, thread, runner, schedule, PrepareInv, TypeOK, NoIdleRunner,
         Open, Jobs, NoJob
<1> QED
  BY <1>1, <1>2, <1>3, <1>4, <1>5, <1>6, <1>7, <1>8, <1>9, <1>10, <1>11, <1>12,
     <1>13, <1>14, <1>15, <1>16
     DEF Next, WorkerStep

LEMMA ThreadStep ==
    ASSUME PrepareInv, [Next]_vars
    PROVE  ThreadInv'
<1> USE PrepareAssumption
<1>1. ASSUME NEW j \in Jobs, Enqueue(j) PROVE ThreadInv'
  <2>1. Inserted(j)
    BY <1>1, InsertEffect DEF Enqueue
  <2> QED
    BY <1>1, <2>1
       DEF Enqueue, Inserted, PrepareInv, TypeOK, thread, runner, schedule,
           ThreadInv, NoIdleRunner, Row, Open, Over, Worker, Live, Mail,
           Outcome, Jobs, NoJob
<1>2. ASSUME NEW s \in Schedules, NEW j \in Jobs, RunSchedule(s, j) PROVE ThreadInv'
  <2>1. Inserted(j)
    BY <1>2, InsertEffect DEF RunSchedule
  <2> QED
    BY <1>2, <2>1
       DEF RunSchedule, Inserted, PrepareInv, TypeOK, thread, runner, schedule,
           ThreadInv, NoIdleRunner, Row, Open, Over, Worker, Live, Mail,
           Outcome, Jobs, NoJob
<1>3. ASSUME NEW s \in Schedules, DeleteSchedule(s) PROVE ThreadInv'
  BY <1>3
     DEF DeleteSchedule, PrepareInv, TypeOK, thread, runner, schedule,
         ThreadInv, NoIdleRunner, Row, Open, Over, Worker, Live, Mail, Outcome,
         Jobs, NoJob
<1>4. ASSUME NEW j \in Jobs, CancelQueued(j) PROVE ThreadInv'
  BY <1>4
     DEF CancelQueued, FinishRun, PrepareInv, TypeOK, thread, runner, schedule,
         ThreadInv, NoIdleRunner, Row, Open, Over, Worker, Live, Mail, Outcome,
         Jobs, NoJob
<1>5. ASSUME NEW j \in Jobs, CancelRunning(j) PROVE ThreadInv'
  BY <1>5
     DEF CancelRunning, PrepareInv, TypeOK, thread, runner, schedule,
         ThreadInv, NoIdleRunner, Row, Open, Over, Worker, Live, Mail, Outcome,
         Jobs, NoJob
<1>6. ASSUME NEW j \in Jobs, Hear(j) PROVE ThreadInv'
  BY <1>6
     DEF Hear, PrepareInv, TypeOK, thread, runner, schedule, ThreadInv,
         NoIdleRunner, Row, Open, Over, Worker, Live, Mail, Outcome, Jobs,
         NoJob
<1>7. ASSUME NEW j \in Jobs, StopAtCheck(j) PROVE ThreadInv'
  BY <1>7
     DEF StopAtCheck, End, PrepareInv, TypeOK, thread, runner, schedule,
         ThreadInv, NoIdleRunner, Row, Open, Over, Worker, Live, Mail, Outcome,
         Jobs, NoJob
<1>8. ASSUME NEW j \in Jobs, PassLastCheck(j) PROVE ThreadInv'
  BY <1>8
     DEF PassLastCheck, PrepareInv, TypeOK, thread, runner, schedule,
         ThreadInv, NoIdleRunner, Row, Open, Over, Worker, Live, Mail, Outcome,
         Jobs, NoJob
<1>9. ASSUME NEW j \in Jobs, Complete(j) PROVE ThreadInv'
  BY <1>9
     DEF Complete, End, PrepareInv, TypeOK, thread, runner, schedule,
         ThreadInv, NoIdleRunner, Row, Open, Over, Worker, Live, Mail, Outcome,
         Jobs, NoJob
<1>10. ASSUME NEW j \in Jobs, Fail(j) PROVE ThreadInv'
  BY <1>10
     DEF Fail, End, PrepareInv, TypeOK, thread, runner, schedule, ThreadInv,
         NoIdleRunner, Row, Open, Over, Worker, Live, Mail, Outcome, Jobs,
         NoJob
<1>11. ASSUME NEW j \in Jobs, Die(j) PROVE ThreadInv'
  BY <1>11
     DEF Die, PrepareInv, TypeOK, thread, runner, schedule, ThreadInv,
         NoIdleRunner, Row, Open, Over, Worker, Live, Mail, Outcome, Jobs,
         NoJob
<1>16. ASSUME NEW j \in Jobs, Straggle(j) PROVE ThreadInv'
  BY <1>16
     DEF Straggle, PrepareInv, TypeOK, thread, runner, schedule, ThreadInv,
         NoIdleRunner, Row, Open, Over, Worker, Live, Mail, Outcome, Jobs,
         NoJob
<1>12. ASSUME NEW j \in Jobs, Settle(j) PROVE ThreadInv'
  <2>1. Settled(j)
    BY <1>12, SettleEffect
  <2> QED
    BY <1>12, <2>1
       DEF Settled, PrepareInv, TypeOK, thread, runner, schedule, ThreadInv,
           NoIdleRunner, Row, Open, Over, Worker, Live, Mail, Outcome, Jobs,
           NoJob
<1>13. ASSUME NEW j \in Jobs, OnExit(j) PROVE ThreadInv'
  BY <1>13
     DEF OnExit, PrepareInv, TypeOK, thread, runner, schedule, ThreadInv,
         NoIdleRunner, Row, Open, Over, Worker, Live, Mail, Outcome, Jobs,
         NoJob
<1>14. ASSUME Restart PROVE ThreadInv'
  BY <1>14
     DEF Restart, PrepareInv, TypeOK, thread, runner, schedule, ThreadInv,
         NoIdleRunner, Row, Open, Over, Worker, Live, Mail, Outcome, Jobs,
         NoJob
<1>15. CASE UNCHANGED vars
  BY <1>15
     DEF vars, thread, runner, schedule, PrepareInv, TypeOK, ThreadInv,
         NoIdleRunner, Row, Open, Over, Worker, Live, Mail, Outcome, Jobs,
         NoJob
<1> QED
  BY <1>1, <1>2, <1>3, <1>4, <1>5, <1>6, <1>7, <1>8, <1>9, <1>10, <1>11, <1>12,
     <1>13, <1>14, <1>15, <1>16
     DEF Next, WorkerStep

LEMMA RunnerStep ==
    ASSUME PrepareInv, [Next]_vars
    PROVE  RunnerInv'
<1> USE PrepareAssumption
<1>1. ASSUME NEW j \in Jobs, Enqueue(j) PROVE RunnerInv'
  <2>1. Inserted(j)
    BY <1>1, InsertEffect DEF Enqueue
  <2> QED
    BY <1>1, <2>1
       DEF Enqueue, Inserted, PrepareInv, TypeOK, thread, runner, schedule,
           RunnerInv, ThreadInv, Live, Jobs, NoJob
<1>2. ASSUME NEW s \in Schedules, NEW j \in Jobs, RunSchedule(s, j) PROVE RunnerInv'
  <2>1. Inserted(j)
    BY <1>2, InsertEffect DEF RunSchedule
  <2> QED
    BY <1>2, <2>1
       DEF RunSchedule, Inserted, PrepareInv, TypeOK, thread, runner, schedule,
           RunnerInv, ThreadInv, Live, Jobs, NoJob
<1>3. ASSUME NEW s \in Schedules, DeleteSchedule(s) PROVE RunnerInv'
  BY <1>3
     DEF DeleteSchedule, PrepareInv, TypeOK, thread, runner, schedule,
         RunnerInv, ThreadInv, Live, Jobs, NoJob
<1>4. ASSUME NEW j \in Jobs, CancelQueued(j) PROVE RunnerInv'
  BY <1>4
     DEF CancelQueued, FinishRun, PrepareInv, TypeOK, thread, runner, schedule,
         RunnerInv, ThreadInv, Live, Jobs, NoJob
<1>5. ASSUME NEW j \in Jobs, CancelRunning(j) PROVE RunnerInv'
  BY <1>5
     DEF CancelRunning, PrepareInv, TypeOK, thread, runner, schedule,
         RunnerInv, ThreadInv, Live, Jobs, NoJob
<1>6. ASSUME NEW j \in Jobs, Hear(j) PROVE RunnerInv'
  BY <1>6
     DEF Hear, PrepareInv, TypeOK, thread, runner, schedule, RunnerInv,
         ThreadInv, Live, Jobs, NoJob
<1>7. ASSUME NEW j \in Jobs, StopAtCheck(j) PROVE RunnerInv'
  BY <1>7
     DEF StopAtCheck, End, PrepareInv, TypeOK, thread, runner, schedule,
         RunnerInv, ThreadInv, Live, Jobs, NoJob
<1>8. ASSUME NEW j \in Jobs, PassLastCheck(j) PROVE RunnerInv'
  BY <1>8
     DEF PassLastCheck, PrepareInv, TypeOK, thread, runner, schedule,
         RunnerInv, ThreadInv, Live, Jobs, NoJob
<1>9. ASSUME NEW j \in Jobs, Complete(j) PROVE RunnerInv'
  BY <1>9
     DEF Complete, End, PrepareInv, TypeOK, thread, runner, schedule,
         RunnerInv, ThreadInv, Live, Jobs, NoJob
<1>10. ASSUME NEW j \in Jobs, Fail(j) PROVE RunnerInv'
  BY <1>10
     DEF Fail, End, PrepareInv, TypeOK, thread, runner, schedule, RunnerInv,
         ThreadInv, Live, Jobs, NoJob
<1>11. ASSUME NEW j \in Jobs, Die(j) PROVE RunnerInv'
  BY <1>11
     DEF Die, PrepareInv, TypeOK, thread, runner, schedule, RunnerInv,
         ThreadInv, Live, Jobs, NoJob
<1>16. ASSUME NEW j \in Jobs, Straggle(j) PROVE RunnerInv'
  BY <1>16
     DEF Straggle, PrepareInv, TypeOK, thread, runner, schedule, RunnerInv,
         ThreadInv, Live, Jobs, NoJob
<1>12. ASSUME NEW j \in Jobs, Settle(j) PROVE RunnerInv'
  <2>1. Settled(j)
    BY <1>12, SettleEffect
  <2> QED
    BY <1>12, <2>1
       DEF Settled, PrepareInv, TypeOK, thread, runner, schedule, RunnerInv,
           ThreadInv, Live, Jobs, NoJob
<1>13. ASSUME NEW j \in Jobs, OnExit(j) PROVE RunnerInv'
  BY <1>13
     DEF OnExit, PrepareInv, TypeOK, thread, runner, schedule, RunnerInv,
         ThreadInv, Live, Jobs, NoJob
<1>14. ASSUME Restart PROVE RunnerInv'
  BY <1>14
     DEF Restart, PrepareInv, TypeOK, thread, runner, schedule, RunnerInv,
         ThreadInv, Live, Jobs, NoJob
<1>15. CASE UNCHANGED vars
  BY <1>15
     DEF vars, thread, runner, schedule, PrepareInv, TypeOK, RunnerInv,
         ThreadInv, Live, Jobs, NoJob
<1> QED
  BY <1>1, <1>2, <1>3, <1>4, <1>5, <1>6, <1>7, <1>8, <1>9, <1>10, <1>11, <1>12,
     <1>13, <1>14, <1>15, <1>16
     DEF Next, WorkerStep

LEMMA OwnerStep ==
    ASSUME PrepareInv, [Next]_vars
    PROVE  OwnerInv'
<1> USE PrepareAssumption
<1>1. ASSUME NEW j \in Jobs, Enqueue(j) PROVE OwnerInv'
  <2>1. Inserted(j)
    BY <1>1, InsertEffect DEF Enqueue
  <2> QED
    BY <1>1, <2>1
       DEF Enqueue, Inserted, PrepareInv, TypeOK, thread, runner, schedule,
           OwnerInv, ThreadInv, Live, Outcome, Jobs
<1>2. ASSUME NEW s \in Schedules, NEW j \in Jobs, RunSchedule(s, j) PROVE OwnerInv'
  <2>1. Inserted(j)
    BY <1>2, InsertEffect DEF RunSchedule
  <2>2. /\ row'[j] # "none"
        /\ \A i \in Jobs : i # j => row'[i] = row[i]
        /\ \A i \in Jobs : i < j => row[i] # "none"
    BY <2>1 DEF Inserted, PrepareInv, TypeOK
  <2>3. \A i \in Jobs : row[i] # "none" => row'[i] # "none"
    BY <2>2
  <2>4. \A i, k \in Jobs : i < k /\ row'[k] # "none" => row'[i] # "none"
    BY <2>2, <2>3 DEF PrepareInv, OwnerInv
  <2>5. /\ owner'[j] \in Schedules
        /\ \A i \in Jobs : i # j => owner'[i] = owner[i] /\ run'[i] = run[i]
    BY <1>2 DEF RunSchedule, PrepareInv, TypeOK
  <2> QED
    BY <2>2, <2>3, <2>4, <2>5 DEF PrepareInv, OwnerInv
<1>3. ASSUME NEW s \in Schedules, DeleteSchedule(s) PROVE OwnerInv'
  BY <1>3
     DEF DeleteSchedule, PrepareInv, TypeOK, thread, runner, schedule,
         OwnerInv, ThreadInv, Live, Outcome, Jobs
<1>4. ASSUME NEW j \in Jobs, CancelQueued(j) PROVE OwnerInv'
  BY <1>4
     DEF CancelQueued, FinishRun, PrepareInv, TypeOK, thread, runner, schedule,
         OwnerInv, ThreadInv, Live, Outcome, Jobs
<1>5. ASSUME NEW j \in Jobs, CancelRunning(j) PROVE OwnerInv'
  BY <1>5
     DEF CancelRunning, PrepareInv, TypeOK, thread, runner, schedule, OwnerInv,
         ThreadInv, Live, Outcome, Jobs
<1>6. ASSUME NEW j \in Jobs, Hear(j) PROVE OwnerInv'
  BY <1>6
     DEF Hear, PrepareInv, TypeOK, thread, runner, schedule, OwnerInv,
         ThreadInv, Live, Outcome, Jobs
<1>7. ASSUME NEW j \in Jobs, StopAtCheck(j) PROVE OwnerInv'
  BY <1>7
     DEF StopAtCheck, End, PrepareInv, TypeOK, thread, runner, schedule,
         OwnerInv, ThreadInv, Live, Outcome, Jobs
<1>8. ASSUME NEW j \in Jobs, PassLastCheck(j) PROVE OwnerInv'
  BY <1>8
     DEF PassLastCheck, PrepareInv, TypeOK, thread, runner, schedule, OwnerInv,
         ThreadInv, Live, Outcome, Jobs
<1>9. ASSUME NEW j \in Jobs, Complete(j) PROVE OwnerInv'
  BY <1>9
     DEF Complete, End, PrepareInv, TypeOK, thread, runner, schedule, OwnerInv,
         ThreadInv, Live, Outcome, Jobs
<1>10. ASSUME NEW j \in Jobs, Fail(j) PROVE OwnerInv'
  BY <1>10
     DEF Fail, End, PrepareInv, TypeOK, thread, runner, schedule, OwnerInv,
         ThreadInv, Live, Outcome, Jobs
<1>11. ASSUME NEW j \in Jobs, Die(j) PROVE OwnerInv'
  BY <1>11
     DEF Die, PrepareInv, TypeOK, thread, runner, schedule, OwnerInv,
         ThreadInv, Live, Outcome, Jobs
<1>16. ASSUME NEW j \in Jobs, Straggle(j) PROVE OwnerInv'
  BY <1>16
     DEF Straggle, PrepareInv, TypeOK, thread, runner, schedule, OwnerInv,
         ThreadInv, Live, Outcome, Jobs
<1>12. ASSUME NEW j \in Jobs, Settle(j) PROVE OwnerInv'
  <2>1. Settled(j)
    BY <1>12, SettleEffect
  <2> QED
    BY <1>12, <2>1
       DEF Settled, PrepareInv, TypeOK, thread, runner, schedule, OwnerInv,
           ThreadInv, Live, Outcome, Jobs
<1>13. ASSUME NEW j \in Jobs, OnExit(j) PROVE OwnerInv'
  BY <1>13
     DEF OnExit, PrepareInv, TypeOK, thread, runner, schedule, OwnerInv,
         ThreadInv, Live, Outcome, Jobs
<1>14. ASSUME Restart PROVE OwnerInv'
  BY <1>14
     DEF Restart, PrepareInv, TypeOK, thread, runner, schedule, OwnerInv,
         ThreadInv, Live, Outcome, Jobs
<1>15. CASE UNCHANGED vars
  BY <1>15
     DEF vars, thread, runner, schedule, PrepareInv, TypeOK, OwnerInv,
         ThreadInv, Live, Outcome, Jobs
<1> QED
  BY <1>1, <1>2, <1>3, <1>4, <1>5, <1>6, <1>7, <1>8, <1>9, <1>10, <1>11, <1>12,
     <1>13, <1>14, <1>15, <1>16
     DEF Next, WorkerStep

LEMMA NewestStep ==
    ASSUME PrepareInv, [Next]_vars
    PROVE  NewestInv'
<1> USE PrepareAssumption
<1>1. ASSUME NEW j \in Jobs, Enqueue(j) PROVE NewestInv'
  <2>1. Inserted(j)
    BY <1>1, InsertEffect DEF Enqueue
  <2> QED
    BY <1>1, <2>1
       DEF Enqueue, Inserted, PrepareInv, TypeOK, thread, runner, schedule,
           NewestInv, OwnerInv, ThreadInv, HasActiveRun, Open, Live, Outcome,
           Jobs
<1>2. ASSUME NEW s \in Schedules, NEW j \in Jobs, RunSchedule(s, j) PROVE NewestInv'
  <2>1. Inserted(j)
    BY <1>2, InsertEffect DEF RunSchedule
  <2> QED
    BY <1>2, <2>1
       DEF RunSchedule, Inserted, PrepareInv, TypeOK, thread, runner, schedule,
           NewestInv, OwnerInv, ThreadInv, HasActiveRun, Open, Live, Outcome,
           Jobs
<1>3. ASSUME NEW s \in Schedules, DeleteSchedule(s) PROVE NewestInv'
  BY <1>3
     DEF DeleteSchedule, PrepareInv, TypeOK, thread, runner, schedule,
         NewestInv, OwnerInv, ThreadInv, HasActiveRun, Open, Live, Outcome,
         Jobs
<1>4. ASSUME NEW j \in Jobs, CancelQueued(j) PROVE NewestInv'
  BY <1>4
     DEF CancelQueued, FinishRun, PrepareInv, TypeOK, thread, runner, schedule,
         NewestInv, OwnerInv, ThreadInv, HasActiveRun, Open, Live, Outcome,
         Jobs
<1>5. ASSUME NEW j \in Jobs, CancelRunning(j) PROVE NewestInv'
  BY <1>5
     DEF CancelRunning, PrepareInv, TypeOK, thread, runner, schedule,
         NewestInv, OwnerInv, ThreadInv, HasActiveRun, Open, Live, Outcome,
         Jobs
<1>6. ASSUME NEW j \in Jobs, Hear(j) PROVE NewestInv'
  BY <1>6
     DEF Hear, PrepareInv, TypeOK, thread, runner, schedule, NewestInv,
         OwnerInv, ThreadInv, HasActiveRun, Open, Live, Outcome, Jobs
<1>7. ASSUME NEW j \in Jobs, StopAtCheck(j) PROVE NewestInv'
  BY <1>7
     DEF StopAtCheck, End, PrepareInv, TypeOK, thread, runner, schedule,
         NewestInv, OwnerInv, ThreadInv, HasActiveRun, Open, Live, Outcome,
         Jobs
<1>8. ASSUME NEW j \in Jobs, PassLastCheck(j) PROVE NewestInv'
  BY <1>8
     DEF PassLastCheck, PrepareInv, TypeOK, thread, runner, schedule,
         NewestInv, OwnerInv, ThreadInv, HasActiveRun, Open, Live, Outcome,
         Jobs
<1>9. ASSUME NEW j \in Jobs, Complete(j) PROVE NewestInv'
  BY <1>9
     DEF Complete, End, PrepareInv, TypeOK, thread, runner, schedule,
         NewestInv, OwnerInv, ThreadInv, HasActiveRun, Open, Live, Outcome,
         Jobs
<1>10. ASSUME NEW j \in Jobs, Fail(j) PROVE NewestInv'
  BY <1>10
     DEF Fail, End, PrepareInv, TypeOK, thread, runner, schedule, NewestInv,
         OwnerInv, ThreadInv, HasActiveRun, Open, Live, Outcome, Jobs
<1>11. ASSUME NEW j \in Jobs, Die(j) PROVE NewestInv'
  BY <1>11
     DEF Die, PrepareInv, TypeOK, thread, runner, schedule, NewestInv,
         OwnerInv, ThreadInv, HasActiveRun, Open, Live, Outcome, Jobs
<1>16. ASSUME NEW j \in Jobs, Straggle(j) PROVE NewestInv'
  BY <1>16
     DEF Straggle, PrepareInv, TypeOK, thread, runner, schedule, NewestInv,
         OwnerInv, ThreadInv, HasActiveRun, Open, Live, Outcome, Jobs
<1>12. ASSUME NEW j \in Jobs, Settle(j) PROVE NewestInv'
  <2>1. Settled(j)
    BY <1>12, SettleEffect
  <2> QED
    BY <1>12, <2>1
       DEF Settled, PrepareInv, TypeOK, thread, runner, schedule, NewestInv,
           OwnerInv, ThreadInv, HasActiveRun, Open, Live, Outcome, Jobs
<1>13. ASSUME NEW j \in Jobs, OnExit(j) PROVE NewestInv'
  BY <1>13
     DEF OnExit, PrepareInv, TypeOK, thread, runner, schedule, NewestInv,
         OwnerInv, ThreadInv, HasActiveRun, Open, Live, Outcome, Jobs
<1>14. ASSUME Restart PROVE NewestInv'
  BY <1>14
     DEF Restart, PrepareInv, TypeOK, thread, runner, schedule, NewestInv,
         OwnerInv, ThreadInv, HasActiveRun, Open, Live, Outcome, Jobs
<1>15. CASE UNCHANGED vars
  BY <1>15
     DEF vars, thread, runner, schedule, PrepareInv, TypeOK, NewestInv,
         OwnerInv, ThreadInv, HasActiveRun, Open, Live, Outcome, Jobs
<1> QED
  BY <1>1, <1>2, <1>3, <1>4, <1>5, <1>6, <1>7, <1>8, <1>9, <1>10, <1>11, <1>12,
     <1>13, <1>14, <1>15, <1>16
     DEF Next, WorkerStep

LEMMA BroadcastStep ==
    ASSUME PrepareInv, [Next]_vars
    PROVE  BroadcastMatchesRow'
<1> USE PrepareAssumption
<1>1. ASSUME NEW j \in Jobs, Enqueue(j) PROVE BroadcastMatchesRow'
  <2>1. Inserted(j)
    BY <1>1, InsertEffect DEF Enqueue
  <2> QED
    BY <1>1, <2>1
       DEF Enqueue, Inserted, PrepareInv, TypeOK, thread, runner, schedule,
           BroadcastMatchesRow, ThreadInv, Open, Outcome, Live, Jobs
<1>2. ASSUME NEW s \in Schedules, NEW j \in Jobs, RunSchedule(s, j) PROVE BroadcastMatchesRow'
  <2>1. Inserted(j)
    BY <1>2, InsertEffect DEF RunSchedule
  <2> QED
    BY <1>2, <2>1
       DEF RunSchedule, Inserted, PrepareInv, TypeOK, thread, runner, schedule,
           BroadcastMatchesRow, ThreadInv, Open, Outcome, Live, Jobs
<1>3. ASSUME NEW s \in Schedules, DeleteSchedule(s) PROVE BroadcastMatchesRow'
  BY <1>3
     DEF DeleteSchedule, PrepareInv, TypeOK, thread, runner, schedule,
         BroadcastMatchesRow, ThreadInv, Open, Outcome, Live, Jobs
<1>4. ASSUME NEW j \in Jobs, CancelQueued(j) PROVE BroadcastMatchesRow'
  BY <1>4
     DEF CancelQueued, FinishRun, PrepareInv, TypeOK, thread, runner, schedule,
         BroadcastMatchesRow, ThreadInv, Open, Outcome, Live, Jobs
<1>5. ASSUME NEW j \in Jobs, CancelRunning(j) PROVE BroadcastMatchesRow'
  BY <1>5
     DEF CancelRunning, PrepareInv, TypeOK, thread, runner, schedule,
         BroadcastMatchesRow, ThreadInv, Open, Outcome, Live, Jobs
<1>6. ASSUME NEW j \in Jobs, Hear(j) PROVE BroadcastMatchesRow'
  BY <1>6
     DEF Hear, PrepareInv, TypeOK, thread, runner, schedule,
         BroadcastMatchesRow, ThreadInv, Open, Outcome, Live, Jobs
<1>7. ASSUME NEW j \in Jobs, StopAtCheck(j) PROVE BroadcastMatchesRow'
  BY <1>7
     DEF StopAtCheck, End, PrepareInv, TypeOK, thread, runner, schedule,
         BroadcastMatchesRow, ThreadInv, Open, Outcome, Live, Jobs
<1>8. ASSUME NEW j \in Jobs, PassLastCheck(j) PROVE BroadcastMatchesRow'
  BY <1>8
     DEF PassLastCheck, PrepareInv, TypeOK, thread, runner, schedule,
         BroadcastMatchesRow, ThreadInv, Open, Outcome, Live, Jobs
<1>9. ASSUME NEW j \in Jobs, Complete(j) PROVE BroadcastMatchesRow'
  BY <1>9
     DEF Complete, End, PrepareInv, TypeOK, thread, runner, schedule,
         BroadcastMatchesRow, ThreadInv, Open, Outcome, Live, Jobs
<1>10. ASSUME NEW j \in Jobs, Fail(j) PROVE BroadcastMatchesRow'
  BY <1>10
     DEF Fail, End, PrepareInv, TypeOK, thread, runner, schedule,
         BroadcastMatchesRow, ThreadInv, Open, Outcome, Live, Jobs
<1>11. ASSUME NEW j \in Jobs, Die(j) PROVE BroadcastMatchesRow'
  BY <1>11
     DEF Die, PrepareInv, TypeOK, thread, runner, schedule,
         BroadcastMatchesRow, ThreadInv, Open, Outcome, Live, Jobs
<1>16. ASSUME NEW j \in Jobs, Straggle(j) PROVE BroadcastMatchesRow'
  BY <1>16
     DEF Straggle, PrepareInv, TypeOK, thread, runner, schedule,
         BroadcastMatchesRow, ThreadInv, Open, Outcome, Live, Jobs
<1>12. ASSUME NEW j \in Jobs, Settle(j) PROVE BroadcastMatchesRow'
  <2>1. Settled(j)
    BY <1>12, SettleEffect
  <2> QED
    BY <1>12, <2>1
       DEF Settled, PrepareInv, TypeOK, thread, runner, schedule,
           BroadcastMatchesRow, ThreadInv, Open, Outcome, Live, Jobs
<1>13. ASSUME NEW j \in Jobs, OnExit(j) PROVE BroadcastMatchesRow'
  BY <1>13
     DEF OnExit, PrepareInv, TypeOK, thread, runner, schedule,
         BroadcastMatchesRow, ThreadInv, Open, Outcome, Live, Jobs
<1>14. ASSUME Restart PROVE BroadcastMatchesRow'
  BY <1>14
     DEF Restart, PrepareInv, TypeOK, thread, runner, schedule,
         BroadcastMatchesRow, ThreadInv, Open, Outcome, Live, Jobs
<1>15. CASE UNCHANGED vars
  BY <1>15
     DEF vars, thread, runner, schedule, PrepareInv, TypeOK,
         BroadcastMatchesRow, ThreadInv, Open, Outcome, Live, Jobs
<1> QED
  BY <1>1, <1>2, <1>3, <1>4, <1>5, <1>6, <1>7, <1>8, <1>9, <1>10, <1>11, <1>12,
     <1>13, <1>14, <1>15, <1>16
     DEF Next, WorkerStep

LEMMA RunRowStep ==
    ASSUME PrepareInv, [Next]_vars
    PROVE  RunFollowsJob'
<1> USE PrepareAssumption
<1>1. ASSUME NEW j \in Jobs, Enqueue(j) PROVE RunFollowsJob'
  <2>1. Inserted(j)
    BY <1>1, InsertEffect DEF Enqueue
  <2> QED
    BY <1>1, <2>1
       DEF Enqueue, Inserted, PrepareInv, TypeOK, thread, runner, schedule,
           RunFollowsJob, OwnerInv, ThreadInv, Open, Outcome, Live, Jobs
<1>2. ASSUME NEW s \in Schedules, NEW j \in Jobs, RunSchedule(s, j) PROVE RunFollowsJob'
  <2>1. Inserted(j)
    BY <1>2, InsertEffect DEF RunSchedule
  <2> QED
    BY <1>2, <2>1
       DEF RunSchedule, Inserted, PrepareInv, TypeOK, thread, runner, schedule,
           RunFollowsJob, OwnerInv, ThreadInv, Open, Outcome, Live, Jobs
<1>3. ASSUME NEW s \in Schedules, DeleteSchedule(s) PROVE RunFollowsJob'
  BY <1>3
     DEF DeleteSchedule, PrepareInv, TypeOK, thread, runner, schedule,
         RunFollowsJob, OwnerInv, ThreadInv, Open, Outcome, Live, Jobs
<1>4. ASSUME NEW j \in Jobs, CancelQueued(j) PROVE RunFollowsJob'
  BY <1>4
     DEF CancelQueued, FinishRun, PrepareInv, TypeOK, thread, runner, schedule,
         RunFollowsJob, OwnerInv, ThreadInv, Open, Outcome, Live, Jobs
<1>5. ASSUME NEW j \in Jobs, CancelRunning(j) PROVE RunFollowsJob'
  BY <1>5
     DEF CancelRunning, PrepareInv, TypeOK, thread, runner, schedule,
         RunFollowsJob, OwnerInv, ThreadInv, Open, Outcome, Live, Jobs
<1>6. ASSUME NEW j \in Jobs, Hear(j) PROVE RunFollowsJob'
  BY <1>6
     DEF Hear, PrepareInv, TypeOK, thread, runner, schedule, RunFollowsJob,
         OwnerInv, ThreadInv, Open, Outcome, Live, Jobs
<1>7. ASSUME NEW j \in Jobs, StopAtCheck(j) PROVE RunFollowsJob'
  BY <1>7
     DEF StopAtCheck, End, PrepareInv, TypeOK, thread, runner, schedule,
         RunFollowsJob, OwnerInv, ThreadInv, Open, Outcome, Live, Jobs
<1>8. ASSUME NEW j \in Jobs, PassLastCheck(j) PROVE RunFollowsJob'
  BY <1>8
     DEF PassLastCheck, PrepareInv, TypeOK, thread, runner, schedule,
         RunFollowsJob, OwnerInv, ThreadInv, Open, Outcome, Live, Jobs
<1>9. ASSUME NEW j \in Jobs, Complete(j) PROVE RunFollowsJob'
  BY <1>9
     DEF Complete, End, PrepareInv, TypeOK, thread, runner, schedule,
         RunFollowsJob, OwnerInv, ThreadInv, Open, Outcome, Live, Jobs
<1>10. ASSUME NEW j \in Jobs, Fail(j) PROVE RunFollowsJob'
  BY <1>10
     DEF Fail, End, PrepareInv, TypeOK, thread, runner, schedule,
         RunFollowsJob, OwnerInv, ThreadInv, Open, Outcome, Live, Jobs
<1>11. ASSUME NEW j \in Jobs, Die(j) PROVE RunFollowsJob'
  BY <1>11
     DEF Die, PrepareInv, TypeOK, thread, runner, schedule, RunFollowsJob,
         OwnerInv, ThreadInv, Open, Outcome, Live, Jobs
<1>16. ASSUME NEW j \in Jobs, Straggle(j) PROVE RunFollowsJob'
  BY <1>16
     DEF Straggle, PrepareInv, TypeOK, thread, runner, schedule, RunFollowsJob,
         OwnerInv, ThreadInv, Open, Outcome, Live, Jobs
<1>12. ASSUME NEW j \in Jobs, Settle(j) PROVE RunFollowsJob'
  <2>1. Settled(j)
    BY <1>12, SettleEffect
  <2> QED
    BY <1>12, <2>1
       DEF Settled, PrepareInv, TypeOK, thread, runner, schedule,
           RunFollowsJob, OwnerInv, ThreadInv, Open, Outcome, Live, Jobs
<1>13. ASSUME NEW j \in Jobs, OnExit(j) PROVE RunFollowsJob'
  BY <1>13
     DEF OnExit, PrepareInv, TypeOK, thread, runner, schedule, RunFollowsJob,
         OwnerInv, ThreadInv, Open, Outcome, Live, Jobs
<1>14. ASSUME Restart PROVE RunFollowsJob'
  BY <1>14
     DEF Restart, PrepareInv, TypeOK, thread, runner, schedule, RunFollowsJob,
         OwnerInv, ThreadInv, Open, Outcome, Live, Jobs
<1>15. CASE UNCHANGED vars
  BY <1>15
     DEF vars, thread, runner, schedule, PrepareInv, TypeOK, RunFollowsJob,
         OwnerInv, ThreadInv, Open, Outcome, Live, Jobs
<1> QED
  BY <1>1, <1>2, <1>3, <1>4, <1>5, <1>6, <1>7, <1>8, <1>9, <1>10, <1>11, <1>12,
     <1>13, <1>14, <1>15, <1>16
     DEF Next, WorkerStep

LEMMA FinalStep ==
    ASSUME PrepareInv, [Next]_vars
    PROVE  \A i \in Jobs : row[i] \in Over => row'[i] = row[i]
<1>1. ASSUME NEW j \in Jobs, Enqueue(j) PROVE \A i \in Jobs : row[i] \in Over => row'[i] = row[i]
  <2>1. Inserted(j)
    BY <1>1, InsertEffect DEF Enqueue
  <2> QED
    BY <1>1, <2>1
       DEF Enqueue, Inserted, PrepareInv, TypeOK, thread, runner, schedule,
           ThreadInv, Open, Over, Live
<1>2. ASSUME NEW s \in Schedules, NEW j \in Jobs, RunSchedule(s, j)
      PROVE  \A i \in Jobs : row[i] \in Over => row'[i] = row[i]
  <2>1. Inserted(j)
    BY <1>2, InsertEffect DEF RunSchedule
  <2> QED
    BY <1>2, <2>1
       DEF RunSchedule, Inserted, PrepareInv, TypeOK, thread, runner, schedule,
           ThreadInv, Open, Over, Live
<1>3. ASSUME NEW s \in Schedules, DeleteSchedule(s)
      PROVE  \A i \in Jobs : row[i] \in Over => row'[i] = row[i]
  BY <1>3
     DEF DeleteSchedule, PrepareInv, TypeOK, thread, runner, schedule,
         ThreadInv, Open, Over, Live
<1>4. ASSUME NEW j \in Jobs, CancelQueued(j)
      PROVE  \A i \in Jobs : row[i] \in Over => row'[i] = row[i]
  BY <1>4
     DEF CancelQueued, FinishRun, PrepareInv, TypeOK, thread, runner, schedule,
         ThreadInv, Open, Over, Live
<1>5. ASSUME NEW j \in Jobs, CancelRunning(j)
      PROVE  \A i \in Jobs : row[i] \in Over => row'[i] = row[i]
  BY <1>5
     DEF CancelRunning, PrepareInv, TypeOK, thread, runner, schedule,
         ThreadInv, Open, Over, Live
<1>6. ASSUME NEW j \in Jobs, Hear(j) PROVE \A i \in Jobs : row[i] \in Over => row'[i] = row[i]
  BY <1>6
     DEF Hear, PrepareInv, TypeOK, thread, runner, schedule, ThreadInv, Open,
         Over, Live
<1>7. ASSUME NEW j \in Jobs, StopAtCheck(j)
      PROVE  \A i \in Jobs : row[i] \in Over => row'[i] = row[i]
  BY <1>7
     DEF StopAtCheck, End, PrepareInv, TypeOK, thread, runner, schedule,
         ThreadInv, Open, Over, Live
<1>8. ASSUME NEW j \in Jobs, PassLastCheck(j)
      PROVE  \A i \in Jobs : row[i] \in Over => row'[i] = row[i]
  BY <1>8
     DEF PassLastCheck, PrepareInv, TypeOK, thread, runner, schedule,
         ThreadInv, Open, Over, Live
<1>9. ASSUME NEW j \in Jobs, Complete(j) PROVE \A i \in Jobs : row[i] \in Over => row'[i] = row[i]
  BY <1>9
     DEF Complete, End, PrepareInv, TypeOK, thread, runner, schedule,
         ThreadInv, Open, Over, Live
<1>10. ASSUME NEW j \in Jobs, Fail(j) PROVE \A i \in Jobs : row[i] \in Over => row'[i] = row[i]
  BY <1>10
     DEF Fail, End, PrepareInv, TypeOK, thread, runner, schedule, ThreadInv,
         Open, Over, Live
<1>11. ASSUME NEW j \in Jobs, Die(j) PROVE \A i \in Jobs : row[i] \in Over => row'[i] = row[i]
  BY <1>11
     DEF Die, PrepareInv, TypeOK, thread, runner, schedule, ThreadInv, Open,
         Over, Live
<1>16. ASSUME NEW j \in Jobs, Straggle(j)
       PROVE  \A i \in Jobs : row[i] \in Over => row'[i] = row[i]
  BY <1>16
     DEF Straggle, PrepareInv, TypeOK, thread, runner, schedule, ThreadInv, Open,
         Over, Live
<1>12. ASSUME NEW j \in Jobs, Settle(j) PROVE \A i \in Jobs : row[i] \in Over => row'[i] = row[i]
  <2>1. Settled(j)
    BY <1>12, SettleEffect
  <2> QED
    BY <1>12, <2>1
       DEF Settled, PrepareInv, TypeOK, thread, runner, schedule, ThreadInv,
           Open, Over, Live
<1>13. ASSUME NEW j \in Jobs, OnExit(j) PROVE \A i \in Jobs : row[i] \in Over => row'[i] = row[i]
  BY <1>13
     DEF OnExit, PrepareInv, TypeOK, thread, runner, schedule, ThreadInv, Open,
         Over, Live
<1>14. ASSUME Restart PROVE \A i \in Jobs : row[i] \in Over => row'[i] = row[i]
  BY <1>14
     DEF Restart, PrepareInv, TypeOK, thread, runner, schedule, ThreadInv,
         Open, Over, Live
<1>15. CASE UNCHANGED vars
  BY <1>15
     DEF vars, thread, runner, schedule, PrepareInv, TypeOK, ThreadInv, Open,
         Over, Live
<1> QED
  BY <1>1, <1>2, <1>3, <1>4, <1>5, <1>6, <1>7, <1>8, <1>9, <1>10, <1>11, <1>12,
     <1>13, <1>14, <1>15, <1>16
     DEF Next, WorkerStep

LEMMA InvInit == Init => PrepareInv
<1> SUFFICES ASSUME Init PROVE PrepareInv
  OBVIOUS
<1>1. TypeOK
  <2>1. /\ row \in [Jobs -> Row]
        /\ worker \in [Jobs -> Worker]
        /\ asked \in [Jobs -> {"no", "sent", "heard"}]
        /\ mail \in [Jobs -> Mail]
        /\ told \in [Jobs -> {"none"} \cup Outcome]
        /\ owner \in [Jobs -> Schedules \cup {NoSchedule}]
        /\ run \in [Jobs -> {"none", "queued"} \cup Outcome]
    BY DEF Init, Row, Worker, Mail
  <2>2. cancelRequested \in BOOLEAN
    BY DEF Init
  <2>3. crashes \in 0 .. MaxCrashes /\ faults \in 0 .. MaxFaults
    BY PrepareAssumption DEF Init
  <2> QED
    BY <2>1, <2>2, <2>3 DEF Init, TypeOK
<1>2. NoIdleRunner /\ RunnerInv
  BY DEF Init, NoIdleRunner, RunnerInv
<1>3. ThreadInv
  BY PrepareAssumption DEF Init, ThreadInv, Live
<1>4. OwnerInv /\ NewestInv
  BY DEF Init, OwnerInv, NewestInv
<1>5. BroadcastMatchesRow /\ RunFollowsJob
  BY DEF Init, BroadcastMatchesRow, RunFollowsJob
<1> QED
  BY <1>1, <1>2, <1>3, <1>4, <1>5 DEF PrepareInv

LEMMA InvStep == PrepareInv /\ [Next]_vars => PrepareInv'
<1> SUFFICES ASSUME PrepareInv, [Next]_vars PROVE PrepareInv'
  OBVIOUS
<1> QED
  BY TypeStep, IdleStep, ThreadStep, RunnerStep, OwnerStep, NewestStep,
     BroadcastStep, RunRowStep DEF PrepareInv

LEMMA Invariance == Spec => []PrepareInv
<1> QED
  BY InvInit, InvStep, PTL DEF Spec

-----------------------------------------------------------------------------
(* The state is always well typed.                                         *)
THEOREM PrepareTyping == Spec => []TypeOK
<1>1. PrepareInv => TypeOK
  BY DEF PrepareInv
<1> QED
  BY <1>1, Invariance, PTL

(* Only the thread of the current job can still write an outcome           *)
(* (prepare/runner.js, runNext); an export at work in any other thread is  *)
(* left over from a job whose row says it failed (executor.js, mapPool).   *)
THEOREM OneThreadDecides == Spec => []SerialExecution
<1>1. PrepareInv => SerialExecution
  BY DEF PrepareInv, ThreadInv, SerialExecution
<1> QED
  BY <1>1, Invariance, PTL

(* No queued job is left behind by an idle runner.                         *)
THEOREM NoLostWakeUp == Spec => []NoIdleRunner
<1>1. PrepareInv => NoIdleRunner
  BY DEF PrepareInv
<1> QED
  BY <1>1, Invariance, PTL

(* The outcome in a row of prepare_jobs is written once, whichever thread  *)
(* writes it.                                                              *)
THEOREM WrittenOnce == Spec => OutcomeIsFinal
<1>1. PrepareInv /\ [Next]_vars =>
        [\A j \in Jobs : row[j] \in Over => row'[j] = row[j]]_vars
  BY FinalStep
<1> QED
  BY <1>1, Invariance, PTL DEF Spec, OutcomeIsFinal

(* What is broadcast about a job is what its row says.                     *)
THEOREM BroadcastIsTrue == Spec => []BroadcastMatchesRow
<1>1. PrepareInv => BroadcastMatchesRow
  BY DEF PrepareInv
<1> QED
  BY <1>1, Invariance, PTL

(* The run row of a schedule follows the job it names.                     *)
THEOREM RunRowFollows == Spec => []RunFollowsJob
<1>1. PrepareInv => RunFollowsJob
  BY DEF PrepareInv
<1> QED
  BY <1>1, Invariance, PTL

(* A schedule has at most one job waiting or executing.                    *)
THEOREM OneActiveRun == Spec => []OneActiveRunPerSchedule
<1>1. PrepareInv => OneActiveRunPerSchedule
  <2> SUFFICES ASSUME PrepareInv, NEW i \in Jobs, NEW j \in Jobs,
                      owner[i] = owner[j], run[i] = "queued", run[j] = "queued",
                      row[i] \in Open, row[j] \in Open
               PROVE  i = j
    BY DEF OneActiveRunPerSchedule
  <2>1. ~(i < j) /\ ~(j < i)
    BY DEF PrepareInv, NewestInv
  <2> QED
    BY <2>1 DEF Jobs
<1> QED
  BY <1>1, Invariance, PTL

(* As long as no worker has died a cancellation is sent to the worker of   *)
(* the job that is to be cancelled.                                        *)
THEOREM CancelIsSent == Spec => []CancelReachesWorker
<1>1. PrepareInv => CancelReachesWorker
  BY DEF PrepareInv, RunnerInv, CancelReachesWorker
<1> QED
  BY <1>1, Invariance, PTL
=============================================================================
