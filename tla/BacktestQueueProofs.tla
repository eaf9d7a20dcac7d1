------------------------- MODULE BacktestQueueProofs -------------------------
(***************************************************************************)
(* Theorems about BacktestQueue, for any number of runs, slots, crashes    *)
(* and spawn failures.                                                     *)
(***************************************************************************)
EXTENDS BacktestQueue, FiniteSetTheorems, WellFoundedInduction, TLAPS

-----------------------------------------------------------------------------
(* Sets of runs.                                                           *)

LEMMA FiniteRuns ==
    ASSUME NEW S \in SUBSET Runs
    PROVE  IsFiniteSet(S) /\ Cardinality(S) \in Nat
<1>1. IsFiniteSet(Runs)
  BY QueueAssumption, FS_Interval DEF Runs
<1>2. IsFiniteSet(S)
  BY <1>1, FS_Subset
<1> QED
  BY <1>2, FS_CardinalityType

(* A nonempty set of runs has a newest one.                                *)
LEMMA NewestRun ==
    ASSUME NEW S \in SUBSET Runs, S # {}
    PROVE  \E m \in S : \A r \in S : r <= m
<1> DEFINE Ages == {n \in Nat : \E r \in S : n = MaxRuns - r}
<1>1. Ages # {}
  <2>1. PICK r \in S : TRUE
    OBVIOUS
  <2>2. MaxRuns - r \in Nat
    BY QueueAssumption DEF Runs
  <2> QED
    BY <2>2
<1>2. PICK n \in Ages : \A k \in Ages : ~(<<k, n>> \in OpToRel(<, Nat))
  <2>1. Ages \in SUBSET Nat
    OBVIOUS
  <2> HIDE DEF Ages
  <2> QED
    BY <1>1, <2>1, WFMin, NatLessThanWellFounded
<1>3. PICK m \in S : n = MaxRuns - m
  OBVIOUS
<1>4. ASSUME NEW r \in S PROVE r <= m
  <2>1. MaxRuns - r \in Ages
    BY QueueAssumption DEF Runs
  <2>2. ~(MaxRuns - r < n)
    BY <1>2, <2>1 DEF OpToRel
  <2> QED
    BY <1>3, <2>2, QueueAssumption DEF Runs
<1> QED
  BY <1>4

LEMMA OneMore ==
    ASSUME NEW S, IsFiniteSet(S), NEW x
    PROVE  /\ IsFiniteSet(S \cup {x})
           /\ Cardinality(S \cup {x}) \in Nat
           /\ Cardinality(S \cup {x}) <= Cardinality(S) + 1
<1>1. IsFiniteSet(S \cup {x})
  BY FS_AddElement
<1>2. Cardinality(S \cup {x}) = IF x \in S THEN Cardinality(S) ELSE Cardinality(S) + 1
  BY FS_AddElement
<1>3. Cardinality(S) \in Nat
  BY FS_CardinalityType
<1> QED
  BY <1>1, <1>2, <1>3

(* A drain never starts more runs than there are free slots.               *)
LEMMA BatchFits ==
    ASSUME NEW queue \in SUBSET Runs, NEW free \in Nat
    PROVE  Cardinality(Batch(queue, free)) <= free
<1> DEFINE B == Batch(queue, free)
<1>1. B \in SUBSET Runs
  BY DEF Batch
<1>2. CASE B = {}
  BY <1>2, FS_EmptySet
<1>3. CASE B # {}
  <2>1. PICK m \in B : \A r \in B : r <= m
    <3> HIDE DEF B
    <3> QED
      BY <1>1, <1>3, NewestRun
  <2> DEFINE Before == {q \in queue : q < m}
  <2>2. Cardinality(Before) < free
    BY <2>1 DEF Batch
  <2>3. IsFiniteSet(Before) /\ Cardinality(Before) \in Nat
    BY FiniteRuns
  <2>4. B \in SUBSET (Before \cup {m})
    <3>1. ASSUME NEW r \in B, r # m PROVE r < m
      BY <2>1, <3>1, QueueAssumption DEF Batch, Runs
    <3>2. \A r \in B : r \in queue
      BY DEF Batch
    <3> QED
      BY <3>1, <3>2
  <2> HIDE DEF Before, B
  <2>5. /\ IsFiniteSet(Before \cup {m})
        /\ Cardinality(Before \cup {m}) \in Nat
        /\ Cardinality(Before \cup {m}) <= Cardinality(Before) + 1
    BY <2>3, OneMore
  <2>6. Cardinality(B) <= Cardinality(Before \cup {m})
    BY <2>4, <2>5, FS_Subset
  <2>7. Cardinality(B) \in Nat
    BY <1>1, FiniteRuns
  <2> QED
    BY <2>2, <2>3, <2>5, <2>6, <2>7 DEF B
<1> QED
  BY <1>2, <1>3

LEMMA UnionFits ==
    ASSUME NEW S \in SUBSET Runs, NEW T \in SUBSET Runs
    PROVE  Cardinality(S \cup T) <= Cardinality(S) + Cardinality(T)
<1>1. IsFiniteSet(S) /\ IsFiniteSet(T) /\ IsFiniteSet(S \cap T)
  BY FiniteRuns
<1>2. Cardinality(S) \in Nat /\ Cardinality(T) \in Nat /\ Cardinality(S \cap T) \in Nat
  BY FiniteRuns
<1>3. Cardinality(S \cup T) = Cardinality(S) + Cardinality(T) - Cardinality(S \cap T)
  BY <1>1, FS_Union
<1> QED
  BY <1>2, <1>3

-----------------------------------------------------------------------------
(* What a drain keeps.                                                     *)

LEMMA DrainType ==
    ASSUME TypeOK,
           NEW st \in [Runs -> Status], NEW dp \in [Runs -> Jobs \cup {NoJob}],
           NEW ch \in [Runs -> Child], NEW act \in SUBSET Runs,
           NEW wt \in [Runs -> {"none", "waiting", "settled"}],
           NEW broken \in Runs \cup {NoRun},
           Drain(st, dp, ch, act, wt, broken)
    PROVE  /\ status' \in [Runs -> Status]
           /\ dep' \in [Runs -> Jobs \cup {NoJob}]
           /\ child' \in [Runs -> Child]
           /\ active' \subseteq Runs
           /\ owned' \subseteq Runs
           /\ waiter' \in [Runs -> {"none", "waiting", "settled"}]
           /\ faults' \in 0 .. MaxFaults
<1> DEFINE batch == Batch(Startable(st, dp), MaxConcurrent - Cardinality(act))
           begun == {r \in batch : broken = NoRun \/ r < broken}
<1>1. begun \subseteq Runs
  BY DEF Batch, Startable
<1> HIDE DEF batch
<1>2. PICK unborn \in SUBSET begun :
        /\ broken # NoRun \/ unborn # {} => faults < MaxFaults
        /\ faults' = IF broken # NoRun \/ unborn # {} THEN faults + 1 ELSE faults
        /\ status' = [r \in Runs |->
                CASE r \in unborn -> "failed_runtime"
                  [] r \in (begun \ unborn) \cup {broken} -> "running"
                  [] OTHER -> st[r]]
        /\ child' = [r \in Runs |->
                CASE r \in unborn -> "gone"
                  [] r \in begun \ unborn -> "working"
                  [] OTHER -> ch[r]]
        /\ active' = act \cup (begun \ unborn)
        /\ waiter' = [r \in Runs |->
                IF r \in unborn /\ wt[r] = "waiting" THEN "settled" ELSE wt[r]]
  BY DEF Drain, batch
<1>3. owned' = owned \cup begun /\ dep' = dp
  BY DEF Drain, batch
<1> HIDE DEF begun
<1>4. status' \in [Runs -> Status]
  BY <1>2 DEF Status, Finished
<1>5. child' \in [Runs -> Child]
  BY <1>2 DEF Child
<1>6. faults' \in 0 .. MaxFaults
  BY <1>2, QueueAssumption DEF TypeOK
<1>7. waiter' \in [Runs -> {"none", "waiting", "settled"}]
  BY <1>2
<1> QED
  BY <1>1, <1>2, <1>3, <1>4, <1>5, <1>6, <1>7 DEF TypeOK

LEMMA DrainStates ==
    ASSUME NEW st \in [Runs -> Status], NEW dp, NEW ch \in [Runs -> Child],
           NEW act \in SUBSET Runs, NEW wt, NEW broken \in Runs \cup {NoRun},
           Drain(st, dp, ch, act, wt, broken)
    PROVE  \A r \in Runs :
            /\ st[r] # "queued" => status'[r] = st[r] /\ child'[r] = ch[r]
            /\ status'[r] # st[r] => status'[r] \in {"running", "failed_runtime"}
            /\ child'[r] # ch[r] => child'[r] \in {"working", "gone"}
            /\ child'[r] # ch[r] /\ child'[r] = "working" => status'[r] = "running"
<1> DEFINE batch == Batch(Startable(st, dp), MaxConcurrent - Cardinality(act))
           begun == {r \in batch : broken = NoRun \/ r < broken}
<1>1. \A r \in batch : r \in Runs /\ st[r] = "queued"
  BY DEF Batch, Startable
<1>2. broken = NoRun \/ broken \in batch
  BY DEF Drain
<1>3. NoRun \notin Runs
  BY QueueAssumption DEF NoRun, Runs
<1> HIDE DEF batch
<1>4. PICK unborn \in SUBSET begun :
        /\ status' = [r \in Runs |->
                CASE r \in unborn -> "failed_runtime"
                  [] r \in (begun \ unborn) \cup {broken} -> "running"
                  [] OTHER -> st[r]]
        /\ child' = [r \in Runs |->
                CASE r \in unborn -> "gone"
                  [] r \in begun \ unborn -> "working"
                  [] OTHER -> ch[r]]
  BY DEF Drain, batch
<1>5. \A r \in begun : r \in batch
  OBVIOUS
<1> HIDE DEF begun
<1>6. TAKE r \in Runs
<1>7. CASE r \in unborn
  BY <1>1, <1>4, <1>5, <1>7
<1>8. CASE r \in begun \ unborn
  BY <1>1, <1>4, <1>5, <1>8
<1>9. CASE r \notin begun /\ r = broken
  BY <1>1, <1>2, <1>3, <1>4, <1>9
<1>10. CASE r \notin begun /\ r # broken
  BY <1>4, <1>10
<1> QED
  BY <1>7, <1>8, <1>9, <1>10

-----------------------------------------------------------------------------
(* Types.                                                                  *)

LEMMA TypeInit == Init => TypeOK
<1> SUFFICES ASSUME Init PROVE TypeOK
  OBVIOUS
<1> QED
  BY QueueAssumption DEF Init, TypeOK, Status, Finished, Child

LEMMA TypeStep == TypeOK /\ [Next]_vars => TypeOK'
<1> SUFFICES ASSUME TypeOK, [Next]_vars PROVE TypeOK'
  OBVIOUS
<1> USE DEF TypeOK
<1>1. ASSUME NEW r \in Runs, Enqueue(r) PROVE TypeOK'
  <2>1. PICK d \in Jobs \cup {NoJob}, wait \in BOOLEAN, broken \in Runs \cup {NoRun} :
          Drain([status EXCEPT ![r] = "queued"], [dep EXCEPT ![r] = d], child, active,
                IF wait /\ broken = NoRun THEN [waiter EXCEPT ![r] = "waiting"] ELSE waiter,
                broken)
    BY <1>1 DEF Enqueue
  <2>2. [status EXCEPT ![r] = "queued"] \in [Runs -> Status]
    BY DEF Status
  <2>3. (IF wait /\ broken = NoRun THEN [waiter EXCEPT ![r] = "waiting"] ELSE waiter)
            \in [Runs -> {"none", "waiting", "settled"}]
    OBVIOUS
  <2>4. [dep EXCEPT ![r] = d] \in [Runs -> Jobs \cup {NoJob}]
    OBVIOUS
  <2> QED
    BY <1>1, <2>1, <2>2, <2>3, <2>4, DrainType DEF Enqueue
<1>2. ASSUME NEW r \in Runs, Cancel(r) PROVE TypeOK'
  BY <1>2 DEF Cancel, outside, Status
<1>3. ASSUME NEW r \in Runs, Delete(r) PROVE TypeOK'
  BY <1>3 DEF Delete, queueVars, outside, Status
<1>4. ASSUME NEW r \in Runs, OnExit(r) PROVE TypeOK'
  <2>1. PICK broken \in Runs \cup {NoRun} :
          /\ Drain([status EXCEPT ![r] = IF FailedByExit(r) THEN "failed_runtime" ELSE @],
                   dep, [child EXCEPT ![r] = "gone"], active \ {r},
                   [waiter EXCEPT ![r] = IF AnsweredByExit(r) THEN "settled" ELSE @],
                   broken)
          /\ up' = (broken = NoRun)
    BY <1>4 DEF OnExit
  <2>2. [status EXCEPT ![r] = IF FailedByExit(r) THEN "failed_runtime" ELSE @]
            \in [Runs -> Status]
    BY DEF Status, Finished
  <2>3. [child EXCEPT ![r] = "gone"] \in [Runs -> Child]
    BY DEF Child
  <2>4. [waiter EXCEPT ![r] = IF AnsweredByExit(r) THEN "settled" ELSE @]
            \in [Runs -> {"none", "waiting", "settled"}]
    OBVIOUS
  <2>5. active \ {r} \in SUBSET Runs
    OBVIOUS
  <2>6. /\ status' \in [Runs -> Status]
        /\ dep' \in [Runs -> Jobs \cup {NoJob}]
        /\ child' \in [Runs -> Child]
        /\ active' \subseteq Runs
        /\ owned' \subseteq Runs
        /\ waiter' \in [Runs -> {"none", "waiting", "settled"}]
        /\ faults' \in 0 .. MaxFaults
    BY <2>1, <2>2, <2>3, <2>4, <2>5, DrainType
  <2>7. up' \in BOOLEAN
    BY <2>1
  <2> QED
    BY <1>4, <2>6, <2>7 DEF OnExit
<1>5. ASSUME NEW j \in Jobs, JobCompleted(j) PROVE TypeOK'
  <2> DEFINE waiting == {r \in Runs : status[r] = "queued" /\ dep[r] = j}
             dp == [r \in Runs |-> IF r \in waiting THEN NoJob ELSE dep[r]]
  <2>1. CASE UNCHANGED <<rowVars, child, queueVars, faults>>
    BY <1>5, <2>1 DEF JobCompleted, rowVars, queueVars
  <2>2. CASE \E broken \in Runs \cup {NoRun} :
                Drain(status, dp, child, active, waiter, broken)
    <3>1. dp \in [Runs -> Jobs \cup {NoJob}]
      OBVIOUS
    <3> HIDE DEF dp
    <3> QED
      BY <1>5, <2>2, <3>1, DrainType DEF JobCompleted
  <2> QED
    BY <1>5, <2>1, <2>2 DEF JobCompleted
<1>6. ASSUME NEW j \in Jobs, JobFailed(j) PROVE TypeOK'
  BY <1>6 DEF JobFailed, rowVars, queueVars
<1>7. ASSUME NEW r \in Runs, Finish(r) PROVE TypeOK'
  BY <1>7 DEF Finish, rowVars, queueVars, outside, Child
<1>8. ASSUME NEW r \in Runs, Save(r) PROVE TypeOK'
  BY <1>8 DEF Save, rowVars, queueVars, outside, Child, Status
<1>9. ASSUME NEW r \in Runs, Die(r) PROVE TypeOK'
  BY <1>9 DEF Die, rowVars, queueVars, outside, Child
<1>10. CASE Crash
  <2>1. crashes' \in 0 .. MaxCrashes
    BY <1>10, QueueAssumption DEF Crash
  <2> QED
    BY <1>10, <2>1 DEF Crash, rowVars, queueVars
<1>11. CASE Boot
  BY <1>11 DEF Boot, rowVars
<1>12. CASE UNCHANGED vars
  BY <1>12 DEF vars
<1> QED
  BY <1>1, <1>2, <1>3, <1>4, <1>5, <1>6, <1>7, <1>8, <1>9, <1>10, <1>11, <1>12
     DEF Next, Handle, ChildStep

(* Every row, child, slot and promise keeps its type through drains that   *)
(* start several children, fail in the middle or are cut off by a crash.   *)
THEOREM QueueTyping == Spec => []TypeOK
<1> QED
  BY TypeInit, TypeStep, PTL DEF Spec

-----------------------------------------------------------------------------
(* Finished runs.                                                          *)

(* A handler that drains lets finished rows be, touches neither a child    *)
(* about to save or through nor its row, and starts none without a row.    *)
LEMMA DrainSpares ==
    ASSUME TypeOK, ChildInv,
           \/ \E r \in Runs : Enqueue(r) \/ OnExit(r)
           \/ \E j \in Jobs : JobCompleted(j)
    PROVE  \A s \in Runs :
            /\ status[s] \in Finished => status'[s] = status[s]
            /\ child'[s] \in {"saving", "done"} =>
                    child[s] = child'[s] /\ status'[s] = status[s]
            /\ child'[s] = "working" => status'[s] \notin {"none", "queued"}
<1> USE DEF TypeOK
<1>1. ASSUME NEW r \in Runs, Enqueue(r), NEW s \in Runs
      PROVE  /\ status[s] \in Finished => status'[s] = status[s]
             /\ child'[s] \in {"saving", "done"} =>
                    child[s] = child'[s] /\ status'[s] = status[s]
             /\ child'[s] = "working" => status'[s] \notin {"none", "queued"}
  <2> DEFINE st == [status EXCEPT ![r] = "queued"]
  <2>1. PICK d \in Jobs \cup {NoJob}, wait \in BOOLEAN, broken \in Runs \cup {NoRun} :
          Drain(st, [dep EXCEPT ![r] = d], child, active,
                IF wait /\ broken = NoRun THEN [waiter EXCEPT ![r] = "waiting"] ELSE waiter,
                broken)
    BY <1>1 DEF Enqueue
  <2>2. st \in [Runs -> Status]
    BY DEF Status
  <2>3. st[s] # status[s] => status[s] = "none" /\ st[s] = "queued"
    BY <1>1 DEF Enqueue
  <2> HIDE DEF st
  <2>4. /\ st[s] # "queued" => status'[s] = st[s] /\ child'[s] = child[s]
        /\ child'[s] # child[s] => child'[s] \in {"working", "gone"}
        /\ child'[s] # child[s] /\ child'[s] = "working" => status'[s] = "running"
    BY <2>1, <2>2, DrainStates
  <2> QED
    BY <1>1, <2>3, <2>4 DEF Finished, ChildInv
<1>2. ASSUME NEW r \in Runs, OnExit(r), NEW s \in Runs
      PROVE  /\ status[s] \in Finished => status'[s] = status[s]
             /\ child'[s] \in {"saving", "done"} =>
                    child[s] = child'[s] /\ status'[s] = status[s]
             /\ child'[s] = "working" => status'[s] \notin {"none", "queued"}
  <2> DEFINE st == [status EXCEPT ![r] = IF FailedByExit(r) THEN "failed_runtime" ELSE @]
             ch == [child EXCEPT ![r] = "gone"]
  <2>1. PICK broken \in Runs \cup {NoRun} :
          Drain(st, dep, ch, active \ {r},
                [waiter EXCEPT ![r] = IF AnsweredByExit(r) THEN "settled" ELSE @],
                broken)
    BY <1>2 DEF OnExit
  <2>2. st \in [Runs -> Status] /\ ch \in [Runs -> Child]
    BY DEF Status, Finished, Child
  <2>3. /\ st[s] # status[s] => s = r /\ status[s] = "running" /\ st[s] = "failed_runtime"
        /\ ch[s] # child[s] => s = r
        /\ ch[r] = "gone"
    BY DEF FailedByExit
  <2> HIDE DEF st, ch
  <2>4. /\ st[s] # "queued" => status'[s] = st[s] /\ child'[s] = ch[s]
        /\ child'[s] # ch[s] => child'[s] \in {"working", "gone"}
        /\ child'[s] # ch[s] /\ child'[s] = "working" => status'[s] = "running"
    BY <2>1, <2>2, DrainStates
  <2> QED
    BY <1>2, <2>3, <2>4 DEF Finished, ChildInv
<1>3. ASSUME NEW j \in Jobs, JobCompleted(j), NEW s \in Runs
      PROVE  /\ status[s] \in Finished => status'[s] = status[s]
             /\ child'[s] \in {"saving", "done"} =>
                    child[s] = child'[s] /\ status'[s] = status[s]
             /\ child'[s] = "working" => status'[s] \notin {"none", "queued"}
  <2> DEFINE waiting == {r \in Runs : status[r] = "queued" /\ dep[r] = j}
             dp == [r \in Runs |-> IF r \in waiting THEN NoJob ELSE dep[r]]
  <2>1. CASE UNCHANGED <<rowVars, child, queueVars, faults>>
    BY <2>1 DEF rowVars, ChildInv
  <2>2. CASE \E broken \in Runs \cup {NoRun} :
                Drain(status, dp, child, active, waiter, broken)
    <3> HIDE DEF dp
    <3>1. /\ status[s] # "queued" => status'[s] = status[s] /\ child'[s] = child[s]
          /\ child'[s] # child[s] => child'[s] \in {"working", "gone"}
          /\ child'[s] # child[s] /\ child'[s] = "working" => status'[s] = "running"
      BY <2>2, DrainStates
    <3> QED
      BY <3>1 DEF Finished, ChildInv
  <2> QED
    BY <1>3, <2>1, <2>2 DEF JobCompleted
<1> QED
  BY <1>1, <1>2, <1>3

LEMMA ChildInvStep == TypeOK /\ ChildInv /\ [Next]_vars => ChildInv'
<1> SUFFICES ASSUME TypeOK, ChildInv, [Next]_vars, NEW s \in Runs
             PROVE  /\ child'[s] = "working" => status'[s] \notin {"none", "queued"}
                    /\ child'[s] = "saving" => status'[s] \in {"running", "cancelled", "deleted"}
                    /\ child'[s] = "done" =>
                            status'[s] \in Finished \cup {"cancelled", "deleted"}
  BY DEF ChildInv
<1> DEFINE Goal == /\ child'[s] = "working" => status'[s] \notin {"none", "queued"}
                   /\ child'[s] = "saving" =>
                            status'[s] \in {"running", "cancelled", "deleted"}
                   /\ child'[s] = "done" =>
                            status'[s] \in Finished \cup {"cancelled", "deleted"}
<1> USE DEF TypeOK, ChildInv
<1>1. CASE \/ \E r \in Runs : Enqueue(r) \/ OnExit(r)
           \/ \E j \in Jobs : JobCompleted(j)
  BY <1>1, DrainSpares
<1>2. ASSUME NEW r \in Runs, Cancel(r) \/ Delete(r)
      PROVE  Goal
  BY <1>2 DEF Cancel, Delete, Finished
<1>3. ASSUME NEW r \in Runs, Finish(r)
      PROVE  Goal
  BY <1>3 DEF Finish, rowVars, Finished, Status
<1>4. ASSUME NEW r \in Runs, Save(r) \/ Die(r)
      PROVE  Goal
  BY <1>4 DEF Save, Die, rowVars, Finished
<1>5. CASE UNCHANGED <<status, child>>
  BY <1>5
<1> QED
  BY <1>1, <1>2, <1>3, <1>4, <1>5
     DEF Next, Handle, ChildStep, JobFailed, Crash, Boot, rowVars, vars

(* A finished run keeps its outcome until it is deleted, whatever exit     *)
(* events, children of earlier servers and cancellations arrive late.      *)
THEOREM FinishedForGood == Spec => FinishedStaysFinished
<1>1. Init => ChildInv
  BY DEF Init, ChildInv
<1>2. TypeOK /\ ChildInv /\ [Next]_vars =>
        [\A r \in Runs : status[r] \in Finished =>
            status'[r] \in {status[r], "deleted"}]_vars
  <2> SUFFICES ASSUME TypeOK, ChildInv, [Next]_vars, NEW s \in Runs, status[s] \in Finished
               PROVE  status'[s] \in {status[s], "deleted"}
    OBVIOUS
  <2> USE DEF TypeOK, ChildInv
  <2>1. CASE \/ \E r \in Runs : Enqueue(r) \/ OnExit(r)
             \/ \E j \in Jobs : JobCompleted(j)
    BY <2>1, DrainSpares
  <2>2. ASSUME NEW r \in Runs, Cancel(r) \/ Delete(r)
        PROVE  status'[s] \in {status[s], "deleted"}
    BY <2>2 DEF Cancel, Delete, Finished
  <2>3. ASSUME NEW r \in Runs, ChildStep(r)
        PROVE  status'[s] \in {status[s], "deleted"}
    BY <2>3 DEF ChildStep, Finish, Save, Die, rowVars, Finished
  <2>4. CASE UNCHANGED status
    BY <2>4
  <2> QED
    BY <2>1, <2>2, <2>3, <2>4
       DEF Next, Handle, JobFailed, Crash, Boot, rowVars, vars
<1> QED
  BY <1>1, <1>2, TypeInit, TypeStep, ChildInvStep, PTL DEF Spec, FinishedStaysFinished

-----------------------------------------------------------------------------
(* Slots.                                                                  *)

LEMMA DrainSlots ==
    ASSUME NEW st \in [Runs -> Status], NEW dp, NEW ch \in [Runs -> Child],
           NEW act \in SUBSET Runs, NEW wt, NEW broken \in Runs \cup {NoRun},
           owned \in SUBSET Runs,
           \A r \in owned : st[r] \notin {"none", "queued"},
           \A r \in owned : st[r] = "running" => r \in act,
           act \subseteq {r \in owned : ch[r] \in {"working", "saving", "done", "dead"}},
           Cardinality(act) <= MaxConcurrent,
           Drain(st, dp, ch, act, wt, broken)
    PROVE  SlotInv'
<1> DEFINE queue == Startable(st, dp)
           free == MaxConcurrent - Cardinality(act)
           batch == Batch(queue, free)
           begun == {r \in batch : broken = NoRun \/ r < broken}
<1>1. queue \in SUBSET Runs /\ \A r \in queue : st[r] = "queued"
  BY DEF Startable
<1>2. Cardinality(act) \in Nat
  BY FiniteRuns
<1>3. free \in Nat
  BY <1>2, QueueAssumption
<1>4. batch \in SUBSET queue
  BY DEF Batch
<1>5. Cardinality(batch) <= free
  <2> HIDE DEF queue, free
  <2> QED
    BY <1>1, <1>3, BatchFits
<1>6. begun \in SUBSET batch /\ (broken # NoRun => broken \notin begun)
  <2>1. \A r \in Runs : ~(r < r)
    BY QueueAssumption DEF Runs
  <2>2. NoRun \notin Runs
    BY QueueAssumption DEF NoRun, Runs
  <2> QED
    BY <2>1, <2>2
<1>7. broken = NoRun \/ broken \in batch
  BY DEF Drain
<1> HIDE DEF queue, free, batch
<1>8. PICK unborn \in SUBSET begun :
        /\ status' = [r \in Runs |->
                CASE r \in unborn -> "failed_runtime"
                  [] r \in (begun \ unborn) \cup {broken} -> "running"
                  [] OTHER -> st[r]]
        /\ child' = [r \in Runs |->
                CASE r \in unborn -> "gone"
                  [] r \in begun \ unborn -> "working"
                  [] OTHER -> ch[r]]
        /\ active' = act \cup (begun \ unborn)
  BY DEF Drain, batch, free, queue
<1>9. owned' = owned \cup begun
  BY DEF Drain, batch, free, queue
<1> HIDE DEF begun
<1>10. \A r \in Runs : r \in begun => st[r] = "queued" /\ r \notin owned
  BY <1>1, <1>4, <1>6
<1>11. broken \notin owned /\ broken \notin begun
  <2>1. NoRun \notin Runs
    BY QueueAssumption DEF NoRun, Runs
  <2> QED
    BY <2>1, <1>1, <1>4, <1>6, <1>7
<1>12. begun \in SUBSET Runs
  BY <1>1, <1>4, <1>6
<1>13. ASSUME NEW r \in owned'
       PROVE  /\ status'[r] \notin {"none", "queued"}
              /\ status'[r] = "running" => r \in active'
  <2>1. CASE r \in owned
    <3>1. status'[r] = st[r]
      BY <1>8, <1>10, <1>11, <2>1
    <3> QED
      BY <1>8, <2>1, <3>1
  <2>2. CASE r \in unborn
    <3>1. r \in Runs
      BY <1>12, <2>2
    <3>2. status'[r] = "failed_runtime"
      BY <1>8, <1>11, <2>2, <3>1
    <3> QED
      BY <3>2
  <2>3. CASE r \in begun \ unborn
    BY <1>8, <1>12, <2>3
  <2> QED
    BY <1>9, <2>1, <2>2, <2>3
<1>14. ASSUME NEW r \in active'
       PROVE  r \in owned' /\ child'[r] \in {"working", "saving", "done", "dead"}
  <2>1. CASE r \in act
    <3>1. r \in owned /\ r \notin begun
      BY <1>10, <2>1
    <3>2. child'[r] = ch[r]
      BY <1>8, <2>1, <3>1
    <3> QED
      BY <1>9, <2>1, <3>1, <3>2
  <2>2. CASE r \in begun \ unborn
    BY <1>8, <1>9, <1>12, <2>2
  <2> QED
    BY <1>8, <2>1, <2>2
<1>15. Cardinality(active') <= MaxConcurrent
  <2> DEFINE new == begun \ unborn
  <2>1. new \in SUBSET Runs /\ batch \in SUBSET Runs
    BY <1>1, <1>4, <1>12
  <2>2. Cardinality(new) <= Cardinality(batch)
    <3>1. new \in SUBSET batch /\ IsFiniteSet(batch)
      BY <1>6, <2>1, FiniteRuns
    <3> HIDE DEF new
    <3> QED
      BY <3>1, FS_Subset
  <2>3. Cardinality(new) \in Nat /\ Cardinality(batch) \in Nat
    BY <2>1, FiniteRuns
  <2>4. Cardinality(act \cup new) <= Cardinality(act) + Cardinality(new)
    BY <2>1, UnionFits
  <2>5. Cardinality(act \cup new) \in Nat
    <3> HIDE DEF new
    <3>1. act \cup new \in SUBSET Runs
      BY <2>1
    <3> QED
      BY <3>1, FiniteRuns
  <2>6. active' = act \cup new
    BY <1>8
  <2> HIDE DEF new
  <2>7. Cardinality(act) + Cardinality(new) <= MaxConcurrent
    BY <1>2, <1>5, <2>2, <2>3, QueueAssumption DEF free
  <2> QED
    BY <1>2, <2>3, <2>4, <2>5, <2>6, <2>7, QueueAssumption
<1> QED
  BY <1>13, <1>14, <1>15 DEF SlotInv, Uncollected

LEMMA SlotInit == Init => SlotInv
  BY FS_EmptySet, QueueAssumption DEF Init, SlotInv, Uncollected

LEMMA SlotStep == TypeOK /\ ChildInv /\ SlotInv /\ [Next]_vars => SlotInv'
<1> SUFFICES ASSUME TypeOK, ChildInv, SlotInv, [Next]_vars PROVE SlotInv'
  OBVIOUS
<1> DEFINE Live == {"working", "saving", "done", "dead"}
<1>0. /\ \A r \in owned : status[r] \notin {"none", "queued"}
      /\ \A r \in owned : status[r] = "running" => r \in active
      /\ active \subseteq {r \in owned : child[r] \in Live}
      /\ Cardinality(active) <= MaxConcurrent
      /\ owned \in SUBSET Runs /\ active \in SUBSET Runs
  BY DEF SlotInv, Uncollected, TypeOK
<1>1. ASSUME NEW r \in Runs, Enqueue(r) PROVE SlotInv'
  <2> DEFINE st == [status EXCEPT ![r] = "queued"]
  <2>1. PICK d \in Jobs \cup {NoJob}, wait \in BOOLEAN, broken \in Runs \cup {NoRun} :
          Drain(st, [dep EXCEPT ![r] = d], child, active,
                IF wait /\ broken = NoRun THEN [waiter EXCEPT ![r] = "waiting"] ELSE waiter,
                broken)
    BY <1>1 DEF Enqueue
  <2>2. st \in [Runs -> Status] /\ child \in [Runs -> Child]
    BY DEF TypeOK, Status
  <2>3. r \notin owned
    BY <1>0, <1>1 DEF Enqueue
  <2>4. \A s \in owned : st[s] = status[s]
    BY <1>0, <2>3 DEF TypeOK
  <2> HIDE DEF st
  <2> QED
    BY <1>0, <2>1, <2>2, <2>4, DrainSlots
<1>2. ASSUME NEW r \in Runs, OnExit(r) PROVE SlotInv'
  <2> DEFINE st == [status EXCEPT ![r] = IF FailedByExit(r) THEN "failed_runtime" ELSE @]
             ch == [child EXCEPT ![r] = "gone"]
             act == active \ {r}
  <2>1. PICK broken \in Runs \cup {NoRun} :
          Drain(st, dep, ch, act,
                [waiter EXCEPT ![r] = IF AnsweredByExit(r) THEN "settled" ELSE @],
                broken)
    BY <1>2 DEF OnExit
  <2>2. st \in [Runs -> Status] /\ ch \in [Runs -> Child] /\ act \in SUBSET Runs
    BY <1>0 DEF TypeOK, Status, Finished, Child
  <2>3. \A s \in owned : st[s] \notin {"none", "queued"}
    BY <1>0 DEF TypeOK
  <2>4. ASSUME NEW s \in owned, st[s] = "running" PROVE s \in act
    <3>1. s \in Runs /\ s \in active
      BY <1>0, <2>4 DEF TypeOK
    <3>2. CASE s = r
      <4>1. status[r] = "running" /\ ~FailedByExit(r)
        BY <2>4, <3>2 DEF TypeOK
      <4>2. child[r] = "done"
        BY <1>2, <4>1 DEF FailedByExit, OnExit
      <4> QED
        BY <4>1, <4>2 DEF ChildInv, Finished
    <3> QED
      BY <3>1, <3>2
  <2>5. act \subseteq {s \in owned : ch[s] \in Live}
    BY <1>0 DEF TypeOK
  <2>6. Cardinality(act) <= MaxConcurrent
    <3>1. Cardinality(act) <= Cardinality(active)
      BY <1>0, FiniteRuns, FS_Subset
    <3>2. Cardinality(act) \in Nat /\ Cardinality(active) \in Nat
      BY <1>0, <2>2, FiniteRuns
    <3> QED
      BY <1>0, <3>1, <3>2, QueueAssumption
  <2> HIDE DEF st, ch, act
  <2> QED
    BY <1>0, <2>1, <2>2, <2>3, <2>4, <2>5, <2>6, DrainSlots
<1>3. ASSUME NEW j \in Jobs, JobCompleted(j) PROVE SlotInv'
  <2> DEFINE dp == [r \in Runs |->
                IF r \in {q \in Runs : status[q] = "queued" /\ dep[q] = j}
                THEN NoJob ELSE dep[r]]
  <2>1. CASE UNCHANGED <<rowVars, child, queueVars, faults>>
    BY <2>1 DEF rowVars, queueVars, SlotInv, Uncollected
  <2>2. CASE \E broken \in Runs \cup {NoRun} :
                Drain(status, dp, child, active, waiter, broken)
    <3>1. status \in [Runs -> Status] /\ child \in [Runs -> Child]
      BY DEF TypeOK
    <3> HIDE DEF dp
    <3> QED
      BY <1>0, <2>2, <3>1, DrainSlots
  <2> QED
    BY <1>3, <2>1, <2>2 DEF JobCompleted
<1>4. ASSUME NEW r \in Runs, Cancel(r) PROVE SlotInv'
  <2>1. active' \in SUBSET active
    BY <1>4 DEF Cancel
  <2>2. Cardinality(active') <= Cardinality(active)
    BY <1>0, <2>1, FiniteRuns, FS_Subset
  <2>3. Cardinality(active') \in Nat /\ Cardinality(active) \in Nat
    BY <1>0, <2>1, FiniteRuns
  <2>4. Cardinality(active') <= MaxConcurrent
    BY <1>0, <2>2, <2>3, QueueAssumption
  <2> QED
    BY <1>0, <1>4, <2>4 DEF Cancel, SlotInv, Uncollected, TypeOK
<1>5. ASSUME NEW r \in Runs, Delete(r) PROVE SlotInv'
  BY <1>0, <1>5 DEF Delete, queueVars, SlotInv, Uncollected, TypeOK, Finished
<1>6. ASSUME NEW r \in Runs, ChildStep(r) PROVE SlotInv'
  BY <1>0, <1>6 DEF ChildStep, Finish, Save, Die, queueVars, rowVars, SlotInv,
                    Uncollected, TypeOK, Finished
<1>7. CASE Boot
  <2>1. active' = {} /\ owned' = {}
    BY <1>7 DEF Boot
  <2> QED
    BY <2>1, FS_EmptySet, QueueAssumption DEF SlotInv, Uncollected
<1>8. CASE UNCHANGED <<rowVars, child, queueVars>>
  BY <1>8 DEF rowVars, queueVars, SlotInv, Uncollected
<1> QED
  BY <1>1, <1>2, <1>3, <1>4, <1>5, <1>6, <1>7, <1>8
     DEF Next, Handle, JobFailed, Crash, vars, rowVars, queueVars

LEMMA SlotsAlways == Spec => [](TypeOK /\ ChildInv /\ SlotInv)
<1>1. Init => ChildInv
  BY DEF Init, ChildInv
<1> QED
  BY <1>1, TypeInit, TypeStep, ChildInvStep, SlotInit, SlotStep, PTL DEF Spec

(* However many runs are queued, cancelled or fail to start, a server      *)
(* never has more of them running than it has slots.                       *)
THEOREM SlotLimit == Spec => []RunningWithinLimit
<1>1. TypeOK /\ SlotInv => RunningWithinLimit
  <2> SUFFICES ASSUME TypeOK, SlotInv PROVE RunningWithinLimit
    OBVIOUS
  <2> DEFINE R == {r \in owned : status[r] = "running"}
  <2>1. R \in SUBSET active /\ active \in SUBSET Runs
    BY DEF SlotInv, TypeOK
  <2> HIDE DEF R
  <2>2. Cardinality(R) <= Cardinality(active)
    BY <2>1, FiniteRuns, FS_Subset
  <2>3. Cardinality(R) \in Nat /\ Cardinality(active) \in Nat
    BY <2>1, FiniteRuns
  <2> QED
    BY <2>2, <2>3, QueueAssumption DEF R, RunningWithinLimit, SlotInv
<1> QED
  BY <1>1, SlotsAlways, PTL

(* No slot leaks and no started run is without its slot.                   *)
THEOREM SlotsAccounted == Spec => []SlotsMatchChildren
<1>1. TypeOK /\ SlotInv => SlotsMatchChildren
  BY DEF SlotsMatchChildren, SlotInv, Uncollected, TypeOK
<1> QED
  BY <1>1, SlotsAlways, PTL
-----------------------------------------------------------------------------
(* Wake-ups.                                                               *)

(* A nonempty set of runs has an oldest one.                               *)
LEMMA OldestRun ==
    ASSUME NEW S \in SUBSET Runs, S # {}
    PROVE  \E m \in S : \A r \in S : m <= r
<1>1. S \in SUBSET Nat
  BY QueueAssumption DEF Runs
<1>2. PICK m \in S : \A r \in S : ~(<<r, m>> \in OpToRel(<, Nat))
  BY <1>1, WFMin, NatLessThanWellFounded
<1>3. ASSUME NEW r \in S PROVE m <= r
  <2>1. ~(r < m)
    BY <1>1, <1>2 DEF OpToRel
  <2> QED
    BY <1>1, <2>1
<1> QED
  BY <1>3

(* A drain leaves a run in the queue only if it fills all free slots.      *)
LEMMA BatchFills ==
    ASSUME NEW queue \in SUBSET Runs, NEW free \in Nat, Batch(queue, free) # queue
    PROVE  Cardinality(Batch(queue, free)) = free
<1> DEFINE B == Batch(queue, free)
           Left == queue \ B
<1>1. B \in SUBSET queue /\ Left # {} /\ Left \in SUBSET Runs
  BY DEF Batch
<1>2. PICK m \in Left : \A r \in Left : m <= r
  <2> HIDE DEF Left
  <2> QED
    BY <1>1, OldestRun
<1> DEFINE Before == {q \in queue : q < m}
<1>3. ~(Cardinality(Before) < free)
  BY DEF Batch
<1>4. Before \in SUBSET B
  <2>1. ASSUME NEW q \in queue, q < m, q \notin B PROVE FALSE
    <3>1. m <= q /\ m \in Int /\ q \in Int
      BY <1>1, <1>2, <2>1, QueueAssumption DEF Runs
    <3> QED
      BY <2>1, <3>1
  <2> QED
    BY <2>1
<1>5. IsFiniteSet(B) /\ Cardinality(B) \in Nat /\ Cardinality(Before) \in Nat
  <2>1. B \in SUBSET Runs /\ Before \in SUBSET Runs
    BY <1>1
  <2> HIDE DEF B, Before
  <2> QED
    BY <2>1, FiniteRuns
<1>6. Cardinality(Before) <= Cardinality(B)
  <2> HIDE DEF B, Before
  <2> QED
    BY <1>4, <1>5, FS_Subset
<1>7. Cardinality(B) <= free
  BY BatchFits
<1> QED
  BY <1>3, <1>5, <1>6, <1>7

LEMMA UnionCounts ==
    ASSUME NEW S \in SUBSET Runs, NEW T \in SUBSET Runs, S \cap T = {}
    PROVE  Cardinality(S \cup T) = Cardinality(S) + Cardinality(T)
<1>1. IsFiniteSet(S) /\ IsFiniteSet(T)
  BY FiniteRuns
<1>2. Cardinality(S) \in Nat /\ Cardinality(T) \in Nat
  BY FiniteRuns
<1>3. Cardinality(S \cup T) = Cardinality(S) + Cardinality(T) - Cardinality(S \cap T)
  BY <1>1, FS_Union
<1> QED
  BY <1>2, <1>3, FS_EmptySet

(* A drain without a fault empties the queue or fills the slots.           *)
LEMMA DrainFills ==
    ASSUME TypeOK, NEW st, NEW dp, NEW ch, NEW act \in SUBSET Runs, NEW wt,
           NEW broken \in Runs \cup {NoRun},
           \A r \in act : st[r] # "queued",
           Cardinality(act) <= MaxConcurrent,
           Drain(st, dp, ch, act, wt, broken), faults' = 0
    PROVE  Startable(status', dep') = {} \/ Cardinality(active') = MaxConcurrent
<1> DEFINE queue == Startable(st, dp)
           free == MaxConcurrent - Cardinality(act)
           batch == Batch(queue, free)
           begun == {r \in batch : broken = NoRun \/ r < broken}
<1>1. queue \in SUBSET Runs /\ batch \in SUBSET queue
  BY DEF Startable, Batch
<1>2. Cardinality(act) \in Nat /\ free \in Nat
  <2>1. Cardinality(act) \in Nat
    BY FiniteRuns
  <2> QED
    BY <2>1, QueueAssumption
<1>3. PICK unborn \in SUBSET begun :
        /\ faults' = IF broken # NoRun \/ unborn # {} THEN faults + 1 ELSE faults
        /\ status' = [r \in Runs |->
                CASE r \in unborn -> "failed_runtime"
                  [] r \in (begun \ unborn) \cup {broken} -> "running"
                  [] OTHER -> st[r]]
        /\ active' = act \cup (begun \ unborn)
  BY DEF Drain
<1>4. dep' = dp
  BY DEF Drain
<1>5. broken = NoRun /\ unborn = {}
  <2>1. faults \in Nat
    BY QueueAssumption DEF TypeOK
  <2> QED
    BY <1>3, <2>1
<1>6. begun = batch
  BY <1>5
<1> HIDE DEF begun
<1>7. active' = act \cup batch
  BY <1>3, <1>5, <1>6
<1>8. \A r \in Runs : status'[r] = "queued" => r \notin batch /\ st[r] = "queued"
  <2> TAKE r \in Runs
  <2>1. CASE r \in batch
    BY <1>3, <1>5, <1>6, <2>1
  <2>2. CASE r \notin batch
    <3>1. r # broken
      BY <1>5, QueueAssumption DEF NoRun, Runs
    <3>2. status'[r] = st[r]
      BY <1>3, <1>5, <1>6, <2>2, <3>1
    <3> QED
      BY <2>2, <3>2
  <2> QED
    BY <2>1, <2>2
<1>9. CASE batch = queue
  <2>1. \A r \in Runs : status'[r] = "queued" => dep'[r] # NoJob
    BY <1>4, <1>8, <1>9 DEF Startable
  <2> QED
    BY <2>1 DEF Startable
<1>10. CASE batch # queue
  <2>1. act \cap batch = {}
    BY <1>1 DEF Startable
  <2> HIDE DEF queue, free
  <2>2. Cardinality(batch) = free
    BY <1>1, <1>2, <1>10, BatchFills
  <2> HIDE DEF batch
  <2>3. batch \in SUBSET Runs
    BY <1>1
  <2>4. Cardinality(active') = Cardinality(act) + free
    BY <1>7, <2>1, <2>2, <2>3, UnionCounts
  <2>5. free = MaxConcurrent - Cardinality(act)
    BY DEF free
  <2> QED
    BY <1>2, <2>4, <2>5, QueueAssumption
<1> QED
  BY <1>9, <1>10

LEMMA DownStep == TypeOK /\ DownInv /\ [Next]_vars => DownInv'
<1> SUFFICES ASSUME TypeOK, DownInv, [Next]_vars PROVE DownInv'
  OBVIOUS
<1>0. crashes \in Nat /\ faults \in Nat
  BY QueueAssumption DEF TypeOK
<1>1. ASSUME NEW r \in Runs, OnExit(r) PROVE DownInv'
  <2>1. PICK broken \in Runs \cup {NoRun} :
          /\ Drain([status EXCEPT ![r] = IF FailedByExit(r) THEN "failed_runtime" ELSE @],
                   dep, [child EXCEPT ![r] = "gone"], active \ {r},
                   [waiter EXCEPT ![r] = IF AnsweredByExit(r) THEN "settled" ELSE @],
                   broken)
          /\ up' = (broken = NoRun)
    BY <1>1 DEF OnExit
  <2>2. broken # NoRun => faults' = faults + 1
    BY <2>1 DEF Drain
  <2>3. CASE broken = NoRun
    <3>1. up'
      BY <2>1, <2>3
    <3> QED
      BY <3>1 DEF DownInv
  <2>4. CASE broken # NoRun
    <3>1. faults' > 0
      BY <1>0, <2>2, <2>4
    <3> QED
      BY <3>1 DEF DownInv
  <2> QED
    BY <2>3, <2>4
<1>2. ASSUME NEW r \in Runs, Enqueue(r) \/ Cancel(r) \/ Delete(r) PROVE DownInv'
  BY <1>2 DEF Enqueue, Cancel, Delete, outside, DownInv
<1>3. ASSUME NEW r \in Runs, ChildStep(r) PROVE DownInv'
  BY <1>3 DEF ChildStep, Finish, Save, Die, outside, DownInv
<1>4. ASSUME NEW j \in Jobs, JobCompleted(j) \/ JobFailed(j) PROVE DownInv'
  BY <1>4 DEF JobCompleted, JobFailed, DownInv
<1>5. CASE Crash
  BY <1>0, <1>5 DEF Crash, DownInv
<1>6. CASE Boot
  BY <1>6 DEF Boot, DownInv
<1>7. CASE UNCHANGED vars
  BY <1>7 DEF vars, DownInv
<1> QED
  BY <1>1, <1>2, <1>3, <1>4, <1>5, <1>6, <1>7 DEF Next, Handle

LEMMA IdleStep ==
    TypeOK /\ ChildInv /\ SlotInv /\ DownInv /\ NoIdleQueue /\ [Next]_vars => NoIdleQueue'
<1> SUFFICES ASSUME TypeOK, ChildInv, SlotInv, DownInv, NoIdleQueue, [Next]_vars,
                    ~Disturbed', Startable(status', dep') # {}
             PROVE  Cardinality(active') = MaxConcurrent \/ (Uncollected \ active)' # {}
  BY DEF NoIdleQueue
<1>0. /\ \A r \in owned : status[r] \notin {"none", "queued"}
      /\ active \subseteq Uncollected
      /\ Cardinality(active) <= MaxConcurrent
      /\ owned \in SUBSET Runs /\ active \in SUBSET Runs /\ active \subseteq owned
  BY DEF SlotInv, Uncollected, TypeOK
<1>a. up' /\ crashes' = 0 /\ faults' = 0
  <2>1. TypeOK'
    BY TypeStep
  <2> QED
    BY <2>1, QueueAssumption DEF Disturbed, TypeOK
<1>1. ASSUME NEW r \in Runs, Enqueue(r)
      PROVE  Cardinality(active') = MaxConcurrent
  <2> DEFINE st == [status EXCEPT ![r] = "queued"]
  <2>1. PICK d \in Jobs \cup {NoJob}, wait \in BOOLEAN, broken \in Runs \cup {NoRun} :
          Drain(st, [dep EXCEPT ![r] = d], child, active,
                IF wait /\ broken = NoRun THEN [waiter EXCEPT ![r] = "waiting"] ELSE waiter,
                broken)
    BY <1>1 DEF Enqueue
  <2>2. r \notin owned
    BY <1>0, <1>1 DEF Enqueue
  <2>3. \A s \in active : st[s] # "queued"
    BY <1>0, <2>2 DEF TypeOK
  <2> HIDE DEF st
  <2> QED
    BY <1>0, <1>a, <2>1, <2>3, DrainFills
<1>2. ASSUME NEW r \in Runs, OnExit(r)
      PROVE  Cardinality(active') = MaxConcurrent
  <2> DEFINE st == [status EXCEPT ![r] = IF FailedByExit(r) THEN "failed_runtime" ELSE @]
             act == active \ {r}
  <2>1. PICK broken \in Runs \cup {NoRun} :
          Drain(st, dep, [child EXCEPT ![r] = "gone"], act,
                [waiter EXCEPT ![r] = IF AnsweredByExit(r) THEN "settled" ELSE @],
                broken)
    BY <1>2 DEF OnExit
  <2>2. \A s \in act : st[s] # "queued"
    BY <1>0 DEF TypeOK
  <2>3. act \in SUBSET active /\ act \in SUBSET Runs
    BY <1>0
  <2> HIDE DEF st, act
  <2>4. Cardinality(act) <= MaxConcurrent
    <3>1. Cardinality(act) <= Cardinality(active)
      BY <1>0, <2>3, FiniteRuns, FS_Subset
    <3>2. Cardinality(act) \in Nat /\ Cardinality(active) \in Nat
      BY <1>0, <2>3, FiniteRuns
    <3> QED
      BY <1>0, <3>1, <3>2, QueueAssumption
  <2> QED
    BY <1>a, <2>1, <2>2, <2>3, <2>4, DrainFills
<1>b. CASE ~Disturbed /\ Startable(status, dep) # {}
           /\ active' = active /\ Uncollected' = Uncollected
  BY <1>b DEF NoIdleQueue
<1>3. ASSUME NEW j \in Jobs, JobCompleted(j)
      PROVE  Cardinality(active') = MaxConcurrent \/ (Uncollected \ active)' # {}
  <2> DEFINE dp == [r \in Runs |->
                IF r \in {q \in Runs : status[q] = "queued" /\ dep[q] = j}
                THEN NoJob ELSE dep[r]]
  <2>1. CASE UNCHANGED <<rowVars, child, queueVars, faults>>
    <3>1. ~Disturbed
      BY <1>3, <1>a, <2>1 DEF JobCompleted, Disturbed
    <3>2. UNCHANGED <<status, dep, child, active, owned>>
      BY <2>1 DEF rowVars, queueVars
    <3>3. Startable(status, dep) # {} /\ Uncollected' = Uncollected
      BY <3>2 DEF Uncollected
    <3> QED
      BY <1>b, <3>1, <3>2, <3>3
  <2>2. CASE \E broken \in Runs \cup {NoRun} :
                Drain(status, dp, child, active, waiter, broken)
    <3>1. \A s \in active : status[s] # "queued"
      BY <1>0
    <3> HIDE DEF dp
    <3> QED
      BY <1>0, <1>a, <2>2, <3>1, DrainFills
  <2> QED
    BY <1>3, <2>1, <2>2 DEF JobCompleted
<1>4. ASSUME NEW r \in Runs, Cancel(r)
      PROVE  Cardinality(active') = MaxConcurrent \/ (Uncollected \ active)' # {}
  <2>1. UNCHANGED <<child, owned, up, crashes, faults>>
    BY <1>4 DEF Cancel, outside
  <2>2. ~Disturbed
    BY <1>a, <2>1 DEF Disturbed
  <2>3. CASE r \in active
    <3>1. r \in Uncollected' /\ r \notin active'
      BY <1>0, <1>4, <2>1, <2>3 DEF Cancel, Uncollected
    <3> QED
      BY <3>1
  <2>4. CASE r \notin active
    <3>1. active' = active /\ Uncollected' = Uncollected
      BY <1>4, <2>1, <2>4 DEF Cancel, Uncollected
    <3>2. Startable(status', dep') \subseteq Startable(status, dep)
      BY <1>4 DEF Cancel, Startable, TypeOK
    <3> QED
      BY <1>b, <2>2, <3>1, <3>2
  <2> QED
    BY <2>3, <2>4
<1>5. ASSUME NEW r \in Runs, Delete(r) \/ ChildStep(r)
      PROVE  Cardinality(active') = MaxConcurrent \/ (Uncollected \ active)' # {}
  <2>1. UNCHANGED <<active, owned, up, crashes, faults>>
    BY <1>5 DEF Delete, ChildStep, Finish, Save, Die, queueVars, outside
  <2>2. ~Disturbed
    BY <1>a, <2>1 DEF Disturbed
  <2>3. Uncollected' = Uncollected
    <3>1. \A s \in Runs : child'[s] # child[s] =>
            /\ child[s] \in {"working", "saving", "done", "dead"}
            /\ child'[s] \in {"working", "saving", "done", "dead"}
      BY <1>5 DEF Delete, ChildStep, Finish, Save, Die, TypeOK
    <3> QED
      BY <1>0, <2>1, <3>1 DEF Uncollected
  <2>4. \A s \in Runs : status'[s] = "queued" => status[s] = "queued" /\ dep'[s] = dep[s]
    <3>1. CASE Delete(r)
      BY <3>1 DEF Delete, TypeOK
    <3>2. CASE Finish(r) \/ Die(r)
      BY <3>2 DEF Finish, Die, rowVars
    <3>3. CASE Save(r)
      BY <3>3 DEF Save, rowVars, TypeOK, Finished
    <3> QED
      BY <1>5, <3>1, <3>2, <3>3 DEF ChildStep
  <2>5. Startable(status', dep') \subseteq Startable(status, dep)
    BY <2>4 DEF Startable
  <2> QED
    BY <1>b, <2>1, <2>2, <2>3, <2>5
<1>6. CASE \/ \E j \in Jobs : JobFailed(j)
           \/ UNCHANGED vars
  <2>1. UNCHANGED <<status, dep, child, active, owned, up, crashes, faults>>
    BY <1>6 DEF JobFailed, rowVars, queueVars, vars
  <2>2. ~Disturbed /\ Uncollected' = Uncollected
    BY <1>a, <2>1 DEF Disturbed, Uncollected
  <2> QED
    BY <1>b, <2>1, <2>2
<1>7. ~Crash
  BY <1>a DEF Crash
<1>8. ~Boot
  <2>1. Boot => crashes = 0 /\ faults = 0 /\ ~up
    BY <1>a DEF Boot
  <2> QED
    BY <2>1 DEF DownInv
<1> QED
  BY <1>1, <1>2, <1>3, <1>4, <1>5, <1>6, <1>7, <1>8 DEF Next, Handle

(* No wake-up is lost: as long as every child starts and the server lives, *)
(* a run that could start waits only for a slot or for the exit event that *)
(* drains the queue (queue.js:56-139), for any number of runs and slots.   *)
THEOREM NoRunForgotten == Spec => []NoIdleQueue
<1>1. Init => ChildInv /\ DownInv /\ NoIdleQueue
  BY DEF Init, ChildInv, DownInv, NoIdleQueue, Startable
<1> QED
  BY <1>1, TypeInit, TypeStep, ChildInvStep, SlotInit, SlotStep, DownStep, IdleStep, PTL
     DEF Spec
=============================================================================
