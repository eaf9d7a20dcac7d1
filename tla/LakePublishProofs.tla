-------------------------- MODULE LakePublishProofs --------------------------
(***************************************************************************)
(* Theorems about LakePublish, for every number of markets, conditions,    *)
(* exporters, cleaners, reconcilers, runs and source versions.             *)
(***************************************************************************)
EXTENDS LakePublish, TLAPS

-----------------------------------------------------------------------------
(* Type correctness.                                                       *)

LEMMA RecordTypes ==
    /\ IdleJob \in Job
    /\ MissingRow \in Row
    /\ NoFile \notin File
  <1>1. (CHOOSE m \in Markets : TRUE) \in Markets
    BY ParametersAssumption
  <1>2. NoFingerprint \in Fingerprint
    BY ParametersAssumption DEF NoFingerprint, Fingerprint, Version
  <1>4. 0 \in Extras
    BY ParametersAssumption DEF Extras
  <1>3. QED
    BY <1>1, <1>2, <1>4 DEF IdleJob, Job, MissingRow, Row, Status, Note, File, NoFile

LEMMA MarkStaleType ==
    ASSUME NEW row \in Row
    PROVE  /\ MarkStale(row) \in Row
           /\ MarkStale(row).path = row.path
           /\ MarkStale(row).print = row.print
  BY DEF MarkStale, Row, Status, Note

LEMMA QualityType ==
    ASSUME NEW print, NEW q \in Quality(print)
    PROVE  q.status \in Status /\ q.note \in Note
  BY DEF Quality, Status, Note

(* An acceptance, its revocation and the automatic recheck change a status. *)
LEMMA AcceptanceKeeps ==
    ASSUME TypeOK, NEW m \in Markets, Accept(m) \/ Revoke(m) \/ AutoAccept(m)
    PROVE  /\ manifest' \in [Markets -> Row]
           /\ \A n \in Markets : /\ manifest'[n].path = manifest[n].path
                               /\ manifest'[n].print = manifest[n].print
           /\ UNCHANGED <<source, extras, excluded, files, nextRun, pc, job, late, overlooked>>
  <1>1. PICK status \in Status : manifest' = [manifest EXCEPT ![m].status = status]
    BY DEF Accept, Revoke, AutoAccept, Status
  <1>2. manifest[m] \in Row
    BY DEF TypeOK
  <1>3. [manifest[m] EXCEPT !.status = status] \in Row
    BY <1>2 DEF Row
  <1>4. /\ manifest' \in [Markets -> Row]
        /\ \A n \in Markets : /\ manifest'[n].path = manifest[n].path
                            /\ manifest'[n].print = manifest[n].print
    BY <1>1, <1>2, <1>3 DEF TypeOK, Row
  <1>5. UNCHANGED <<source, extras, excluded, files, nextRun, pc, job, late, overlooked>>
    BY DEF Accept, Revoke, AutoAccept, history
  <1>6. QED
    BY <1>4, <1>5

LEMMA TypeInit == Init => TypeOK
  BY RecordTypes, ParametersAssumption DEF Init, TypeOK, Version, Extras, Pc

LEMMA TypeStep == TypeOK /\ [Next]_vars => TypeOK'
  <1> SUFFICES ASSUME TypeOK, [Next]_vars PROVE TypeOK'
    OBVIOUS
  <1> USE DEF TypeOK, history
  <1> DEFINE ReadersOfSource == Exporters \cup Reconcilers
  <1>1. ASSUME NEW e \in Exporters, StartExport(e) PROVE TypeOK'
    BY <1>1 DEF StartExport, Goto, Pc, Procs, Job
  <1>2. ASSUME NEW p \in ReadersOfSource, Count(p) PROVE TypeOK'
    <2>1. job[p] \in Job /\ source[job[p].market] \in Version
      BY DEF Procs, Job
    <2>2. [job[p] EXCEPT !.print.counted = source[job[p].market]] \in Job
      BY <2>1 DEF Job, Fingerprint
    <2>3. job' = [job EXCEPT ![p] = [@ EXCEPT !.print.counted = source[job[p].market]]]
      BY <1>2 DEF Count
    <2>4. job' \in [Procs -> Job]
      BY <2>2, <2>3 DEF Procs
    <2>5. pc' \in [Procs -> Pc]
      BY <1>2 DEF Count, Goto, Pc, Procs
    <2>6. QED
      BY <1>2, <2>4, <2>5 DEF Count
  <1>3. ASSUME NEW p \in ReadersOfSource, Fetch(p) PROVE TypeOK'
    <2>1. /\ job[p] \in Job
          /\ source[job[p].market] \in Version
          /\ extras[job[p].market] \in Extras
      BY DEF Procs, Job
    <2>2. [job[p] EXCEPT !.print.source = source[job[p].market],
                         !.extras = extras[job[p].market]] \in Job
      BY <2>1 DEF Job, Fingerprint
    <2>3. job' = [job EXCEPT ![p] = [@ EXCEPT !.print.source = source[job[p].market],
                                              !.extras = extras[job[p].market]]]
      BY <1>3, <2>1 DEF Fetch, Job
    <2>4. job' \in [Procs -> Job]
      BY <2>2, <2>3 DEF Procs
    <2>5. pc' \in [Procs -> Pc]
      BY <1>3 DEF Fetch, Goto, Pc, Procs
    <2>6. QED
      BY <1>3, <2>4, <2>5 DEF Fetch
  <1>4. ASSUME NEW e \in Exporters, Normalise(e) PROVE TypeOK'
    <2>1. job[e] \in Job /\ job[e].market \in Markets
      BY DEF Procs, Job
    <2>2. excluded[job[e].market] \in SUBSET Conditions
      BY <2>1
    <2>3. (job[e].print.source \in Dirty) \in BOOLEAN
      OBVIOUS
    <2> DEFINE new == [job[e].print EXCEPT
                         !.excluded = excluded[job[e].market],
                         !.filtered = job[e].print.source \in Dirty]
    <2>4. new \in Fingerprint
      BY <2>1, <2>2, <2>3 DEF Job, Fingerprint
    <2>5. job' = [job EXCEPT ![e] = [@ EXCEPT !.print = new]]
      BY <1>4, <2>1 DEF Normalise, Job, Fingerprint
    <2>6. [job[e] EXCEPT !.print = new] \in Job
      BY <2>1, <2>4 DEF Job
    <2> HIDE DEF new
    <2>7. job' \in [Procs -> Job] /\ pc' \in [Procs -> Pc]
      BY <1>4, <2>5, <2>6 DEF Normalise, Goto, Pc, Procs
    <2>8. QED
      BY <1>4, <2>7 DEF Normalise
  <1>5. ASSUME NEW e \in Exporters, WriteFile(e) PROVE TypeOK'
    <2> DEFINE f == [run |-> nextRun, market |-> job[e].market,
                     source |-> job[e].print.source,
                     extras |-> job[e].extras,
                     excluded |-> job[e].print.excluded]
    <2>1. job[e] \in Job
      BY DEF Procs
    <2>2. /\ files' = files \cup {f}
          /\ job' = [job EXCEPT ![e] = [@ EXCEPT !.file = f]]
          /\ nextRun \in 1 .. MaxRuns /\ nextRun' = nextRun + 1
      BY <1>5, <2>1, ParametersAssumption DEF WriteFile, Job
    <2>3. f \in File
      BY <2>1, <2>2 DEF File, Job, Fingerprint
    <2> HIDE DEF f
    <2>4. [job[e] EXCEPT !.file = f] \in Job
      BY <2>1, <2>3 DEF Job
    <2>5. job' \in [Procs -> Job] /\ pc' \in [Procs -> Pc]
      BY <1>5, <2>2, <2>4 DEF WriteFile, Goto, Pc, Procs
    <2>6. files' \subseteq File /\ nextRun' \in 1 .. MaxRuns + 1
      BY <2>2, <2>3, ParametersAssumption
    <2>7. QED
      BY <1>5, <2>5, <2>6 DEF WriteFile
  <1>6. ASSUME NEW e \in Exporters, Publish(e) PROVE TypeOK'
    BY <1>6, QualityType DEF Publish, Goto, Pc, Procs, Job, Row
  <1>7. ASSUME NEW p \in Writers, ReadActive(p) PROVE TypeOK'
    <2>1. Referenced \in SUBSET File
      BY DEF Referenced, Row
    <2>2. [job[p] EXCEPT !.active = Referenced] \in Job
      BY <2>1 DEF Job, Procs, Writers
    <2>3. QED
      BY <1>7, <2>2 DEF ReadActive, Goto, Pc, Procs, Writers
  <1>8. ASSUME NEW p \in Writers, ListFiles(p) PROVE TypeOK'
    BY <1>8 DEF ListFiles, Goto, Pc, Procs, Writers, Job
  <1>9. ASSUME NEW p \in Writers, DeleteOne(p) PROVE TypeOK'
    BY <1>9 DEF DeleteOne, Procs, Writers, Job
  <1>10. ASSUME NEW p \in Procs, Finish(p),
                UNCHANGED <<source, extras, excluded, files, nextRun, overlooked>>,
                manifest' \in [Markets -> Row], late' \subseteq Exporters
         PROVE  TypeOK'
    BY <1>10, RecordTypes DEF Finish, Goto, Pc
  <1>11. ASSUME NEW p \in Writers, FinishCleanup(p) PROVE TypeOK'
    BY <1>10, <1>11 DEF FinishCleanup, Writers, Procs
  <1>12. ASSUME NEW p \in Procs, Abandon(p) PROVE TypeOK'
    BY <1>10, <1>12 DEF Abandon
  <1>13. ASSUME NEW r \in Reconcilers, StartReconcile(r) PROVE TypeOK'
    <2>1. PICK m \in Markets :
            job' = [job EXCEPT ![r].market = m, ![r].seen = manifest[m].print]
      BY <1>13 DEF StartReconcile
    <2>2. [job[r] EXCEPT !.market = m, !.seen = manifest[m].print] \in Job
      BY DEF Job, Row, Procs
    <2>3. job' = [job EXCEPT ![r] =
                    [@ EXCEPT !.market = m, !.seen = manifest[m].print]]
      BY <2>1 DEF Procs, Job
    <2>4. QED
      BY <1>13, <2>2, <2>3 DEF StartReconcile, Goto, Pc, Procs
  <1>14. ASSUME NEW r \in Reconcilers, Compare(r) PROVE TypeOK'
    <2>1. job[r].market \in Markets
      BY DEF Job, Procs
    <2>2. manifest' \in [Markets -> Row]
      BY <1>14, <2>1, MarkStaleType DEF Compare
    <2>3. QED
      BY <1>14, <2>2, <1>10 DEF Compare, Procs
  <1>15. ASSUME NEW m \in Markets, ChangeSource(m) PROVE TypeOK'
    BY <1>15, ParametersAssumption DEF ChangeSource, Version
  <1>16. ASSUME NEW m \in Markets, Exclude(m) PROVE TypeOK'
    BY <1>16, MarkStaleType DEF Exclude, Committed
  <1>17. ASSUME NEW m \in Markets, Restore(m) PROVE TypeOK'
    BY <1>17, MarkStaleType DEF Restore, Committed
  <1>18. ASSUME NEW m \in Markets, Accept(m) \/ Revoke(m) \/ AutoAccept(m)
         PROVE  TypeOK'
    BY <1>18, AcceptanceKeeps
  <1>19. CASE UNCHANGED vars
    BY <1>19 DEF vars
  <1>20. ASSUME NEW m \in Markets, ChangeExtras(m) PROVE TypeOK'
    BY <1>20, ParametersAssumption DEF ChangeExtras, Extras
  <1>21. QED
    BY <1>1, <1>2, <1>3, <1>4, <1>5, <1>6, <1>7, <1>8, <1>9, <1>11, <1>12,
       <1>13, <1>14, <1>15, <1>16, <1>17, <1>18, <1>19, <1>20
    DEF Next, Export, ReadSource, Cleanup, Reconcile, Operate

(* Every behaviour of the lake's publication is well typed; in particular  *)
(* a row's active_path is NULL or a file some export wrote.                *)
THEOREM Typing == Spec => []TypeOK
  BY TypeInit, TypeStep, PTL DEF Spec
-----------------------------------------------------------------------------
(* Provenance: a row describes the file it points at.                      *)

LEMMA ProvenanceStep ==
    TypeOK /\ ProvenanceInv /\ [Next]_vars => ProvenanceInv'
  <1> SUFFICES ASSUME TypeOK, ProvenanceInv, [Next]_vars
               PROVE  ProvenanceInv'
    OBVIOUS
  <1> USE DEF ProvenanceInv
  <1>1. ASSUME UNCHANGED manifest,
               \A e \in Exporters : pc'[e] = "renamed" =>
                    pc[e] = "renamed" /\ job'[e].file = job[e].file
                        /\ job'[e].market = job[e].market
                        /\ job'[e].print = job[e].print
        PROVE  ProvenanceInv'
    BY <1>1 DEF FileDescribesJob, RowDescribesFile
  <1>2. ASSUME NEW p \in Procs, NEW label, label # "renamed",
               pc' = [pc EXCEPT ![p] = label],
               \A q \in Procs \ {p} : job'[q] = job[q],
               UNCHANGED manifest
        PROVE  ProvenanceInv'
    BY <1>2, <1>1 DEF TypeOK, Procs
  <1>3. ASSUME NEW e \in Exporters, StartExport(e) PROVE ProvenanceInv'
    BY <1>3, <1>2 DEF StartExport, Goto, TypeOK, Procs
  <1>4. ASSUME NEW p \in Exporters \cup Reconcilers, Count(p)
        PROVE  ProvenanceInv'
    BY <1>4, <1>2 DEF Count, Goto, TypeOK, Procs
  <1>5. ASSUME NEW p \in Exporters \cup Reconcilers, Fetch(p)
        PROVE  ProvenanceInv'
    BY <1>5, <1>2 DEF Fetch, Goto, TypeOK, Procs
  <1>6. ASSUME NEW e \in Exporters, Normalise(e) PROVE ProvenanceInv'
    BY <1>6, <1>2 DEF Normalise, Goto, TypeOK, Procs
  <1>7. ASSUME NEW e \in Exporters, WriteFile(e) PROVE ProvenanceInv'
    <2> DEFINE f == [run |-> nextRun, market |-> job[e].market,
                     source |-> job[e].print.source,
                     extras |-> job[e].extras,
                     excluded |-> job[e].print.excluded]
    <2>1. f # NoFile
      BY <1>7, ParametersAssumption DEF WriteFile, TypeOK, NoFile
    <2>2. /\ job' = [job EXCEPT ![e].file = f]
          /\ pc' = [pc EXCEPT ![e] = "renamed"]
          /\ UNCHANGED manifest
      BY <1>7 DEF WriteFile, Goto
    <2>3. FileDescribesJob'
      BY <2>1, <2>2 DEF FileDescribesJob, TypeOK, Procs, Job
    <2>4. QED
      BY <2>2, <2>3 DEF RowDescribesFile
  <1>8. ASSUME NEW e \in Exporters, Publish(e) PROVE ProvenanceInv'
    <2>1. job[e] \in Job
      BY DEF TypeOK, Procs
    <2>2. PICK q \in Quality(job[e].print) :
            manifest' = [manifest EXCEPT ![job[e].market] =
                [status |-> q.status, path |-> job[e].file,
                 print |-> job[e].print, note |-> q.note]]
      BY <1>8 DEF Publish
    <2>3. RowDescribesFile'
      BY <1>8, <2>1, <2>2
      DEF Publish, RowDescribesFile, FileDescribesJob, TypeOK, Job
    <2>4. FileDescribesJob'
      BY <1>8 DEF Publish, Goto, FileDescribesJob, TypeOK, Procs
    <2>5. QED
      BY <2>3, <2>4
  <1>9. ASSUME NEW p \in Writers, ReadActive(p) PROVE ProvenanceInv'
    BY <1>9, <1>2 DEF ReadActive, Goto, TypeOK, Procs, Writers
  <1>10. ASSUME NEW p \in Writers, ListFiles(p) PROVE ProvenanceInv'
    BY <1>10, <1>2 DEF ListFiles, Goto, TypeOK, Procs, Writers
  <1>11. ASSUME NEW p \in Writers, DeleteOne(p) PROVE ProvenanceInv'
    BY <1>11, <1>1 DEF DeleteOne, TypeOK, Procs, Writers
  <1>12. ASSUME NEW p \in Writers, FinishCleanup(p) PROVE ProvenanceInv'
    BY <1>12, <1>2 DEF FinishCleanup, Finish, Goto, TypeOK, Procs, Writers
  <1>13. ASSUME NEW p \in Procs, Abandon(p) PROVE ProvenanceInv'
    BY <1>13, <1>2 DEF Abandon, Finish, Goto, TypeOK
  <1>14. ASSUME NEW r \in Reconcilers, StartReconcile(r) PROVE ProvenanceInv'
    BY <1>14, <1>2 DEF StartReconcile, Goto, TypeOK, Procs
  <1>15. ASSUME UNCHANGED <<pc, job>>,
                \A m \in Markets : manifest'[m].path = manifest[m].path
                                /\ manifest'[m].print = manifest[m].print
         PROVE  ProvenanceInv'
    BY <1>15 DEF FileDescribesJob, RowDescribesFile
  <1>16. ASSUME NEW r \in Reconcilers, Compare(r) PROVE ProvenanceInv'
    <2>1. \A m \in Markets : manifest'[m].path = manifest[m].path
                          /\ manifest'[m].print = manifest[m].print
      BY <1>16, MarkStaleType DEF Compare, TypeOK, Procs, Job
    <2>2. RowDescribesFile'
      BY <2>1 DEF RowDescribesFile
    <2>3. FileDescribesJob'
      BY <1>16 DEF Compare, Finish, Goto, FileDescribesJob, TypeOK, Procs
    <2>4. QED
      BY <2>2, <2>3
  <1>17. ASSUME NEW m \in Markets, ChangeSource(m) \/ ChangeExtras(m) PROVE ProvenanceInv'
    BY <1>17, <1>15 DEF ChangeSource, ChangeExtras
  <1>18. ASSUME NEW m \in Markets, Exclude(m) \/ Restore(m)
         PROVE  ProvenanceInv'
    BY <1>18, <1>15, MarkStaleType DEF Exclude, Restore, TypeOK
  <1>19. ASSUME NEW m \in Markets, Accept(m) \/ Revoke(m) \/ AutoAccept(m)
         PROVE  ProvenanceInv'
    BY <1>19, <1>15 DEF Accept, Revoke, AutoAccept, TypeOK, Row
  <1>20. CASE UNCHANGED vars
    BY <1>20, <1>15 DEF vars
  <1>21. QED
    BY <1>3, <1>4, <1>5, <1>6, <1>7, <1>8, <1>9, <1>10, <1>11, <1>12, <1>13,
       <1>14, <1>16, <1>17, <1>18, <1>19, <1>20
    DEF Next, Export, ReadSource, Cleanup, Reconcile, Operate

(* Whatever overlaps, a row's fingerprint describes the file at its        *)
(* active_path: no exporter publishes another's file, or its own file with *)
(* another reading's fingerprint.                                          *)
THEOREM Provenance == Spec => []RowDescribesFile
  <1>1. Init => ProvenanceInv
    BY DEF Init, ProvenanceInv, FileDescribesJob, RowDescribesFile, MissingRow, Procs
  <1>2. ProvenanceInv => RowDescribesFile
    BY DEF ProvenanceInv
  <1>3. QED
    BY <1>1, <1>2, Typing, ProvenanceStep, PTL DEF Spec
-----------------------------------------------------------------------------
(* No row dangles while the directory's writers take turns.                *)

(* Steps that move no writer, no file and no active_path.                  *)
LEMMA DanglingUntouched ==
    ASSUME DanglingInv, TypeOK,
           UNCHANGED files,
           \A m \in Markets : manifest'[m].path = manifest[m].path,
           \A p \in Writers : pc'[p] = pc[p] /\ job'[p] = job[p]
    PROVE  DanglingInv'
  <1>1. Referenced' = Referenced
    BY DEF Referenced
  <1>2. QED
    BY <1>1 DEF DanglingInv, WritersTakeTurns, CleanupSparesRows, NoDanglingPath

(* Steps of one writer that was allowed to go on, rows and files as before. *)
LEMMA DanglingWriter ==
    ASSUME DanglingInv, TypeOK,
           NEW p \in Writers, NEW label \in Pc,
           pc' = [pc EXCEPT ![p] = label],
           \A q \in Procs \ {p} : job'[q] = job[q],
           UNCHANGED <<files, manifest>>,
           \A q \in Writers \ {p} : pc[q] = "idle",
           label = "renamed" => job'[p].file \in files,
           label = "listing" => Referenced \subseteq job'[p].active,
           label = "deleting" => Referenced \cap job'[p].todo = {}
    PROVE  DanglingInv'
  <1>1. Referenced' = Referenced
    BY DEF Referenced
  <1>2. p \in Procs
    BY DEF Procs, Writers
  <1>3. \A q \in Writers \ {p} : pc'[q] = "idle"
    BY <1>2 DEF TypeOK
  <1>4. pc'[p] = label
    BY <1>2 DEF TypeOK
  <1>5. WritersTakeTurns'
    BY <1>3 DEF WritersTakeTurns, Writers
  <1>6. CleanupSparesRows'
    BY <1>1, <1>3, <1>4 DEF CleanupSparesRows, Writers
  <1>7. NoDanglingPath'
    BY <1>1 DEF DanglingInv, NoDanglingPath
  <1>8. QED
    BY <1>5, <1>6, <1>7 DEF DanglingInv

LEMMA DanglingStep ==
    ASSUME SerialWriters
    PROVE  TypeOK /\ DanglingInv /\ [Next]_vars => DanglingInv'
  <1> SUFFICES ASSUME TypeOK, DanglingInv, [Next]_vars PROVE DanglingInv'
    OBVIOUS
  <1> USE DEF Procs, Writers
  <1>a. ASSUME NEW p \in Writers, pc[p] # "idle" \/ MayWrite
        PROVE  \A q \in Writers \ {p} : pc[q] = "idle"
    BY <1>a, SerialWriters DEF DanglingInv, WritersTakeTurns, MayWrite
  <1>1. ASSUME NEW e \in Exporters, StartExport(e) PROVE DanglingInv'
    BY <1>1, <1>a, DanglingWriter DEF StartExport, Goto, TypeOK, Pc
  <1>2. ASSUME NEW p \in Exporters \cup Reconcilers, Count(p) PROVE DanglingInv'
    <2>1. CASE p \in Exporters
      BY <1>2, <2>1, <1>a, DanglingWriter DEF Count, Goto, TypeOK, Pc
    <2>2. CASE p \in Reconcilers
      BY <1>2, <2>2, DanglingUntouched, ProcsAssumption DEF Count, Goto, TypeOK
    <2>3. QED
      BY <2>1, <2>2
  <1>3. ASSUME NEW p \in Exporters \cup Reconcilers, Fetch(p) PROVE DanglingInv'
    <2>1. CASE p \in Exporters
      BY <1>3, <2>1, <1>a, DanglingWriter DEF Fetch, Goto, TypeOK, Pc
    <2>2. CASE p \in Reconcilers
      BY <1>3, <2>2, DanglingUntouched, ProcsAssumption DEF Fetch, Goto, TypeOK
    <2>3. QED
      BY <2>1, <2>2
  <1>4. ASSUME NEW e \in Exporters, Normalise(e) PROVE DanglingInv'
    BY <1>4, <1>a, DanglingWriter DEF Normalise, Goto, TypeOK, Pc
  <1>5. ASSUME NEW e \in Exporters, WriteFile(e) PROVE DanglingInv'
    <2> DEFINE f == [run |-> nextRun, market |-> job[e].market,
                     source |-> job[e].print.source,
                     extras |-> job[e].extras,
                     excluded |-> job[e].print.excluded]
    <2>1. /\ files' = files \cup {f}
          /\ job' = [job EXCEPT ![e].file = f]
          /\ pc' = [pc EXCEPT ![e] = "renamed"]
          /\ UNCHANGED manifest
      BY <1>5 DEF WriteFile, Goto
    <2>2. Referenced' = Referenced
      BY <2>1 DEF Referenced
    <2>3. \A q \in Writers \ {e} : pc[q] = "idle" /\ pc'[q] = "idle"
      BY <2>1, <1>a, <1>5 DEF WriteFile, TypeOK
    <2>4. pc'[e] = "renamed" /\ job'[e].file = f
      BY <2>1 DEF TypeOK, Job
    <2>5. WritersTakeTurns'
      BY <2>3 DEF WritersTakeTurns
    <2>6. CleanupSparesRows'
      BY <2>1, <2>3, <2>4 DEF CleanupSparesRows
    <2>7. NoDanglingPath'
      BY <2>1, <2>2 DEF DanglingInv, NoDanglingPath
    <2>8. QED
      BY <2>5, <2>6, <2>7 DEF DanglingInv
  <1>6. ASSUME NEW e \in Exporters, Publish(e) PROVE DanglingInv'
    <2>1. job[e].file \in files
      BY <1>6 DEF Publish, DanglingInv, CleanupSparesRows
    <2>2. job[e].market \in Markets
      BY DEF TypeOK, Job
    <2>3. PICK q \in Quality(job[e].print) :
            manifest' = [manifest EXCEPT ![job[e].market] =
                [status |-> q.status, path |-> job[e].file,
                 print |-> job[e].print, note |-> q.note]]
      BY <1>6 DEF Publish
    <2>4. \A m \in Markets : manifest'[m].path \in {manifest[m].path, job[e].file}
      BY <2>2, <2>3 DEF TypeOK
    <2>5. Referenced' \subseteq Referenced \cup {job[e].file}
      BY <2>4 DEF Referenced
    <2>6. NoDanglingPath'
      BY <1>6, <2>1, <2>5 DEF Publish, DanglingInv, NoDanglingPath
    <2>7. /\ \A w \in Writers \ {e} : pc'[w] = "idle"
          /\ pc'[e] = "published"
      BY <1>6, <1>a DEF Publish, Goto, TypeOK
    <2>8. WritersTakeTurns' /\ CleanupSparesRows'
      BY <2>7 DEF WritersTakeTurns, CleanupSparesRows
    <2>9. QED
      BY <2>6, <2>8 DEF DanglingInv
  <1>7. ASSUME NEW p \in Writers, ReadActive(p) PROVE DanglingInv'
    <2>1. \A q \in Writers \ {p} : pc[q] = "idle"
      BY <1>7, <1>a, ProcsAssumption DEF ReadActive
    <2>2. job'[p].active = Referenced
      BY <1>7 DEF ReadActive, TypeOK, Job
    <2>3. QED
      BY <1>7, <2>1, <2>2, DanglingWriter DEF ReadActive, Goto, TypeOK, Pc
  <1>8. ASSUME NEW p \in Writers, ListFiles(p) PROVE DanglingInv'
    <2>1. Referenced \subseteq job[p].active
      BY <1>8 DEF ListFiles, DanglingInv, CleanupSparesRows
    <2>2. job'[p].todo = files \ job[p].active
      BY <1>8 DEF ListFiles, TypeOK, Job
    <2>3. \A q \in Writers \ {p} : pc[q] = "idle"
      BY <1>8, <1>a DEF ListFiles
    <2>4. QED
      BY <1>8, <2>1, <2>2, <2>3, DanglingWriter DEF ListFiles, Goto, TypeOK, Pc
  <1>9. ASSUME NEW p \in Writers, DeleteOne(p) PROVE DanglingInv'
    <2>1. PICK f \in job[p].todo :
            /\ files' = files \ {f}
            /\ job' = [job EXCEPT ![p].todo = @ \ {f}]
      BY <1>9 DEF DeleteOne
    <2>2. Referenced \cap job[p].todo = {}
      BY <1>9 DEF DeleteOne, DanglingInv, CleanupSparesRows
    <2>3. Referenced' = Referenced
      BY <1>9 DEF DeleteOne, Referenced
    <2>4. /\ pc' = pc
          /\ pc[p] = "deleting"
          /\ \A q \in Writers \ {p} : pc[q] = "idle"
      BY <1>9, <1>a DEF DeleteOne
    <2>5. job'[p].todo \subseteq job[p].todo
      BY <2>1 DEF TypeOK, Job
    <2>6. WritersTakeTurns'
      BY <2>4 DEF DanglingInv, WritersTakeTurns
    <2>7. CleanupSparesRows'
      BY <2>2, <2>3, <2>4, <2>5 DEF CleanupSparesRows
    <2>8. NoDanglingPath'
      BY <2>1, <2>2, <2>3 DEF DanglingInv, NoDanglingPath
    <2>9. QED
      BY <2>6, <2>7, <2>8 DEF DanglingInv
  <1>10. ASSUME NEW p \in Procs, pc[p] # "idle", Finish(p),
                UNCHANGED <<files, manifest>>
         PROVE  DanglingInv'
    <2>1. CASE p \in Writers
      BY <1>10, <2>1, <1>a, DanglingWriter DEF Finish, Goto, TypeOK, Pc
    <2>2. CASE p \notin Writers
      BY <1>10, <2>2, DanglingUntouched DEF Finish, Goto, TypeOK
    <2>3. QED
      BY <2>1, <2>2
  <1>11. ASSUME NEW p \in Writers, FinishCleanup(p) PROVE DanglingInv'
    BY <1>11, <1>10 DEF FinishCleanup
  <1>12. ASSUME NEW p \in Procs, Abandon(p) PROVE DanglingInv'
    BY <1>12, <1>10 DEF Abandon
  <1>13. ASSUME NEW r \in Reconcilers, StartReconcile(r) PROVE DanglingInv'
    BY <1>13, DanglingUntouched, ProcsAssumption
    DEF StartReconcile, Goto, TypeOK
  <1>14. ASSUME NEW r \in Reconcilers, Compare(r) PROVE DanglingInv'
    <2>1. \A m \in Markets : manifest'[m].path = manifest[m].path
      BY <1>14, MarkStaleType DEF Compare, TypeOK, Job
    <2>2. \A p \in Writers : pc'[p] = pc[p] /\ job'[p] = job[p]
      BY <1>14, ProcsAssumption DEF Compare, Finish, Goto, TypeOK
    <2>3. QED
      BY <1>14, <2>1, <2>2, DanglingUntouched DEF Compare
  <1>15. ASSUME NEW m \in Markets, ChangeSource(m) \/ ChangeExtras(m) PROVE DanglingInv'
    BY <1>15, DanglingUntouched DEF ChangeSource, ChangeExtras
  <1>16. ASSUME NEW m \in Markets, Exclude(m) \/ Restore(m) PROVE DanglingInv'
    BY <1>16, MarkStaleType, DanglingUntouched DEF Exclude, Restore, TypeOK
  <1>17. ASSUME NEW m \in Markets, Accept(m) \/ Revoke(m) \/ AutoAccept(m)
         PROVE  DanglingInv'
    BY <1>17, AcceptanceKeeps, DanglingUntouched
  <1>18. CASE UNCHANGED vars
    BY <1>18, DanglingUntouched DEF vars
  <1>19. QED
    BY <1>1, <1>2, <1>3, <1>4, <1>5, <1>6, <1>7, <1>8, <1>9, <1>11, <1>12,
       <1>13, <1>14, <1>15, <1>16, <1>17, <1>18
    DEF Next, Export, ReadSource, Cleanup, Reconcile, Operate

(* If the writers of a directory take turns, every active_path names a     *)
(* file that exists: at every step of a publication or a cleanup, and      *)
(* after every crash in the middle of one.                                 *)
THEOREM NoDangling == ASSUME SerialWriters PROVE Spec => []NoDanglingPath
  <1>1. Init => DanglingInv
    BY DEF Init, DanglingInv, WritersTakeTurns, CleanupSparesRows,
           NoDanglingPath, Referenced, MissingRow, Procs, Writers
  <1>2. DanglingInv => NoDanglingPath
    BY DEF DanglingInv
  <1>3. TypeOK /\ DanglingInv /\ [Next]_vars => DanglingInv'
    BY DanglingStep
  <1>4. QED
    BY <1>1, <1>2, <1>3, Typing, PTL DEF Spec
-----------------------------------------------------------------------------
(* Served partitions reflect the exclusions, unless an export has          *)
(* overlooked a change.                                                    *)

(* Steps that change no exclusion and no row, and leave every export that  *)
(* has read the exclusions where it was.                                   *)
LEMMA ExclusionUntouched ==
    ASSUME ExclusionInv, TypeOK,
           UNCHANGED <<excluded, manifest, overlooked>>,
           \A e \in Exporters : pc'[e] \in {"writing", "renamed"} =>
                /\ pc[e] \in {"writing", "renamed"}
                /\ e \in late => e \in late'
                /\ job'[e].market = job[e].market
                /\ job'[e].print = job[e].print
    PROVE  ExclusionInv'
  BY DEF ExclusionInv, ExportsReflectExclusions, RowsReflectExclusions

LEMMA ExclusionStep ==
    TypeOK /\ ProvenanceInv /\ ExclusionInv /\ [Next]_vars => ExclusionInv'
  <1> SUFFICES ASSUME TypeOK, ProvenanceInv, ExclusionInv, [Next]_vars
               PROVE  ExclusionInv'
    OBVIOUS
  <1> USE DEF Procs, history
  <1>1. ASSUME NEW p \in Procs, NEW label, label \notin {"writing", "renamed"},
               pc' = [pc EXCEPT ![p] = label],
               \A q \in Procs \ {p} : job'[q] = job[q],
               UNCHANGED <<excluded, manifest, overlooked>>,
               late \ {p} \subseteq late'
        PROVE  ExclusionInv'
    BY <1>1, ExclusionUntouched DEF TypeOK
  <1>2. ASSUME NEW e \in Exporters, StartExport(e) PROVE ExclusionInv'
    BY <1>2, <1>1 DEF StartExport, Goto, TypeOK
  <1>3. ASSUME NEW p \in Exporters \cup Reconcilers, Count(p)
        PROVE  ExclusionInv'
    BY <1>3, <1>1 DEF Count, Goto, TypeOK
  <1>4. ASSUME NEW p \in Exporters \cup Reconcilers, Fetch(p)
        PROVE  ExclusionInv'
    BY <1>4, <1>1 DEF Fetch, Goto, TypeOK
  <1>5. ASSUME NEW e \in Exporters, Normalise(e) PROVE ExclusionInv'
    <2>1. job[e] \in Job
      BY DEF TypeOK
    <2>2. /\ job'[e].market = job[e].market
          /\ job'[e].print.excluded = excluded[job[e].market]
      BY <1>5, <2>1 DEF Normalise, TypeOK, Job, Fingerprint
    <2>3. \A d \in Exporters \ {e} : job'[d] = job[d] /\ pc'[d] = pc[d]
      BY <1>5 DEF Normalise, Goto, TypeOK
    <2>4. UNCHANGED <<excluded, manifest, late, overlooked>>
      BY <1>5 DEF Normalise
    <2>5. ExportsReflectExclusions'
      BY <2>2, <2>3, <2>4 DEF ExclusionInv, ExportsReflectExclusions
    <2>6. RowsReflectExclusions'
      BY <2>4 DEF ExclusionInv, RowsReflectExclusions
    <2>7. QED
      BY <2>5, <2>6 DEF ExclusionInv
  <1>6. ASSUME NEW e \in Exporters, WriteFile(e) PROVE ExclusionInv'
    BY <1>6, ExclusionUntouched DEF WriteFile, Goto, TypeOK, Job
  <1>7. ASSUME NEW e \in Exporters, Publish(e) PROVE ExclusionInv'
    <2>1. job[e] \in Job /\ pc[e] = "renamed"
      BY <1>7 DEF Publish, TypeOK
    <2>2. e \notin late => job[e].file.excluded = excluded[job[e].market]
      BY <2>1 DEF ProvenanceInv, FileDescribesJob,
                  ExclusionInv, ExportsReflectExclusions
    <2>3. PICK q \in Quality(job[e].print) :
            manifest' = [manifest EXCEPT ![job[e].market] =
                [status |-> q.status, path |-> job[e].file,
                 print |-> job[e].print, note |-> q.note]]
      BY <1>7 DEF Publish
    <2>4. q.status \notin {"stale", "missing"}
      BY DEF Quality
    <2>5. /\ e \in late => job[e].market \in overlooked'
          /\ \A m \in Markets \ {job[e].market} : m \in overlooked => m \in overlooked'
          /\ UNCHANGED excluded
      BY <1>7 DEF Publish
    <2>6. RowsReflectExclusions'
      BY <2>1, <2>2, <2>3, <2>4, <2>5
      DEF ExclusionInv, RowsReflectExclusions, TypeOK, Job
    <2>7. ExportsReflectExclusions'
      BY <1>7 DEF Publish, Goto, ExclusionInv, ExportsReflectExclusions, TypeOK
    <2>8. QED
      BY <2>6, <2>7 DEF ExclusionInv
  <1>8. ASSUME NEW p \in Writers, ReadActive(p) PROVE ExclusionInv'
    BY <1>8, <1>1 DEF ReadActive, Goto, TypeOK, Writers
  <1>9. ASSUME NEW p \in Writers, ListFiles(p) PROVE ExclusionInv'
    BY <1>9, <1>1 DEF ListFiles, Goto, TypeOK, Writers
  <1>10. ASSUME NEW p \in Writers, DeleteOne(p) PROVE ExclusionInv'
    BY <1>10, ExclusionUntouched DEF DeleteOne, TypeOK, Writers
  <1>11. ASSUME NEW p \in Writers, FinishCleanup(p) PROVE ExclusionInv'
    BY <1>11, <1>1 DEF FinishCleanup, Finish, Goto, TypeOK, Writers
  <1>12. ASSUME NEW p \in Procs, Abandon(p) PROVE ExclusionInv'
    BY <1>12, <1>1 DEF Abandon, Finish, Goto, TypeOK
  <1>13. ASSUME NEW r \in Reconcilers, StartReconcile(r) PROVE ExclusionInv'
    BY <1>13, <1>1 DEF StartReconcile, Goto, TypeOK
  <1>14. ASSUME NEW n \in Markets,
                manifest' = [manifest EXCEPT ![n] = MarkStale(@)]
         PROVE  \A m \in Markets :
                  /\ manifest'[m].status = "stale" => manifest'[m].note = "reason"
                  /\ manifest'[m].status = "missing" => manifest'[m].path = NoFile
                  /\ manifest'[m].path # NoFile /\ manifest'[m].note # "reason"
                       => manifest'[m] = manifest[m] /\ m # n
    BY <1>14 DEF MarkStale, ExclusionInv, RowsReflectExclusions, TypeOK, Row
  <1>15. ASSUME NEW r \in Reconcilers, Compare(r) PROVE ExclusionInv'
    <2>1. job[r].market \in Markets
      BY DEF TypeOK, Job
    <2>2. UNCHANGED <<excluded, late, overlooked>>
      BY <1>15 DEF Compare
    <2>3. RowsReflectExclusions'
      BY <1>14, <1>15, <2>1, <2>2
      DEF Compare, ExclusionInv, RowsReflectExclusions
    <2>4. ExportsReflectExclusions'
      BY <1>15, <2>2
      DEF Compare, Finish, Goto, ExclusionInv, ExportsReflectExclusions, TypeOK
    <2>5. QED
      BY <2>3, <2>4 DEF ExclusionInv
  <1>16. ASSUME NEW m \in Markets, ChangeSource(m) \/ ChangeExtras(m) PROVE ExclusionInv'
    BY <1>16, ExclusionUntouched DEF ChangeSource, ChangeExtras
  <1>17. ASSUME NEW m \in Markets, Exclude(m) \/ Restore(m)
         PROVE  ExclusionInv'
    <2>1. late' = late \cup Committed(m) /\ UNCHANGED <<pc, job, overlooked>>
      BY <1>17 DEF Exclude, Restore
    <2>2. /\ manifest' = [manifest EXCEPT ![m] = MarkStale(@)]
          /\ \A n \in Markets \ {m} : excluded'[n] = excluded[n]
      BY <1>17 DEF Exclude, Restore, TypeOK
    <2>3. RowsReflectExclusions'
      BY <2>1, <2>2, <1>14 DEF ExclusionInv, RowsReflectExclusions
    <2>4. ExportsReflectExclusions'
      BY <2>1, <2>2
      DEF Committed, ExclusionInv, ExportsReflectExclusions, TypeOK, Job
    <2>5. QED
      BY <2>3, <2>4 DEF ExclusionInv
  <1>18. ASSUME NEW m \in Markets, Accept(m) \/ Revoke(m) \/ AutoAccept(m)
         PROVE  ExclusionInv'
    <2>1. RowsReflectExclusions'
      BY <1>18 DEF Accept, Revoke, AutoAccept, ExclusionInv,
                   RowsReflectExclusions, TypeOK, Row
    <2>2. ExportsReflectExclusions'
      BY <1>18 DEF Accept, Revoke, AutoAccept, ExclusionInv,
                   ExportsReflectExclusions
    <2>3. QED
      BY <2>1, <2>2 DEF ExclusionInv
  <1>19. CASE UNCHANGED vars
    BY <1>19, ExclusionUntouched DEF vars
  <1>20. QED
    BY <1>2, <1>3, <1>4, <1>5, <1>6, <1>7, <1>8, <1>9, <1>10, <1>11, <1>12,
       <1>13, <1>15, <1>16, <1>17, <1>18, <1>19
    DEF Next, Export, ReadSource, Cleanup, Reconcile, Operate

(* Whatever overlaps or crashes, a served partition that no operator has   *)
(* waved through holds exactly the events that are not excluded now,       *)
(* unless the export that published it had read the exclusions before they *)
(* were last changed (sync/scalars.js, bookDatasets.js: the upsert does    *)
(* not look at the stale mark).                                            *)
THEOREM ExclusionsHold == Spec => []ExclusionsReflected
  <1>1. Init => ProvenanceInv
    BY DEF Init, ProvenanceInv, FileDescribesJob, RowDescribesFile, MissingRow, Procs
  <1>2. Init => ExclusionInv
    BY DEF Init, ExclusionInv, ExportsReflectExclusions, RowsReflectExclusions,
           MissingRow, Procs
  <1>3. ExclusionInv => ExclusionsReflected
    BY DEF ExclusionInv, RowsReflectExclusions, ExclusionsReflected, Usable
  <1>4. TypeOK /\ ProvenanceInv /\ ExclusionInv /\ [Next]_vars => ExclusionInv'
    BY ExclusionStep
  <1>5. QED
    BY <1>1, <1>2, <1>3, <1>4, ProvenanceStep, Typing, PTL DEF Spec

-----------------------------------------------------------------------------
(* What a cleanup has left to do, while the writers take turns.            *)

(* Steps that move no writer, no file and no active_path.                  *)
LEMMA OrphansUntouched ==
    ASSUME OrphansAreListed,
           UNCHANGED files,
           \A m \in Markets : manifest'[m].path = manifest[m].path,
           \A p \in Writers : pc'[p] = pc[p] /\ job'[p] = job[p]
    PROVE  OrphansAreListed'
  <1>1. Referenced' = Referenced
    BY DEF Referenced
  <1>2. QED
    BY <1>1 DEF OrphansAreListed

(* Steps of the one writer that is not idle, which end outside a cleanup   *)
(* or in one that knows what is active.                                    *)
LEMMA OrphansWriter ==
    ASSUME TypeOK, NEW p \in Writers, NEW label \in Pc,
           pc' = [pc EXCEPT ![p] = label],
           \A q \in Writers \ {p} : pc[q] = "idle",
           label = "listing" => job'[p].active = Referenced',
           label = "deleting" => job'[p].todo = files' \ Referenced'
    PROVE  OrphansAreListed'
  <1>1. p \in Procs
    BY DEF Procs, Writers
  <1>2. pc'[p] = label /\ \A q \in Writers \ {p} : pc'[q] = "idle"
    BY <1>1 DEF TypeOK
  <1>3. QED
    BY <1>2 DEF OrphansAreListed

LEMMA OrphansStep ==
    ASSUME SerialWriters
    PROVE  TypeOK /\ DanglingInv /\ OrphansAreListed /\ [Next]_vars
               => OrphansAreListed'
  <1> SUFFICES ASSUME TypeOK, DanglingInv, OrphansAreListed, [Next]_vars
               PROVE  OrphansAreListed'
    OBVIOUS
  <1> USE DEF Procs, Writers
  <1>a. ASSUME NEW p \in Writers, pc[p] # "idle" \/ MayWrite
        PROVE  \A q \in Writers \ {p} : pc[q] = "idle"
    BY <1>a, SerialWriters DEF DanglingInv, WritersTakeTurns, MayWrite
  <1>1. ASSUME NEW e \in Exporters,
               StartExport(e) \/ Normalise(e) \/ WriteFile(e) \/ Publish(e)
        PROVE  OrphansAreListed'
    <2>1. \A q \in Writers \ {e} : pc[q] = "idle"
      BY <1>1, <1>a DEF StartExport, Normalise, WriteFile, Publish
    <2>2. PICK label \in {"counting", "writing", "renamed", "published"} :
            pc' = [pc EXCEPT ![e] = label]
      BY <1>1 DEF StartExport, Normalise, WriteFile, Publish, Goto
    <2>3. QED
      BY <2>1, <2>2, OrphansWriter DEF Pc
  <1>2. ASSUME NEW p \in Exporters \cup Reconcilers, Count(p) \/ Fetch(p)
        PROVE  OrphansAreListed'
    <2>1. CASE p \in Exporters
      <3>1. \A q \in Writers \ {p} : pc[q] = "idle"
        BY <1>2, <2>1, <1>a DEF Count, Fetch
      <3>2. PICK label \in {"fetching", "fetched"} : pc' = [pc EXCEPT ![p] = label]
        BY <1>2 DEF Count, Fetch, Goto
      <3>3. QED
        BY <2>1, <3>1, <3>2, OrphansWriter DEF Pc
    <2>2. CASE p \in Reconcilers
      BY <1>2, <2>2, OrphansUntouched, ProcsAssumption DEF Count, Fetch, Goto, TypeOK
    <2>3. QED
      BY <2>1, <2>2
  <1>3. ASSUME NEW p \in Writers, ReadActive(p) PROVE OrphansAreListed'
    <2>1. \A q \in Writers \ {p} : pc[q] = "idle"
      BY <1>3, <1>a, ProcsAssumption DEF ReadActive
    <2>2. Referenced' = Referenced /\ job'[p].active = Referenced
      BY <1>3 DEF ReadActive, TypeOK, Job, Referenced
    <2>3. pc' = [pc EXCEPT ![p] = "listing"] /\ "listing" \in Pc
      BY <1>3 DEF ReadActive, Goto, Pc
    <2>4. QED
      BY <2>1, <2>2, <2>3, OrphansWriter
  <1>4. ASSUME NEW p \in Writers, ListFiles(p) PROVE OrphansAreListed'
    <2>1. \A q \in Writers \ {p} : pc[q] = "idle"
      BY <1>4, <1>a DEF ListFiles
    <2>2. job[p].active = Referenced
      BY <1>4 DEF ListFiles, OrphansAreListed
    <2>3. Referenced' = Referenced /\ files' = files
      BY <1>4 DEF ListFiles, Referenced
    <2>4. job'[p].todo = files' \ Referenced'
      BY <1>4, <2>2, <2>3 DEF ListFiles, TypeOK, Job
    <2>5. pc' = [pc EXCEPT ![p] = "deleting"] /\ "deleting" \in Pc
      BY <1>4 DEF ListFiles, Goto, Pc
    <2>6. QED
      BY <2>1, <2>4, <2>5, OrphansWriter
  <1>5. ASSUME NEW p \in Writers, DeleteOne(p) PROVE OrphansAreListed'
    <2>1. PICK f \in job[p].todo :
            /\ files' = files \ {f}
            /\ job' = [job EXCEPT ![p].todo = @ \ {f}]
      BY <1>5 DEF DeleteOne
    <2>2. job[p].todo = files \ Referenced
      BY <1>5 DEF DeleteOne, OrphansAreListed
    <2>3. Referenced' = Referenced /\ pc' = pc /\ pc[p] = "deleting"
      BY <1>5 DEF DeleteOne, Referenced
    <2>4. job'[p].todo = files' \ Referenced'
      BY <2>1, <2>2, <2>3 DEF TypeOK, Job
    <2>5. \A q \in Writers \ {p} : pc'[q] = "idle"
      BY <2>3, <1>a
    <2>6. QED
      BY <2>3, <2>4, <2>5 DEF OrphansAreListed
  <1>6. ASSUME NEW p \in Procs, pc[p] # "idle", Finish(p),
               UNCHANGED <<files, manifest>>
        PROVE  OrphansAreListed'
    <2>1. CASE p \in Writers
      BY <1>6, <2>1, <1>a, OrphansWriter DEF Finish, Goto, Pc
    <2>2. CASE p \notin Writers
      BY <1>6, <2>2, OrphansUntouched DEF Finish, Goto, TypeOK
    <2>3. QED
      BY <2>1, <2>2
  <1>7. ASSUME NEW p \in Writers, FinishCleanup(p) PROVE OrphansAreListed'
    BY <1>7, <1>6 DEF FinishCleanup
  <1>8. ASSUME NEW p \in Procs, Abandon(p) PROVE OrphansAreListed'
    BY <1>8, <1>6 DEF Abandon
  <1>9. ASSUME NEW r \in Reconcilers, StartReconcile(r) PROVE OrphansAreListed'
    BY <1>9, OrphansUntouched, ProcsAssumption DEF StartReconcile, Goto, TypeOK
  <1>10. ASSUME NEW r \in Reconcilers, Compare(r) PROVE OrphansAreListed'
    <2>1. \A m \in Markets : manifest'[m].path = manifest[m].path
      BY <1>10, MarkStaleType DEF Compare, TypeOK, Job
    <2>2. \A p \in Writers : pc'[p] = pc[p] /\ job'[p] = job[p]
      BY <1>10, ProcsAssumption DEF Compare, Finish, Goto, TypeOK
    <2>3. QED
      BY <1>10, <2>1, <2>2, OrphansUntouched DEF Compare
  <1>11. ASSUME NEW m \in Markets, ChangeSource(m) \/ ChangeExtras(m) PROVE OrphansAreListed'
    BY <1>11, OrphansUntouched DEF ChangeSource, ChangeExtras
  <1>12. ASSUME NEW m \in Markets, Exclude(m) \/ Restore(m) PROVE OrphansAreListed'
    BY <1>12, MarkStaleType, OrphansUntouched DEF Exclude, Restore, TypeOK
  <1>13. ASSUME NEW m \in Markets, Accept(m) \/ Revoke(m) \/ AutoAccept(m)
         PROVE  OrphansAreListed'
    BY <1>13, AcceptanceKeeps, OrphansUntouched
  <1>14. CASE UNCHANGED vars
    BY <1>14, OrphansUntouched DEF vars
  <1>15. QED
    BY <1>1, <1>2, <1>3, <1>4, <1>5, <1>7, <1>8, <1>9, <1>10, <1>11, <1>12,
       <1>13, <1>14
    DEF Next, Export, ReadSource, Cleanup, Reconcile, Operate

LEMMA SerialInit == Init => DanglingInv /\ OrphansAreListed
  BY DEF Init, DanglingInv, WritersTakeTurns, CleanupSparesRows, OrphansAreListed,
         NoDanglingPath, Referenced, MissingRow, Procs, Writers

(* While the writers take turns, the directory holds, when an export or a  *)
(* cleanup request is over, the files of the rows and nothing else: the    *)
(* orphans of every crashed export are gone, and nothing in use is         *)
(* (CleanupCompletes).                                                     *)
THEOREM NothingIsLeftOver == ASSUME SerialWriters PROVE Spec => CleanupCompletes
  <1>1. DanglingInv /\ OrphansAreListed /\ [Next]_vars
            => [\A p \in Writers : FinishCleanup(p) => files' = Referenced']_vars
    <2> SUFFICES ASSUME DanglingInv, OrphansAreListed,
                        NEW p \in Writers, FinishCleanup(p)
                 PROVE  files' = Referenced'
      OBVIOUS
    <2>1. {} = files \ Referenced
      BY DEF FinishCleanup, OrphansAreListed
    <2>2. Referenced' = Referenced /\ files' = files
      BY DEF FinishCleanup, Referenced
    <2>3. QED
      BY <2>1, <2>2 DEF DanglingInv, NoDanglingPath
  <1>2. TypeOK /\ DanglingInv /\ [Next]_vars => DanglingInv'
    BY DanglingStep
  <1>3. TypeOK /\ DanglingInv /\ OrphansAreListed /\ [Next]_vars => OrphansAreListed'
    BY OrphansStep
  <1>4. QED
    BY <1>1, <1>2, <1>3, SerialInit, Typing, PTL DEF Spec, CleanupCompletes

-----------------------------------------------------------------------------
(* What exporters and reconcilers know of the source, in turns.            *)

(* Steps that change no fingerprint and no source, and leave every process *)
(* that has read one where it was.                                         *)
LEMMA SourcesUntouched ==
    ASSUME TypeOK, SourcesGrow,
           UNCHANGED source,
           \A m \in Markets : manifest'[m].print = manifest[m].print,
           \A p \in Exporters \cup Reconcilers :
               \/ pc'[p] = pc[p] /\ job'[p] = job[p]
               \/ pc'[p] = "idle"
    PROVE  SourcesGrow'
  BY DEF SourcesGrow, TypeOK, Job, Procs

(* Steps of one exporter that take over neither a version nor a file.      *)
LEMMA SourcesExporter ==
    ASSUME TypeOK, SourcesGrow, NEW e \in Exporters,
           UNCHANGED <<source, manifest>>,
           \A p \in Procs \ {e} : pc'[p] = pc[p] /\ job'[p] = job[p],
           pc'[e] \in {"fetched", "writing", "renamed"} =>
               /\ job'[e].market = job[e].market
               /\ manifest[job[e].market].print.source <= job'[e].print.source
               /\ job'[e].print.source <= source[job[e].market]
    PROVE  SourcesGrow'
  BY ProcsAssumption DEF SourcesGrow, Procs

(* Steps of one reconciler that forget nothing it has seen.                *)
LEMMA SourcesReconciler ==
    ASSUME TypeOK, SourcesGrow, NEW r \in Reconcilers,
           UNCHANGED <<source, manifest>>,
           \A p \in Procs \ {r} : pc'[p] = pc[p] /\ job'[p] = job[p],
           pc'[r] \in {"counting", "fetching", "fetched"} =>
               job'[r].seen.source <= manifest[job'[r].market].print.source
    PROVE  SourcesGrow'
  BY ProcsAssumption DEF SourcesGrow, Procs

LEMMA SourcesStep ==
    ASSUME SerialWriters
    PROVE  TypeOK /\ DanglingInv /\ SourcesGrow /\ [Next]_vars => SourcesGrow'
  <1> SUFFICES ASSUME TypeOK, DanglingInv, SourcesGrow, [Next]_vars
               PROVE  SourcesGrow'
    OBVIOUS
  <1> USE DEF Procs
  <1>a. \A m \in Markets : manifest[m].print.source \in Int /\ source[m] \in Int
    BY DEF TypeOK, Row, Fingerprint, Version
  <1>b. \A p \in Exporters \cup Cleaners \cup Reconcilers :
            /\ job[p].market \in Markets
            /\ job[p].print.source \in Int
            /\ job[p].seen.source \in Int
    BY DEF TypeOK, Job, Fingerprint, Version
  <1>1. ASSUME NEW e \in Exporters, StartExport(e) PROVE SourcesGrow'
    BY <1>1, SourcesExporter DEF StartExport, Goto, TypeOK
  <1>2. ASSUME NEW p \in Exporters \cup Reconcilers, Count(p) PROVE SourcesGrow'
    <2>1. CASE p \in Exporters
      BY <1>2, <2>1, SourcesExporter DEF Count, Goto, TypeOK
    <2>2. CASE p \in Reconcilers
      <3>1. /\ job'[p].seen = job[p].seen
            /\ job'[p].market = job[p].market
        BY <1>2, <2>2 DEF Count, TypeOK, Job
      <3>2. QED
        BY <1>2, <2>2, <3>1, SourcesReconciler DEF Count, Goto, TypeOK, SourcesGrow
    <2>3. QED
      BY <2>1, <2>2
  <1>3. ASSUME NEW p \in Exporters \cup Reconcilers, Fetch(p) PROVE SourcesGrow'
    <2>1. /\ job'[p].seen = job[p].seen
          /\ job'[p].market = job[p].market
          /\ job'[p].print.source = source[job[p].market]
      BY <1>3 DEF Fetch, TypeOK, Job, Fingerprint
    <2>2. CASE p \in Exporters
      <3>1. manifest[job[p].market].print.source <= source[job[p].market]
        BY <1>b, <2>2 DEF SourcesGrow
      <3>2. source[job[p].market] <= source[job[p].market]
        BY <1>a, <1>b
      <3>3. QED
        BY <1>3, <2>1, <2>2, <3>1, <3>2, SourcesExporter DEF Fetch, Goto, TypeOK
    <2>3. CASE p \in Reconcilers
      BY <1>3, <2>1, <2>3, SourcesReconciler DEF Fetch, Goto, TypeOK, SourcesGrow
    <2>4. QED
      BY <2>2, <2>3
  <1>4. ASSUME NEW e \in Exporters, Normalise(e) \/ WriteFile(e)
        PROVE  SourcesGrow'
    <2>a. job[e] \in Job
      BY DEF TypeOK, Procs
    <2>1. /\ job'[e].market = job[e].market
          /\ job'[e].print.source = job[e].print.source
      <3>1. CASE Normalise(e)
        BY <2>a, <3>1 DEF Normalise, TypeOK, Job, Fingerprint
      <3>2. CASE WriteFile(e)
        BY <2>a, <3>2 DEF WriteFile, TypeOK, Job
      <3>3. QED
        BY <1>4, <3>1, <3>2
    <2>2. pc[e] \in {"fetched", "writing"}
      BY <1>4 DEF Normalise, WriteFile
    <2>3. QED
      BY <1>4, <2>1, <2>2, SourcesExporter
      DEF Normalise, WriteFile, Goto, TypeOK, SourcesGrow
  <1>5. ASSUME NEW e \in Exporters, Publish(e) PROVE SourcesGrow'
    <2>1. job[e].market \in Markets /\ pc[e] = "renamed"
      BY <1>5, <1>b DEF Publish
    <2>2. PICK q \in Quality(job[e].print) :
            manifest' = [manifest EXCEPT ![job[e].market] =
                [status |-> q.status, path |-> job[e].file,
                 print |-> job[e].print, note |-> q.note]]
      BY <1>5 DEF Publish
    <2>3. /\ manifest'[job[e].market].print = job[e].print
          /\ \A m \in Markets \ {job[e].market} : manifest'[m] = manifest[m]
      BY <2>1, <2>2 DEF TypeOK
    <2>4. /\ manifest[job[e].market].print.source <= job[e].print.source
          /\ job[e].print.source <= source[job[e].market]
      BY <2>1 DEF SourcesGrow
    <2>5. \A m \in Markets :
            /\ manifest[m].print.source <= manifest'[m].print.source
            /\ manifest'[m].print.source <= source[m]
      BY <1>a, <2>3, <2>4 DEF SourcesGrow
    <2>6. \A d \in Exporters \ {e} : pc'[d] = "idle"
      <3>1. \A d \in Exporters \ {e} : pc[d] = "idle"
        BY <2>1 DEF DanglingInv, WritersTakeTurns, Writers
      <3>2. QED
        BY <1>5, <3>1 DEF Publish, Goto, TypeOK
    <2>7. /\ pc'[e] = "published"
          /\ job' = job /\ source' = source
          /\ \A r \in Reconcilers : pc'[r] = pc[r]
      BY <1>5, ProcsAssumption DEF Publish, Goto, TypeOK
    <2>8. ASSUME NEW r \in Reconcilers, pc[r] \in {"counting", "fetching", "fetched"}
          PROVE  job[r].seen.source <= manifest'[job[r].market].print.source
      <3>1. job[r].seen.source <= manifest[job[r].market].print.source
        BY <2>8 DEF SourcesGrow
      <3>2. manifest'[job[r].market].print.source \in Int
        BY <1>a, <1>b, <2>3
      <3>3. QED
        BY <1>a, <1>b, <2>5, <3>1, <3>2
    <2>9. QED
      BY <2>5, <2>6, <2>7, <2>8 DEF SourcesGrow
  <1>6. ASSUME NEW p \in Writers,
               \/ ReadActive(p) \/ ListFiles(p) \/ DeleteOne(p) \/ FinishCleanup(p)
        PROVE  SourcesGrow'
    <2>1. UNCHANGED <<source, manifest>>
      BY <1>6 DEF ReadActive, ListFiles, DeleteOne, FinishCleanup
    <2>2. /\ \A q \in Procs \ {p} : pc'[q] = pc[q] /\ job'[q] = job[q]
          /\ pc'[p] \in {"listing", "deleting", "idle"}
      BY <1>6 DEF ReadActive, ListFiles, DeleteOne, FinishCleanup, Finish, Goto,
                  TypeOK, Writers
    <2>3. QED
      BY <2>1, <2>2, ProcsAssumption DEF SourcesGrow, Writers
  <1>7. ASSUME NEW p \in Procs, Abandon(p) PROVE SourcesGrow'
    BY <1>7, SourcesUntouched DEF Abandon, Finish, Goto, TypeOK
  <1>8. ASSUME NEW r \in Reconcilers, StartReconcile(r) PROVE SourcesGrow'
    <2>1. PICK m \in Markets :
            job' = [job EXCEPT ![r].market = m, ![r].seen = manifest[m].print]
      BY <1>8 DEF StartReconcile
    <2>2. job'[r].market = m /\ job'[r].seen = manifest[m].print
      BY <2>1 DEF TypeOK, Job
    <2>3. manifest[m].print.source <= manifest[m].print.source
      BY <1>a
    <2>4. QED
      BY <1>8, <2>1, <2>2, <2>3, SourcesReconciler, ProcsAssumption
      DEF StartReconcile, Goto, TypeOK
  <1>9. ASSUME NEW r \in Reconcilers, Compare(r) PROVE SourcesGrow'
    <2>1. \A m \in Markets : manifest'[m].print = manifest[m].print
      BY <1>9, <1>b, MarkStaleType DEF Compare, TypeOK
    <2>2. QED
      BY <1>9, <2>1, SourcesUntouched DEF Compare, Finish, Goto, TypeOK
  <1>10. ASSUME NEW m \in Markets, ChangeSource(m) \/ ChangeExtras(m) PROVE SourcesGrow'
    <2>1. /\ source' \in {source, [source EXCEPT ![m] = @ + 1]}
          /\ UNCHANGED <<manifest, pc, job>>
      BY <1>10 DEF ChangeSource, ChangeExtras
    <2>2. \A n \in Markets : source'[n] \in Int /\ source[n] <= source'[n]
      BY <1>a, <2>1 DEF TypeOK
    <2>3. \A n \in Markets : manifest[n].print.source <= source'[n]
      BY <1>a, <2>2 DEF SourcesGrow
    <2>4. ASSUME NEW e \in Exporters, pc[e] \in {"fetched", "writing", "renamed"}
          PROVE  job[e].print.source <= source'[job[e].market]
      <3>1. job[e].print.source <= source[job[e].market]
        BY <2>4 DEF SourcesGrow
      <3>2. QED
        BY <1>a, <1>b, <2>2, <3>1
    <2>5. QED
      BY <2>1, <2>3, <2>4 DEF SourcesGrow
  <1>11. ASSUME NEW m \in Markets, Exclude(m) \/ Restore(m) PROVE SourcesGrow'
    BY <1>11, MarkStaleType, SourcesUntouched DEF Exclude, Restore, TypeOK
  <1>12. ASSUME NEW m \in Markets, Accept(m) \/ Revoke(m) \/ AutoAccept(m)
         PROVE  SourcesGrow'
    BY <1>12, AcceptanceKeeps, SourcesUntouched
  <1>13. CASE UNCHANGED vars
    BY <1>13, SourcesUntouched DEF vars
  <1>14. QED
    BY <1>1, <1>2, <1>3, <1>4, <1>5, <1>6, <1>7, <1>8, <1>9, <1>10, <1>11, <1>12,
       <1>13
    DEF Next, Export, ReadSource, Cleanup, Reconcile, Operate

(* While the exports of a market take turns, a reconciliation that leaves  *)
(* its partition usable has overlooked no repair of a column that the      *)
(* fingerprint hashes: the file on show was made from the version of these *)
(* columns that it read or from a later one, whatever was published,       *)
(* marked or accepted in the meantime.  Of the columns that are exported   *)
(* without being hashed it says nothing, and nothing holds.                *)
THEOREM RepairsAreNoticed ==
    ASSUME SerialWriters PROVE Spec => ReconcileMissesNothing
  <1>1. TypeOK /\ RowDescribesFile /\ SourcesGrow /\ [Next]_vars
            => [\A r \in Reconcilers, m \in Markets :
                    Compare(r) /\ m = job[r].market /\ Usable(m)' =>
                        manifest'[m].path.source >= job[r].print.source]_vars
    <2> SUFFICES ASSUME TypeOK, RowDescribesFile, SourcesGrow,
                        NEW r \in Reconcilers, NEW m \in Markets,
                        Compare(r), m = job[r].market, Usable(m)'
                 PROVE  manifest'[m].path.source >= job[r].print.source
      OBVIOUS
    <2>1. job[r].print = job[r].seen /\ manifest' = manifest
      <3>1. SUFFICES ASSUME manifest' = [manifest EXCEPT ![m] = MarkStale(@)]
                     PROVE  FALSE
        BY DEF Compare
      <3>2. manifest'[m].status \in {"stale", "missing"}
        BY <3>1 DEF TypeOK, Row, MarkStale
      <3>3. QED
        BY <3>2 DEF Usable
    <2>2. manifest[m].path # NoFile
      BY <2>1 DEF Usable
    <2>3. manifest[m].path.source = manifest[m].print.source
      BY <2>2 DEF RowDescribesFile
    <2>4. job[r].seen.source <= manifest[m].print.source
      BY DEF Compare, SourcesGrow
    <2>5. job[r].seen.source \in Int /\ manifest[m].print.source \in Int
      BY DEF TypeOK, Job, Row, Fingerprint, Version, Procs
    <2>6. QED
      BY <2>1, <2>3, <2>4, <2>5
  <1>2. Init => SourcesGrow
    BY DEF Init, SourcesGrow, MissingRow, NoFingerprint, Procs
  <1>3. TypeOK /\ DanglingInv /\ [Next]_vars => DanglingInv'
    BY DanglingStep
  <1>4. TypeOK /\ DanglingInv /\ SourcesGrow /\ [Next]_vars => SourcesGrow'
    BY SourcesStep
  <1>5. Init => DanglingInv
    BY SerialInit
  <1>6. QED
    BY <1>1, <1>2, <1>3, <1>4, <1>5, Typing, Provenance, PTL
    DEF Spec, ReconcileMissesNothing

-----------------------------------------------------------------------------
(* Files in the order of their runs, in turns.                             *)

(* Steps that give no run id, bring no file and publish none.              *)
LEMMA RunsUntouched ==
    ASSUME TypeOK, RunsGrow,
           UNCHANGED nextRun,
           files' \subseteq files,
           \A m \in Markets : manifest'[m].path = manifest[m].path,
           \A e \in Exporters :
               \/ pc'[e] = pc[e] /\ job'[e] = job[e]
               \/ pc'[e] # "renamed"
    PROVE  RunsGrow'
  BY DEF RunsGrow, TypeOK, Job, Procs

LEMMA RunsStep ==
    ASSUME SerialWriters
    PROVE  TypeOK /\ DanglingInv /\ RunsGrow /\ [Next]_vars => RunsGrow'
  <1> SUFFICES ASSUME TypeOK, DanglingInv, RunsGrow, [Next]_vars PROVE RunsGrow'
    OBVIOUS
  <1> USE DEF Procs
  <1>1. ASSUME NEW e \in Exporters, StartExport(e) \/ Normalise(e)
        PROVE  RunsGrow'
    BY <1>1, RunsUntouched DEF StartExport, Normalise, Goto, TypeOK
  <1>2. ASSUME NEW p \in Exporters \cup Reconcilers, Count(p) \/ Fetch(p)
        PROVE  RunsGrow'
    BY <1>2, RunsUntouched DEF Count, Fetch, Goto, TypeOK
  <1>3. ASSUME NEW e \in Exporters, WriteFile(e) PROVE RunsGrow'
    <2> DEFINE f == [run |-> nextRun, market |-> job[e].market,
                     source |-> job[e].print.source,
                     extras |-> job[e].extras,
                     excluded |-> job[e].print.excluded]
    <2>1. /\ files' = files \cup {f}
          /\ job' = [job EXCEPT ![e].file = f]
          /\ pc' = [pc EXCEPT ![e] = "renamed"]
          /\ nextRun' = nextRun + 1
          /\ manifest' = manifest
      BY <1>3 DEF WriteFile, Goto
    <2>2. nextRun \in Int /\ \A g \in files : g.run \in Int
      BY ParametersAssumption DEF TypeOK, File
    <2>3. \A g \in files' : g.run < nextRun'
      BY <2>1, <2>2 DEF RunsGrow
    <2>4. job'[e].market = job[e].market /\ job'[e].file = f
      BY <2>1 DEF TypeOK, Job
    <2>5. ASSUME manifest[job[e].market].path # NoFile
          PROVE  manifest[job[e].market].path.run < nextRun
      <3>1. job[e].market \in Markets
        BY DEF TypeOK, Job
      <3>2. manifest[job[e].market].path \in Referenced
        BY <2>5, <3>1 DEF Referenced
      <3>3. QED
        BY <3>2 DEF DanglingInv, NoDanglingPath, RunsGrow
    <2>6. \A d \in Exporters \ {e} : pc'[d] = pc[d] /\ job'[d] = job[d]
      BY <2>1 DEF TypeOK
    <2>7. ASSUME NEW d \in Exporters, pc'[d] = "renamed",
                 manifest'[job'[d].market].path # NoFile
          PROVE  manifest'[job'[d].market].path.run < job'[d].file.run
      <3>1. CASE d = e
        BY <2>1, <2>4, <2>5, <2>7, <3>1
      <3>2. CASE d # e
        BY <2>1, <2>6, <2>7, <3>2 DEF RunsGrow
      <3>3. QED
        BY <3>1, <3>2
    <2>8. QED
      BY <2>3, <2>7 DEF RunsGrow
  <1>4. ASSUME NEW e \in Exporters, Publish(e) PROVE RunsGrow'
    <2>1. \A d \in Exporters : pc'[d] # "renamed"
      <3>1. \A d \in Exporters \ {e} : pc[d] = "idle"
        BY <1>4 DEF Publish, DanglingInv, WritersTakeTurns, Writers
      <3>2. QED
        BY <1>4, <3>1 DEF Publish, Goto, TypeOK
    <2>2. QED
      BY <1>4, <2>1 DEF Publish, RunsGrow
  <1>5. ASSUME NEW p \in Writers,
               \/ ReadActive(p) \/ ListFiles(p) \/ DeleteOne(p) \/ FinishCleanup(p)
        PROVE  RunsGrow'
    <2>1. UNCHANGED <<nextRun, manifest>> /\ files' \subseteq files
      BY <1>5 DEF ReadActive, ListFiles, DeleteOne, FinishCleanup
    <2>2. /\ \A q \in Procs \ {p} : pc'[q] = pc[q] /\ job'[q] = job[q]
          /\ pc'[p] \in {"listing", "deleting", "idle"}
      BY <1>5 DEF ReadActive, ListFiles, DeleteOne, FinishCleanup, Finish, Goto,
                  TypeOK, Writers
    <2>3. QED
      BY <2>1, <2>2, RunsUntouched
  <1>6. ASSUME NEW p \in Procs, Abandon(p) PROVE RunsGrow'
    BY <1>6, RunsUntouched DEF Abandon, Finish, Goto, TypeOK
  <1>7. ASSUME NEW r \in Reconcilers, StartReconcile(r) PROVE RunsGrow'
    BY <1>7, RunsUntouched DEF StartReconcile, Goto, TypeOK
  <1>8. ASSUME NEW r \in Reconcilers, Compare(r) PROVE RunsGrow'
    <2>1. \A m \in Markets : manifest'[m].path = manifest[m].path
      BY <1>8, MarkStaleType DEF Compare, TypeOK, Job
    <2>2. QED
      BY <1>8, <2>1, RunsUntouched DEF Compare, Finish, Goto, TypeOK
  <1>9. ASSUME NEW m \in Markets, ChangeSource(m) \/ ChangeExtras(m) PROVE RunsGrow'
    BY <1>9, RunsUntouched DEF ChangeSource, ChangeExtras
  <1>10. ASSUME NEW m \in Markets, Exclude(m) \/ Restore(m) PROVE RunsGrow'
    BY <1>10, MarkStaleType, RunsUntouched DEF Exclude, Restore, TypeOK
  <1>11. ASSUME NEW m \in Markets, Accept(m) \/ Revoke(m) \/ AutoAccept(m)
         PROVE  RunsGrow'
    BY <1>11, AcceptanceKeeps, RunsUntouched
  <1>12. CASE UNCHANGED vars
    BY <1>12, RunsUntouched DEF vars
  <1>13. QED
    BY <1>1, <1>2, <1>3, <1>4, <1>5, <1>6, <1>7, <1>8, <1>9, <1>10, <1>11, <1>12
    DEF Next, Export, ReadSource, Cleanup, Reconcile, Operate

-----------------------------------------------------------------------------
(* The refinement of PublishedLake, in turns.                              *)

(* What a row says of its partition.                                       *)
Face(row) ==
    [file |-> row.path,
     usable |-> row.status \in {"valid", "accepted"} /\ row.path # NoFile]

(* Where no row dangles, a reader is shown what the row says.              *)
LEMMA ShownIs ==
    ASSUME NoDanglingPath
    PROVE  Shown = [m \in Markets |-> Face(manifest[m])]
  <1>1. ASSUME NEW m \in Markets
        PROVE  (IF manifest[m].path \in files THEN manifest[m].path ELSE NoFile)
                   = manifest[m].path
    BY DEF NoDanglingPath, Referenced
  <1>2. QED
    BY <1>1 DEF Shown, Face, Usable

LEMMA ShownIsNext ==
    ASSUME NoDanglingPath'
    PROVE  Shown' = [m \in Markets |-> Face(manifest'[m])]
  <1>1. ASSUME NEW m \in Markets
        PROVE  (IF manifest'[m].path \in files' THEN manifest'[m].path ELSE NoFile)
                   = manifest'[m].path
    BY DEF NoDanglingPath, Referenced
  <1>2. QED
    BY <1>1 DEF Shown, Face, Usable

(* Steps that change at most the face of one row change what is shown there *)
(* and nowhere else.                                                       *)
LEMMA ShownAt ==
    ASSUME NoDanglingPath, NoDanglingPath', NEW m \in Markets,
           \A n \in Markets \ {m} : manifest'[n] = manifest[n]
    PROVE  /\ Shown[m] = Face(manifest[m])
           /\ Shown'[m] = Face(manifest'[m])
           /\ Shown' = [Shown EXCEPT ![m] = Face(manifest'[m])]
  <1>1. \A n \in Markets \ {m} : Face(manifest'[n]) = Face(manifest[n])
    OBVIOUS
  <1>2. QED
    BY <1>1, ShownIs, ShownIsNext

(* Steps that change no row at all are stutters of the promise.            *)
LEMMA ShownUntouched ==
    ASSUME NoDanglingPath, NoDanglingPath', UNCHANGED manifest
    PROVE  UNCHANGED Shown
  BY ShownIs, ShownIsNext

(* Steps that change one row and keep its file offer it, withdraw it, or   *)
(* are stutters.                                                           *)
LEMMA ShownMarked ==
    ASSUME NoDanglingPath, NoDanglingPath', NEW m \in Markets,
           manifest'[m].path = manifest[m].path,
           \A n \in Markets \ {m} : manifest'[n] = manifest[n]
    PROVE  [Promise!Next]_Shown
  <1> DEFINE old == Face(manifest[m])
  <1> DEFINE new == Face(manifest'[m])
  <1>1. /\ Shown[m] = old
        /\ Shown' = [Shown EXCEPT ![m] = new]
    BY ShownAt
  <1>2. new.file = old.file
    BY DEF Face
  <1>3. old.usable \in BOOLEAN /\ new.usable \in BOOLEAN
    BY DEF Face
  <1>4. \A u : [old EXCEPT !.usable = u] = [file |-> old.file, usable |-> u]
    BY DEF Face
  <1>5. new = [file |-> old.file, usable |-> new.usable]
    BY <1>2 DEF Face
  <1>6. old = [file |-> old.file, usable |-> old.usable]
    BY DEF Face
  <1>7. new.usable => new.file # NoFile
    BY DEF Face
  <1> HIDE DEF old, new
  <1>8. CASE old.usable = TRUE /\ new.usable = FALSE
    <2>1. Shown[m].usable
      BY <1>1, <1>8
    <2>2. Shown' = [Shown EXCEPT ![m].usable = FALSE]
      <3>1. new = [Shown[m] EXCEPT !.usable = FALSE]
        BY <1>1, <1>4, <1>5, <1>8
      <3>2. QED
        BY <1>1, <3>1
    <2>3. QED
      BY <2>1, <2>2 DEF Promise!Next, Promise!Withdraw
  <1>9. CASE old.usable = FALSE /\ new.usable = TRUE
    <2>1. ~Shown[m].usable /\ Shown[m].file # NoFile
      BY <1>1, <1>2, <1>7, <1>9
    <2>2. Shown' = [Shown EXCEPT ![m].usable = TRUE]
      <3>1. new = [Shown[m] EXCEPT !.usable = TRUE]
        BY <1>1, <1>4, <1>5, <1>9
      <3>2. QED
        BY <1>1, <3>1
    <2>3. QED
      BY <2>1, <2>2 DEF Promise!Next, Promise!Offer
  <1>10. CASE old.usable = new.usable
    <2>1. new = old
      BY <1>5, <1>6, <1>10
    <2>2. Shown' = Shown
      BY <1>1, <2>1 DEF Shown
    <2>3. QED
      BY <2>2
  <1>11. QED
    BY <1>3, <1>8, <1>9, <1>10

(* A publication is the swap: a complete file of the market's own, newer   *)
(* than the one it replaces.                                               *)
LEMMA ShownSwapped ==
    ASSUME TypeOK, NoDanglingPath, NoDanglingPath',
           FileDescribesJob, RunsGrow, NEW e \in Exporters, Publish(e)
    PROVE  Promise!Next
  <1> DEFINE m == job[e].market
  <1> DEFINE new == Face(manifest'[m])
  <1>1. m \in Markets /\ pc[e] = "renamed" /\ job[e].file \in File
    BY DEF Publish, TypeOK, Job, Procs, FileDescribesJob
  <1>2. PICK q \in Quality(job[e].print) :
          manifest' = [manifest EXCEPT ![m] =
              [status |-> q.status, path |-> job[e].file,
               print |-> job[e].print, note |-> q.note]]
    BY DEF Publish
  <1>3. /\ manifest'[m].path = job[e].file
        /\ \A n \in Markets \ {m} : manifest'[n] = manifest[n]
    BY <1>1, <1>2 DEF TypeOK
  <1>4. /\ Shown[m] = Face(manifest[m])
        /\ Shown'[m] = new
        /\ Shown' = [Shown EXCEPT ![m] = Shown'[m]]
    BY <1>1, <1>3, ShownAt
  <1>5. new \in [file : File, usable : BOOLEAN]
    BY <1>1, <1>3 DEF Face
  <1>6. new.file = job[e].file /\ Shown[m].file = manifest[m].path
    BY <1>3, <1>4 DEF Face
  <1>7. new.file.market = m
    BY <1>1, <1>6 DEF FileDescribesJob
  <1>8. Shown[m].file # NoFile => new.file.run > Shown[m].file.run
    <2>1. SUFFICES ASSUME manifest[m].path # NoFile
                   PROVE  job[e].file.run > manifest[m].path.run
      BY <1>6
    <2>2. manifest[m].path \in File
      BY <1>1, <2>1 DEF TypeOK, Row
    <2>3. manifest[m].path.run \in Int /\ job[e].file.run \in Int
      BY <1>1, <2>2 DEF File
    <2>4. manifest[m].path.run < job[e].file.run
      BY <1>1, <2>1 DEF RunsGrow
    <2>5. QED
      BY <2>3, <2>4
  <1> HIDE DEF new
  <1>9. Promise!Swap(m)
    BY <1>4, <1>5, <1>7, <1>8 DEF Promise!Swap
  <1>10. QED
    BY <1>1, <1>9 DEF Promise!Next

(* Every step maps to a step of the promise or to a stutter: only an       *)
(* upsert swaps, only the marking and acceptance of a row withdraws or     *)
(* offers, and no deletion shows.                                          *)
LEMMA PromiseStep ==
    TypeOK /\ NoDanglingPath /\ NoDanglingPath' /\ FileDescribesJob /\ RunsGrow
        /\ [Next]_vars => [Promise!Next]_Shown
  <1> SUFFICES ASSUME TypeOK, NoDanglingPath, NoDanglingPath', FileDescribesJob,
                      RunsGrow, [Next]_vars
               PROVE  [Promise!Next]_Shown
    OBVIOUS
  <1>1. CASE UNCHANGED manifest
    BY <1>1, ShownUntouched
  <1>2. ASSUME NEW e \in Exporters, Publish(e) PROVE [Promise!Next]_Shown
    BY <1>2, ShownSwapped
  <1>3. ASSUME NEW r \in Reconcilers, Compare(r) PROVE [Promise!Next]_Shown
    <2>1. job[r].market \in Markets
      BY DEF TypeOK, Job, Procs
    <2>2. CASE manifest' = [manifest EXCEPT ![job[r].market] = MarkStale(@)]
      <3>1. /\ manifest'[job[r].market].path = manifest[job[r].market].path
            /\ \A n \in Markets \ {job[r].market} : manifest'[n] = manifest[n]
        BY <2>1, <2>2, MarkStaleType DEF TypeOK
      <3>2. QED
        BY <2>1, <3>1, ShownMarked
    <2>3. QED
      BY <1>1, <1>3, <2>2 DEF Compare
  <1>4. ASSUME NEW m \in Markets,
               \/ Exclude(m) \/ Restore(m) \/ Accept(m) \/ Revoke(m) \/ AutoAccept(m)
        PROVE  [Promise!Next]_Shown
    <2>1. \A n \in Markets \ {m} : manifest'[n] = manifest[n]
      BY <1>4 DEF Exclude, Restore, Accept, Revoke, AutoAccept, TypeOK
    <2>2. manifest'[m].path = manifest[m].path
      <3>1. CASE Exclude(m) \/ Restore(m)
        BY <3>1, MarkStaleType DEF Exclude, Restore, TypeOK
      <3>2. CASE Accept(m) \/ Revoke(m) \/ AutoAccept(m)
        BY <3>2 DEF Accept, Revoke, AutoAccept, TypeOK, Row
      <3>3. QED
        BY <1>4, <3>1, <3>2
    <2>3. QED
      BY <2>1, <2>2, ShownMarked
  <1>5. ASSUME NEW e \in Exporters, StartExport(e) \/ Normalise(e) \/ WriteFile(e)
        PROVE  UNCHANGED manifest
    BY <1>5 DEF StartExport, Normalise, WriteFile
  <1>6. ASSUME NEW p \in Procs,
               \/ Count(p) \/ Fetch(p) \/ ReadActive(p) \/ ListFiles(p)
               \/ DeleteOne(p) \/ FinishCleanup(p) \/ Abandon(p) \/ StartReconcile(p)
        PROVE  UNCHANGED manifest
    BY <1>6 DEF Count, Fetch, ReadActive, ListFiles, DeleteOne, FinishCleanup,
                Abandon, StartReconcile
  <1>7. ASSUME NEW m \in Markets, ChangeSource(m) \/ ChangeExtras(m) PROVE UNCHANGED manifest
    BY <1>7 DEF ChangeSource, ChangeExtras
  <1>8. QED
    BY <1>1, <1>2, <1>3, <1>4, <1>5, <1>6, <1>7
    DEF Next, Export, ReadSource, Cleanup, Reconcile, Operate, Procs, Writers, vars

LEMMA PromiseInit == Init => Promise!Init
  <1> SUFFICES ASSUME Init PROVE Shown = [m \in Markets |-> Promise!Empty]
    BY DEF Promise!Init
  <1>1. NoDanglingPath
    BY SerialInit DEF DanglingInv
  <1>2. \A m \in Markets : Face(manifest[m]) = Promise!Empty
    BY DEF Init, MissingRow, Face, Promise!Empty
  <1>3. QED
    BY <1>1, <1>2, ShownIs

(* While the writers of a directory take turns, the whole pipeline of      *)
(* exports, cleanups, reconciliations, markings and crashes shows a reader *)
(* what PublishedLake promises: each partition nothing or one complete     *)
(* file of its own, swapped in one step and never for an older one         *)
(* (ImplementsPublishedLake).                                              *)
THEOREM PublicationIsAtomic ==
    ASSUME SerialWriters PROVE Spec => ImplementsPublishedLake
  <1>1. TypeOK /\ DanglingInv /\ [Next]_vars => DanglingInv'
    BY DanglingStep
  <1>2. TypeOK /\ DanglingInv /\ RunsGrow /\ [Next]_vars => RunsGrow'
    BY RunsStep
  <1>3. Init => ProvenanceInv /\ RunsGrow
    BY DEF Init, RunsGrow, ProvenanceInv, FileDescribesJob, RowDescribesFile,
           MissingRow, Procs
  <1>4. DanglingInv => NoDanglingPath
    BY DEF DanglingInv
  <1>5. ProvenanceInv => FileDescribesJob
    BY DEF ProvenanceInv
  <1>6. Init => DanglingInv
    BY SerialInit
  <1>7. QED
    BY <1>1, <1>2, <1>3, <1>4, <1>5, <1>6, PromiseInit, PromiseStep,
       ProvenanceStep, Typing, PTL
    DEF Spec, ImplementsPublishedLake, Promise!Spec

=============================================================================
