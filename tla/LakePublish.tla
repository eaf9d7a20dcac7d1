----------------------------- MODULE LakePublish -----------------------------
(***************************************************************************)
(* Publication of the Parquet partitions of ONE lake directory.            *)
(*                                                                         *)
(* The SQLite manifest holds one row per market; the rows of all markets   *)
(* of an underlying/interval/day share a directory, because the path does  *)
(* not name the market (lake/paths.js).  Exporters read the source, write  *)
(* a new file, point the row at it and then delete what no row points at.  *)
(* Cleanup requests delete the same way; reconcilers re-read the source    *)
(* and mark rows stale; operators exclude events and accept rows.  Every   *)
(* `await` of the code is a boundary between two actions here, so every    *)
(* interleaving of mapPool workers, threads and processes is a behaviour.  *)
(*                                                                         *)
(* Data is reduced to what the properties tell apart: the source of a      *)
(* market is a version number of the columns that the fingerprint hashes   *)
(* and one of the columns that are exported without being hashed, its      *)
(* manual exclusions are a set of conditions, a file is the versions and   *)
(* the exclusions it was made from.                                        *)
(***************************************************************************)
EXTENDS Integers, FiniteSets

CONSTANTS
    Markets,        \* markets whose partitions share the directory
    Conditions,     \* events (condition ids) an operator may exclude
    Exporters,      \* concurrent exportScalars/BookDatasetPartition calls
    Cleaners,       \* concurrent cleanup requests over the directory
    Reconcilers,    \* concurrent reconcileScalarsPartition calls
    MaxRuns,        \* bound: files ever written
    MaxSource,      \* bound: last version of a market's source
    MaxExtras,      \* bound: last version of its columns that are not hashed
    Dirty,          \* versions with ticks that the quality filters remove
    SerialWriters   \* TRUE: exporters and cleaners of the directory never overlap

Procs == Exporters \cup Cleaners \cup Reconcilers

ASSUME ProcsAssumption ==
    /\ Exporters \cap Cleaners = {}
    /\ Exporters \cap Reconcilers = {}
    /\ Cleaners \cap Reconcilers = {}

ASSUME ParametersAssumption ==
    /\ Markets # {}
    /\ MaxRuns \in Nat
    /\ MaxSource \in Nat
    /\ MaxExtras \in Nat
    /\ Dirty \subseteq 0 .. MaxSource
    /\ SerialWriters \in BOOLEAN

Version == 0 .. MaxSource
Extras  == 0 .. MaxExtras

(* A final file part-<runId>.parquet: runs are unique, files immutable.    *)
File == [run: 1 .. MaxRuns, market: Markets, source: Version, extras: Extras,
         excluded: SUBSET Conditions]

(* active_path IS NULL.                                                    *)
NoFile == [run |-> 0]

(* source_fingerprint: the event counts it was taken over and a checksum   *)
(* of the ticks: of which version, less which events, filtered or not.     *)
(* The checksum is taken over condition, time, prices, price to beat and   *)
(* best quotes or book.  Coverage, degradation, winner, settlement source, *)
(* final price and Binance's price are exported too, and are not in it.    *)
Fingerprint == [counted: Version, source: Version, excluded: SUBSET Conditions,
          filtered: BOOLEAN]
NoFingerprint == [counted |-> 0, source |-> 0, excluded |-> {}, filtered |-> FALSE]

Status == {"missing", "valid", "accepted", "needs_review", "stale"}

(* What the row's error column speaks of; the automatic recheck reads it.  *)
(* "near"/"far": a tick count off by less/more than the tolerance;         *)
(* "normalised": events were left out; "reason": why the row was marked    *)
(* stale, which overwrites the others.                                     *)
Note == {"none", "near", "far", "normalised", "reason"}

Row == [status: Status, path: File \cup {NoFile}, print: Fingerprint, note: Note]

MissingRow == [status |-> "missing", path |-> NoFile, print |-> NoFingerprint,
               note |-> "none"]

VARIABLES
    source,     \* source[m]: version of m's events and ticks in Postgres
    extras,     \* extras[m]: version of the columns that no fingerprint covers
    excluded,   \* excluded[m]: event_exclusions rows of m
    manifest,   \* manifest[m]: lake_manifest row of m
    files,      \* final Parquet files in the directory
    nextRun,    \* next run id
    pc,         \* where each process stands
    job,        \* the local variables of each process
    late,       \* history: exporters whose market's exclusions were changed
                \*   after they had read them
    overlooked  \* history: markets whose row such an exporter published

history == <<late, overlooked>>
vars == <<source, extras, excluded, manifest, files, nextRun, pc, job, history>>

Pc == {"idle", "counting", "fetching", "fetched", "writing", "renamed",
       "published", "listing", "deleting"}

Job == [market: Markets, seen: Fingerprint, print: Fingerprint, extras: Extras,
        file: File \cup {NoFile}, active: SUBSET File, todo: SUBSET File]

IdleJob == [market |-> CHOOSE m \in Markets : TRUE, seen |-> NoFingerprint,
            print |-> NoFingerprint, extras |-> 0, file |-> NoFile, active |-> {},
            todo |-> {}]

Init ==
    /\ source = [m \in Markets |-> 0]
    /\ extras = [m \in Markets |-> 0]
    /\ excluded = [m \in Markets |-> {}]
    /\ manifest = [m \in Markets |-> MissingRow]
    /\ files = {}
    /\ nextRun = 1
    /\ pc = [p \in Procs |-> "idle"]
    /\ job = [p \in Procs |-> IdleJob]
    /\ late = {}
    /\ overlooked = {}

-----------------------------------------------------------------------------
(* Derived from the state.                                                 *)

(* listActiveParquetRelativePaths: whatever the row's status.              *)
Referenced == {manifest[m].path : m \in Markets} \ {NoFile}

(* What availability.js hands to a query or a backtest.                    *)
Usable(m) ==
    /\ manifest[m].status \in {"valid", "accepted"}
    /\ manifest[m].path # NoFile

Writers == Exporters \cup Cleaners

MayWrite == SerialWriters => \A q \in Writers : pc[q] = "idle"

Goto(p, label) == pc' = [pc EXCEPT ![p] = label]

Finish(p) ==
    /\ Goto(p, "idle")
    /\ job' = [job EXCEPT ![p] = IdleJob]

(* Mutant: a status the manifest does not know.                            *)
MarkInvalid(row) ==
    IF row.status \in {"stale", "missing"} THEN row
    ELSE [row EXCEPT !.status = "invalid"]

(* markManifestPartitionStale: a row already stale keeps its reason.       *)
MarkStale(row) ==
    IF row.status \in {"stale", "missing"} THEN row
    ELSE [row EXCEPT !.status = "stale", !.note = "reason"]

-----------------------------------------------------------------------------
(* An export.                                                              *)

(* shouldProcess: a usable row is rebuilt only on request, a row under     *)
(* review only with permission.                                            *)
ShouldProcess(row, rebuild, allowNeedsReview) ==
    \/ rebuild
    \/ row.status \in {"missing", "stale"}
    \/ row.status = "needs_review" /\ allowNeedsReview

(* Mutant: the row is blanked while its file is rebuilt.                   *)
StartExportBlanking(e) ==
    /\ pc[e] = "idle"
    /\ MayWrite
    /\ \E m \in Markets :
        /\ job' = [job EXCEPT ![e].market = m]
        /\ manifest' = [manifest EXCEPT ![m].path = NoFile]
    /\ Goto(e, "counting")
    /\ UNCHANGED <<source, extras, excluded, files, nextRun, history>>

StartExport(e) ==
    /\ pc[e] = "idle"
    /\ MayWrite
    /\ \E m \in Markets, rebuild, allow \in BOOLEAN :
        /\ ShouldProcess(manifest[m], rebuild, allow)
        /\ job' = [job EXCEPT ![e].market = m]
    /\ Goto(e, "counting")
    /\ UNCHANGED <<source, extras, excluded, manifest, files, nextRun, history>>

(* The event list and the tick counts are read first ...                   *)
Count(p) ==
    /\ pc[p] = "counting"
    /\ job' = [job EXCEPT ![p].print.counted = source[job[p].market]]
    /\ Goto(p, "fetching")
    /\ UNCHANGED <<source, extras, excluded, manifest, files, nextRun, history>>

(* ... the rows by a later query ...                                       *)
Fetch(p) ==
    /\ pc[p] = "fetching"
    /\ job' = [job EXCEPT ![p].print.source = source[job[p].market],
                          ![p].extras = extras[job[p].market]]
    /\ Goto(p, "fetched")
    /\ UNCHANGED <<source, extras, excluded, manifest, files, nextRun, history>>

(* ... and the exclusions once the rows are in memory, to be left out with *)
(* the ticks the quality filters reject.                                   *)
Normalise(e) ==
    /\ pc[e] = "fetched"
    /\ job' = [job EXCEPT ![e].print.excluded = excluded[job[e].market],
                          ![e].print.filtered = job[e].print.source \in Dirty]
    /\ Goto(e, "writing")
    /\ UNCHANGED <<source, extras, excluded, manifest, files, nextRun, history>>

(* Write a temporary file and rename it into the directory.                *)
WriteFile(e) ==
    /\ pc[e] = "writing"
    /\ nextRun <= MaxRuns
    /\ LET f == [run |-> nextRun, market |-> job[e].market,
                 source |-> job[e].print.source,
                 extras |-> job[e].extras,
                 excluded |-> job[e].print.excluded]
       IN  /\ files' = files \cup {f}
           /\ job' = [job EXCEPT ![e].file = f]
    /\ nextRun' = nextRun + 1
    /\ Goto(e, "renamed")
    /\ UNCHANGED <<source, extras, excluded, manifest, history>>

(* classifyExportQuality: an export that left ticks out is always valid;   *)
(* otherwise the tick count decides.                                       *)
Quality(print) ==
    IF print.excluded # {} \/ print.filtered
    THEN {[status |-> "valid", note |-> "normalised"]}
    ELSE {[status |-> "valid", note |-> "none"],
          [status |-> "accepted", note |-> "near"],
          [status |-> "needs_review", note |-> "far"]}

(* Mutant: the fingerprint is taken when the row is written.               *)
PublishLateFingerprint(e) ==
    /\ pc[e] = "renamed"
    /\ \E q \in Quality(job[e].print) :
        manifest' = [manifest EXCEPT ![job[e].market] =
            [status |-> q.status, path |-> job[e].file, note |-> q.note,
             print |-> [job[e].print EXCEPT !.source = source[job[e].market]]]]
    /\ Goto(e, "published")
    /\ UNCHANGED <<source, extras, excluded, files, nextRun, job, history>>

(* upsertManifestPartition overwrites the row whatever it says by now.     *)
Publish(e) ==
    /\ pc[e] = "renamed"
    /\ \E q \in Quality(job[e].print) :
        manifest' = [manifest EXCEPT ![job[e].market] =
            [status |-> q.status, path |-> job[e].file,
             print |-> job[e].print, note |-> q.note]]
    /\ overlooked' = IF e \in late THEN overlooked \cup {job[e].market}
                                   ELSE overlooked \ {job[e].market}
    /\ late' = late \ {e}
    /\ Goto(e, "published")
    /\ UNCHANGED <<source, extras, excluded, files, nextRun, job>>

-----------------------------------------------------------------------------
(* cleanupOrphanParquetFiles, at the end of every export and on request.   *)

(* Mutant: only the files of usable rows are taken for active.             *)
ReadUsable(p) ==
    /\ pc[p] = IF p \in Exporters THEN "published" ELSE "idle"
    /\ p \in Cleaners => MayWrite
    /\ job' = [job EXCEPT ![p].active = {manifest[m].path : m \in {n \in Markets : Usable(n)}}]
    /\ Goto(p, "listing")
    /\ UNCHANGED <<source, extras, excluded, manifest, files, nextRun, history>>

(* The set of active paths is read synchronously, once.                    *)
ReadActive(p) ==
    /\ pc[p] = IF p \in Exporters THEN "published" ELSE "idle"
    /\ p \in Cleaners => MayWrite
    /\ job' = [job EXCEPT ![p].active = Referenced]
    /\ Goto(p, "listing")
    /\ UNCHANGED <<source, extras, excluded, manifest, files, nextRun, history>>

(* Mutant: the files of other markets are overlooked.                      *)
ListOwnFiles(p) ==
    /\ pc[p] = "listing"
    /\ job' = [job EXCEPT ![p].todo =
                 {f \in files \ job[p].active : f.market = job[p].market}]
    /\ Goto(p, "deleting")
    /\ UNCHANGED <<source, extras, excluded, manifest, files, nextRun, history>>

(* The directory is listed across awaits; the temporary directory is not.  *)
ListFiles(p) ==
    /\ pc[p] = "listing"
    /\ job' = [job EXCEPT ![p].todo = files \ job[p].active]
    /\ Goto(p, "deleting")
    /\ UNCHANGED <<source, extras, excluded, manifest, files, nextRun, history>>

DeleteOne(p) ==
    /\ pc[p] = "deleting"
    /\ \E f \in job[p].todo :
        /\ files' = files \ {f}
        /\ job' = [job EXCEPT ![p].todo = @ \ {f}]
    /\ UNCHANGED <<source, extras, excluded, manifest, nextRun, pc, history>>

FinishCleanup(p) ==
    /\ pc[p] = "deleting"
    /\ job[p].todo = {}
    /\ Finish(p)
    /\ UNCHANGED <<source, extras, excluded, manifest, files, nextRun, history>>

(* A cancelled job, a failed query, write or listing, a refused archive    *)
(* publication, a killed process: whatever was committed stays.            *)
Abandon(p) ==
    /\ pc[p] # "idle"
    /\ Finish(p)
    /\ late' = late \ {p}
    /\ UNCHANGED <<source, extras, excluded, manifest, files, nextRun, overlooked>>

-----------------------------------------------------------------------------
(* Reconciliation with the source.                                         *)

(* The row is read before the source is.                                   *)
StartReconcile(r) ==
    /\ pc[r] = "idle"
    /\ \E m \in Markets :
        /\ manifest[m].status # "missing"
        /\ job' = [job EXCEPT ![r].market = m, ![r].seen = manifest[m].print]
    /\ Goto(r, "counting")
    /\ UNCHANGED <<source, extras, excluded, manifest, files, nextRun, history>>

(* Mutant: only the event counts are compared.                             *)
CompareCounts(r) ==
    /\ pc[r] = "fetched"
    /\ manifest' =
        IF job[r].print.counted = job[r].seen.counted
        THEN manifest
        ELSE [manifest EXCEPT ![job[r].market] = MarkStale(@)]
    /\ Finish(r)
    /\ UNCHANGED <<source, extras, excluded, files, nextRun, history>>

(* The fresh fingerprint is taken over the RAW rows: nothing is left out.  *)
Compare(r) ==
    /\ pc[r] = "fetched"
    /\ manifest' =
        IF job[r].print = job[r].seen
        THEN manifest
        ELSE [manifest EXCEPT ![job[r].market] = MarkStale(@)]
    /\ Finish(r)
    /\ UNCHANGED <<source, extras, excluded, files, nextRun, history>>

-----------------------------------------------------------------------------
(* The source and the operators.                                           *)

(* data-colector repairs prices, backfills ticks, corrects books.          *)
ChangeSource(m) ==
    /\ source[m] < MaxSource
    /\ source' = [source EXCEPT ![m] = @ + 1]
    /\ UNCHANGED <<extras, excluded, manifest, files, nextRun, pc, job, history>>

(* ... or event_settlements, or another column that is not hashed.         *)
ChangeExtras(m) ==
    /\ extras[m] < MaxExtras
    /\ extras' = [extras EXCEPT ![m] = @ + 1]
    /\ UNCHANGED <<source, excluded, manifest, files, nextRun, pc, job, history>>

(* The exports of m that have read its exclusions and not yet published.   *)
Committed(m) ==
    {e \in Exporters : pc[e] \in {"writing", "renamed"} /\ job[e].market = m}

(* POST /api/quality/exclude and /api/quality/restore; markDayManifestStale *)
(* runs in the same synchronous stretch as the change, whether the day is  *)
(* being exported or not.                                                  *)
Exclude(m) ==
    /\ \E c \in Conditions :
        excluded' = [excluded EXCEPT ![m] = @ \cup {c}]
    /\ manifest' = [manifest EXCEPT ![m] = MarkStale(@)]
    /\ late' = late \cup Committed(m)
    /\ UNCHANGED <<source, extras, files, nextRun, pc, job, overlooked>>

(* Mutant: the restored event's partition is not marked.                   *)
RestoreQuietly(m) ==
    /\ \E c \in excluded[m] :
        excluded' = [excluded EXCEPT ![m] = @ \ {c}]
    /\ late' = late \cup Committed(m)
    /\ UNCHANGED <<source, extras, manifest, files, nextRun, pc, job, overlooked>>

Restore(m) ==
    /\ \E c \in excluded[m] :
        excluded' = [excluded EXCEPT ![m] = @ \ {c}]
    /\ manifest' = [manifest EXCEPT ![m] = MarkStale(@)]
    /\ late' = late \cup Committed(m)
    /\ UNCHANGED <<source, extras, files, nextRun, pc, job, overlooked>>

Accept(m) ==
    /\ manifest[m].path # NoFile
    /\ manifest[m].status \in {"needs_review", "stale"}
    /\ manifest' = [manifest EXCEPT ![m].status = "accepted"]
    /\ UNCHANGED <<source, extras, excluded, files, nextRun, pc, job, history>>

Revoke(m) ==
    /\ manifest[m].status = "accepted"
    /\ manifest' = [manifest EXCEPT ![m].status = "needs_review"]
    /\ UNCHANGED <<source, extras, excluded, files, nextRun, pc, job, history>>

(* acceptEligibleReviewPartitions, run by every availability check: the    *)
(* tick count the error column still quotes is classified again.           *)
AutoAccept(m) ==
    /\ manifest[m].status = "needs_review"
    /\ manifest[m].path # NoFile
    /\ manifest[m].note = "near"
    /\ manifest' = [manifest EXCEPT ![m].status = "accepted"]
    /\ UNCHANGED <<source, extras, excluded, files, nextRun, pc, job, history>>

-----------------------------------------------------------------------------
Export(e)    == \/ StartExport(e) \/ Normalise(e) \/ WriteFile(e) \/ Publish(e)
ReadSource(p) == Count(p) \/ Fetch(p)
Cleanup(p)   == \/ ReadActive(p) \/ ListFiles(p) \/ DeleteOne(p)
                \/ FinishCleanup(p)
Reconcile(r) == StartReconcile(r) \/ Compare(r)
Operate(m)   == \/ Exclude(m) \/ Restore(m) \/ Accept(m) \/ Revoke(m)
                \/ AutoAccept(m)

Next ==
    \/ \E e \in Exporters : Export(e)
    \/ \E p \in Exporters \cup Reconcilers : ReadSource(p)
    \/ \E p \in Writers : Cleanup(p)
    \/ \E r \in Reconcilers : Reconcile(r)
    \/ \E p \in Procs : Abandon(p)
    \/ \E m \in Markets : ChangeSource(m) \/ ChangeExtras(m) \/ Operate(m)

Spec == Init /\ [][Next]_vars

-----------------------------------------------------------------------------
TypeOK ==
    /\ source \in [Markets -> Version]
    /\ extras \in [Markets -> Extras]
    /\ excluded \in [Markets -> SUBSET Conditions]
    /\ manifest \in [Markets -> Row]
    /\ files \subseteq File
    /\ nextRun \in 1 .. MaxRuns + 1
    /\ pc \in [Procs -> Pc]
    /\ job \in [Procs -> Job]
    /\ late \subseteq Exporters
    /\ overlooked \subseteq Markets

(* Every active_path, of whatever status, names a file that is there.      *)
(* Holds when the directory's writers do not overlap: an exporter's own    *)
(* cleanup, the crash of an earlier export and a cleanup request all spare *)
(* the file of every row.                                                  *)
NoDanglingPath == Referenced \subseteq files

(* The row and the file it points at tell the same story: the file is the  *)
(* market's own and was made from the version and the exclusions that the  *)
(* row's fingerprint records, however exporters, reconcilers and operators *)
(* interleave.                                                             *)
RowDescribesFile ==
    \A m \in Markets : manifest[m].path # NoFile =>
        /\ manifest[m].path.market = m
        /\ manifest[m].path.source = manifest[m].print.source
        /\ manifest[m].path.excluded = manifest[m].print.excluded

(* An excluded event is in no partition that is served, and a restored one *)
(* is not missing from it, however exports, edits, reconciliations and     *)
(* acceptances interleave, with two exceptions: an operator accepted the   *)
(* stale row, or the row was published by an export that had read the      *)
(* exclusions before they were changed, and wrote over the stale mark.     *)
ExclusionsReflected ==
    \A m \in Markets :
        Usable(m) /\ manifest[m].note # "reason" /\ m \notin overlooked =>
            manifest[m].path.excluded = excluded[m]

(* The documentation's sentence: an excluded event does not get into the   *)
(* Parquet file that is served.  An export that overlooks the change puts  *)
(* it there.                                                               *)
ExcludedNeverServed ==
    \A m \in Markets :
        Usable(m) /\ manifest[m].note # "reason" =>
            excluded[m] \subseteq manifest[m].path.excluded

(* When an export or a cleanup request gets to its end, the directory      *)
(* holds the rows' files and nothing else: orphans left by crashed or      *)
(* abandoned exports are gone, and nothing in use is.                      *)
CleanupCompletes ==
    [][\A p \in Writers : FinishCleanup(p) => files' = Referenced']_vars

(* A reconciliation that leaves a partition usable has not overlooked a    *)
(* repair of a column that the fingerprint hashes (ticks, prices, books,   *)
(* event counts): the file is made from what it read of them, or later,    *)
(* whatever was exported or edited since it read the row, as long as       *)
(* exports do not overlap.                                                 *)
ReconcileMissesNothing ==
    [][\A r \in Reconcilers, m \in Markets :
        Compare(r) /\ m = job[r].market /\ Usable(m)' =>
            manifest'[m].path.source >= job[r].print.source]_vars

(* The documentation's sentence, of every column of the source: a change   *)
(* of a settlement, a coverage or Binance's price is overlooked.           *)
ReconcileSeesEveryRepair ==
    [][\A r \in Reconcilers, m \in Markets :
        Compare(r) /\ m = job[r].market /\ Usable(m)' =>
            manifest'[m].path.extras >= job[r].extras]_vars

-----------------------------------------------------------------------------
(* The strengthenings that make the invariants inductive.                  *)

(* Between the rename and the upsert the new file is complete, describes   *)
(* what the exporter read, and no row points at it yet.                    *)
FileDescribesJob ==
    \A e \in Exporters : pc[e] = "renamed" =>
        /\ job[e].file # NoFile
        /\ job[e].file.market = job[e].market
        /\ job[e].file.source = job[e].print.source
        /\ job[e].file.excluded = job[e].print.excluded

ProvenanceInv == FileDescribesJob /\ RowDescribesFile

WritersTakeTurns ==
    \A p, q \in Writers : pc[p] # "idle" /\ pc[q] # "idle" => p = q

(* A cleanup's stale knowledge is still right: what it spares includes     *)
(* every row's file, what it is about to delete is nobody's.               *)
CleanupSparesRows ==
    \A p \in Writers :
        /\ pc[p] = "renamed" => job[p].file \in files
        /\ pc[p] = "listing" => Referenced \subseteq job[p].active
        /\ pc[p] = "deleting" => Referenced \cap job[p].todo = {}

DanglingInv == WritersTakeTurns /\ CleanupSparesRows /\ NoDanglingPath

ExportsReflectExclusions ==
    \A e \in Exporters : pc[e] \in {"writing", "renamed"} /\ e \notin late =>
        job[e].print.excluded = excluded[job[e].market]

RowsReflectExclusions ==
    \A m \in Markets :
        /\ manifest[m].status = "stale" => manifest[m].note = "reason"
        /\ manifest[m].status = "missing" => manifest[m].path = NoFile
        /\ manifest[m].path # NoFile /\ manifest[m].note # "reason"
                /\ m \notin overlooked =>
                manifest[m].path.excluded = excluded[m]

ExclusionInv == ExportsReflectExclusions /\ RowsReflectExclusions

(* Nothing becomes active, and no file appears, between a cleanup's reading *)
(* of the rows and its last deletion: what it has left to do is exactly    *)
(* what no row points at.                                                  *)
OrphansAreListed ==
    \A p \in Writers :
        /\ pc[p] = "listing" => job[p].active = Referenced
        /\ pc[p] = "deleting" => job[p].todo = files \ Referenced

(* An export holds a version that is at least the row's, and a             *)
(* reconciliation has seen a fingerprint that is at most the row's.        *)
SourcesGrow ==
    /\ \A m \in Markets : manifest[m].print.source <= source[m]
    /\ \A e \in Exporters : pc[e] \in {"fetched", "writing", "renamed"} =>
        /\ manifest[job[e].market].print.source <= job[e].print.source
        /\ job[e].print.source <= source[job[e].market]
    /\ \A r \in Reconcilers : pc[r] \in {"counting", "fetching", "fetched"} =>
        job[r].seen.source <= manifest[job[r].market].print.source

(* Run ids are given in order, and a file that is about to be published is *)
(* newer than the one it replaces.                                         *)
RunsGrow ==
    /\ \A f \in files : f.run < nextRun
    /\ \A e \in Exporters : pc[e] = "renamed" =>
        LET old == manifest[job[e].market].path
        IN  old # NoFile => old.run < job[e].file.run

-----------------------------------------------------------------------------
(* What a reader is shown of m: the file behind active_path, if any.       *)
Shown == [m \in Markets |->
    [file |-> IF manifest[m].path \in files THEN manifest[m].path ELSE NoFile,
     usable |-> Usable(m)]]

Promise == INSTANCE PublishedLake WITH shown <- Shown, Nothing <- NoFile

(* The whole pipeline, crashes included, is an atomic swap of one complete *)
(* file for a newer one.                                                   *)
ImplementsPublishedLake == Promise!Spec
=============================================================================
