----------------------------- MODULE ColumnCache -----------------------------
(***************************************************************************)
(* How a backtest reads one day of ticks: through the manifest row, and    *)
(* through the cache of column sets kept on disk beside the state          *)
(* database, while an export replaces the day under it.                    *)
(*                                                                         *)
(* The day is held by two datasets: backtest_ticks, exported from the      *)
(* source, and backtest_ticks_lite, derived from it for strategies that    *)
(* need no book.  A load takes the row first, accepts the cached day if    *)
(* its metadata names that row's file and fingerprint, and otherwise       *)
(* streams the Parquet file and stores what it got under the row it took   *)
(* first.  Several loads run at once, each in a process of its own:        *)
(* backtests in child processes, sweeps, warm-ups asked for by the API or  *)
(* the command line.  Nothing keeps one process's step, or a kill, from    *)
(* falling between the two file operations of another's lookup or store.   *)
(*                                                                         *)
(* LakePublish has the steps of an export one by one; here a publication   *)
(* is one step, because a reader learns of a file from its row alone.      *)
(***************************************************************************)
EXTENDS Naturals, Sequences, FiniteSets

CONSTANTS
    Loads,    \* loads of the day that may be under way together
    Warmups,  \* those of them that are warm-ups
    None,     \* no fingerprint, path or content
    MaxFiles, \* bound: Parquet files ever written
    MaxDay    \* bound: edits of the day's data

ASSUME CacheAssumption ==
    /\ Warmups \subseteq Loads
    /\ MaxFiles \in Nat
    /\ MaxDay \in Nat \ {0}
    /\ None \notin Nat

Ticks == "backtest_ticks"
Lite  == "backtest_ticks_lite"
Dataset == {Ticks, Lite}

Status == {"missing", "valid", "needs_review", "accepted", "stale"}

VARIABLES
    day,    \* version of the day's data, its exclusions included
    rows,   \* rows[d]: lake_manifest row of the day in d
    made,   \* the dataset each Parquet file was written for, in order
    files,  \* the Parquet files on disk, by position in `made`
    job,    \* the export under way
    cache,  \* cache[d]: the files dt=<day>.columns.bin and .meta.json
    load,   \* load[l]: what load l remembers
    torn,   \* history: slots whose columns and metadata are of different stores
    crossed \* history: loads whose slot was torn, or lost its columns to
            \*   another store, between their two file operations

history == <<torn, crossed>>
vars == <<day, rows, made, files, job, cache, load, torn, crossed>>

Path == 1..MaxFiles
Fingerprint == 1..MaxDay

Row == [status: Status, active_path: Path \cup {None},
        source_fingerprint: Fingerprint \cup {None}]

(* What a column set holds: the file it was read from, and whether the     *)
(* rows that no backtest may see were filtered out on the way.             *)
Content == [file: Path, valid_rows: BOOLEAN]

(* What a load remembers of the row it took, and writes beside the columns *)
(* it stores.                                                              *)
Meta == [active_path: Path \cup {None}, source_fingerprint: Fingerprint \cup {None}]
NoMeta == [active_path |-> None, source_fingerprint |-> None]
MetaOf(row) == [active_path |-> row.active_path,
                source_fingerprint |-> row.source_fingerprint]

MissingRow == [status |-> "missing", active_path |-> None, source_fingerprint |-> None]

NoJob  == [phase |-> "idle", print |-> None]
NoLoad == [phase |-> "idle", dataset |-> Ticks, meta |-> NoMeta,
           path |-> None, content |-> None]

Init ==
    /\ day = 1
    /\ rows = [d \in Dataset |-> MissingRow]
    /\ made = <<>>
    /\ files = {}
    /\ job = NoJob
    /\ cache = [d \in Dataset |-> [bin |-> None, meta |-> None]]
    /\ load = [l \in Loads |-> NoLoad]
    /\ torn = {}
    /\ crossed = {}

Ready(row) == row.status \in {"valid", "accepted"} /\ row.active_path # None

-----------------------------------------------------------------------------
(* The writers of the manifest.                                            *)

(* A new Parquet file of d, and the row that names it.                     *)
Publish(d, status, print) ==
    /\ Len(made) < MaxFiles
    /\ made' = Append(made, d)
    /\ files' = files \cup {Len(made) + 1}
    /\ rows' = [rows EXCEPT ![d] = [status |-> status, active_path |-> Len(made) + 1,
                                    source_fingerprint |-> print]]

(* The source and the exclusions are read; a usable row is rebuilt only on *)
(* request, so a re-export of one is possible too.                         *)
StartExport ==
    /\ job.phase = "idle"
    /\ job' = [phase |-> "exporting", print |-> day]
    /\ UNCHANGED <<day, rows, made, files, cache, load, history>>

(* The tick counts agree with the source's or they do not.                 *)
PublishTicks(status) ==
    /\ job.phase = "exporting"
    /\ Publish(Ticks, status, job.print)
    /\ job' = [job EXCEPT !.phase = "deriving"]
    /\ UNCHANGED <<day, cache, load, history>>

(* exportBacktestTicksLitePartition, after an export of ticks or on its    *)
(* own: it needs usable ticks, and leaves a valid lite row alone unless    *)
(* told to rebuild.                                                        *)
StartLite(rebuild) ==
    /\ job.phase \in {"idle", "deriving"}
    /\ Ready(rows[Ticks])
    /\ rows[Lite].status = "valid" => rebuild
    /\ job' = [phase |-> "deriving_lite", print |-> None]
    /\ UNCHANGED <<day, rows, made, files, cache, load, history>>

(* The row of the lite dataset carries no fingerprint.                     *)
PublishLite ==
    /\ job.phase = "deriving_lite"
    /\ Publish(Lite, "valid", None)
    /\ job' = NoJob
    /\ UNCHANGED <<day, cache, load, history>>

(* The export fails, is cancelled, or skips the lite dataset.              *)
EndExport ==
    /\ job.phase # "idle"
    /\ job' = NoJob
    /\ UNCHANGED <<day, rows, made, files, cache, load, history>>

(* Mutant: the rows get a status that no writer of the day sets.           *)
EditDayRebuilding ==
    /\ day < MaxDay
    /\ day' = day + 1
    /\ rows' = [d \in Dataset |->
                  IF rows[d].status = "missing" THEN rows[d]
                  ELSE [rows[d] EXCEPT !.status = "rebuilding"]]
    /\ UNCHANGED <<made, files, job, cache, load, history>>

(* An operator excludes an event of the day, or takes it back:             *)
(* markDayManifestStale marks every dataset of the day.                    *)
EditDay ==
    /\ day < MaxDay
    /\ day' = day + 1
    /\ rows' = [d \in Dataset |->
                  IF rows[d].status = "missing" THEN rows[d]
                  ELSE [rows[d] EXCEPT !.status = "stale"]]
    /\ UNCHANGED <<made, files, job, cache, load, history>>

(* Mutant: the cleanup keeps the files of usable rows only.                *)
RemoveUnusable(f) ==
    /\ f \in files
    /\ \A d \in Dataset : Ready(rows[d]) => rows[d].active_path # f
    /\ files' = files \ {f}
    /\ UNCHANGED <<day, rows, made, job, cache, load, history>>

(* Files no row names go: at the end of an export, or by a cleanup.        *)
RemoveReplaced(f) ==
    /\ f \in files
    /\ \A d \in Dataset : rows[d].active_path # f
    /\ files' = files \ {f}
    /\ UNCHANGED <<day, rows, made, job, cache, load, history>>

-----------------------------------------------------------------------------
(* A load: loadBacktestColumnSetWithDiskCache on one day.                  *)

Set(l, new) == load' = [load EXCEPT ![l] = new]

Refused == [NoLoad EXCEPT !.phase = "refused"]

(* findManifestPartitionRow; a day that is not ready fails the load.       *)
ReadRow(l, d) ==
    /\ load[l].phase = "idle"
    /\ Set(l, IF Ready(rows[d])
              THEN [NoLoad EXCEPT !.phase = "looking", !.dataset = d, !.meta = MetaOf(rows[d])]
              ELSE Refused)
    /\ UNCHANGED <<day, rows, made, files, job, cache, history>>

(* Mutant: the fingerprint alone is compared.                              *)
FingerprintValid(slot, row) ==
    /\ slot.meta # None
    /\ slot.bin # None
    /\ slot.meta.source_fingerprint = row.source_fingerprint

(* isPartitionCacheValid: the metadata must name the row's file and        *)
(* fingerprint, and the columns must be there.                             *)
PartitionCacheValid(slot, row) ==
    /\ slot.meta # None
    /\ slot.bin # None
    /\ slot.meta.source_fingerprint = row.source_fingerprint
    /\ slot.meta.active_path = row.active_path

(* readValidPartitionMeta.  The case of an empty column set under a row    *)
(* that counts ticks, read again every time, is left out.                  *)
ReadMeta(l) ==
    /\ load[l].phase = "looking"
    /\ LET d == load[l].dataset
           valid == PartitionCacheValid(cache[d], load[l].meta)
       IN  /\ Set(l, [load[l] EXCEPT !.phase = IF valid THEN "reading" ELSE "missed"])
           /\ crossed' = crossed \cup {k \in {l} : valid /\ d \in torn}
    /\ UNCHANGED <<day, rows, made, files, job, cache, torn>>

(* readColumnSetPartition; columns removed meanwhile are a miss.           *)
ReadBin(l) ==
    /\ load[l].phase = "reading"
    /\ LET bin == cache[load[l].dataset].bin
       IN  /\ Set(l, IF bin = None THEN [load[l] EXCEPT !.phase = "missed"]
                     ELSE [load[l] EXCEPT !.phase = "served", !.content = bin])
           /\ crossed' = crossed \ {k \in {l} : bin = None}
    /\ UNCHANGED <<day, rows, made, files, job, cache, torn>>

(* loadBacktestColumnSetFromDuckdb asks the manifest again, which accepts  *)
(* a row under review whose counts are near enough, and takes its file.    *)
Open(l, near) ==
    /\ load[l].phase = "missed"
    /\ LET d   == load[l].dataset
           row == IF near /\ rows[d].status = "needs_review"
                  THEN [rows[d] EXCEPT !.status = "accepted"] ELSE rows[d]
       IN  /\ rows' = [rows EXCEPT ![d] = row]
           /\ Set(l, IF Ready(row)
                     THEN [load[l] EXCEPT !.phase = "opened", !.path = row.active_path]
                     ELSE Refused)
    /\ UNCHANGED <<day, made, files, job, cache, history>>

(* The file is streamed; it may be gone by now.  A backtest asks for valid *)
(* rows only (validBacktestRows); a warm-up does not.                      *)
Stream(l) ==
    /\ load[l].phase = "opened"
    /\ Set(l, IF load[l].path \in files
              THEN [load[l] EXCEPT
                      !.phase = "storing", !.path = None,
                      !.content = [file |-> load[l].path, valid_rows |-> l \notin Warmups]]
              ELSE [load[l] EXCEPT !.phase = "file_gone"])
    /\ UNCHANGED <<day, rows, made, files, job, cache, history>>

(* Loads other than l that are between two operations on the files of d.   *)
Halfway(l, d) ==
    {k \in Loads \ {l} : load[k].phase \in {"reading", "labelling"} /\ load[k].dataset = d}

(* writeColumnSetPartition: the columns are renamed into place first.      *)
StoreBin(l) ==
    /\ load[l].phase = "storing"
    /\ LET d == load[l].dataset
       IN  /\ cache' = [cache EXCEPT ![d].bin = load[l].content]
           /\ torn' = torn \cup {d}
           /\ crossed' = crossed \cup Halfway(l, d)
    /\ Set(l, [load[l] EXCEPT !.phase = "labelling"])
    /\ UNCHANGED <<day, rows, made, files, job>>

(* The metadata on disk is of the store that wrote the columns beside it,  *)
(* unless another store has replaced them in between.                      *)
Label(l, meta) ==
    /\ load[l].phase = "labelling"
    /\ LET d == load[l].dataset
       IN  /\ cache' = [cache EXCEPT ![d].meta = meta]
           /\ torn' = IF l \in crossed THEN torn \cup {d} ELSE torn \ {d}
    /\ crossed' = crossed \ {l}
    /\ Set(l, [load[l] EXCEPT !.phase = "served"])
    /\ UNCHANGED <<day, rows, made, files, job>>

(* Mutant: the metadata is of the row as it is after the query.            *)
StoreMetaNow(l) == Label(l, MetaOf(rows[load[l].dataset]))

(* Then the metadata, which is of the row taken at the start.              *)
StoreMeta(l) == Label(l, load[l].meta)

Leave(l) ==
    /\ Set(l, NoLoad)
    /\ crossed' = crossed \ {l}
    /\ UNCHANGED <<day, rows, made, files, job, cache, torn>>

(* The caller has its columns, or its error.                               *)
EndLoad(l) == load[l].phase \in {"served", "refused", "file_gone"} /\ Leave(l)

(* A child process is stopped with SIGKILL, or dies: at any point, the     *)
(* middle of a store included.                                             *)
Kill(l) == load[l].phase # "idle" /\ Leave(l)

(* evictDatasetDiskCacheIfNeeded and clearDatasetDiskCache remove files    *)
(* one by one, in the order of the directory or columns first.             *)
RemoveBin(d) ==
    /\ cache[d].bin # None
    /\ cache' = [cache EXCEPT ![d].bin = None]
    /\ UNCHANGED <<day, rows, made, files, job, load, history>>

RemoveMeta(d) ==
    /\ cache[d].meta # None
    /\ cache' = [cache EXCEPT ![d].meta = None]
    /\ UNCHANGED <<day, rows, made, files, job, load, history>>

-----------------------------------------------------------------------------
Next ==
    \/ StartExport
    \/ \E status \in {"valid", "needs_review"} : PublishTicks(status)
    \/ \E rebuild \in BOOLEAN : StartLite(rebuild)
    \/ PublishLite
    \/ EndExport
    \/ EditDay
    \/ \E f \in files : RemoveReplaced(f)
    \/ \E l \in Loads :
         \/ \E d \in Dataset : ReadRow(l, d)
         \/ ReadMeta(l)
         \/ ReadBin(l)
         \/ \E near \in BOOLEAN : Open(l, near)
         \/ Stream(l)
         \/ StoreBin(l)
         \/ StoreMeta(l)
         \/ EndLoad(l)
         \/ Kill(l)
    \/ \E d \in Dataset : RemoveBin(d) \/ RemoveMeta(d)

Spec == Init /\ [][Next]_vars

-----------------------------------------------------------------------------
(* Properties.                                                             *)

Phase == {"idle", "looking", "refused", "missed", "reading", "opened", "file_gone",
          "storing", "labelling", "served"}

(* What a load remembers, in any phase.                                    *)
Memory == [phase: Phase, dataset: Dataset, meta: Meta, path: Path \cup {None},
           content: Content \cup {None}]

(* Every variable has its shape.                                           *)
TypeOK ==
    /\ day \in Fingerprint
    /\ rows \in [Dataset -> Row]
    /\ made \in Seq(Dataset) /\ Len(made) <= MaxFiles
    /\ files \subseteq 1..Len(made)
    /\ job \in [phase: {"idle", "exporting", "deriving", "deriving_lite"},
                print: Fingerprint \cup {None}]
    /\ cache \in [Dataset -> [bin: Content \cup {None}, meta: Meta \cup {None}]]
    /\ load \in [Loads -> Memory]
    /\ torn \subseteq Dataset
    /\ crossed \subseteq Loads

(* Metadata on disk that names the file the manifest names lies beside the *)
(* columns of that very file, if both are of one store: however the row    *)
(* has moved between the moment a load takes it, the query's own look at   *)
(* the manifest and the store, a lookup that accepts a whole cached day    *)
(* accepts the day that is published (columnSetDisk.js,                    *)
(* datasetDiskStore.js).  A store that another store crossed, or that was  *)
(* killed between its renames, is the exception.                           *)
CacheDescribesRow ==
    \A d \in Dataset \ torn :
        PartitionCacheValid(cache[d], rows[d]) => cache[d].bin.file = rows[d].active_path

(* What a load returns was published for its dataset, and not after the    *)
(* file the row names now; and it is not older than the row the load began *)
(* with, unless the load accepted a torn slot, or another store replaced   *)
(* the columns between its two reads (datasetDiskLoader.js).               *)
ServedWasPublished ==
    \A l \in Loads :
        load[l].phase = "served" =>
            LET d == load[l].dataset
            IN  /\ load[l].content.file <= rows[d].active_path
                /\ made[load[l].content.file] = d
                /\ l \notin crossed => load[l].meta.active_path <= load[l].content.file

(* A load that found its day ready and then lost its file did so because   *)
(* the day was published again meanwhile, never because a file in use was  *)
(* removed (sync/cleanup and columnChunkReader.js).                        *)
LostFileWasReplaced ==
    \A l \in Loads :
        load[l].phase = "file_gone" => rows[load[l].dataset].active_path > load[l].path

(* No store of d is between its two renames.                               *)
Settled(d) == \A l \in Loads : load[l].phase = "labelling" => load[l].dataset # d

(* The documents call the cache transparent to whoever uses the engine,    *)
(* and have the fingerprint and the path invalidate what is not the        *)
(* published day: without the exceptions made above, and whoever stored    *)
(* it, what a backtest's lookup accepts is what its query would return.    *)
CacheTransparent ==
    \A d \in Dataset :
        (Settled(d) /\ PartitionCacheValid(cache[d], rows[d]))
            => cache[d].bin = [file |-> rows[d].active_path, valid_rows |-> TRUE]

-----------------------------------------------------------------------------
(* The strengthenings that make the invariants inductive.                  *)

(* File f was published for d, and d has been published since, if at all.  *)
Published(d, f) ==
    /\ f \in 1..Len(made) /\ made[f] = d
    /\ rows[d].active_path # None /\ f <= rows[d].active_path

(* A row that names a file names one on disk that was written for it.      *)
RowInv ==
    \A d \in Dataset :
        rows[d].active_path # None =>
            rows[d].active_path \in files /\ made[rows[d].active_path] = d

(* Whatever the cache names was published for its dataset.                 *)
SlotInv(d) ==
    /\ cache[d].bin # None => Published(d, cache[d].bin.file)
    /\ cache[d].meta # None => Published(d, cache[d].meta.active_path)

(* So was what a load remembers, and it streams no older a file than the   *)
(* one of the row it began with.                                           *)
LoadInv(l) ==
    /\ load[l].phase \notin {"idle", "refused"} =>
           Published(load[l].dataset, load[l].meta.active_path)
    /\ load[l].phase \in {"opened", "file_gone"} =>
           /\ Published(load[l].dataset, load[l].path)
           /\ load[l].meta.active_path <= load[l].path
    /\ load[l].phase \in {"storing", "labelling", "served"} =>
           Published(load[l].dataset, load[l].content.file)
    /\ load[l].phase \in {"storing", "labelling"} =>
           load[l].meta.active_path <= load[l].content.file
    /\ load[l].phase = "file_gone" => load[l].path \notin files

MemoryInv == (\A d \in Dataset : SlotInv(d)) /\ (\A l \in Loads : LoadInv(l))

(* Metadata of one store with the columns beside it is of a row not newer  *)
(* than they are; and the columns that a lookup has accepted, or that a    *)
(* store is to label, stay where they are until they are read or labelled, *)
(* unless they are removed or another store crosses.                       *)
SlotPaired(d) ==
    (d \notin torn /\ cache[d].bin # None /\ cache[d].meta # None) =>
        cache[d].meta.active_path <= cache[d].bin.file

LoadPaired(l) ==
    l \notin crossed =>
        LET bin == cache[load[l].dataset].bin
        IN  /\ load[l].phase = "labelling" => bin \in {load[l].content, None}
            /\ (load[l].phase = "reading" /\ bin # None) =>
                   load[l].meta.active_path <= bin.file
            /\ load[l].phase = "served" => load[l].meta.active_path <= load[l].content.file

PairInv == (\A d \in Dataset : SlotPaired(d)) /\ (\A l \in Loads : LoadPaired(l))
=============================================================================
