---------------------------- MODULE TelegramBackup ----------------------------
(***************************************************************************)
(* The backup of the lake to a Telegram channel and its restore            *)
(* (backup/runner.js, upload.js, restore.js), with the run rows and the    *)
(* artifact rows they keep (state/telegramBackup.js).                      *)
(*                                                                         *)
(* A backup walks over the groups of its request, each an underlying in    *)
(* one interval and book depth, and over the partitions of each.  A file   *)
(* that is not known to be in the channel is sent in pieces, each entered  *)
(* as an artifact; a file that is known is skipped and its artifacts are   *)
(* named instead.  The entries of a group make an asset catalogue, and the *)
(* catalogues a master catalogue, the message a restore reads.  Every send *)
(* is an await, at which an operator may cancel, the server may die, or    *)
(* Telegram may refuse.                                                    *)
(*                                                                         *)
(* An incremental backup that sends nothing of a group names, in place of  *)
(* a new catalogue, the first one that the last completed backup has of    *)
(* the group's underlying, whatever its interval and depth.                *)
(*                                                                         *)
(* Backups of the command line take turns with those of the server, which  *)
(* the code does not enforce.  Left out: exclusions, progress, settings    *)
(* but for the refusal of a disabled backup, and the restore of the        *)
(* command line, which keeps no row.                                       *)
(***************************************************************************)
EXTENDS Integers

CONSTANTS
    Days,         \* partitions: the days of the groups
    Groups,       \* in the order in which a request walks over them
    GroupOf,      \* the group of each partition
    Underlyings,  \* BTC, ETH, ...
    UnderlyingOf, \* the underlying of each group
    Pieces,       \* the chunks of a file are 0 .. Pieces - 1
    Scopes,       \* the sets of days a request may name
    MaxRuns,      \* bound: rows of telegram_backup_runs ever inserted
    MaxVersion,   \* bound: files ever exported for a day
    MaxTroubles   \* bound: requests refused by Telegram and ends of a process

ASSUME BackupAssumption ==
    /\ Groups \subseteq Nat
    /\ GroupOf \in [Days -> Groups]
    /\ UnderlyingOf \in [Groups -> Underlyings]
    /\ Pieces \in Nat \ {0}
    /\ Scopes \subseteq SUBSET Days
    /\ MaxRuns \in Nat
    /\ MaxVersion \in Nat
    /\ MaxTroubles \in Nat

Runs == 1 .. MaxRuns
NoRun == 0
Chunks == 0 .. Pieces - 1

Open   == {"queued", "running"}
Over   == {"completed", "failed", "cancelled"}
Status == {"none", "deleted"} \cup Open \cup Over

(* A restore counts as a run.                                              *)
Kind == {"full", "incremental", "dry", "restore"}
Origin == {"server", "cli"}

(* A row of telegram_backup_artifacts; run NoRun: there is no row.  A      *)
(* skipped one refers to no message.                                       *)
Artifact == [run : Runs \cup {NoRun}, version : 0 .. MaxVersion, skipped : BOOLEAN]
NoArtifact == [run |-> NoRun, version |-> 0, skipped |-> FALSE]

(* An entry of a catalogue: the file it stands for and the pieces it names. *)
Entry == [version : 1 .. MaxVersion, pieces : SUBSET Chunks]

Nothing == [d \in {} |-> 0]

First(g, G) == g \in G /\ \A h \in G : g <= h

(* "check": backup_ready is computed; "walk": between two partitions;      *)
(* "read", "send": within one; "catalogue", "master", "final": the message *)
(* that is on its way, the last ones being the pin and the summary.        *)
Phase == {"idle", "check", "walk", "read", "send", "catalogue", "master", "final", "restore"}

VARIABLES
    lake,      \* lake[d]: version of the valid file of day d; 0: none
    newest,    \* newest[d]: version exported last
    row,       \* row[r]: column status of telegram_backup_runs
    kind,      \* kind[r]: the request
    origin,    \* origin[r]: the process that executes it
    scope,     \* scope[r]: the days it names
    saw,       \* saw[r]: manifest rows at its start
    artifact,  \* artifact[d][c]
    assets,    \* assets[r][g]: the catalogue that run r has for group g
    sent,      \* runs whose master catalogue is in the channel
    work,      \* the run at work, and its local variables
    waiting,   \* stop-all or clear-local waits for the end of that run
    failures,
    crashes

request == <<kind, origin, scope>>
channel == <<assets, sent>>
files == <<lake, newest>>
bounds == <<failures, crashes>>
vars == <<files, row, request, saw, artifact, channel, work, waiting, bounds>>

(* entries, changed and spoilt are of the group that is being walked over, *)
(* of the groups that are left; a restore reads the master catalogue of    *)
(* run `of`.                                                               *)
Idle == [run |-> NoRun, phase |-> "idle", groups |-> {}, todo |-> {}, doing |-> {},
         piece |-> 0, entries |-> Nothing, of |-> NoRun, incremental |-> FALSE,
         changed |-> FALSE, spoilt |-> FALSE, errors |-> FALSE, cancelled |-> FALSE,
         handled |-> FALSE]

Init ==
    /\ lake = [d \in Days |-> 0]
    /\ newest = [d \in Days |-> 0]
    /\ row = [r \in Runs |-> "none"]
    /\ kind = [r \in Runs |-> "full"]
    /\ origin = [r \in Runs |-> "server"]
    /\ scope = [r \in Runs |-> {}]
    /\ saw = [r \in Runs |-> Nothing]
    /\ artifact = [d \in Days |-> [c \in Chunks |-> NoArtifact]]
    /\ assets = [r \in Runs |-> Nothing]
    /\ sent = {}
    /\ work = Idle
    /\ waiting = FALSE
    /\ failures = 0
    /\ crashes = 0

-----------------------------------------------------------------------------
(* The rows.                                                               *)

(* updateTelegramBackupRun: a deleted row is not found.                    *)
SetRow(rows, r, status) ==
    IF rows[r] = "deleted" THEN rows ELSE [rows EXCEPT ![r] = status]

(* deleteArtifactsForRun, for a set of runs.                               *)
WithoutRuns(R) ==
    [d \in Days |-> [c \in Chunks |->
        IF artifact[d][c].run \in R THEN NoArtifact ELSE artifact[d][c]]]

(* cancelTelegramBackupRunRecord, for a set of runs.                       *)
CancelRecords(R) ==
    /\ artifact' = WithoutRuns(R)
    /\ row' = [r \in Runs |->
            IF r \in R /\ row[r] # "deleted" THEN "cancelled" ELSE row[r]]

AtWork(process) == work.run \in {r \in Runs : origin[r] = process}

ActiveRuns == {r \in Runs : row[r] \in Open}

(* Completed runs, of which the last one decides.                          *)
Completed == {r \in Runs : row[r] = "completed"}
IsLast(r, R) == r \in R /\ \A q \in R : q <= r

(* getIncrementalBackupBaseline: the last completed run, of any kind, has  *)
(* a master catalogue, and some artifact refers to a message.              *)
BaselineReady ==
    /\ \E r \in sent : IsLast(r, Completed)
    /\ \E d \in Days, c \in Chunks :
        artifact[d][c].run # NoRun /\ ~artifact[d][c].skipped

(* getLatestPartitionUploadArtifacts: the rows of the last run among them. *)
Uploaded(d) == {c \in Chunks : artifact[d][c].run # NoRun /\ ~artifact[d][c].skipped}
LatestUpload(d) ==
    {c \in Uploaded(d) : \A b \in Uploaded(d) : artifact[d][b].run <= artifact[d][c].run}

(* getLatestFileShaForPartition: the first piece bears the sha of the file.*)
KnownVersion(d) == IF 0 \in Uploaded(d) THEN artifact[d][0].version ELSE 0

(* buildSkippedPartitionCatalogEntry.                                      *)
SkippedEntry(d) ==
    [version |-> artifact[d][0].version, pieces |-> LatestUpload(d)]

-----------------------------------------------------------------------------
(* The lake.                                                               *)

(* An export of a day; it removes the file it replaces.                    *)
Rebuild(d) ==
    /\ newest[d] < MaxVersion
    /\ newest' = [newest EXCEPT ![d] = @ + 1]
    /\ lake' = [lake EXCEPT ![d] = newest[d] + 1]
    /\ UNCHANGED <<row, request, saw, artifact, channel, work, waiting, bounds>>

-----------------------------------------------------------------------------
(* Requests.                                                               *)

Fresh(r) == row[r] = "none" /\ \A q \in Runs : q < r => row[q] # "none"

(* No run is at work, and the records are cleared in the turn of the event *)
(* loop in which the run that was waited for has ended.                    *)
Register(r, by, k, days) ==
    /\ Fresh(r)
    /\ work.run = NoRun /\ ~waiting
    /\ kind' = [kind EXCEPT ![r] = k]
    /\ origin' = [origin EXCEPT ![r] = by]
    /\ scope' = [scope EXCEPT ![r] = days]

GroupsOf(D) == {GroupOf[d] : d \in D}

(* From selectGroups on: the partitions that are in the lake.              *)
Begin(r, k, days) ==
    LET found == {d \in days : lake[d] > 0}
    IN  \/ /\ found = {}
           /\ row' = SetRow(row, r, "failed")
           /\ work' = Idle
           /\ UNCHANGED saw
        \/ /\ found # {}
           /\ row' = SetRow(row, r, "running")
           /\ saw' = [saw EXCEPT ![r] = [d \in found |-> lake[d]]]
           /\ work' = [Idle EXCEPT !.run = r, !.phase = "walk", !.todo = found,
                           !.groups = GroupsOf(found),
                           !.incremental = (k = "incremental" /\ BaselineReady)]

(* enqueueTelegramBackup: the route, the daily schedule, the end of an     *)
(* asset update.                                                           *)
Enqueue(r, k, days) ==
    /\ Register(r, "server", k, days)
    /\ ActiveRuns = {}
    /\ \/ /\ k = "dry"
          /\ Begin(r, k, days)
       \/ /\ k # "dry"
          /\ row' = [row EXCEPT ![r] = "queued"]
          /\ work' = [Idle EXCEPT !.run = r, !.phase = "check"]
          /\ UNCHANGED saw
    /\ UNCHANGED <<files, artifact, channel, waiting, bounds>>

(* ... when the backup is disabled and the operator sends manually: the    *)
(* row is left as it was created, whatever its kind.                       *)
EnqueueDisabled(r, days) ==
    /\ Register(r, "server", "full", days)
    /\ ActiveRuns = {}
    /\ row' = [row EXCEPT ![r] = "queued"]
    /\ UNCHANGED <<files, saw, artifact, channel, work, waiting, bounds>>

(* backup:telegram of the command line, from the insertion of its row.  It *)
(* does not look at the slot.                                              *)
StartCli(r, k, days) ==
    /\ Register(r, "cli", k, days)
    /\ Begin(r, k, days)
    /\ UNCHANGED <<files, artifact, channel, waiting, bounds>>

(* enqueueTelegramRestore, of a catalogue that is in the channel.          *)
EnqueueRestore(r, m) ==
    /\ Register(r, "server", "restore", {})
    /\ ActiveRuns = {}
    /\ m \in sent
    /\ row' = [row EXCEPT ![r] = "running"]
    /\ \E g \in Groups :
        /\ First(g, DOMAIN assets[m])
        /\ work' = [Idle EXCEPT !.run = r, !.phase = "restore", !.of = m,
                        !.groups = DOMAIN assets[m], !.entries = assets[m][g],
                        !.todo = DOMAIN assets[m][g]]
    /\ UNCHANGED <<files, saw, artifact, channel, waiting, bounds>>

(* cancelTelegramBackupRun: the control of the run is told, if this        *)
(* process has it.                                                         *)
Cancel(r) ==
    /\ r \in ActiveRuns
    /\ CancelRecords({r})
    /\ work' = IF work.run = r /\ origin[r] = "server"
               THEN [work EXCEPT !.cancelled = TRUE]
               ELSE work
    /\ UNCHANGED <<files, request, saw, channel, waiting, bounds>>

(* clearTelegramBackupLocalRecords.  The messages stay in the channel.     *)
Clear ==
    /\ artifact' = [d \in Days |-> [c \in Chunks |-> NoArtifact]]
    /\ row' = [r \in Runs |-> IF row[r] = "none" THEN "none" ELSE "deleted"]

(* POST .../clear-local and .../stop-all: every run is cancelled, the run  *)
(* of this process is waited for, which handles its exception.             *)
StopAll ==
    \/ /\ ~AtWork("server")
       /\ Clear \/ CancelRecords(ActiveRuns)
       /\ UNCHANGED <<files, request, saw, channel, work, waiting, bounds>>
    \/ /\ AtWork("server")
       /\ CancelRecords(ActiveRuns)
       /\ work' = [work EXCEPT !.cancelled = TRUE, !.handled = TRUE]
       /\ waiting' = TRUE
       /\ UNCHANGED <<files, request, saw, channel, bounds>>

(* Its end has come, or the twenty seconds are over; stop-all may have     *)
(* been told to keep the records.                                          *)
ClearLocal ==
    /\ waiting
    /\ waiting' = FALSE
    /\ Clear \/ UNCHANGED <<artifact, row>>
    /\ UNCHANGED <<files, request, saw, channel, work, bounds>>

-----------------------------------------------------------------------------
(* A backup at work.  r is its run.                                        *)

Phased(r, phase) == work.run = r /\ work.phase = phase

(* The end of the process of the server, and the recovery at its next      *)
(* start.                                                                  *)
Restarted ==
    /\ CancelRecords(ActiveRuns)
    /\ work' = Idle
    /\ waiting' = FALSE
    /\ UNCHANGED <<files, request, saw, channel, failures>>

(* A promise that is rejected and that nobody handles ends the process.    *)
Rejected ==
    \/ /\ work.handled
       /\ work' = Idle
       /\ UNCHANGED <<files, row, request, saw, artifact, channel, waiting, failures>>
    \/ ~work.handled /\ Restarted

(* Cancelled during the check: the exception leaves runTelegramBackup.     *)
ThrowEarly(r) ==
    /\ Phased(r, "check")
    /\ work.cancelled
    /\ Rejected
    /\ UNCHANGED crashes

NotReady(r) ==
    /\ Phased(r, "check")
    /\ ~work.cancelled
    /\ row' = SetRow(row, r, "failed")
    /\ work' = Idle
    /\ UNCHANGED <<files, request, saw, artifact, channel, waiting, bounds>>

Ready(r) ==
    /\ Phased(r, "check")
    /\ ~work.cancelled
    /\ Begin(r, kind[r], scope[r])
    /\ UNCHANGED <<files, request, artifact, channel, waiting, bounds>>

(* Telegram refuses, the network fails, a file cannot be read.             *)
Failure == failures + crashes < MaxTroubles /\ failures' = failures + 1

WithEntry(d, entry) ==
    [e \in {d} \cup DOMAIN work.entries |-> IF e = d THEN entry ELSE work.entries[e]]

(* The partition is done.                                                  *)
Done(d) == [work EXCEPT !.phase = "walk", !.todo = @ \ {d}, !.doing = {}, !.piece = 0]

(* A partition that fails is noted, and the next one is tried.             *)
Noted(d) == [Done(d) EXCEPT !.spoilt = TRUE, !.errors = TRUE]

(* The next partition of the group, and its sha256.                        *)
ReadFile(r, d) ==
    /\ Phased(r, "walk") /\ ~work.cancelled
    /\ d \in work.todo /\ First(GroupOf[d], work.groups)
    /\ work' = [work EXCEPT !.phase = "read", !.doing = {d}]
    /\ UNCHANGED <<files, row, request, saw, artifact, channel, waiting, bounds>>

Reading(r, d) == Phased(r, "read") /\ d \in work.doing

(* The file that the manifest named at the start cannot be read, perhaps   *)
(* because it has been replaced.                                           *)
Unreadable(r, d) ==
    /\ Reading(r, d)
    /\ \/ lake[d] # saw[r][d] /\ UNCHANGED failures
       \/ Failure
    /\ work' = Noted(d)
    /\ UNCHANGED <<files, row, request, saw, artifact, channel, waiting, crashes>>

(* Mutant: some file of the day is in the channel.                         *)
UnchangedByName(r, d) == work.incremental /\ 0 \in Uploaded(d)
(* This file of the day is known to be in the channel.                     *)
Unchanged(r, d) == work.incremental /\ KnownVersion(d) = saw[r][d]

(* The artifact of the skipped file takes the place of its first piece.    *)
Skip(r, d) ==
    /\ Reading(r, d)
    /\ Unchanged(r, d)
    /\ artifact' = [artifact EXCEPT ![d] = [@ EXCEPT ![0] =
                        [run |-> r, version |-> saw[r][d], skipped |-> TRUE]]]
    /\ work' = [Done(d) EXCEPT !.entries = WithEntry(d, SkippedEntry(d))]
    /\ UNCHANGED <<files, row, request, saw, channel, waiting, bounds>>

DryRun(r, d) ==
    /\ Reading(r, d)
    /\ kind[r] = "dry"
    /\ work' = Done(d)
    /\ UNCHANGED <<files, row, request, saw, artifact, channel, waiting, bounds>>

(* What was known of the file is forgotten before it is sent.              *)
StartUpload(r, d) ==
    /\ Reading(r, d)
    /\ kind[r] # "dry"
    /\ ~Unchanged(r, d)
    /\ artifact' = [artifact EXCEPT ![d] = [c \in Chunks |-> NoArtifact]]
    /\ work' = [work EXCEPT !.phase = "send"]
    /\ UNCHANGED <<files, row, request, saw, channel, waiting, bounds>>

(* Mutant: the last piece is looked for one too late.                      *)
LastPieceMissed == work.piece = Pieces
LastPiece == work.piece + 1 = Pieces

(* A piece and its sidecar.  The pieces of a file are sent to the end,     *)
(* even when the run has been cancelled.                                   *)
SendPiece(r, d) ==
    /\ Phased(r, "send")
    /\ d \in work.doing
    /\ artifact' = [artifact EXCEPT ![d] = [@ EXCEPT ![work.piece] =
                        [run |-> r, version |-> saw[r][d], skipped |-> FALSE]]]
    /\ \/ /\ ~LastPiece
          /\ work' = [work EXCEPT !.piece = @ + 1]
       \/ /\ LastPiece
          /\ work' = [Done(d) EXCEPT !.changed = TRUE,
                 !.entries = WithEntry(d, [version |-> saw[r][d], pieces |-> Chunks])]
    /\ UNCHANGED <<files, row, request, saw, channel, waiting, bounds>>

(* The artifacts of the pieces before stay.                                *)
FailPiece(r, d) ==
    /\ Phased(r, "send")
    /\ d \in work.doing
    /\ Failure
    /\ work' = Noted(d)
    /\ UNCHANGED <<files, row, request, saw, artifact, channel, waiting, crashes>>

(* Completed backups, which have a master catalogue.                       *)
Ended == Completed \cap sent

(* getLastCompletedAssetCatalog: the first one of the underlying in the    *)
(* last backup that has one.                                               *)
Related(q, g) == {h \in DOMAIN assets[q] : UnderlyingOf[h] = UnderlyingOf[g]}
Previous(g) == {q \in Ended : Related(q, g) # {}}

(* The catalogues of a run, one per group.                                 *)
WithAsset(r, g, entries) ==
    [assets EXCEPT ![r] =
        [h \in {g} \cup DOMAIN @ |-> IF h = g THEN entries ELSE @[h]]]

(* The groups G are left.                                                  *)
Onward(G) ==
    IF G = {} THEN [work EXCEPT !.groups = G, !.phase = "master"]
    ELSE [work EXCEPT !.groups = G, !.phase = "walk", !.entries = Nothing,
                      !.changed = FALSE, !.spoilt = FALSE]

(* At the end of a group its catalogue is sent if anything has changed;    *)
(* else an earlier one is taken for good.  A dry run only counts.          *)
StartCatalogue(r) ==
    /\ Phased(r, "walk") /\ ~work.cancelled
    /\ \E g \in Groups :
        /\ First(g, work.groups)
        /\ \A d \in work.todo : GroupOf[d] # g
        /\ \/ /\ kind[r] # "dry"
              /\ ~work.incremental \/ work.changed \/ work.spoilt \/ Previous(g) = {}
              /\ assets' = WithAsset(r, g, work.entries)
              /\ work' = [work EXCEPT !.phase = "catalogue", !.groups = @ \ {g}]
           \/ /\ kind[r] # "dry"
              /\ work.incremental /\ ~work.changed /\ ~work.spoilt
              /\ \E q \in Previous(g), h \in Groups :
                    /\ IsLast(q, Previous(g)) /\ First(h, Related(q, g))
                    /\ assets' = WithAsset(r, g, assets[q][h])
              /\ work' = Onward(work.groups \ {g})
           \/ /\ kind[r] = "dry"
              /\ work' = [work EXCEPT !.groups = @ \ {g}]
              /\ UNCHANGED assets
    /\ UNCHANGED <<files, row, request, saw, artifact, sent, waiting, bounds>>

CatalogueSent(r) ==
    /\ Phased(r, "catalogue") /\ ~work.cancelled
    /\ work' = Onward(work.groups)
    /\ UNCHANGED <<files, row, request, saw, artifact, channel, waiting, bounds>>

(* The master catalogue is sent; its pinning and the summary follow.       *)
MasterSent(r) ==
    /\ Phased(r, "master")
    /\ sent' = sent \cup {r}
    /\ work' = [work EXCEPT !.phase = "final"]
    /\ UNCHANGED <<files, row, request, saw, artifact, assets, waiting, bounds>>

(* Mutant: nobody looks once more whether the run has been cancelled.      *)
FinishUnasked(r) ==
    /\ Phased(r, "final")
    /\ row' = SetRow(row, r, IF work.errors THEN "failed" ELSE "completed")
    /\ work' = Idle
    /\ UNCHANGED <<files, request, saw, artifact, channel, waiting, bounds>>
Finish(r) ==
    /\ \/ Phased(r, "final")
       \/ Phased(r, "walk") /\ kind[r] = "dry" /\ work.groups = {}
    /\ ~work.cancelled
    /\ row' = SetRow(row, r, IF work.errors THEN "failed" ELSE "completed")
    /\ work' = Idle
    /\ UNCHANGED <<files, request, saw, artifact, channel, waiting, bounds>>

(* Mutant: the row is cancelled already, so nothing is done about it.      *)
StopAtCheckIdly(r) ==
    /\ work.run = r /\ work.phase \in {"walk", "catalogue", "final"}
    /\ work.cancelled
    /\ work' = Idle
    /\ UNCHANGED <<files, row, request, saw, artifact, channel, waiting, bounds>>
(* assertNotCancelled: between two partitions and after the messages.      *)
StopAtCheck(r) ==
    /\ work.run = r /\ work.phase \in {"walk", "catalogue", "final"}
    /\ work.cancelled
    /\ CancelRecords({r})
    /\ work' = Idle
    /\ UNCHANGED <<files, request, saw, channel, waiting, bounds>>

(* Mutant: only partitions are expected to fail.                           *)
BreakSilently(r) ==
    /\ work.run = r /\ work.phase \in {"catalogue", "master", "final"}
    /\ Failure
    /\ work' = Idle
    /\ UNCHANGED <<files, row, request, saw, artifact, channel, waiting, crashes>>
(* A catalogue or the summary cannot be sent.                              *)
Break(r) ==
    /\ work.run = r /\ work.phase \in {"catalogue", "master", "final"}
    /\ Failure
    /\ row' = SetRow(row, r, "failed")
    /\ work' = Idle
    /\ UNCHANGED <<files, request, saw, artifact, channel, waiting, crashes>>

-----------------------------------------------------------------------------
(* A restore at work.                                                      *)

(* The catalogue of the next asset is read.                                *)
NextAsset(r) ==
    /\ Phased(r, "restore") /\ ~work.cancelled
    /\ work.todo = {}
    /\ \E g, h \in Groups :
        /\ First(g, work.groups) /\ First(h, work.groups \ {g})
        /\ work' = [work EXCEPT !.groups = @ \ {g}, !.entries = assets[work.of][h],
                                !.todo = DOMAIN assets[work.of][h]]
    /\ UNCHANGED <<files, row, request, saw, artifact, channel, waiting, bounds>>

(* The pieces are merged, the file is written where the catalogue says,    *)
(* and the row of that time is put back.                                   *)
RestoreDay(r, d) ==
    /\ Phased(r, "restore") /\ ~work.cancelled
    /\ d \in work.todo
    /\ work.entries[d].pieces = Chunks
    /\ lake' = [lake EXCEPT ![d] = work.entries[d].version]
    /\ work' = [work EXCEPT !.todo = @ \ {d}]
    /\ UNCHANGED <<newest, row, request, saw, artifact, channel, waiting, bounds>>

(* The pieces do not make the file of the entry, or one cannot be had.     *)
RefuseDay(r, d) ==
    /\ Phased(r, "restore") /\ ~work.cancelled
    /\ d \in work.todo
    /\ IF work.entries[d].pieces = Chunks THEN Failure ELSE UNCHANGED failures
    /\ work' = [work EXCEPT !.todo = @ \ {d}, !.errors = TRUE]
    /\ UNCHANGED <<files, row, request, saw, artifact, channel, waiting, crashes>>

LastAsset == \E g \in Groups : work.groups = {g}

(* The cancellation is checked before an asset and before a partition, not *)
(* after the last one.                                                     *)
FinishRestore(r) ==
    /\ Phased(r, "restore")
    /\ work.todo = {} /\ LastAsset
    /\ row' = SetRow(row, r, IF work.errors THEN "failed" ELSE "completed")
    /\ work' = Idle
    /\ UNCHANGED <<files, request, saw, artifact, channel, waiting, bounds>>

(* finalizeCancelledRun leaves a row alone that is cancelled already.      *)
StopRestore(r) ==
    /\ Phased(r, "restore")
    /\ work.cancelled
    /\ work.todo # {} \/ DOMAIN work.entries = {} \/ ~LastAsset
    /\ \/ row[r] = "cancelled" /\ UNCHANGED <<row, artifact>>
       \/ row[r] # "cancelled" /\ CancelRecords({r})
    /\ work' = Idle
    /\ UNCHANGED <<files, request, saw, channel, waiting, bounds>>

(* A catalogue cannot be read: the row is failed, the exception goes on    *)
(* and, if nobody handles it, ends the process; no other run is open.      *)
BreakRestore(r) ==
    /\ Phased(r, "restore")
    /\ Failure
    /\ row' = SetRow(row, r, "failed")
    /\ work' = Idle
    /\ UNCHANGED <<files, request, saw, artifact, channel, waiting, crashes>>

-----------------------------------------------------------------------------
(* The ends of processes.                                                  *)

(* The server is restarted between two backups of the command line.        *)
Restart ==
    /\ ~AtWork("cli")
    /\ failures + crashes < MaxTroubles
    /\ crashes' = crashes + 1
    /\ Restarted

CliDie ==
    /\ AtWork("cli")
    /\ failures + crashes < MaxTroubles
    /\ crashes' = crashes + 1
    /\ work' = Idle
    /\ UNCHANGED <<files, row, request, saw, artifact, channel, waiting, failures>>

-----------------------------------------------------------------------------
(* What a worker does by itself: the loop of a backup or of a restore.     *)
BackupStep(r) ==
    \/ ThrowEarly(r) \/ NotReady(r) \/ Ready(r)
    \/ \E d \in Days :
        \/ ReadFile(r, d) \/ Unreadable(r, d) \/ Skip(r, d) \/ DryRun(r, d)
        \/ StartUpload(r, d) \/ SendPiece(r, d) \/ FailPiece(r, d)
    \/ StartCatalogue(r) \/ CatalogueSent(r) \/ MasterSent(r)
    \/ Finish(r) \/ StopAtCheck(r) \/ Break(r)

RestoreStep(r) ==
    \/ \E d \in Days : RestoreDay(r, d) \/ RefuseDay(r, d)
    \/ NextAsset(r) \/ FinishRestore(r) \/ StopRestore(r) \/ BreakRestore(r)

Next ==
    \/ \E d \in Days : Rebuild(d)
    \/ \E r \in Runs, days \in Scopes :
        \/ \E k \in {"full", "incremental", "dry"} :
            Enqueue(r, k, days) \/ StartCli(r, k, days)
        \/ EnqueueDisabled(r, days)
    \/ \E r, m \in Runs : EnqueueRestore(r, m)
    \/ \E r \in Runs : Cancel(r)
    \/ StopAll \/ ClearLocal
    \/ \E r \in Runs : BackupStep(r) \/ RestoreStep(r)
    \/ Restart \/ CliDie

Spec == Init /\ [][Next]_vars

-----------------------------------------------------------------------------
(* Properties.                                                             *)

(* The manifest rows a run has seen, the catalogues it has, and its local  *)
(* variables.                                                              *)
Manifest == UNION {[D -> 1 .. MaxVersion] : D \in SUBSET Days}
Catalogue == UNION {[D -> Entry] : D \in SUBSET Days}
Master == UNION {[G -> Catalogue] : G \in SUBSET Groups}
Work == [run : Runs \cup {NoRun}, phase : Phase, groups : SUBSET Groups,
         todo : SUBSET Days, doing : SUBSET Days, piece : Chunks, entries : Catalogue,
         of : Runs \cup {NoRun}, incremental : BOOLEAN, changed : BOOLEAN, spoilt : BOOLEAN,
         errors : BOOLEAN, cancelled : BOOLEAN, handled : BOOLEAN]

(* The values of the variables.                                            *)
TypeOK ==
    /\ lake \in [Days -> 0 .. MaxVersion]
    /\ newest \in [Days -> 0 .. MaxVersion]
    /\ row \in [Runs -> Status]
    /\ kind \in [Runs -> Kind]
    /\ origin \in [Runs -> Origin]
    /\ scope \in [Runs -> SUBSET Days]
    /\ saw \in [Runs -> Manifest]
    /\ artifact \in [Days -> [Chunks -> Artifact]]
    /\ assets \in [Runs -> Master]
    /\ sent \subseteq Runs
    /\ work \in Work /\ work.doing \subseteq work.todo
    /\ waiting \in BOOLEAN
    /\ failures \in 0 .. MaxTroubles
    /\ crashes \in 0 .. MaxTroubles

(* The entry that a restore of the file that r has seen needs.             *)
Whole(r, d) == [version |-> saw[r][d], pieces |-> Chunks]

(* Of the days D that r has seen, each is named by a catalogue of C, and   *)
(* no catalogue of C names another file of a day that r has seen, which a  *)
(* restore would put in its place.                                         *)
Names(C, r, D) ==
    /\ \A d \in D : \E c \in C : d \in DOMAIN c
    /\ \A c \in C : \A d \in DOMAIN c \cap DOMAIN saw[r] : c[d] = Whole(r, d)

Assets(r) == {assets[r][g] : g \in DOMAIN assets[r]}

(* The master catalogue of run r, which is in the channel, names every     *)
(* piece of every file that the manifest held when r started.              *)
Covers(r) == r \in sent /\ Names(Assets(r), r, DOMAIN saw[r])

CompletedBackups == {r \in Completed : kind[r] \in {"full", "incremental"}}

(* Nothing has failed, no process has ended, and all runs were backups of  *)
(* the same days.                                                          *)
Calm ==
    /\ failures = 0 /\ crashes = 0
    /\ \A q, r \in Runs :
        row[q] # "none" /\ row[r] # "none" => kind[q] # "restore" /\ scope[q] = scope[r]

(* ... which are the days of one group.                                    *)
Undisturbed ==
    Calm /\ \A r \in Runs : \A d, e \in scope[r] : row[r] # "none" => GroupOf[d] = GroupOf[e]

(* A backup that is reported as completed can be restored from its         *)
(* catalogue alone: a full one whatever happened before it and during it,  *)
(* an incremental one, which trusts the artifacts and the catalogues of    *)
(* earlier runs, if those were undisturbed and of one group.  Files are    *)
(* replaced while they are read, runs are cancelled between two pieces,    *)
(* and the records are cleared under a run at work (upload.js:109-222,     *)
(* 345-373).                                                               *)
CompletedCoversLake ==
    \A r \in CompletedBackups : kind[r] = "full" \/ Undisturbed => Covers(r)

(* What the documentation says of every backup, incremental or not, of one *)
(* group or of several, and whatever happened to the runs before it.       *)
CompletedIsRestorable == \A r \in CompletedBackups : Covers(r)

(* Once the operator has cancelled a backup of the server it is never      *)
(* reported as completed, in whichever await of it the cancellation came   *)
(* (upload.js:303, runner.js:160).                                         *)
CancelledNeverCompletes ==
    [][\A r \in Runs :
        row[r] = "cancelled" /\ origin[r] = "server" /\ kind[r] # "restore"
            => row'[r] # "completed"]_vars

(* A backup of the server that was cancelled or cleared, and has stopped,  *)
(* has left no artifact by which a later incremental backup would take a   *)
(* file for sent, though pieces went out after its artifacts had been      *)
(* deleted (upload.js:315, state/telegramBackup.js:272).                   *)
CancelLeavesNothing ==
    crashes = 0 =>
        \A r \in Runs :
            row[r] \in {"cancelled", "deleted"} /\ origin[r] = "server" /\ work.run # r
                => \A d \in Days, c \in Chunks : artifact[d][c].run # r

(* A row of the server that says "running" is that of the run at work: no  *)
(* way out of a run, by an exception, a cancellation or the end of the     *)
(* process, leaves its row behind, which would hold the only slot          *)
(* (upload.js:304-332, runner.js:116-138, state/telegramBackup.js:3).       *)
RunningIsAtWork ==
    \A r \in Runs : row[r] = "running" /\ origin[r] = "server" => work.run = r

-----------------------------------------------------------------------------
(* The strengthenings that make the invariants inductive.                  *)

Walking == work.phase \in {"walk", "read", "send"}
Telling == work.phase \in {"catalogue", "master", "final"}

(* Rows are inserted in the order of their numbers.                        *)
RowsInOrder == \A q, r \in Runs : q < r /\ row[q] = "none" => row[r] = "none"

(* Where the run at work is, and what its local variables are about.       *)
PlaceInv ==
    /\ work.run = NoRun => work = Idle
    /\ work.run # NoRun =>
        /\ work.phase # "idle"
        /\ row[work.run] \notin {"none"} \cup Over \/ row[work.run] = "cancelled"
        /\ \A q \in Runs : q > work.run => row[q] = "none"
    /\ work.phase = "check" => /\ row[work.run] # "running" /\ origin[work.run] = "server"
                               /\ kind[work.run] \in {"full", "incremental"}
    /\ work.phase = "restore" => /\ kind[work.run] = "restore" /\ origin[work.run] = "server"
                                 /\ work.todo \subseteq DOMAIN work.entries
                                 /\ work.of \in sent
                                 /\ work.groups \subseteq DOMAIN assets[work.of]
    /\ Walking \/ Telling =>
        /\ work.todo \subseteq {d \in DOMAIN saw[work.run] : GroupOf[d] \in work.groups}
        /\ kind[work.run] = "full" => ~work.incremental
    /\ Walking => kind[work.run] # "restore"
    /\ Telling => kind[work.run] \in {"full", "incremental"}
    /\ work.phase \in {"master", "final"} => work.groups = {}
    /\ work.phase = "send" => kind[work.run] \in {"full", "incremental"}
    /\ work.phase \in {"read", "send"} => \E d \in Days : work.doing = {d}
    /\ work.phase \notin {"read", "send"} => work.doing = {}
    /\ work.phase # "send" => work.piece = 0

(* A run of the server knows when its row is no longer open, and the       *)
(* records are cleared only under a run that knows.                        *)
ToldInv ==
    /\ work.run # NoRun /\ row[work.run] \in {"cancelled", "deleted"}
            /\ origin[work.run] = "server" => work.cancelled
    /\ waiting => work.run = NoRun \/ work.cancelled
    /\ work.cancelled => origin[work.run] = "server"

HasArtifact(r) == \E d \in Days, c \in Chunks : artifact[d][c].run = r

(* Only in its walk may a run of the server whose row is no longer open    *)
(* have artifacts.                                                         *)
StopInv ==
    crashes = 0 =>
        \A r \in Runs :
            row[r] \in {"cancelled", "deleted"} /\ origin[r] = "server"
                    /\ ~(work.run = r /\ Walking)
                => ~HasArtifact(r)

(* A row that is not there yet has left no trace; what a run has seen is   *)
(* of its scope, and still in the lake; only backups get to the end.       *)
PastInv ==
    /\ \A r \in Runs : row[r] = "none" => saw[r] = Nothing /\ r \notin sent /\ ~HasArtifact(r)
    /\ \A r \in Runs : DOMAIN saw[r] \subseteq {d \in scope[r] : lake[d] > 0}
    /\ \A r \in sent : kind[r] \in {"full", "incremental"}

(* A backup has a catalogue for each group of the days it has seen that it *)
(* is done with, and one that is in the channel has seen some day.         *)
AssetInv ==
    /\ \A r \in Runs : row[r] = "none" => assets[r] = Nothing
    /\ \A r \in sent : DOMAIN saw[r] # {} /\ DOMAIN assets[r] = GroupsOf(DOMAIN saw[r])
    /\ work.phase = "check" => assets[work.run] = Nothing
    /\ (Walking \/ Telling) /\ kind[work.run] # "dry" =>
           /\ DOMAIN saw[work.run] # {}
           /\ work.groups \subseteq GroupsOf(DOMAIN saw[work.run])
           /\ DOMAIN assets[work.run] = GroupsOf(DOMAIN saw[work.run]) \ work.groups
           /\ work.phase = "catalogue" => DOMAIN assets[work.run] # {}

Trusted(r) == kind[r] = "full" \/ Undisturbed

(* What a backup has passed without an error is whole in its catalogues.   *)
CoverInv ==
    work.run # NoRun /\ Trusted(work.run) /\ ~work.errors =>
        /\ Walking /\ kind[work.run] # "dry" =>
               Names(Assets(work.run) \cup {work.entries}, work.run,
                     DOMAIN saw[work.run] \ work.todo)
        /\ Telling => Names(Assets(work.run), work.run, DOMAIN saw[work.run] \ work.todo)
        /\ work.phase = "final" => work.run \in sent

(* Undisturbed, a file whose first piece is known is in the channel as a   *)
(* whole; the one being sent, as far as it has been sent.                  *)
Sending(d) == work.phase = "send" /\ d \in work.doing
Sent(r, d) == [run |-> r, version |-> saw[r][d], skipped |-> FALSE]
WholeInv ==
    Undisturbed =>
        \A d \in Days : 0 \in Uploaded(d) =>
            IF Sending(d)
            THEN \A c \in Chunks : c < work.piece => artifact[d][c] = Sent(work.run, d)
            ELSE \A c \in Chunks : artifact[d][c] = artifact[d][0]

(* A later run will have to send d again.                                  *)
Due(d, version) == 0 \in Uploaded(d) => artifact[d][0].version < version

(* Undisturbed, the artifacts at rest are of the files that the last       *)
(* completed backup has seen, or some file in the lake is due.             *)
Quiet == work.run = NoRun \/ work.phase = "check" \/ kind[work.run] = "dry"
Agrees(d, q) ==
    0 \in Uploaded(d) => d \in DOMAIN saw[q] /\ artifact[d][0].version = saw[q][d]
RestInv ==
    Undisturbed /\ Quiet =>
        \A q \in Ended : IsLast(q, Ended) =>
            \/ \A d \in Days : Agrees(d, q)
            \/ \E d \in scope[q] : lake[d] > 0 /\ Due(d, lake[d])

(* Undisturbed, what is known in the channel is in the lake and not newer  *)
(* than it, and has been seen by every run that names days.                *)
KnownInv ==
    Undisturbed =>
        /\ \A d \in Days : lake[d] = newest[d]
        /\ \A d \in Days, q \in Runs :
               0 \in Uploaded(d) =>
                   /\ artifact[d][0].version \in 1 .. lake[d]
                   /\ row[q] # "none" => d \in scope[q]
        /\ \A q \in Runs : \A d \in DOMAIN saw[q] : saw[q][d] <= lake[d]

(* ... while a backup is at work: it has seen all that is known, and what  *)
(* it has passed is known by what it saw.                                  *)
SeesKnown(r) ==
    \A d \in Days : 0 \in Uploaded(d) =>
        /\ d \in DOMAIN saw[r]
        /\ artifact[d][0].version <= saw[r][d]
        /\ d \notin work.todo /\ ~work.errors => artifact[d][0].version = saw[r][d]

(* An error is of a file that has been replaced, a change one it has sent. *)
ErrorIsOld(r) ==
    work.errors => \E d \in DOMAIN saw[r] \ work.todo : saw[r][d] < lake[d]

ChangeIsSent(r) ==
    work.changed =>
        \E d \in DOMAIN saw[r] \ work.todo : 0 \in Uploaded(d) => artifact[d][0].run = r

(* Without either its way agrees with the last completed backup, or a file *)
(* that is due lies ahead.                                                 *)
SameWay(r, q) ==
    /\ \A d \in work.todo : Agrees(d, q)
    /\ \A d \in DOMAIN saw[r] \ work.todo : d \in DOMAIN saw[q] /\ saw[q][d] = saw[r][d]

WayAgrees(r) ==
    work.phase # "send" /\ ~work.changed /\ ~work.errors =>
        \A q \in Ended : IsLast(q, Ended) /\ q # r =>
            SameWay(r, q) \/ \E d \in work.todo : Due(d, saw[r][d])

AtWorkInv ==
    Undisturbed /\ (Walking \/ Telling) /\ kind[work.run] # "dry" =>
        /\ SeesKnown(work.run) /\ ErrorIsOld(work.run)
        /\ ChangeIsSent(work.run) /\ WayAgrees(work.run)

(* The records of other runs are gone with those of the run at work.       *)
ClearedInv == work.run # NoRun /\ row[work.run] = "deleted" => Completed = {}

=============================================================================
