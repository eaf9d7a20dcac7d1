------------------------ MODULE TelegramBackupProofs ------------------------
(***************************************************************************)
(* Theorems about TelegramBackup, for any number of days, pieces, runs and *)
(* troubles.                                                               *)
(***************************************************************************)
EXTENDS TelegramBackup, TLAPS

-----------------------------------------------------------------------------
(* Types.                                                                  *)

(* Functions whose domain is a set of days.                                *)
LEMMA ManifestIs ==
    /\ \A D \in SUBSET Days : \A f \in [D -> 1 .. MaxVersion] : f \in Manifest
    /\ \A f \in Manifest : /\ DOMAIN f \subseteq Days
                           /\ \A d \in DOMAIN f : f[d] \in 1 .. MaxVersion
<1> QED
  BY DEF Manifest

LEMMA CatalogueIs ==
    /\ \A D \in SUBSET Days : \A f \in [D -> Entry] : f \in Catalogue
    /\ \A f \in Catalogue : /\ DOMAIN f \subseteq Days
                            /\ f = [d \in DOMAIN f |-> f[d]]
                            /\ \A d \in DOMAIN f : f[d] \in Entry
<1> QED
  BY DEF Catalogue

LEMMA MasterIs ==
    /\ \A G \in SUBSET Groups : \A f \in [G -> Catalogue] : f \in Master
    /\ \A f \in Master : /\ DOMAIN f \subseteq Groups
                         /\ \A g \in DOMAIN f : f[g] \in Catalogue
<1> QED
  BY DEF Master

LEMMA Constants ==
    /\ 0 \in Chunks /\ NoRun \notin Runs
    /\ \A r \in Runs : r \in Nat
    /\ NoArtifact \in Artifact
    /\ Nothing \in Manifest /\ Nothing \in Catalogue /\ Nothing \in Master
<1> USE BackupAssumption
<1>1. 0 \in Chunks /\ NoRun \notin Runs /\ \A r \in Runs : r \in Nat
  BY DEF Chunks, Runs, NoRun
<1>2. NoArtifact \in Artifact
  BY DEF NoArtifact, Artifact
<1>3. Nothing \in [{} -> 1 .. MaxVersion] /\ Nothing \in [{} -> Entry]
      /\ Nothing \in [{} -> Catalogue]
  BY DEF Nothing
<1>4. {} \in SUBSET Days /\ {} \in SUBSET Groups
  OBVIOUS
<1>5. Nothing \in Manifest /\ Nothing \in Catalogue /\ Nothing \in Master
  BY <1>3, <1>4, ManifestIs, CatalogueIs, MasterIs
<1> QED
  BY <1>1, <1>2, <1>5

LEMMA IdleType == Idle \in Work
<1> QED
  BY Constants DEF Idle, Work, Phase

(* A record for the set of runs whose artifacts go.                        *)
LEMMA WithoutRunsType ==
    ASSUME TypeOK, NEW R PROVE WithoutRuns(R) \in [Days -> [Chunks -> Artifact]]
<1> QED
  BY Constants DEF TypeOK, WithoutRuns

LEMMA RecordsType ==
    ASSUME TypeOK, NEW R, CancelRecords(R)
    PROVE  /\ row' \in [Runs -> Status]
           /\ artifact' \in [Days -> [Chunks -> Artifact]]
<1> QED
  BY WithoutRunsType DEF CancelRecords, TypeOK, Status, Over

LEMMA ClearType ==
    ASSUME TypeOK, Clear
    PROVE  /\ row' \in [Runs -> Status]
           /\ artifact' \in [Days -> [Chunks -> Artifact]]
<1> QED
  BY Constants DEF Clear, TypeOK, Status

LEMMA SetRowType ==
    ASSUME TypeOK, NEW r \in Runs, NEW status \in Status
    PROVE  SetRow(row, r, status) \in [Runs -> Status]
<1> QED
  BY DEF SetRow, TypeOK

LEMMA StatusTypes == Open \cup Over \cup {"none", "deleted"} = Status
<1> QED
  BY DEF Status

LEMMA TypeInit == Init => TypeOK
<1> SUFFICES ASSUME Init PROVE TypeOK
  OBVIOUS
<1> USE BackupAssumption, Constants DEF Init
<1>1. lake \in [Days -> 0 .. MaxVersion] /\ newest \in [Days -> 0 .. MaxVersion]
  OBVIOUS
<1>2. /\ row \in [Runs -> Status] /\ kind \in [Runs -> Kind]
      /\ origin \in [Runs -> Origin] /\ scope \in [Runs -> SUBSET Days]
  BY DEF Status, Kind, Origin
<1>3. saw \in [Runs -> Manifest] /\ assets \in [Runs -> Master] /\ sent \subseteq Runs
  OBVIOUS
<1>4. artifact \in [Days -> [Chunks -> Artifact]]
  OBVIOUS
<1>5. work \in Work /\ work.doing \subseteq work.todo
  BY IdleType DEF Idle
<1>6. waiting \in BOOLEAN
  OBVIOUS
<1>7. failures \in 0 .. MaxTroubles /\ crashes \in 0 .. MaxTroubles
  OBVIOUS
<1> QED
  BY <1>1, <1>2, <1>3, <1>4, <1>5, <1>6, <1>7 DEF TypeOK

LEMMA WorkIs ==
    ASSUME TypeOK
    PROVE  /\ work \in Work
           /\ work.run \in Runs \cup {NoRun} /\ work.phase \in Phase
           /\ work.todo \subseteq Days /\ work.doing \subseteq work.todo
           /\ work.piece \in Chunks /\ work.entries \in Catalogue
           /\ work.incremental \in BOOLEAN /\ work.changed \in BOOLEAN
           /\ work.errors \in BOOLEAN /\ work.cancelled \in BOOLEAN
           /\ work.handled \in BOOLEAN /\ work.spoilt \in BOOLEAN
           /\ work.groups \in SUBSET Groups /\ work.of \in Runs \cup {NoRun}
<1> QED
  BY DEF TypeOK, Work

LEMMA EntryType ==
    ASSUME TypeOK, NEW d \in Days, NEW entry \in Entry
    PROVE  WithEntry(d, entry) \in Catalogue
<1>1. work.entries \in Catalogue
  BY WorkIs
<1>2. /\ DOMAIN work.entries \subseteq Days
      /\ \A e \in DOMAIN work.entries : work.entries[e] \in Entry
  BY <1>1, CatalogueIs
<1>3. WithEntry(d, entry) \in [{d} \cup DOMAIN work.entries -> Entry]
  BY <1>2 DEF WithEntry
<1>4. {d} \cup DOMAIN work.entries \in SUBSET Days
  BY <1>2
<1> QED
  BY <1>3, <1>4, CatalogueIs

(* What a step from group to group leaves alone.                           *)
SameRun ==
    /\ work'.run = work.run /\ work'.of = work.of /\ work'.todo = work.todo
    /\ work'.doing = work.doing /\ work'.piece = work.piece
    /\ work'.incremental = work.incremental /\ work'.errors = work.errors
    /\ work'.cancelled = work.cancelled /\ work'.handled = work.handled

LEMMA OnwardIs ==
    ASSUME TypeOK, NEW G \in SUBSET Groups, work' = Onward(G)
    PROVE  /\ work' \in Work /\ SameRun /\ work'.groups = G
           /\ \/ /\ G = {} /\ work'.phase = "master"
                 /\ work'.changed = work.changed
              \/ /\ G # {} /\ work'.phase = "walk" /\ work'.entries = Nothing
                 /\ ~work'.changed /\ ~work'.spoilt
<1>1. CASE G = {}
  BY <1>1, WorkIs DEF Onward, SameRun, Work, Phase
<1>2. CASE G # {}
  BY <1>2, WorkIs, Constants DEF Onward, SameRun, Work, Phase
<1> QED
  BY <1>1, <1>2

LEMMA WithAssetIs ==
    ASSUME TypeOK, NEW r \in Runs, NEW g \in Groups, NEW c \in Catalogue
    PROVE  /\ WithAsset(r, g, c) \in [Runs -> Master]
           /\ DOMAIN WithAsset(r, g, c)[r] = {g} \cup DOMAIN assets[r]
           /\ WithAsset(r, g, c)[r][g] = c
           /\ \A h \in DOMAIN assets[r] : h # g => WithAsset(r, g, c)[r][h] = assets[r][h]
           /\ \A q \in Runs : q # r => WithAsset(r, g, c)[q] = assets[q]
<1> DEFINE new == [h \in {g} \cup DOMAIN assets[r] |-> IF h = g THEN c ELSE assets[r][h]]
<1>1. assets \in [Runs -> Master] /\ assets[r] \in Master
  BY DEF TypeOK
<1>2. WithAsset(r, g, c) = [assets EXCEPT ![r] = new]
  BY DEF WithAsset
<1>3. new \in Master
  <2>1. /\ DOMAIN assets[r] \subseteq Groups
        /\ \A h \in DOMAIN assets[r] : assets[r][h] \in Catalogue
    BY <1>1, MasterIs
  <2>2. /\ new \in [{g} \cup DOMAIN assets[r] -> Catalogue]
        /\ {g} \cup DOMAIN assets[r] \in SUBSET Groups
    BY <2>1
  <2> QED
    BY <2>2, MasterIs
<1>4. DOMAIN new = {g} \cup DOMAIN assets[r] /\ new[g] = c
      /\ \A h \in DOMAIN assets[r] : h # g => new[h] = assets[r][h]
  OBVIOUS
<1> HIDE DEF new
<1> QED
  BY <1>1, <1>2, <1>3, <1>4

(* The catalogue of group g is new, or that of a related group of the last *)
(* completed backup that has one; or the run is a dry one.                 *)
Publishes(r, g) ==
    /\ kind[r] # "dry"
    /\ ~work.incremental \/ work.changed \/ work.spoilt \/ Previous(g) = {}
    /\ assets' = WithAsset(r, g, work.entries)
    /\ work'.phase = "catalogue" /\ work'.changed = work.changed
Reuses(r, g) ==
    /\ kind[r] # "dry"
    /\ work.incremental /\ ~work.changed /\ ~work.spoilt
    /\ \E q \in Previous(g), h \in Groups :
          /\ IsLast(q, Previous(g)) /\ First(h, Related(q, g))
          /\ assets' = WithAsset(r, g, assets[q][h])
    /\ \/ /\ work'.groups = {} /\ work'.phase = "master"
          /\ work'.changed = work.changed
       \/ /\ work'.groups # {} /\ work'.phase = "walk" /\ work'.entries = Nothing
          /\ ~work'.changed /\ ~work'.spoilt
Counts(r) ==
    /\ kind[r] = "dry" /\ assets' = assets /\ work'.phase = "walk"

LEMMA CatalogueStarts ==
    ASSUME TypeOK, NEW r \in Runs, StartCatalogue(r)
    PROVE  /\ work.run = r /\ work.phase = "walk" /\ ~work.cancelled
           /\ work' \in Work /\ SameRun
           /\ UNCHANGED <<files, row, request, saw, artifact, sent, waiting, bounds>>
           /\ \E g \in Groups :
                /\ g \in work.groups /\ \A d \in work.todo : GroupOf[d] # g
                /\ First(g, work.groups) /\ work'.groups = work.groups \ {g}
                /\ Publishes(r, g) \/ Reuses(r, g) \/ Counts(r)
<1> DEFINE P(g) == /\ kind[r] # "dry"
                   /\ ~work.incremental \/ work.changed \/ work.spoilt \/ Previous(g) = {}
                   /\ assets' = WithAsset(r, g, work.entries)
                   /\ work' = [work EXCEPT !.phase = "catalogue", !.groups = @ \ {g}]
           R(g) == /\ kind[r] # "dry"
                   /\ work.incremental /\ ~work.changed /\ ~work.spoilt
                   /\ \E q \in Previous(g), h \in Groups :
                         /\ IsLast(q, Previous(g)) /\ First(h, Related(q, g))
                         /\ assets' = WithAsset(r, g, assets[q][h])
                   /\ work' = Onward(work.groups \ {g})
           C(g) == /\ kind[r] = "dry" /\ assets' = assets
                   /\ work' = [work EXCEPT !.groups = @ \ {g}]
<1>1. PICK g \in Groups :
        /\ First(g, work.groups) /\ \A d \in work.todo : GroupOf[d] # g
        /\ P(g) \/ R(g) \/ C(g)
  BY DEF StartCatalogue
<1>2. /\ work.run = r /\ work.phase = "walk" /\ ~work.cancelled
      /\ UNCHANGED <<files, row, request, saw, artifact, sent, waiting, bounds>>
  BY DEF StartCatalogue, Phased
<1>3. g \in work.groups /\ work.groups \ {g} \in SUBSET Groups
  BY <1>1, WorkIs DEF First
<1>4. ASSUME P(g)
      PROVE  work' \in Work /\ SameRun /\ work'.groups = work.groups \ {g} /\ Publishes(r, g)
  <2>1. /\ work' \in Work /\ SameRun /\ work'.groups = work.groups \ {g}
        /\ work'.phase = "catalogue" /\ work'.changed = work.changed
    BY <1>4, WorkIs DEF Work, Phase, SameRun
  <2> QED
    BY <1>4, <2>1 DEF Publishes
<1>5. ASSUME R(g)
      PROVE  work' \in Work /\ SameRun /\ work'.groups = work.groups \ {g} /\ Reuses(r, g)
  <2>1. /\ work' \in Work /\ SameRun /\ work'.groups = work.groups \ {g}
        /\ \/ /\ work'.groups = {} /\ work'.phase = "master"
              /\ work'.changed = work.changed
           \/ /\ work'.groups # {} /\ work'.phase = "walk" /\ work'.entries = Nothing
              /\ ~work'.changed /\ ~work'.spoilt
    BY <1>3, <1>5, OnwardIs
  <2> QED
    BY <1>5, <2>1 DEF Reuses
<1>6. ASSUME C(g)
      PROVE  work' \in Work /\ SameRun /\ work'.groups = work.groups \ {g} /\ Counts(r)
  <2>1. /\ work' \in Work /\ SameRun /\ work'.groups = work.groups \ {g}
        /\ work'.phase = "walk"
    BY <1>2, <1>6, WorkIs DEF Work, SameRun
  <2> QED
    BY <1>6, <2>1 DEF Counts
<1> HIDE DEF P, R, C
<1> QED
  BY <1>1, <1>2, <1>3, <1>4, <1>5, <1>6

LEMMA CatalogueIsSent ==
    ASSUME TypeOK, NEW r \in Runs, CatalogueSent(r)
    PROVE  /\ work.run = r /\ work.phase = "catalogue" /\ ~work.cancelled
           /\ work' \in Work /\ SameRun /\ work'.groups = work.groups
           /\ UNCHANGED <<files, row, request, saw, artifact, channel, waiting, bounds>>
           /\ \/ /\ work.groups = {} /\ work'.phase = "master"
                 /\ work'.changed = work.changed
              \/ /\ work.groups # {} /\ work'.phase = "walk" /\ work'.entries = Nothing
                 /\ ~work'.changed /\ ~work'.spoilt
<1>1. work.groups \in SUBSET Groups
  BY WorkIs
<1> QED
  BY <1>1, OnwardIs DEF CatalogueSent, Onward, Phased

LEMMA AssetIsRead ==
    ASSUME TypeOK, PlaceInv, NEW r \in Runs, NextAsset(r)
    PROVE  /\ work.run = r /\ work.phase = "restore" /\ ~work.cancelled
           /\ work' \in Work /\ work'.run = r /\ work'.phase = "restore"
           /\ work'.of = work.of /\ work'.groups \subseteq work.groups
           /\ work'.doing = {} /\ work'.piece = work.piece
           /\ work'.todo = DOMAIN work'.entries
           /\ work'.cancelled = work.cancelled /\ work'.handled = work.handled
           /\ UNCHANGED <<files, row, request, saw, artifact, channel, waiting, bounds>>
<1>1. /\ work.run = r /\ work.phase = "restore" /\ ~work.cancelled /\ work.doing = {}
      /\ UNCHANGED <<files, row, request, saw, artifact, channel, waiting, bounds>>
  BY DEF NextAsset, Phased, PlaceInv
<1>2. PICK g, h : /\ First(g, work.groups) /\ First(h, work.groups \ {g})
                  /\ work' = [work EXCEPT !.groups = @ \ {g}, !.entries = assets[work.of][h],
                                          !.todo = DOMAIN assets[work.of][h]]
  BY DEF NextAsset
<1>3. assets[work.of] \in Master /\ h \in DOMAIN assets[work.of]
  BY <1>1, <1>2 DEF PlaceInv, TypeOK, First
<1>4. assets[work.of][h] \in Catalogue /\ DOMAIN assets[work.of][h] \subseteq Days
  BY <1>3, MasterIs, CatalogueIs
<1> DEFINE new == assets[work.of][h]
<1>5. /\ work' = [work EXCEPT !.groups = @ \ {g}, !.entries = new, !.todo = DOMAIN new]
      /\ new \in Catalogue /\ DOMAIN new \subseteq Days
  BY <1>2, <1>4
<1> HIDE DEF new
<1>6. /\ work' \in Work /\ work'.run = r /\ work'.phase = "restore"
      /\ work'.of = work.of /\ work'.groups \subseteq work.groups
      /\ work'.doing = {} /\ work'.piece = work.piece
      /\ work'.todo = DOMAIN work'.entries
      /\ work'.cancelled = work.cancelled /\ work'.handled = work.handled
  BY <1>1, <1>5, WorkIs DEF Work
<1> QED
  BY <1>1, <1>6

LEMMA BeginType ==
    ASSUME TypeOK, NEW r \in Runs, NEW k, NEW days \in SUBSET Days, Begin(r, k, days)
    PROVE  /\ row' \in [Runs -> Status]
           /\ saw' \in [Runs -> Manifest]
           /\ work' \in Work /\ work'.doing \subseteq work'.todo
<1> DEFINE found == {d \in days : lake[d] > 0}
<1>1. row' \in [Runs -> Status]
  BY SetRowType, StatusTypes DEF Begin, Open, Over
<1>2. [d \in found |-> lake[d]] \in Manifest
  <2>1. \A d \in found : lake[d] \in 1 .. MaxVersion
    BY BackupAssumption DEF TypeOK
  <2>2. [d \in found |-> lake[d]] \in [found -> 1 .. MaxVersion] /\ found \in SUBSET Days
    BY <2>1
  <2> QED
    BY <2>2, ManifestIs
<1>3. saw' \in [Runs -> Manifest]
  BY <1>2 DEF Begin, TypeOK
<1>4. ASSUME NEW D \in SUBSET Days, NEW G \in SUBSET Groups, NEW b \in BOOLEAN
      PROVE  LET new == [Idle EXCEPT !.run = r, !.phase = "walk", !.todo = D, !.groups = G,
                             !.incremental = b]
             IN  new \in Work /\ new.doing \subseteq new.todo
  BY IdleType DEF Work, Phase, Idle
<1>5. /\ found \in SUBSET Days /\ GroupsOf(found) \in SUBSET Groups
      /\ (k = "incremental" /\ BaselineReady) \in BOOLEAN
  BY BackupAssumption DEF GroupsOf
<1>6. work' \in Work /\ work'.doing \subseteq work'.todo
  <2>1. CASE work' = Idle
    BY <2>1, IdleType DEF Idle
  <2>2. CASE work' = [Idle EXCEPT !.run = r, !.phase = "walk", !.todo = found,
                          !.groups = GroupsOf(found),
                          !.incremental = (k = "incremental" /\ BaselineReady)]
    BY <2>2, <1>4, <1>5
  <2> QED
    BY <2>1, <2>2 DEF Begin
<1> QED
  BY <1>1, <1>3, <1>6

LEMMA TypeStep == TypeOK /\ PlaceInv /\ [Next]_vars => TypeOK'
<1> SUFFICES ASSUME TypeOK, PlaceInv, [Next]_vars PROVE TypeOK'
  OBVIOUS
<1> USE BackupAssumption, Constants
<1>1. ASSUME NEW d \in Days, Rebuild(d) PROVE TypeOK'
  BY <1>1
     DEF Rebuild, request, channel, files, bounds, TypeOK
<1>2. ASSUME NEW r \in Runs, NEW days \in Scopes,
             NEW k \in {"full", "incremental", "dry"}, Enqueue(r, k, days)
      PROVE  TypeOK'
  <2>1. days \in SUBSET Days
    BY BackupAssumption
  <2>2. /\ kind' \in [Runs -> Kind] /\ origin' \in [Runs -> Origin]
        /\ scope' \in [Runs -> SUBSET Days]
    BY <1>2
       DEF Enqueue, Register, TypeOK, Kind, Origin
  <2>3. row' \in [Runs -> Status] /\ saw' \in [Runs -> Manifest]
       /\ work' \in Work /\ work'.doing \subseteq work'.todo
    <3>1. CASE k = "dry"
      BY <1>2, <2>1, <3>1, BeginType DEF Enqueue
    <3>2. CASE k # "dry"
      <4>1. /\ row' = [row EXCEPT ![r] = "queued"]
            /\ work' = [Idle EXCEPT !.run = r, !.phase = "check"]
            /\ saw' = saw
        BY <1>2, <3>2 DEF Enqueue
      <4>2. row' \in [Runs -> Status] /\ saw' \in [Runs -> Manifest]
        BY <4>1 DEF TypeOK, Status, Open
      <4>3. work' \in Work /\ work'.doing \subseteq work'.todo
        BY <4>1, IdleType DEF Work, Phase, Idle
      <4> QED
        BY <4>2, <4>3
    <3> QED
      BY <3>1, <3>2
  <2> QED
    BY <1>2, <2>1, <2>2, <2>3
       DEF Enqueue, Register, Fresh, Begin, SetRow, request, channel, files,
           bounds, TypeOK
<1>3. ASSUME NEW r \in Runs, NEW days \in Scopes,
             NEW k \in {"full", "incremental", "dry"}, StartCli(r, k, days)
      PROVE  TypeOK'
  <2>1. days \in SUBSET Days
    BY BackupAssumption
  <2>2. /\ kind' \in [Runs -> Kind] /\ origin' \in [Runs -> Origin]
        /\ scope' \in [Runs -> SUBSET Days]
    BY <1>3
       DEF StartCli, Register, TypeOK, Kind, Origin
  <2>3. row' \in [Runs -> Status] /\ saw' \in [Runs -> Manifest]
       /\ work' \in Work /\ work'.doing \subseteq work'.todo
    BY <1>3, <2>1, BeginType
       DEF StartCli
  <2> QED
    BY <1>3, <2>1, <2>2, <2>3
       DEF StartCli, Register, Fresh, Begin, SetRow, request, channel, files,
           bounds, TypeOK
<1>4. ASSUME NEW r \in Runs, NEW days \in Scopes, EnqueueDisabled(r, days)
      PROVE  TypeOK'
  <2>1. days \in SUBSET Days
    BY BackupAssumption
  <2>2. /\ kind' \in [Runs -> Kind] /\ origin' \in [Runs -> Origin]
        /\ scope' \in [Runs -> SUBSET Days]
    BY <1>4
       DEF EnqueueDisabled, Register, TypeOK, Kind, Origin
  <2>3. row' \in [Runs -> Status]
    BY <1>4
       DEF EnqueueDisabled, TypeOK, Status, Open
  <2> QED
    BY <1>4, <2>1, <2>2, <2>3
       DEF EnqueueDisabled, Register, Fresh, request, channel, files, bounds,
           TypeOK
<1>5. ASSUME NEW r \in Runs, NEW m \in Runs, EnqueueRestore(r, m)
      PROVE  TypeOK'
  <2>1. /\ kind' \in [Runs -> Kind] /\ origin' \in [Runs -> Origin]
        /\ scope' \in [Runs -> SUBSET Days]
    BY <1>5
       DEF EnqueueRestore, Register, TypeOK, Kind, Origin
  <2>2. row' \in [Runs -> Status]
    BY <1>5
       DEF EnqueueRestore, TypeOK, Status, Open
  <2>3. PICK g : /\ First(g, DOMAIN assets[m])
                 /\ work' = [Idle EXCEPT !.run = r, !.phase = "restore", !.of = m,
                                 !.groups = DOMAIN assets[m], !.entries = assets[m][g],
                                 !.todo = DOMAIN assets[m][g]]
    BY <1>5 DEF EnqueueRestore
  <2>4. work' \in Work /\ work'.doing \subseteq work'.todo
    <3>1. DOMAIN assets[m] \in SUBSET Groups /\ assets[m][g] \in Catalogue
      BY <2>3, MasterIs DEF TypeOK, First
    <3>2. DOMAIN assets[m][g] \subseteq Days
      BY <3>1, CatalogueIs
    <3> QED
      BY <2>3, <3>1, <3>2, IdleType DEF Work, Phase, Idle
  <2> QED
    BY <1>5, <2>1, <2>2, <2>3, <2>4
       DEF EnqueueRestore, Register, Fresh, request, channel, files, bounds,
           TypeOK
<1>6. ASSUME NEW r \in Runs, Cancel(r) PROVE TypeOK'
  <2>1. row' \in [Runs -> Status] /\ artifact' \in [Days -> [Chunks -> Artifact]]
    BY <1>6, RecordsType, ClearType
       DEF Cancel, TypeOK
  <2>2. work' \in Work /\ work'.doing \subseteq work'.todo
    BY <1>6, WorkIs, IdleType
       DEF Cancel, Work, Idle
  <2> QED
    BY <1>6, <2>1, <2>2
       DEF Cancel, CancelRecords, request, channel, files, bounds, TypeOK
<1>7. ASSUME StopAll PROVE TypeOK'
  <2>1. row' \in [Runs -> Status] /\ artifact' \in [Days -> [Chunks -> Artifact]]
    BY <1>7, RecordsType, ClearType
       DEF StopAll, TypeOK
  <2>2. work' \in Work /\ work'.doing \subseteq work'.todo
    BY <1>7, WorkIs, IdleType
       DEF StopAll, Work, Idle
  <2> QED
    BY <1>7, <2>1, <2>2
       DEF StopAll, Clear, CancelRecords, request, channel, files, bounds,
           TypeOK
<1>8. ASSUME ClearLocal PROVE TypeOK'
  <2>1. row' \in [Runs -> Status] /\ artifact' \in [Days -> [Chunks -> Artifact]]
    BY <1>8, RecordsType, ClearType
       DEF ClearLocal, TypeOK
  <2> QED
    BY <1>8, <2>1
       DEF ClearLocal, Clear, request, channel, files, bounds, TypeOK
<1>9. ASSUME NEW r \in Runs, ThrowEarly(r) PROVE TypeOK'
  <2>1. row' \in [Runs -> Status] /\ artifact' \in [Days -> [Chunks -> Artifact]]
    BY <1>9, RecordsType, ClearType
       DEF ThrowEarly, Phased, Rejected, Restarted, TypeOK
  <2>2. work' = Idle
    BY <1>9
       DEF ThrowEarly, Rejected, Restarted
  <2>3. work' \in Work /\ work'.doing \subseteq work'.todo
    BY <2>2, IdleType
       DEF Idle
  <2> QED
    BY <1>9, <2>1, <2>2, <2>3
       DEF ThrowEarly, Phased, Rejected, Restarted, CancelRecords, request,
           channel, files, bounds, TypeOK
<1>10. ASSUME NEW r \in Runs, NotReady(r) PROVE TypeOK'
  <2>1. row' \in [Runs -> Status]
    BY <1>10, SetRowType, StatusTypes
       DEF NotReady, Phased, Open, Over
  <2>2. work' \in Work /\ work'.doing \subseteq work'.todo
    BY <1>10, IdleType
       DEF NotReady, Idle
  <2> QED
    BY <1>10, <2>1, <2>2
       DEF NotReady, Phased, SetRow, request, channel, files, bounds, TypeOK
<1>11. ASSUME NEW r \in Runs, Ready(r) PROVE TypeOK'
  <2>1. scope[r] \in SUBSET Days
    BY <1>11
       DEF TypeOK
  <2>2. row' \in [Runs -> Status] /\ saw' \in [Runs -> Manifest]
       /\ work' \in Work /\ work'.doing \subseteq work'.todo
    BY <1>11, <2>1, BeginType
       DEF Ready
  <2> QED
    BY <1>11, <2>1, <2>2
       DEF Ready, Phased, Begin, SetRow, request, channel, files, bounds,
           TypeOK
<1>12. ASSUME NEW r \in Runs, NEW d \in Days, ReadFile(r, d)
       PROVE  TypeOK'
  <2>1. work' \in Work /\ work'.doing \subseteq work'.todo
    BY <1>12, WorkIs, IdleType
       DEF ReadFile, Phased, Work, Phase, Idle
  <2> QED
    BY <1>12, <2>1
       DEF ReadFile, Phased, request, channel, files, bounds, TypeOK
<1>13. ASSUME NEW r \in Runs, NEW d \in Days, Unreadable(r, d)
       PROVE  TypeOK'
  <2>1. work' \in Work /\ work'.doing \subseteq work'.todo
    BY <1>13, WorkIs, IdleType
       DEF Unreadable, Reading, Phased, Failure, Noted, Done, Work, Phase,
           Idle
  <2>2. failures' \in 0 .. MaxTroubles /\ crashes' \in 0 .. MaxTroubles
    BY <1>13
       DEF Unreadable, Reading, Phased, Failure, Noted, Done, request,
           channel, files, bounds, TypeOK
  <2> QED
    BY <1>13, <2>1, <2>2
       DEF Unreadable, Reading, Phased, Failure, Noted, Done, request,
           channel, files, bounds, TypeOK
<1>14. ASSUME NEW r \in Runs, NEW d \in Days, Skip(r, d) PROVE TypeOK'
  <2>1. saw[r][d] \in 1 .. MaxVersion
    <3>1. Walking /\ work.run = r /\ d \in work.todo
      BY <1>14, WorkIs DEF Skip, Reading, Phased, Walking
    <3>2. saw[r] \in Manifest /\ d \in DOMAIN saw[r]
      BY <3>1 DEF PlaceInv, TypeOK
    <3> QED
      BY <3>2, ManifestIs
  <2>2. [run |-> r, version |-> saw[r][d], skipped |-> TRUE] \in Artifact
    BY <2>1
       DEF Artifact
  <2>3. artifact' \in [Days -> [Chunks -> Artifact]]
    BY <1>14, <2>2
       DEF Skip, TypeOK
  <2>4. SkippedEntry(d) \in Entry
    <3>1. artifact[d][0].version = saw[r][d]
      BY <1>14, <2>1 DEF Skip, Unchanged, KnownVersion
    <3> QED
      BY <3>1, <2>1 DEF SkippedEntry, Entry, LatestUpload, Uploaded
  <2>5. WithEntry(d, SkippedEntry(d)) \in Catalogue
    BY <2>4, EntryType
  <2>6. work' \in Work /\ work'.doing \subseteq work'.todo
    BY <1>14, <2>5, WorkIs
       DEF Skip, Done, Work, Phase
  <2> QED
    BY <1>14, <2>1, <2>2, <2>3, <2>4, <2>5, <2>6
       DEF Skip, Reading, Phased, Done, request, channel, files, bounds,
           TypeOK
<1>15. ASSUME NEW r \in Runs, NEW d \in Days, DryRun(r, d) PROVE TypeOK'
  <2>1. work' \in Work /\ work'.doing \subseteq work'.todo
    BY <1>15, WorkIs, IdleType
       DEF DryRun, Reading, Phased, Done, Work, Phase, Idle
  <2> QED
    BY <1>15, <2>1
       DEF DryRun, Reading, Phased, Done, request, channel, files, bounds,
           TypeOK
<1>16. ASSUME NEW r \in Runs, NEW d \in Days, StartUpload(r, d)
       PROVE  TypeOK'
  <2>1. work' \in Work /\ work'.doing \subseteq work'.todo
    BY <1>16, WorkIs, IdleType
       DEF StartUpload, Reading, Phased, Work, Phase, Idle
  <2> QED
    BY <1>16, <2>1
       DEF StartUpload, Reading, Phased, request, channel, files, bounds,
           TypeOK
<1>17. ASSUME NEW r \in Runs, NEW d \in Days, SendPiece(r, d)
       PROVE  TypeOK'
  <2>1. saw[r][d] \in 1 .. MaxVersion
    <3>1. Walking /\ work.run = r /\ d \in work.todo
      BY <1>17, WorkIs DEF SendPiece, Phased, Walking
    <3>2. saw[r] \in Manifest /\ d \in DOMAIN saw[r]
      BY <3>1 DEF PlaceInv, TypeOK
    <3> QED
      BY <3>2, ManifestIs
  <2>2. [run |-> r, version |-> saw[r][d], skipped |-> FALSE] \in Artifact
    BY <2>1
       DEF Artifact
  <2>3. artifact' \in [Days -> [Chunks -> Artifact]]
    BY <1>17, <2>2
       DEF SendPiece, TypeOK
  <2>4. [version |-> saw[r][d], pieces |-> Chunks] \in Entry
    BY <2>1
       DEF Entry
  <2>5. WithEntry(d, [version |-> saw[r][d], pieces |-> Chunks]) \in Catalogue
    BY <2>4, EntryType
  <2>6. ~LastPiece => work.piece + 1 \in Chunks
    BY WorkIs
       DEF LastPiece, Chunks
  <2>7. work' \in Work /\ work'.doing \subseteq work'.todo
    <3>1. CASE ~LastPiece
      BY <1>17, <3>1, <2>6, WorkIs DEF SendPiece, Work
    <3>2. CASE LastPiece
      <4>1. PICK new \in Catalogue : work' = [Done(d) EXCEPT !.changed = TRUE, !.entries = new]
        BY <1>17, <3>2, <2>5 DEF SendPiece
      <4>2. Done(d) \in Work /\ Done(d).doing = {}
        BY WorkIs DEF Done, Work, Phase
      <4> HIDE DEF Done
      <4> QED
        BY <4>1, <4>2 DEF Work
    <3> QED
      BY <3>1, <3>2
  <2> QED
    BY <1>17, <2>1, <2>2, <2>3, <2>4, <2>5, <2>6, <2>7
       DEF SendPiece, Phased, Done, request, channel, files, bounds, TypeOK
<1>18. ASSUME NEW r \in Runs, NEW d \in Days, FailPiece(r, d)
       PROVE  TypeOK'
  <2>1. work' \in Work /\ work'.doing \subseteq work'.todo
    BY <1>18, WorkIs, IdleType
       DEF FailPiece, Phased, Failure, Noted, Done, Work, Phase, Idle
  <2>2. failures' \in 0 .. MaxTroubles /\ crashes' \in 0 .. MaxTroubles
    BY <1>18
       DEF FailPiece, Phased, Failure, Noted, Done, request, channel, files,
           bounds, TypeOK
  <2> QED
    BY <1>18, <2>1, <2>2
       DEF FailPiece, Phased, Failure, Noted, Done, request, channel, files,
           bounds, TypeOK
<1>19. ASSUME NEW r \in Runs, StartCatalogue(r) PROVE TypeOK'
  <2>1. work' \in Work /\ work'.doing \subseteq work'.todo
    BY <1>19, CatalogueStarts, WorkIs DEF SameRun
  <2>2. assets' \in [Runs -> Master]
    <3>1. PICK g \in Groups : Publishes(r, g) \/ Reuses(r, g) \/ Counts(r)
      BY <1>19, CatalogueStarts
    <3>2. CASE Publishes(r, g)
      BY <3>2, WorkIs, WithAssetIs DEF Publishes
    <3>3. CASE Reuses(r, g)
      <4>1. PICK q, h : /\ q \in Runs /\ h \in DOMAIN assets[q]
                        /\ assets' = WithAsset(r, g, assets[q][h])
        BY <3>3 DEF Reuses, First, Related, Previous, Ended, Completed
      <4>2. assets[q][h] \in Catalogue
        BY <4>1, MasterIs DEF TypeOK
      <4> QED
        BY <4>1, <4>2, WithAssetIs
    <3>4. CASE Counts(r)
      BY <3>4 DEF Counts, TypeOK
    <3> QED
      BY <3>1, <3>2, <3>3, <3>4
  <2> QED
    BY <1>19, <2>1, <2>2
       DEF StartCatalogue, Onward, Phased, request, channel, files, bounds, TypeOK
<1>20. ASSUME NEW r \in Runs, CatalogueSent(r) PROVE TypeOK'
  <2>1. work' \in Work /\ work'.doing \subseteq work'.todo
    BY <1>20, CatalogueIsSent, WorkIs DEF SameRun
  <2> QED
    BY <1>20, <2>1
       DEF CatalogueSent, Onward, Phased, request, channel, files, bounds, TypeOK
<1>21. ASSUME NEW r \in Runs, MasterSent(r) PROVE TypeOK'
  <2>1. work' \in Work /\ work'.doing \subseteq work'.todo
    BY <1>21, WorkIs, IdleType
       DEF MasterSent, Phased, Work, Phase, Idle
  <2> QED
    BY <1>21, <2>1
       DEF MasterSent, Phased, request, channel, files, bounds, TypeOK
<1>22. ASSUME NEW r \in Runs, Finish(r) PROVE TypeOK'
  <2>1. row' \in [Runs -> Status]
    BY <1>22, SetRowType, StatusTypes
       DEF Finish, Phased, Open, Over
  <2>2. work' \in Work /\ work'.doing \subseteq work'.todo
    BY <1>22, IdleType
       DEF Finish, Idle
  <2> QED
    BY <1>22, <2>1, <2>2
       DEF Finish, Phased, SetRow, request, channel, files, bounds, TypeOK
<1>23. ASSUME NEW r \in Runs, StopAtCheck(r) PROVE TypeOK'
  <2>1. row' \in [Runs -> Status] /\ artifact' \in [Days -> [Chunks -> Artifact]]
    BY <1>23, RecordsType, ClearType
       DEF StopAtCheck, TypeOK
  <2>2. work' \in Work /\ work'.doing \subseteq work'.todo
    BY <1>23, WorkIs, IdleType
       DEF StopAtCheck, Work, Idle
  <2> QED
    BY <1>23, <2>1, <2>2
       DEF StopAtCheck, CancelRecords, request, channel, files, bounds, TypeOK
<1>24. ASSUME NEW r \in Runs, Break(r) PROVE TypeOK'
  <2>1. row' \in [Runs -> Status]
    BY <1>24, SetRowType, StatusTypes
       DEF Break, Failure, Open, Over
  <2>2. work' \in Work /\ work'.doing \subseteq work'.todo
    BY <1>24, IdleType
       DEF Break, Idle
  <2>3. failures' \in 0 .. MaxTroubles /\ crashes' \in 0 .. MaxTroubles
    BY <1>24
       DEF Break, Failure, SetRow, request, channel, files, bounds, TypeOK
  <2> QED
    BY <1>24, <2>1, <2>2, <2>3
       DEF Break, Failure, SetRow, request, channel, files, bounds, TypeOK
<1>25. ASSUME NEW r \in Runs, NEW d \in Days, RestoreDay(r, d)
       PROVE  TypeOK'
  <2>1. work.doing = {} /\ d \in DOMAIN work.entries
    BY <1>25
       DEF RestoreDay, PlaceInv, Phased
  <2>2. work' \in Work /\ work'.doing \subseteq work'.todo
    BY <1>25, WorkIs, IdleType, <2>1
       DEF RestoreDay, Phased, Work, Phase, Idle
  <2>3. work.entries[d].version \in 0 .. MaxVersion
    BY <2>1, WorkIs, CatalogueIs
       DEF Entry
  <2> QED
    BY <1>25, <2>1, <2>2, <2>3
       DEF RestoreDay, Phased, request, channel, files, bounds, TypeOK
<1>26. ASSUME NEW r \in Runs, NEW d \in Days, RefuseDay(r, d)
       PROVE  TypeOK'
  <2>1. work.doing = {} /\ d \in DOMAIN work.entries
    BY <1>26
       DEF RefuseDay, PlaceInv, Phased
  <2>2. work' \in Work /\ work'.doing \subseteq work'.todo
    BY <1>26, WorkIs, IdleType, <2>1
       DEF RefuseDay, Phased, Failure, Work, Phase, Idle
  <2>3. failures' \in 0 .. MaxTroubles /\ crashes' \in 0 .. MaxTroubles
    BY <1>26
       DEF RefuseDay, Phased, Failure, request, channel, files, bounds, TypeOK
  <2> QED
    BY <1>26, <2>1, <2>2, <2>3
       DEF RefuseDay, Phased, Failure, request, channel, files, bounds, TypeOK
<1>27. ASSUME NEW r \in Runs, FinishRestore(r) PROVE TypeOK'
  <2>1. row' \in [Runs -> Status]
    BY <1>27, SetRowType, StatusTypes
       DEF FinishRestore, Phased, Open, Over
  <2>2. work' \in Work /\ work'.doing \subseteq work'.todo
    BY <1>27, IdleType
       DEF FinishRestore, Idle
  <2> QED
    BY <1>27, <2>1, <2>2
       DEF FinishRestore, Phased, SetRow, request, channel, files, bounds,
           TypeOK
<1>28. ASSUME NEW r \in Runs, StopRestore(r) PROVE TypeOK'
  <2>1. row' \in [Runs -> Status] /\ artifact' \in [Days -> [Chunks -> Artifact]]
    BY <1>28, RecordsType, ClearType
       DEF StopRestore, Phased, TypeOK
  <2>2. work' \in Work /\ work'.doing \subseteq work'.todo
    BY <1>28, WorkIs, IdleType
       DEF StopRestore, Work, Idle
  <2> QED
    BY <1>28, <2>1, <2>2
       DEF StopRestore, Phased, CancelRecords, request, channel, files,
           bounds, TypeOK
<1>29. ASSUME NEW r \in Runs, BreakRestore(r) PROVE TypeOK'
  <2>1. row' \in [Runs -> Status]
    BY <1>29, SetRowType, StatusTypes
       DEF BreakRestore, Phased, Failure, Open, Over
  <2>2. work' \in Work /\ work'.doing \subseteq work'.todo
    BY <1>29, IdleType
       DEF BreakRestore, Idle
  <2>3. failures' \in 0 .. MaxTroubles /\ crashes' \in 0 .. MaxTroubles
    BY <1>29
       DEF BreakRestore, Phased, Failure, SetRow, request, channel, files,
           bounds, TypeOK
  <2> QED
    BY <1>29, <2>1, <2>2, <2>3
       DEF BreakRestore, Phased, Failure, SetRow, request, channel, files,
           bounds, TypeOK
<1>30. ASSUME Restart PROVE TypeOK'
  <2>1. row' \in [Runs -> Status] /\ artifact' \in [Days -> [Chunks -> Artifact]]
    BY <1>30, RecordsType, ClearType
       DEF Restart, Restarted, TypeOK
  <2>2. work' \in Work /\ work'.doing \subseteq work'.todo
    BY <1>30, IdleType
       DEF Restart, Restarted, Idle
  <2>3. failures' \in 0 .. MaxTroubles /\ crashes' \in 0 .. MaxTroubles
    BY <1>30
       DEF Restart, Restarted, CancelRecords, request, channel, files, bounds,
           TypeOK
  <2> QED
    BY <1>30, <2>1, <2>2, <2>3
       DEF Restart, Restarted, CancelRecords, request, channel, files, bounds,
           TypeOK
<1>31. ASSUME CliDie PROVE TypeOK'
  <2>1. work' \in Work /\ work'.doing \subseteq work'.todo
    BY <1>31, IdleType
       DEF CliDie, Idle
  <2>2. failures' \in 0 .. MaxTroubles /\ crashes' \in 0 .. MaxTroubles
    BY <1>31
       DEF CliDie, request, channel, files, bounds, TypeOK
  <2> QED
    BY <1>31, <2>1, <2>2
       DEF CliDie, request, channel, files, bounds, TypeOK
<1>32. CASE UNCHANGED vars
  BY <1>32
     DEF vars, request, channel, files, bounds, TypeOK
<1>33. ASSUME NEW r \in Runs, NextAsset(r)
       PROVE  TypeOK'
  <2>1. work' \in Work /\ work'.doing \subseteq work'.todo
    BY <1>33, AssetIsRead
  <2> QED
    BY <1>33, <2>1
       DEF NextAsset, Phased, request, channel, files, bounds, TypeOK
<1> QED
  BY <1>1, <1>2, <1>3, <1>4, <1>5, <1>6, <1>7, <1>8, <1>9, <1>10, <1>11,
     <1>12, <1>13, <1>14, <1>15, <1>16, <1>17, <1>18, <1>19, <1>20, <1>21,
     <1>22, <1>23, <1>24, <1>25, <1>26, <1>27, <1>28, <1>29, <1>30, <1>31,
     <1>32, <1>33
     DEF Next, BackupStep, RestoreStep

-----------------------------------------------------------------------------
(* Where the run at work is.                                               *)

LEMMA PlaceInit == Init => PlaceInv
<1> QED
  BY Constants DEF Init, PlaceInv, Walking, Telling, Idle

(* Run r begins with the days D.                                           *)
Begins(r, incremental, D) ==
    /\ row' = SetRow(row, r, "running")
    /\ saw' = [saw EXCEPT ![r] = [d \in D |-> lake[d]]]
    /\ work' = [Idle EXCEPT !.run = r, !.phase = "walk", !.todo = D,
                    !.groups = GroupsOf(D), !.incremental = incremental]

LEMMA OrderInit == Init => RowsInOrder
<1> QED
  BY DEF Init, RowsInOrder

LEMMA BeginRow ==
    ASSUME NEW r, NEW k, NEW days, Begin(r, k, days)
    PROVE  row' = SetRow(row, r, "failed") \/ row' = SetRow(row, r, "running")
<1> QED
  BY DEF Begin

LEMMA OrderStep == TypeOK /\ PlaceInv /\ RowsInOrder /\ [Next]_vars => RowsInOrder'
<1> SUFFICES ASSUME TypeOK, PlaceInv, RowsInOrder, [Next]_vars PROVE RowsInOrder'
  OBVIOUS
<1> USE Constants, BackupAssumption
<1>1. ASSUME NEW d \in Days, Rebuild(d) PROVE RowsInOrder'
  BY <1>1, WorkIs, BeginRow
     DEF Rebuild, request, channel, files, bounds, TypeOK, RowsInOrder,
         ActiveRuns, Open, PlaceInv
<1>2. ASSUME NEW r \in Runs, NEW days \in Scopes,
             NEW k \in {"full", "incremental", "dry"}, Enqueue(r, k, days)
      PROVE  RowsInOrder'
  <2>1. Fresh(r) /\ \A q \in Runs : q # r => row'[q] = row[q]
    BY <1>2, BeginRow DEF Enqueue, Register, SetRow, TypeOK
  <2>2. row'[r] # "none"
    BY <1>2, BeginRow DEF Enqueue, Register, Fresh, SetRow, TypeOK
  <2> QED
    BY <2>1, <2>2 DEF RowsInOrder, Fresh
<1>3. ASSUME NEW r \in Runs, NEW days \in Scopes,
             NEW k \in {"full", "incremental", "dry"}, StartCli(r, k, days)
      PROVE  RowsInOrder'
  <2>1. Fresh(r) /\ \A q \in Runs : q # r => row'[q] = row[q]
    BY <1>3, BeginRow DEF StartCli, Register, SetRow, TypeOK
  <2>2. row'[r] # "none"
    BY <1>3, BeginRow DEF StartCli, Register, Fresh, SetRow, TypeOK
  <2> QED
    BY <2>1, <2>2 DEF RowsInOrder, Fresh
<1>4. ASSUME NEW r \in Runs, NEW days \in Scopes, EnqueueDisabled(r, days)
      PROVE  RowsInOrder'
  BY <1>4, WorkIs, BeginRow
     DEF EnqueueDisabled, Register, Fresh, request, channel, files, bounds,
         TypeOK, RowsInOrder, ActiveRuns, Open, PlaceInv
<1>5. ASSUME NEW r \in Runs, NEW m \in Runs, EnqueueRestore(r, m)
      PROVE  RowsInOrder'
  BY <1>5, WorkIs, BeginRow
     DEF EnqueueRestore, Register, Fresh, request, channel, files, bounds,
         TypeOK, RowsInOrder, ActiveRuns, Open, PlaceInv
<1>6. ASSUME NEW r \in Runs, Cancel(r) PROVE RowsInOrder'
  BY <1>6, WorkIs, BeginRow
     DEF Cancel, CancelRecords, request, channel, files, bounds, TypeOK,
         RowsInOrder, ActiveRuns, Open, PlaceInv
<1>7. ASSUME StopAll PROVE RowsInOrder'
  BY <1>7, WorkIs, BeginRow
     DEF StopAll, Clear, CancelRecords, request, channel, files, bounds,
         TypeOK, RowsInOrder, ActiveRuns, Open, PlaceInv
<1>8. ASSUME ClearLocal PROVE RowsInOrder'
  BY <1>8, WorkIs, BeginRow
     DEF ClearLocal, Clear, request, channel, files, bounds, TypeOK,
         RowsInOrder, ActiveRuns, Open, PlaceInv
<1>9. ASSUME NEW r \in Runs, ThrowEarly(r) PROVE RowsInOrder'
  BY <1>9, WorkIs, BeginRow
     DEF ThrowEarly, Phased, Rejected, Restarted, CancelRecords, request,
         channel, files, bounds, TypeOK, RowsInOrder, ActiveRuns, Open,
         PlaceInv
<1>10. ASSUME NEW r \in Runs, NotReady(r) PROVE RowsInOrder'
  BY <1>10, WorkIs, BeginRow
     DEF NotReady, Phased, SetRow, request, channel, files, bounds, TypeOK,
         RowsInOrder, ActiveRuns, Open, PlaceInv
<1>11. ASSUME NEW r \in Runs, Ready(r) PROVE RowsInOrder'
  <2>1. row' = SetRow(row, r, "failed") \/ row' = SetRow(row, r, "running")
    BY <1>11, BeginRow DEF Ready
  <2>2. row[r] # "none"
    BY <1>11 DEF Ready, Phased, PlaceInv
  <2> QED
    BY <2>1, <2>2 DEF SetRow, RowsInOrder, TypeOK
<1>12. ASSUME NEW r \in Runs, NEW d \in Days, ReadFile(r, d)
       PROVE  RowsInOrder'
  BY <1>12, WorkIs, BeginRow
     DEF ReadFile, Phased, request, channel, files, bounds, TypeOK,
         RowsInOrder, ActiveRuns, Open, PlaceInv
<1>13. ASSUME NEW r \in Runs, NEW d \in Days, Unreadable(r, d)
       PROVE  RowsInOrder'
  BY <1>13, WorkIs, BeginRow
     DEF Unreadable, Reading, Phased, Failure, Noted, Done, request, channel,
         files, bounds, TypeOK, RowsInOrder, ActiveRuns, Open, PlaceInv
<1>14. ASSUME NEW r \in Runs, NEW d \in Days, Skip(r, d) PROVE RowsInOrder'
  BY <1>14, WorkIs, BeginRow
     DEF Skip, Reading, Phased, Done, request, channel, files, bounds, TypeOK,
         RowsInOrder, ActiveRuns, Open, PlaceInv
<1>15. ASSUME NEW r \in Runs, NEW d \in Days, DryRun(r, d) PROVE RowsInOrder'
  BY <1>15, WorkIs, BeginRow
     DEF DryRun, Reading, Phased, Done, request, channel, files, bounds,
         TypeOK, RowsInOrder, ActiveRuns, Open, PlaceInv
<1>16. ASSUME NEW r \in Runs, NEW d \in Days, StartUpload(r, d)
       PROVE  RowsInOrder'
  BY <1>16, WorkIs, BeginRow
     DEF StartUpload, Reading, Phased, request, channel, files, bounds,
         TypeOK, RowsInOrder, ActiveRuns, Open, PlaceInv
<1>17. ASSUME NEW r \in Runs, NEW d \in Days, SendPiece(r, d)
       PROVE  RowsInOrder'
  BY <1>17, WorkIs, BeginRow
     DEF SendPiece, Phased, Done, request, channel, files, bounds, TypeOK,
         RowsInOrder, ActiveRuns, Open, PlaceInv
<1>18. ASSUME NEW r \in Runs, NEW d \in Days, FailPiece(r, d)
       PROVE  RowsInOrder'
  BY <1>18, WorkIs, BeginRow
     DEF FailPiece, Phased, Failure, Noted, Done, request, channel, files,
         bounds, TypeOK, RowsInOrder, ActiveRuns, Open, PlaceInv
<1>19. ASSUME NEW r \in Runs, StartCatalogue(r) PROVE RowsInOrder'
  BY <1>19, WorkIs, BeginRow
     DEF StartCatalogue, Onward, Phased, request, channel, files, bounds, TypeOK,
         RowsInOrder, ActiveRuns, Open, PlaceInv
<1>20. ASSUME NEW r \in Runs, CatalogueSent(r) PROVE RowsInOrder'
  BY <1>20, WorkIs, BeginRow
     DEF CatalogueSent, Onward, Phased, request, channel, files, bounds, TypeOK,
         RowsInOrder, ActiveRuns, Open, PlaceInv
<1>21. ASSUME NEW r \in Runs, MasterSent(r) PROVE RowsInOrder'
  BY <1>21, WorkIs, BeginRow
     DEF MasterSent, Phased, request, channel, files, bounds, TypeOK,
         RowsInOrder, ActiveRuns, Open, PlaceInv
<1>22. ASSUME NEW r \in Runs, Finish(r) PROVE RowsInOrder'
  BY <1>22, WorkIs, BeginRow
     DEF Finish, Phased, SetRow, request, channel, files, bounds, TypeOK,
         RowsInOrder, ActiveRuns, Open, PlaceInv
<1>23. ASSUME NEW r \in Runs, StopAtCheck(r) PROVE RowsInOrder'
  BY <1>23, WorkIs, BeginRow
     DEF StopAtCheck, CancelRecords, request, channel, files, bounds, TypeOK,
         RowsInOrder, ActiveRuns, Open, PlaceInv
<1>24. ASSUME NEW r \in Runs, Break(r) PROVE RowsInOrder'
  BY <1>24, WorkIs, BeginRow
     DEF Break, Failure, SetRow, request, channel, files, bounds, TypeOK,
         RowsInOrder, ActiveRuns, Open, PlaceInv
<1>25. ASSUME NEW r \in Runs, NEW d \in Days, RestoreDay(r, d)
       PROVE  RowsInOrder'
  BY <1>25, WorkIs, BeginRow
     DEF RestoreDay, Phased, request, channel, files, bounds, TypeOK,
         RowsInOrder, ActiveRuns, Open, PlaceInv
<1>26. ASSUME NEW r \in Runs, NEW d \in Days, RefuseDay(r, d)
       PROVE  RowsInOrder'
  BY <1>26, WorkIs, BeginRow
     DEF RefuseDay, Phased, Failure, request, channel, files, bounds, TypeOK,
         RowsInOrder, ActiveRuns, Open, PlaceInv
<1>27. ASSUME NEW r \in Runs, FinishRestore(r) PROVE RowsInOrder'
  BY <1>27, WorkIs, BeginRow
     DEF FinishRestore, Phased, SetRow, request, channel, files, bounds,
         TypeOK, RowsInOrder, ActiveRuns, Open, PlaceInv
<1>28. ASSUME NEW r \in Runs, StopRestore(r) PROVE RowsInOrder'
  BY <1>28, WorkIs, BeginRow
     DEF StopRestore, Phased, CancelRecords, request, channel, files, bounds,
         TypeOK, RowsInOrder, ActiveRuns, Open, PlaceInv
<1>29. ASSUME NEW r \in Runs, BreakRestore(r) PROVE RowsInOrder'
  BY <1>29, WorkIs, BeginRow
     DEF BreakRestore, Phased, Failure, SetRow, request, channel, files,
         bounds, TypeOK, RowsInOrder, ActiveRuns, Open, PlaceInv
<1>30. ASSUME Restart PROVE RowsInOrder'
  BY <1>30, WorkIs, BeginRow
     DEF Restart, Restarted, CancelRecords, request, channel, files, bounds,
         TypeOK, RowsInOrder, ActiveRuns, Open, PlaceInv
<1>31. ASSUME CliDie PROVE RowsInOrder'
  BY <1>31, WorkIs, BeginRow
     DEF CliDie, request, channel, files, bounds, TypeOK, RowsInOrder,
         ActiveRuns, Open, PlaceInv
<1>32. CASE UNCHANGED vars
  BY <1>32, WorkIs, BeginRow
     DEF vars, request, channel, files, bounds, TypeOK, RowsInOrder,
         ActiveRuns, Open, PlaceInv
<1>33. ASSUME NEW r \in Runs, NextAsset(r)
       PROVE  RowsInOrder'
  BY <1>33, WorkIs, BeginRow
     DEF NextAsset, Phased, Failure, request, channel, files, bounds, TypeOK,
         RowsInOrder, ActiveRuns, Open, PlaceInv
<1> QED
  BY <1>1, <1>2, <1>3, <1>4, <1>5, <1>6, <1>7, <1>8, <1>9, <1>10, <1>11,
     <1>12, <1>13, <1>14, <1>15, <1>16, <1>17, <1>18, <1>19, <1>20, <1>21,
     <1>22, <1>23, <1>24, <1>25, <1>26, <1>27, <1>28, <1>29, <1>30, <1>31,
     <1>32, <1>33
     DEF Next, BackupStep, RestoreStep

LEMMA BeginEffect ==
    ASSUME NEW r \in Runs, NEW k, NEW days \in SUBSET Days, Begin(r, k, days)
    PROVE  \/ row' = SetRow(row, r, "failed") /\ work' = Idle /\ saw' = saw
           \/ \E b \in BOOLEAN, D \in SUBSET Days :
                /\ b => k = "incremental" /\ BaselineReady
                /\ D # {} /\ \A d \in Days : d \in D <=> d \in days /\ lake[d] > 0
                /\ Begins(r, b, D)
<1> DEFINE b == k = "incremental" /\ BaselineReady
           D == {d \in days : lake[d] > 0}
<1>1. b \in BOOLEAN /\ D \in SUBSET Days /\ \A d \in Days : d \in D <=> d \in days /\ lake[d] > 0
  OBVIOUS
<1>2. \/ row' = SetRow(row, r, "failed") /\ work' = Idle /\ saw' = saw
      \/ D # {} /\ Begins(r, b, D)
  BY DEF Begin, Begins
<1>3. b => k = "incremental" /\ BaselineReady
  OBVIOUS
<1> HIDE DEF b, D
<1> QED
  BY <1>1, <1>2, <1>3

LEMMA BeginPlace ==
    ASSUME TypeOK, NEW r \in Runs, NEW k, NEW days \in SUBSET Days, Begin(r, k, days),
           row[r] # "none" \/ Fresh(r), \A q \in Runs : q > r => row[q] = "none",
           kind'[r] = k, k # "restore"
    PROVE  PlaceInv'
<1>0. \/ row' = SetRow(row, r, "failed") /\ work' = Idle /\ saw' = saw
      \/ \E b \in BOOLEAN, D \in SUBSET Days :
            (b => k = "incremental" /\ BaselineReady) /\ Begins(r, b, D)
  BY BeginEffect
<1>1. CASE row' = SetRow(row, r, "failed") /\ work' = Idle /\ saw' = saw
  BY <1>1, Constants DEF PlaceInv, Idle, Walking, Telling
<1>2. ASSUME NEW b \in BOOLEAN, NEW D \in SUBSET Days,
             b => k = "incremental" /\ BaselineReady, Begins(r, b, D)
      PROVE  PlaceInv'
  <2>1. /\ row' = SetRow(row, r, "running")
        /\ saw' = [saw EXCEPT ![r] = [d \in D |-> lake[d]]]
        /\ work' = [Idle EXCEPT !.run = r, !.phase = "walk", !.todo = D,
                        !.groups = GroupsOf(D), !.incremental = b]
        /\ b => k = "incremental"
    BY <1>2 DEF Begins
  <2>2. saw \in [Runs -> Manifest] /\ row \in [Runs -> Status]
    BY DEF TypeOK
  <2>3. DOMAIN saw'[r] = D
    BY <2>1, <2>2
  <2>4. row'[r] \in {"running", "deleted"} /\ \A q \in Runs : q > r => row'[q] = "none"
    BY <2>1, <2>2, Constants DEF SetRow
  <2>5. /\ work'.run = r /\ work'.phase = "walk" /\ work'.todo = D /\ work'.doing = {}
        /\ work'.piece = 0 /\ work'.incremental = b /\ work'.groups = GroupsOf(D)
    BY <2>1 DEF Idle
  <2>6. \A d \in D : GroupOf[d] \in GroupsOf(D)
    BY DEF GroupsOf
  <2> QED
    BY <1>2, <2>1, <2>3, <2>4, <2>5, <2>6, Constants DEF PlaceInv, Walking, Telling, Over
<1> QED
  BY <1>0, <1>1, <1>2

(* Operators who cancel do not move the run.                               *)
LEMMA PlaceKept ==
    ASSUME TypeOK, PlaceInv, UNCHANGED <<request, saw, channel>>,
           \A q \in Runs : \/ row'[q] = row[q]
                           \/ row[q] # "none" /\ row'[q] \in {"cancelled", "deleted"},
           work.run = NoRun => work' = work,
           /\ work'.run = work.run /\ work'.phase = work.phase /\ work'.todo = work.todo
           /\ work'.doing = work.doing /\ work'.piece = work.piece
           /\ work'.entries = work.entries /\ work'.incremental = work.incremental
           /\ work'.groups = work.groups /\ work'.of = work.of
    PROVE  PlaceInv'
<1> QED
  BY WorkIs, Constants DEF PlaceInv, Walking, Telling, Over, request, channel, Idle

LEMMA PlaceStep == TypeOK /\ RowsInOrder /\ PlaceInv /\ [Next]_vars => PlaceInv'
<1> SUFFICES ASSUME TypeOK, RowsInOrder, PlaceInv, [Next]_vars PROVE PlaceInv'
  OBVIOUS
<1> USE Constants, BackupAssumption
<1>1. ASSUME NEW d \in Days, Rebuild(d) PROVE PlaceInv'
  BY <1>1, WorkIs
     DEF Rebuild, request, channel, files, bounds, TypeOK, PlaceInv, Walking,
         Telling, Idle, Open, Over, ActiveRuns
<1>2. ASSUME NEW r \in Runs, NEW days \in Scopes,
             NEW k \in {"full", "incremental", "dry"}, Enqueue(r, k, days)
      PROVE  PlaceInv'
  <2>1. /\ days \in SUBSET Days /\ Fresh(r) /\ kind'[r] = k /\ origin'[r] = "server"
        /\ \A q \in Runs : q > r => row[q] = "none"
    BY <1>2 DEF Enqueue, Register, TypeOK, Fresh, RowsInOrder
  <2>2. CASE k = "dry"
    BY <1>2, <2>1, <2>2, BeginPlace DEF Enqueue
  <2>3. CASE k # "dry"
    <3>1. /\ row'[r] = "queued" /\ \A q \in Runs : q > r => row'[q] = "none"
          /\ work' = [Idle EXCEPT !.run = r, !.phase = "check"]
      BY <1>2, <2>1, <2>3 DEF Enqueue, TypeOK
    <3>2. /\ work'.run = r /\ work'.phase = "check" /\ work'.todo = {} /\ work'.doing = {}
          /\ work'.piece = 0
      BY <3>1 DEF Idle
    <3> QED
      BY <3>1, <3>2, <2>1, <2>3 DEF PlaceInv, Walking, Telling, Over
  <2> QED
    BY <2>2, <2>3
<1>3. ASSUME NEW r \in Runs, NEW days \in Scopes,
             NEW k \in {"full", "incremental", "dry"}, StartCli(r, k, days)
      PROVE  PlaceInv'
  <2>1. /\ days \in SUBSET Days /\ Fresh(r) /\ kind'[r] = k
        /\ \A q \in Runs : q > r => row[q] = "none"
    BY <1>3 DEF StartCli, Register, TypeOK, Fresh, RowsInOrder
  <2> QED
    BY <1>3, <2>1, BeginPlace DEF StartCli
<1>4. ASSUME NEW r \in Runs, NEW days \in Scopes, EnqueueDisabled(r, days)
      PROVE  PlaceInv'
  BY <1>4, WorkIs
     DEF EnqueueDisabled, Register, Fresh, request, channel, files, bounds,
         TypeOK, PlaceInv, Walking, Telling, Idle, Open, Over, ActiveRuns
<1>5. ASSUME NEW r \in Runs, NEW m \in Runs, EnqueueRestore(r, m)
      PROVE  PlaceInv'
  <2>1. /\ Fresh(r) /\ kind'[r] = "restore" /\ origin'[r] = "server"
        /\ row'[r] = "running"
        /\ \A q \in Runs : q > r => row'[q] = "none"
    BY <1>5 DEF EnqueueRestore, Register, TypeOK, Fresh, RowsInOrder
  <2>2. PICK g : work' = [Idle EXCEPT !.run = r, !.phase = "restore", !.of = m,
                             !.groups = DOMAIN assets[m], !.entries = assets[m][g],
                             !.todo = DOMAIN assets[m][g]]
    BY <1>5 DEF EnqueueRestore
  <2>3. /\ work'.run = r /\ work'.phase = "restore" /\ work'.todo = DOMAIN work'.entries
        /\ work'.doing = {} /\ work'.piece = 0
        /\ work'.of = m /\ work'.groups = DOMAIN assets[m]
    BY <2>2 DEF Idle
  <2>4. m \in sent' /\ assets' = assets
    BY <1>5 DEF EnqueueRestore, channel
  <2> QED
    BY <2>1, <2>3, <2>4 DEF PlaceInv, Walking, Telling, Over
<1>6. ASSUME NEW r \in Runs, Cancel(r) PROVE PlaceInv'
  <2>1. \A q \in Runs : \/ row'[q] = row[q]
                        \/ row[q] # "none" /\ row'[q] \in {"cancelled", "deleted"}
    BY <1>6 DEF Cancel, CancelRecords, Clear, ActiveRuns, Open, TypeOK
  <2>2. work.run = NoRun => work' = work
    BY <1>6 DEF Cancel, AtWork
  <2>3. /\ work'.run = work.run /\ work'.phase = work.phase /\ work'.todo = work.todo
        /\ work'.doing = work.doing /\ work'.piece = work.piece
        /\ work'.entries = work.entries /\ work'.incremental = work.incremental
        /\ work'.groups = work.groups /\ work'.of = work.of
    BY <1>6, WorkIs DEF Cancel, Work
  <2> QED
    BY <1>6, <2>1, <2>2, <2>3, PlaceKept DEF Cancel
<1>7. ASSUME StopAll PROVE PlaceInv'
  <2>1. \A q \in Runs : \/ row'[q] = row[q]
                        \/ row[q] # "none" /\ row'[q] \in {"cancelled", "deleted"}
    BY <1>7 DEF StopAll, CancelRecords, Clear, ActiveRuns, Open, TypeOK
  <2>2. work.run = NoRun => work' = work
    BY <1>7 DEF StopAll, AtWork
  <2>3. /\ work'.run = work.run /\ work'.phase = work.phase /\ work'.todo = work.todo
        /\ work'.doing = work.doing /\ work'.piece = work.piece
        /\ work'.entries = work.entries /\ work'.incremental = work.incremental
        /\ work'.groups = work.groups /\ work'.of = work.of
    BY <1>7, WorkIs DEF StopAll, Work
  <2> QED
    BY <1>7, <2>1, <2>2, <2>3, PlaceKept DEF StopAll
<1>8. ASSUME ClearLocal PROVE PlaceInv'
  BY <1>8, WorkIs
     DEF ClearLocal, Clear, request, channel, files, bounds, TypeOK, PlaceInv,
         Walking, Telling, Idle, Open, Over, ActiveRuns
<1>9. ASSUME NEW r \in Runs, ThrowEarly(r) PROVE PlaceInv'
  BY <1>9, WorkIs
     DEF ThrowEarly, Phased, Rejected, Restarted, CancelRecords, request,
         channel, files, bounds, TypeOK, PlaceInv, Walking, Telling, Idle,
         Open, Over, ActiveRuns
<1>10. ASSUME NEW r \in Runs, NotReady(r) PROVE PlaceInv'
  BY <1>10, WorkIs
     DEF NotReady, Phased, SetRow, request, channel, files, bounds, TypeOK,
         PlaceInv, Walking, Telling, Idle, Open, Over, ActiveRuns
<1>11. ASSUME NEW r \in Runs, Ready(r) PROVE PlaceInv'
  <2>1. /\ Begin(r, kind[r], scope[r]) /\ scope[r] \in SUBSET Days /\ kind' = kind
        /\ work.run = r /\ work.phase = "check"
    BY <1>11 DEF Ready, Phased, request, TypeOK
  <2>2. /\ row[r] # "none" /\ kind[r] # "restore"
        /\ \A q \in Runs : q > r => row[q] = "none"
    BY <2>1 DEF PlaceInv
  <2> QED
    BY <2>1, <2>2, BeginPlace
<1>12. ASSUME NEW r \in Runs, NEW d \in Days, ReadFile(r, d)
       PROVE  PlaceInv'
  BY <1>12, WorkIs
     DEF ReadFile, Phased, request, channel, files, bounds, TypeOK, PlaceInv,
         Walking, Telling, Idle, Open, Over, ActiveRuns
<1>13. ASSUME NEW r \in Runs, NEW d \in Days, Unreadable(r, d)
       PROVE  PlaceInv'
  BY <1>13, WorkIs
     DEF Unreadable, Reading, Phased, Failure, Noted, Done, request, channel,
         files, bounds, TypeOK, PlaceInv, Walking, Telling, Idle, Open, Over,
         ActiveRuns
<1>14. ASSUME NEW r \in Runs, NEW d \in Days, Skip(r, d) PROVE PlaceInv'
  BY <1>14, WorkIs
     DEF Skip, Reading, Phased, Done, request, channel, files, bounds, TypeOK,
         PlaceInv, Walking, Telling, Idle, Open, Over, ActiveRuns
<1>15. ASSUME NEW r \in Runs, NEW d \in Days, DryRun(r, d) PROVE PlaceInv'
  BY <1>15, WorkIs
     DEF DryRun, Reading, Phased, Done, request, channel, files, bounds,
         TypeOK, PlaceInv, Walking, Telling, Idle, Open, Over, ActiveRuns
<1>16. ASSUME NEW r \in Runs, NEW d \in Days, StartUpload(r, d)
       PROVE  PlaceInv'
  <2>1. /\ work.run = r /\ work.phase = "read" /\ work.doing = {d}
        /\ Walking /\ kind[r] \in {"full", "incremental"}
    BY <1>16 DEF StartUpload, Reading, Phased, PlaceInv, Walking, TypeOK, Kind
  <2>2. /\ work'.run = r /\ work'.phase = "send" /\ work'.todo = work.todo
        /\ work'.doing = {d} /\ work'.incremental = work.incremental
        /\ work'.groups = work.groups
    BY <1>16, <2>1, WorkIs DEF StartUpload, Work
  <2> QED
    BY <1>16, <2>1, <2>2 DEF StartUpload, PlaceInv, Walking, Telling, request, files, channel
<1>17. ASSUME NEW r \in Runs, NEW d \in Days, SendPiece(r, d)
       PROVE  PlaceInv'
  <2>1. /\ work.run = r /\ work.phase = "send" /\ work.doing = {d}
        /\ Walking /\ UNCHANGED <<row, request, saw>>
    BY <1>17 DEF SendPiece, Phased, PlaceInv, Walking
  <2>2. CASE ~LastPiece
    <3>1. /\ work'.run = r /\ work'.phase = "send" /\ work'.todo = work.todo
          /\ work'.doing = {d} /\ work'.incremental = work.incremental
          /\ work'.groups = work.groups
      BY <1>17, <2>1, <2>2, WorkIs DEF SendPiece, Work
    <3> QED
      BY <2>1, <3>1 DEF PlaceInv, Walking, Telling, request
  <2>3. CASE LastPiece
    <3>1. PICK new \in {WithEntry(d, [version |-> saw[r][d], pieces |-> Chunks])} :
            work' = [Done(d) EXCEPT !.changed = TRUE, !.entries = new]
      BY <1>17, <2>3 DEF SendPiece
    <3>2. /\ work'.run = r /\ work'.phase = "walk" /\ work'.todo = work.todo \ {d}
          /\ work'.doing = {} /\ work'.piece = 0 /\ work'.incremental = work.incremental
          /\ work'.groups = work.groups
      BY <3>1, <2>1, WorkIs DEF Done, Work
    <3> QED
      BY <2>1, <3>2 DEF PlaceInv, Walking, Telling, request
  <2> QED
    BY <2>2, <2>3
<1>18. ASSUME NEW r \in Runs, NEW d \in Days, FailPiece(r, d)
       PROVE  PlaceInv'
  BY <1>18, WorkIs
     DEF FailPiece, Phased, Failure, Noted, Done, request, channel, files,
         bounds, TypeOK, PlaceInv, Walking, Telling, Idle, Open, Over,
         ActiveRuns
<1>19. ASSUME NEW r \in Runs, StartCatalogue(r) PROVE PlaceInv'
  <2>1. /\ work.run = r /\ work.phase = "walk" /\ Walking
        /\ UNCHANGED <<row, request, saw>> /\ SameRun
    BY <1>19, CatalogueStarts DEF Walking
  <2>2. PICK g \in work.groups : /\ \A d \in work.todo : GroupOf[d] # g
                                 /\ work'.groups = work.groups \ {g}
                                 /\ Publishes(r, g) \/ Reuses(r, g) \/ Counts(r)
    BY <1>19, CatalogueStarts
  <2>3. /\ work'.phase \in {"walk", "catalogue", "master"}
        /\ work'.phase = "master" => work'.groups = {}
        /\ work'.phase # "walk" => kind[r] # "dry"
    BY <2>2 DEF Publishes, Reuses, Counts
  <2>4. kind[r] \in {"full", "incremental", "dry"}
    BY <2>1 DEF PlaceInv, TypeOK, Kind
  <2>5. work.doing = {} /\ work.piece = 0
    BY <2>1 DEF PlaceInv
  <2> QED
    BY <2>1, <2>2, <2>3, <2>4, <2>5 DEF PlaceInv, Walking, Telling, request, SameRun
<1>20. ASSUME NEW r \in Runs, CatalogueSent(r) PROVE PlaceInv'
  <2>1. /\ work.run = r /\ work.phase = "catalogue" /\ Telling /\ SameRun
        /\ work'.groups = work.groups /\ UNCHANGED <<row, request, saw>>
    BY <1>20, CatalogueIsSent DEF Telling
  <2>2. /\ work'.phase \in {"walk", "master"}
        /\ work'.phase = "master" => work'.groups = {}
    BY <1>20, CatalogueIsSent
  <2>3. work.doing = {} /\ work.piece = 0 /\ kind[r] \in {"full", "incremental"}
    BY <2>1 DEF PlaceInv
  <2>4. kind[r] = "full" => ~work.incremental
    BY <2>1 DEF PlaceInv
  <2> QED
    BY <2>1, <2>2, <2>3, <2>4 DEF PlaceInv, Walking, Telling, request, SameRun
<1>21. ASSUME NEW r \in Runs, MasterSent(r) PROVE PlaceInv'
  BY <1>21, WorkIs
     DEF MasterSent, Phased, request, channel, files, bounds, TypeOK,
         PlaceInv, Walking, Telling, Idle, Open, Over, ActiveRuns
<1>22. ASSUME NEW r \in Runs, Finish(r) PROVE PlaceInv'
  BY <1>22, WorkIs
     DEF Finish, Phased, SetRow, request, channel, files, bounds, TypeOK,
         PlaceInv, Walking, Telling, Idle, Open, Over, ActiveRuns
<1>23. ASSUME NEW r \in Runs, StopAtCheck(r) PROVE PlaceInv'
  BY <1>23, WorkIs
     DEF StopAtCheck, CancelRecords, request, channel, files, bounds, TypeOK,
         PlaceInv, Walking, Telling, Idle, Open, Over, ActiveRuns
<1>24. ASSUME NEW r \in Runs, Break(r) PROVE PlaceInv'
  BY <1>24, WorkIs
     DEF Break, Failure, SetRow, request, channel, files, bounds, TypeOK,
         PlaceInv, Walking, Telling, Idle, Open, Over, ActiveRuns
<1>25. ASSUME NEW r \in Runs, NEW d \in Days, RestoreDay(r, d)
       PROVE  PlaceInv'
  BY <1>25, WorkIs
     DEF RestoreDay, Phased, request, channel, files, bounds, TypeOK,
         PlaceInv, Walking, Telling, Idle, Open, Over, ActiveRuns
<1>26. ASSUME NEW r \in Runs, NEW d \in Days, RefuseDay(r, d)
       PROVE  PlaceInv'
  BY <1>26, WorkIs
     DEF RefuseDay, Phased, Failure, request, channel, files, bounds, TypeOK,
         PlaceInv, Walking, Telling, Idle, Open, Over, ActiveRuns
<1>27. ASSUME NEW r \in Runs, FinishRestore(r) PROVE PlaceInv'
  BY <1>27, WorkIs
     DEF FinishRestore, Phased, SetRow, request, channel, files, bounds,
         TypeOK, PlaceInv, Walking, Telling, Idle, Open, Over, ActiveRuns
<1>28. ASSUME NEW r \in Runs, StopRestore(r) PROVE PlaceInv'
  BY <1>28, WorkIs
     DEF StopRestore, Phased, CancelRecords, request, channel, files, bounds,
         TypeOK, PlaceInv, Walking, Telling, Idle, Open, Over, ActiveRuns
<1>29. ASSUME NEW r \in Runs, BreakRestore(r) PROVE PlaceInv'
  BY <1>29, WorkIs
     DEF BreakRestore, Phased, Failure, SetRow, request, channel, files,
         bounds, TypeOK, PlaceInv, Walking, Telling, Idle, Open, Over,
         ActiveRuns
<1>30. ASSUME Restart PROVE PlaceInv'
  BY <1>30, WorkIs
     DEF Restart, Restarted, CancelRecords, request, channel, files, bounds,
         TypeOK, PlaceInv, Walking, Telling, Idle, Open, Over, ActiveRuns
<1>31. ASSUME CliDie PROVE PlaceInv'
  BY <1>31, WorkIs
     DEF CliDie, request, channel, files, bounds, TypeOK, PlaceInv, Walking,
         Telling, Idle, Open, Over, ActiveRuns
<1>32. CASE UNCHANGED vars
  BY <1>32, WorkIs
     DEF vars, request, channel, files, bounds, TypeOK, PlaceInv, Walking,
         Telling, Idle, Open, Over, ActiveRuns
<1>33. ASSUME NEW r \in Runs, NextAsset(r)
       PROVE  PlaceInv'
  BY <1>33, WorkIs
     DEF NextAsset, Phased, Failure, request, channel, files, bounds, TypeOK,
         PlaceInv, Walking, Telling, Idle, Open, Over, ActiveRuns
<1> QED
  BY <1>1, <1>2, <1>3, <1>4, <1>5, <1>6, <1>7, <1>8, <1>9, <1>10, <1>11,
     <1>12, <1>13, <1>14, <1>15, <1>16, <1>17, <1>18, <1>19, <1>20, <1>21,
     <1>22, <1>23, <1>24, <1>25, <1>26, <1>27, <1>28, <1>29, <1>30, <1>31,
     <1>32, <1>33
     DEF Next, BackupStep, RestoreStep

(* What every step may rely on.                                            *)
Base == TypeOK /\ RowsInOrder /\ PlaceInv

LEMMA BeginsFields ==
    ASSUME NEW r, NEW b, NEW D, Begins(r, b, D)
    PROVE  /\ work'.run = r /\ work'.phase = "walk" /\ work'.todo = D /\ work'.doing = {}
           /\ work'.piece = 0 /\ work'.entries = Nothing /\ work'.incremental = b
           /\ work'.groups = GroupsOf(D) /\ ~work'.changed /\ ~work'.spoilt /\ ~work'.errors
           /\ ~work'.cancelled /\ ~work'.handled
<1> QED
  BY DEF Begins, Idle

LEMMA SendEffect ==
    ASSUME Base, NEW r \in Runs, NEW d \in Days, SendPiece(r, d)
    PROVE  /\ work.run = r /\ work.phase = "send" /\ work.doing = {d} /\ d \in work.todo
           /\ work'.run = r /\ work'.incremental = work.incremental
           /\ work'.errors = work.errors /\ work'.cancelled = work.cancelled
           /\ work'.handled = work.handled /\ work'.groups = work.groups
           /\ work'.spoilt = work.spoilt
           /\ \/ /\ ~LastPiece
                 /\ work'.phase = "send" /\ work'.todo = work.todo /\ work'.doing = {d}
                 /\ work'.piece = work.piece + 1 /\ work'.entries = work.entries
                 /\ work'.changed = work.changed
              \/ /\ LastPiece
                 /\ work'.phase = "walk" /\ work'.todo = work.todo \ {d} /\ work'.doing = {}
                 /\ work'.piece = 0 /\ work'.changed
                 /\ work'.entries = WithEntry(d, [version |-> saw[r][d], pieces |-> Chunks])
<1>1. work.run = r /\ work.phase = "send" /\ work.doing = {d} /\ d \in work.todo
  BY WorkIs DEF Base, PlaceInv, SendPiece, Phased
<1>2. CASE ~LastPiece
  BY <1>1, <1>2, WorkIs DEF SendPiece, Base, Work
<1>3. CASE LastPiece
  <2>1. PICK new : /\ new = WithEntry(d, [version |-> saw[r][d], pieces |-> Chunks])
                   /\ work' = [Done(d) EXCEPT !.changed = TRUE, !.entries = new]
    BY <1>3 DEF SendPiece
  <2> QED
    BY <1>1, <1>3, <2>1, WorkIs DEF Done, Base, Work
<1> QED
  BY <1>2, <1>3

LEMMA StartCatalogueEffect ==
    ASSUME Base, NEW r \in Runs, StartCatalogue(r)
    PROVE  /\ work.run = r /\ work.phase = "walk" /\ ~work.cancelled
           /\ kind[r] \in {"full", "incremental", "dry"}
           /\ SameRun /\ work'.phase \in {"walk", "catalogue", "master"}
           /\ kind[r] = "dry" => work'.phase = "walk" /\ assets' = assets
           /\ work'.phase = "master" => work'.groups = {}
<1>1. /\ work.run = r /\ work.phase = "walk" /\ ~work.cancelled /\ SameRun
  BY CatalogueStarts DEF Base
<1>2. kind[r] \in {"full", "incremental", "dry"}
  BY <1>1 DEF Base, PlaceInv, TypeOK, Kind, Walking
<1>3. \E g : Publishes(r, g) \/ Reuses(r, g) \/ Counts(r)
  BY CatalogueStarts DEF Base
<1> QED
  BY <1>1, <1>2, <1>3 DEF Publishes, Reuses, Counts

LEMMA BaseStep == Base /\ [Next]_vars => Base'
<1> QED
  BY TypeStep, OrderStep, PlaceStep DEF Base

LEMMA BaseIsInvariant == Spec => []Base
<1>1. Init => Base
  BY TypeInit, OrderInit, PlaceInit DEF Base
<1> QED
  BY <1>1, BaseStep, PTL DEF Spec

(* The variables have their types.                                         *)
THEOREM BackupTyping == Spec => []TypeOK
<1>1. Base => TypeOK
  BY DEF Base
<1> QED
  BY <1>1, BaseIsInvariant, PTL

-----------------------------------------------------------------------------
(* The slot.                                                               *)

LEMMA RunningInit == Init => RunningIsAtWork
<1> QED
  BY DEF Init, RunningIsAtWork

LEMMA BeginRun ==
    ASSUME row \in [Runs -> Status], NEW r \in Runs, NEW k, NEW days, Begin(r, k, days),
           row'[r] = "running"
    PROVE  work'.run = r
<1> QED
  BY DEF Begin, SetRow, Idle

LEMMA RunningStep == Base /\ RunningIsAtWork /\ [Next]_vars => RunningIsAtWork'
<1> SUFFICES ASSUME Base, RunningIsAtWork, [Next]_vars PROVE RunningIsAtWork'
  OBVIOUS
<1> USE Constants, BackupAssumption DEF Base
<1>1. ASSUME NEW d \in Days, Rebuild(d) PROVE RunningIsAtWork'
  BY <1>1, WorkIs
     DEF Rebuild, request, channel, files, bounds, TypeOK, RunningIsAtWork,
         PlaceInv, Idle, ActiveRuns, Open, Over, AtWork
<1>2. ASSUME NEW r \in Runs, NEW days \in Scopes,
             NEW k \in {"full", "incremental", "dry"}, Enqueue(r, k, days)
      PROVE  RunningIsAtWork'
  <2>1. Fresh(r) /\ \A q \in Runs : q # r => row'[q] = row[q] /\ origin'[q] = origin[q]
    BY <1>2, BeginRow DEF Enqueue, Register, SetRow, TypeOK
  <2>2. row'[r] = "running" => work'.run = r
    <3>1. CASE k = "dry"
      BY <1>2, <2>1, <3>1, BeginRun DEF Enqueue, TypeOK
    <3>2. CASE k # "dry"
      BY <1>2, <3>2 DEF Enqueue, TypeOK
    <3> QED
      BY <3>1, <3>2
  <2>3. work.run = NoRun
    BY <1>2 DEF Enqueue, Register
  <2> QED
    BY <2>1, <2>2, <2>3 DEF RunningIsAtWork
<1>3. ASSUME NEW r \in Runs, NEW days \in Scopes,
             NEW k \in {"full", "incremental", "dry"}, StartCli(r, k, days)
      PROVE  RunningIsAtWork'
  <2>1. Fresh(r) /\ \A q \in Runs : q # r => row'[q] = row[q] /\ origin'[q] = origin[q]
    BY <1>3, BeginRow DEF StartCli, Register, SetRow, TypeOK
  <2>2. origin'[r] = "cli" /\ work.run = NoRun
    BY <1>3 DEF StartCli, Register, TypeOK
  <2> QED
    BY <2>1, <2>2 DEF RunningIsAtWork
<1>4. ASSUME NEW r \in Runs, NEW days \in Scopes, EnqueueDisabled(r, days)
      PROVE  RunningIsAtWork'
  BY <1>4, WorkIs
     DEF EnqueueDisabled, Register, Fresh, request, channel, files, bounds,
         TypeOK, RunningIsAtWork, PlaceInv, Idle, ActiveRuns, Open, Over,
         AtWork
<1>5. ASSUME NEW r \in Runs, NEW m \in Runs, EnqueueRestore(r, m)
      PROVE  RunningIsAtWork'
  BY <1>5, WorkIs
     DEF EnqueueRestore, Register, Fresh, request, channel, files, bounds,
         TypeOK, RunningIsAtWork, PlaceInv, Idle, ActiveRuns, Open, Over,
         AtWork
<1>6. ASSUME NEW r \in Runs, Cancel(r) PROVE RunningIsAtWork'
  BY <1>6, WorkIs
     DEF Cancel, CancelRecords, request, channel, files, bounds, TypeOK,
         RunningIsAtWork, PlaceInv, Idle, ActiveRuns, Open, Over, AtWork
<1>7. ASSUME StopAll PROVE RunningIsAtWork'
  <2>1. \A r \in Runs : row'[r] = "running" => row[r] = "running"
    BY <1>7 DEF StopAll, Clear, CancelRecords
  <2>2. work'.run = work.run /\ origin' = origin
    BY <1>7, WorkIs DEF StopAll, Work, request
  <2> QED
    BY <2>1, <2>2 DEF RunningIsAtWork
<1>8. ASSUME ClearLocal PROVE RunningIsAtWork'
  BY <1>8, WorkIs
     DEF ClearLocal, Clear, request, channel, files, bounds, TypeOK,
         RunningIsAtWork, PlaceInv, Idle, ActiveRuns, Open, Over, AtWork
<1>9. ASSUME NEW r \in Runs, ThrowEarly(r) PROVE RunningIsAtWork'
  BY <1>9, WorkIs
     DEF ThrowEarly, Phased, Rejected, Restarted, CancelRecords, request,
         channel, files, bounds, TypeOK, RunningIsAtWork, PlaceInv, Idle,
         ActiveRuns, Open, Over, AtWork
<1>10. ASSUME NEW r \in Runs, NotReady(r) PROVE RunningIsAtWork'
  BY <1>10, WorkIs
     DEF NotReady, Phased, SetRow, request, channel, files, bounds, TypeOK,
         RunningIsAtWork, PlaceInv, Idle, ActiveRuns, Open, Over, AtWork
<1>11. ASSUME NEW r \in Runs, Ready(r) PROVE RunningIsAtWork'
  <2>1. /\ Begin(r, kind[r], scope[r]) /\ work.run = r /\ row[r] # "running"
        /\ origin' = origin
    BY <1>11 DEF Ready, Phased, request, PlaceInv
  <2>2. \A q \in Runs : q # r => row'[q] = row[q]
    BY <2>1, BeginRow DEF SetRow, TypeOK
  <2>3. row'[r] = "running" => work'.run = r
    BY <2>1, BeginRun DEF TypeOK
  <2> QED
    BY <2>1, <2>2, <2>3 DEF RunningIsAtWork
<1>12. ASSUME NEW r \in Runs, NEW d \in Days, ReadFile(r, d)
       PROVE  RunningIsAtWork'
  BY <1>12, WorkIs
     DEF ReadFile, Phased, request, channel, files, bounds, TypeOK,
         RunningIsAtWork, PlaceInv, Idle, ActiveRuns, Open, Over, AtWork
<1>13. ASSUME NEW r \in Runs, NEW d \in Days, Unreadable(r, d)
       PROVE  RunningIsAtWork'
  BY <1>13, WorkIs
     DEF Unreadable, Reading, Phased, Failure, Noted, Done, request, channel,
         files, bounds, TypeOK, RunningIsAtWork, PlaceInv, Idle, ActiveRuns,
         Open, Over, AtWork
<1>14. ASSUME NEW r \in Runs, NEW d \in Days, Skip(r, d) PROVE RunningIsAtWork'
  BY <1>14, WorkIs
     DEF Skip, Reading, Phased, Done, request, channel, files, bounds, TypeOK,
         RunningIsAtWork, PlaceInv, Idle, ActiveRuns, Open, Over, AtWork
<1>15. ASSUME NEW r \in Runs, NEW d \in Days, DryRun(r, d) PROVE RunningIsAtWork'
  BY <1>15, WorkIs
     DEF DryRun, Reading, Phased, Done, request, channel, files, bounds,
         TypeOK, RunningIsAtWork, PlaceInv, Idle, ActiveRuns, Open, Over,
         AtWork
<1>16. ASSUME NEW r \in Runs, NEW d \in Days, StartUpload(r, d)
       PROVE  RunningIsAtWork'
  BY <1>16, WorkIs
     DEF StartUpload, Reading, Phased, request, channel, files, bounds,
         TypeOK, RunningIsAtWork, PlaceInv, Idle, ActiveRuns, Open, Over,
         AtWork
<1>17. ASSUME NEW r \in Runs, NEW d \in Days, SendPiece(r, d)
       PROVE  RunningIsAtWork'
  <2>1. work'.run = r /\ work.run = r /\ UNCHANGED <<row, origin>>
    BY <1>17, SendEffect DEF SendPiece, request
  <2> QED
    BY <2>1 DEF RunningIsAtWork
<1>18. ASSUME NEW r \in Runs, NEW d \in Days, FailPiece(r, d)
       PROVE  RunningIsAtWork'
  BY <1>18, WorkIs
     DEF FailPiece, Phased, Failure, Noted, Done, request, channel, files,
         bounds, TypeOK, RunningIsAtWork, PlaceInv, Idle, ActiveRuns, Open,
         Over, AtWork
<1>19. ASSUME NEW r \in Runs, StartCatalogue(r) PROVE RunningIsAtWork'
  <2>1. work'.run = r /\ work.run = r /\ UNCHANGED <<row, origin>>
    BY <1>19, StartCatalogueEffect DEF SameRun, StartCatalogue, request
  <2> QED
    BY <2>1 DEF RunningIsAtWork
<1>20. ASSUME NEW r \in Runs, CatalogueSent(r) PROVE RunningIsAtWork'
  BY <1>20, WorkIs
     DEF CatalogueSent, Onward, Phased, request, channel, files, bounds, TypeOK,
         RunningIsAtWork, PlaceInv, Idle, ActiveRuns, Open, Over, AtWork
<1>21. ASSUME NEW r \in Runs, MasterSent(r) PROVE RunningIsAtWork'
  BY <1>21, WorkIs
     DEF MasterSent, Phased, request, channel, files, bounds, TypeOK,
         RunningIsAtWork, PlaceInv, Idle, ActiveRuns, Open, Over, AtWork
<1>22. ASSUME NEW r \in Runs, Finish(r) PROVE RunningIsAtWork'
  BY <1>22, WorkIs
     DEF Finish, Phased, SetRow, request, channel, files, bounds, TypeOK,
         RunningIsAtWork, PlaceInv, Idle, ActiveRuns, Open, Over, AtWork
<1>23. ASSUME NEW r \in Runs, StopAtCheck(r) PROVE RunningIsAtWork'
  BY <1>23, WorkIs
     DEF StopAtCheck, CancelRecords, request, channel, files, bounds, TypeOK,
         RunningIsAtWork, PlaceInv, Idle, ActiveRuns, Open, Over, AtWork
<1>24. ASSUME NEW r \in Runs, Break(r) PROVE RunningIsAtWork'
  BY <1>24, WorkIs
     DEF Break, Failure, SetRow, request, channel, files, bounds, TypeOK,
         RunningIsAtWork, PlaceInv, Idle, ActiveRuns, Open, Over, AtWork
<1>25. ASSUME NEW r \in Runs, NEW d \in Days, RestoreDay(r, d)
       PROVE  RunningIsAtWork'
  BY <1>25, WorkIs
     DEF RestoreDay, Phased, request, channel, files, bounds, TypeOK,
         RunningIsAtWork, PlaceInv, Idle, ActiveRuns, Open, Over, AtWork
<1>26. ASSUME NEW r \in Runs, NEW d \in Days, RefuseDay(r, d)
       PROVE  RunningIsAtWork'
  BY <1>26, WorkIs
     DEF RefuseDay, Phased, Failure, request, channel, files, bounds, TypeOK,
         RunningIsAtWork, PlaceInv, Idle, ActiveRuns, Open, Over, AtWork
<1>27. ASSUME NEW r \in Runs, FinishRestore(r) PROVE RunningIsAtWork'
  BY <1>27, WorkIs
     DEF FinishRestore, Phased, SetRow, request, channel, files, bounds,
         TypeOK, RunningIsAtWork, PlaceInv, Idle, ActiveRuns, Open, Over,
         AtWork
<1>28. ASSUME NEW r \in Runs, StopRestore(r) PROVE RunningIsAtWork'
  BY <1>28, WorkIs
     DEF StopRestore, Phased, CancelRecords, request, channel, files, bounds,
         TypeOK, RunningIsAtWork, PlaceInv, Idle, ActiveRuns, Open, Over,
         AtWork
<1>29. ASSUME NEW r \in Runs, BreakRestore(r) PROVE RunningIsAtWork'
  BY <1>29, WorkIs
     DEF BreakRestore, Phased, Failure, SetRow, request, channel, files,
         bounds, TypeOK, RunningIsAtWork, PlaceInv, Idle, ActiveRuns, Open,
         Over, AtWork
<1>30. ASSUME Restart PROVE RunningIsAtWork'
  BY <1>30, WorkIs
     DEF Restart, Restarted, CancelRecords, request, channel, files, bounds,
         TypeOK, RunningIsAtWork, PlaceInv, Idle, ActiveRuns, Open, Over,
         AtWork
<1>31. ASSUME CliDie PROVE RunningIsAtWork'
  BY <1>31, WorkIs
     DEF CliDie, request, channel, files, bounds, TypeOK, RunningIsAtWork,
         PlaceInv, Idle, ActiveRuns, Open, Over, AtWork
<1>32. CASE UNCHANGED vars
  BY <1>32, WorkIs
     DEF vars, request, channel, files, bounds, TypeOK, RunningIsAtWork,
         PlaceInv, Idle, ActiveRuns, Open, Over, AtWork
<1>33. ASSUME NEW r \in Runs, NextAsset(r)
       PROVE  RunningIsAtWork'
  BY <1>33, WorkIs
     DEF NextAsset, Phased, Failure, request, channel, files, bounds, TypeOK,
         RunningIsAtWork, PlaceInv, Idle, ActiveRuns, Open, Over, AtWork
<1> QED
  BY <1>1, <1>2, <1>3, <1>4, <1>5, <1>6, <1>7, <1>8, <1>9, <1>10, <1>11,
     <1>12, <1>13, <1>14, <1>15, <1>16, <1>17, <1>18, <1>19, <1>20, <1>21,
     <1>22, <1>23, <1>24, <1>25, <1>26, <1>27, <1>28, <1>29, <1>30, <1>31,
     <1>32, <1>33
     DEF Next, BackupStep, RestoreStep

(* A run of the server leaves no row behind that says "running".           *)
THEOREM SlotIsFreed == Spec => []RunningIsAtWork
<1> QED
  BY BaseIsInvariant, RunningInit, RunningStep, PTL DEF Spec

-----------------------------------------------------------------------------
(* Cancellation.                                                           *)

LEMMA ToldInit == Init => ToldInv
<1> QED
  BY Constants DEF Init, ToldInv, Idle

LEMMA BeginWork ==
    ASSUME NEW r \in Runs, NEW k, NEW days, Begin(r, k, days), work' # Idle
    PROVE  /\ work'.run = r /\ work'.phase = "walk" /\ ~work'.cancelled
           /\ row' = SetRow(row, r, "running")
<1> QED
  BY DEF Begin, Idle

LEMMA ToldStep == Base /\ ToldInv /\ [Next]_vars => ToldInv'
<1> SUFFICES ASSUME Base, ToldInv, [Next]_vars PROVE ToldInv'
  OBVIOUS
<1> USE Constants, BackupAssumption DEF Base
<1>1. ASSUME NEW d \in Days, Rebuild(d) PROVE ToldInv'
  BY <1>1, WorkIs
     DEF Rebuild, request, channel, files, bounds, TypeOK, ToldInv, PlaceInv,
         Idle, ActiveRuns, Open, Over, AtWork
<1>2. ASSUME NEW r \in Runs, NEW days \in Scopes,
             NEW k \in {"full", "incremental", "dry"}, Enqueue(r, k, days)
      PROVE  ToldInv'
  <2>1. CASE work' = Idle
    BY <1>2, <2>1 DEF Enqueue, Register, ToldInv, Idle
  <2>2. CASE work' # Idle
    <3>1. work'.run = r /\ ~work'.cancelled
      BY <1>2, <2>2, BeginWork DEF Enqueue, Idle
    <3>2. row'[r] \in {"queued", "running"}
      <4>1. CASE k = "dry"
        BY <1>2, <4>1, <2>2, BeginWork DEF Enqueue, Register, Fresh, SetRow, TypeOK
      <4>2. CASE k # "dry"
        BY <1>2, <4>2 DEF Enqueue, TypeOK
      <4> QED
        BY <4>1, <4>2
    <3>3. ~waiting'
      BY <1>2 DEF Enqueue, Register
    <3> QED
      BY <3>1, <3>2, <3>3 DEF ToldInv
  <2> QED
    BY <2>1, <2>2
<1>3. ASSUME NEW r \in Runs, NEW days \in Scopes,
             NEW k \in {"full", "incremental", "dry"}, StartCli(r, k, days)
      PROVE  ToldInv'
  <2>1. CASE work' = Idle
    BY <1>3, <2>1 DEF StartCli, Register, ToldInv, Idle
  <2>2. CASE work' # Idle
    <3>1. work'.run = r /\ ~work'.cancelled /\ origin'[r] = "cli" /\ ~waiting'
      BY <1>3, <2>2, BeginWork DEF StartCli, Register, TypeOK
    <3> QED
      BY <3>1 DEF ToldInv
  <2> QED
    BY <2>1, <2>2
<1>4. ASSUME NEW r \in Runs, NEW days \in Scopes, EnqueueDisabled(r, days)
      PROVE  ToldInv'
  BY <1>4, WorkIs
     DEF EnqueueDisabled, Register, Fresh, request, channel, files, bounds,
         TypeOK, ToldInv, PlaceInv, Idle, ActiveRuns, Open, Over, AtWork
<1>5. ASSUME NEW r \in Runs, NEW m \in Runs, EnqueueRestore(r, m)
      PROVE  ToldInv'
  BY <1>5, WorkIs
     DEF EnqueueRestore, Register, Fresh, request, channel, files, bounds,
         TypeOK, ToldInv, PlaceInv, Idle, ActiveRuns, Open, Over, AtWork
<1>6. ASSUME NEW r \in Runs, Cancel(r) PROVE ToldInv'
  BY <1>6, WorkIs
     DEF Cancel, CancelRecords, request, channel, files, bounds, TypeOK,
         ToldInv, PlaceInv, Idle, ActiveRuns, Open, Over, AtWork
<1>7. ASSUME StopAll PROVE ToldInv'
  <2>1. CASE AtWork("server")
    <3>1. /\ work'.run = work.run /\ work'.cancelled /\ origin[work.run] = "server"
          /\ origin' = origin
      BY <1>7, <2>1, WorkIs DEF StopAll, AtWork, Work, request
    <3> QED
      BY <3>1 DEF ToldInv
  <2>2. CASE ~AtWork("server")
    <3>1. work' = work /\ UNCHANGED <<origin, waiting>> /\ (work.run = NoRun \/ origin[work.run] # "server")
      BY <1>7, <2>2, WorkIs DEF StopAll, AtWork, request
    <3> QED
      BY <3>1 DEF ToldInv
  <2> QED
    BY <2>1, <2>2
<1>8. ASSUME ClearLocal PROVE ToldInv'
  BY <1>8, WorkIs
     DEF ClearLocal, Clear, request, channel, files, bounds, TypeOK, ToldInv,
         PlaceInv, Idle, ActiveRuns, Open, Over, AtWork
<1>9. ASSUME NEW r \in Runs, ThrowEarly(r) PROVE ToldInv'
  BY <1>9, WorkIs
     DEF ThrowEarly, Phased, Rejected, Restarted, CancelRecords, request,
         channel, files, bounds, TypeOK, ToldInv, PlaceInv, Idle, ActiveRuns,
         Open, Over, AtWork
<1>10. ASSUME NEW r \in Runs, NotReady(r) PROVE ToldInv'
  BY <1>10, WorkIs
     DEF NotReady, Phased, SetRow, request, channel, files, bounds, TypeOK,
         ToldInv, PlaceInv, Idle, ActiveRuns, Open, Over, AtWork
<1>11. ASSUME NEW r \in Runs, Ready(r) PROVE ToldInv'
  <2>1. CASE work' = Idle
    BY <1>11, <2>1 DEF Ready, ToldInv, Idle
  <2>2. CASE work' # Idle
    <3>1. /\ work'.run = r /\ ~work'.cancelled /\ row' = SetRow(row, r, "running")
      BY <1>11, <2>2, BeginWork DEF Ready
    <3>2. work.run = r /\ ~work.cancelled /\ origin[r] = "server" /\ UNCHANGED <<origin, waiting>>
      BY <1>11 DEF Ready, Phased, PlaceInv, request
    <3>3. row[r] \notin {"cancelled", "deleted"} /\ ~waiting
      BY <3>2 DEF ToldInv
    <3>4. row'[r] = "running"
      BY <3>1, <3>3 DEF SetRow, TypeOK
    <3> QED
      BY <3>1, <3>2, <3>3, <3>4 DEF ToldInv
  <2> QED
    BY <2>1, <2>2
<1>12. ASSUME NEW r \in Runs, NEW d \in Days, ReadFile(r, d)
       PROVE  ToldInv'
  BY <1>12, WorkIs
     DEF ReadFile, Phased, request, channel, files, bounds, TypeOK, ToldInv,
         PlaceInv, Idle, ActiveRuns, Open, Over, AtWork
<1>13. ASSUME NEW r \in Runs, NEW d \in Days, Unreadable(r, d)
       PROVE  ToldInv'
  BY <1>13, WorkIs
     DEF Unreadable, Reading, Phased, Failure, Noted, Done, request, channel,
         files, bounds, TypeOK, ToldInv, PlaceInv, Idle, ActiveRuns, Open,
         Over, AtWork
<1>14. ASSUME NEW r \in Runs, NEW d \in Days, Skip(r, d) PROVE ToldInv'
  BY <1>14, WorkIs
     DEF Skip, Reading, Phased, Done, request, channel, files, bounds, TypeOK,
         ToldInv, PlaceInv, Idle, ActiveRuns, Open, Over, AtWork
<1>15. ASSUME NEW r \in Runs, NEW d \in Days, DryRun(r, d) PROVE ToldInv'
  BY <1>15, WorkIs
     DEF DryRun, Reading, Phased, Done, request, channel, files, bounds,
         TypeOK, ToldInv, PlaceInv, Idle, ActiveRuns, Open, Over, AtWork
<1>16. ASSUME NEW r \in Runs, NEW d \in Days, StartUpload(r, d)
       PROVE  ToldInv'
  BY <1>16, WorkIs
     DEF StartUpload, Reading, Phased, request, channel, files, bounds,
         TypeOK, ToldInv, PlaceInv, Idle, ActiveRuns, Open, Over, AtWork
<1>17. ASSUME NEW r \in Runs, NEW d \in Days, SendPiece(r, d)
       PROVE  ToldInv'
  <2>1. /\ work'.run = r /\ work.run = r /\ work'.cancelled = work.cancelled
        /\ UNCHANGED <<row, origin, waiting>>
    BY <1>17, SendEffect DEF SendPiece, request
  <2> QED
    BY <2>1 DEF ToldInv
<1>18. ASSUME NEW r \in Runs, NEW d \in Days, FailPiece(r, d)
       PROVE  ToldInv'
  BY <1>18, WorkIs
     DEF FailPiece, Phased, Failure, Noted, Done, request, channel, files,
         bounds, TypeOK, ToldInv, PlaceInv, Idle, ActiveRuns, Open, Over,
         AtWork
<1>19. ASSUME NEW r \in Runs, StartCatalogue(r) PROVE ToldInv'
  <2>1. /\ work'.run = r /\ work.run = r /\ work'.cancelled = work.cancelled
        /\ UNCHANGED <<row, origin, waiting>>
    BY <1>19, StartCatalogueEffect DEF SameRun, StartCatalogue, request
  <2> QED
    BY <2>1 DEF ToldInv
<1>20. ASSUME NEW r \in Runs, CatalogueSent(r) PROVE ToldInv'
  BY <1>20, WorkIs
     DEF CatalogueSent, Onward, Phased, request, channel, files, bounds, TypeOK,
         ToldInv, PlaceInv, Idle, ActiveRuns, Open, Over, AtWork
<1>21. ASSUME NEW r \in Runs, MasterSent(r) PROVE ToldInv'
  BY <1>21, WorkIs
     DEF MasterSent, Phased, request, channel, files, bounds, TypeOK, ToldInv,
         PlaceInv, Idle, ActiveRuns, Open, Over, AtWork
<1>22. ASSUME NEW r \in Runs, Finish(r) PROVE ToldInv'
  BY <1>22, WorkIs
     DEF Finish, Phased, SetRow, request, channel, files, bounds, TypeOK,
         ToldInv, PlaceInv, Idle, ActiveRuns, Open, Over, AtWork
<1>23. ASSUME NEW r \in Runs, StopAtCheck(r) PROVE ToldInv'
  BY <1>23, WorkIs
     DEF StopAtCheck, CancelRecords, request, channel, files, bounds, TypeOK,
         ToldInv, PlaceInv, Idle, ActiveRuns, Open, Over, AtWork
<1>24. ASSUME NEW r \in Runs, Break(r) PROVE ToldInv'
  BY <1>24, WorkIs
     DEF Break, Failure, SetRow, request, channel, files, bounds, TypeOK,
         ToldInv, PlaceInv, Idle, ActiveRuns, Open, Over, AtWork
<1>25. ASSUME NEW r \in Runs, NEW d \in Days, RestoreDay(r, d)
       PROVE  ToldInv'
  BY <1>25, WorkIs
     DEF RestoreDay, Phased, request, channel, files, bounds, TypeOK, ToldInv,
         PlaceInv, Idle, ActiveRuns, Open, Over, AtWork
<1>26. ASSUME NEW r \in Runs, NEW d \in Days, RefuseDay(r, d)
       PROVE  ToldInv'
  BY <1>26, WorkIs
     DEF RefuseDay, Phased, Failure, request, channel, files, bounds, TypeOK,
         ToldInv, PlaceInv, Idle, ActiveRuns, Open, Over, AtWork
<1>27. ASSUME NEW r \in Runs, FinishRestore(r) PROVE ToldInv'
  BY <1>27, WorkIs
     DEF FinishRestore, Phased, SetRow, request, channel, files, bounds,
         TypeOK, ToldInv, PlaceInv, Idle, ActiveRuns, Open, Over, AtWork
<1>28. ASSUME NEW r \in Runs, StopRestore(r) PROVE ToldInv'
  BY <1>28, WorkIs
     DEF StopRestore, Phased, CancelRecords, request, channel, files, bounds,
         TypeOK, ToldInv, PlaceInv, Idle, ActiveRuns, Open, Over, AtWork
<1>29. ASSUME NEW r \in Runs, BreakRestore(r) PROVE ToldInv'
  BY <1>29, WorkIs
     DEF BreakRestore, Phased, Failure, SetRow, request, channel, files,
         bounds, TypeOK, ToldInv, PlaceInv, Idle, ActiveRuns, Open, Over,
         AtWork
<1>30. ASSUME Restart PROVE ToldInv'
  BY <1>30, WorkIs
     DEF Restart, Restarted, CancelRecords, request, channel, files, bounds,
         TypeOK, ToldInv, PlaceInv, Idle, ActiveRuns, Open, Over, AtWork
<1>31. ASSUME CliDie PROVE ToldInv'
  BY <1>31, WorkIs
     DEF CliDie, request, channel, files, bounds, TypeOK, ToldInv, PlaceInv,
         Idle, ActiveRuns, Open, Over, AtWork
<1>32. CASE UNCHANGED vars
  BY <1>32, WorkIs
     DEF vars, request, channel, files, bounds, TypeOK, ToldInv, PlaceInv,
         Idle, ActiveRuns, Open, Over, AtWork
<1>33. ASSUME NEW r \in Runs, NextAsset(r)
       PROVE  ToldInv'
  BY <1>33, WorkIs
     DEF NextAsset, Phased, Failure, request, channel, files, bounds, TypeOK,
         ToldInv, PlaceInv, Idle, ActiveRuns, Open, Over, AtWork
<1> QED
  BY <1>1, <1>2, <1>3, <1>4, <1>5, <1>6, <1>7, <1>8, <1>9, <1>10, <1>11,
     <1>12, <1>13, <1>14, <1>15, <1>16, <1>17, <1>18, <1>19, <1>20, <1>21,
     <1>22, <1>23, <1>24, <1>25, <1>26, <1>27, <1>28, <1>29, <1>30, <1>31,
     <1>32, <1>33
     DEF Next, BackupStep, RestoreStep

(* A backup of the server that was cancelled is never reported as          *)
(* completed.                                                              *)
THEOREM CancelHolds == Spec => CancelledNeverCompletes
<1> DEFINE Holds == \A r \in Runs :
               row[r] = "cancelled" /\ origin[r] = "server" /\ kind[r] # "restore"
                   => row'[r] # "completed"
<1>1. Base /\ ToldInv /\ [Next]_vars => [Holds]_vars
  <2> SUFFICES ASSUME Base, ToldInv, [Next]_vars, NEW q \in Runs,
                      row[q] = "cancelled", origin[q] = "server", kind[q] # "restore"
               PROVE  row'[q] # "completed"
    BY DEF vars
  <2> USE Constants, BackupAssumption DEF Base
  <2>1. ASSUME NEW d \in Days, Rebuild(d) PROVE row'[q] # "completed"
    BY <2>1, WorkIs, BeginRow
       DEF Rebuild, request, channel, files, bounds, TypeOK, ToldInv, PlaceInv,
           ActiveRuns, Open
  <2>2. ASSUME NEW r \in Runs, NEW days \in Scopes,
               NEW k \in {"full", "incremental", "dry"}, Enqueue(r, k, days)
        PROVE  row'[q] # "completed"
    <3>1. row[r] = "none" /\ \A p \in Runs : p # r => row'[p] = row[p]
      BY <2>2, BeginRow DEF Enqueue, Register, Fresh, SetRow, TypeOK
    <3> QED
      BY <3>1
  <2>3. ASSUME NEW r \in Runs, NEW days \in Scopes,
               NEW k \in {"full", "incremental", "dry"}, StartCli(r, k, days)
        PROVE  row'[q] # "completed"
    <3>1. row[r] = "none" /\ \A p \in Runs : p # r => row'[p] = row[p]
      BY <2>3, BeginRow DEF StartCli, Register, Fresh, SetRow, TypeOK
    <3> QED
      BY <3>1
  <2>4. ASSUME NEW r \in Runs, NEW days \in Scopes, EnqueueDisabled(r, days)
        PROVE  row'[q] # "completed"
    BY <2>4, WorkIs, BeginRow
       DEF EnqueueDisabled, Register, Fresh, request, channel, files, bounds,
           TypeOK, ToldInv, PlaceInv, ActiveRuns, Open
  <2>5. ASSUME NEW r \in Runs, NEW m \in Runs, EnqueueRestore(r, m)
        PROVE  row'[q] # "completed"
    BY <2>5, WorkIs, BeginRow
       DEF EnqueueRestore, Register, Fresh, request, channel, files, bounds,
           TypeOK, ToldInv, PlaceInv, ActiveRuns, Open
  <2>6. ASSUME NEW r \in Runs, Cancel(r) PROVE row'[q] # "completed"
    BY <2>6, WorkIs, BeginRow
       DEF Cancel, CancelRecords, request, channel, files, bounds, TypeOK,
           ToldInv, PlaceInv, ActiveRuns, Open
  <2>7. ASSUME StopAll PROVE row'[q] # "completed"
    BY <2>7, WorkIs, BeginRow
       DEF StopAll, Clear, CancelRecords, request, channel, files, bounds,
           TypeOK, ToldInv, PlaceInv, ActiveRuns, Open
  <2>8. ASSUME ClearLocal PROVE row'[q] # "completed"
    BY <2>8, WorkIs, BeginRow
       DEF ClearLocal, Clear, request, channel, files, bounds, TypeOK, ToldInv,
           PlaceInv, ActiveRuns, Open
  <2>9. ASSUME NEW r \in Runs, ThrowEarly(r) PROVE row'[q] # "completed"
    BY <2>9, WorkIs, BeginRow
       DEF ThrowEarly, Phased, Rejected, Restarted, CancelRecords, request,
           channel, files, bounds, TypeOK, ToldInv, PlaceInv, ActiveRuns, Open
  <2>10. ASSUME NEW r \in Runs, NotReady(r) PROVE row'[q] # "completed"
    BY <2>10, WorkIs, BeginRow
       DEF NotReady, Phased, SetRow, request, channel, files, bounds, TypeOK,
           ToldInv, PlaceInv, ActiveRuns, Open
  <2>11. ASSUME NEW r \in Runs, Ready(r) PROVE row'[q] # "completed"
    <3>1. row' = SetRow(row, r, "failed") \/ row' = SetRow(row, r, "running")
      BY <2>11, BeginRow DEF Ready
    <3> QED
      BY <3>1 DEF SetRow, TypeOK
  <2>12. ASSUME NEW r \in Runs, NEW d \in Days, ReadFile(r, d)
         PROVE  row'[q] # "completed"
    BY <2>12, WorkIs, BeginRow
       DEF ReadFile, Phased, request, channel, files, bounds, TypeOK, ToldInv,
           PlaceInv, ActiveRuns, Open
  <2>13. ASSUME NEW r \in Runs, NEW d \in Days, Unreadable(r, d)
         PROVE  row'[q] # "completed"
    BY <2>13, WorkIs, BeginRow
       DEF Unreadable, Reading, Phased, Failure, Noted, Done, request, channel,
           files, bounds, TypeOK, ToldInv, PlaceInv, ActiveRuns, Open
  <2>14. ASSUME NEW r \in Runs, NEW d \in Days, Skip(r, d) PROVE row'[q] # "completed"
    BY <2>14, WorkIs, BeginRow
       DEF Skip, Reading, Phased, Done, request, channel, files, bounds, TypeOK,
           ToldInv, PlaceInv, ActiveRuns, Open
  <2>15. ASSUME NEW r \in Runs, NEW d \in Days, DryRun(r, d) PROVE row'[q] # "completed"
    BY <2>15, WorkIs, BeginRow
       DEF DryRun, Reading, Phased, Done, request, channel, files, bounds,
           TypeOK, ToldInv, PlaceInv, ActiveRuns, Open
  <2>16. ASSUME NEW r \in Runs, NEW d \in Days, StartUpload(r, d)
         PROVE  row'[q] # "completed"
    BY <2>16, WorkIs, BeginRow
       DEF StartUpload, Reading, Phased, request, channel, files, bounds,
           TypeOK, ToldInv, PlaceInv, ActiveRuns, Open
  <2>17. ASSUME NEW r \in Runs, NEW d \in Days, SendPiece(r, d)
         PROVE  row'[q] # "completed"
    BY <2>17, WorkIs, BeginRow
       DEF SendPiece, Phased, Done, request, channel, files, bounds, TypeOK,
           ToldInv, PlaceInv, ActiveRuns, Open
  <2>18. ASSUME NEW r \in Runs, NEW d \in Days, FailPiece(r, d)
         PROVE  row'[q] # "completed"
    BY <2>18, WorkIs, BeginRow
       DEF FailPiece, Phased, Failure, Noted, Done, request, channel, files,
           bounds, TypeOK, ToldInv, PlaceInv, ActiveRuns, Open
  <2>19. ASSUME NEW r \in Runs, StartCatalogue(r) PROVE row'[q] # "completed"
    BY <2>19, WorkIs, BeginRow
       DEF StartCatalogue, Onward, Phased, request, channel, files, bounds, TypeOK,
           ToldInv, PlaceInv, ActiveRuns, Open
  <2>20. ASSUME NEW r \in Runs, CatalogueSent(r) PROVE row'[q] # "completed"
    BY <2>20, WorkIs, BeginRow
       DEF CatalogueSent, Onward, Phased, request, channel, files, bounds, TypeOK,
           ToldInv, PlaceInv, ActiveRuns, Open
  <2>21. ASSUME NEW r \in Runs, MasterSent(r) PROVE row'[q] # "completed"
    BY <2>21, WorkIs, BeginRow
       DEF MasterSent, Phased, request, channel, files, bounds, TypeOK, ToldInv,
           PlaceInv, ActiveRuns, Open
  <2>22. ASSUME NEW r \in Runs, Finish(r) PROVE row'[q] # "completed"
    BY <2>22, WorkIs, BeginRow
       DEF Finish, Phased, SetRow, request, channel, files, bounds, TypeOK,
           ToldInv, PlaceInv, ActiveRuns, Open
  <2>23. ASSUME NEW r \in Runs, StopAtCheck(r) PROVE row'[q] # "completed"
    BY <2>23, WorkIs, BeginRow
       DEF StopAtCheck, CancelRecords, request, channel, files, bounds, TypeOK,
           ToldInv, PlaceInv, ActiveRuns, Open
  <2>24. ASSUME NEW r \in Runs, Break(r) PROVE row'[q] # "completed"
    BY <2>24, WorkIs, BeginRow
       DEF Break, Failure, SetRow, request, channel, files, bounds, TypeOK,
           ToldInv, PlaceInv, ActiveRuns, Open
  <2>25. ASSUME NEW r \in Runs, NEW d \in Days, RestoreDay(r, d)
         PROVE  row'[q] # "completed"
    BY <2>25, WorkIs, BeginRow
       DEF RestoreDay, Phased, request, channel, files, bounds, TypeOK, ToldInv,
           PlaceInv, ActiveRuns, Open
  <2>26. ASSUME NEW r \in Runs, NEW d \in Days, RefuseDay(r, d)
         PROVE  row'[q] # "completed"
    BY <2>26, WorkIs, BeginRow
       DEF RefuseDay, Phased, Failure, request, channel, files, bounds, TypeOK,
           ToldInv, PlaceInv, ActiveRuns, Open
  <2>27. ASSUME NEW r \in Runs, FinishRestore(r) PROVE row'[q] # "completed"
    BY <2>27, WorkIs, BeginRow
       DEF FinishRestore, Phased, SetRow, request, channel, files, bounds,
           TypeOK, ToldInv, PlaceInv, ActiveRuns, Open
  <2>28. ASSUME NEW r \in Runs, StopRestore(r) PROVE row'[q] # "completed"
    BY <2>28, WorkIs, BeginRow
       DEF StopRestore, Phased, CancelRecords, request, channel, files, bounds,
           TypeOK, ToldInv, PlaceInv, ActiveRuns, Open
  <2>29. ASSUME NEW r \in Runs, BreakRestore(r) PROVE row'[q] # "completed"
    BY <2>29, WorkIs, BeginRow
       DEF BreakRestore, Phased, Failure, SetRow, request, channel, files,
           bounds, TypeOK, ToldInv, PlaceInv, ActiveRuns, Open
  <2>30. ASSUME Restart PROVE row'[q] # "completed"
    BY <2>30, WorkIs, BeginRow
       DEF Restart, Restarted, CancelRecords, request, channel, files, bounds,
           TypeOK, ToldInv, PlaceInv, ActiveRuns, Open
  <2>31. ASSUME CliDie PROVE row'[q] # "completed"
    BY <2>31, WorkIs, BeginRow
       DEF CliDie, request, channel, files, bounds, TypeOK, ToldInv, PlaceInv,
           ActiveRuns, Open
  <2>32. CASE UNCHANGED vars
    BY <2>32, WorkIs, BeginRow
       DEF vars, request, channel, files, bounds, TypeOK, ToldInv, PlaceInv,
           ActiveRuns, Open
  <2>33. ASSUME NEW r \in Runs, NextAsset(r)
         PROVE  row'[q] # "completed"
    BY <2>33, WorkIs, BeginRow
       DEF NextAsset, Phased, Failure, request, channel, files, bounds, TypeOK,
           ToldInv, PlaceInv, ActiveRuns, Open
  <2> QED
    BY <2>1, <2>2, <2>3, <2>4, <2>5, <2>6, <2>7, <2>8, <2>9, <2>10, <2>11,
       <2>12, <2>13, <2>14, <2>15, <2>16, <2>17, <2>18, <2>19, <2>20, <2>21,
       <2>22, <2>23, <2>24, <2>25, <2>26, <2>27, <2>28, <2>29, <2>30, <2>31,
       <2>32, <2>33
       DEF Next, BackupStep, RestoreStep
<1> QED
  BY <1>1, BaseIsInvariant, ToldInit, ToldStep, PTL DEF Spec, CancelledNeverCompletes

(* What the changes of the records do to the artifacts of a run.           *)
LEMMA RecordsGone ==
    ASSUME TypeOK, NEW R, CancelRecords(R), NEW q \in Runs
    PROVE  /\ HasArtifact(q)' => HasArtifact(q) /\ q \notin R
           /\ row'[q] = IF q \in R /\ row[q] # "deleted" THEN "cancelled" ELSE row[q]
<1>1. \A d \in Days, c \in Chunks :
        artifact'[d][c] = IF artifact[d][c].run \in R THEN NoArtifact ELSE artifact[d][c]
  BY DEF CancelRecords, WithoutRuns
<1>2. HasArtifact(q)' => HasArtifact(q) /\ q \notin R
  BY <1>1, Constants DEF HasArtifact, NoArtifact
<1> QED
  BY <1>2 DEF CancelRecords

LEMMA AllGone ==
    ASSUME Clear, NEW q \in Runs PROVE ~HasArtifact(q)'
<1> QED
  BY Constants DEF Clear, HasArtifact, NoArtifact

(* Only the run at work gets artifacts, in its walk.                       *)
LEMMA ArtifactOf ==
    ASSUME Base, NEW r \in Runs, NEW d \in Days,
           Skip(r, d) \/ StartUpload(r, d) \/ SendPiece(r, d), NEW q \in Runs
    PROVE  /\ HasArtifact(q)' => HasArtifact(q) \/ q = r
           /\ work.run = r /\ Walking /\ work'.run = r /\ Walking'
<1>1. CASE Skip(r, d)
  <2>1. /\ artifact' = [artifact EXCEPT ![d] = [@ EXCEPT ![0] =
                            [run |-> r, version |-> saw[r][d], skipped |-> TRUE]]]
        /\ work.run = r /\ Walking
    BY <1>1 DEF Skip, Reading, Phased, Walking
  <2>2. work'.run = r /\ work'.phase = "walk"
    BY <1>1, <2>1, WorkIs DEF Skip, Done, Base, Work
  <2>3. artifact \in [Days -> [Chunks -> Artifact]]
    BY DEF Base, TypeOK
  <2> QED
    BY <2>1, <2>2, <2>3, Constants DEF HasArtifact, Walking
<1>2. CASE StartUpload(r, d)
  <2>1. /\ artifact' = [artifact EXCEPT ![d] = [c \in Chunks |-> NoArtifact]]
        /\ work.run = r /\ Walking
    BY <1>2 DEF StartUpload, Reading, Phased, Walking
  <2>2. work'.run = r /\ work'.phase = "send"
    BY <1>2, <2>1, WorkIs DEF StartUpload, Base, Work
  <2>3. artifact \in [Days -> [Chunks -> Artifact]]
    BY DEF Base, TypeOK
  <2> QED
    BY <2>1, <2>2, <2>3, Constants DEF HasArtifact, Walking, NoArtifact
<1>3. CASE SendPiece(r, d)
  <2>1. /\ artifact' = [artifact EXCEPT ![d] = [@ EXCEPT ![work.piece] =
                            [run |-> r, version |-> saw[r][d], skipped |-> FALSE]]]
        /\ work.run = r /\ Walking
    BY <1>3 DEF SendPiece, Phased, Walking
  <2>2. work'.run = r /\ work'.phase \in {"walk", "send"}
    BY <1>3, SendEffect
  <2>3. artifact \in [Days -> [Chunks -> Artifact]] /\ work.piece \in Chunks
    BY WorkIs DEF Base, TypeOK
  <2> QED
    BY <2>1, <2>2, <2>3, Constants DEF HasArtifact, Walking
<1> QED
  BY <1>1, <1>2, <1>3

(* A step that makes no artifacts, and after which a run that was stopped  *)
(* was stopped before or has no artifact.                                  *)
LEMMA StopKept ==
    ASSUME Base, StopInv, crashes' = 0 => crashes = 0,
           \A q \in Runs :
               row'[q] \in {"cancelled", "deleted"} /\ origin'[q] = "server"
                       /\ ~(work'.run = q /\ Walking') /\ HasArtifact(q)'
                   => /\ row[q] \in {"cancelled", "deleted"} /\ origin[q] = "server"
                      /\ ~(work.run = q /\ Walking) /\ HasArtifact(q)
    PROVE  StopInv'
<1> QED
  BY DEF StopInv

LEMMA StopInit == Init => StopInv
<1> QED
  BY DEF Init, StopInv

LEMMA StopStep == Base /\ ToldInv /\ StopInv /\ [Next]_vars => StopInv'
<1> SUFFICES ASSUME Base, ToldInv, StopInv, [Next]_vars PROVE StopInv'
  OBVIOUS
<1> USE Constants, BackupAssumption DEF Base
<1>1. ASSUME NEW d \in Days, Rebuild(d) PROVE StopInv'
  <2>1. UNCHANGED <<row, origin, artifact, work, crashes>>
    BY <1>1 DEF Rebuild, request, bounds
  <2> QED
    BY <2>1 DEF StopInv, Walking, HasArtifact
<1>2. ASSUME NEW r \in Runs, NEW days \in Scopes,
             NEW k \in {"full", "incremental", "dry"}, Enqueue(r, k, days)
      PROVE  StopInv'
  <2>1. /\ Fresh(r) /\ work.run = NoRun /\ crashes' = crashes /\ artifact' = artifact
        /\ \A q \in Runs : q # r => row'[q] = row[q] /\ origin'[q] = origin[q]
    BY <1>2, BeginRow DEF Enqueue, Register, SetRow, TypeOK, bounds
  <2>2. row'[r] \notin {"cancelled", "deleted"}
    BY <1>2, <2>1, BeginRow DEF Enqueue, Register, Fresh, SetRow, TypeOK
  <2>3. \A q \in Runs : HasArtifact(q)' => HasArtifact(q)
    BY <2>1 DEF HasArtifact
  <2> QED
    BY <2>1, <2>2, <2>3, StopKept
<1>3. ASSUME NEW r \in Runs, NEW days \in Scopes,
             NEW k \in {"full", "incremental", "dry"}, StartCli(r, k, days)
      PROVE  StopInv'
  <2>1. /\ Fresh(r) /\ work.run = NoRun /\ crashes' = crashes /\ artifact' = artifact
        /\ \A q \in Runs : q # r => row'[q] = row[q] /\ origin'[q] = origin[q]
    BY <1>3, BeginRow DEF StartCli, Register, SetRow, TypeOK, bounds
  <2>2. row'[r] \notin {"cancelled", "deleted"}
    BY <1>3, <2>1, BeginRow DEF StartCli, Register, Fresh, SetRow, TypeOK
  <2>3. \A q \in Runs : HasArtifact(q)' => HasArtifact(q)
    BY <2>1 DEF HasArtifact
  <2> QED
    BY <2>1, <2>2, <2>3, StopKept
<1>4. ASSUME NEW r \in Runs, NEW days \in Scopes, EnqueueDisabled(r, days)
      PROVE  StopInv'
  <2>1. /\ Fresh(r) /\ work.run = NoRun /\ crashes' = crashes /\ artifact' = artifact
        /\ \A q \in Runs : q # r => row'[q] = row[q] /\ origin'[q] = origin[q]
    BY <1>4, BeginRow DEF EnqueueDisabled, Register, SetRow, TypeOK, bounds
  <2>2. row'[r] \notin {"cancelled", "deleted"}
    BY <1>4, <2>1, BeginRow DEF EnqueueDisabled, Register, Fresh, SetRow, TypeOK
  <2>3. \A q \in Runs : HasArtifact(q)' => HasArtifact(q)
    BY <2>1 DEF HasArtifact
  <2> QED
    BY <2>1, <2>2, <2>3, StopKept
<1>5. ASSUME NEW r \in Runs, NEW m \in Runs, EnqueueRestore(r, m)
      PROVE  StopInv'
  <2>1. /\ Fresh(r) /\ work.run = NoRun /\ crashes' = crashes /\ artifact' = artifact
        /\ \A q \in Runs : q # r => row'[q] = row[q] /\ origin'[q] = origin[q]
    BY <1>5, BeginRow DEF EnqueueRestore, Register, SetRow, TypeOK, bounds
  <2>2. row'[r] \notin {"cancelled", "deleted"}
    BY <1>5, <2>1, BeginRow DEF EnqueueRestore, Register, Fresh, SetRow, TypeOK
  <2>3. \A q \in Runs : HasArtifact(q)' => HasArtifact(q)
    BY <2>1 DEF HasArtifact
  <2> QED
    BY <2>1, <2>2, <2>3, StopKept
<1>6. ASSUME NEW r \in Runs, Cancel(r) PROVE StopInv'
  <2>1. CancelRecords({r}) /\ crashes' = crashes /\ origin' = origin
    BY <1>6 DEF Cancel, bounds, request
  <2>2. work'.run = work.run /\ work'.phase = work.phase
    BY <1>6, WorkIs DEF Cancel, Work
  <2> QED
    BY <2>1, <2>2, RecordsGone, StopKept DEF Walking
<1>7. ASSUME StopAll PROVE StopInv'
  <2>1. crashes' = crashes /\ origin' = origin
    BY <1>7 DEF StopAll, bounds, request
  <2>2. work'.run = work.run /\ work'.phase = work.phase
    BY <1>7, WorkIs DEF StopAll, Work
  <2>3. CASE Clear
    BY <2>1, <2>2, <2>3, AllGone, StopKept
  <2>4. CASE CancelRecords(ActiveRuns)
    BY <2>1, <2>2, <2>4, RecordsGone, StopKept DEF Walking
  <2> QED
    BY <1>7, <2>3, <2>4 DEF StopAll
<1>8. ASSUME ClearLocal PROVE StopInv'
  <2>1. crashes' = crashes /\ origin' = origin /\ work' = work
    BY <1>8 DEF ClearLocal, bounds, request
  <2>2. CASE Clear
    BY <2>1, <2>2, AllGone, StopKept
  <2>3. CASE UNCHANGED <<artifact, row>>
    BY <2>1, <2>3 DEF StopInv, Walking, HasArtifact
  <2> QED
    BY <1>8, <2>2, <2>3 DEF ClearLocal
<1>9. ASSUME NEW r \in Runs, ThrowEarly(r) PROVE StopInv'
  <2>1. crashes' = crashes /\ origin' = origin /\ ~Walking /\ work' = Idle
    BY <1>9 DEF ThrowEarly, Phased, Rejected, Restarted, request, Walking
  <2>2. CASE UNCHANGED <<row, artifact>>
    BY <2>1, <2>2, StopKept DEF HasArtifact
  <2>3. CASE CancelRecords(ActiveRuns)
    BY <2>1, <2>3, RecordsGone, StopKept
  <2> QED
    BY <1>9, <2>2, <2>3 DEF ThrowEarly, Rejected, Restarted
<1>10. ASSUME NEW r \in Runs, NotReady(r) PROVE StopInv'
  <2>1. /\ crashes' = crashes /\ origin' = origin /\ artifact' = artifact
        /\ work.run = r /\ ~Walking
    BY <1>10 DEF NotReady, Phased, bounds, request, Walking
  <2>2. row' = SetRow(row, r, "failed") \/ row' = SetRow(row, r, "completed")
    BY <1>10 DEF NotReady
  <2>3. \A q \in Runs : row'[q] \in {"cancelled", "deleted"} => row'[q] = row[q]
    BY <2>2 DEF SetRow, TypeOK
  <2>4. \A q \in Runs : HasArtifact(q)' => HasArtifact(q)
    BY <2>1 DEF HasArtifact
  <2> QED
    BY <2>1, <2>3, <2>4, StopKept
<1>11. ASSUME NEW r \in Runs, Ready(r) PROVE StopInv'
  <2>1. /\ crashes' = crashes /\ origin' = origin /\ artifact' = artifact
        /\ work.run = r /\ ~Walking
    BY <1>11 DEF Ready, Phased, bounds, request, Walking
  <2>2. row' = SetRow(row, r, "failed") \/ row' = SetRow(row, r, "running")
    BY <1>11, BeginRow DEF Ready
  <2>3. \A q \in Runs : row'[q] \in {"cancelled", "deleted"} => row'[q] = row[q]
    BY <2>2 DEF SetRow, TypeOK
  <2>4. \A q \in Runs : HasArtifact(q)' => HasArtifact(q)
    BY <2>1 DEF HasArtifact
  <2> QED
    BY <2>1, <2>3, <2>4, StopKept
<1>12. ASSUME NEW r \in Runs, NEW d \in Days, ReadFile(r, d)
       PROVE  StopInv'
  <2>1. crashes' = crashes /\ UNCHANGED <<row, origin, artifact>>
    BY <1>12 DEF ReadFile, bounds, request
  <2>2. work'.run = work.run /\ (Walking => Walking')
    BY <1>12, WorkIs DEF ReadFile, Reading, Phased, Done, Noted, Walking, Work
  <2>3. \A q \in Runs : HasArtifact(q)' => HasArtifact(q)
    BY <2>1 DEF HasArtifact
  <2> QED
    BY <2>1, <2>2, <2>3, StopKept
<1>13. ASSUME NEW r \in Runs, NEW d \in Days, Unreadable(r, d)
       PROVE  StopInv'
  <2>1. crashes' = crashes /\ UNCHANGED <<row, origin, artifact>>
    BY <1>13 DEF Unreadable, bounds, request
  <2>2. work'.run = work.run /\ (Walking => Walking')
    BY <1>13, WorkIs DEF Unreadable, Reading, Phased, Done, Noted, Walking, Work
  <2>3. \A q \in Runs : HasArtifact(q)' => HasArtifact(q)
    BY <2>1 DEF HasArtifact
  <2> QED
    BY <2>1, <2>2, <2>3, StopKept
<1>14. ASSUME NEW r \in Runs, NEW d \in Days, Skip(r, d) PROVE StopInv'
  <2>1. crashes' = crashes /\ UNCHANGED <<row, origin>>
    BY <1>14 DEF Skip, bounds, request
  <2> QED
    BY <1>14, <2>1, ArtifactOf, StopKept
<1>15. ASSUME NEW r \in Runs, NEW d \in Days, DryRun(r, d) PROVE StopInv'
  <2>1. crashes' = crashes /\ UNCHANGED <<row, origin, artifact>>
    BY <1>15 DEF DryRun, bounds, request
  <2>2. work'.run = work.run /\ (Walking => Walking')
    BY <1>15, WorkIs DEF DryRun, Reading, Phased, Done, Noted, Walking, Work
  <2>3. \A q \in Runs : HasArtifact(q)' => HasArtifact(q)
    BY <2>1 DEF HasArtifact
  <2> QED
    BY <2>1, <2>2, <2>3, StopKept
<1>16. ASSUME NEW r \in Runs, NEW d \in Days, StartUpload(r, d)
       PROVE  StopInv'
  <2>1. crashes' = crashes /\ UNCHANGED <<row, origin>>
    BY <1>16 DEF StartUpload, bounds, request
  <2> QED
    BY <1>16, <2>1, ArtifactOf, StopKept
<1>17. ASSUME NEW r \in Runs, NEW d \in Days, SendPiece(r, d)
       PROVE  StopInv'
  <2>1. crashes' = crashes /\ UNCHANGED <<row, origin>>
    BY <1>17 DEF SendPiece, bounds, request
  <2> QED
    BY <1>17, <2>1, ArtifactOf, StopKept
<1>18. ASSUME NEW r \in Runs, NEW d \in Days, FailPiece(r, d)
       PROVE  StopInv'
  <2>1. crashes' = crashes /\ UNCHANGED <<row, origin, artifact>>
    BY <1>18 DEF FailPiece, bounds, request
  <2>2. work'.run = work.run /\ (Walking => Walking')
    BY <1>18, WorkIs DEF FailPiece, Reading, Phased, Done, Noted, Walking, Work
  <2>3. \A q \in Runs : HasArtifact(q)' => HasArtifact(q)
    BY <2>1 DEF HasArtifact
  <2> QED
    BY <2>1, <2>2, <2>3, StopKept
<1>19. ASSUME NEW r \in Runs, StartCatalogue(r) PROVE StopInv'
  <2>1. /\ crashes' = crashes /\ UNCHANGED <<row, origin, artifact>>
        /\ work.run = r /\ work'.run = r /\ ~work.cancelled
    BY <1>19, StartCatalogueEffect DEF SameRun, StartCatalogue, bounds, request
  <2>2. row[r] \in {"cancelled", "deleted"} => origin[r] # "server"
    BY <2>1 DEF ToldInv
  <2>3. \A q \in Runs : HasArtifact(q)' => HasArtifact(q)
    BY <2>1 DEF HasArtifact
  <2> QED
    BY <2>1, <2>2, <2>3, StopKept
<1>20. ASSUME NEW r \in Runs, CatalogueSent(r) PROVE StopInv'
  <2>1. crashes' = crashes /\ UNCHANGED <<row, origin, artifact>>
    BY <1>20 DEF CatalogueSent, bounds, request
  <2>2. work'.run = work.run /\ (Walking => Walking')
    BY <1>20, WorkIs DEF CatalogueSent, Onward, Phased, Walking, Work
  <2>3. \A q \in Runs : HasArtifact(q)' => HasArtifact(q)
    BY <2>1 DEF HasArtifact
  <2> QED
    BY <2>1, <2>2, <2>3, StopKept
<1>21. ASSUME NEW r \in Runs, MasterSent(r) PROVE StopInv'
  <2>1. crashes' = crashes /\ UNCHANGED <<row, origin, artifact>>
    BY <1>21 DEF MasterSent, bounds, request
  <2>2. work'.run = work.run /\ (Walking => Walking')
    BY <1>21, WorkIs DEF MasterSent, Phased, Walking, Work
  <2>3. \A q \in Runs : HasArtifact(q)' => HasArtifact(q)
    BY <2>1 DEF HasArtifact
  <2> QED
    BY <2>1, <2>2, <2>3, StopKept
<1>22. ASSUME NEW r \in Runs, Finish(r) PROVE StopInv'
  <2>1. /\ crashes' = crashes /\ origin' = origin /\ artifact' = artifact
        /\ work.run = r /\ ~work.cancelled
    BY <1>22 DEF Finish, Phased, bounds, request
  <2>2. row' = SetRow(row, r, "failed") \/ row' = SetRow(row, r, "completed")
    BY <1>22 DEF Finish
  <2>3. \A q \in Runs : row'[q] \in {"cancelled", "deleted"} => row'[q] = row[q]
    BY <2>2 DEF SetRow, TypeOK
  <2>4. \A q \in Runs : HasArtifact(q)' => HasArtifact(q)
    BY <2>1 DEF HasArtifact
  <2>5. row[r] \in {"cancelled", "deleted"} => origin[r] # "server"
    BY <2>1 DEF ToldInv
  <2> QED
    BY <2>1, <2>3, <2>4, <2>5, StopKept
<1>23. ASSUME NEW r \in Runs, StopAtCheck(r) PROVE StopInv'
  <2>1. CancelRecords({r}) /\ crashes' = crashes /\ origin' = origin /\ work.run = r
    BY <1>23 DEF StopAtCheck, bounds, request
  <2> QED
    BY <2>1, RecordsGone, StopKept
<1>24. ASSUME NEW r \in Runs, Break(r) PROVE StopInv'
  <2>1. /\ crashes' = crashes /\ origin' = origin /\ artifact' = artifact
        /\ work.run = r /\ ~Walking
    BY <1>24 DEF Break, Phased, bounds, request, Walking
  <2>2. row' = SetRow(row, r, "failed") \/ row' = SetRow(row, r, "completed")
    BY <1>24 DEF Break
  <2>3. \A q \in Runs : row'[q] \in {"cancelled", "deleted"} => row'[q] = row[q]
    BY <2>2 DEF SetRow, TypeOK
  <2>4. \A q \in Runs : HasArtifact(q)' => HasArtifact(q)
    BY <2>1 DEF HasArtifact
  <2> QED
    BY <2>1, <2>3, <2>4, StopKept
<1>25. ASSUME NEW r \in Runs, NEW d \in Days, RestoreDay(r, d)
       PROVE  StopInv'
  <2>1. crashes' = crashes /\ UNCHANGED <<row, origin, artifact>>
    BY <1>25 DEF RestoreDay, bounds, request
  <2>2. work'.run = work.run /\ (Walking => Walking')
    BY <1>25, WorkIs DEF RestoreDay, Phased, Walking, Work
  <2>3. \A q \in Runs : HasArtifact(q)' => HasArtifact(q)
    BY <2>1 DEF HasArtifact
  <2> QED
    BY <2>1, <2>2, <2>3, StopKept
<1>26. ASSUME NEW r \in Runs, NEW d \in Days, RefuseDay(r, d)
       PROVE  StopInv'
  <2>1. crashes' = crashes /\ UNCHANGED <<row, origin, artifact>>
    BY <1>26 DEF RefuseDay, bounds, request
  <2>2. work'.run = work.run /\ (Walking => Walking')
    BY <1>26, WorkIs DEF RefuseDay, Phased, Walking, Work
  <2>3. \A q \in Runs : HasArtifact(q)' => HasArtifact(q)
    BY <2>1 DEF HasArtifact
  <2> QED
    BY <2>1, <2>2, <2>3, StopKept
<1>27. ASSUME NEW r \in Runs, FinishRestore(r) PROVE StopInv'
  <2>1. /\ crashes' = crashes /\ origin' = origin /\ artifact' = artifact
        /\ work.run = r /\ ~Walking
    BY <1>27 DEF FinishRestore, Phased, bounds, request, Walking
  <2>2. row' = SetRow(row, r, "failed") \/ row' = SetRow(row, r, "completed")
    BY <1>27 DEF FinishRestore
  <2>3. \A q \in Runs : row'[q] \in {"cancelled", "deleted"} => row'[q] = row[q]
    BY <2>2 DEF SetRow, TypeOK
  <2>4. \A q \in Runs : HasArtifact(q)' => HasArtifact(q)
    BY <2>1 DEF HasArtifact
  <2> QED
    BY <2>1, <2>3, <2>4, StopKept
<1>28. ASSUME NEW r \in Runs, StopRestore(r) PROVE StopInv'
  <2>1. crashes' = crashes /\ origin' = origin /\ work.run = r /\ ~Walking
    BY <1>28 DEF StopRestore, Phased, bounds, request, Walking
  <2>2. CASE UNCHANGED <<row, artifact>>
    BY <2>1, <2>2, StopKept DEF HasArtifact
  <2>3. CASE CancelRecords({r})
    BY <2>1, <2>3, RecordsGone, StopKept
  <2> QED
    BY <1>28, <2>2, <2>3 DEF StopRestore
<1>29. ASSUME NEW r \in Runs, BreakRestore(r) PROVE StopInv'
  <2>1. /\ crashes' = crashes /\ origin' = origin /\ artifact' = artifact
        /\ work.run = r /\ ~Walking
    BY <1>29 DEF BreakRestore, Phased, bounds, request, Walking
  <2>2. row' = SetRow(row, r, "failed") \/ row' = SetRow(row, r, "completed")
    BY <1>29 DEF BreakRestore
  <2>3. \A q \in Runs : row'[q] \in {"cancelled", "deleted"} => row'[q] = row[q]
    BY <2>2 DEF SetRow, TypeOK
  <2>4. \A q \in Runs : HasArtifact(q)' => HasArtifact(q)
    BY <2>1 DEF HasArtifact
  <2> QED
    BY <2>1, <2>3, <2>4, StopKept
<1>30. ASSUME Restart PROVE StopInv'
  <2>1. crashes' # 0
    BY <1>30 DEF Restart, TypeOK
  <2> QED
    BY <2>1 DEF StopInv
<1>31. ASSUME CliDie PROVE StopInv'
  <2>1. crashes' # 0
    BY <1>31 DEF CliDie, TypeOK
  <2> QED
    BY <2>1 DEF StopInv
<1>32. CASE UNCHANGED vars
  <2>1. UNCHANGED <<row, origin, artifact, work, crashes>>
    BY <1>32 DEF vars, request, bounds
  <2> QED
    BY <2>1 DEF StopInv, Walking, HasArtifact
<1>33. ASSUME NEW r \in Runs, NextAsset(r)
       PROVE  StopInv'
  <2>1. crashes' = crashes /\ UNCHANGED <<row, origin, artifact>>
    BY <1>33 DEF NextAsset, bounds, request
  <2>2. work'.run = work.run /\ (Walking => Walking')
    BY <1>33, WorkIs DEF NextAsset, Phased, Walking, Work
  <2>3. \A q \in Runs : HasArtifact(q)' => HasArtifact(q)
    BY <2>1 DEF HasArtifact
  <2> QED
    BY <2>1, <2>2, <2>3, StopKept
<1> QED
  BY <1>1, <1>2, <1>3, <1>4, <1>5, <1>6, <1>7, <1>8, <1>9, <1>10, <1>11,
     <1>12, <1>13, <1>14, <1>15, <1>16, <1>17, <1>18, <1>19, <1>20, <1>21,
     <1>22, <1>23, <1>24, <1>25, <1>26, <1>27, <1>28, <1>29, <1>30, <1>31,
     <1>32, <1>33
     DEF Next, BackupStep, RestoreStep

(* A backup of the server that was cancelled or cleared, and has stopped,  *)
(* leaves no artifact.                                                     *)
THEOREM CancelIsClean == Spec => []CancelLeavesNothing
<1>1. StopInv => CancelLeavesNothing
  BY DEF StopInv, CancelLeavesNothing, HasArtifact
<1> QED
  BY <1>1, BaseIsInvariant, ToldInit, ToldStep, StopInit, StopStep, PTL DEF Spec

-----------------------------------------------------------------------------
(* What the past has left.                                                 *)

(* A row, once inserted, stays, and so does its request.                   *)
RequestsStay ==
    \A q \in Runs : row[q] # "none" =>
        row'[q] # "none" /\ kind'[q] = kind[q] /\ scope'[q] = scope[q]

LEMMA RequestsKept == Base /\ [Next]_vars => RequestsStay
<1> SUFFICES ASSUME Base, [Next]_vars PROVE RequestsStay
  OBVIOUS
<1> USE Constants, BackupAssumption DEF Base
<1>1. ASSUME NEW d \in Days, Rebuild(d) PROVE RequestsStay
  BY <1>1
     DEF Rebuild, request, channel, files, bounds, TypeOK, RequestsStay
<1>2. ASSUME NEW r \in Runs, NEW days \in Scopes,
             NEW k \in {"full", "incremental", "dry"}, Enqueue(r, k, days)
      PROVE  RequestsStay
  <2>1. /\ row[r] = "none"
        /\ \A q \in Runs : q # r =>
               row'[q] = row[q] /\ kind'[q] = kind[q] /\ scope'[q] = scope[q]
    BY <1>2, BeginRow DEF Enqueue, Register, Fresh, SetRow, TypeOK
  <2> QED
    BY <2>1 DEF RequestsStay
<1>3. ASSUME NEW r \in Runs, NEW days \in Scopes,
             NEW k \in {"full", "incremental", "dry"}, StartCli(r, k, days)
      PROVE  RequestsStay
  <2>1. /\ row[r] = "none"
        /\ \A q \in Runs : q # r =>
               row'[q] = row[q] /\ kind'[q] = kind[q] /\ scope'[q] = scope[q]
    BY <1>3, BeginRow DEF StartCli, Register, Fresh, SetRow, TypeOK
  <2> QED
    BY <2>1 DEF RequestsStay
<1>4. ASSUME NEW r \in Runs, NEW days \in Scopes, EnqueueDisabled(r, days)
      PROVE  RequestsStay
  BY <1>4
     DEF EnqueueDisabled, Register, Fresh, request, channel, files, bounds,
         TypeOK, RequestsStay
<1>5. ASSUME NEW r \in Runs, NEW m \in Runs, EnqueueRestore(r, m)
      PROVE  RequestsStay
  BY <1>5
     DEF EnqueueRestore, Register, Fresh, request, channel, files, bounds,
         TypeOK, RequestsStay
<1>6. ASSUME NEW r \in Runs, Cancel(r) PROVE RequestsStay
  BY <1>6
     DEF Cancel, CancelRecords, request, channel, files, bounds, TypeOK,
         RequestsStay
<1>7. ASSUME StopAll PROVE RequestsStay
  BY <1>7
     DEF StopAll, Clear, CancelRecords, request, channel, files, bounds,
         TypeOK, RequestsStay
<1>8. ASSUME ClearLocal PROVE RequestsStay
  BY <1>8
     DEF ClearLocal, Clear, request, channel, files, bounds, TypeOK,
         RequestsStay
<1>9. ASSUME NEW r \in Runs, ThrowEarly(r) PROVE RequestsStay
  BY <1>9
     DEF ThrowEarly, Phased, Rejected, Restarted, CancelRecords, request,
         channel, files, bounds, TypeOK, RequestsStay
<1>10. ASSUME NEW r \in Runs, NotReady(r) PROVE RequestsStay
  BY <1>10
     DEF NotReady, Phased, SetRow, request, channel, files, bounds, TypeOK,
         RequestsStay
<1>11. ASSUME NEW r \in Runs, Ready(r) PROVE RequestsStay
  <2>1. row' = SetRow(row, r, "failed") \/ row' = SetRow(row, r, "running")
    BY <1>11, BeginRow DEF Ready
  <2> QED
    BY <1>11, <2>1 DEF Ready, request, SetRow, TypeOK, RequestsStay
<1>12. ASSUME NEW r \in Runs, NEW d \in Days, ReadFile(r, d)
       PROVE  RequestsStay
  BY <1>12
     DEF ReadFile, Phased, request, channel, files, bounds, TypeOK,
         RequestsStay
<1>13. ASSUME NEW r \in Runs, NEW d \in Days, Unreadable(r, d)
       PROVE  RequestsStay
  BY <1>13
     DEF Unreadable, Reading, Phased, Failure, Noted, Done, request, channel,
         files, bounds, TypeOK, RequestsStay
<1>14. ASSUME NEW r \in Runs, NEW d \in Days, Skip(r, d) PROVE RequestsStay
  BY <1>14
     DEF Skip, Reading, Phased, Done, request, channel, files, bounds, TypeOK,
         RequestsStay
<1>15. ASSUME NEW r \in Runs, NEW d \in Days, DryRun(r, d) PROVE RequestsStay
  BY <1>15
     DEF DryRun, Reading, Phased, Done, request, channel, files, bounds,
         TypeOK, RequestsStay
<1>16. ASSUME NEW r \in Runs, NEW d \in Days, StartUpload(r, d)
       PROVE  RequestsStay
  BY <1>16
     DEF StartUpload, Reading, Phased, request, channel, files, bounds,
         TypeOK, RequestsStay
<1>17. ASSUME NEW r \in Runs, NEW d \in Days, SendPiece(r, d)
       PROVE  RequestsStay
  BY <1>17
     DEF SendPiece, Phased, Done, request, channel, files, bounds, TypeOK,
         RequestsStay
<1>18. ASSUME NEW r \in Runs, NEW d \in Days, FailPiece(r, d)
       PROVE  RequestsStay
  BY <1>18
     DEF FailPiece, Phased, Failure, Noted, Done, request, channel, files,
         bounds, TypeOK, RequestsStay
<1>19. ASSUME NEW r \in Runs, StartCatalogue(r) PROVE RequestsStay
  BY <1>19
     DEF StartCatalogue, Onward, Phased, request, channel, files, bounds, TypeOK,
         RequestsStay
<1>20. ASSUME NEW r \in Runs, CatalogueSent(r) PROVE RequestsStay
  BY <1>20
     DEF CatalogueSent, Onward, Phased, request, channel, files, bounds, TypeOK,
         RequestsStay
<1>21. ASSUME NEW r \in Runs, MasterSent(r) PROVE RequestsStay
  BY <1>21
     DEF MasterSent, Phased, request, channel, files, bounds, TypeOK,
         RequestsStay
<1>22. ASSUME NEW r \in Runs, Finish(r) PROVE RequestsStay
  BY <1>22
     DEF Finish, Phased, SetRow, request, channel, files, bounds, TypeOK,
         RequestsStay
<1>23. ASSUME NEW r \in Runs, StopAtCheck(r) PROVE RequestsStay
  BY <1>23
     DEF StopAtCheck, CancelRecords, request, channel, files, bounds, TypeOK,
         RequestsStay
<1>24. ASSUME NEW r \in Runs, Break(r) PROVE RequestsStay
  BY <1>24
     DEF Break, Failure, SetRow, request, channel, files, bounds, TypeOK,
         RequestsStay
<1>25. ASSUME NEW r \in Runs, NEW d \in Days, RestoreDay(r, d)
       PROVE  RequestsStay
  BY <1>25
     DEF RestoreDay, Phased, request, channel, files, bounds, TypeOK,
         RequestsStay
<1>26. ASSUME NEW r \in Runs, NEW d \in Days, RefuseDay(r, d)
       PROVE  RequestsStay
  BY <1>26
     DEF RefuseDay, Phased, Failure, request, channel, files, bounds, TypeOK,
         RequestsStay
<1>27. ASSUME NEW r \in Runs, FinishRestore(r) PROVE RequestsStay
  BY <1>27
     DEF FinishRestore, Phased, SetRow, request, channel, files, bounds,
         TypeOK, RequestsStay
<1>28. ASSUME NEW r \in Runs, StopRestore(r) PROVE RequestsStay
  BY <1>28
     DEF StopRestore, Phased, CancelRecords, request, channel, files, bounds,
         TypeOK, RequestsStay
<1>29. ASSUME NEW r \in Runs, BreakRestore(r) PROVE RequestsStay
  BY <1>29
     DEF BreakRestore, Phased, Failure, SetRow, request, channel, files,
         bounds, TypeOK, RequestsStay
<1>30. ASSUME Restart PROVE RequestsStay
  BY <1>30
     DEF Restart, Restarted, CancelRecords, request, channel, files, bounds,
         TypeOK, RequestsStay
<1>31. ASSUME CliDie PROVE RequestsStay
  BY <1>31
     DEF CliDie, request, channel, files, bounds, TypeOK, RequestsStay
<1>32. CASE UNCHANGED vars
  BY <1>32
     DEF vars, request, channel, files, bounds, TypeOK, RequestsStay
<1>33. ASSUME NEW r \in Runs, NextAsset(r)
       PROVE  RequestsStay
  BY <1>33
     DEF NextAsset, Phased, Failure, request, channel, files, bounds, TypeOK,
         RequestsStay
<1> QED
  BY <1>1, <1>2, <1>3, <1>4, <1>5, <1>6, <1>7, <1>8, <1>9, <1>10, <1>11,
     <1>12, <1>13, <1>14, <1>15, <1>16, <1>17, <1>18, <1>19, <1>20, <1>21,
     <1>22, <1>23, <1>24, <1>25, <1>26, <1>27, <1>28, <1>29, <1>30, <1>31,
     <1>32, <1>33
     DEF Next, BackupStep, RestoreStep

(* What was disturbed stays so.                                            *)
LEMMA UndisturbedBefore == Base /\ [Next]_vars /\ Undisturbed' => Undisturbed
<1> SUFFICES ASSUME Base, [Next]_vars, Undisturbed' PROVE Undisturbed
  OBVIOUS
<1>1. failures \in Nat /\ crashes \in Nat /\ failures <= failures' /\ crashes <= crashes'
  <2> USE BackupAssumption DEF Base, TypeOK
  <2>0. failures \in Nat /\ crashes \in Nat
    OBVIOUS
  <2>1. ASSUME NEW d \in Days, Rebuild(d)
        PROVE  failures <= failures' /\ crashes <= crashes'
    BY <2>1, <2>0
       DEF Rebuild, request, channel, files, bounds
  <2>2. ASSUME NEW r \in Runs, NEW days \in Scopes,
               NEW k \in {"full", "incremental", "dry"}, Enqueue(r, k, days)
        PROVE  failures <= failures' /\ crashes <= crashes'
    BY <2>2, <2>0
       DEF Enqueue, Register, Fresh, Begin, SetRow, request, channel, files,
           bounds
  <2>3. ASSUME NEW r \in Runs, NEW days \in Scopes,
               NEW k \in {"full", "incremental", "dry"}, StartCli(r, k, days)
        PROVE  failures <= failures' /\ crashes <= crashes'
    BY <2>3, <2>0
       DEF StartCli, Register, Fresh, Begin, SetRow, request, channel, files,
           bounds
  <2>4. ASSUME NEW r \in Runs, NEW days \in Scopes, EnqueueDisabled(r, days)
        PROVE  failures <= failures' /\ crashes <= crashes'
    BY <2>4, <2>0
       DEF EnqueueDisabled, Register, Fresh, request, channel, files, bounds
  <2>5. ASSUME NEW r \in Runs, NEW m \in Runs, EnqueueRestore(r, m)
        PROVE  failures <= failures' /\ crashes <= crashes'
    BY <2>5, <2>0
       DEF EnqueueRestore, Register, Fresh, request, channel, files, bounds
  <2>6. ASSUME NEW r \in Runs, Cancel(r)
        PROVE  failures <= failures' /\ crashes <= crashes'
    BY <2>6, <2>0
       DEF Cancel, CancelRecords, request, channel, files, bounds
  <2>7. ASSUME StopAll
        PROVE  failures <= failures' /\ crashes <= crashes'
    BY <2>7, <2>0
       DEF StopAll, Clear, CancelRecords, request, channel, files, bounds
  <2>8. ASSUME ClearLocal
        PROVE  failures <= failures' /\ crashes <= crashes'
    BY <2>8, <2>0
       DEF ClearLocal, Clear, request, channel, files, bounds
  <2>9. ASSUME NEW r \in Runs, ThrowEarly(r)
        PROVE  failures <= failures' /\ crashes <= crashes'
    BY <2>9, <2>0
       DEF ThrowEarly, Phased, Rejected, Restarted, CancelRecords, request,
           channel, files, bounds
  <2>10. ASSUME NEW r \in Runs, NotReady(r)
         PROVE  failures <= failures' /\ crashes <= crashes'
    BY <2>10, <2>0
       DEF NotReady, Phased, SetRow, request, channel, files, bounds
  <2>11. ASSUME NEW r \in Runs, Ready(r)
         PROVE  failures <= failures' /\ crashes <= crashes'
    BY <2>11, <2>0
       DEF Ready, Phased, Begin, SetRow, request, channel, files, bounds
  <2>12. ASSUME NEW r \in Runs, NEW d \in Days, ReadFile(r, d)
         PROVE  failures <= failures' /\ crashes <= crashes'
    BY <2>12, <2>0
       DEF ReadFile, Phased, request, channel, files, bounds
  <2>13. ASSUME NEW r \in Runs, NEW d \in Days, Unreadable(r, d)
         PROVE  failures <= failures' /\ crashes <= crashes'
    BY <2>13, <2>0
       DEF Unreadable, Reading, Phased, Failure, Noted, Done, request, channel,
           files, bounds
  <2>14. ASSUME NEW r \in Runs, NEW d \in Days, Skip(r, d)
         PROVE  failures <= failures' /\ crashes <= crashes'
    BY <2>14, <2>0
       DEF Skip, Reading, Phased, Done, request, channel, files, bounds
  <2>15. ASSUME NEW r \in Runs, NEW d \in Days, DryRun(r, d)
         PROVE  failures <= failures' /\ crashes <= crashes'
    BY <2>15, <2>0
       DEF DryRun, Reading, Phased, Done, request, channel, files, bounds
  <2>16. ASSUME NEW r \in Runs, NEW d \in Days, StartUpload(r, d)
         PROVE  failures <= failures' /\ crashes <= crashes'
    BY <2>16, <2>0
       DEF StartUpload, Reading, Phased, request, channel, files, bounds
  <2>17. ASSUME NEW r \in Runs, NEW d \in Days, SendPiece(r, d)
         PROVE  failures <= failures' /\ crashes <= crashes'
    BY <2>17, <2>0
       DEF SendPiece, Phased, Done, request, channel, files, bounds
  <2>18. ASSUME NEW r \in Runs, NEW d \in Days, FailPiece(r, d)
         PROVE  failures <= failures' /\ crashes <= crashes'
    BY <2>18, <2>0
       DEF FailPiece, Phased, Failure, Noted, Done, request, channel, files,
           bounds
  <2>19. ASSUME NEW r \in Runs, StartCatalogue(r)
         PROVE  failures <= failures' /\ crashes <= crashes'
    BY <2>19, <2>0
       DEF StartCatalogue, Onward, Phased, request, channel, files, bounds
  <2>20. ASSUME NEW r \in Runs, CatalogueSent(r)
         PROVE  failures <= failures' /\ crashes <= crashes'
    BY <2>20, <2>0
       DEF CatalogueSent, Onward, Phased, request, channel, files, bounds
  <2>21. ASSUME NEW r \in Runs, MasterSent(r)
         PROVE  failures <= failures' /\ crashes <= crashes'
    BY <2>21, <2>0
       DEF MasterSent, Phased, request, channel, files, bounds
  <2>22. ASSUME NEW r \in Runs, Finish(r)
         PROVE  failures <= failures' /\ crashes <= crashes'
    BY <2>22, <2>0
       DEF Finish, Phased, SetRow, request, channel, files, bounds
  <2>23. ASSUME NEW r \in Runs, StopAtCheck(r)
         PROVE  failures <= failures' /\ crashes <= crashes'
    BY <2>23, <2>0
       DEF StopAtCheck, CancelRecords, request, channel, files, bounds
  <2>24. ASSUME NEW r \in Runs, Break(r)
         PROVE  failures <= failures' /\ crashes <= crashes'
    BY <2>24, <2>0
       DEF Break, Failure, SetRow, request, channel, files, bounds
  <2>25. ASSUME NEW r \in Runs, NEW d \in Days, RestoreDay(r, d)
         PROVE  failures <= failures' /\ crashes <= crashes'
    BY <2>25, <2>0
       DEF RestoreDay, Phased, request, channel, files, bounds
  <2>26. ASSUME NEW r \in Runs, NEW d \in Days, RefuseDay(r, d)
         PROVE  failures <= failures' /\ crashes <= crashes'
    BY <2>26, <2>0
       DEF RefuseDay, Phased, Failure, request, channel, files, bounds
  <2>27. ASSUME NEW r \in Runs, FinishRestore(r)
         PROVE  failures <= failures' /\ crashes <= crashes'
    BY <2>27, <2>0
       DEF FinishRestore, Phased, SetRow, request, channel, files, bounds
  <2>28. ASSUME NEW r \in Runs, StopRestore(r)
         PROVE  failures <= failures' /\ crashes <= crashes'
    BY <2>28, <2>0
       DEF StopRestore, Phased, CancelRecords, request, channel, files, bounds
  <2>29. ASSUME NEW r \in Runs, BreakRestore(r)
         PROVE  failures <= failures' /\ crashes <= crashes'
    BY <2>29, <2>0
       DEF BreakRestore, Phased, Failure, SetRow, request, channel, files,
           bounds
  <2>30. ASSUME Restart
         PROVE  failures <= failures' /\ crashes <= crashes'
    BY <2>30, <2>0
       DEF Restart, Restarted, CancelRecords, request, channel, files, bounds
  <2>31. ASSUME CliDie
         PROVE  failures <= failures' /\ crashes <= crashes'
    BY <2>31, <2>0
       DEF CliDie, request, channel, files, bounds
  <2>32. CASE UNCHANGED vars
    BY <2>32, <2>0
       DEF vars, request, channel, files, bounds
  <2>33. ASSUME NEW r \in Runs, NextAsset(r)
         PROVE  failures <= failures' /\ crashes <= crashes'
    BY <2>33, <2>0
       DEF NextAsset, Phased, Failure, request, channel, files, bounds
  <2> QED
    BY <2>1, <2>2, <2>3, <2>4, <2>5, <2>6, <2>7, <2>8, <2>9, <2>10, <2>11,
       <2>12, <2>13, <2>14, <2>15, <2>16, <2>17, <2>18, <2>19, <2>20, <2>21,
       <2>22, <2>23, <2>24, <2>25, <2>26, <2>27, <2>28, <2>29, <2>30, <2>31,
       <2>32, <2>33
       DEF Next, BackupStep, RestoreStep
<1>2. RequestsStay
  BY RequestsKept
<1> QED
  BY <1>1, <1>2 DEF Undisturbed, Calm, RequestsStay

LEMMA PastInit == Init => PastInv
<1> QED
  BY Constants DEF Init, PastInv, HasArtifact, NoArtifact, Nothing

(* A step that makes no artifact, sends no catalogue and exports nothing. *)
LEMMA PastKept ==
    ASSUME Base, PastInv, RequestsStay,
           UNCHANGED <<saw, sent, lake>>,
           \A q \in Runs : HasArtifact(q)' => HasArtifact(q)
    PROVE  PastInv'
<1>1. \A q \in Runs : row'[q] = "none" => row[q] = "none"
  BY DEF RequestsStay
<1>2. \A q \in Runs : row[q] = "none" => DOMAIN saw[q] = {}
  BY DEF PastInv, Nothing
<1>3. \A q \in Runs : DOMAIN saw'[q] \subseteq {d \in scope'[q] : lake'[d] > 0}
  BY <1>2 DEF PastInv, RequestsStay
<1>4. \A q \in sent' : kind'[q] \in {"full", "incremental"}
  BY DEF PastInv, RequestsStay, Base, TypeOK
<1> QED
  BY <1>1, <1>3, <1>4 DEF PastInv

(* The run that begins sees files that are there.                          *)
LEMMA PastBegins ==
    ASSUME Base, PastInv, RequestsStay, NEW r \in Runs, NEW k, Begin(r, k, scope'[r]),
           scope'[r] \in SUBSET Days, UNCHANGED <<sent, lake, artifact>>,
           row'[r] # "none"
    PROVE  PastInv'
<1>1. \A q \in Runs : row'[q] = "none" => row[q] = "none"
  BY DEF RequestsStay
<1>2. \A q \in Runs : row[q] = "none" => DOMAIN saw[q] = {}
  BY DEF PastInv, Nothing
<1>3. /\ saw' \in [Runs -> Manifest] /\ \A q \in Runs : q # r => saw'[q] = saw[q]
      /\ saw' = saw \/ DOMAIN saw'[r] \subseteq {d \in scope'[r] : lake[d] > 0}
  <2>1. saw \in [Runs -> Manifest]
    BY DEF Base, TypeOK
  <2>2. saw' \in [Runs -> Manifest]
    BY BeginType DEF Base
  <2>3. CASE saw' = saw
    BY <2>1, <2>3
  <2>4. CASE saw' # saw
    <3>1. PICK b \in BOOLEAN, D \in SUBSET Days :
            /\ \A d \in Days : d \in D <=> d \in scope'[r] /\ lake[d] > 0
            /\ Begins(r, b, D)
      BY <2>4, BeginEffect
    <3>2. saw' = [saw EXCEPT ![r] = [d \in D |-> lake[d]]]
      BY <3>1 DEF Begins
    <3>3. DOMAIN saw'[r] = D /\ \A q \in Runs : q # r => saw'[q] = saw[q]
      BY <2>1, <3>2
    <3> QED
      BY <2>2, <3>1, <3>3
  <2> QED
    BY <2>3, <2>4
<1>4. \A q \in Runs : DOMAIN saw'[q] \subseteq {d \in scope'[q] : lake'[d] > 0}
  BY <1>2, <1>3 DEF PastInv, RequestsStay
<1>5. \A q \in sent' : kind'[q] \in {"full", "incremental"}
  BY DEF PastInv, RequestsStay, Base, TypeOK
<1>6. \A q \in Runs : HasArtifact(q)' => HasArtifact(q)
  BY DEF HasArtifact
<1>7. \A q \in Runs : row'[q] = "none" => saw'[q] = Nothing /\ q \notin sent' /\ ~HasArtifact(q)'
  BY <1>1, <1>3, <1>6 DEF PastInv
<1> QED
  BY <1>4, <1>5, <1>7 DEF PastInv

LEMMA PastStep == Base /\ PastInv /\ [Next]_vars => PastInv'
<1> SUFFICES ASSUME Base, PastInv, [Next]_vars PROVE PastInv'
  OBVIOUS
<1>0. RequestsStay
  BY RequestsKept
<1> USE <1>0, Constants, BackupAssumption DEF Base
<1>1. ASSUME NEW d \in Days, Rebuild(d) PROVE PastInv'
  <2>1. /\ UNCHANGED <<row, request, saw, sent, artifact>>
        /\ \A e \in Days : lake'[e] >= lake[e] \/ lake'[e] > 0
    BY <1>1 DEF Rebuild, channel, TypeOK
  <2>2. \A e \in Days : lake[e] > 0 => lake'[e] > 0
    BY <2>1, <1>1 DEF Rebuild, TypeOK
  <2>3. \A q \in Runs : scope[q] \subseteq Days
    BY DEF TypeOK
  <2> QED
    BY <2>1, <2>2, <2>3 DEF PastInv, request, HasArtifact
<1>2. ASSUME NEW r \in Runs, NEW days \in Scopes,
             NEW k \in {"full", "incremental", "dry"}, Enqueue(r, k, days)
      PROVE  PastInv'
  <2>1. scope'[r] = days /\ days \in SUBSET Days /\ UNCHANGED <<lake, artifact, sent>>
    BY <1>2 DEF Enqueue, Register, TypeOK, files, channel
  <2>2. CASE k = "dry"
    <3>1. Begin(r, k, days)
      BY <1>2, <2>2 DEF Enqueue
    <3>2. row'[r] # "none"
      BY <1>2, <3>1, BeginRow DEF Enqueue, Register, Fresh, SetRow, TypeOK
    <3> QED
      BY <2>1, <3>1, <3>2, PastBegins
  <2>3. CASE k # "dry"
    <3>1. saw' = saw
      BY <1>2, <2>3 DEF Enqueue
    <3> QED
      BY <2>1, <3>1, PastKept DEF HasArtifact
  <2> QED
    BY <2>2, <2>3
<1>3. ASSUME NEW r \in Runs, NEW days \in Scopes,
             NEW k \in {"full", "incremental", "dry"}, StartCli(r, k, days)
      PROVE  PastInv'
  <2>1. /\ scope'[r] = days /\ days \in SUBSET Days /\ UNCHANGED <<lake, artifact, sent>>
        /\ Begin(r, k, days)
    BY <1>3 DEF StartCli, Register, TypeOK, files, channel
  <2>2. row'[r] # "none"
    BY <1>3, <2>1, BeginRow DEF StartCli, Register, Fresh, SetRow, TypeOK
  <2> QED
    BY <2>1, <2>2, PastBegins
<1>4. ASSUME NEW r \in Runs, NEW days \in Scopes, EnqueueDisabled(r, days)
      PROVE  PastInv'
  <2>1. UNCHANGED <<saw, sent, lake, artifact>>
    BY <1>4 DEF EnqueueDisabled, files, channel
  <2>2. \A q \in Runs : HasArtifact(q)' => HasArtifact(q)
    BY <2>1 DEF HasArtifact
  <2> QED
    BY <2>1, <2>2, PastKept
<1>5. ASSUME NEW r \in Runs, NEW m \in Runs, EnqueueRestore(r, m)
      PROVE  PastInv'
  <2>1. UNCHANGED <<saw, sent, lake, artifact>>
    BY <1>5 DEF EnqueueRestore, files, channel
  <2>2. \A q \in Runs : HasArtifact(q)' => HasArtifact(q)
    BY <2>1 DEF HasArtifact
  <2> QED
    BY <2>1, <2>2, PastKept
<1>6. ASSUME NEW r \in Runs, Cancel(r) PROVE PastInv'
  <2>1. UNCHANGED <<saw, sent, lake>>
    BY <1>6 DEF Cancel, files, channel
  <2>2. CASE CancelRecords({r})
    BY <2>1, <2>2, RecordsGone, PastKept
  <2> QED
    BY <1>6, <2>2 DEF Cancel
<1>7. ASSUME StopAll PROVE PastInv'
  <2>1. UNCHANGED <<saw, sent, lake>>
    BY <1>7 DEF StopAll, files, channel
  <2>2. CASE Clear
    BY <2>1, <2>2, AllGone, PastKept
  <2>3. CASE CancelRecords(ActiveRuns)
    BY <2>1, <2>3, RecordsGone, PastKept
  <2> QED
    BY <1>7, <2>2, <2>3 DEF StopAll
<1>8. ASSUME ClearLocal PROVE PastInv'
  <2>1. UNCHANGED <<saw, sent, lake>>
    BY <1>8 DEF ClearLocal, files, channel
  <2>2. CASE Clear
    BY <2>1, <2>2, AllGone, PastKept
  <2>3. CASE UNCHANGED <<row, artifact>>
    BY <2>1, <2>3, PastKept DEF HasArtifact
  <2> QED
    BY <1>8, <2>2, <2>3 DEF ClearLocal
<1>9. ASSUME NEW r \in Runs, ThrowEarly(r) PROVE PastInv'
  <2>1. UNCHANGED <<saw, sent, lake>>
    BY <1>9 DEF ThrowEarly, Rejected, Restarted, files, channel
  <2>2. CASE CancelRecords(ActiveRuns)
    BY <2>1, <2>2, RecordsGone, PastKept
  <2>3. CASE UNCHANGED <<row, artifact>>
    BY <2>1, <2>3, PastKept DEF HasArtifact
  <2> QED
    BY <1>9, <2>2, <2>3 DEF ThrowEarly, Rejected, Restarted
<1>10. ASSUME NEW r \in Runs, NotReady(r) PROVE PastInv'
  <2>1. UNCHANGED <<saw, sent, lake, artifact>>
    BY <1>10 DEF NotReady, files, channel
  <2>2. \A q \in Runs : HasArtifact(q)' => HasArtifact(q)
    BY <2>1 DEF HasArtifact
  <2> QED
    BY <2>1, <2>2, PastKept
<1>11. ASSUME NEW r \in Runs, Ready(r) PROVE PastInv'
  <2>1. /\ scope'[r] = scope[r] /\ scope[r] \in SUBSET Days /\ UNCHANGED <<lake, artifact, sent>>
        /\ Begin(r, kind[r], scope[r]) /\ row[r] # "none"
    BY <1>11 DEF Ready, Phased, PlaceInv, TypeOK, files, channel, request
  <2>2. row'[r] # "none"
    BY <2>1 DEF RequestsStay
  <2> QED
    BY <2>1, <2>2, PastBegins
<1>12. ASSUME NEW r \in Runs, NEW d \in Days, ReadFile(r, d)
       PROVE  PastInv'
  <2>1. UNCHANGED <<saw, sent, lake, artifact>>
    BY <1>12 DEF ReadFile, files, channel
  <2>2. \A q \in Runs : HasArtifact(q)' => HasArtifact(q)
    BY <2>1 DEF HasArtifact
  <2> QED
    BY <2>1, <2>2, PastKept
<1>13. ASSUME NEW r \in Runs, NEW d \in Days, Unreadable(r, d)
       PROVE  PastInv'
  <2>1. UNCHANGED <<saw, sent, lake, artifact>>
    BY <1>13 DEF Unreadable, files, channel
  <2>2. \A q \in Runs : HasArtifact(q)' => HasArtifact(q)
    BY <2>1 DEF HasArtifact
  <2> QED
    BY <2>1, <2>2, PastKept
<1>14. ASSUME NEW r \in Runs, NEW d \in Days, Skip(r, d) PROVE PastInv'
  <2>1. UNCHANGED <<row, request, saw, sent, lake>>
    BY <1>14 DEF Skip, files, channel
  <2>2. /\ row[r] # "none"
        /\ \A q \in Runs : HasArtifact(q)' => HasArtifact(q) \/ q = r
    BY <1>14, ArtifactOf DEF PlaceInv
  <2> QED
    BY <2>1, <2>2 DEF PastInv, request
<1>15. ASSUME NEW r \in Runs, NEW d \in Days, DryRun(r, d) PROVE PastInv'
  <2>1. UNCHANGED <<saw, sent, lake, artifact>>
    BY <1>15 DEF DryRun, files, channel
  <2>2. \A q \in Runs : HasArtifact(q)' => HasArtifact(q)
    BY <2>1 DEF HasArtifact
  <2> QED
    BY <2>1, <2>2, PastKept
<1>16. ASSUME NEW r \in Runs, NEW d \in Days, StartUpload(r, d)
       PROVE  PastInv'
  <2>1. UNCHANGED <<row, request, saw, sent, lake>>
    BY <1>16 DEF StartUpload, files, channel
  <2>2. /\ row[r] # "none"
        /\ \A q \in Runs : HasArtifact(q)' => HasArtifact(q) \/ q = r
    BY <1>16, ArtifactOf DEF PlaceInv
  <2> QED
    BY <2>1, <2>2 DEF PastInv, request
<1>17. ASSUME NEW r \in Runs, NEW d \in Days, SendPiece(r, d)
       PROVE  PastInv'
  <2>1. UNCHANGED <<row, request, saw, sent, lake>>
    BY <1>17 DEF SendPiece, files, channel
  <2>2. /\ row[r] # "none"
        /\ \A q \in Runs : HasArtifact(q)' => HasArtifact(q) \/ q = r
    BY <1>17, ArtifactOf DEF PlaceInv
  <2> QED
    BY <2>1, <2>2 DEF PastInv, request
<1>18. ASSUME NEW r \in Runs, NEW d \in Days, FailPiece(r, d)
       PROVE  PastInv'
  <2>1. UNCHANGED <<saw, sent, lake, artifact>>
    BY <1>18 DEF FailPiece, files, channel
  <2>2. \A q \in Runs : HasArtifact(q)' => HasArtifact(q)
    BY <2>1 DEF HasArtifact
  <2> QED
    BY <2>1, <2>2, PastKept
<1>19. ASSUME NEW r \in Runs, StartCatalogue(r) PROVE PastInv'
  <2>1. UNCHANGED <<saw, sent, lake, artifact>>
    BY <1>19 DEF StartCatalogue, files, channel
  <2>2. \A q \in Runs : HasArtifact(q)' => HasArtifact(q)
    BY <2>1 DEF HasArtifact
  <2> QED
    BY <2>1, <2>2, PastKept
<1>20. ASSUME NEW r \in Runs, CatalogueSent(r) PROVE PastInv'
  <2>1. UNCHANGED <<saw, sent, lake, artifact>>
    BY <1>20 DEF CatalogueSent, files, channel
  <2>2. \A q \in Runs : HasArtifact(q)' => HasArtifact(q)
    BY <2>1 DEF HasArtifact
  <2> QED
    BY <2>1, <2>2, PastKept
<1>21. ASSUME NEW r \in Runs, MasterSent(r) PROVE PastInv'
  <2>1. /\ UNCHANGED <<row, request, saw, lake, artifact>> /\ sent' = sent \cup {r}
        /\ row[r] # "none" /\ kind[r] \in {"full", "incremental"}
    BY <1>21 DEF MasterSent, Phased, files, PlaceInv, Telling
  <2> QED
    BY <2>1 DEF PastInv, request, HasArtifact
<1>22. ASSUME NEW r \in Runs, Finish(r) PROVE PastInv'
  <2>1. UNCHANGED <<saw, sent, lake, artifact>>
    BY <1>22 DEF Finish, files, channel
  <2>2. \A q \in Runs : HasArtifact(q)' => HasArtifact(q)
    BY <2>1 DEF HasArtifact
  <2> QED
    BY <2>1, <2>2, PastKept
<1>23. ASSUME NEW r \in Runs, StopAtCheck(r) PROVE PastInv'
  <2>1. UNCHANGED <<saw, sent, lake>>
    BY <1>23 DEF StopAtCheck, files, channel
  <2>2. CASE CancelRecords({r})
    BY <2>1, <2>2, RecordsGone, PastKept
  <2> QED
    BY <1>23, <2>2 DEF StopAtCheck
<1>24. ASSUME NEW r \in Runs, Break(r) PROVE PastInv'
  <2>1. UNCHANGED <<saw, sent, lake, artifact>>
    BY <1>24 DEF Break, files, channel
  <2>2. \A q \in Runs : HasArtifact(q)' => HasArtifact(q)
    BY <2>1 DEF HasArtifact
  <2> QED
    BY <2>1, <2>2, PastKept
<1>25. ASSUME NEW r \in Runs, NEW d \in Days, RestoreDay(r, d)
       PROVE  PastInv'
  <2>1. /\ UNCHANGED <<row, request, saw, sent, artifact>>
        /\ lake' = [lake EXCEPT ![d] = work.entries[d].version]
    BY <1>25 DEF RestoreDay, channel
  <2>2. d \in DOMAIN work.entries
    BY <1>25 DEF RestoreDay, Phased, PlaceInv
  <2>3. work.entries[d].version \in 1 .. MaxVersion
    BY <2>2, WorkIs, CatalogueIs DEF Entry
  <2>4. \A e \in Days : lake[e] > 0 => lake'[e] > 0
    BY <2>1, <2>3 DEF TypeOK
  <2>5. \A q \in Runs : scope[q] \subseteq Days
    BY DEF TypeOK
  <2> QED
    BY <2>1, <2>4, <2>5 DEF PastInv, request, HasArtifact
<1>26. ASSUME NEW r \in Runs, NEW d \in Days, RefuseDay(r, d)
       PROVE  PastInv'
  <2>1. UNCHANGED <<saw, sent, lake, artifact>>
    BY <1>26 DEF RefuseDay, files, channel
  <2>2. \A q \in Runs : HasArtifact(q)' => HasArtifact(q)
    BY <2>1 DEF HasArtifact
  <2> QED
    BY <2>1, <2>2, PastKept
<1>27. ASSUME NEW r \in Runs, FinishRestore(r) PROVE PastInv'
  <2>1. UNCHANGED <<saw, sent, lake, artifact>>
    BY <1>27 DEF FinishRestore, files, channel
  <2>2. \A q \in Runs : HasArtifact(q)' => HasArtifact(q)
    BY <2>1 DEF HasArtifact
  <2> QED
    BY <2>1, <2>2, PastKept
<1>28. ASSUME NEW r \in Runs, StopRestore(r) PROVE PastInv'
  <2>1. UNCHANGED <<saw, sent, lake>>
    BY <1>28 DEF StopRestore, files, channel
  <2>2. CASE CancelRecords({r})
    BY <2>1, <2>2, RecordsGone, PastKept
  <2>3. CASE UNCHANGED <<row, artifact>>
    BY <2>1, <2>3, PastKept DEF HasArtifact
  <2> QED
    BY <1>28, <2>2, <2>3 DEF StopRestore
<1>29. ASSUME NEW r \in Runs, BreakRestore(r) PROVE PastInv'
  <2>1. UNCHANGED <<saw, sent, lake, artifact>>
    BY <1>29 DEF BreakRestore, files, channel
  <2>2. \A q \in Runs : HasArtifact(q)' => HasArtifact(q)
    BY <2>1 DEF HasArtifact
  <2> QED
    BY <2>1, <2>2, PastKept
<1>30. ASSUME Restart PROVE PastInv'
  <2>1. UNCHANGED <<saw, sent, lake>>
    BY <1>30 DEF Restart, Restarted, files, channel
  <2>2. CASE CancelRecords(ActiveRuns)
    BY <2>1, <2>2, RecordsGone, PastKept
  <2> QED
    BY <1>30, <2>2 DEF Restart, Restarted
<1>31. ASSUME CliDie PROVE PastInv'
  <2>1. UNCHANGED <<saw, sent, lake, artifact>>
    BY <1>31 DEF CliDie, files, channel
  <2>2. \A q \in Runs : HasArtifact(q)' => HasArtifact(q)
    BY <2>1 DEF HasArtifact
  <2> QED
    BY <2>1, <2>2, PastKept
<1>32. CASE UNCHANGED vars
  <2>1. UNCHANGED <<saw, sent, lake, artifact>>
    BY <1>32 DEF vars, files, channel
  <2>2. \A q \in Runs : HasArtifact(q)' => HasArtifact(q)
    BY <2>1 DEF HasArtifact
  <2> QED
    BY <2>1, <2>2, PastKept
<1>33. ASSUME NEW r \in Runs, NextAsset(r)
       PROVE  PastInv'
  <2>1. UNCHANGED <<saw, sent, lake, artifact>>
    BY <1>33 DEF NextAsset, files, channel
  <2>2. \A q \in Runs : HasArtifact(q)' => HasArtifact(q)
    BY <2>1 DEF HasArtifact
  <2> QED
    BY <2>1, <2>2, PastKept
<1> QED
  BY <1>1, <1>2, <1>3, <1>4, <1>5, <1>6, <1>7, <1>8, <1>9, <1>10, <1>11,
     <1>12, <1>13, <1>14, <1>15, <1>16, <1>17, <1>18, <1>19, <1>20, <1>21,
     <1>22, <1>23, <1>24, <1>25, <1>26, <1>27, <1>28, <1>29, <1>30, <1>31,
     <1>32, <1>33
     DEF Next, BackupStep, RestoreStep

-----------------------------------------------------------------------------
(* The cleared run.                                                        *)

LEMMA ClearedInit == Init => ClearedInv
<1> QED
  BY DEF Init, ClearedInv, Completed

LEMMA ClearedStep == Base /\ ClearedInv /\ [Next]_vars => ClearedInv'
<1> SUFFICES ASSUME Base, ClearedInv, [Next]_vars PROVE ClearedInv'
  OBVIOUS
<1> USE Constants, BackupAssumption DEF Base
<1>1. ASSUME NEW d \in Days, Rebuild(d) PROVE ClearedInv'
  BY <1>1, WorkIs
     DEF Rebuild, request, channel, files, bounds, TypeOK, ClearedInv,
         Completed
<1>2. ASSUME NEW r \in Runs, NEW days \in Scopes,
             NEW k \in {"full", "incremental", "dry"}, Enqueue(r, k, days)
      PROVE  ClearedInv'
  <2>1. row[r] = "none" /\ work.run = NoRun
    BY <1>2 DEF Enqueue, Register, Fresh
  <2>2. work'.run \in {NoRun, r}
    <3>1. CASE Begin(r, k, days)
      BY <3>1, BeginWork DEF Idle
    <3>2. CASE ~Begin(r, k, days)
      BY <1>2, <3>2 DEF Enqueue, Idle
    <3> QED
      BY <3>1, <3>2
  <2>3. row'[r] # "deleted"
    BY <1>2, <2>1, BeginRow DEF Enqueue, SetRow, TypeOK
  <2> QED
    BY <2>2, <2>3 DEF ClearedInv
<1>3. ASSUME NEW r \in Runs, NEW days \in Scopes,
             NEW k \in {"full", "incremental", "dry"}, StartCli(r, k, days)
      PROVE  ClearedInv'
  <2>1. row[r] = "none" /\ work.run = NoRun
    BY <1>3 DEF StartCli, Register, Fresh
  <2>2. work'.run \in {NoRun, r}
    <3>1. CASE Begin(r, k, days)
      BY <3>1, BeginWork DEF Idle
    <3>2. CASE ~Begin(r, k, days)
      BY <1>3, <3>2 DEF StartCli, Idle
    <3> QED
      BY <3>1, <3>2
  <2>3. row'[r] # "deleted"
    BY <1>3, <2>1, BeginRow DEF StartCli, SetRow, TypeOK
  <2> QED
    BY <2>2, <2>3 DEF ClearedInv
<1>4. ASSUME NEW r \in Runs, NEW days \in Scopes, EnqueueDisabled(r, days)
      PROVE  ClearedInv'
  BY <1>4, WorkIs
     DEF EnqueueDisabled, Register, Fresh, request, channel, files, bounds,
         TypeOK, ClearedInv, Completed
<1>5. ASSUME NEW r \in Runs, NEW m \in Runs, EnqueueRestore(r, m)
      PROVE  ClearedInv'
  BY <1>5, WorkIs
     DEF EnqueueRestore, Register, Fresh, request, channel, files, bounds,
         TypeOK, ClearedInv, Completed
<1>6. ASSUME NEW r \in Runs, Cancel(r) PROVE ClearedInv'
  <2>1. work'.run = work.run
    BY <1>6, WorkIs DEF Cancel, Work
  <2>2. CASE CancelRecords({r})
    BY <2>1, <2>2, RecordsGone, WorkIs DEF ClearedInv, Completed
  <2> QED
    BY <1>6, <2>2 DEF Cancel
<1>7. ASSUME StopAll PROVE ClearedInv'
  <2>1. work'.run = work.run
    BY <1>7, WorkIs DEF StopAll, Work
  <2>2. CASE Clear
    BY <2>1, <2>2, RecordsGone, WorkIs DEF ClearedInv, Completed, Clear
  <2>3. CASE CancelRecords(ActiveRuns)
    BY <2>1, <2>3, RecordsGone, WorkIs DEF ClearedInv, Completed
  <2> QED
    BY <1>7, <2>2, <2>3 DEF StopAll
<1>8. ASSUME ClearLocal PROVE ClearedInv'
  <2>1. work'.run = work.run
    BY <1>8, WorkIs DEF ClearLocal, Work
  <2>2. CASE Clear
    BY <2>1, <2>2, RecordsGone, WorkIs DEF ClearedInv, Completed, Clear
  <2>3. CASE UNCHANGED <<artifact, row>>
    BY <2>1, <2>3, RecordsGone, WorkIs DEF ClearedInv, Completed
  <2> QED
    BY <1>8, <2>2, <2>3 DEF ClearLocal
<1>9. ASSUME NEW r \in Runs, ThrowEarly(r) PROVE ClearedInv'
  <2>1. work'.run = NoRun
    BY <1>9 DEF ThrowEarly, Rejected, Restarted, Idle
  <2> QED
    BY <2>1 DEF ClearedInv
<1>10. ASSUME NEW r \in Runs, NotReady(r) PROVE ClearedInv'
  <2>1. work'.run = NoRun
    BY <1>10 DEF NotReady, Idle
  <2> QED
    BY <2>1 DEF ClearedInv
<1>11. ASSUME NEW r \in Runs, Ready(r) PROVE ClearedInv'
  <2>1. row' = SetRow(row, r, "failed") \/ row' = SetRow(row, r, "running")
    BY <1>11, BeginRow DEF Ready
  <2>2. work.run = r /\ work'.run \in {NoRun, r}
    BY <1>11, BeginWork DEF Ready, Phased, Idle
  <2>3. row'[r] = "deleted" => row' = row
    BY <2>1 DEF SetRow, TypeOK
  <2> QED
    BY <2>2, <2>3 DEF ClearedInv, Completed
<1>12. ASSUME NEW r \in Runs, NEW d \in Days, ReadFile(r, d)
       PROVE  ClearedInv'
  BY <1>12, WorkIs
     DEF ReadFile, Phased, request, channel, files, bounds, TypeOK,
         ClearedInv, Completed
<1>13. ASSUME NEW r \in Runs, NEW d \in Days, Unreadable(r, d)
       PROVE  ClearedInv'
  BY <1>13, WorkIs
     DEF Unreadable, Reading, Phased, Failure, Noted, Done, request, channel,
         files, bounds, TypeOK, ClearedInv, Completed
<1>14. ASSUME NEW r \in Runs, NEW d \in Days, Skip(r, d) PROVE ClearedInv'
  BY <1>14, WorkIs
     DEF Skip, Reading, Phased, Done, request, channel, files, bounds, TypeOK,
         ClearedInv, Completed
<1>15. ASSUME NEW r \in Runs, NEW d \in Days, DryRun(r, d) PROVE ClearedInv'
  BY <1>15, WorkIs
     DEF DryRun, Reading, Phased, Done, request, channel, files, bounds,
         TypeOK, ClearedInv, Completed
<1>16. ASSUME NEW r \in Runs, NEW d \in Days, StartUpload(r, d)
       PROVE  ClearedInv'
  BY <1>16, WorkIs
     DEF StartUpload, Reading, Phased, request, channel, files, bounds,
         TypeOK, ClearedInv, Completed
<1>17. ASSUME NEW r \in Runs, NEW d \in Days, SendPiece(r, d)
       PROVE  ClearedInv'
  <2>1. work.run = r /\ work'.run = r
    BY <1>17, SendEffect
  <2>2. row' = row
    BY <1>17 DEF SendPiece
  <2> QED
    BY <2>1, <2>2 DEF ClearedInv, Completed
<1>18. ASSUME NEW r \in Runs, NEW d \in Days, FailPiece(r, d)
       PROVE  ClearedInv'
  BY <1>18, WorkIs
     DEF FailPiece, Phased, Failure, Noted, Done, request, channel, files,
         bounds, TypeOK, ClearedInv, Completed
<1>19. ASSUME NEW r \in Runs, StartCatalogue(r) PROVE ClearedInv'
  BY <1>19, StartCatalogueEffect DEF SameRun, StartCatalogue, ClearedInv, Completed
<1>20. ASSUME NEW r \in Runs, CatalogueSent(r) PROVE ClearedInv'
  BY <1>20, WorkIs
     DEF CatalogueSent, Onward, Phased, request, channel, files, bounds, TypeOK,
         ClearedInv, Completed
<1>21. ASSUME NEW r \in Runs, MasterSent(r) PROVE ClearedInv'
  BY <1>21, WorkIs
     DEF MasterSent, Phased, request, channel, files, bounds, TypeOK,
         ClearedInv, Completed
<1>22. ASSUME NEW r \in Runs, Finish(r) PROVE ClearedInv'
  <2>1. work'.run = NoRun
    BY <1>22 DEF Finish, Idle
  <2> QED
    BY <2>1 DEF ClearedInv
<1>23. ASSUME NEW r \in Runs, StopAtCheck(r) PROVE ClearedInv'
  <2>1. work'.run = NoRun
    BY <1>23 DEF StopAtCheck, Idle
  <2> QED
    BY <2>1 DEF ClearedInv
<1>24. ASSUME NEW r \in Runs, Break(r) PROVE ClearedInv'
  <2>1. work'.run = NoRun
    BY <1>24 DEF Break, Idle
  <2> QED
    BY <2>1 DEF ClearedInv
<1>25. ASSUME NEW r \in Runs, NEW d \in Days, RestoreDay(r, d)
       PROVE  ClearedInv'
  BY <1>25, WorkIs
     DEF RestoreDay, Phased, request, channel, files, bounds, TypeOK,
         ClearedInv, Completed
<1>26. ASSUME NEW r \in Runs, NEW d \in Days, RefuseDay(r, d)
       PROVE  ClearedInv'
  BY <1>26, WorkIs
     DEF RefuseDay, Phased, Failure, request, channel, files, bounds, TypeOK,
         ClearedInv, Completed
<1>27. ASSUME NEW r \in Runs, FinishRestore(r) PROVE ClearedInv'
  <2>1. work'.run = NoRun
    BY <1>27 DEF FinishRestore, Idle
  <2> QED
    BY <2>1 DEF ClearedInv
<1>28. ASSUME NEW r \in Runs, StopRestore(r) PROVE ClearedInv'
  <2>1. work'.run = NoRun
    BY <1>28 DEF StopRestore, Idle
  <2> QED
    BY <2>1 DEF ClearedInv
<1>29. ASSUME NEW r \in Runs, BreakRestore(r) PROVE ClearedInv'
  <2>1. work'.run = NoRun
    BY <1>29 DEF BreakRestore, Idle
  <2> QED
    BY <2>1 DEF ClearedInv
<1>30. ASSUME Restart PROVE ClearedInv'
  <2>1. work'.run = NoRun
    BY <1>30 DEF Restart, Restarted, Idle
  <2> QED
    BY <2>1 DEF ClearedInv
<1>31. ASSUME CliDie PROVE ClearedInv'
  <2>1. work'.run = NoRun
    BY <1>31 DEF CliDie, Idle
  <2> QED
    BY <2>1 DEF ClearedInv
<1>32. CASE UNCHANGED vars
  BY <1>32, WorkIs
     DEF vars, request, channel, files, bounds, TypeOK, ClearedInv, Completed
<1>33. ASSUME NEW r \in Runs, NextAsset(r)
       PROVE  ClearedInv'
  BY <1>33, WorkIs
     DEF NextAsset, Phased, Failure, request, channel, files, bounds, TypeOK,
         ClearedInv, Completed
<1> QED
  BY <1>1, <1>2, <1>3, <1>4, <1>5, <1>6, <1>7, <1>8, <1>9, <1>10, <1>11,
     <1>12, <1>13, <1>14, <1>15, <1>16, <1>17, <1>18, <1>19, <1>20, <1>21,
     <1>22, <1>23, <1>24, <1>25, <1>26, <1>27, <1>28, <1>29, <1>30, <1>31,
     <1>32, <1>33
     DEF Next, BackupStep, RestoreStep

-----------------------------------------------------------------------------
(* What the steps of undisturbed runs have in common.                      *)

(* Failures, ends of processes and restores disturb.                       *)
LEMMA Troubled ==
    ASSUME Base, [Next]_vars, NEW r \in Runs, NEW d, NEW m,
           \/ FailPiece(r, d) \/ Break(r) \/ EnqueueRestore(r, m)
           \/ RestoreDay(r, d) \/ RefuseDay(r, d) \/ FinishRestore(r)
           \/ NextAsset(r) \/ StopRestore(r) \/ BreakRestore(r)
    PROVE  ~Undisturbed'
<1> USE DEF Base
<1>1. failures \in Nat
  BY BackupAssumption DEF TypeOK
<1>2. CASE FailPiece(r, d) \/ Break(r) \/ BreakRestore(r)
  BY <1>1, <1>2 DEF FailPiece, Break, BreakRestore, Failure, Undisturbed, Calm
<1>3. CASE EnqueueRestore(r, m)
  <2>1. row'[r] = "running" /\ kind'[r] = "restore"
    BY <1>3 DEF EnqueueRestore, Register, TypeOK
  <2> QED
    BY <2>1 DEF Undisturbed, Calm
<1>4. CASE \/ RestoreDay(r, d) \/ RefuseDay(r, d) \/ NextAsset(r)
           \/ FinishRestore(r) \/ StopRestore(r)
  <2>1. work.run = r /\ work.phase = "restore"
    BY <1>4 DEF RestoreDay, RefuseDay, NextAsset, FinishRestore, StopRestore, Phased
  <2>2. row[r] # "none" /\ kind[r] = "restore"
    BY <2>1, Constants DEF PlaceInv
  <2>3. row'[r] # "none" /\ kind'[r] = "restore"
    BY <2>2, RequestsKept DEF RequestsStay
  <2> QED
    BY <2>3 DEF Undisturbed, Calm
<1> QED
  BY <1>2, <1>3, <1>4

LEMMA Crashed == Base /\ (Restart \/ CliDie) => ~Undisturbed'
<1>1. Base => crashes \in Nat
  BY BackupAssumption DEF Base, TypeOK
<1> QED
  BY <1>1 DEF Restart, CliDie, Undisturbed, Calm

(* The first piece of a file that is known afterwards was known before, by *)
(* the same artifact, and the pieces of the same run are still there.      *)
StaysKnown(d) ==
    (0 \in Uploaded(d))' =>
        /\ 0 \in Uploaded(d)
        /\ artifact'[d][0] = artifact[d][0]
        /\ \A c \in Chunks : artifact[d][c].run = artifact[d][0].run
               => artifact'[d][c] = artifact[d][c]

LEMMA RecordsFewer ==
    ASSUME NEW R, CancelRecords(R) \/ Clear \/ artifact' = artifact, NEW d \in Days
    PROVE  StaysKnown(d)
<1>1. \A c \in Chunks : artifact'[d][c] = artifact[d][c] \/ artifact'[d][c] = NoArtifact
  BY DEF CancelRecords, WithoutRuns, Clear
<1>2. \A c \in Chunks : artifact[d][c].run = artifact[d][0].run /\ artifact'[d][0] # NoArtifact
          => artifact'[d][c] = artifact[d][c]
  <2>1. CASE CancelRecords(R)
    <3>1. \A c \in Chunks : artifact'[d][c] =
              IF artifact[d][c].run \in R THEN NoArtifact ELSE artifact[d][c]
      BY <2>1 DEF CancelRecords, WithoutRuns
    <3> QED
      BY <3>1, Constants
  <2>2. CASE Clear
    BY <2>2, Constants DEF Clear
  <2> QED
    BY <2>1, <2>2
<1>3. (0 \in Uploaded(d))' => artifact'[d][0] # NoArtifact
  BY DEF Uploaded, NoArtifact
<1> QED
  BY <1>1, <1>2, <1>3, Constants DEF StaysKnown, Uploaded

LEMMA SkipEffect ==
    ASSUME Base, NEW r \in Runs, NEW d \in Days, Skip(r, d)
    PROVE  /\ work.run = r /\ work.phase = "read" /\ work.doing = {d} /\ d \in work.todo
           /\ work.incremental /\ KnownVersion(d) = saw[r][d]
           /\ work'.run = r /\ work'.phase = "walk" /\ work'.todo = work.todo \ {d}
           /\ work'.doing = {} /\ work'.piece = 0
           /\ work'.entries = WithEntry(d, SkippedEntry(d))
           /\ work'.changed = work.changed /\ work'.errors = work.errors
           /\ artifact'[d][0].skipped /\ ~(0 \in Uploaded(d))'
           /\ \A e \in Days : e # d => artifact'[e] = artifact[e]
<1>1. /\ work.run = r /\ work.phase = "read" /\ work.doing = {d} /\ d \in work.todo
      /\ work.incremental /\ KnownVersion(d) = saw[r][d]
  BY WorkIs DEF Base, PlaceInv, Skip, Reading, Phased, Unchanged
<1>2. artifact' = [artifact EXCEPT ![d] = [@ EXCEPT ![0] =
                      [run |-> r, version |-> saw[r][d], skipped |-> TRUE]]]
  BY DEF Skip
<1>3. artifact \in [Days -> [Chunks -> Artifact]]
  BY DEF Base, TypeOK
<1>4. artifact'[d][0].skipped /\ \A e \in Days : e # d => artifact'[e] = artifact[e]
  BY <1>2, <1>3, Constants
<1>5. PICK new : /\ new = WithEntry(d, SkippedEntry(d))
                 /\ work' = [Done(d) EXCEPT !.entries = new]
  BY DEF Skip
<1>6. /\ work'.run = r /\ work'.phase = "walk" /\ work'.todo = work.todo \ {d}
      /\ work'.doing = {} /\ work'.piece = 0 /\ work'.entries = new
      /\ work'.changed = work.changed /\ work'.errors = work.errors
  BY <1>1, <1>5, WorkIs DEF Done, Base, Work
<1> QED
  BY <1>1, <1>4, <1>5, <1>6 DEF Uploaded

LEMMA UploadEffect ==
    ASSUME Base, NEW r \in Runs, NEW d \in Days, StartUpload(r, d)
    PROVE  /\ work.run = r /\ work.phase = "read" /\ work.doing = {d} /\ d \in work.todo
           /\ work'.run = r /\ work'.phase = "send" /\ work'.todo = work.todo
           /\ work'.doing = {d} /\ work'.piece = 0 /\ work'.entries = work.entries
           /\ work'.changed = work.changed /\ work'.errors = work.errors
           /\ ~(0 \in Uploaded(d))'
           /\ \A e \in Days : e # d => artifact'[e] = artifact[e]
<1>1. /\ work.run = r /\ work.phase = "read" /\ work.doing = {d} /\ d \in work.todo
      /\ work.piece = 0
  BY WorkIs DEF Base, PlaceInv, StartUpload, Reading, Phased
<1>2. artifact' = [artifact EXCEPT ![d] = [c \in Chunks |-> NoArtifact]]
  BY DEF StartUpload
<1>3. artifact \in [Days -> [Chunks -> Artifact]]
  BY DEF Base, TypeOK
<1>4. artifact'[d][0] = NoArtifact /\ \A e \in Days : e # d => artifact'[e] = artifact[e]
  BY <1>2, <1>3, Constants
<1>5. /\ work'.run = r /\ work'.phase = "send" /\ work'.todo = work.todo
      /\ work'.doing = {d} /\ work'.piece = 0 /\ work'.entries = work.entries
      /\ work'.changed = work.changed /\ work'.errors = work.errors
  BY <1>1, WorkIs DEF StartUpload, Base, Work
<1> QED
  BY <1>1, <1>4, <1>5 DEF Uploaded, NoArtifact

LEMMA PieceZero ==
    \A d \in Days : 0 \in Uploaded(d) <=>
        artifact[d][0].run # NoRun /\ ~artifact[d][0].skipped
<1> QED
  BY Constants DEF Uploaded

(* Only the sending of a piece makes a file known.                         *)
LEMMA KnownStays ==
    Base /\ [Next]_vars =>
        \/ \E r \in Runs, d \in Days : SendPiece(r, d)
        \/ \A e \in Days : StaysKnown(e)
<1> SUFFICES ASSUME Base, [Next]_vars,
                    ~\E r \in Runs, d \in Days : SendPiece(r, d),
                    NEW e \in Days
             PROVE  StaysKnown(e)
  OBVIOUS
<1> USE DEF Base
<1>1. ASSUME NEW d \in Days, Rebuild(d) PROVE StaysKnown(e)
  BY <1>1, RecordsFewer DEF Rebuild, files, channel
<1>2. ASSUME NEW r \in Runs, NEW days \in Scopes,
             NEW k \in {"full", "incremental", "dry"}, Enqueue(r, k, days)
      PROVE  StaysKnown(e)
  BY <1>2, RecordsFewer DEF Enqueue, files, channel
<1>3. ASSUME NEW r \in Runs, NEW days \in Scopes,
             NEW k \in {"full", "incremental", "dry"}, StartCli(r, k, days)
      PROVE  StaysKnown(e)
  BY <1>3, RecordsFewer DEF StartCli, files, channel
<1>4. ASSUME NEW r \in Runs, NEW days \in Scopes, EnqueueDisabled(r, days)
      PROVE  StaysKnown(e)
  BY <1>4, RecordsFewer DEF EnqueueDisabled, files, channel
<1>5. ASSUME NEW r \in Runs, NEW m \in Runs, EnqueueRestore(r, m)
      PROVE  StaysKnown(e)
  BY <1>5, RecordsFewer DEF EnqueueRestore, files, channel
<1>6. ASSUME NEW r \in Runs, Cancel(r) PROVE StaysKnown(e)
  BY <1>6, RecordsFewer DEF Cancel, files, channel
<1>7. ASSUME StopAll PROVE StaysKnown(e)
  BY <1>7, RecordsFewer DEF StopAll, files, channel
<1>8. ASSUME ClearLocal PROVE StaysKnown(e)
  BY <1>8, RecordsFewer DEF ClearLocal, files, channel
<1>9. ASSUME NEW r \in Runs, ThrowEarly(r) PROVE StaysKnown(e)
  BY <1>9, RecordsFewer DEF ThrowEarly, Rejected, Restarted, files, channel
<1>10. ASSUME NEW r \in Runs, NotReady(r) PROVE StaysKnown(e)
  BY <1>10, RecordsFewer DEF NotReady, files, channel
<1>11. ASSUME NEW r \in Runs, Ready(r) PROVE StaysKnown(e)
  BY <1>11, RecordsFewer DEF Ready, files, channel
<1>12. ASSUME NEW r \in Runs, NEW d \in Days, ReadFile(r, d)
       PROVE  StaysKnown(e)
  BY <1>12, RecordsFewer DEF ReadFile, files, channel
<1>13. ASSUME NEW r \in Runs, NEW d \in Days, Unreadable(r, d)
       PROVE  StaysKnown(e)
  BY <1>13, RecordsFewer DEF Unreadable, files, channel
<1>14. ASSUME NEW r \in Runs, NEW d \in Days, Skip(r, d) PROVE StaysKnown(e)
  BY <1>14, SkipEffect DEF StaysKnown, Uploaded
<1>15. ASSUME NEW r \in Runs, NEW d \in Days, DryRun(r, d) PROVE StaysKnown(e)
  BY <1>15, RecordsFewer DEF DryRun, files, channel
<1>16. ASSUME NEW r \in Runs, NEW d \in Days, StartUpload(r, d)
       PROVE  StaysKnown(e)
  BY <1>16, UploadEffect DEF StaysKnown, Uploaded
<1>17. ASSUME NEW r \in Runs, NEW d \in Days, SendPiece(r, d)
       PROVE  StaysKnown(e)
  BY <1>17
<1>18. ASSUME NEW r \in Runs, NEW d \in Days, FailPiece(r, d)
       PROVE  StaysKnown(e)
  BY <1>18, RecordsFewer DEF FailPiece, files, channel
<1>19. ASSUME NEW r \in Runs, StartCatalogue(r) PROVE StaysKnown(e)
  BY <1>19, RecordsFewer DEF StartCatalogue, files, channel
<1>20. ASSUME NEW r \in Runs, CatalogueSent(r) PROVE StaysKnown(e)
  BY <1>20, RecordsFewer DEF CatalogueSent, files, channel
<1>21. ASSUME NEW r \in Runs, MasterSent(r) PROVE StaysKnown(e)
  BY <1>21, RecordsFewer DEF MasterSent, files, channel
<1>22. ASSUME NEW r \in Runs, Finish(r) PROVE StaysKnown(e)
  BY <1>22, RecordsFewer DEF Finish, files, channel
<1>23. ASSUME NEW r \in Runs, StopAtCheck(r) PROVE StaysKnown(e)
  BY <1>23, RecordsFewer DEF StopAtCheck, files, channel
<1>24. ASSUME NEW r \in Runs, Break(r) PROVE StaysKnown(e)
  BY <1>24, RecordsFewer DEF Break, files, channel
<1>25. ASSUME NEW r \in Runs, NEW d \in Days, RestoreDay(r, d)
       PROVE  StaysKnown(e)
  BY <1>25, RecordsFewer DEF RestoreDay, files, channel
<1>26. ASSUME NEW r \in Runs, NEW d \in Days, RefuseDay(r, d)
       PROVE  StaysKnown(e)
  BY <1>26, RecordsFewer DEF RefuseDay, files, channel
<1>27. ASSUME NEW r \in Runs, FinishRestore(r) PROVE StaysKnown(e)
  BY <1>27, RecordsFewer DEF FinishRestore, files, channel
<1>28. ASSUME NEW r \in Runs, StopRestore(r) PROVE StaysKnown(e)
  BY <1>28, RecordsFewer DEF StopRestore, files, channel
<1>29. ASSUME NEW r \in Runs, BreakRestore(r) PROVE StaysKnown(e)
  BY <1>29, RecordsFewer DEF BreakRestore, files, channel
<1>30. ASSUME Restart PROVE StaysKnown(e)
  BY <1>30, RecordsFewer DEF Restart, Restarted, files, channel
<1>31. ASSUME CliDie PROVE StaysKnown(e)
  BY <1>31, RecordsFewer DEF CliDie, files, channel
<1>32. CASE UNCHANGED vars
  BY <1>32, RecordsFewer DEF vars
<1>33. ASSUME NEW r \in Runs, NextAsset(r)
       PROVE  StaysKnown(e)
  BY <1>33, RecordsFewer DEF NextAsset, files, channel
<1> QED
  BY <1>1, <1>2, <1>3, <1>4, <1>5, <1>6, <1>7, <1>8, <1>9, <1>10, <1>11,
     <1>12, <1>13, <1>14, <1>15, <1>16, <1>17, <1>18, <1>19, <1>20, <1>21,
     <1>22, <1>23, <1>24, <1>25, <1>26, <1>27, <1>28, <1>29, <1>30, <1>31,
     <1>32, <1>33
     DEF Next, BackupStep, RestoreStep

(* What the sending of a piece does to what is known.                      *)
LEMMA PieceSent ==
    ASSUME Base, NEW r \in Runs, NEW d \in Days, SendPiece(r, d)
    PROVE  /\ artifact'[d][work.piece] = Sent(r, d)
           /\ \A c \in Chunks : c # work.piece => artifact'[d][c] = artifact[d][c]
           /\ \A e \in Days : e # d => artifact'[e] = artifact[e] /\ StaysKnown(e)
<1>1. artifact' = [artifact EXCEPT ![d] = [@ EXCEPT ![work.piece] =
                      [run |-> r, version |-> saw[r][d], skipped |-> FALSE]]]
  BY DEF SendPiece
<1>2. artifact \in [Days -> [Chunks -> Artifact]] /\ work.piece \in Chunks
  BY WorkIs DEF Base, TypeOK
<1>3. \A e \in Days : e # d => artifact'[e] = artifact[e]
  BY <1>1, <1>2
<1> QED
  BY <1>1, <1>2, <1>3 DEF StaysKnown, Uploaded, Sent

(* Only exports and restores change the lake.                              *)
LEMMA LakeStays ==
    Base /\ [Next]_vars =>
        \/ UNCHANGED files
        \/ \E d \in Days : Rebuild(d)
        \/ \E r \in Runs, d \in Days : RestoreDay(r, d)
<1> SUFFICES ASSUME Base, [Next]_vars,
                    ~\E d \in Days : Rebuild(d),
                    ~\E r \in Runs, d \in Days : RestoreDay(r, d)
             PROVE  UNCHANGED files
  OBVIOUS
<1>1. ASSUME NEW d \in Days, Rebuild(d) PROVE UNCHANGED files
  BY <1>1
<1>2. ASSUME NEW r \in Runs, NEW days \in Scopes,
             NEW k \in {"full", "incremental", "dry"}, Enqueue(r, k, days)
      PROVE  UNCHANGED files
  BY <1>2 DEF Enqueue
<1>3. ASSUME NEW r \in Runs, NEW days \in Scopes,
             NEW k \in {"full", "incremental", "dry"}, StartCli(r, k, days)
      PROVE  UNCHANGED files
  BY <1>3 DEF StartCli
<1>4. ASSUME NEW r \in Runs, NEW days \in Scopes, EnqueueDisabled(r, days)
      PROVE  UNCHANGED files
  BY <1>4 DEF EnqueueDisabled
<1>5. ASSUME NEW r \in Runs, NEW m \in Runs, EnqueueRestore(r, m)
      PROVE  UNCHANGED files
  BY <1>5 DEF EnqueueRestore
<1>6. ASSUME NEW r \in Runs, Cancel(r) PROVE UNCHANGED files
  BY <1>6 DEF Cancel
<1>7. ASSUME StopAll PROVE UNCHANGED files
  BY <1>7 DEF StopAll
<1>8. ASSUME ClearLocal PROVE UNCHANGED files
  BY <1>8 DEF ClearLocal
<1>9. ASSUME NEW r \in Runs, ThrowEarly(r) PROVE UNCHANGED files
  BY <1>9 DEF ThrowEarly, Rejected, Restarted
<1>10. ASSUME NEW r \in Runs, NotReady(r) PROVE UNCHANGED files
  BY <1>10 DEF NotReady
<1>11. ASSUME NEW r \in Runs, Ready(r) PROVE UNCHANGED files
  BY <1>11 DEF Ready
<1>12. ASSUME NEW r \in Runs, NEW d \in Days, ReadFile(r, d)
       PROVE  UNCHANGED files
  BY <1>12 DEF ReadFile
<1>13. ASSUME NEW r \in Runs, NEW d \in Days, Unreadable(r, d)
       PROVE  UNCHANGED files
  BY <1>13 DEF Unreadable
<1>14. ASSUME NEW r \in Runs, NEW d \in Days, Skip(r, d) PROVE UNCHANGED files
  BY <1>14 DEF Skip
<1>15. ASSUME NEW r \in Runs, NEW d \in Days, DryRun(r, d) PROVE UNCHANGED files
  BY <1>15 DEF DryRun
<1>16. ASSUME NEW r \in Runs, NEW d \in Days, StartUpload(r, d)
       PROVE  UNCHANGED files
  BY <1>16 DEF StartUpload
<1>17. ASSUME NEW r \in Runs, NEW d \in Days, SendPiece(r, d)
       PROVE  UNCHANGED files
  BY <1>17 DEF SendPiece
<1>18. ASSUME NEW r \in Runs, NEW d \in Days, FailPiece(r, d)
       PROVE  UNCHANGED files
  BY <1>18 DEF FailPiece
<1>19. ASSUME NEW r \in Runs, StartCatalogue(r) PROVE UNCHANGED files
  BY <1>19 DEF StartCatalogue
<1>20. ASSUME NEW r \in Runs, CatalogueSent(r) PROVE UNCHANGED files
  BY <1>20 DEF CatalogueSent
<1>21. ASSUME NEW r \in Runs, MasterSent(r) PROVE UNCHANGED files
  BY <1>21 DEF MasterSent
<1>22. ASSUME NEW r \in Runs, Finish(r) PROVE UNCHANGED files
  BY <1>22 DEF Finish
<1>23. ASSUME NEW r \in Runs, StopAtCheck(r) PROVE UNCHANGED files
  BY <1>23 DEF StopAtCheck
<1>24. ASSUME NEW r \in Runs, Break(r) PROVE UNCHANGED files
  BY <1>24 DEF Break
<1>25. ASSUME NEW r \in Runs, NEW d \in Days, RestoreDay(r, d)
       PROVE  UNCHANGED files
  BY <1>25
<1>26. ASSUME NEW r \in Runs, NEW d \in Days, RefuseDay(r, d)
       PROVE  UNCHANGED files
  BY <1>26 DEF RefuseDay
<1>27. ASSUME NEW r \in Runs, FinishRestore(r) PROVE UNCHANGED files
  BY <1>27 DEF FinishRestore
<1>28. ASSUME NEW r \in Runs, StopRestore(r) PROVE UNCHANGED files
  BY <1>28 DEF StopRestore
<1>29. ASSUME NEW r \in Runs, BreakRestore(r) PROVE UNCHANGED files
  BY <1>29 DEF BreakRestore
<1>30. ASSUME Restart PROVE UNCHANGED files
  BY <1>30 DEF Restart, Restarted
<1>31. ASSUME CliDie PROVE UNCHANGED files
  BY <1>31 DEF CliDie
<1>32. CASE UNCHANGED vars
  BY <1>32 DEF vars
<1>33. ASSUME NEW r \in Runs, NextAsset(r)
       PROVE  UNCHANGED files
  BY <1>33 DEF NextAsset
<1> QED
  BY <1>1, <1>2, <1>3, <1>4, <1>5, <1>6, <1>7, <1>8, <1>9, <1>10, <1>11,
     <1>12, <1>13, <1>14, <1>15, <1>16, <1>17, <1>18, <1>19, <1>20, <1>21,
     <1>22, <1>23, <1>24, <1>25, <1>26, <1>27, <1>28, <1>29, <1>30, <1>31,
     <1>32, <1>33
     DEF Next, BackupStep, RestoreStep

(* Run r begins to walk over the days D of its scope that are in the lake. *)
Starting(r, b, D) ==
    /\ Begins(r, b, D)
    /\ D # {} /\ \A d \in Days : d \in D <=> d \in scope'[r] /\ lake[d] > 0
    /\ b => kind'[r] = "incremental"
    /\ UNCHANGED <<files, artifact, channel>>
    /\ work.run = NoRun \/ work.phase = "check"
    /\ row[r] = "none" \/ (work.run = r /\ work.phase = "check")
    /\ row[r] # "completed"

LEMMA StartingOrNot ==
    ASSUME Base, [Next]_vars,
           ~\E r \in Runs, b \in BOOLEAN, D \in SUBSET Days : Starting(r, b, D)
    PROVE  /\ saw' = saw
           /\ \A r \in Runs, k \in {"full", "incremental", "dry"}, days \in Scopes :
                  Enqueue(r, k, days) \/ StartCli(r, k, days) => ~Walking' /\ ~Telling'
           /\ \A r \in Runs : Ready(r) => ~Walking' /\ ~Telling'
<1> USE DEF Base
<1>1. ASSUME NEW r \in Runs, NEW k, NEW days \in SUBSET Days, Begin(r, k, days),
             scope'[r] = days, kind'[r] = k, UNCHANGED <<files, artifact, channel>>,
             work.run = NoRun \/ work.phase = "check", row[r] # "completed",
             row[r] = "none" \/ (work.run = r /\ work.phase = "check")
      PROVE  saw' = saw /\ ~Walking' /\ ~Telling'
  <2>1. CASE row' = SetRow(row, r, "failed") /\ work' = Idle /\ saw' = saw
    BY <2>1 DEF Idle, Walking, Telling
  <2>2. CASE \E b \in BOOLEAN, D \in SUBSET Days :
               /\ b => k = "incremental" /\ BaselineReady
               /\ D # {} /\ \A d \in Days : d \in D <=> d \in days /\ lake[d] > 0
               /\ Begins(r, b, D)
    <3>1. PICK b \in BOOLEAN, D \in SUBSET Days :
            /\ b => k = "incremental" /\ BaselineReady
            /\ D # {} /\ \A d \in Days : d \in D <=> d \in days /\ lake[d] > 0
            /\ Begins(r, b, D)
      BY <2>2
    <3>2. Starting(r, b, D)
      BY <1>1, <3>1 DEF Starting
    <3> QED
      BY <3>2
  <2> QED
    BY <1>1, <2>1, <2>2, BeginEffect
<1>2. ASSUME NEW r \in Runs, NEW days \in Scopes,
             NEW k \in {"full", "incremental", "dry"}, Enqueue(r, k, days)
      PROVE  saw' = saw /\ ~Walking' /\ ~Telling'
  <2>1. /\ days \in SUBSET Days /\ scope'[r] = days /\ kind'[r] = k
        /\ UNCHANGED <<files, artifact, channel>> /\ work.run = NoRun
        /\ row[r] # "completed" /\ row[r] = "none"
    BY <1>2, BackupAssumption DEF Enqueue, Register, Fresh, TypeOK
  <2>2. CASE k = "dry"
    BY <1>2, <2>1, <2>2, <1>1 DEF Enqueue
  <2>3. CASE k # "dry"
    BY <1>2, <2>3 DEF Enqueue, Idle, Walking, Telling
  <2> QED
    BY <2>2, <2>3
<1>3. ASSUME NEW r \in Runs, NEW days \in Scopes,
             NEW k \in {"full", "incremental", "dry"}, StartCli(r, k, days)
      PROVE  saw' = saw /\ ~Walking' /\ ~Telling'
  <2>1. /\ days \in SUBSET Days /\ scope'[r] = days /\ kind'[r] = k
        /\ UNCHANGED <<files, artifact, channel>> /\ work.run = NoRun
        /\ row[r] # "completed" /\ row[r] = "none" /\ Begin(r, k, days)
    BY <1>3, BackupAssumption DEF StartCli, Register, Fresh, TypeOK
  <2> QED
    BY <2>1, <1>1
<1>4. ASSUME NEW r \in Runs, Ready(r) PROVE saw' = saw /\ ~Walking' /\ ~Telling'
  <2>1. /\ scope[r] \in SUBSET Days /\ scope'[r] = scope[r] /\ kind'[r] = kind[r]
        /\ UNCHANGED <<files, artifact, channel>> /\ work.run = r /\ work.phase = "check"
        /\ Begin(r, kind[r], scope[r])
    BY <1>4 DEF Ready, Phased, TypeOK, request
  <2>2. row[r] # "completed"
    BY <2>1, Constants DEF PlaceInv, Over
  <2> QED
    BY <2>1, <2>2, <1>1
<1>5. saw' = saw
  <2>1. ASSUME NEW d \in Days, Rebuild(d) PROVE saw' = saw
    BY <2>1 DEF Rebuild
  <2>2. ASSUME NEW r \in Runs, NEW days \in Scopes,
               NEW k \in {"full", "incremental", "dry"}, Enqueue(r, k, days)
        PROVE  saw' = saw
    BY <2>2, <1>2
  <2>3. ASSUME NEW r \in Runs, NEW days \in Scopes,
               NEW k \in {"full", "incremental", "dry"}, StartCli(r, k, days)
        PROVE  saw' = saw
    BY <2>3, <1>3
  <2>4. ASSUME NEW r \in Runs, NEW days \in Scopes, EnqueueDisabled(r, days)
        PROVE  saw' = saw
    BY <2>4 DEF EnqueueDisabled
  <2>5. ASSUME NEW r \in Runs, NEW m \in Runs, EnqueueRestore(r, m)
        PROVE  saw' = saw
    BY <2>5 DEF EnqueueRestore
  <2>6. ASSUME NEW r \in Runs, Cancel(r) PROVE saw' = saw
    BY <2>6 DEF Cancel
  <2>7. ASSUME StopAll PROVE saw' = saw
    BY <2>7 DEF StopAll
  <2>8. ASSUME ClearLocal PROVE saw' = saw
    BY <2>8 DEF ClearLocal
  <2>9. ASSUME NEW r \in Runs, ThrowEarly(r) PROVE saw' = saw
    BY <2>9 DEF ThrowEarly, Rejected, Restarted
  <2>10. ASSUME NEW r \in Runs, NotReady(r) PROVE saw' = saw
    BY <2>10 DEF NotReady
  <2>11. ASSUME NEW r \in Runs, Ready(r) PROVE saw' = saw
    BY <2>11, <1>4
  <2>12. ASSUME NEW r \in Runs, NEW d \in Days, ReadFile(r, d)
         PROVE  saw' = saw
    BY <2>12 DEF ReadFile
  <2>13. ASSUME NEW r \in Runs, NEW d \in Days, Unreadable(r, d)
         PROVE  saw' = saw
    BY <2>13 DEF Unreadable
  <2>14. ASSUME NEW r \in Runs, NEW d \in Days, Skip(r, d) PROVE saw' = saw
    BY <2>14 DEF Skip
  <2>15. ASSUME NEW r \in Runs, NEW d \in Days, DryRun(r, d) PROVE saw' = saw
    BY <2>15 DEF DryRun
  <2>16. ASSUME NEW r \in Runs, NEW d \in Days, StartUpload(r, d)
         PROVE  saw' = saw
    BY <2>16 DEF StartUpload
  <2>17. ASSUME NEW r \in Runs, NEW d \in Days, SendPiece(r, d)
         PROVE  saw' = saw
    BY <2>17 DEF SendPiece
  <2>18. ASSUME NEW r \in Runs, NEW d \in Days, FailPiece(r, d)
         PROVE  saw' = saw
    BY <2>18 DEF FailPiece
  <2>19. ASSUME NEW r \in Runs, StartCatalogue(r) PROVE saw' = saw
    BY <2>19 DEF StartCatalogue
  <2>20. ASSUME NEW r \in Runs, CatalogueSent(r) PROVE saw' = saw
    BY <2>20 DEF CatalogueSent
  <2>21. ASSUME NEW r \in Runs, MasterSent(r) PROVE saw' = saw
    BY <2>21 DEF MasterSent
  <2>22. ASSUME NEW r \in Runs, Finish(r) PROVE saw' = saw
    BY <2>22 DEF Finish
  <2>23. ASSUME NEW r \in Runs, StopAtCheck(r) PROVE saw' = saw
    BY <2>23 DEF StopAtCheck
  <2>24. ASSUME NEW r \in Runs, Break(r) PROVE saw' = saw
    BY <2>24 DEF Break
  <2>25. ASSUME NEW r \in Runs, NEW d \in Days, RestoreDay(r, d)
         PROVE  saw' = saw
    BY <2>25 DEF RestoreDay
  <2>26. ASSUME NEW r \in Runs, NEW d \in Days, RefuseDay(r, d)
         PROVE  saw' = saw
    BY <2>26 DEF RefuseDay
  <2>27. ASSUME NEW r \in Runs, FinishRestore(r) PROVE saw' = saw
    BY <2>27 DEF FinishRestore
  <2>28. ASSUME NEW r \in Runs, StopRestore(r) PROVE saw' = saw
    BY <2>28 DEF StopRestore
  <2>29. ASSUME NEW r \in Runs, BreakRestore(r) PROVE saw' = saw
    BY <2>29 DEF BreakRestore
  <2>30. ASSUME Restart PROVE saw' = saw
    BY <2>30 DEF Restart, Restarted
  <2>31. ASSUME CliDie PROVE saw' = saw
    BY <2>31 DEF CliDie
  <2>32. CASE UNCHANGED vars
    BY <2>32 DEF vars
  <2>33. ASSUME NEW r \in Runs, NextAsset(r)
         PROVE  saw' = saw
    BY <2>33 DEF NextAsset
  <2> QED
    BY <2>1, <2>2, <2>3, <2>4, <2>5, <2>6, <2>7, <2>8, <2>9, <2>10, <2>11,
       <2>12, <2>13, <2>14, <2>15, <2>16, <2>17, <2>18, <2>19, <2>20, <2>21,
       <2>22, <2>23, <2>24, <2>25, <2>26, <2>27, <2>28, <2>29, <2>30, <2>31,
       <2>32, <2>33
       DEF Next, BackupStep, RestoreStep
<1>6. \A r \in Runs, k \in {"full", "incremental", "dry"}, days \in Scopes :
        Enqueue(r, k, days) \/ StartCli(r, k, days) => ~Walking' /\ ~Telling'
  BY <1>2, <1>3
<1>7. \A r \in Runs : Ready(r) => ~Walking' /\ ~Telling'
  BY <1>4
<1> QED
  BY <1>5, <1>6, <1>7

-----------------------------------------------------------------------------
(* The catalogues of a backup.                                             *)

LEMMA AssetInit == Init => AssetInv
<1> QED
  BY DEF Init, AssetInv, Idle, Walking, Telling

(* The run stays where it is, or in its walk.                              *)
LEMMA AssetKept ==
    ASSUME Base, AssetInv, [Next]_vars, UNCHANGED <<saw, assets, sent>>,
           work'.run = work.run, work'.groups = work.groups,
           work'.phase = work.phase \/ (Walking /\ Walking')
    PROVE  AssetInv'
<1> USE Constants DEF Base
<1>1. RequestsStay
  BY RequestsKept
<1>2. \A q \in Runs : row'[q] = "none" => assets'[q] = Nothing
  BY <1>1 DEF RequestsStay, AssetInv
<1>3. \A q \in sent' : DOMAIN saw'[q] # {} /\ DOMAIN assets'[q] = GroupsOf(DOMAIN saw'[q])
  BY DEF AssetInv
<1>4. work'.phase = "check" => assets'[work'.run] = Nothing
  BY DEF AssetInv, Walking
<1>5. ASSUME Walking' \/ Telling', kind'[work'.run] # "dry"
      PROVE  /\ Walking \/ Telling
             /\ kind[work.run] # "dry"
             /\ work'.phase = "catalogue" => work.phase = "catalogue"
  <2>1. Walking \/ Telling
    BY <1>5 DEF Walking, Telling
  <2>2. work.run \in Runs /\ row[work.run] # "none"
    BY <2>1, WorkIs DEF PlaceInv, Idle, Walking, Telling
  <2>3. kind[work.run] # "dry"
    BY <1>1, <1>5, <2>2 DEF RequestsStay
  <2> QED
    BY <2>1, <2>3 DEF Walking
<1>6. (Walking' \/ Telling') /\ kind'[work'.run] # "dry" =>
           /\ DOMAIN saw'[work'.run] # {}
           /\ work'.groups \subseteq GroupsOf(DOMAIN saw'[work'.run])
           /\ DOMAIN assets'[work'.run] = GroupsOf(DOMAIN saw'[work'.run]) \ work'.groups
           /\ work'.phase = "catalogue" => DOMAIN assets'[work'.run] # {}
  BY <1>5 DEF AssetInv
<1> QED
  BY <1>2, <1>3, <1>4, <1>6 DEF AssetInv, GroupsOf

(* No backup walks on.                                                     *)
LEMMA AssetRests ==
    ASSUME Base, AssetInv, [Next]_vars, UNCHANGED <<saw, assets, sent>>,
           ~Walking', ~Telling', work'.phase = "check" => assets[work'.run] = Nothing
    PROVE  AssetInv'
<1>1. RequestsStay
  BY RequestsKept
<1>2. \A q \in Runs : row'[q] = "none" => assets'[q] = Nothing
  BY <1>1 DEF RequestsStay, AssetInv
<1>3. \A q \in sent' : DOMAIN saw'[q] # {} /\ DOMAIN assets'[q] = GroupsOf(DOMAIN saw'[q])
  BY DEF AssetInv
<1> QED
  BY <1>2, <1>3 DEF AssetInv, GroupsOf

(* A backup begins without a catalogue.                                    *)
LEMMA AssetStarts ==
    ASSUME Base, AssetInv, [Next]_vars,
           NEW r \in Runs, NEW b \in BOOLEAN, NEW D \in SUBSET Days, Starting(r, b, D)
    PROVE  AssetInv' /\ assets'[r] = Nothing
<1> USE Constants DEF Base
<1>1. assets[r] = Nothing /\ UNCHANGED <<assets, sent>>
  BY DEF Starting, AssetInv, channel
<1>2. /\ work'.run = r /\ work'.phase = "walk" /\ work'.groups = GroupsOf(D)
      /\ DOMAIN saw'[r] = D /\ D # {} /\ \A q \in Runs : q # r => saw'[q] = saw[q]
  BY BeginsFields DEF Starting, Begins, TypeOK
<1>3. DOMAIN assets[r] = {}
  BY <1>1 DEF Nothing
<1>4. r \notin sent
  <2>1. \A q \in sent :
            DOMAIN saw[q] # {} /\ DOMAIN assets[q] = {GroupOf[d] : d \in DOMAIN saw[q]}
    BY DEF AssetInv, GroupsOf
  <2> QED
    BY <1>3, <2>1
<1>5. \A q \in Runs : row'[q] = "none" => assets'[q] = Nothing
  BY <1>1, RequestsKept DEF RequestsStay, AssetInv
<1>6. \A q \in sent' : DOMAIN saw'[q] # {} /\ DOMAIN assets'[q] = GroupsOf(DOMAIN saw'[q])
  BY <1>1, <1>2, <1>4 DEF AssetInv, TypeOK
<1> QED
  BY <1>1, <1>2, <1>3, <1>5, <1>6 DEF AssetInv, GroupsOf, Telling

(* One more group has its catalogue.                                       *)
LEMMA AssetAdded ==
    ASSUME Base, AssetInv, [Next]_vars, NEW r \in Runs, StartCatalogue(r)
    PROVE  AssetInv'
<1> USE Constants DEF Base
<1>1. /\ work.run = r /\ work.phase = "walk" /\ Walking /\ SameRun
      /\ UNCHANGED <<row, kind, saw, sent>>
  BY CatalogueStarts DEF Walking, request
<1>2. PICK g \in Groups : /\ g \in work.groups /\ work'.groups = work.groups \ {g}
                          /\ Publishes(r, g) \/ Reuses(r, g) \/ Counts(r)
  BY CatalogueStarts
<1>3. row[r] # "none" /\ work'.phase # "check"
  BY <1>1, <1>2 DEF PlaceInv, Publishes, Reuses, Counts
<1>4. CASE kind[r] = "dry"
  <2>1. assets' = assets /\ work'.phase = "walk"
    BY <1>2, <1>4 DEF Publishes, Reuses, Counts
  <2> QED
    BY <1>1, <1>4, <2>1 DEF AssetInv, GroupsOf, SameRun
<1>5. CASE kind[r] # "dry"
  <2>1. PICK c \in Catalogue : assets' = WithAsset(r, g, c)
    <3>1. CASE Publishes(r, g)
      BY <3>1, WorkIs DEF Publishes
    <3>2. CASE Reuses(r, g)
      <4>1. PICK q, h : /\ q \in Runs /\ h \in DOMAIN assets[q]
                        /\ assets' = WithAsset(r, g, assets[q][h])
        BY <3>2 DEF Reuses, First, Related, Previous, Ended, Completed
      <4>2. assets[q][h] \in Catalogue
        BY <4>1, MasterIs DEF TypeOK
      <4> QED
        BY <4>1, <4>2
    <3> QED
      BY <1>2, <1>5, <3>1, <3>2 DEF Counts
  <2>2. /\ DOMAIN assets'[r] = {g} \cup DOMAIN assets[r]
        /\ \A q \in Runs : q # r => assets'[q] = assets[q]
    BY <2>1, WithAssetIs
  <2> DEFINE seen == GroupsOf(DOMAIN saw[r])
  <2>3. /\ DOMAIN saw[r] # {} /\ work.groups \subseteq seen
        /\ DOMAIN assets[r] = seen \ work.groups
    BY <1>1, <1>5 DEF AssetInv
  <2>4. r \notin sent
    <3>1. r \in sent => DOMAIN assets[r] = seen
      BY DEF AssetInv
    <3> QED
      BY <1>2, <2>3, <3>1
  <2> HIDE DEF seen
  <2>5. /\ work'.groups \subseteq seen /\ DOMAIN assets'[r] = seen \ work'.groups
        /\ DOMAIN assets'[r] # {}
    BY <1>2, <2>2, <2>3
  <2>6. \A q \in sent' : DOMAIN saw'[q] # {} /\ DOMAIN assets'[q] = GroupsOf(DOMAIN saw'[q])
    BY <1>1, <2>2, <2>4 DEF AssetInv, TypeOK
  <2>7. \A q \in Runs : row'[q] = "none" => assets'[q] = Nothing
    BY <1>1, <1>3, <2>2 DEF AssetInv
  <2>8. work'.run = r /\ saw'[r] = saw[r]
    BY <1>1 DEF SameRun
  <2> QED
    BY <1>3, <2>3, <2>5, <2>6, <2>7, <2>8 DEF AssetInv, GroupsOf, seen
<1> QED
  BY <1>4, <1>5

LEMMA AssetStep == Base /\ PastInv /\ AssetInv /\ [Next]_vars => AssetInv'
<1> SUFFICES ASSUME Base, PastInv, AssetInv, [Next]_vars PROVE AssetInv'
  OBVIOUS
<1> USE Constants DEF Base
<1>b. ASSUME NEW r \in Runs, NEW b \in BOOLEAN, NEW D \in SUBSET Days, Starting(r, b, D)
      PROVE  AssetInv'
  BY <1>b, AssetStarts
<1>c. SUFFICES ASSUME ~\E r \in Runs, b \in BOOLEAN, D \in SUBSET Days : Starting(r, b, D)
               PROVE  AssetInv'
  BY <1>b
<1>d. saw' = saw
  BY <1>c, StartingOrNot
<1>1. ASSUME NEW d \in Days, Rebuild(d) PROVE AssetInv'
  <2>1. /\ work'.run = work.run /\ work'.groups = work.groups
        /\ work'.phase = work.phase \/ (Walking /\ Walking')
    BY <1>1 DEF Rebuild
  <2> QED
    BY <1>1, <1>d, <2>1, AssetKept DEF Rebuild, channel
<1>2. ASSUME NEW r \in Runs, NEW days \in Scopes,
             NEW k \in {"full", "incremental", "dry"}, Enqueue(r, k, days)
      PROVE  AssetInv'
  <2>1. ~Walking' /\ ~Telling' /\ UNCHANGED <<assets, sent>>
    BY <1>2, <1>c, StartingOrNot DEF Enqueue, channel
  <2>2. work'.phase = "check" => work'.run = r /\ row[r] = "none"
    <3>1. CASE k = "dry"
      BY <1>2, <3>1, BeginWork DEF Enqueue, Idle
    <3>2. CASE k # "dry"
      BY <1>2, <3>2 DEF Enqueue, Register, Fresh, Idle
    <3> QED
      BY <3>1, <3>2
  <2> QED
    BY <1>d, <2>1, <2>2, AssetRests DEF AssetInv
<1>3. ASSUME NEW r \in Runs, NEW days \in Scopes,
             NEW k \in {"full", "incremental", "dry"}, StartCli(r, k, days)
      PROVE  AssetInv'
  <2>1. ~Walking' /\ ~Telling' /\ UNCHANGED <<assets, sent>>
    BY <1>3, <1>c, StartingOrNot DEF StartCli, channel
  <2>2. work'.phase # "check"
    BY <1>3, BeginWork DEF StartCli, Idle
  <2> QED
    BY <1>d, <2>1, <2>2, AssetRests DEF AssetInv
<1>4. ASSUME NEW r \in Runs, NEW days \in Scopes, EnqueueDisabled(r, days)
      PROVE  AssetInv'
  <2>1. /\ work'.run = work.run /\ work'.groups = work.groups
        /\ work'.phase = work.phase \/ (Walking /\ Walking')
    BY <1>4 DEF EnqueueDisabled
  <2> QED
    BY <1>4, <1>d, <2>1, AssetKept DEF EnqueueDisabled, channel
<1>5. ASSUME NEW r \in Runs, NEW m \in Runs, EnqueueRestore(r, m)
      PROVE  AssetInv'
  <2>1. ~Walking' /\ ~Telling' /\ work'.phase # "check"
    BY <1>5 DEF EnqueueRestore, Idle, Walking, Telling
  <2> QED
    BY <1>5, <1>d, <2>1, AssetRests DEF EnqueueRestore, channel
<1>6. ASSUME NEW r \in Runs, Cancel(r) PROVE AssetInv'
  <2>1. /\ work'.run = work.run /\ work'.groups = work.groups
        /\ work'.phase = work.phase \/ (Walking /\ Walking')
    BY <1>6, WorkIs DEF Cancel, Work
  <2> QED
    BY <1>6, <1>d, <2>1, AssetKept DEF Cancel, channel
<1>7. ASSUME StopAll PROVE AssetInv'
  <2>1. /\ work'.run = work.run /\ work'.groups = work.groups
        /\ work'.phase = work.phase \/ (Walking /\ Walking')
    BY <1>7, WorkIs DEF StopAll, Work
  <2> QED
    BY <1>7, <1>d, <2>1, AssetKept DEF StopAll, channel
<1>8. ASSUME ClearLocal PROVE AssetInv'
  <2>1. /\ work'.run = work.run /\ work'.groups = work.groups
        /\ work'.phase = work.phase \/ (Walking /\ Walking')
    BY <1>8 DEF ClearLocal
  <2> QED
    BY <1>8, <1>d, <2>1, AssetKept DEF ClearLocal, channel
<1>9. ASSUME NEW r \in Runs, ThrowEarly(r) PROVE AssetInv'
  <2>1. ~Walking' /\ ~Telling' /\ work'.phase # "check"
    BY <1>9 DEF ThrowEarly, Rejected, Restarted, Idle, Walking, Telling
  <2> QED
    BY <1>9, <1>d, <2>1, AssetRests DEF ThrowEarly, Rejected, Restarted, channel
<1>10. ASSUME NEW r \in Runs, NotReady(r) PROVE AssetInv'
  <2>1. ~Walking' /\ ~Telling' /\ work'.phase # "check"
    BY <1>10 DEF NotReady, Idle, Walking, Telling
  <2> QED
    BY <1>10, <1>d, <2>1, AssetRests DEF NotReady, channel
<1>11. ASSUME NEW r \in Runs, Ready(r) PROVE AssetInv'
  <2>1. ~Walking' /\ ~Telling' /\ UNCHANGED <<assets, sent>>
    BY <1>11, <1>c, StartingOrNot DEF Ready, channel
  <2>2. work'.phase # "check"
    BY <1>11, BeginWork DEF Ready, Idle
  <2> QED
    BY <1>d, <2>1, <2>2, AssetRests
<1>12. ASSUME NEW r \in Runs, NEW d \in Days, ReadFile(r, d) PROVE AssetInv'
  <2>1. /\ work'.run = work.run /\ work'.groups = work.groups
        /\ work'.phase = work.phase \/ (Walking /\ Walking')
    BY <1>12, WorkIs DEF ReadFile, Phased, Walking, Work
  <2> QED
    BY <1>12, <1>d, <2>1, AssetKept DEF ReadFile, channel
<1>13. ASSUME NEW r \in Runs, NEW d \in Days, Unreadable(r, d) PROVE AssetInv'
  <2>1. /\ work'.run = work.run /\ work'.groups = work.groups
        /\ work'.phase = work.phase \/ (Walking /\ Walking')
    BY <1>13, WorkIs DEF Unreadable, Reading, Phased, Noted, Done, Walking, Work
  <2> QED
    BY <1>13, <1>d, <2>1, AssetKept DEF Unreadable, channel
<1>14. ASSUME NEW r \in Runs, NEW d \in Days, Skip(r, d) PROVE AssetInv'
  <2>1. /\ work'.run = work.run /\ work'.groups = work.groups
        /\ work'.phase = work.phase \/ (Walking /\ Walking')
    BY <1>14, WorkIs DEF Skip, Reading, Phased, Done, Walking, Work
  <2> QED
    BY <1>14, <1>d, <2>1, AssetKept DEF Skip, channel
<1>15. ASSUME NEW r \in Runs, NEW d \in Days, DryRun(r, d) PROVE AssetInv'
  <2>1. /\ work'.run = work.run /\ work'.groups = work.groups
        /\ work'.phase = work.phase \/ (Walking /\ Walking')
    BY <1>15, WorkIs DEF DryRun, Reading, Phased, Done, Walking, Work
  <2> QED
    BY <1>15, <1>d, <2>1, AssetKept DEF DryRun, channel
<1>16. ASSUME NEW r \in Runs, NEW d \in Days, StartUpload(r, d) PROVE AssetInv'
  <2>1. /\ work'.run = work.run /\ work'.groups = work.groups
        /\ work'.phase = work.phase \/ (Walking /\ Walking')
    BY <1>16, WorkIs DEF StartUpload, Reading, Phased, Walking, Work
  <2> QED
    BY <1>16, <1>d, <2>1, AssetKept DEF StartUpload, channel
<1>17. ASSUME NEW r \in Runs, NEW d \in Days, SendPiece(r, d) PROVE AssetInv'
  <2>1. /\ work'.run = work.run /\ work'.groups = work.groups
        /\ work'.phase = work.phase \/ (Walking /\ Walking')
    BY <1>17, SendEffect DEF SendPiece, Walking
  <2> QED
    BY <1>17, <1>d, <2>1, AssetKept DEF SendPiece, channel
<1>18. ASSUME NEW r \in Runs, NEW d \in Days, FailPiece(r, d) PROVE AssetInv'
  <2>1. /\ work'.run = work.run /\ work'.groups = work.groups
        /\ work'.phase = work.phase \/ (Walking /\ Walking')
    BY <1>18, WorkIs DEF FailPiece, Phased, Noted, Done, Walking, Work
  <2> QED
    BY <1>18, <1>d, <2>1, AssetKept DEF FailPiece, channel
<1>19. ASSUME NEW r \in Runs, StartCatalogue(r) PROVE AssetInv'
  BY <1>19, AssetAdded
<1>20. ASSUME NEW r \in Runs, CatalogueSent(r) PROVE AssetInv'
  <2>1. /\ work.run = r /\ work.phase = "catalogue" /\ Telling /\ SameRun
        /\ work'.groups = work.groups /\ work'.phase \in {"walk", "master"}
        /\ UNCHANGED <<row, kind, saw, assets, sent>>
    BY <1>20, CatalogueIsSent DEF Telling, request, channel
  <2> QED
    BY <2>1 DEF AssetInv, SameRun
<1>21. ASSUME NEW r \in Runs, MasterSent(r) PROVE AssetInv'
  <2>1. /\ work.run = r /\ work.phase = "master" /\ Telling
        /\ sent' = sent \cup {r} /\ work'.run = r /\ work'.phase = "final"
        /\ work'.groups = work.groups /\ UNCHANGED <<row, kind, saw, assets>>
    BY <1>21, WorkIs DEF MasterSent, Phased, Telling, request, Work
  <2>2. kind[r] # "dry" /\ work.groups = {}
    BY <2>1 DEF PlaceInv
  <2>3. DOMAIN saw[r] # {} /\ DOMAIN assets[r] = GroupsOf(DOMAIN saw[r])
    BY <2>1, <2>2 DEF AssetInv
  <2> QED
    BY <2>1, <2>2, <2>3 DEF AssetInv
<1>22. ASSUME NEW r \in Runs, Finish(r) PROVE AssetInv'
  <2>1. ~Walking' /\ ~Telling' /\ work'.phase # "check"
    BY <1>22 DEF Finish, Idle, Walking, Telling
  <2> QED
    BY <1>22, <1>d, <2>1, AssetRests DEF Finish, channel
<1>23. ASSUME NEW r \in Runs, StopAtCheck(r) PROVE AssetInv'
  <2>1. ~Walking' /\ ~Telling' /\ work'.phase # "check"
    BY <1>23 DEF StopAtCheck, Idle, Walking, Telling
  <2> QED
    BY <1>23, <1>d, <2>1, AssetRests DEF StopAtCheck, channel
<1>24. ASSUME NEW r \in Runs, Break(r) PROVE AssetInv'
  <2>1. ~Walking' /\ ~Telling' /\ work'.phase # "check"
    BY <1>24 DEF Break, Idle, Walking, Telling
  <2> QED
    BY <1>24, <1>d, <2>1, AssetRests DEF Break, channel
<1>25. ASSUME NEW r \in Runs, NEW d \in Days, RestoreDay(r, d) PROVE AssetInv'
  <2>1. /\ work'.run = work.run /\ work'.groups = work.groups
        /\ work'.phase = work.phase \/ (Walking /\ Walking')
    BY <1>25, WorkIs DEF RestoreDay, Phased, Work
  <2> QED
    BY <1>25, <1>d, <2>1, AssetKept DEF RestoreDay, channel
<1>26. ASSUME NEW r \in Runs, NEW d \in Days, RefuseDay(r, d) PROVE AssetInv'
  <2>1. /\ work'.run = work.run /\ work'.groups = work.groups
        /\ work'.phase = work.phase \/ (Walking /\ Walking')
    BY <1>26, WorkIs DEF RefuseDay, Phased, Work
  <2> QED
    BY <1>26, <1>d, <2>1, AssetKept DEF RefuseDay, channel
<1>27. ASSUME NEW r \in Runs, FinishRestore(r) PROVE AssetInv'
  <2>1. ~Walking' /\ ~Telling' /\ work'.phase # "check"
    BY <1>27 DEF FinishRestore, Idle, Walking, Telling
  <2> QED
    BY <1>27, <1>d, <2>1, AssetRests DEF FinishRestore, channel
<1>28. ASSUME NEW r \in Runs, StopRestore(r) PROVE AssetInv'
  <2>1. ~Walking' /\ ~Telling' /\ work'.phase # "check"
    BY <1>28 DEF StopRestore, Idle, Walking, Telling
  <2> QED
    BY <1>28, <1>d, <2>1, AssetRests DEF StopRestore, channel
<1>29. ASSUME NEW r \in Runs, BreakRestore(r) PROVE AssetInv'
  <2>1. ~Walking' /\ ~Telling' /\ work'.phase # "check"
    BY <1>29 DEF BreakRestore, Idle, Walking, Telling
  <2> QED
    BY <1>29, <1>d, <2>1, AssetRests DEF BreakRestore, channel
<1>30. ASSUME Restart PROVE AssetInv'
  <2>1. ~Walking' /\ ~Telling' /\ work'.phase # "check"
    BY <1>30 DEF Restart, Restarted, Idle, Walking, Telling
  <2> QED
    BY <1>30, <1>d, <2>1, AssetRests DEF Restart, Restarted, channel
<1>31. ASSUME CliDie PROVE AssetInv'
  <2>1. ~Walking' /\ ~Telling' /\ work'.phase # "check"
    BY <1>31 DEF CliDie, Idle, Walking, Telling
  <2> QED
    BY <1>31, <1>d, <2>1, AssetRests DEF CliDie, channel
<1>32. CASE UNCHANGED vars
  <2>1. /\ work'.run = work.run /\ work'.groups = work.groups
        /\ work'.phase = work.phase \/ (Walking /\ Walking')
    BY <1>32 DEF vars
  <2> QED
    BY <1>32, <1>d, <2>1, AssetKept DEF vars, channel
<1>33. ASSUME NEW r \in Runs, NextAsset(r) PROVE AssetInv'
  <2>1. ~Walking' /\ ~Telling' /\ work'.phase # "check"
    BY <1>33, AssetIsRead DEF Walking, Telling
  <2> QED
    BY <1>33, <1>d, <2>1, AssetRests DEF NextAsset, channel
<1> QED
  BY <1>1, <1>2, <1>3, <1>4, <1>5, <1>6, <1>7, <1>8, <1>9, <1>10, <1>11,
     <1>12, <1>13, <1>14, <1>15, <1>16, <1>17, <1>18, <1>19, <1>20, <1>21,
     <1>22, <1>23, <1>24, <1>25, <1>26, <1>27, <1>28, <1>29, <1>30, <1>31,
     <1>32, <1>33
     DEF Next, BackupStep, RestoreStep

(* The days that backups of one group have seen are of that group.         *)
LEMMA OneGroupSeen ==
    ASSUME Base, PastInv, Undisturbed, NEW q \in Runs, NEW r \in Runs,
           NEW d \in DOMAIN saw[q], NEW e \in DOMAIN saw[r]
    PROVE  GroupOf[d] = GroupOf[e]
<1>1. row[q] # "none" /\ row[r] # "none"
  BY DEF PastInv, Nothing
<1>2. d \in scope[q] /\ e \in scope[r] /\ scope[q] = scope[r]
  BY <1>1 DEF PastInv, Undisturbed, Calm
<1> QED
  BY <1>1, <1>2 DEF Undisturbed

(* So there is one catalogue to make.                                      *)
LEMMA OneGroupLeft ==
    ASSUME Base, PastInv, AssetInv, Undisturbed, NEW r \in Runs, work.run = r,
           Walking \/ Telling, kind[r] # "dry"
    PROVE  /\ \A g, h \in GroupsOf(DOMAIN saw[r]) : g = h
           /\ work.phase = "catalogue" => work.groups = {}
           /\ \A g \in work.groups :
                /\ work.groups = {g} /\ DOMAIN assets[r] = {}
                /\ (\A d \in work.todo : GroupOf[d] # g) => work.todo = {}
                /\ \A q \in sent : DOMAIN assets[q] = {g}
<1> DEFINE seen == GroupsOf(DOMAIN saw[r])
<1>1. \A g, h \in seen : g = h
  BY OneGroupSeen DEF GroupsOf
<1>2. /\ work.groups \subseteq seen /\ DOMAIN assets[r] = seen \ work.groups
      /\ work.phase = "catalogue" => DOMAIN assets[r] # {}
  BY DEF AssetInv
<1>3. work.phase = "catalogue" => work.groups = {}
  BY <1>1, <1>2
<1>4. ASSUME NEW g \in work.groups
      PROVE  /\ work.groups = {g} /\ DOMAIN assets[r] = {}
             /\ (\A d \in work.todo : GroupOf[d] # g) => work.todo = {}
             /\ \A q \in sent : DOMAIN assets[q] = {g}
  <2>1. work.groups = {g} /\ DOMAIN assets[r] = {}
    BY <1>1, <1>2
  <2>2. \A d \in work.todo : GroupOf[d] = g
    BY <2>1 DEF Base, PlaceInv
  <2>3. ASSUME NEW q \in sent PROVE DOMAIN assets[q] = {g}
    <3>1. q \in Runs /\ DOMAIN saw[q] # {} /\ DOMAIN assets[q] = GroupsOf(DOMAIN saw[q])
      BY DEF AssetInv, Base, TypeOK
    <3>2. PICK e \in DOMAIN saw[r] : g = GroupOf[e]
      BY <1>2 DEF GroupsOf
    <3>3. \A d \in DOMAIN saw[q] : GroupOf[d] = g
      BY <3>1, <3>2, OneGroupSeen
    <3> QED
      BY <3>1, <3>3 DEF GroupsOf
  <2> QED
    BY <2>1, <2>2, <2>3
<1> QED
  BY <1>1, <1>3, <1>4

-----------------------------------------------------------------------------
(* What is known of the channel.                                           *)

(* A file that is known afterwards was known before, by its first piece.   *)
StaysKnownFirst(d) ==
    (0 \in Uploaded(d))' => 0 \in Uploaded(d) /\ artifact'[d][0] = artifact[d][0]

LEMMA KnownInit == Init => KnownInv
<1> QED
  BY Constants DEF Init, KnownInv, Uploaded, NoArtifact, Nothing

LEMMA KnownStep == Base /\ PastInv /\ KnownInv /\ [Next]_vars => KnownInv'
<1> SUFFICES ASSUME Base, PastInv, KnownInv, [Next]_vars, Undisturbed'
             PROVE  /\ \A d \in Days : lake'[d] = newest'[d]
                    /\ \A d \in Days, q \in Runs :
                           (0 \in Uploaded(d))' =>
                               /\ artifact'[d][0].version \in 1 .. lake'[d]
                               /\ row'[q] # "none" => d \in scope'[q]
                    /\ \A q \in Runs : \A d \in DOMAIN saw'[q] : saw'[q][d] <= lake'[d]
  BY DEF KnownInv
<1> USE Constants, BackupAssumption DEF Base
<1>1. Undisturbed /\ RequestsStay
  BY UndisturbedBefore, RequestsKept
<1>2. /\ \A d \in Days : lake[d] = newest[d] /\ lake[d] \in Nat /\ lake'[d] \in Nat
      /\ \A q \in Runs : \A d \in DOMAIN saw[q] :
             saw[q][d] <= lake[d] /\ saw[q][d] \in 1 .. MaxVersion /\ d \in Days
  <2>1. \A q \in Runs : saw[q] \in Manifest
    BY DEF TypeOK
  <2>2. TypeOK'
    BY BaseStep
  <2>3. \A d \in Days : lake[d] \in Nat /\ lake'[d] \in Nat
    BY <2>2 DEF TypeOK
  <2> QED
    BY <1>1, <2>1, <2>3, ManifestIs DEF KnownInv
<1>3. \A d \in Days : lake'[d] = newest'[d] /\ lake[d] <= lake'[d]
  <2>1. CASE UNCHANGED files
    BY <1>2, <2>1 DEF files
  <2>2. ASSUME NEW d \in Days, Rebuild(d)
        PROVE  \A e \in Days : lake'[e] = newest'[e] /\ lake[e] <= lake'[e]
    BY <1>2, <2>2 DEF Rebuild, TypeOK
  <2>3. ASSUME NEW r \in Runs, NEW d \in Days, RestoreDay(r, d) PROVE FALSE
    BY <2>3, Troubled
  <2> QED
    BY <2>1, <2>2, <2>3, LakeStays
<1>4. ASSUME NEW d \in Days, (0 \in Uploaded(d))', StaysKnownFirst(d), NEW q \in Runs
      PROVE  /\ artifact'[d][0].version \in 1 .. lake'[d]
             /\ row'[q] # "none" => d \in scope'[q]
  <2>1. 0 \in Uploaded(d) /\ artifact'[d][0] = artifact[d][0]
    BY <1>4 DEF StaysKnownFirst
  <2>2. artifact[d][0].version \in 1 .. lake[d]
    BY <1>1, <2>1 DEF KnownInv
  <2>3. artifact'[d][0].version \in 1 .. lake'[d]
    BY <1>2, <1>3, <2>1, <2>2
  <2>4. PICK p \in Runs : p = artifact[d][0].run /\ row[p] # "none"
    <3>1. artifact[d][0].run # NoRun
      BY <2>1 DEF Uploaded
    <3>2. artifact[d][0].run \in Runs
      BY <3>1 DEF TypeOK, Artifact
    <3> QED
      BY <3>2 DEF PastInv, HasArtifact
  <2>5. d \in scope[p] /\ scope'[p] = scope[p] /\ row'[p] # "none"
    BY <1>1, <2>1, <2>4 DEF KnownInv, RequestsStay
  <2>6. row'[q] # "none" => scope'[q] = scope'[p]
    BY <2>5 DEF Undisturbed, Calm
  <2> QED
    BY <2>3, <2>5, <2>6
<1>5. \A d \in Days, q \in Runs :
        (0 \in Uploaded(d))' => /\ artifact'[d][0].version \in 1 .. lake'[d]
                                /\ row'[q] # "none" => d \in scope'[q]
  <2>1. CASE \A d \in Days : StaysKnown(d)
    BY <1>4, <2>1 DEF StaysKnown, StaysKnownFirst
  <2>2. ASSUME NEW r \in Runs, NEW d \in Days, SendPiece(r, d), (0 \in Uploaded(d))',
               NEW q \in Runs
        PROVE  /\ artifact'[d][0].version \in 1 .. lake'[d]
               /\ row'[q] # "none" => d \in scope'[q]
    <3>1. CASE work.piece = 0
      <4>0. artifact'[d][0] = Sent(r, d)
        <5>1. artifact'[d][work.piece] = Sent(r, d)
          BY <2>2, PieceSent
        <5> QED
          BY <3>1, <5>1
      <4>1. work.run = r /\ d \in work.todo /\ Walking
        BY <2>2, SendEffect DEF Walking
      <4>2. d \in DOMAIN saw[r] /\ row[r] # "none"
        BY <4>1 DEF PlaceInv
      <4>3. saw[r][d] \in 1 .. lake'[d]
        BY <1>2, <1>3, <4>2
      <4>4. d \in scope[r] /\ scope'[r] = scope[r] /\ row'[r] # "none"
        BY <1>1, <4>2 DEF PastInv, RequestsStay
      <4> QED
        BY <4>0, <4>3, <4>4 DEF Sent, Undisturbed, Calm
    <3>2. CASE work.piece # 0
      <4>1. artifact'[d][0] = artifact[d][0] /\ StaysKnownFirst(d)
        BY <2>2, <3>2, PieceSent DEF StaysKnownFirst, Uploaded
      <4> QED
        BY <4>1, <2>2, <1>4
    <3> QED
      BY <3>1, <3>2
  <2>3. ASSUME NEW r \in Runs, NEW e \in Days, SendPiece(r, e), NEW d \in Days, d # e,
               (0 \in Uploaded(d))', NEW q \in Runs
        PROVE  /\ artifact'[d][0].version \in 1 .. lake'[d]
               /\ row'[q] # "none" => d \in scope'[q]
    BY <2>3, <1>4, PieceSent DEF StaysKnown, StaysKnownFirst
  <2> QED
    BY <2>1, <2>2, <2>3, KnownStays
<1>6. \A q \in Runs : \A d \in DOMAIN saw'[q] : saw'[q][d] <= lake'[d]
  <2>1. CASE saw' = saw
    <3>1. ASSUME NEW q \in Runs, NEW d \in DOMAIN saw[q] PROVE saw[q][d] <= lake'[d]
      <4>1. d \in Days /\ saw[q][d] \in Nat /\ saw[q][d] <= lake[d]
        BY <1>2
      <4> QED
        BY <1>2, <1>3, <4>1
    <3> QED
      BY <2>1, <3>1
  <2>2. ASSUME NEW r \in Runs, NEW b \in BOOLEAN, NEW D \in SUBSET Days, Starting(r, b, D)
        PROVE  \A q \in Runs : \A d \in DOMAIN saw'[q] : saw'[q][d] <= lake'[d]
    <3>1. saw' = [saw EXCEPT ![r] = [d \in D |-> lake[d]]] /\ lake' = lake
      BY <2>2 DEF Starting, Begins, files
    <3>2. DOMAIN saw = Runs
      BY DEF TypeOK
    <3>3. ASSUME NEW q \in Runs, NEW d \in DOMAIN saw'[q] PROVE saw'[q][d] <= lake'[d]
      <4>1. CASE q = r
        <5>1. d \in D /\ saw'[q][d] = lake[d]
          BY <3>1, <3>2, <3>3, <4>1
        <5> QED
          BY <1>2, <3>1, <5>1
      <4>2. CASE q # r
        <5>1. saw'[q] = saw[q]
          BY <3>1, <3>2, <4>2
        <5> QED
          BY <1>2, <3>1, <3>3, <5>1
      <4> QED
        BY <4>1, <4>2
    <3> QED
      BY <3>3
  <2> QED
    BY <2>1, <2>2, StartingOrNot
<1> QED
  BY <1>3, <1>5, <1>6

(* The sending of d is where it was.                                       *)
SendingKept(d) ==
    /\ Sending(d)' <=> Sending(d)
    /\ Sending(d) => work'.run = work.run /\ work'.piece = work.piece /\ saw' = saw

LEMMA SendingStays ==
    ASSUME Base, [Next]_vars, Undisturbed', NEW e \in Days, (0 \in Uploaded(e))',
           ~\E r \in Runs, d \in Days : SendPiece(r, d)
    PROVE  SendingKept(e)
<1> USE Constants DEF Base
<1>1. ASSUME NEW d \in Days, Rebuild(d) PROVE SendingKept(e)
  BY <1>1 DEF Rebuild, SendingKept, Sending
<1>2. ASSUME NEW r \in Runs, NEW days \in Scopes,
             NEW k \in {"full", "incremental", "dry"}, Enqueue(r, k, days)
      PROVE  SendingKept(e)
  <2>1. work.phase # "send"
    BY <1>2 DEF Enqueue, Register, PlaceInv, Idle
  <2>2. work'.phase # "send"
    <3>1. CASE Begin(r, k, days)
      BY <3>1, BeginWork DEF Idle
    <3>2. CASE ~Begin(r, k, days)
      BY <1>2, <3>2 DEF Enqueue, Idle
    <3> QED
      BY <3>1, <3>2
  <2> QED
    BY <2>1, <2>2 DEF SendingKept, Sending
<1>3. ASSUME NEW r \in Runs, NEW days \in Scopes,
             NEW k \in {"full", "incremental", "dry"}, StartCli(r, k, days)
      PROVE  SendingKept(e)
  <2>1. work.phase # "send"
    BY <1>3 DEF StartCli, Register, PlaceInv, Idle
  <2>2. work'.phase # "send"
    <3>1. CASE Begin(r, k, days)
      BY <3>1, BeginWork DEF Idle
    <3>2. CASE ~Begin(r, k, days)
      BY <1>3, <3>2 DEF StartCli, Idle
    <3> QED
      BY <3>1, <3>2
  <2> QED
    BY <2>1, <2>2 DEF SendingKept, Sending
<1>4. ASSUME NEW r \in Runs, NEW days \in Scopes, EnqueueDisabled(r, days)
      PROVE  SendingKept(e)
  BY <1>4 DEF EnqueueDisabled, SendingKept, Sending
<1>5. ASSUME NEW r \in Runs, NEW m \in Runs, EnqueueRestore(r, m)
      PROVE  SendingKept(e)
  BY <1>5, Troubled
<1>6. ASSUME NEW r \in Runs, Cancel(r) PROVE SendingKept(e)
  <2>1. /\ work'.phase = work.phase /\ work'.doing = work.doing /\ work'.run = work.run
        /\ work'.piece = work.piece /\ saw' = saw
    BY <1>6, WorkIs DEF Cancel, Work
  <2> QED
    BY <2>1 DEF SendingKept, Sending
<1>7. ASSUME StopAll PROVE SendingKept(e)
  <2>1. /\ work'.phase = work.phase /\ work'.doing = work.doing /\ work'.run = work.run
        /\ work'.piece = work.piece /\ saw' = saw
    BY <1>7, WorkIs DEF StopAll, Work
  <2> QED
    BY <2>1 DEF SendingKept, Sending
<1>8. ASSUME ClearLocal PROVE SendingKept(e)
  <2>1. /\ work'.phase = work.phase /\ work'.doing = work.doing /\ work'.run = work.run
        /\ work'.piece = work.piece /\ saw' = saw
    BY <1>8, WorkIs DEF ClearLocal, Work
  <2> QED
    BY <2>1 DEF SendingKept, Sending
<1>9. ASSUME NEW r \in Runs, ThrowEarly(r) PROVE SendingKept(e)
  <2>1. work.phase # "send" /\ work'.phase # "send"
    BY <1>9 DEF ThrowEarly, Rejected, Restarted, Phased, Idle
  <2> QED
    BY <2>1 DEF SendingKept, Sending
<1>10. ASSUME NEW r \in Runs, NotReady(r) PROVE SendingKept(e)
  <2>1. work.phase # "send" /\ work'.phase # "send"
    BY <1>10 DEF NotReady, Phased, Idle
  <2> QED
    BY <2>1 DEF SendingKept, Sending
<1>11. ASSUME NEW r \in Runs, Ready(r) PROVE SendingKept(e)
  <2>1. work.phase # "send" /\ work'.phase # "send"
    BY <1>11, BeginWork DEF Ready, Phased, Idle
  <2> QED
    BY <2>1 DEF SendingKept, Sending
<1>12. ASSUME NEW r \in Runs, NEW d \in Days, ReadFile(r, d)
       PROVE  SendingKept(e)
  <2>1. work.phase # "send" /\ work'.phase # "send"
    BY <1>12, WorkIs DEF ReadFile, Phased, Reading, Done, Noted, Work
  <2> QED
    BY <2>1 DEF SendingKept, Sending
<1>13. ASSUME NEW r \in Runs, NEW d \in Days, Unreadable(r, d)
       PROVE  SendingKept(e)
  <2>1. work.phase # "send" /\ work'.phase # "send"
    BY <1>13, WorkIs DEF Unreadable, Phased, Reading, Done, Noted, Work
  <2> QED
    BY <2>1 DEF SendingKept, Sending
<1>14. ASSUME NEW r \in Runs, NEW d \in Days, Skip(r, d) PROVE SendingKept(e)
  BY <1>14, SkipEffect DEF SendingKept, Sending
<1>15. ASSUME NEW r \in Runs, NEW d \in Days, DryRun(r, d) PROVE SendingKept(e)
  <2>1. work.phase # "send" /\ work'.phase # "send"
    BY <1>15, WorkIs DEF DryRun, Phased, Reading, Done, Noted, Work
  <2> QED
    BY <2>1 DEF SendingKept, Sending
<1>16. ASSUME NEW r \in Runs, NEW d \in Days, StartUpload(r, d)
       PROVE  SendingKept(e)
  <2>1. e # d
    BY <1>16, UploadEffect
  <2> QED
    BY <1>16, <2>1, UploadEffect DEF SendingKept, Sending
<1>17. ASSUME NEW r \in Runs, NEW d \in Days, SendPiece(r, d)
       PROVE  SendingKept(e)
  BY <1>17
<1>18. ASSUME NEW r \in Runs, NEW d \in Days, FailPiece(r, d)
       PROVE  SendingKept(e)
  BY <1>18, Troubled
<1>19. ASSUME NEW r \in Runs, StartCatalogue(r) PROVE SendingKept(e)
  BY <1>19, StartCatalogueEffect DEF SendingKept, Sending
<1>20. ASSUME NEW r \in Runs, CatalogueSent(r) PROVE SendingKept(e)
  <2>1. work.phase # "send" /\ work'.phase # "send"
    BY <1>20, WorkIs DEF CatalogueSent, Onward, Phased, Reading, Done, Noted, Work
  <2> QED
    BY <2>1 DEF SendingKept, Sending
<1>21. ASSUME NEW r \in Runs, MasterSent(r) PROVE SendingKept(e)
  <2>1. work.phase # "send" /\ work'.phase # "send"
    BY <1>21, WorkIs DEF MasterSent, Phased, Reading, Done, Noted, Work
  <2> QED
    BY <2>1 DEF SendingKept, Sending
<1>22. ASSUME NEW r \in Runs, Finish(r) PROVE SendingKept(e)
  <2>1. work.phase # "send" /\ work'.phase # "send"
    BY <1>22 DEF Finish, Phased, Idle
  <2> QED
    BY <2>1 DEF SendingKept, Sending
<1>23. ASSUME NEW r \in Runs, StopAtCheck(r) PROVE SendingKept(e)
  <2>1. work.phase # "send" /\ work'.phase # "send"
    BY <1>23 DEF StopAtCheck, Phased, Idle
  <2> QED
    BY <2>1 DEF SendingKept, Sending
<1>24. ASSUME NEW r \in Runs, Break(r) PROVE SendingKept(e)
  BY <1>24, Troubled
<1>25. ASSUME NEW r \in Runs, NEW d \in Days, RestoreDay(r, d)
       PROVE  SendingKept(e)
  BY <1>25, Troubled
<1>26. ASSUME NEW r \in Runs, NEW d \in Days, RefuseDay(r, d)
       PROVE  SendingKept(e)
  BY <1>26, Troubled
<1>27. ASSUME NEW r \in Runs, FinishRestore(r) PROVE SendingKept(e)
  BY <1>27, Troubled
<1>28. ASSUME NEW r \in Runs, StopRestore(r) PROVE SendingKept(e)
  BY <1>28, Troubled
<1>29. ASSUME NEW r \in Runs, BreakRestore(r) PROVE SendingKept(e)
  BY <1>29, Troubled
<1>30. ASSUME Restart PROVE SendingKept(e)
  BY <1>30, Crashed
<1>31. ASSUME CliDie PROVE SendingKept(e)
  BY <1>31, Crashed
<1>32. CASE UNCHANGED vars
  BY <1>32 DEF vars, SendingKept, Sending
<1>33. ASSUME NEW r \in Runs, NextAsset(r)
       PROVE  SendingKept(e)
  BY <1>33, Troubled
<1> QED
  BY <1>1, <1>2, <1>3, <1>4, <1>5, <1>6, <1>7, <1>8, <1>9, <1>10, <1>11,
     <1>12, <1>13, <1>14, <1>15, <1>16, <1>17, <1>18, <1>19, <1>20, <1>21,
     <1>22, <1>23, <1>24, <1>25, <1>26, <1>27, <1>28, <1>29, <1>30, <1>31,
     <1>32, <1>33
     DEF Next, BackupStep, RestoreStep

LEMMA WholeInit == Init => WholeInv
<1> QED
  BY Constants DEF Init, WholeInv, Uploaded, NoArtifact

LEMMA WholeStep == Base /\ WholeInv /\ [Next]_vars => WholeInv'
<1> SUFFICES ASSUME Base, WholeInv, [Next]_vars, Undisturbed',
                    NEW e \in Days, (0 \in Uploaded(e))'
             PROVE  IF Sending(e)'
                    THEN \A c \in Chunks :
                            c < work'.piece => artifact'[e][c] = Sent(work.run, e)'
                    ELSE \A c \in Chunks : artifact'[e][c] = artifact'[e][0]
  BY DEF WholeInv
<1> USE Constants DEF Base
<1>1. Undisturbed
  BY UndisturbedBefore
<1>2. 0 \in Uploaded(e) =>
        IF Sending(e)
        THEN \A c \in Chunks : c < work.piece => artifact[e][c] = Sent(work.run, e)
        ELSE \A c \in Chunks : artifact[e][c] = artifact[e][0]
  BY <1>1 DEF WholeInv
<1>3. CASE ~\E r \in Runs, d \in Days : SendPiece(r, d)
  <2>1. SendingKept(e)
    BY <1>3, SendingStays
  <2>2. /\ 0 \in Uploaded(e) /\ artifact'[e][0] = artifact[e][0]
        /\ \A c \in Chunks : artifact[e][c].run = artifact[e][0].run
               => artifact'[e][c] = artifact[e][c]
    BY <1>3, KnownStays DEF StaysKnown
  <2>3. CASE Sending(e)
    <3>1. /\ Sending(e)' /\ work'.piece = work.piece /\ work'.run = work.run /\ saw' = saw
      BY <2>1, <2>3 DEF SendingKept
    <3>2. \A c \in Chunks : c < work.piece =>
            /\ artifact[e][c] = Sent(work.run, e)
            /\ artifact[e][0] = Sent(work.run, e)
      <4>1. \A c \in Chunks : c < work.piece => 0 < work.piece
        BY WorkIs, BackupAssumption DEF Chunks
      <4> QED
        BY <1>2, <2>2, <2>3, <4>1
    <3>3. \A c \in Chunks : c < work.piece => artifact'[e][c] = Sent(work.run, e)
      BY <2>2, <3>2 DEF Sent
    <3> QED
      BY <3>1, <3>3 DEF Sent
  <2>4. CASE ~Sending(e)
    <3>1. \A c \in Chunks : artifact'[e][c] = artifact'[e][0]
      BY <1>2, <2>2, <2>4
    <3> QED
      BY <2>1, <2>4, <3>1 DEF SendingKept
  <2> QED
    BY <2>3, <2>4
<1>4. ASSUME NEW r \in Runs, NEW d \in Days, SendPiece(r, d), e # d
      PROVE  \A c \in Chunks : artifact'[e][c] = artifact'[e][0] /\ ~Sending(e)'
  <2>1. work.doing = {d} /\ work'.doing \in {{d}, {}}
    BY <1>4, SendEffect
  <2>2. ~Sending(e) /\ ~Sending(e)'
    BY <1>4, <2>1 DEF Sending
  <2>3. artifact'[e] = artifact[e]
    BY <1>4, PieceSent
  <2> QED
    BY <1>2, <2>2, <2>3 DEF Uploaded
<1>5. ASSUME NEW r \in Runs, SendPiece(r, e)
      PROVE  IF Sending(e)'
             THEN \A c \in Chunks : c < work'.piece => artifact'[e][c] = Sent(work.run, e)'
             ELSE \A c \in Chunks : artifact'[e][c] = artifact'[e][0]
  <2>1. work.run = r /\ work'.run = r /\ Sending(e) /\ saw' = saw
    BY <1>5, SendEffect DEF Sending, SendPiece
  <2>2. /\ artifact'[e][work.piece] = Sent(r, e)
        /\ \A c \in Chunks : c # work.piece => artifact'[e][c] = artifact[e][c]
        /\ work.piece \in Chunks
    BY <1>5, PieceSent, WorkIs
  <2>3. \A c \in Chunks : c < work.piece => artifact[e][c] = Sent(r, e)
    <3>1. CASE work.piece = 0
      BY <3>1 DEF Chunks
    <3>2. CASE work.piece # 0
      <4>1. artifact'[e][0] = artifact[e][0]
        BY <2>2, <3>2
      <4>2. 0 \in Uploaded(e)
        BY <4>1 DEF Uploaded
      <4> QED
        BY <1>2, <2>1, <4>2
    <3> QED
      BY <3>1, <3>2
  <2>4. \A c \in Chunks : c < work.piece + 1 => artifact'[e][c] = Sent(r, e)
    <3>1. \A c \in Chunks : c < work.piece + 1 => c < work.piece \/ c = work.piece
      BY <2>2 DEF Chunks
    <3> QED
      BY <2>2, <2>3, <3>1
  <2>5. CASE Sending(e)'
    <3>1. work'.piece = work.piece + 1
      BY <1>5, <2>5, SendEffect DEF Sending
    <3> QED
      BY <2>1, <2>4, <2>5, <3>1 DEF Sent
  <2>6. CASE ~Sending(e)'
    <3>1. work.piece + 1 = Pieces
      BY <1>5, <2>6, SendEffect DEF Sending, LastPiece
    <3>2. \A c \in Chunks : c < work.piece + 1
      BY <3>1, <2>2, BackupAssumption DEF Chunks
    <3> QED
      BY <2>4, <2>6, <3>2
  <2> QED
    BY <2>5, <2>6
<1> QED
  BY <1>3, <1>4, <1>5

(* Only the end of a backup completes one of those whose master is in   *)
(* the channel.                                                            *)
LEMMA EndedSame ==
    ASSUME sent' = sent,
           \A q \in Runs : row'[q] = "completed" <=> row[q] = "completed"
    PROVE  Ended' = Ended
<1> QED
  BY DEF Ended, Completed

LEMMA EndedStays ==
    Base /\ PastInv /\ [Next]_vars =>
        \/ \E r \in Runs : Finish(r) /\ kind[r] # "dry"
        \/ Ended' \in {Ended, {}}
<1> SUFFICES ASSUME Base, PastInv, [Next]_vars,
                    ~\E r \in Runs : Finish(r) /\ kind[r] # "dry"
             PROVE  Ended' \in {Ended, {}}
  OBVIOUS
<1> USE Constants DEF Base
<1>0. \A r \in Runs : work.run = r => row[r] # "completed"
  BY DEF PlaceInv, Over
<1>1. ASSUME NEW d \in Days, Rebuild(d) PROVE Ended' \in {Ended, {}}
  BY <1>1, EndedSame DEF Rebuild, channel
<1>2. ASSUME NEW r \in Runs, NEW days \in Scopes,
             NEW k \in {"full", "incremental", "dry"}, Enqueue(r, k, days)
      PROVE  Ended' \in {Ended, {}}
  <2>1. sent' = sent /\ \A q \in Runs : q # r => row'[q] = row[q]
    BY <1>2, BeginRow DEF Enqueue, Register, SetRow, TypeOK, channel
  <2>2. row'[r] # "completed" /\ row[r] # "completed"
    BY <1>2, <2>1, BeginRow DEF Enqueue, Register, Fresh, SetRow, TypeOK
  <2> QED
    BY <2>1, <2>2, EndedSame
<1>3. ASSUME NEW r \in Runs, NEW days \in Scopes,
             NEW k \in {"full", "incremental", "dry"}, StartCli(r, k, days)
      PROVE  Ended' \in {Ended, {}}
  <2>1. sent' = sent /\ \A q \in Runs : q # r => row'[q] = row[q]
    BY <1>3, BeginRow DEF StartCli, Register, SetRow, TypeOK, channel
  <2>2. row'[r] # "completed" /\ row[r] # "completed"
    BY <1>3, <2>1, BeginRow DEF StartCli, Register, Fresh, SetRow, TypeOK
  <2> QED
    BY <2>1, <2>2, EndedSame
<1>4. ASSUME NEW r \in Runs, NEW days \in Scopes, EnqueueDisabled(r, days)
      PROVE  Ended' \in {Ended, {}}
  <2>1. /\ sent' = sent /\ row[r] = "none"
        /\ row' = [row EXCEPT ![r] = "queued"] \/ row' = [row EXCEPT ![r] = "running"]
    BY <1>4 DEF EnqueueDisabled, Register, Fresh, channel
  <2> QED
    BY <2>1, EndedSame DEF TypeOK
<1>5. ASSUME NEW r \in Runs, NEW m \in Runs, EnqueueRestore(r, m)
      PROVE  Ended' \in {Ended, {}}
  <2>1. /\ sent' = sent /\ row[r] = "none"
        /\ row' = [row EXCEPT ![r] = "queued"] \/ row' = [row EXCEPT ![r] = "running"]
    BY <1>5 DEF EnqueueRestore, Register, Fresh, channel
  <2> QED
    BY <2>1, EndedSame DEF TypeOK
<1>6. ASSUME NEW r \in Runs, Cancel(r) PROVE Ended' \in {Ended, {}}
  <2>1. sent' = sent
    BY <1>6 DEF Cancel, channel
  <2>2. CASE CancelRecords({r})
    BY <1>6, <1>0, <2>1, <2>2, RecordsGone, EndedSame DEF Cancel, ActiveRuns, Open, Phased
  <2> QED
    BY <1>6, <2>2 DEF Cancel
<1>7. ASSUME StopAll PROVE Ended' \in {Ended, {}}
  <2>1. sent' = sent
    BY <1>7 DEF StopAll, channel
  <2>2. CASE Clear
    BY <1>7, <1>0, <2>1, <2>2, EndedSame DEF Clear, Ended, Completed
  <2>3. CASE CancelRecords(ActiveRuns)
    BY <1>7, <1>0, <2>1, <2>3, RecordsGone, EndedSame DEF ActiveRuns, Open
  <2> QED
    BY <1>7, <2>2, <2>3 DEF StopAll
<1>8. ASSUME ClearLocal PROVE Ended' \in {Ended, {}}
  <2>1. sent' = sent
    BY <1>8 DEF ClearLocal, channel
  <2>2. CASE Clear
    BY <1>8, <1>0, <2>1, <2>2, EndedSame DEF Clear, Ended, Completed
  <2>3. CASE UNCHANGED <<row, artifact>>
    BY <1>8, <1>0, <2>1, <2>3, EndedSame DEF Ended
  <2> QED
    BY <1>8, <2>2, <2>3 DEF ClearLocal
<1>9. ASSUME NEW r \in Runs, ThrowEarly(r) PROVE Ended' \in {Ended, {}}
  <2>1. sent' = sent
    BY <1>9 DEF ThrowEarly, Rejected, Restarted, channel
  <2>2. CASE CancelRecords(ActiveRuns)
    BY <1>9, <1>0, <2>1, <2>2, RecordsGone, EndedSame DEF ActiveRuns, Open
  <2>3. CASE UNCHANGED <<row, artifact>>
    BY <1>9, <1>0, <2>1, <2>3, EndedSame DEF Ended
  <2> QED
    BY <1>9, <2>2, <2>3 DEF ThrowEarly, Rejected, Restarted
<1>10. ASSUME NEW r \in Runs, NotReady(r) PROVE Ended' \in {Ended, {}}
  <2>1. sent' = sent /\ row' = SetRow(row, r, "failed") /\ row[r] # "completed"
    BY <1>10, <1>0 DEF NotReady, Phased, channel
  <2> QED
    BY <2>1, EndedSame DEF TypeOK, SetRow
<1>11. ASSUME NEW r \in Runs, Ready(r) PROVE Ended' \in {Ended, {}}
  <2>1. /\ sent' = sent /\ row[r] # "completed"
        /\ row' = SetRow(row, r, "failed") \/ row' = SetRow(row, r, "running")
    BY <1>11, <1>0, BeginRow DEF Ready, Phased, channel
  <2> QED
    BY <2>1, EndedSame DEF TypeOK, SetRow
<1>12. ASSUME NEW r \in Runs, NEW d \in Days, ReadFile(r, d)
       PROVE  Ended' \in {Ended, {}}
  BY <1>12, EndedSame DEF ReadFile, channel
<1>13. ASSUME NEW r \in Runs, NEW d \in Days, Unreadable(r, d)
       PROVE  Ended' \in {Ended, {}}
  BY <1>13, EndedSame DEF Unreadable, channel
<1>14. ASSUME NEW r \in Runs, NEW d \in Days, Skip(r, d) PROVE Ended' \in {Ended, {}}
  BY <1>14, EndedSame DEF Skip, channel
<1>15. ASSUME NEW r \in Runs, NEW d \in Days, DryRun(r, d) PROVE Ended' \in {Ended, {}}
  BY <1>15, EndedSame DEF DryRun, channel
<1>16. ASSUME NEW r \in Runs, NEW d \in Days, StartUpload(r, d)
       PROVE  Ended' \in {Ended, {}}
  BY <1>16, EndedSame DEF StartUpload, channel
<1>17. ASSUME NEW r \in Runs, NEW d \in Days, SendPiece(r, d)
       PROVE  Ended' \in {Ended, {}}
  BY <1>17, EndedSame DEF SendPiece, channel
<1>18. ASSUME NEW r \in Runs, NEW d \in Days, FailPiece(r, d)
       PROVE  Ended' \in {Ended, {}}
  BY <1>18, EndedSame DEF FailPiece, channel
<1>19. ASSUME NEW r \in Runs, StartCatalogue(r) PROVE Ended' \in {Ended, {}}
  BY <1>19, EndedSame DEF StartCatalogue, channel
<1>20. ASSUME NEW r \in Runs, CatalogueSent(r) PROVE Ended' \in {Ended, {}}
  BY <1>20, EndedSame DEF CatalogueSent, channel
<1>21. ASSUME NEW r \in Runs, MasterSent(r) PROVE Ended' \in {Ended, {}}
  <2>1. row' = row /\ sent' = sent \cup {r} /\ row[r] # "completed"
    BY <1>21, <1>0 DEF MasterSent, Phased
  <2> QED
    BY <2>1 DEF Ended, Completed
<1>22. ASSUME NEW r \in Runs, Finish(r) PROVE Ended' \in {Ended, {}}
  <2>1. /\ sent' = sent /\ kind[r] \notin {"full", "incremental"}
        /\ row' = SetRow(row, r, "failed") \/ row' = SetRow(row, r, "completed")
    BY <1>22 DEF Finish, Phased, channel, PlaceInv, Telling
  <2>2. r \notin sent
    BY <2>1 DEF PastInv
  <2> QED
    BY <2>1, <2>2 DEF Ended, Completed, TypeOK, SetRow
<1>23. ASSUME NEW r \in Runs, StopAtCheck(r) PROVE Ended' \in {Ended, {}}
  <2>1. sent' = sent
    BY <1>23 DEF StopAtCheck, channel
  <2>2. CASE CancelRecords({r})
    BY <1>23, <1>0, <2>1, <2>2, RecordsGone, EndedSame DEF StopAtCheck, ActiveRuns, Open, Phased
  <2> QED
    BY <1>23, <2>2 DEF StopAtCheck
<1>24. ASSUME NEW r \in Runs, Break(r) PROVE Ended' \in {Ended, {}}
  <2>1. sent' = sent /\ row' = SetRow(row, r, "failed") /\ row[r] # "completed"
    BY <1>24, <1>0 DEF Break, Phased, channel
  <2> QED
    BY <2>1, EndedSame DEF TypeOK, SetRow
<1>25. ASSUME NEW r \in Runs, NEW d \in Days, RestoreDay(r, d)
       PROVE  Ended' \in {Ended, {}}
  BY <1>25, EndedSame DEF RestoreDay, channel
<1>26. ASSUME NEW r \in Runs, NEW d \in Days, RefuseDay(r, d)
       PROVE  Ended' \in {Ended, {}}
  BY <1>26, EndedSame DEF RefuseDay, channel
<1>27. ASSUME NEW r \in Runs, FinishRestore(r) PROVE Ended' \in {Ended, {}}
  <2>1. /\ sent' = sent /\ kind[r] \notin {"full", "incremental"}
        /\ row' = SetRow(row, r, "failed") \/ row' = SetRow(row, r, "completed")
    BY <1>27 DEF FinishRestore, Phased, channel, PlaceInv, Telling
  <2>2. r \notin sent
    BY <2>1 DEF PastInv
  <2> QED
    BY <2>1, <2>2 DEF Ended, Completed, TypeOK, SetRow
<1>28. ASSUME NEW r \in Runs, StopRestore(r) PROVE Ended' \in {Ended, {}}
  <2>1. sent' = sent
    BY <1>28 DEF StopRestore, channel
  <2>2. CASE CancelRecords({r})
    BY <1>28, <1>0, <2>1, <2>2, RecordsGone, EndedSame DEF StopRestore, ActiveRuns, Open, Phased
  <2>3. CASE UNCHANGED <<row, artifact>>
    BY <1>28, <1>0, <2>1, <2>3, EndedSame DEF Ended
  <2> QED
    BY <1>28, <2>2, <2>3 DEF StopRestore
<1>29. ASSUME NEW r \in Runs, BreakRestore(r) PROVE Ended' \in {Ended, {}}
  <2>1. sent' = sent /\ row' = SetRow(row, r, "failed") /\ row[r] # "completed"
    BY <1>29, <1>0 DEF BreakRestore, Phased, channel
  <2> QED
    BY <2>1, EndedSame DEF TypeOK, SetRow
<1>30. ASSUME Restart PROVE Ended' \in {Ended, {}}
  <2>1. sent' = sent
    BY <1>30 DEF Restart, Restarted, channel
  <2>2. CASE CancelRecords(ActiveRuns)
    BY <1>30, <1>0, <2>1, <2>2, RecordsGone, EndedSame DEF ActiveRuns, Open
  <2> QED
    BY <1>30, <2>2 DEF Restart, Restarted
<1>31. ASSUME CliDie PROVE Ended' \in {Ended, {}}
  BY <1>31, EndedSame DEF CliDie, channel
<1>32. CASE UNCHANGED vars
  BY <1>32, EndedSame DEF vars, channel
<1>33. ASSUME NEW r \in Runs, NextAsset(r)
       PROVE  Ended' \in {Ended, {}}
  BY <1>33, EndedSame DEF NextAsset, channel
<1> QED
  BY <1>1, <1>2, <1>3, <1>4, <1>5, <1>6, <1>7, <1>8, <1>9, <1>10, <1>11,
     <1>12, <1>13, <1>14, <1>15, <1>16, <1>17, <1>18, <1>19, <1>20, <1>21,
     <1>22, <1>23, <1>24, <1>25, <1>26, <1>27, <1>28, <1>29, <1>30, <1>31,
     <1>32, <1>33
     DEF Next, BackupStep, RestoreStep

(* How a quiet state is reached.                                           *)
LEMMA QuietBefore ==
    ASSUME Base, [Next]_vars, Undisturbed', Quiet',
           ~\E r \in Runs : Finish(r) /\ kind[r] # "dry",
           ~\E r \in Runs : StopAtCheck(r)
    PROVE  Quiet
<1> USE Constants DEF Base
<1>0. Undisturbed
  BY UndisturbedBefore
<1>1. ASSUME NEW d \in Days, Rebuild(d) PROVE Quiet
  BY <1>1 DEF Rebuild, request, Quiet
<1>2. ASSUME NEW r \in Runs, NEW days \in Scopes,
             NEW k \in {"full", "incremental", "dry"}, Enqueue(r, k, days)
      PROVE  Quiet
  BY <1>2 DEF Enqueue, Register, Quiet
<1>3. ASSUME NEW r \in Runs, NEW days \in Scopes,
             NEW k \in {"full", "incremental", "dry"}, StartCli(r, k, days)
      PROVE  Quiet
  BY <1>3 DEF StartCli, Register, Quiet
<1>4. ASSUME NEW r \in Runs, NEW days \in Scopes, EnqueueDisabled(r, days)
      PROVE  Quiet
  BY <1>4 DEF EnqueueDisabled, Register, Quiet
<1>5. ASSUME NEW r \in Runs, NEW m \in Runs, EnqueueRestore(r, m)
      PROVE  Quiet
  BY <1>5, Troubled
<1>6. ASSUME NEW r \in Runs, Cancel(r) PROVE Quiet
  <2>1. work'.phase = work.phase /\ work'.run = work.run /\ kind' = kind
    BY <1>6, WorkIs DEF Cancel, Work, request
  <2> QED
    BY <2>1 DEF Quiet
<1>7. ASSUME StopAll PROVE Quiet
  <2>1. work'.phase = work.phase /\ work'.run = work.run /\ kind' = kind
    BY <1>7, WorkIs DEF StopAll, Work, request
  <2> QED
    BY <2>1 DEF Quiet
<1>8. ASSUME ClearLocal PROVE Quiet
  <2>1. work'.phase = work.phase /\ work'.run = work.run /\ kind' = kind
    BY <1>8, WorkIs DEF ClearLocal, Work, request
  <2> QED
    BY <2>1 DEF Quiet
<1>9. ASSUME NEW r \in Runs, ThrowEarly(r) PROVE Quiet
  BY <1>9 DEF ThrowEarly, Phased, Quiet
<1>10. ASSUME NEW r \in Runs, NotReady(r) PROVE Quiet
  BY <1>10 DEF NotReady, Phased, Quiet
<1>11. ASSUME NEW r \in Runs, Ready(r) PROVE Quiet
  BY <1>11 DEF Ready, Phased, Quiet
<1>12. ASSUME NEW r \in Runs, NEW d \in Days, ReadFile(r, d)
       PROVE  Quiet
  <2>1. /\ work.run = r /\ work'.run = r /\ kind' = kind
        /\ work.phase # "check" /\ work'.phase # "check"
    BY <1>12, WorkIs DEF ReadFile, Phased, Reading, Done, Noted, Work, request
  <2> QED
    BY <2>1 DEF Quiet
<1>13. ASSUME NEW r \in Runs, NEW d \in Days, Unreadable(r, d)
       PROVE  Quiet
  <2>1. /\ work.run = r /\ work'.run = r /\ kind' = kind
        /\ work.phase # "check" /\ work'.phase # "check"
    BY <1>13, WorkIs DEF Unreadable, Phased, Reading, Done, Noted, Work, request
  <2> QED
    BY <2>1 DEF Quiet
<1>14. ASSUME NEW r \in Runs, NEW d \in Days, Skip(r, d) PROVE Quiet
  <2>1. work.run = r /\ work'.run = r /\ work.phase = "read" /\ work'.phase = "walk"
    BY <1>14, SkipEffect
  <2>2. kind' = kind
    BY <1>14 DEF Skip, request
  <2> QED
    BY <2>1, <2>2 DEF Quiet
<1>15. ASSUME NEW r \in Runs, NEW d \in Days, DryRun(r, d) PROVE Quiet
  <2>1. /\ work.run = r /\ work'.run = r /\ kind' = kind
        /\ work.phase # "check" /\ work'.phase # "check"
    BY <1>15, WorkIs DEF DryRun, Phased, Reading, Done, Noted, Work, request
  <2> QED
    BY <2>1 DEF Quiet
<1>16. ASSUME NEW r \in Runs, NEW d \in Days, StartUpload(r, d)
       PROVE  Quiet
  BY <1>16, UploadEffect DEF StartUpload, request, Quiet
<1>17. ASSUME NEW r \in Runs, NEW d \in Days, SendPiece(r, d)
       PROVE  Quiet
  BY <1>17, SendEffect DEF SendPiece, request, Quiet
<1>18. ASSUME NEW r \in Runs, NEW d \in Days, FailPiece(r, d)
       PROVE  Quiet
  BY <1>18, Troubled
<1>19. ASSUME NEW r \in Runs, StartCatalogue(r) PROVE Quiet
  BY <1>19, StartCatalogueEffect DEF SameRun, StartCatalogue, request, Quiet
<1>20. ASSUME NEW r \in Runs, CatalogueSent(r) PROVE Quiet
  <2>1. /\ work.run = r /\ work'.run = r /\ kind' = kind
        /\ work.phase # "check" /\ work'.phase # "check"
    BY <1>20, WorkIs DEF CatalogueSent, Onward, Phased, Reading, Done, Noted, Work, request
  <2> QED
    BY <2>1 DEF Quiet
<1>21. ASSUME NEW r \in Runs, MasterSent(r) PROVE Quiet
  <2>1. /\ work.run = r /\ work'.run = r /\ kind' = kind
        /\ work.phase # "check" /\ work'.phase # "check"
    BY <1>21, WorkIs DEF MasterSent, Phased, Reading, Done, Noted, Work, request
  <2> QED
    BY <2>1 DEF Quiet
<1>22. ASSUME NEW r \in Runs, Finish(r) PROVE Quiet
  BY <1>22 DEF Finish, Phased, Quiet
<1>23. ASSUME NEW r \in Runs, StopAtCheck(r) PROVE Quiet
  BY <1>23
<1>24. ASSUME NEW r \in Runs, Break(r) PROVE Quiet
  BY <1>24, Troubled
<1>25. ASSUME NEW r \in Runs, NEW d \in Days, RestoreDay(r, d)
       PROVE  Quiet
  BY <1>25, Troubled
<1>26. ASSUME NEW r \in Runs, NEW d \in Days, RefuseDay(r, d)
       PROVE  Quiet
  BY <1>26, Troubled
<1>27. ASSUME NEW r \in Runs, FinishRestore(r) PROVE Quiet
  BY <1>27, Troubled
<1>28. ASSUME NEW r \in Runs, StopRestore(r) PROVE Quiet
  BY <1>28, Troubled
<1>29. ASSUME NEW r \in Runs, BreakRestore(r) PROVE Quiet
  BY <1>29, Troubled
<1>30. ASSUME Restart PROVE Quiet
  BY <1>30, Crashed
<1>31. ASSUME CliDie PROVE Quiet
  BY <1>31, Crashed
<1>32. CASE UNCHANGED vars
  BY <1>32 DEF vars, request, Quiet
<1>33. ASSUME NEW r \in Runs, NextAsset(r)
       PROVE  Quiet
  BY <1>33, Troubled
<1> QED
  BY <1>1, <1>2, <1>3, <1>4, <1>5, <1>6, <1>7, <1>8, <1>9, <1>10, <1>11,
     <1>12, <1>13, <1>14, <1>15, <1>16, <1>17, <1>18, <1>19, <1>20, <1>21,
     <1>22, <1>23, <1>24, <1>25, <1>26, <1>27, <1>28, <1>29, <1>30, <1>31,
     <1>32, <1>33
     DEF Next, BackupStep, RestoreStep

LEMMA LakeGrows ==
    ASSUME Base, KnownInv, Undisturbed', [Next]_vars, NEW d \in Days
    PROVE  lake[d] \in Nat /\ lake'[d] \in Nat /\ lake[d] <= lake'[d]
<1> USE Constants, BackupAssumption DEF Base
<1>1. TypeOK' /\ Undisturbed
  BY BaseStep, UndisturbedBefore
<1>2. lake[d] \in Nat /\ lake'[d] \in Nat /\ lake[d] = newest[d]
  BY <1>1 DEF TypeOK, KnownInv
<1>3. CASE UNCHANGED files
  BY <1>2, <1>3 DEF files
<1>4. ASSUME NEW e \in Days, Rebuild(e) PROVE lake[d] <= lake'[d]
  BY <1>2, <1>4 DEF Rebuild, TypeOK
<1>5. ASSUME NEW r \in Runs, NEW e \in Days, RestoreDay(r, e) PROVE FALSE
  BY <1>5, Troubled
<1> QED
  BY <1>2, <1>3, <1>4, <1>5, LakeStays

(* What a run has seen stays, but for the run that starts.                 *)
LEMMA SawStays ==
    ASSUME Base, [Next]_vars, NEW q \in Runs, row[q] = "completed" PROVE saw'[q] = saw[q]
<1>1. CASE saw' = saw
  BY <1>1
<1>2. ASSUME NEW r \in Runs, NEW b \in BOOLEAN, NEW D \in SUBSET Days, Starting(r, b, D)
      PROVE  saw'[q] = saw[q]
  <2>1. r # q /\ saw' = [saw EXCEPT ![r] = [d \in D |-> lake[d]]]
    BY <1>2 DEF Starting, Begins
  <2> QED
    BY <2>1 DEF Base, TypeOK
<1> QED
  BY <1>1, <1>2, StartingOrNot

(* What AtWorkInv says of the run r, and what it knows of the lake.        *)
LEMMA AtWorkFacts ==
    ASSUME Base, PastInv, KnownInv, AtWorkInv, Undisturbed, Walking \/ Telling,
           NEW r \in Runs, work.run = r, kind[r] # "dry"
    PROVE  /\ \A d \in Days : 0 \in Uploaded(d) =>
                  /\ d \in DOMAIN saw[r]
                  /\ artifact[d][0].version \in Nat
                  /\ artifact[d][0].version <= saw[r][d]
                  /\ d \notin work.todo /\ ~work.errors => artifact[d][0].version = saw[r][d]
           /\ work.errors =>
                  \E d \in DOMAIN saw[r] \ work.todo : saw[r][d] < lake[d]
           /\ work.changed =>
                  \E d \in DOMAIN saw[r] \ work.todo :
                      0 \in Uploaded(d) => artifact[d][0].run = r
           /\ work.phase # "send" /\ ~work.changed /\ ~work.errors =>
                  \A q \in Ended : IsLast(q, Ended) /\ q # r =>
                      \/ /\ \A d \in work.todo : Agrees(d, q)
                         /\ \A d \in DOMAIN saw[r] \ work.todo :
                               d \in DOMAIN saw[q] /\ saw[q][d] = saw[r][d]
                      \/ \E d \in work.todo : Due(d, saw[r][d])
           /\ \A d \in DOMAIN saw[r] :
                  /\ d \in Days /\ d \in scope[r] /\ lake[d] \in Nat /\ lake[d] > 0
                  /\ saw[r][d] \in Nat /\ saw[r][d] > 0 /\ saw[r][d] <= lake[d]
           /\ work.todo \subseteq DOMAIN saw[r]
<1> USE Constants, BackupAssumption DEF Base
<1>1. saw[r] \in Manifest /\ DOMAIN saw[r] \subseteq Days
  BY ManifestIs DEF TypeOK
<1>2. \A d \in DOMAIN saw[r] :
        /\ d \in Days /\ d \in scope[r] /\ lake[d] \in Nat /\ lake[d] > 0
        /\ saw[r][d] \in Nat /\ saw[r][d] > 0 /\ saw[r][d] <= lake[d]
  <2>1. \A d \in DOMAIN saw[r] : saw[r][d] \in 1 .. MaxVersion
    BY <1>1, ManifestIs
  <2>2. \A d \in DOMAIN saw[r] : d \in Days /\ d \in scope[r] /\ lake[d] > 0
    BY <1>1 DEF PastInv
  <2>3. \A d \in DOMAIN saw[r] : lake[d] \in Nat
    BY <2>2 DEF TypeOK
  <2>4. \A d \in DOMAIN saw[r] : saw[r][d] <= lake[d]
    BY DEF KnownInv
  <2> QED
    BY <2>1, <2>2, <2>3, <2>4
<1>3. work.todo \subseteq DOMAIN saw[r]
  BY DEF PlaceInv, Telling
<1>4. \A d \in Days : 0 \in Uploaded(d) => artifact[d][0].version \in Nat
  BY DEF KnownInv
<1>5. SeesKnown(r) /\ ErrorIsOld(r) /\ ChangeIsSent(r) /\ WayAgrees(r)
  BY DEF AtWorkInv
<1> QED
  BY <1>2, <1>3, <1>4, <1>5 DEF SeesKnown, ErrorIsOld, ChangeIsSent, WayAgrees, SameWay

(* An error is of a file that is due.                                      *)
LEMMA ErrorIsDue ==
    ASSUME Base, PastInv, KnownInv, AtWorkInv, Undisturbed, Walking \/ Telling,
           NEW r \in Runs, work.run = r, kind[r] # "dry", work.errors
    PROVE  \E d \in scope[r] : d \in Days /\ lake[d] > 0 /\ Due(d, lake[d])
<1>1. PICK d \in DOMAIN saw[r] \ work.todo : saw[r][d] < lake[d]
  BY AtWorkFacts
<1>2. /\ d \in Days /\ d \in scope[r] /\ lake[d] \in Nat /\ lake[d] > 0
      /\ saw[r][d] \in Nat
      /\ 0 \in Uploaded(d) => /\ artifact[d][0].version \in Nat
                              /\ artifact[d][0].version <= saw[r][d]
  BY AtWorkFacts
<1>3. Due(d, lake[d])
  BY <1>1, <1>2 DEF Due
<1> QED
  BY <1>2, <1>3

-----------------------------------------------------------------------------
(* At rest.                                                                *)

LEMMA RestInit == Init => RestInv
<1> QED
  BY DEF Init, RestInv, Ended, Completed

(* A step between two quiet states.                                        *)
LEMMA RestKept ==
    ASSUME Base, PastInv, KnownInv, RestInv, [Next]_vars, Undisturbed', Quiet,
           ~\E r \in Runs : Finish(r) /\ kind[r] # "dry",
           NEW q \in Ended', IsLast(q, Ended')
    PROVE  \/ \A d \in Days : Agrees(d, q)'
           \/ \E d \in scope'[q] : lake'[d] > 0 /\ Due(d, lake[d])'
<1> USE Constants DEF Base
<1>1. Undisturbed /\ RequestsStay
  BY UndisturbedBefore, RequestsKept
<1>2. Ended' = Ended
  BY EndedStays
<1>3. /\ q \in Runs /\ q \in Ended /\ IsLast(q, Ended) /\ row[q] = "completed"
      /\ saw'[q] = saw[q] /\ scope'[q] = scope[q]
  <2>1. q \in Runs /\ q \in Ended /\ IsLast(q, Ended) /\ row[q] = "completed"
    BY <1>2 DEF Ended, Completed
  <2> QED
    BY <1>1, <2>1, SawStays DEF RequestsStay
<1>4. \A d \in Days : StaysKnown(d)
  <2>1. ASSUME NEW r \in Runs, NEW d \in Days, SendPiece(r, d) PROVE FALSE
    <3>1. work.run = r /\ work.phase = "send"
      BY <2>1, SendEffect
    <3> QED
      BY <3>1 DEF Quiet, PlaceInv
  <2> QED
    BY <2>1, KnownStays
<1>5. CASE \A d \in Days : Agrees(d, q)
  <2>1. \A d \in Days : Agrees(d, q)'
    BY <1>3, <1>4, <1>5 DEF Agrees, StaysKnown
  <2> QED
    BY <2>1
<1>6. CASE \E d \in scope[q] : lake[d] > 0 /\ Due(d, lake[d])
  <2>1. PICK d \in scope[q] : lake[d] > 0 /\ Due(d, lake[d])
    BY <1>6
  <2>2. d \in Days
    BY <1>3 DEF TypeOK
  <2>3. lake[d] \in Nat /\ lake'[d] \in Nat /\ lake[d] <= lake'[d]
    BY <2>2, LakeGrows
  <2>4. (0 \in Uploaded(d))' => /\ artifact'[d][0] = artifact[d][0]
                                /\ artifact[d][0].version < lake[d]
                                /\ artifact[d][0].version \in Nat
    <3>1. SUFFICES ASSUME (0 \in Uploaded(d))'
                   PROVE  /\ artifact'[d][0] = artifact[d][0]
                          /\ artifact[d][0].version < lake[d]
                          /\ artifact[d][0].version \in Nat
      OBVIOUS
    <3>2. 0 \in Uploaded(d) /\ artifact'[d][0] = artifact[d][0]
      BY <1>4, <2>2, <3>1 DEF StaysKnown
    <3>3. artifact[d][0].version \in 1 .. lake[d]
      BY <1>1, <1>3, <2>2, <3>2 DEF KnownInv
    <3> QED
      BY <2>1, <3>2, <3>3 DEF Due
  <2>5. Due(d, lake[d])'
    BY <2>3, <2>4 DEF Due
  <2> QED
    BY <1>3, <2>1, <2>3, <2>5
<1> QED
  BY <1>1, <1>3, <1>5, <1>6 DEF RestInv

(* A backup is stopped: its artifacts go.                                  *)
LEMMA RestStopped ==
    ASSUME Base, PastInv, KnownInv, AtWorkInv, [Next]_vars, Undisturbed', ~Quiet,
           NEW r \in Runs, StopAtCheck(r),
           NEW q \in Ended', IsLast(q, Ended')
    PROVE  \/ \A d \in Days : Agrees(d, q)'
           \/ \E d \in scope'[q] : lake'[d] > 0 /\ Due(d, lake[d])'
<1> USE Constants DEF Base
<1>1. Undisturbed /\ RequestsStay
  BY UndisturbedBefore, RequestsKept
<1>2. /\ work.run = r /\ (Walking \/ Telling) /\ work.phase # "send"
      /\ CancelRecords({r}) /\ lake' = lake /\ saw' = saw /\ scope' = scope
  BY DEF StopAtCheck, files, request, Walking, Telling
<1>3. kind[r] # "dry"
  BY <1>2 DEF Quiet
<1>4. row[r] # "none" /\ row[r] # "completed"
  BY <1>2 DEF PlaceInv, Over
<1>5. Ended' = Ended
  <2>1. ~\E p \in Runs : Finish(p) /\ kind[p] # "dry"
    <3>1. StopAtCheck(r) => work.cancelled
      BY DEF StopAtCheck
    <3> QED
      BY <3>1 DEF Finish
  <2> QED
    BY <2>1, EndedStays
<1>6. /\ q \in Runs /\ q \in Ended /\ IsLast(q, Ended) /\ row[q] = "completed" /\ q # r
  BY <1>4, <1>5 DEF Ended, Completed
<1>7. scope[q] = scope[r]
  BY <1>1, <1>4, <1>6 DEF Undisturbed, Calm
<1>8. ASSUME NEW d \in Days, (0 \in Uploaded(d))'
      PROVE  /\ 0 \in Uploaded(d) /\ artifact'[d][0] = artifact[d][0]
             /\ artifact[d][0].run # r
  <2>1. 0 \in Uploaded(d) /\ artifact'[d][0] = artifact[d][0]
    BY <1>2, <1>8, RecordsFewer DEF StaysKnown
  <2>2. ~HasArtifact(r)'
    BY <1>2, RecordsGone
  <2> QED
    BY <2>1, <2>2 DEF HasArtifact
<1>9. ASSUME NEW d \in scope[r], d \in Days, lake[d] > 0, Due(d, lake[d]) \/ ~(0 \in Uploaded(d))'
      PROVE  \E e \in scope'[q] : lake'[e] > 0 /\ Due(e, lake[e])'
  <2>1. Due(d, lake[d])'
    BY <1>2, <1>8, <1>9 DEF Due
  <2> QED
    BY <1>2, <1>7, <1>9, <2>1
<1>10. CASE work.errors
  <2>1. PICK d \in scope[r] : d \in Days /\ lake[d] > 0 /\ Due(d, lake[d])
    BY <1>1, <1>2, <1>3, <1>10, ErrorIsDue
  <2> QED
    BY <1>9, <2>1
<1>11. CASE work.changed
  <2>1. PICK d \in DOMAIN saw[r] \ work.todo : 0 \in Uploaded(d) => artifact[d][0].run = r
    BY <1>1, <1>2, <1>3, <1>11, AtWorkFacts
  <2>2. d \in Days /\ d \in scope[r] /\ lake[d] > 0
    BY <1>1, <1>2, <1>3, <2>1, AtWorkFacts
  <2>3. ~(0 \in Uploaded(d))'
    BY <1>8, <2>1, <2>2
  <2> QED
    BY <1>9, <2>2, <2>3
<1>12. CASE ~work.errors /\ ~work.changed
  <2>1. \/ /\ \A d \in work.todo : Agrees(d, q)
           /\ \A d \in DOMAIN saw[r] \ work.todo :
                 d \in DOMAIN saw[q] /\ saw[q][d] = saw[r][d]
        \/ \E d \in work.todo : Due(d, saw[r][d])
    BY <1>1, <1>2, <1>3, <1>6, <1>12, AtWorkFacts
  <2>2. CASE \E d \in work.todo : Due(d, saw[r][d])
    <3>1. PICK d \in work.todo : Due(d, saw[r][d])
      BY <2>2
    <3>2. /\ d \in Days /\ d \in scope[r] /\ lake[d] \in Nat /\ lake[d] > 0
          /\ saw[r][d] \in Nat /\ saw[r][d] <= lake[d]
          /\ 0 \in Uploaded(d) => artifact[d][0].version \in Nat
      BY <1>1, <1>2, <1>3, <3>1, AtWorkFacts
    <3>3. Due(d, lake[d])
      BY <3>1, <3>2 DEF Due
    <3> QED
      BY <1>9, <3>2, <3>3
  <2>3. CASE /\ \A d \in work.todo : Agrees(d, q)
             /\ \A d \in DOMAIN saw[r] \ work.todo :
                   d \in DOMAIN saw[q] /\ saw[q][d] = saw[r][d]
    <3>1. ASSUME NEW d \in Days PROVE Agrees(d, q)'
      <4>1. SUFFICES ASSUME (0 \in Uploaded(d))'
                     PROVE  d \in DOMAIN saw[q] /\ artifact[d][0].version = saw[q][d]
        BY <1>2, <1>8 DEF Agrees
      <4>2. 0 \in Uploaded(d)
        BY <1>8, <4>1
      <4>3. CASE d \in work.todo
        BY <2>3, <4>2, <4>3 DEF Agrees
      <4>4. CASE d \notin work.todo
        <5>1. d \in DOMAIN saw[r] /\ artifact[d][0].version = saw[r][d]
          BY <1>1, <1>2, <1>3, <1>12, <4>2, <4>4, AtWorkFacts
        <5> QED
          BY <2>3, <4>4, <5>1
      <4> QED
        BY <4>3, <4>4
    <3> QED
      BY <3>1
  <2> QED
    BY <2>1, <2>2, <2>3
<1> QED
  BY <1>10, <1>11, <1>12

(* A backup ends: it is the last one, or some file is due.                 *)
LEMMA RestFinished ==
    ASSUME Base, PastInv, KnownInv, AtWorkInv, CoverInv, ClearedInv, [Next]_vars,
           Undisturbed', NEW r \in Runs, Finish(r), kind[r] # "dry",
           NEW q \in Ended', IsLast(q, Ended')
    PROVE  \/ \A d \in Days : Agrees(d, q)'
           \/ \E d \in scope'[q] : lake'[d] > 0 /\ Due(d, lake[d])'
<1> USE Constants DEF Base
<1>1. Undisturbed
  BY UndisturbedBefore
<1>2. /\ work.run = r /\ work.phase = "final" /\ Telling /\ work.todo = {}
      /\ UNCHANGED <<lake, saw, scope, artifact, sent>>
      /\ row' = SetRow(row, r, IF work.errors THEN "failed" ELSE "completed")
  BY DEF Finish, Phased, files, request, channel, Telling, PlaceInv
<1>3. row[r] # "none" /\ row[r] # "completed" /\ row[r] # "deleted" /\ q \in Runs
  <2>1. row[r] # "none" /\ row[r] # "completed"
    BY <1>2 DEF PlaceInv, Over
  <2>2. q \in Runs /\ row'[q] = "completed"
    BY DEF Ended, Completed
  <2>3. row[r] = "deleted" => row' = row /\ Completed = {}
    BY <1>2 DEF SetRow, ClearedInv
  <2> QED
    BY <2>1, <2>2, <2>3 DEF Completed
<1>4. CASE work.errors
  <2>1. PICK d \in scope[r] : d \in Days /\ lake[d] > 0 /\ Due(d, lake[d])
    BY <1>1, <1>2, <1>4, ErrorIsDue
  <2>2. row[q] # "none" /\ scope[q] = scope[r]
    <3>1. row'[q] = "completed" /\ row' = [row EXCEPT ![r] = "failed"]
      BY <1>2, <1>3, <1>4 DEF SetRow, Ended, Completed
    <3>2. row[q] = "completed"
      BY <1>3, <3>1 DEF TypeOK
    <3> QED
      BY <1>1, <1>3, <3>2 DEF Undisturbed, Calm
  <2>3. Due(d, lake[d])'
    BY <1>2, <2>1 DEF Due, Uploaded
  <2> QED
    BY <1>2, <2>1, <2>2, <2>3
<1>5. CASE ~work.errors
  <2>1. r \in Ended'
    <3>1. r \in sent
      BY <1>1, <1>2, <1>5 DEF CoverInv, Trusted
    <3>2. row'[r] = "completed"
      BY <1>2, <1>3, <1>5 DEF SetRow, TypeOK
    <3> QED
      BY <1>2, <3>1, <3>2 DEF Ended, Completed
  <2>2. q = r
    <3>1. r <= q
      BY <2>1 DEF IsLast
    <3>2. \A p \in Runs : p > r => row'[p] = "none"
      BY <1>2 DEF PlaceInv, SetRow, TypeOK
    <3>3. ~(q > r)
      BY <3>2, <1>3 DEF Ended, Completed
    <3> QED
      BY <1>3, <3>1, <3>3
  <2>3. ASSUME NEW d \in Days PROVE Agrees(d, q)'
    BY <1>1, <1>2, <1>5, <2>2, AtWorkFacts DEF Agrees, Uploaded
  <2> QED
    BY <2>3
<1> QED
  BY <1>4, <1>5

LEMMA RestStep ==
    /\ Base /\ PastInv /\ KnownInv /\ AtWorkInv /\ CoverInv /\ ClearedInv /\ RestInv
    /\ [Next]_vars
    => RestInv'
<1> SUFFICES ASSUME Base, PastInv, KnownInv, AtWorkInv, CoverInv, ClearedInv, RestInv,
                    [Next]_vars, Undisturbed', Quiet',
                    NEW q \in Ended', IsLast(q, Ended')
             PROVE  \/ \A d \in Days : Agrees(d, q)'
                    \/ \E d \in scope'[q] : lake'[d] > 0 /\ Due(d, lake[d])'
  BY DEF RestInv
<1>1. ASSUME NEW r \in Runs, Finish(r), kind[r] # "dry"
      PROVE  \/ \A d \in Days : Agrees(d, q)'
             \/ \E d \in scope'[q] : lake'[d] > 0 /\ Due(d, lake[d])'
  BY <1>1, RestFinished
<1>2. CASE Quiet /\ ~\E r \in Runs : Finish(r) /\ kind[r] # "dry"
  BY <1>2, RestKept
<1>3. ASSUME NEW r \in Runs, StopAtCheck(r), ~Quiet
      PROVE  \/ \A d \in Days : Agrees(d, q)'
             \/ \E d \in scope'[q] : lake'[d] > 0 /\ Due(d, lake[d])'
  BY <1>3, RestStopped
<1> QED
  BY <1>1, <1>2, <1>3, QuietBefore

-----------------------------------------------------------------------------
(* At work.                                                                *)

LEMMA AtWorkInit == Init => AtWorkInv
<1> QED
  BY DEF Init, AtWorkInv, Idle, Walking, Telling

(* A backup starts from rest.                                              *)
LEMMA AtWorkStarts ==
    ASSUME Base, PastInv, KnownInv, RestInv, [Next]_vars, Undisturbed, Undisturbed',
           KnownInv', NEW r \in Runs, NEW b \in BOOLEAN, NEW D \in SUBSET Days,
           Starting(r, b, D), kind'[r] # "dry"
    PROVE  AtWorkInv'
<1> USE Constants DEF Base
<1>1. /\ work'.run = r /\ work'.phase = "walk" /\ work'.todo = D
      /\ ~work'.changed /\ ~work'.errors
      /\ UNCHANGED <<lake, artifact, sent>>
  BY BeginsFields DEF Starting, files, channel
<1>2. DOMAIN saw'[r] = D /\ \A d \in D : saw'[r][d] = lake[d]
  BY DEF Starting, Begins, TypeOK
<1>3. row'[r] # "none"
  <2>1. CASE work.run = NoRun
    <3>1. row[r] = "none" => row'[r] = "running"
      BY DEF Starting, Begins, SetRow, TypeOK
    <3> QED
      BY <3>1, RequestsKept DEF RequestsStay
  <2>2. CASE work.run # NoRun
    <3>1. row[r] = "none" => row'[r] = "running"
      BY DEF Starting, Begins, SetRow, TypeOK
    <3> QED
      BY <3>1, RequestsKept DEF RequestsStay
  <2> QED
    BY <2>1, <2>2
<1>4. SeesKnown(r)'
  <2>1. ASSUME NEW d \in Days, (0 \in Uploaded(d))'
        PROVE  d \in D /\ artifact'[d][0].version <= lake[d]
    <3>1. artifact'[d][0].version \in 1 .. lake'[d] /\ d \in scope'[r]
      BY <1>3, <2>1 DEF KnownInv
    <3>2. lake[d] \in Nat
      BY BackupAssumption DEF TypeOK
    <3>3. lake[d] > 0 /\ artifact'[d][0].version <= lake[d]
      BY <1>1, <3>1, <3>2
    <3> QED
      BY <3>1, <3>3 DEF Starting
  <2> QED
    BY <1>1, <1>2, <2>1 DEF SeesKnown
<1>5. ErrorIsOld(r)' /\ ChangeIsSent(r)'
  BY <1>1 DEF ErrorIsOld, ChangeIsSent
<1>6. WayAgrees(r)'
  <2> SUFFICES ASSUME NEW q \in Ended', IsLast(q, Ended'), q # r
               PROVE  SameWay(r, q)' \/ \E d \in work'.todo : Due(d, saw[r][d])'
    BY DEF WayAgrees
  <2>1. /\ q \in Runs /\ q \in Ended /\ IsLast(q, Ended) /\ row[q] = "completed"
    <3>1. ~\E p \in Runs : Finish(p) /\ kind[p] # "dry"
      BY <1>1 DEF Finish, Idle
    <3>2. Ended' = Ended
      BY <3>1, EndedStays
    <3> QED
      BY <3>2 DEF Ended, Completed
  <2>2. /\ saw'[q] = saw[q] /\ scope'[q] = scope[q] /\ scope'[q] = scope'[r]
    BY <1>3, <2>1, SawStays, RequestsKept DEF RequestsStay, Undisturbed, Calm
  <2>3. Quiet
    BY DEF Starting, Quiet
  <2>4. CASE \A d \in Days : Agrees(d, q)
    <3>1. \A d \in Days : Agrees(d, q)'
      BY <1>1, <2>2, <2>4 DEF Agrees, Uploaded
    <3> QED
      BY <1>1, <1>2, <3>1 DEF SameWay
  <2>5. CASE \E d \in scope[q] : lake[d] > 0 /\ Due(d, lake[d])
    <3>1. PICK d \in scope[q] : lake[d] > 0 /\ Due(d, lake[d])
      BY <2>5
    <3>2. d \in D
      BY <2>1, <2>2, <3>1 DEF Starting, TypeOK
    <3>3. Due(d, saw[r][d])'
      BY <1>1, <1>2, <3>1, <3>2 DEF Due, Uploaded
    <3> QED
      BY <1>1, <3>2, <3>3
  <2> QED
    BY <2>1, <2>3, <2>4, <2>5 DEF RestInv
<1> QED
  BY <1>1, <1>4, <1>5, <1>6 DEF AtWorkInv

(* A step after which the backup is where it was.                          *)
LEMMA AtWorkKept ==
    ASSUME Base, PastInv, KnownInv, AtWorkInv, [Next]_vars, Undisturbed, Undisturbed',
           NEW r \in Runs, work.run = r, kind[r] # "dry", Walking \/ Telling,
           work'.run = r, saw' = saw, work'.todo = work.todo,
           work'.changed = work.changed, work'.errors = work.errors,
           work.phase = "send" => work'.phase = "send",
           ~\E p \in Runs : Finish(p) /\ kind[p] # "dry",
           \A d \in Days : StaysKnown(d)
    PROVE  AtWorkInv'
<1> USE DEF Base
<1>1. SeesKnown(r) /\ ErrorIsOld(r) /\ ChangeIsSent(r) /\ WayAgrees(r)
  BY DEF AtWorkInv
<1>2. \A d \in Days : (0 \in Uploaded(d))' =>
        0 \in Uploaded(d) /\ artifact'[d][0] = artifact[d][0]
  BY DEF StaysKnown
<1>3. \A d \in DOMAIN saw[r] : d \in Days /\ saw[r][d] \in Nat
  BY AtWorkFacts
<1>4. SeesKnown(r)'
  BY <1>1, <1>2 DEF SeesKnown
<1>5. ErrorIsOld(r)'
  <2>1. \A d \in DOMAIN saw[r] : saw[r][d] < lake[d] => saw[r][d] < lake'[d]
    BY <1>3, LakeGrows
  <2> QED
    BY <1>1, <2>1 DEF ErrorIsOld
<1>6. ChangeIsSent(r)'
  BY <1>1, <1>2, <1>3 DEF ChangeIsSent
<1>7. WayAgrees(r)'
  <2> SUFFICES ASSUME work'.phase # "send", ~work'.changed, ~work'.errors,
                      NEW q \in Ended', IsLast(q, Ended'), q # r
               PROVE  SameWay(r, q)' \/ \E d \in work'.todo : Due(d, saw[r][d])'
    BY DEF WayAgrees
  <2>1. q \in Ended /\ IsLast(q, Ended)
    <3>1. Ended' = Ended
      BY EndedStays
    <3> QED
      BY <3>1
  <2>2. SameWay(r, q) \/ \E d \in work.todo : Due(d, saw[r][d])
    BY <1>1, <2>1 DEF WayAgrees
  <2>3. work.todo \subseteq Days
    BY WorkIs
  <2>4. ASSUME SameWay(r, q) PROVE SameWay(r, q)'
    BY <1>2, <2>3, <2>4 DEF SameWay, Agrees
  <2>5. ASSUME NEW d \in work.todo, Due(d, saw[r][d]) PROVE Due(d, saw[r][d])'
    BY <1>2, <2>3, <2>5 DEF Due
  <2> QED
    BY <2>2, <2>4, <2>5
<1> QED
  BY <1>4, <1>5, <1>6, <1>7 DEF AtWorkInv

(* A partition is passed that cannot be read.                              *)
LEMMA AtWorkUnreadable ==
    ASSUME Base, PastInv, KnownInv, AtWorkInv, [Next]_vars, Undisturbed, Undisturbed',
           NEW r \in Runs, NEW d \in Days, Unreadable(r, d), kind[r] # "dry"
    PROVE  AtWorkInv'
<1> USE BackupAssumption DEF Base
<1>1. /\ work.run = r /\ Walking /\ d \in work.todo
      /\ UNCHANGED <<saw, lake, artifact>>
      /\ work'.run = r /\ work'.todo = work.todo \ {d} /\ work'.errors
      /\ work'.changed = work.changed
  BY WorkIs DEF Unreadable, Reading, Phased, Walking, Noted, Done, Work, files
<1>2. lake[d] # saw[r][d]
  BY DEF Unreadable, Failure, Undisturbed, Calm, TypeOK
<1>3. SeesKnown(r) /\ ErrorIsOld(r) /\ ChangeIsSent(r)
  BY <1>1 DEF AtWorkInv
<1>4. d \in DOMAIN saw[r] /\ saw[r][d] < lake[d]
  BY <1>1, <1>2, AtWorkFacts
<1>5. SeesKnown(r)' /\ ErrorIsOld(r)' /\ ChangeIsSent(r)' /\ WayAgrees(r)'
  <2>1. SeesKnown(r)'
    BY <1>1, <1>3 DEF SeesKnown, Uploaded
  <2>2. ErrorIsOld(r)'
    BY <1>1, <1>4 DEF ErrorIsOld
  <2>3. ChangeIsSent(r)'
    BY <1>1, <1>3 DEF ChangeIsSent, Uploaded
  <2>4. WayAgrees(r)'
    BY <1>1 DEF WayAgrees
  <2> QED
    BY <2>1, <2>2, <2>3, <2>4
<1> QED
  BY <1>1, <1>5 DEF AtWorkInv

(* A partition is passed that is known.                                    *)
LEMMA AtWorkSkips ==
    ASSUME Base, PastInv, KnownInv, AtWorkInv, [Next]_vars, Undisturbed, Undisturbed',
           NEW r \in Runs, NEW d \in Days, Skip(r, d), kind[r] # "dry"
    PROVE  AtWorkInv'
<1> USE BackupAssumption, Constants DEF Base
<1>1. /\ work.run = r /\ Walking /\ work.phase # "send" /\ d \in work.todo
      /\ UNCHANGED <<row, saw, lake, sent>>
      /\ work'.run = r /\ work'.todo = work.todo \ {d} /\ work'.errors = work.errors
      /\ work'.changed = work.changed
      /\ ~(0 \in Uploaded(d))' /\ \A e \in Days : e # d => artifact'[e] = artifact[e]
  <2>1. UNCHANGED <<row, saw, lake, sent>>
    BY DEF Skip, files, channel
  <2>2. work.run = r /\ work.phase = "read" /\ d \in work.todo
    BY SkipEffect
  <2>3. Walking
    BY <2>2 DEF Walking
  <2>4. /\ work'.run = r /\ work'.todo = work.todo \ {d} /\ work'.errors = work.errors
        /\ work'.changed = work.changed
    BY SkipEffect
  <2>5. ~(0 \in Uploaded(d))' /\ \A e \in Days : e # d => artifact'[e] = artifact[e]
    BY SkipEffect
  <2> QED
    BY <2>1, <2>2, <2>3, <2>4, <2>5
<1>2. SeesKnown(r) /\ ErrorIsOld(r) /\ ChangeIsSent(r) /\ WayAgrees(r)
  BY <1>1 DEF AtWorkInv
<1>3. \A e \in DOMAIN saw[r] : e \in Days /\ saw[r][e] \in Nat /\ saw[r][e] > 0
  BY <1>1, AtWorkFacts
<1>4. d \in DOMAIN saw[r]
  BY <1>1, AtWorkFacts
<1>5. 0 \in Uploaded(d) /\ artifact[d][0].version = saw[r][d]
  BY <1>3, <1>4, SkipEffect DEF KnownVersion
<1>6. SeesKnown(r)'
  BY <1>1, <1>2 DEF SeesKnown, Uploaded
<1>7. ErrorIsOld(r)'
  BY <1>1, <1>2 DEF ErrorIsOld
<1>8. ChangeIsSent(r)'
  <2>1. SUFFICES ASSUME work.changed
                 PROVE  \E e \in DOMAIN saw[r] \ (work.todo \ {d}) :
                            (0 \in Uploaded(e))' => artifact'[e][0].run = r
    BY <1>1 DEF ChangeIsSent
  <2> QED
    BY <1>1, <1>4 DEF ChangeIsSent
<1>9. WayAgrees(r)'
  <2> SUFFICES ASSUME ~work.changed, ~work.errors,
                      NEW q \in Ended', IsLast(q, Ended'), q # r
               PROVE  SameWay(r, q)' \/ \E e \in work'.todo : Due(e, saw[r][e])'
    BY <1>1 DEF WayAgrees
  <2>1. q \in Ended /\ IsLast(q, Ended)
    <3>1. Ended' = Ended
      BY <1>1 DEF Ended, Completed
    <3> QED
      BY <3>1
  <2>2. SameWay(r, q) \/ \E e \in work.todo : Due(e, saw[r][e])
    BY <1>1, <1>2, <2>1 DEF WayAgrees
  <2>3. work.todo \subseteq Days
    BY WorkIs
  <2>4. ASSUME SameWay(r, q) PROVE SameWay(r, q)'
    <3>1. d \in DOMAIN saw[q] /\ saw[q][d] = saw[r][d]
      BY <1>1, <1>5, <2>4 DEF SameWay, Agrees
    <3>2. \A e \in work'.todo : Agrees(e, q)'
      BY <1>1, <2>3, <2>4 DEF SameWay, Agrees, Uploaded
    <3>3. \A e \in DOMAIN saw[r] \ work'.todo : e \in DOMAIN saw[q] /\ saw[q][e] = saw[r][e]
      BY <1>1, <2>4, <3>1 DEF SameWay
    <3> QED
      BY <1>1, <3>2, <3>3 DEF SameWay
  <2>5. ASSUME NEW e \in work.todo, Due(e, saw[r][e])
        PROVE  e \in work'.todo /\ Due(e, saw[r][e])'
    <3>1. e # d
      BY <1>3, <1>4, <1>5, <2>5 DEF Due
    <3> QED
      BY <1>1, <2>3, <2>5, <3>1 DEF Due, Uploaded
  <2> QED
    BY <2>2, <2>4, <2>5
<1> QED
  BY <1>1, <1>6, <1>7, <1>8, <1>9 DEF AtWorkInv

(* A piece of a partition is sent.                                         *)
LEMMA AtWorkSends ==
    ASSUME Base, PastInv, KnownInv, WholeInv, AtWorkInv, [Next]_vars, Undisturbed,
           Undisturbed', NEW r \in Runs, NEW d \in Days, SendPiece(r, d), kind[r] # "dry"
    PROVE  AtWorkInv'
<1> USE BackupAssumption, Constants DEF Base
<1>1. /\ work.run = r /\ Walking /\ Sending(d) /\ d \in work.todo
      /\ UNCHANGED <<saw, lake>>
      /\ work'.run = r /\ work'.errors = work.errors
      /\ \A e \in Days : e # d => artifact'[e] = artifact[e]
  <2>1. /\ work.run = r /\ Walking /\ Sending(d) /\ d \in work.todo
        /\ work'.run = r /\ work'.errors = work.errors
    BY SendEffect DEF Walking, Sending
  <2>2. UNCHANGED <<saw, lake>>
    BY DEF SendPiece, files
  <2>3. \A e \in Days : e # d => artifact'[e] = artifact[e]
    BY PieceSent
  <2> QED
    BY <2>1, <2>2, <2>3
<1>2. SeesKnown(r) /\ ErrorIsOld(r) /\ ChangeIsSent(r)
  BY <1>1 DEF AtWorkInv
<1>3. d \in DOMAIN saw[r] /\ saw[r][d] \in Nat
  BY <1>1, AtWorkFacts
<1>4. (0 \in Uploaded(d))' => artifact'[d][0] = Sent(r, d)
  <2>1. CASE work.piece = 0
    <3>1. artifact'[d][work.piece] = Sent(r, d)
      BY PieceSent
    <3> QED
      BY <2>1, <3>1
  <2>2. CASE work.piece # 0
    <3>1. artifact'[d][0] = artifact[d][0]
      BY <2>2, PieceSent
    <3>2. 0 < work.piece
      BY <2>2, WorkIs DEF Chunks
    <3>3. 0 \in Uploaded(d) => artifact[d][0] = Sent(r, d)
      BY <1>1, <3>2 DEF WholeInv
    <3> QED
      BY <3>1, <3>3 DEF Uploaded
  <2> QED
    BY <2>1, <2>2
<1>5. SeesKnown(r)'
  <2>1. ASSUME NEW e \in Days, (0 \in Uploaded(e))'
        PROVE  /\ e \in DOMAIN saw[r] /\ artifact'[e][0].version <= saw[r][e]
               /\ e \notin work'.todo /\ ~work.errors => artifact'[e][0].version = saw[r][e]
    <3>1. CASE e = d
      BY <1>3, <1>4, <2>1, <3>1 DEF Sent
    <3>2. CASE e # d
      <4>1. 0 \in Uploaded(e) /\ artifact'[e] = artifact[e]
        BY <1>1, <2>1, <3>2 DEF Uploaded
      <4>2. work'.todo = work.todo \/ work'.todo = work.todo \ {d}
        BY SendEffect
      <4>3. e \notin work'.todo => e \notin work.todo
        BY <3>2, <4>2
      <4> QED
        BY <1>2, <4>1, <4>3 DEF SeesKnown
    <3> QED
      BY <3>1, <3>2
  <2> QED
    BY <1>1, <2>1 DEF SeesKnown
<1>6. work'.todo \subseteq work.todo
  BY SendEffect
<1>7. ErrorIsOld(r)'
  BY <1>1, <1>2, <1>6 DEF ErrorIsOld
<1>8. ChangeIsSent(r)'
  <2>1. CASE ~LastPiece
    <3>1. work'.todo = work.todo /\ work'.changed = work.changed
      BY <2>1, SendEffect
    <3>2. \A e \in DOMAIN saw[r] \ work.todo :
            /\ artifact'[e] = artifact[e]
            /\ (0 \in Uploaded(e))' <=> 0 \in Uploaded(e)
      <4>1. \A e \in DOMAIN saw[r] : e \in Days
        BY <1>1, AtWorkFacts
      <4> QED
        BY <1>1, <4>1 DEF Uploaded
    <3> QED
      BY <1>1, <1>2, <3>1, <3>2 DEF ChangeIsSent
  <2>2. CASE LastPiece
    <3>1. d \in DOMAIN saw[r] \ work'.todo
      BY <1>3, <2>2, SendEffect
    <3>2. (0 \in Uploaded(d))' => artifact'[d][0].run = r
      BY <1>4 DEF Sent
    <3> QED
      BY <1>1, <3>1, <3>2 DEF ChangeIsSent
  <2> QED
    BY <2>1, <2>2
<1>9. WayAgrees(r)'
  BY SendEffect DEF WayAgrees
<1> QED
  BY <1>1, <1>5, <1>7, <1>8, <1>9 DEF AtWorkInv

LEMMA AtWorkStep ==
    /\ Base /\ PastInv /\ AssetInv /\ KnownInv /\ WholeInv /\ AtWorkInv /\ RestInv
    /\ [Next]_vars
    => AtWorkInv'
<1> SUFFICES ASSUME Base, PastInv, AssetInv, KnownInv, WholeInv, AtWorkInv, RestInv, [Next]_vars,
                    Undisturbed', Walking' \/ Telling', kind'[work'.run] # "dry"
             PROVE  AtWorkInv'
  BY DEF AtWorkInv
<1> USE Constants DEF Base
<1>a. Undisturbed /\ KnownInv'
  BY UndisturbedBefore, KnownStep
<1>b. ASSUME NEW r \in Runs, NEW b \in BOOLEAN, NEW D \in SUBSET Days, Starting(r, b, D)
      PROVE  AtWorkInv'
  <2>1. work'.run = r
    BY <1>b, BeginsFields DEF Starting
  <2> QED
    BY <1>a, <1>b, <2>1, AtWorkStarts
<1>c. SUFFICES ASSUME ~\E r \in Runs, b \in BOOLEAN, D \in SUBSET Days : Starting(r, b, D)
               PROVE  AtWorkInv'
  BY <1>b
<1>1. ASSUME NEW d \in Days, Rebuild(d) PROVE AtWorkInv'
  <2>1. work'.run = work.run /\ saw' = saw /\ kind' = kind
    BY <1>1 DEF Rebuild, request, Walking, Telling
  <2>2. Walking \/ Telling
    BY <1>1 DEF Rebuild, request, Walking, Telling
  <2>3. /\ work'.todo = work.todo /\ work'.changed = work.changed
        /\ work'.errors = work.errors
        /\ work.phase = "send" => work'.phase = "send"
    BY <1>1 DEF Rebuild, request, Walking, Telling
  <2>4. \A e \in Days : StaysKnown(e)
    BY <1>1, RecordsFewer DEF Rebuild
  <2>5. work.run \in Runs
    BY <2>2, WorkIs DEF PlaceInv, Idle, Walking, Telling
  <2>6. ~\E p \in Runs : Finish(p) /\ kind[p] # "dry"
    BY <2>1, <2>5 DEF Finish, Idle
  <2> QED
    BY <1>a, <2>1, <2>2, <2>3, <2>4, <2>5, <2>6, AtWorkKept
<1>2. ASSUME NEW r \in Runs, NEW days \in Scopes,
             NEW k \in {"full", "incremental", "dry"}, Enqueue(r, k, days)
      PROVE  AtWorkInv'
  BY <1>2, <1>c, StartingOrNot
<1>3. ASSUME NEW r \in Runs, NEW days \in Scopes,
             NEW k \in {"full", "incremental", "dry"}, StartCli(r, k, days)
      PROVE  AtWorkInv'
  BY <1>3, <1>c, StartingOrNot
<1>4. ASSUME NEW r \in Runs, NEW days \in Scopes, EnqueueDisabled(r, days)
      PROVE  AtWorkInv'
  BY <1>4 DEF EnqueueDisabled, Register, PlaceInv, Idle, Walking, Telling
<1>5. ASSUME NEW r \in Runs, NEW m \in Runs, EnqueueRestore(r, m)
      PROVE  AtWorkInv'
  BY <1>5, Troubled
<1>6. ASSUME NEW r \in Runs, Cancel(r) PROVE AtWorkInv'
  <2>1. work'.run = work.run /\ saw' = saw /\ kind' = kind
    BY <1>6, WorkIs DEF Cancel, Work, request, Walking, Telling
  <2>2. Walking \/ Telling
    BY <1>6, WorkIs DEF Cancel, Work, request, Walking, Telling
  <2>3. /\ work'.todo = work.todo /\ work'.changed = work.changed
        /\ work'.errors = work.errors
        /\ work.phase = "send" => work'.phase = "send"
    BY <1>6, WorkIs DEF Cancel, Work, request, Walking, Telling
  <2>4. \A e \in Days : StaysKnown(e)
    BY <1>6, RecordsFewer DEF Cancel
  <2>5. work.run \in Runs
    BY <2>2, WorkIs DEF PlaceInv, Idle, Walking, Telling
  <2>6. ~\E p \in Runs : Finish(p) /\ kind[p] # "dry"
    BY <2>1, <2>5 DEF Finish, Idle
  <2> QED
    BY <1>a, <2>1, <2>2, <2>3, <2>4, <2>5, <2>6, AtWorkKept
<1>7. ASSUME StopAll PROVE AtWorkInv'
  <2>1. work'.run = work.run /\ saw' = saw /\ kind' = kind
    BY <1>7, WorkIs DEF StopAll, Work, request, Walking, Telling
  <2>2. Walking \/ Telling
    BY <1>7, WorkIs DEF StopAll, Work, request, Walking, Telling
  <2>3. /\ work'.todo = work.todo /\ work'.changed = work.changed
        /\ work'.errors = work.errors
        /\ work.phase = "send" => work'.phase = "send"
    BY <1>7, WorkIs DEF StopAll, Work, request, Walking, Telling
  <2>4. \A e \in Days : StaysKnown(e)
    BY <1>7, RecordsFewer DEF StopAll
  <2>5. work.run \in Runs
    BY <2>2, WorkIs DEF PlaceInv, Idle, Walking, Telling
  <2>6. ~\E p \in Runs : Finish(p) /\ kind[p] # "dry"
    BY <2>1, <2>5 DEF Finish, Idle
  <2> QED
    BY <1>a, <2>1, <2>2, <2>3, <2>4, <2>5, <2>6, AtWorkKept
<1>8. ASSUME ClearLocal PROVE AtWorkInv'
  <2>1. work'.run = work.run /\ saw' = saw /\ kind' = kind
    BY <1>8, WorkIs DEF ClearLocal, Work, request, Walking, Telling
  <2>2. Walking \/ Telling
    BY <1>8, WorkIs DEF ClearLocal, Work, request, Walking, Telling
  <2>3. /\ work'.todo = work.todo /\ work'.changed = work.changed
        /\ work'.errors = work.errors
        /\ work.phase = "send" => work'.phase = "send"
    BY <1>8, WorkIs DEF ClearLocal, Work, request, Walking, Telling
  <2>4. \A e \in Days : StaysKnown(e)
    BY <1>8, RecordsFewer DEF ClearLocal
  <2>5. work.run \in Runs
    BY <2>2, WorkIs DEF PlaceInv, Idle, Walking, Telling
  <2>6. ~\E p \in Runs : Finish(p) /\ kind[p] # "dry"
    BY <2>1, <2>5 DEF Finish, Idle
  <2> QED
    BY <1>a, <2>1, <2>2, <2>3, <2>4, <2>5, <2>6, AtWorkKept
<1>9. ASSUME NEW r \in Runs, ThrowEarly(r) PROVE AtWorkInv'
  BY <1>9 DEF ThrowEarly, Rejected, Restarted, Idle, Walking, Telling
<1>10. ASSUME NEW r \in Runs, NotReady(r) PROVE AtWorkInv'
  BY <1>10 DEF NotReady, Idle, Walking, Telling
<1>11. ASSUME NEW r \in Runs, Ready(r) PROVE AtWorkInv'
  BY <1>11, <1>c, StartingOrNot
<1>12. ASSUME NEW r \in Runs, NEW d \in Days, ReadFile(r, d)
       PROVE  AtWorkInv'
  <2>1. work'.run = work.run /\ saw' = saw /\ kind' = kind
    BY <1>12, WorkIs DEF ReadFile, Work, Phased, request, Walking, Telling
  <2>2. Walking \/ Telling
    BY <1>12, WorkIs DEF ReadFile, Work, Phased, request, Walking, Telling
  <2>3. /\ work'.todo = work.todo /\ work'.changed = work.changed
        /\ work'.errors = work.errors
        /\ work.phase = "send" => work'.phase = "send"
    BY <1>12, WorkIs DEF ReadFile, Work, Phased, request, Walking, Telling
  <2>4. \A e \in Days : StaysKnown(e)
    BY <1>12, RecordsFewer DEF ReadFile
  <2>5. work.run \in Runs
    BY <2>2, WorkIs DEF PlaceInv, Idle, Walking, Telling
  <2>6. ~\E p \in Runs : Finish(p) /\ kind[p] # "dry"
    BY <2>1, <2>5 DEF Finish, Idle
  <2> QED
    BY <1>a, <2>1, <2>2, <2>3, <2>4, <2>5, <2>6, AtWorkKept
<1>13. ASSUME NEW r \in Runs, NEW d \in Days, Unreadable(r, d)
       PROVE  AtWorkInv'
  <2>1. kind' = kind /\ work'.run = r
    BY <1>13, WorkIs DEF Unreadable, Reading, Phased, Noted, Done, Work, request
  <2> QED
    BY <1>13, <1>a, <2>1, AtWorkUnreadable
<1>14. ASSUME NEW r \in Runs, NEW d \in Days, Skip(r, d) PROVE AtWorkInv'
  <2>1. kind' = kind /\ work'.run = r
    BY <1>14, SkipEffect DEF Skip, request
  <2> QED
    BY <1>14, <1>a, <2>1, AtWorkSkips
<1>15. ASSUME NEW r \in Runs, NEW d \in Days, DryRun(r, d) PROVE AtWorkInv'
  <2>1. kind'[work'.run] = "dry"
    BY <1>15, WorkIs DEF DryRun, Reading, Phased, Done, Work, request
  <2> QED
    BY <2>1
<1>16. ASSUME NEW r \in Runs, NEW d \in Days, StartUpload(r, d)
       PROVE  AtWorkInv'
  <2>1. work'.run = work.run /\ saw' = saw /\ kind' = kind
    BY <1>16, UploadEffect DEF StartUpload, request, Walking, Telling
  <2>2. Walking \/ Telling
    BY <1>16, UploadEffect DEF StartUpload, request, Walking, Telling
  <2>3. /\ work'.todo = work.todo /\ work'.changed = work.changed
        /\ work'.errors = work.errors
        /\ work.phase = "send" => work'.phase = "send"
    BY <1>16, UploadEffect DEF StartUpload, request, Walking, Telling
  <2>4. \A e \in Days : StaysKnown(e)
    BY <1>16, UploadEffect DEF StaysKnown, Uploaded
  <2>5. work.run \in Runs
    BY <2>2, WorkIs DEF PlaceInv, Idle, Walking, Telling
  <2>6. ~\E p \in Runs : Finish(p) /\ kind[p] # "dry"
    BY <2>1, <2>5 DEF Finish, Idle
  <2> QED
    BY <1>a, <2>1, <2>2, <2>3, <2>4, <2>5, <2>6, AtWorkKept
<1>17. ASSUME NEW r \in Runs, NEW d \in Days, SendPiece(r, d)
       PROVE  AtWorkInv'
  <2>1. kind' = kind /\ work'.run = r
    BY <1>17, SendEffect DEF SendPiece, request
  <2> QED
    BY <1>17, <1>a, <2>1, AtWorkSends
<1>18. ASSUME NEW r \in Runs, NEW d \in Days, FailPiece(r, d)
       PROVE  AtWorkInv'
  BY <1>18, Troubled
<1>19. ASSUME NEW r \in Runs, StartCatalogue(r) PROVE AtWorkInv'
  <2>1. /\ work.run = r /\ work.phase = "walk" /\ Walking /\ SameRun
        /\ saw' = saw /\ kind' = kind /\ artifact' = artifact
    BY <1>19, CatalogueStarts DEF request, Walking
  <2>2. kind[r] # "dry"
    BY <2>1 DEF SameRun
  <2>3. PICK g \in work.groups : /\ work'.groups = work.groups \ {g}
                                 /\ Publishes(r, g) \/ Reuses(r, g) \/ Counts(r)
    BY <1>19, CatalogueStarts
  <2>4. work.groups = {g}
    BY <1>a, <2>1, <2>2, OneGroupLeft
  <2>5. work'.changed = work.changed
    BY <2>2, <2>3, <2>4 DEF Publishes, Reuses, Counts
  <2>6. \A e \in Days : StaysKnown(e)
    BY <2>1, RecordsFewer
  <2>7. ~\E p \in Runs : Finish(p) /\ kind[p] # "dry"
    BY <2>1 DEF Finish, Idle, SameRun
  <2> QED
    BY <1>a, <2>1, <2>2, <2>5, <2>6, <2>7, AtWorkKept DEF SameRun
<1>20. ASSUME NEW r \in Runs, CatalogueSent(r) PROVE AtWorkInv'
  <2>1. /\ work.run = r /\ work.phase = "catalogue" /\ Telling /\ SameRun
        /\ saw' = saw /\ kind' = kind /\ artifact' = artifact
    BY <1>20, CatalogueIsSent DEF request, Telling
  <2>2. kind[r] # "dry"
    BY <2>1 DEF SameRun
  <2>3. work.groups = {}
    BY <1>a, <2>1, <2>2, OneGroupLeft
  <2>4. work'.changed = work.changed
    BY <1>20, <2>3, CatalogueIsSent
  <2>5. \A e \in Days : StaysKnown(e)
    BY <2>1, RecordsFewer
  <2>6. ~\E p \in Runs : Finish(p) /\ kind[p] # "dry"
    BY <2>1 DEF Finish, Idle, SameRun
  <2> QED
    BY <1>a, <2>1, <2>2, <2>4, <2>5, <2>6, AtWorkKept DEF SameRun
<1>21. ASSUME NEW r \in Runs, MasterSent(r) PROVE AtWorkInv'
  <2>1. work'.run = work.run /\ saw' = saw /\ kind' = kind
    BY <1>21, WorkIs DEF MasterSent, Work, Phased, request, Walking, Telling
  <2>2. Walking \/ Telling
    BY <1>21, WorkIs DEF MasterSent, Work, Phased, request, Walking, Telling
  <2>3. /\ work'.todo = work.todo /\ work'.changed = work.changed
        /\ work'.errors = work.errors
        /\ work.phase = "send" => work'.phase = "send"
    BY <1>21, WorkIs DEF MasterSent, Work, Phased, request, Walking, Telling
  <2>4. \A e \in Days : StaysKnown(e)
    BY <1>21, RecordsFewer DEF MasterSent
  <2>5. work.run \in Runs
    BY <2>2, WorkIs DEF PlaceInv, Idle, Walking, Telling
  <2>6. ~\E p \in Runs : Finish(p) /\ kind[p] # "dry"
    BY <2>1, <2>5 DEF Finish, Idle
  <2> QED
    BY <1>a, <2>1, <2>2, <2>3, <2>4, <2>5, <2>6, AtWorkKept
<1>22. ASSUME NEW r \in Runs, Finish(r) PROVE AtWorkInv'
  BY <1>22 DEF Finish, Idle, Walking, Telling
<1>23. ASSUME NEW r \in Runs, StopAtCheck(r) PROVE AtWorkInv'
  BY <1>23 DEF StopAtCheck, Idle, Walking, Telling
<1>24. ASSUME NEW r \in Runs, Break(r) PROVE AtWorkInv'
  BY <1>24, Troubled
<1>25. ASSUME NEW r \in Runs, NEW d \in Days, RestoreDay(r, d)
       PROVE  AtWorkInv'
  BY <1>25, Troubled
<1>26. ASSUME NEW r \in Runs, NEW d \in Days, RefuseDay(r, d)
       PROVE  AtWorkInv'
  BY <1>26, Troubled
<1>27. ASSUME NEW r \in Runs, FinishRestore(r) PROVE AtWorkInv'
  BY <1>27, Troubled
<1>28. ASSUME NEW r \in Runs, StopRestore(r) PROVE AtWorkInv'
  BY <1>28, Troubled
<1>29. ASSUME NEW r \in Runs, BreakRestore(r) PROVE AtWorkInv'
  BY <1>29, Troubled
<1>30. ASSUME Restart PROVE AtWorkInv'
  BY <1>30, Crashed
<1>31. ASSUME CliDie PROVE AtWorkInv'
  BY <1>31, Crashed
<1>32. CASE UNCHANGED vars
  <2>1. work'.run = work.run /\ saw' = saw /\ kind' = kind
    BY <1>32 DEF vars, request, Walking, Telling
  <2>2. Walking \/ Telling
    BY <1>32 DEF vars, request, Walking, Telling
  <2>3. /\ work'.todo = work.todo /\ work'.changed = work.changed
        /\ work'.errors = work.errors
        /\ work.phase = "send" => work'.phase = "send"
    BY <1>32 DEF vars, request, Walking, Telling
  <2>4. \A e \in Days : StaysKnown(e)
    BY <1>32, RecordsFewer DEF vars
  <2>5. work.run \in Runs
    BY <2>2, WorkIs DEF PlaceInv, Idle, Walking, Telling
  <2>6. ~\E p \in Runs : Finish(p) /\ kind[p] # "dry"
    BY <2>1, <2>5 DEF Finish, Idle
  <2> QED
    BY <1>a, <2>1, <2>2, <2>3, <2>4, <2>5, <2>6, AtWorkKept
<1>33. ASSUME NEW r \in Runs, NextAsset(r)
       PROVE  AtWorkInv'
  BY <1>33, Troubled
<1> QED
  BY <1>1, <1>2, <1>3, <1>4, <1>5, <1>6, <1>7, <1>8, <1>9, <1>10, <1>11,
     <1>12, <1>13, <1>14, <1>15, <1>16, <1>17, <1>18, <1>19, <1>20, <1>21,
     <1>22, <1>23, <1>24, <1>25, <1>26, <1>27, <1>28, <1>29, <1>30, <1>31,
     <1>32, <1>33
     DEF Next, BackupStep, RestoreStep

-----------------------------------------------------------------------------
(* What a backup has passed is whole in its catalogues.                    *)

LEMMA CoverInit == Init => CoverInv
<1> QED
  BY DEF Init, CoverInv, Idle

(* An entry more.                                                          *)
LEMMA NamesMore ==
    ASSUME NEW A, NEW r, NEW d, NEW D, Names(A \cup {work.entries}, r, D)
    PROVE  Names(A \cup {WithEntry(d, Whole(r, d))}, r, D \cup {d})
<1> DEFINE old == work.entries
           new == WithEntry(d, Whole(r, d))
<1>1. DOMAIN new = {d} \cup DOMAIN old
  BY DEF WithEntry
<1>2. \A e \in {d} \cup DOMAIN old : new[e] = IF e = d THEN Whole(r, d) ELSE old[e]
  BY DEF WithEntry
<1>3. /\ \A e \in D : e \in DOMAIN old \/ \E c \in A : e \in DOMAIN c
      /\ \A c \in A : \A e \in DOMAIN c \cap DOMAIN saw[r] : c[e] = Whole(r, e)
      /\ \A e \in DOMAIN old \cap DOMAIN saw[r] : old[e] = Whole(r, e)
  BY DEF Names
<1> HIDE DEF old, new
<1>4. \A e \in D \cup {d} : e \in DOMAIN new \/ \E c \in A : e \in DOMAIN c
  BY <1>1, <1>3
<1>5. \A e \in DOMAIN new \cap DOMAIN saw[r] : new[e] = Whole(r, e)
  BY <1>1, <1>2, <1>3
<1>6. Names(A \cup {new}, r, D \cup {d})
  BY <1>3, <1>4, <1>5 DEF Names
<1> QED
  BY <1>6 DEF new

LEMMA TrustedBefore ==
    ASSUME Base, [Next]_vars, NEW r \in Runs, row[r] # "none", Trusted(r)'
    PROVE  Trusted(r) /\ kind'[r] = kind[r]
<1> QED
  BY RequestsKept, UndisturbedBefore DEF RequestsStay, Trusted

(* A step after which the backup is where it was, or further with the same *)
(* entries.                                                                *)
LEMMA CoverKept ==
    ASSUME Base, CoverInv, [Next]_vars, NEW r \in Runs, work.run = r, work'.run = r,
           UNCHANGED <<saw, assets>>,
           work'.todo = work.todo, work'.errors = work.errors,
           work'.entries = work.entries,
           Walking' => Walking, Telling' => Telling,
           work'.phase = "final" => work.phase = "final" \/ r \in sent', sent \subseteq sent'
    PROVE  CoverInv'
<1>1. row[r] # "none"
  BY Constants DEF Base, PlaceInv
<1>2. SUFFICES ASSUME Trusted(r)', ~work.errors
               PROVE  /\ Walking' /\ kind'[r] # "dry" =>
                             Names(Assets(r) \cup {work.entries}, r, DOMAIN saw[r] \ work.todo)'
                      /\ Telling' => Names(Assets(r), r, DOMAIN saw[r] \ work.todo)'
                      /\ work'.phase = "final" => r \in sent'
  BY DEF CoverInv
<1>3. Trusted(r) /\ kind'[r] = kind[r]
  BY <1>1, <1>2, TrustedBefore
<1>4. /\ Walking /\ kind[r] # "dry" =>
             Names(Assets(r) \cup {work.entries}, r, DOMAIN saw[r] \ work.todo)
      /\ Telling => Names(Assets(r), r, DOMAIN saw[r] \ work.todo)
      /\ work.phase = "final" => r \in sent
  BY <1>2, <1>3, Constants DEF CoverInv
<1>5. Assets(r)' = Assets(r)
  BY DEF Assets
<1> QED
  BY <1>3, <1>4, <1>5 DEF Names, Whole

(* A partition is done, and its entry is whole.                            *)
LEMMA CoverGrows ==
    ASSUME Base, CoverInv, [Next]_vars, NEW r \in Runs, NEW d \in Days,
           work.run = r, Walking, kind[r] # "dry", Trusted(r), ~work.errors,
           work'.run = r, work'.phase = "walk", UNCHANGED <<saw, assets>>,
           work'.todo = work.todo \ {d}, work'.entries = WithEntry(d, Whole(r, d))
    PROVE  CoverInv'
<1>1. Names(Assets(r) \cup {work.entries}, r, DOMAIN saw[r] \ work.todo)
  BY Constants DEF CoverInv
<1>2. Names(Assets(r) \cup {work'.entries}, r, (DOMAIN saw[r] \ work.todo) \cup {d})
  BY <1>1, NamesMore
<1>3. Assets(r)' = Assets(r)
  BY DEF Assets
<1>4. Names(Assets(r) \cup {work.entries}, r, DOMAIN saw[r] \ work.todo)'
  BY <1>2, <1>3 DEF Names, Whole
<1> QED
  BY <1>4 DEF CoverInv, Telling

LEMMA CoverSkips ==
    ASSUME Base, PastInv, WholeInv, CoverInv, [Next]_vars, NEW r \in Runs, NEW d \in Days,
           Skip(r, d)
    PROVE  CoverInv'
<1> USE Constants, BackupAssumption DEF Base
<1>1. /\ work.run = r /\ Walking /\ work.phase = "read" /\ row[r] # "none"
      /\ d \in DOMAIN saw[r] /\ work.incremental /\ KnownVersion(d) = saw[r][d]
  BY SkipEffect DEF Walking, PlaceInv
<1>2. /\ work'.run = r /\ work'.phase = "walk" /\ work'.todo = work.todo \ {d}
      /\ work'.errors = work.errors /\ work'.entries = WithEntry(d, SkippedEntry(d))
      /\ saw' = saw /\ kind' = kind /\ assets' = assets
  <2>1. saw' = saw /\ kind' = kind /\ assets' = assets
    BY DEF Skip, request, channel
  <2> QED
    BY <2>1, SkipEffect
<1>3. CASE ~Trusted(r)' \/ work.errors \/ kind[r] = "dry"
  BY <1>2, <1>3 DEF CoverInv, Telling
<1>4. CASE Trusted(r)' /\ ~work.errors /\ kind[r] # "dry"
  <2>1. Trusted(r) /\ kind[r] # "full"
    BY <1>1, <1>4, TrustedBefore DEF PlaceInv
  <2>2. Undisturbed
    BY <2>1 DEF Trusted
  <2>3. saw[r][d] \in 1 .. MaxVersion
    BY <1>1, ManifestIs DEF TypeOK
  <2>4. 0 \in Uploaded(d) /\ artifact[d][0].version = saw[r][d]
    BY <1>1, <2>3 DEF KnownVersion
  <2>5. \A c \in Chunks : artifact[d][c] = artifact[d][0]
    BY <1>1, <2>2, <2>4 DEF WholeInv, Sending
  <2>6. LatestUpload(d) = Chunks
    <3>1. Uploaded(d) = Chunks
      BY <2>4, <2>5 DEF Uploaded
    <3>2. artifact[d][0].run \in Int
      <4>1. artifact[d][0] \in Artifact /\ NoRun \in Int
        BY DEF TypeOK, NoRun
      <4>2. \A x \in Artifact : x.run \in Runs \/ x.run = NoRun
        BY DEF Artifact
      <4> QED
        BY <4>1, <4>2 DEF Runs
    <3> QED
      BY <2>5, <3>1, <3>2 DEF LatestUpload
  <2>7. SkippedEntry(d) = Whole(r, d)
    BY <2>4, <2>6 DEF SkippedEntry, Whole
  <2> QED
    BY <1>1, <1>2, <1>4, <2>1, <2>7, CoverGrows
<1> QED
  BY <1>3, <1>4

LEMMA CoverSends ==
    ASSUME Base, PastInv, CoverInv, [Next]_vars, NEW r \in Runs, NEW d \in Days,
           SendPiece(r, d)
    PROVE  CoverInv'
<1> USE Constants DEF Base
<1>1. work.run = r /\ Walking /\ row[r] # "none" /\ kind[r] # "dry" /\ work.phase = "send"
  BY SendEffect DEF Walking, PlaceInv
<1>2. work'.run = r /\ work'.errors = work.errors /\ saw' = saw /\ UNCHANGED <<assets, sent>>
  BY SendEffect DEF SendPiece, channel
<1>3. CASE ~LastPiece
  <2>1. /\ work'.todo = work.todo /\ work'.entries = work.entries /\ work'.phase = "send"
    BY <1>3, SendEffect
  <2> QED
    BY <1>1, <1>2, <2>1, CoverKept DEF Walking, Telling
<1>4. CASE LastPiece
  <2>1. /\ work'.phase = "walk" /\ work'.todo = work.todo \ {d}
        /\ work'.entries = WithEntry(d, Whole(r, d))
    BY <1>4, SendEffect DEF Whole
  <2>2. CASE ~Trusted(r)' \/ work.errors
    BY <1>2, <2>1, <2>2 DEF CoverInv
  <2>3. CASE Trusted(r)' /\ ~work.errors
    <3>1. Trusted(r)
      BY <1>1, <2>3, TrustedBefore
    <3> QED
      BY <1>1, <1>2, <2>1, <2>3, <3>1, CoverGrows
  <2> QED
    BY <2>2, <2>3
<1> QED
  BY <1>3, <1>4

(* The catalogue of a group is that of the walk, or that of the same group *)
(* in the last completed backup.                                           *)
LEMMA CoverCatalogue ==
    ASSUME Base, PastInv, AssetInv, KnownInv, AtWorkInv, CompletedCoversLake, CoverInv,
           [Next]_vars, NEW r \in Runs, StartCatalogue(r)
    PROVE  CoverInv'
<1> USE Constants DEF Base
<1>1. /\ work.run = r /\ work.phase = "walk" /\ Walking /\ row[r] # "none" /\ row[r] # "completed"
      /\ SameRun /\ saw' = saw /\ kind' = kind
  BY CatalogueStarts DEF Walking, PlaceInv, Over, request
<1>2. PICK g \in Groups : /\ g \in work.groups /\ \A d \in work.todo : GroupOf[d] # g
                          /\ Publishes(r, g) \/ Reuses(r, g) \/ Counts(r)
  BY CatalogueStarts
<1>3. CASE Counts(r)
  BY <1>1, <1>3 DEF Counts, CoverInv, SameRun, Telling
<1>4. CASE Publishes(r, g)
  <2> SUFFICES ASSUME Trusted(r)', ~work.errors
               PROVE  Names(Assets(r), r, DOMAIN saw[r] \ work.todo)'
    BY <1>1, <1>4 DEF Publishes, CoverInv, SameRun, Walking
  <2>1. Names(Assets(r) \cup {work.entries}, r, DOMAIN saw[r] \ work.todo)
    BY <1>1, <1>4, TrustedBefore DEF Publishes, CoverInv
  <2>2. g \notin DOMAIN assets[r]
    BY <1>1, <1>2, <1>4 DEF AssetInv, Publishes
  <2>3. /\ DOMAIN assets'[r] = {g} \cup DOMAIN assets[r] /\ assets'[r][g] = work.entries
        /\ \A h \in DOMAIN assets[r] : h # g => assets'[r][h] = assets[r][h]
    BY <1>4, WorkIs, WithAssetIs DEF Publishes
  <2>4. Assets(r)' = Assets(r) \cup {work.entries}
    BY <2>2, <2>3 DEF Assets
  <2> QED
    BY <1>1, <2>1, <2>4 DEF Names, Whole, SameRun
<1>5. CASE Reuses(r, g)
  <2> SUFFICES ASSUME Trusted(r)', ~work.errors
               PROVE  /\ work'.phase = "master"
                      /\ Names(Assets(r), r, DOMAIN saw[r])'
    BY <1>1 DEF CoverInv, SameRun, Walking, Names, Whole
  <2>1. Undisturbed /\ kind[r] # "dry"
    BY <1>1, <1>5, TrustedBefore DEF Reuses, Trusted, PlaceInv
  <2>2. /\ work.groups = {g} /\ DOMAIN assets[r] = {} /\ work.todo = {}
        /\ \A q \in sent : DOMAIN assets[q] = {g}
    BY <1>1, <1>2, <2>1, OneGroupLeft
  <2>3. work'.phase = "master"
    BY <1>2, <2>2, <1>5, CatalogueStarts DEF Reuses
  <2>4. PICK q, h : /\ q \in Previous(g) /\ IsLast(q, Previous(g)) /\ h \in DOMAIN assets[q]
                    /\ assets' = WithAsset(r, g, assets[q][h])
    BY <1>5 DEF Reuses, First, Related
  <2>5. q \in Ended /\ q \in sent /\ q \in Runs /\ row[q] = "completed" /\ h = g
    BY <2>2, <2>4 DEF Previous, Ended, Completed
  <2>6. IsLast(q, Ended)
    <3>1. Previous(g) = Ended
      BY <2>2 DEF Previous, Related, Ended
    <3> QED
      BY <2>4, <3>1
  <2>7. Covers(q)
    BY <2>1, <2>5 DEF CompletedCoversLake, CompletedBackups, Completed, PastInv
  <2>8. \A d \in DOMAIN saw[r] : d \in DOMAIN saw[q] /\ saw[q][d] = saw[r][d]
    <3>1. WayAgrees(r) /\ ~work.changed
      BY <1>1, <1>5, <2>1 DEF AtWorkInv, Reuses
    <3> QED
      BY <1>1, <2>2, <2>5, <2>6, <3>1 DEF WayAgrees, SameWay
  <2> DEFINE c == assets[q][g]
  <2>9. Assets(q) = {c} /\ c \in Catalogue
    <3>1. g \in DOMAIN assets[q] /\ assets[q] \in Master
      BY <2>2, <2>5 DEF TypeOK
    <3> QED
      BY <2>2, <2>5, <3>1, MasterIs DEF Assets
  <2>10. Assets(r)' = {c}
    <3>1. DOMAIN assets'[r] = {g} /\ assets'[r][g] = c
      BY <2>2, <2>4, <2>5, <2>9, WithAssetIs
    <3> QED
      BY <3>1 DEF Assets
  <2> HIDE DEF c
  <2>11. /\ \A d \in DOMAIN saw[q] : d \in DOMAIN c
         /\ \A d \in DOMAIN c \cap DOMAIN saw[q] : c[d] = Whole(q, d)
    BY <2>7, <2>9 DEF Covers, Names
  <2>12. Names({c}, r, DOMAIN saw[r])
    BY <2>8, <2>11 DEF Names, Whole
  <2> QED
    BY <1>1, <2>3, <2>10, <2>12 DEF Names, Whole
<1> QED
  BY <1>2, <1>3, <1>4, <1>5

(* The walk goes on with the next group, without entries.                  *)
LEMMA CoverGoesOn ==
    ASSUME Base, CoverInv, [Next]_vars, NEW r \in Runs, CatalogueSent(r)
    PROVE  CoverInv'
<1> USE Constants DEF Base
<1>1. /\ work.run = r /\ Telling /\ row[r] # "none" /\ SameRun
      /\ work'.phase = "master" \/ (work'.phase = "walk" /\ work'.entries = Nothing)
      /\ UNCHANGED <<saw, assets>>
  BY CatalogueIsSent DEF Telling, PlaceInv, channel
<1> SUFFICES ASSUME Trusted(r)', ~work.errors
             PROVE  /\ work'.phase = "walk" =>
                           Names(Assets(r) \cup {work.entries}, r, DOMAIN saw[r] \ work.todo)'
                    /\ Names(Assets(r), r, DOMAIN saw[r] \ work.todo)'
  BY <1>1 DEF CoverInv, SameRun, Walking
<1>2. Names(Assets(r), r, DOMAIN saw[r] \ work.todo)
  BY <1>1, TrustedBefore DEF CoverInv
<1>3. Assets(r)' = Assets(r) /\ work'.todo = work.todo /\ saw' = saw
  BY <1>1 DEF Assets, SameRun
<1>4. Names(Assets(r), r, DOMAIN saw[r] \ work.todo)'
  BY <1>2, <1>3 DEF Names, Whole
<1>5. ASSUME work'.phase = "walk"
      PROVE  Names(Assets(r) \cup {work.entries}, r, DOMAIN saw[r] \ work.todo)'
  <2>1. DOMAIN work'.entries = {}
    BY <1>1, <1>5 DEF Nothing
  <2> QED
    BY <1>4, <2>1 DEF Names
<1> QED
  BY <1>4, <1>5

LEMMA CoverStarts ==
    ASSUME Base, AssetInv, [Next]_vars,
           NEW r \in Runs, NEW b \in BOOLEAN, NEW D \in SUBSET Days, Starting(r, b, D)
    PROVE  CoverInv'
<1>1. work'.run = r /\ work'.phase = "walk" /\ work'.todo = D /\ DOMAIN work'.entries = {}
  BY BeginsFields DEF Starting, Nothing
<1>2. DOMAIN saw'[r] = D
  BY DEF Starting, Begins, Base, TypeOK
<1>3. Assets(r)' = {}
  BY AssetStarts DEF Assets, Nothing
<1> QED
  BY <1>1, <1>2, <1>3 DEF CoverInv, Names, Telling

LEMMA CoverStep ==
    /\ Base /\ PastInv /\ AssetInv /\ KnownInv /\ WholeInv /\ AtWorkInv
    /\ CompletedCoversLake /\ CoverInv /\ [Next]_vars
    => CoverInv'
<1> SUFFICES ASSUME Base, PastInv, AssetInv, KnownInv, WholeInv, AtWorkInv,
                    CompletedCoversLake, CoverInv, [Next]_vars
             PROVE  CoverInv'
  OBVIOUS
<1> USE Constants DEF Base
<1>b. ASSUME NEW r \in Runs, NEW b \in BOOLEAN, NEW D \in SUBSET Days, Starting(r, b, D)
      PROVE  CoverInv'
  BY <1>b, CoverStarts
<1>c. SUFFICES ASSUME ~\E r \in Runs, b \in BOOLEAN, D \in SUBSET Days : Starting(r, b, D)
               PROVE  CoverInv'
  BY <1>b
<1>1. ASSUME NEW d \in Days, Rebuild(d) PROVE CoverInv'
  <2>1. CASE work.run = NoRun
    <3>1. work'.run = NoRun
      BY <1>1, <2>1 DEF Rebuild
    <3> QED
      BY <3>1 DEF CoverInv
  <2>2. CASE work.run # NoRun
    <3>1. /\ work.run \in Runs /\ work'.run = work.run
          /\ work'.todo = work.todo /\ work'.errors = work.errors
          /\ work'.entries = work.entries
      BY <1>1, <2>2, WorkIs DEF Rebuild
    <3>2. UNCHANGED <<saw, assets>> /\ sent \subseteq sent'
      BY <1>1 DEF Rebuild, channel
    <3>3. /\ Walking' => Walking
          /\ Telling' => Telling
          /\ work'.phase = "final" => work.phase = "final" \/ work.run \in sent'
      BY <1>1, <2>2 DEF Rebuild, Walking, Telling
    <3> QED
      BY <3>1, <3>2, <3>3, CoverKept
  <2> QED
    BY <2>1, <2>2
<1>2. ASSUME NEW r \in Runs, NEW days \in Scopes,
             NEW k \in {"full", "incremental", "dry"}, Enqueue(r, k, days)
      PROVE  CoverInv'
  <2>1. ~Walking' /\ ~Telling'
    BY <1>2, <1>c, StartingOrNot
  <2> QED
    BY <2>1 DEF CoverInv, Telling
<1>3. ASSUME NEW r \in Runs, NEW days \in Scopes,
             NEW k \in {"full", "incremental", "dry"}, StartCli(r, k, days)
      PROVE  CoverInv'
  <2>1. ~Walking' /\ ~Telling'
    BY <1>3, <1>c, StartingOrNot
  <2> QED
    BY <2>1 DEF CoverInv, Telling
<1>4. ASSUME NEW r \in Runs, NEW days \in Scopes, EnqueueDisabled(r, days)
      PROVE  CoverInv'
  <2>1. work'.run = NoRun
    BY <1>4 DEF EnqueueDisabled, Register
  <2> QED
    BY <2>1 DEF CoverInv
<1>5. ASSUME NEW r \in Runs, NEW m \in Runs, EnqueueRestore(r, m)
      PROVE  CoverInv'
  <2>1. work'.phase = "restore"
    BY <1>5, WorkIs DEF EnqueueRestore, Phased, Idle, Work
  <2> QED
    BY <2>1 DEF CoverInv, Walking, Telling
<1>6. ASSUME NEW r \in Runs, Cancel(r) PROVE CoverInv'
  <2>1. CASE work.run = NoRun
    <3>1. work'.run = NoRun
      BY <1>6, <2>1, WorkIs DEF Cancel, Work
    <3> QED
      BY <3>1 DEF CoverInv
  <2>2. CASE work.run # NoRun
    <3>1. /\ work.run \in Runs /\ work'.run = work.run
          /\ work'.todo = work.todo /\ work'.errors = work.errors
          /\ work'.entries = work.entries
      BY <1>6, <2>2, WorkIs, WorkIs DEF Cancel, Work
    <3>2. UNCHANGED <<saw, assets>> /\ sent \subseteq sent'
      BY <1>6 DEF Cancel, channel
    <3>3. /\ Walking' => Walking
          /\ Telling' => Telling
          /\ work'.phase = "final" => work.phase = "final" \/ work.run \in sent'
      BY <1>6, <2>2, WorkIs DEF Cancel, Work, Walking, Telling
    <3> QED
      BY <3>1, <3>2, <3>3, CoverKept
  <2> QED
    BY <2>1, <2>2
<1>7. ASSUME StopAll PROVE CoverInv'
  <2>1. CASE work.run = NoRun
    <3>1. work'.run = NoRun
      BY <1>7, <2>1, WorkIs DEF StopAll, Work
    <3> QED
      BY <3>1 DEF CoverInv
  <2>2. CASE work.run # NoRun
    <3>1. /\ work.run \in Runs /\ work'.run = work.run
          /\ work'.todo = work.todo /\ work'.errors = work.errors
          /\ work'.entries = work.entries
      BY <1>7, <2>2, WorkIs, WorkIs DEF StopAll, Work
    <3>2. UNCHANGED <<saw, assets>> /\ sent \subseteq sent'
      BY <1>7 DEF StopAll, channel
    <3>3. /\ Walking' => Walking
          /\ Telling' => Telling
          /\ work'.phase = "final" => work.phase = "final" \/ work.run \in sent'
      BY <1>7, <2>2, WorkIs DEF StopAll, Work, Walking, Telling
    <3> QED
      BY <3>1, <3>2, <3>3, CoverKept
  <2> QED
    BY <2>1, <2>2
<1>8. ASSUME ClearLocal PROVE CoverInv'
  <2>1. CASE work.run = NoRun
    <3>1. work'.run = NoRun
      BY <1>8, <2>1, WorkIs DEF ClearLocal, Work
    <3> QED
      BY <3>1 DEF CoverInv
  <2>2. CASE work.run # NoRun
    <3>1. /\ work.run \in Runs /\ work'.run = work.run
          /\ work'.todo = work.todo /\ work'.errors = work.errors
          /\ work'.entries = work.entries
      BY <1>8, <2>2, WorkIs, WorkIs DEF ClearLocal, Work
    <3>2. UNCHANGED <<saw, assets>> /\ sent \subseteq sent'
      BY <1>8 DEF ClearLocal, channel
    <3>3. /\ Walking' => Walking
          /\ Telling' => Telling
          /\ work'.phase = "final" => work.phase = "final" \/ work.run \in sent'
      BY <1>8, <2>2, WorkIs DEF ClearLocal, Work, Walking, Telling
    <3> QED
      BY <3>1, <3>2, <3>3, CoverKept
  <2> QED
    BY <2>1, <2>2
<1>9. ASSUME NEW r \in Runs, ThrowEarly(r) PROVE CoverInv'
  <2>1. work'.run = NoRun
    BY <1>9 DEF ThrowEarly, Rejected, Restarted, Idle
  <2> QED
    BY <2>1 DEF CoverInv
<1>10. ASSUME NEW r \in Runs, NotReady(r) PROVE CoverInv'
  <2>1. work'.run = NoRun
    BY <1>10 DEF NotReady, Idle
  <2> QED
    BY <2>1 DEF CoverInv
<1>11. ASSUME NEW r \in Runs, Ready(r) PROVE CoverInv'
  <2>1. ~Walking' /\ ~Telling'
    BY <1>11, <1>c, StartingOrNot
  <2> QED
    BY <2>1 DEF CoverInv, Telling
<1>12. ASSUME NEW r \in Runs, NEW d \in Days, ReadFile(r, d)
       PROVE  CoverInv'
  <2>1. CASE work.run = NoRun
    <3>1. work'.run = NoRun
      BY <1>12, <2>1, WorkIs DEF ReadFile, Work, Phased
    <3> QED
      BY <3>1 DEF CoverInv
  <2>2. CASE work.run # NoRun
    <3>1. /\ work.run \in Runs /\ work'.run = work.run
          /\ work'.todo = work.todo /\ work'.errors = work.errors
          /\ work'.entries = work.entries
      BY <1>12, <2>2, WorkIs, WorkIs DEF ReadFile, Work, Phased
    <3>2. UNCHANGED <<saw, assets>> /\ sent \subseteq sent'
      BY <1>12 DEF ReadFile, channel
    <3>3. /\ Walking' => Walking
          /\ Telling' => Telling
          /\ work'.phase = "final" => work.phase = "final" \/ work.run \in sent'
      BY <1>12, <2>2, WorkIs DEF ReadFile, Work, Phased, Walking, Telling
    <3> QED
      BY <3>1, <3>2, <3>3, CoverKept
  <2> QED
    BY <2>1, <2>2
<1>13. ASSUME NEW r \in Runs, NEW d \in Days, Unreadable(r, d)
       PROVE  CoverInv'
  <2>1. work'.errors
    BY <1>13, WorkIs DEF Unreadable, Noted, Done, Work
  <2> QED
    BY <2>1 DEF CoverInv
<1>14. ASSUME NEW r \in Runs, NEW d \in Days, Skip(r, d) PROVE CoverInv'
  BY <1>14, CoverSkips
<1>15. ASSUME NEW r \in Runs, NEW d \in Days, DryRun(r, d) PROVE CoverInv'
  <2>1. work'.run = r /\ work'.phase = "walk" /\ kind'[r] = "dry"
    BY <1>15, WorkIs DEF DryRun, Reading, Phased, Done, Work, request
  <2> QED
    BY <2>1 DEF CoverInv, Telling
<1>16. ASSUME NEW r \in Runs, NEW d \in Days, StartUpload(r, d)
       PROVE  CoverInv'
  <2>1. CASE work.run = NoRun
    <3>1. work'.run = NoRun
      BY <1>16, <2>1, UploadEffect DEF StartUpload
    <3> QED
      BY <3>1 DEF CoverInv
  <2>2. CASE work.run # NoRun
    <3>1. /\ work.run \in Runs /\ work'.run = work.run
          /\ work'.todo = work.todo /\ work'.errors = work.errors
          /\ work'.entries = work.entries
      BY <1>16, <2>2, WorkIs, UploadEffect DEF StartUpload
    <3>2. UNCHANGED <<saw, assets>> /\ sent \subseteq sent'
      BY <1>16 DEF StartUpload, channel
    <3>3. /\ Walking' => Walking
          /\ Telling' => Telling
          /\ work'.phase = "final" => work.phase = "final" \/ work.run \in sent'
      BY <1>16, <2>2, UploadEffect DEF StartUpload, Walking, Telling
    <3> QED
      BY <3>1, <3>2, <3>3, CoverKept
  <2> QED
    BY <2>1, <2>2
<1>17. ASSUME NEW r \in Runs, NEW d \in Days, SendPiece(r, d)
       PROVE  CoverInv'
  BY <1>17, CoverSends
<1>18. ASSUME NEW r \in Runs, NEW d \in Days, FailPiece(r, d)
       PROVE  CoverInv'
  <2>1. work'.errors
    BY <1>18, WorkIs DEF FailPiece, Noted, Done, Work
  <2> QED
    BY <2>1 DEF CoverInv
<1>19. ASSUME NEW r \in Runs, StartCatalogue(r) PROVE CoverInv'
  BY <1>19, CoverCatalogue
<1>20. ASSUME NEW r \in Runs, CatalogueSent(r) PROVE CoverInv'
  BY <1>20, CoverGoesOn
<1>21. ASSUME NEW r \in Runs, MasterSent(r) PROVE CoverInv'
  <2>1. CASE work.run = NoRun
    <3>1. work'.run = NoRun
      BY <1>21, <2>1, WorkIs DEF MasterSent, Work, Phased
    <3> QED
      BY <3>1 DEF CoverInv
  <2>2. CASE work.run # NoRun
    <3>1. /\ work.run \in Runs /\ work'.run = work.run
          /\ work'.todo = work.todo /\ work'.errors = work.errors
          /\ work'.entries = work.entries
      BY <1>21, <2>2, WorkIs, WorkIs DEF MasterSent, Work, Phased
    <3>2. UNCHANGED <<saw, assets>> /\ sent \subseteq sent'
      BY <1>21 DEF MasterSent, channel
    <3>3. /\ Walking' => Walking
          /\ Telling' => Telling
          /\ work'.phase = "final" => work.phase = "final" \/ work.run \in sent'
      BY <1>21, <2>2, WorkIs DEF MasterSent, Work, Phased, Walking, Telling
    <3> QED
      BY <3>1, <3>2, <3>3, CoverKept
  <2> QED
    BY <2>1, <2>2
<1>22. ASSUME NEW r \in Runs, Finish(r) PROVE CoverInv'
  <2>1. work'.run = NoRun
    BY <1>22 DEF Finish, Idle
  <2> QED
    BY <2>1 DEF CoverInv
<1>23. ASSUME NEW r \in Runs, StopAtCheck(r) PROVE CoverInv'
  <2>1. work'.run = NoRun
    BY <1>23 DEF StopAtCheck, Idle
  <2> QED
    BY <2>1 DEF CoverInv
<1>24. ASSUME NEW r \in Runs, Break(r) PROVE CoverInv'
  <2>1. work'.run = NoRun
    BY <1>24 DEF Break, Idle
  <2> QED
    BY <2>1 DEF CoverInv
<1>25. ASSUME NEW r \in Runs, NEW d \in Days, RestoreDay(r, d)
       PROVE  CoverInv'
  <2>1. work'.phase = "restore"
    BY <1>25, WorkIs DEF RestoreDay, Phased, Idle, Work
  <2> QED
    BY <2>1 DEF CoverInv, Walking, Telling
<1>26. ASSUME NEW r \in Runs, NEW d \in Days, RefuseDay(r, d)
       PROVE  CoverInv'
  <2>1. work'.phase = "restore"
    BY <1>26, WorkIs DEF RefuseDay, Phased, Idle, Work
  <2> QED
    BY <2>1 DEF CoverInv, Walking, Telling
<1>27. ASSUME NEW r \in Runs, FinishRestore(r) PROVE CoverInv'
  <2>1. work'.run = NoRun
    BY <1>27 DEF FinishRestore, Idle
  <2> QED
    BY <2>1 DEF CoverInv
<1>28. ASSUME NEW r \in Runs, StopRestore(r) PROVE CoverInv'
  <2>1. work'.run = NoRun
    BY <1>28 DEF StopRestore, Idle
  <2> QED
    BY <2>1 DEF CoverInv
<1>29. ASSUME NEW r \in Runs, BreakRestore(r) PROVE CoverInv'
  <2>1. work'.run = NoRun
    BY <1>29 DEF BreakRestore, Idle
  <2> QED
    BY <2>1 DEF CoverInv
<1>30. ASSUME Restart PROVE CoverInv'
  <2>1. work'.run = NoRun
    BY <1>30 DEF Restart, Restarted, Idle
  <2> QED
    BY <2>1 DEF CoverInv
<1>31. ASSUME CliDie PROVE CoverInv'
  <2>1. work'.run = NoRun
    BY <1>31 DEF CliDie, Idle
  <2> QED
    BY <2>1 DEF CoverInv
<1>32. CASE UNCHANGED vars
  <2>1. CASE work.run = NoRun
    <3>1. work'.run = NoRun
      BY <1>32, <2>1 DEF vars
    <3> QED
      BY <3>1 DEF CoverInv
  <2>2. CASE work.run # NoRun
    <3>1. /\ work.run \in Runs /\ work'.run = work.run
          /\ work'.todo = work.todo /\ work'.errors = work.errors
          /\ work'.entries = work.entries
      BY <1>32, <2>2, WorkIs DEF vars
    <3>2. UNCHANGED <<saw, assets>> /\ sent \subseteq sent'
      BY <1>32 DEF vars, channel
    <3>3. /\ Walking' => Walking
          /\ Telling' => Telling
          /\ work'.phase = "final" => work.phase = "final" \/ work.run \in sent'
      BY <1>32, <2>2 DEF vars, Walking, Telling
    <3> QED
      BY <3>1, <3>2, <3>3, CoverKept
  <2> QED
    BY <2>1, <2>2
<1>33. ASSUME NEW r \in Runs, NextAsset(r)
       PROVE  CoverInv'
  <2>1. work'.phase = "restore"
    BY <1>33, WorkIs DEF NextAsset, Phased, Idle, Work
  <2> QED
    BY <2>1 DEF CoverInv, Walking, Telling
<1> QED
  BY <1>1, <1>2, <1>3, <1>4, <1>5, <1>6, <1>7, <1>8, <1>9, <1>10, <1>11,
     <1>12, <1>13, <1>14, <1>15, <1>16, <1>17, <1>18, <1>19, <1>20, <1>21,
     <1>22, <1>23, <1>24, <1>25, <1>26, <1>27, <1>28, <1>29, <1>30, <1>31,
     <1>32, <1>33
     DEF Next, BackupStep, RestoreStep

-----------------------------------------------------------------------------
(* A completed backup covers what it has seen.                             *)

(* How a row becomes completed.                                            *)
LEMMA CompletedBy ==
    ASSUME Base, [Next]_vars, NEW p \in Runs, row[p] # "completed", row'[p] = "completed"
    PROVE  Finish(p) \/ FinishRestore(p)
<1> SUFFICES ASSUME ~Finish(p), ~FinishRestore(p) PROVE FALSE
  OBVIOUS
<1> USE Constants DEF Base
<1>1. ASSUME NEW d \in Days, Rebuild(d) PROVE FALSE
  BY <1>1 DEF Rebuild
<1>2. ASSUME NEW r \in Runs, NEW days \in Scopes,
             NEW k \in {"full", "incremental", "dry"}, Enqueue(r, k, days)
      PROVE  FALSE
  BY <1>2, BeginRow DEF Enqueue, Register, SetRow, TypeOK
<1>3. ASSUME NEW r \in Runs, NEW days \in Scopes,
             NEW k \in {"full", "incremental", "dry"}, StartCli(r, k, days)
      PROVE  FALSE
  BY <1>3, BeginRow DEF StartCli, Register, SetRow, TypeOK
<1>4. ASSUME NEW r \in Runs, NEW days \in Scopes, EnqueueDisabled(r, days)
      PROVE  FALSE
  BY <1>4 DEF EnqueueDisabled, Register, TypeOK
<1>5. ASSUME NEW r \in Runs, NEW m \in Runs, EnqueueRestore(r, m)
      PROVE  FALSE
  BY <1>5 DEF EnqueueRestore, Register, TypeOK
<1>6. ASSUME NEW r \in Runs, Cancel(r) PROVE FALSE
  <2>1. CASE CancelRecords({r})
    BY <2>1 DEF CancelRecords, TypeOK
  <2> QED
    BY <1>6, <2>1 DEF Cancel
<1>7. ASSUME StopAll PROVE FALSE
  <2>1. CASE Clear
    BY <2>1 DEF Clear, TypeOK
  <2>2. CASE CancelRecords(ActiveRuns)
    BY <2>2 DEF CancelRecords, TypeOK
  <2> QED
    BY <1>7, <2>1, <2>2 DEF StopAll
<1>8. ASSUME ClearLocal PROVE FALSE
  <2>1. CASE Clear
    BY <2>1 DEF Clear, TypeOK
  <2>2. CASE row' = row
    BY <2>2 DEF TypeOK
  <2> QED
    BY <1>8, <2>1, <2>2 DEF ClearLocal
<1>9. ASSUME NEW r \in Runs, ThrowEarly(r) PROVE FALSE
  <2>1. CASE CancelRecords(ActiveRuns)
    BY <2>1 DEF CancelRecords, TypeOK
  <2>2. CASE row' = row
    BY <2>2 DEF TypeOK
  <2> QED
    BY <1>9, <2>1, <2>2 DEF ThrowEarly, Rejected, Restarted
<1>10. ASSUME NEW r \in Runs, NotReady(r) PROVE FALSE
  BY <1>10 DEF NotReady, SetRow, TypeOK
<1>11. ASSUME NEW r \in Runs, Ready(r) PROVE FALSE
  BY <1>11, BeginRow DEF Ready, SetRow, TypeOK
<1>12. ASSUME NEW r \in Runs, NEW d \in Days, ReadFile(r, d)
       PROVE  FALSE
  BY <1>12 DEF ReadFile
<1>13. ASSUME NEW r \in Runs, NEW d \in Days, Unreadable(r, d)
       PROVE  FALSE
  BY <1>13 DEF Unreadable
<1>14. ASSUME NEW r \in Runs, NEW d \in Days, Skip(r, d) PROVE FALSE
  BY <1>14 DEF Skip
<1>15. ASSUME NEW r \in Runs, NEW d \in Days, DryRun(r, d) PROVE FALSE
  BY <1>15 DEF DryRun
<1>16. ASSUME NEW r \in Runs, NEW d \in Days, StartUpload(r, d)
       PROVE  FALSE
  BY <1>16 DEF StartUpload
<1>17. ASSUME NEW r \in Runs, NEW d \in Days, SendPiece(r, d)
       PROVE  FALSE
  BY <1>17 DEF SendPiece
<1>18. ASSUME NEW r \in Runs, NEW d \in Days, FailPiece(r, d)
       PROVE  FALSE
  BY <1>18 DEF FailPiece
<1>19. ASSUME NEW r \in Runs, StartCatalogue(r) PROVE FALSE
  BY <1>19 DEF StartCatalogue
<1>20. ASSUME NEW r \in Runs, CatalogueSent(r) PROVE FALSE
  BY <1>20 DEF CatalogueSent
<1>21. ASSUME NEW r \in Runs, MasterSent(r) PROVE FALSE
  BY <1>21 DEF MasterSent
<1>22. ASSUME NEW r \in Runs, Finish(r) PROVE FALSE
  BY <1>22 DEF Finish, SetRow, TypeOK
<1>23. ASSUME NEW r \in Runs, StopAtCheck(r) PROVE FALSE
  <2>1. CASE CancelRecords({r})
    BY <2>1 DEF CancelRecords, TypeOK
  <2> QED
    BY <1>23, <2>1 DEF StopAtCheck
<1>24. ASSUME NEW r \in Runs, Break(r) PROVE FALSE
  BY <1>24 DEF Break, SetRow, TypeOK
<1>25. ASSUME NEW r \in Runs, NEW d \in Days, RestoreDay(r, d)
       PROVE  FALSE
  BY <1>25 DEF RestoreDay
<1>26. ASSUME NEW r \in Runs, NEW d \in Days, RefuseDay(r, d)
       PROVE  FALSE
  BY <1>26 DEF RefuseDay
<1>27. ASSUME NEW r \in Runs, FinishRestore(r) PROVE FALSE
  BY <1>27 DEF FinishRestore, SetRow, TypeOK
<1>28. ASSUME NEW r \in Runs, StopRestore(r) PROVE FALSE
  <2>1. CASE CancelRecords({r})
    BY <2>1 DEF CancelRecords, TypeOK
  <2>2. CASE row' = row
    BY <2>2 DEF TypeOK
  <2> QED
    BY <1>28, <2>1, <2>2 DEF StopRestore
<1>29. ASSUME NEW r \in Runs, BreakRestore(r) PROVE FALSE
  BY <1>29 DEF BreakRestore, SetRow, TypeOK
<1>30. ASSUME Restart PROVE FALSE
  <2>1. CASE CancelRecords(ActiveRuns)
    BY <2>1 DEF CancelRecords, TypeOK
  <2> QED
    BY <1>30, <2>1 DEF Restart, Restarted
<1>31. ASSUME CliDie PROVE FALSE
  BY <1>31 DEF CliDie
<1>32. CASE UNCHANGED vars
  BY <1>32 DEF vars
<1>33. ASSUME NEW r \in Runs, NextAsset(r)
       PROVE  FALSE
  BY <1>33 DEF NextAsset
<1> QED
  BY <1>1, <1>2, <1>3, <1>4, <1>5, <1>6, <1>7, <1>8, <1>9, <1>10, <1>11,
     <1>12, <1>13, <1>14, <1>15, <1>16, <1>17, <1>18, <1>19, <1>20, <1>21,
     <1>22, <1>23, <1>24, <1>25, <1>26, <1>27, <1>28, <1>29, <1>30, <1>31,
     <1>32, <1>33
     DEF Next, BackupStep, RestoreStep

(* The catalogues of a completed run stay in the channel.                  *)
LEMMA CatalogueStays ==
    ASSUME Base, [Next]_vars, NEW q \in Runs, row[q] = "completed"
    PROVE  assets'[q] = assets[q] /\ (q \in sent => q \in sent')
<1> USE Constants DEF Base
<1>0. \A r \in Runs : work.run = r => r # q
  BY DEF PlaceInv, Over
<1>1. ASSUME NEW d \in Days, Rebuild(d)
      PROVE  assets'[q] = assets[q] /\ (q \in sent => q \in sent')
  BY <1>1 DEF Rebuild, channel
<1>2. ASSUME NEW r \in Runs, NEW days \in Scopes,
             NEW k \in {"full", "incremental", "dry"}, Enqueue(r, k, days)
      PROVE  assets'[q] = assets[q] /\ (q \in sent => q \in sent')
  BY <1>2 DEF Enqueue, channel, Register
<1>3. ASSUME NEW r \in Runs, NEW days \in Scopes,
             NEW k \in {"full", "incremental", "dry"}, StartCli(r, k, days)
      PROVE  assets'[q] = assets[q] /\ (q \in sent => q \in sent')
  BY <1>3 DEF StartCli, channel, Register
<1>4. ASSUME NEW r \in Runs, NEW days \in Scopes, EnqueueDisabled(r, days)
      PROVE  assets'[q] = assets[q] /\ (q \in sent => q \in sent')
  BY <1>4 DEF EnqueueDisabled, channel, Register
<1>5. ASSUME NEW r \in Runs, NEW m \in Runs, EnqueueRestore(r, m)
      PROVE  assets'[q] = assets[q] /\ (q \in sent => q \in sent')
  BY <1>5 DEF EnqueueRestore, channel, Register
<1>6. ASSUME NEW r \in Runs, Cancel(r)
      PROVE  assets'[q] = assets[q] /\ (q \in sent => q \in sent')
  BY <1>6 DEF Cancel, channel
<1>7. ASSUME StopAll
      PROVE  assets'[q] = assets[q] /\ (q \in sent => q \in sent')
  BY <1>7 DEF StopAll, channel
<1>8. ASSUME ClearLocal
      PROVE  assets'[q] = assets[q] /\ (q \in sent => q \in sent')
  BY <1>8 DEF ClearLocal, channel
<1>9. ASSUME NEW r \in Runs, ThrowEarly(r)
      PROVE  assets'[q] = assets[q] /\ (q \in sent => q \in sent')
  BY <1>9 DEF ThrowEarly, channel, Rejected, Restarted
<1>10. ASSUME NEW r \in Runs, NotReady(r)
       PROVE  assets'[q] = assets[q] /\ (q \in sent => q \in sent')
  BY <1>10 DEF NotReady, channel
<1>11. ASSUME NEW r \in Runs, Ready(r)
       PROVE  assets'[q] = assets[q] /\ (q \in sent => q \in sent')
  BY <1>11 DEF Ready, channel
<1>12. ASSUME NEW r \in Runs, NEW d \in Days, ReadFile(r, d)
       PROVE  assets'[q] = assets[q] /\ (q \in sent => q \in sent')
  BY <1>12 DEF ReadFile, channel
<1>13. ASSUME NEW r \in Runs, NEW d \in Days, Unreadable(r, d)
       PROVE  assets'[q] = assets[q] /\ (q \in sent => q \in sent')
  BY <1>13 DEF Unreadable, channel
<1>14. ASSUME NEW r \in Runs, NEW d \in Days, Skip(r, d)
       PROVE  assets'[q] = assets[q] /\ (q \in sent => q \in sent')
  BY <1>14 DEF Skip, channel
<1>15. ASSUME NEW r \in Runs, NEW d \in Days, DryRun(r, d)
       PROVE  assets'[q] = assets[q] /\ (q \in sent => q \in sent')
  BY <1>15 DEF DryRun, channel
<1>16. ASSUME NEW r \in Runs, NEW d \in Days, StartUpload(r, d)
       PROVE  assets'[q] = assets[q] /\ (q \in sent => q \in sent')
  BY <1>16 DEF StartUpload, channel
<1>17. ASSUME NEW r \in Runs, NEW d \in Days, SendPiece(r, d)
       PROVE  assets'[q] = assets[q] /\ (q \in sent => q \in sent')
  BY <1>17 DEF SendPiece, channel
<1>18. ASSUME NEW r \in Runs, NEW d \in Days, FailPiece(r, d)
       PROVE  assets'[q] = assets[q] /\ (q \in sent => q \in sent')
  BY <1>18 DEF FailPiece, channel
<1>19. ASSUME NEW r \in Runs, StartCatalogue(r)
       PROVE  assets'[q] = assets[q] /\ (q \in sent => q \in sent')
  <2>1. r # q /\ sent' = sent
    BY <1>19, <1>0 DEF StartCatalogue, Phased
  <2>2. assets' = assets \/ \E g, c : assets' = WithAsset(r, g, c)
    BY <1>19 DEF StartCatalogue
  <2>3. ASSUME NEW g, NEW c, assets' = WithAsset(r, g, c)
        PROVE  assets'[q] = assets[q]
    BY <2>1, <2>3 DEF WithAsset, TypeOK
  <2> QED
    BY <2>1, <2>2, <2>3
<1>20. ASSUME NEW r \in Runs, CatalogueSent(r)
       PROVE  assets'[q] = assets[q] /\ (q \in sent => q \in sent')
  BY <1>20 DEF CatalogueSent, channel
<1>21. ASSUME NEW r \in Runs, MasterSent(r)
       PROVE  assets'[q] = assets[q] /\ (q \in sent => q \in sent')
  BY <1>21 DEF MasterSent, channel
<1>22. ASSUME NEW r \in Runs, Finish(r)
       PROVE  assets'[q] = assets[q] /\ (q \in sent => q \in sent')
  BY <1>22 DEF Finish, channel
<1>23. ASSUME NEW r \in Runs, StopAtCheck(r)
       PROVE  assets'[q] = assets[q] /\ (q \in sent => q \in sent')
  BY <1>23 DEF StopAtCheck, channel
<1>24. ASSUME NEW r \in Runs, Break(r)
       PROVE  assets'[q] = assets[q] /\ (q \in sent => q \in sent')
  BY <1>24 DEF Break, channel
<1>25. ASSUME NEW r \in Runs, NEW d \in Days, RestoreDay(r, d)
       PROVE  assets'[q] = assets[q] /\ (q \in sent => q \in sent')
  BY <1>25 DEF RestoreDay, channel
<1>26. ASSUME NEW r \in Runs, NEW d \in Days, RefuseDay(r, d)
       PROVE  assets'[q] = assets[q] /\ (q \in sent => q \in sent')
  BY <1>26 DEF RefuseDay, channel
<1>27. ASSUME NEW r \in Runs, FinishRestore(r)
       PROVE  assets'[q] = assets[q] /\ (q \in sent => q \in sent')
  BY <1>27 DEF FinishRestore, channel
<1>28. ASSUME NEW r \in Runs, StopRestore(r)
       PROVE  assets'[q] = assets[q] /\ (q \in sent => q \in sent')
  BY <1>28 DEF StopRestore, channel
<1>29. ASSUME NEW r \in Runs, BreakRestore(r)
       PROVE  assets'[q] = assets[q] /\ (q \in sent => q \in sent')
  BY <1>29 DEF BreakRestore, channel
<1>30. ASSUME Restart
       PROVE  assets'[q] = assets[q] /\ (q \in sent => q \in sent')
  BY <1>30 DEF Restart, channel, Restarted
<1>31. ASSUME CliDie
       PROVE  assets'[q] = assets[q] /\ (q \in sent => q \in sent')
  BY <1>31 DEF CliDie, channel
<1>32. CASE UNCHANGED vars
  BY <1>32 DEF vars, channel
<1>33. ASSUME NEW r \in Runs, NextAsset(r)
       PROVE  assets'[q] = assets[q] /\ (q \in sent => q \in sent')
  BY <1>33 DEF NextAsset, channel
<1> QED
  BY <1>1, <1>2, <1>3, <1>4, <1>5, <1>6, <1>7, <1>8, <1>9, <1>10, <1>11,
     <1>12, <1>13, <1>14, <1>15, <1>16, <1>17, <1>18, <1>19, <1>20, <1>21,
     <1>22, <1>23, <1>24, <1>25, <1>26, <1>27, <1>28, <1>29, <1>30, <1>31,
     <1>32, <1>33
     DEF Next, BackupStep, RestoreStep

LEMMA CoversInit == Init => CompletedCoversLake
<1> QED
  BY DEF Init, CompletedCoversLake, CompletedBackups, Completed

LEMMA CoversStep ==
    Base /\ PastInv /\ CoverInv /\ CompletedCoversLake /\ [Next]_vars => CompletedCoversLake'
<1> SUFFICES ASSUME Base, PastInv, CoverInv, CompletedCoversLake, [Next]_vars,
                    NEW r \in Runs, row'[r] = "completed",
                    kind'[r] \in {"full", "incremental"}, Trusted(r)'
             PROVE  Covers(r)'
  BY DEF CompletedCoversLake, CompletedBackups, Completed, Trusted
<1> USE Constants DEF Base
<1>1. CASE row[r] = "completed"
  <2>1. Trusted(r) /\ kind'[r] = kind[r]
    BY <1>1, TrustedBefore
  <2>2. Covers(r)
    BY <1>1, <2>1 DEF CompletedCoversLake, CompletedBackups, Completed, Trusted
  <2>3. saw'[r] = saw[r] /\ assets'[r] = assets[r] /\ (r \in sent => r \in sent')
    BY <1>1, SawStays, CatalogueStays
  <2> QED
    BY <2>2, <2>3 DEF Covers, Names, Whole, Assets
<1>2. CASE row[r] # "completed"
  <2>1. Finish(r) \/ FinishRestore(r)
    BY <1>2, CompletedBy
  <2>2. work.run = r /\ kind' = kind /\ UNCHANGED <<saw, assets, sent>>
    BY <2>1 DEF Finish, FinishRestore, Phased, request, channel
  <2>3. work.phase = "final" /\ Telling
    BY <2>1, <2>2 DEF Finish, FinishRestore, Phased, PlaceInv, Telling
  <2>4. row[r] # "none" /\ ~work.errors
    <3>1. row'[r] = IF row[r] = "deleted" THEN "deleted"
                    ELSE IF work.errors THEN "failed" ELSE "completed"
      BY <2>1 DEF Finish, FinishRestore, SetRow, TypeOK
    <3>2. row[r] # "none"
      BY <2>2 DEF PlaceInv
    <3> QED
      BY <3>1, <3>2
  <2>5. Trusted(r)
    BY <2>4, TrustedBefore
  <2>6. work.todo = {}
    BY <2>3 DEF PlaceInv
  <2>7. Names(Assets(r), r, DOMAIN saw[r]) /\ r \in sent
    <3>1. Names(Assets(r), r, DOMAIN saw[r] \ work.todo) /\ r \in sent
      BY <2>2, <2>3, <2>4, <2>5 DEF CoverInv
    <3> QED
      BY <2>6, <3>1
  <2> QED
    BY <2>2, <2>7 DEF Names, Whole, Covers, Assets
<1> QED
  BY <1>1, <1>2

(* A backup that is reported as completed can be restored from its         *)
(* catalogues: a full one whatever happened, an incremental one if no      *)
(* request has failed, no process has ended and all named the same days of *)
(* one group (upload.js:109-222, 345-373).                                 *)
THEOREM CompletedIsCovered == Spec => []CompletedCoversLake
<1> DEFINE IInv == /\ Base /\ PastInv /\ AssetInv /\ ClearedInv /\ KnownInv /\ WholeInv /\ RestInv
                   /\ AtWorkInv /\ CoverInv /\ CompletedCoversLake
<1>1. Init => IInv
  BY TypeInit, OrderInit, PlaceInit, PastInit, AssetInit, ClearedInit, KnownInit, WholeInit, RestInit,
     AtWorkInit, CoverInit, CoversInit DEF Base
<1>2. IInv /\ [Next]_vars => IInv'
  <2> SUFFICES ASSUME IInv, [Next]_vars PROVE IInv'
    OBVIOUS
  <2>1. Base' /\ PastInv' /\ AssetInv' /\ ClearedInv' /\ KnownInv' /\ WholeInv'
    BY BaseStep, PastStep, AssetStep, ClearedStep, KnownStep, WholeStep
  <2>2. RestInv'
    BY RestStep
  <2>3. AtWorkInv'
    BY AtWorkStep
  <2>4. CoverInv' /\ CompletedCoversLake'
    BY CoverStep, CoversStep
  <2> QED
    BY <2>1, <2>2, <2>3, <2>4
<1>3. IInv => CompletedCoversLake
  OBVIOUS
<1> QED
  BY <1>1, <1>2, <1>3, PTL DEF Spec
=============================================================================
