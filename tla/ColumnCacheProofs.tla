-------------------------- MODULE ColumnCacheProofs --------------------------
(***************************************************************************)
(* Theorems about ColumnCache, for any number of loads, files and edits of *)
(* the day.                                                                *)
(***************************************************************************)
EXTENDS ColumnCache, TLAPS

-----------------------------------------------------------------------------
(* Types.                                                                  *)

(* A new file: its place in the order, its row, and what stays.            *)
LEMMA PublishEffect ==
    ASSUME TypeOK, NEW d \in Dataset, NEW status \in Status,
           NEW print \in Fingerprint \cup {None}, Publish(d, status, print)
    PROVE  LET new == Len(made) + 1
           IN  /\ new \in Path
               /\ made' \in Seq(Dataset) /\ Len(made') = new
               /\ made'[new] = d
               /\ \A f \in 1..Len(made) : made'[f] = made[f]
               /\ files' = files \cup {new} /\ files' \subseteq 1..Len(made')
               /\ rows' \in [Dataset -> Row]
               /\ rows'[d].active_path = new
               /\ \A e \in Dataset : e # d => rows'[e] = rows[e]
<1> USE CacheAssumption DEF TypeOK
<1> DEFINE new == Len(made) + 1
<1>1. Len(made) \in Nat /\ new \in 1..MaxFiles
  BY DEF Publish
<1>2. made' \in Seq(Dataset) /\ Len(made') = new
  BY DEF Publish
<1>3. made'[new] = d /\ \A f \in 1..Len(made) : made'[f] = made[f]
  BY <1>1 DEF Publish
<1>4. files' = files \cup {new} /\ files' \subseteq 1..Len(made')
  <2>1. files' = files \cup {new}
    BY DEF Publish
  <2>2. 1..Len(made) \subseteq 1..new /\ new \in 1..new
    BY <1>1
  <2> QED
    BY <2>1, <2>2, <1>2
<1>5. [status |-> status, active_path |-> new, source_fingerprint |-> print] \in Row
  <2>1. new \in Path
    BY <1>1 DEF Path
  <2> HIDE DEF new, TypeOK
  <2> QED
    BY <2>1 DEF Row
<1>6. /\ rows' \in [Dataset -> Row]
      /\ rows'[d].active_path = new
      /\ \A e \in Dataset : e # d => rows'[e] = rows[e]
  BY <1>5 DEF Publish
<1> QED
  BY <1>1, <1>2, <1>3, <1>4, <1>6 DEF Path

(* A step of a load that remembers something new.                          *)
LEMMA SetType ==
    ASSUME load \in [Loads -> Memory], NEW l \in Loads, NEW new \in Memory, Set(l, new)
    PROVE  load' \in [Loads -> Memory]
<1> QED
  BY DEF Set

(* Files have paths, and loads that know nothing the type of a load.       *)
LEMMA FilePath == TypeOK => files \subseteq Path /\ Len(made) \in Nat
<1> SUFFICES ASSUME TypeOK PROVE files \subseteq Path /\ Len(made) \in Nat
  OBVIOUS
<1>1. Len(made) \in Nat /\ Len(made) <= MaxFiles /\ files \subseteq 1..Len(made)
  BY DEF TypeOK
<1>2. 1..Len(made) \subseteq 1..MaxFiles
  BY <1>1, CacheAssumption
<1> QED
  BY <1>1, <1>2 DEF Path

LEMMA NoLoadType == NoLoad \in Memory /\ Refused \in Memory
<1> QED
  BY DEF NoLoad, NoMeta, Refused, Phase, Dataset, Meta, Memory

LEMMA TypeInit == Init => TypeOK
<1> SUFFICES ASSUME Init PROVE TypeOK
  OBVIOUS
<1> USE CacheAssumption DEF Init
<1>1. day \in Fingerprint
  BY DEF Fingerprint
<1>2. rows \in [Dataset -> Row]
  BY DEF MissingRow, Row, Status
<1>3. made \in Seq(Dataset) /\ Len(made) <= MaxFiles /\ files \subseteq 1..Len(made)
  OBVIOUS
<1>4. job \in [phase: {"idle", "exporting", "deriving", "deriving_lite"},
                print: Fingerprint \cup {None}]
  BY DEF NoJob
<1>5. cache \in [Dataset -> [bin: Content \cup {None}, meta: Meta \cup {None}]]
  OBVIOUS
<1>6. load \in [Loads -> Memory]
  BY NoLoadType
<1> QED
  BY <1>1, <1>2, <1>3, <1>4, <1>5, <1>6 DEF TypeOK

LEMMA TypeStep == TypeOK /\ [Next]_vars => TypeOK'
<1> SUFFICES ASSUME TypeOK, [Next]_vars PROVE TypeOK'
  OBVIOUS
<1> USE CacheAssumption DEF TypeOK, history
<1>1. ASSUME StartExport PROVE TypeOK'
  BY <1>1
     DEF StartExport
<1>2. ASSUME NEW status \in {"valid", "needs_review"}, PublishTicks(status) PROVE TypeOK'
  <2>1. job.print \in Fingerprint \cup {None} /\ status \in Status
    BY <1>2 DEF PublishTicks, Status
  <2>2. Ticks \in Dataset /\ Publish(Ticks, status, job.print)
    BY <1>2 DEF PublishTicks, Dataset
  <2> QED
    BY <1>2, <2>1, <2>2, PublishEffect DEF PublishTicks, Path
<1>3. ASSUME NEW rebuild \in BOOLEAN, StartLite(rebuild) PROVE TypeOK'
  BY <1>3
     DEF StartLite
<1>4. ASSUME PublishLite PROVE TypeOK'
  <2>1. Lite \in Dataset /\ "valid" \in Status /\ Publish(Lite, "valid", None)
    BY <1>4 DEF PublishLite, Status, Dataset
  <2> QED
    BY <1>4, <2>1, PublishEffect DEF PublishLite, NoJob, Path
<1>5. ASSUME EndExport PROVE TypeOK'
  BY <1>5
     DEF EndExport, NoJob
<1>6. ASSUME EditDay PROVE TypeOK'
  <2>1. day' \in Fingerprint
    BY <1>6 DEF EditDay, Fingerprint
  <2>2. rows' \in [Dataset -> Row]
    <3>1. ASSUME NEW d \in Dataset PROVE [rows[d] EXCEPT !.status = "stale"] \in Row
      <4>1. rows[d] \in Row
        OBVIOUS
      <4> HIDE DEF TypeOK
      <4> QED
        BY <4>1 DEF Row, Status
    <3> QED
      BY <1>6, <3>1 DEF EditDay
  <2> QED
    BY <1>6, <2>1, <2>2 DEF EditDay
<1>7. ASSUME NEW f \in files, RemoveReplaced(f) PROVE TypeOK'
  BY <1>7
     DEF RemoveReplaced
<1>8. ASSUME NEW l \in Loads, NEW d \in Dataset, ReadRow(l, d) PROVE TypeOK'
  <2>1. PICK new \in Memory : Set(l, new)
    <3>1. load[l] \in Memory
      OBVIOUS
    <3> QED
      BY <1>8, <3>1, NoLoadType DEF ReadRow, MetaOf, Meta, Row, NoLoad, Memory, Phase
  <2>2. load' \in [Loads -> Memory]
    BY <2>1, SetType
  <2> QED
    BY <1>8, <2>2 DEF ReadRow
<1>9. ASSUME NEW l \in Loads, ReadMeta(l) PROVE TypeOK'
  <2>1. PICK new \in Memory : Set(l, new)
    <3>1. load[l] \in Memory
      OBVIOUS
    <3> QED
      BY <1>9, <3>1, NoLoadType DEF ReadMeta, Memory, Phase
  <2>2. load' \in [Loads -> Memory]
    BY <2>1, SetType
  <2> QED
    BY <1>9, <2>2 DEF ReadMeta
<1>10. ASSUME NEW l \in Loads, ReadBin(l) PROVE TypeOK'
  <2>1. PICK new \in Memory : Set(l, new)
    <3>1. load[l] \in Memory
      OBVIOUS
    <3> QED
      BY <1>10, <3>1, NoLoadType DEF ReadBin, Memory, Phase
  <2>2. load' \in [Loads -> Memory]
    BY <2>1, SetType
  <2> QED
    BY <1>10, <2>2 DEF ReadBin
<1>11. ASSUME NEW l \in Loads, NEW near \in BOOLEAN, Open(l, near) PROVE TypeOK'
  <2>1. PICK new \in Memory : Set(l, new)
    <3>1. load[l] \in Memory
      OBVIOUS
    <3>2. /\ rows[load[l].dataset].active_path \in Path \cup {None}
          /\ rows[load[l].dataset] \in Row
      BY <3>1 DEF Memory, Row
    <3> DEFINE row == IF near /\ rows[load[l].dataset].status = "needs_review"
                      THEN [rows[load[l].dataset] EXCEPT !.status = "accepted"]
                      ELSE rows[load[l].dataset]
    <3>3. row.active_path \in Path \cup {None}
      BY <3>2 DEF Row
    <3>4. Set(l, IF Ready(row)
                 THEN [load[l] EXCEPT !.phase = "opened", !.path = row.active_path]
                 ELSE Refused)
      BY <1>11 DEF Open
    <3>5. [load[l] EXCEPT !.phase = "opened", !.path = row.active_path] \in Memory
      BY <3>1, <3>3 DEF Memory, Phase
    <3> QED
      BY <3>4, <3>5, NoLoadType DEF Open, Memory, Phase
  <2>2. load' \in [Loads -> Memory]
    BY <2>1, SetType
  <2>3. rows' \in [Dataset -> Row]
    <3>1. [rows[load[l].dataset] EXCEPT !.status = "accepted"] \in Row
      <4>1. rows[load[l].dataset] \in Row
        BY DEF Memory
      <4> QED
        BY <4>1 DEF Row, Status
    <3> QED
      BY <1>11, <3>1 DEF Open
  <2> QED
    BY <1>11, <2>2, <2>3 DEF Open
<1>12. ASSUME NEW l \in Loads, Stream(l) PROVE TypeOK'
  <2>1. PICK new \in Memory : Set(l, new)
    <3>1. load[l] \in Memory
      OBVIOUS
    <3>2. load[l].path \in files => load[l].path \in Path
      BY FilePath
    <3> QED
      BY <1>12, <3>1, <3>2, NoLoadType DEF Stream, Content, Memory, Phase
  <2>2. load' \in [Loads -> Memory]
    BY <2>1, SetType
  <2> QED
    BY <1>12, <2>2 DEF Stream
<1>13. ASSUME NEW l \in Loads, StoreBin(l) PROVE TypeOK'
  <2>1. PICK new \in Memory : Set(l, new)
    <3>1. load[l] \in Memory
      OBVIOUS
    <3> QED
      BY <1>13, <3>1, NoLoadType DEF StoreBin, Memory, Phase
  <2>2. load' \in [Loads -> Memory]
    BY <2>1, SetType
  <2>3. load[l].dataset \in Dataset /\ load[l].content \in Content \cup {None}
    BY DEF Memory
  <2>4. cache' \in [Dataset -> [bin: Content \cup {None}, meta: Meta \cup {None}]]
    BY <1>13, <2>3 DEF StoreBin
  <2>5. UNCHANGED <<day, rows, made, files, job>> /\ torn' \subseteq Dataset /\ crossed' \subseteq Loads
    BY <1>13, <2>3 DEF StoreBin, Halfway
  <2> QED
    BY <2>2, <2>4, <2>5
<1>14. ASSUME NEW l \in Loads, StoreMeta(l) PROVE TypeOK'
  <2>1. PICK new \in Memory : Set(l, new)
    <3>1. load[l] \in Memory
      OBVIOUS
    <3> QED
      BY <1>14, <3>1, NoLoadType DEF StoreMeta, Label, Memory, Phase
  <2>2. load' \in [Loads -> Memory]
    BY <2>1, SetType
  <2> QED
    BY <1>14, <2>2 DEF StoreMeta, Label, Memory
<1>15. ASSUME NEW l \in Loads, EndLoad(l) PROVE TypeOK'
  <2>1. PICK new \in Memory : Set(l, new)
    <3>1. load[l] \in Memory
      OBVIOUS
    <3> QED
      BY <1>15, <3>1, NoLoadType DEF EndLoad, Leave, Memory, Phase
  <2>2. load' \in [Loads -> Memory]
    BY <2>1, SetType
  <2> QED
    BY <1>15, <2>2 DEF EndLoad, Leave
<1>16. ASSUME NEW l \in Loads, Kill(l) PROVE TypeOK'
  <2>1. PICK new \in Memory : Set(l, new)
    <3>1. load[l] \in Memory
      OBVIOUS
    <3> QED
      BY <1>16, <3>1, NoLoadType DEF Kill, Leave, Memory, Phase
  <2>2. load' \in [Loads -> Memory]
    BY <2>1, SetType
  <2> QED
    BY <1>16, <2>2 DEF Kill, Leave
<1>17. ASSUME NEW d \in Dataset, RemoveBin(d) PROVE TypeOK'
  BY <1>17
     DEF RemoveBin
<1>18. ASSUME NEW d \in Dataset, RemoveMeta(d) PROVE TypeOK'
  BY <1>18
     DEF RemoveMeta
<1>19. CASE UNCHANGED vars
  BY <1>19
     DEF vars
<1> QED
  BY <1>1, <1>2, <1>3, <1>4, <1>5, <1>6, <1>7, <1>8, <1>9, <1>10, <1>11,
     <1>12, <1>13, <1>14, <1>15, <1>16, <1>17, <1>18, <1>19
     DEF Next

(* Every variable keeps its type.                                          *)
THEOREM CacheTyping == Spec => []TypeOK
<1> QED
  BY TypeInit, TypeStep, PTL DEF Spec

-----------------------------------------------------------------------------
(* Rows and files.                                                         *)

(* The path of a row is None or a position in `made`.                      *)
LEMMA RowPath ==
    ASSUME TypeOK, NEW d \in Dataset, rows[d].active_path # None
    PROVE  rows[d].active_path \in Nat
<1> QED
  BY CacheAssumption DEF TypeOK, Row, Path

(* A publication keeps the row of the other dataset, and its file.         *)
LEMMA OthersKept ==
    ASSUME TypeOK, RowInv, NEW d \in Dataset, NEW status \in Status,
           NEW print \in Fingerprint \cup {None}, Publish(d, status, print),
           NEW e \in Dataset, e # d, rows'[e].active_path # None
    PROVE  rows'[e].active_path \in files' /\ made'[rows'[e].active_path] = e
<1> DEFINE path == rows[e].active_path
<1>1. rows'[e] = rows[e] /\ files' = files \cup {Len(made) + 1}
  BY PublishEffect
<1>2. path \in files /\ made[path] = e
  BY <1>1 DEF RowInv
<1>3. path \in 1..Len(made)
  BY <1>2 DEF TypeOK
<1>4. made'[path] = made[path]
  BY <1>3, PublishEffect
<1> QED
  BY <1>1, <1>2, <1>4

LEMMA RowStep == TypeOK /\ RowInv /\ [Next]_vars => RowInv'
<1> SUFFICES ASSUME TypeOK, RowInv, [Next]_vars, NEW e \in Dataset,
                    rows'[e].active_path # None
             PROVE  rows'[e].active_path \in files' /\ made'[rows'[e].active_path] = e
  BY DEF RowInv
<1> DEFINE Goal == rows'[e].active_path \in files' /\ made'[rows'[e].active_path] = e
<1>1. ASSUME StartExport PROVE Goal
  BY <1>1
     DEF StartExport, RowInv, TypeOK
<1>2. ASSUME NEW status \in {"valid", "needs_review"}, PublishTicks(status) PROVE Goal
  <2>1. job.print \in Fingerprint \cup {None} /\ status \in Status
    BY <1>2 DEF PublishTicks, Status, TypeOK
  <2>2. Ticks \in Dataset /\ Publish(Ticks, status, job.print)
    BY <1>2 DEF PublishTicks, Dataset
  <2>3. CASE e = Ticks
    BY <2>1, <2>2, <2>3, PublishEffect
  <2>4. CASE e # Ticks
    BY <2>1, <2>2, <2>4, OthersKept
  <2> QED
    BY <2>3, <2>4
<1>3. ASSUME NEW rebuild \in BOOLEAN, StartLite(rebuild) PROVE Goal
  BY <1>3
     DEF StartLite, RowInv, TypeOK
<1>4. ASSUME PublishLite PROVE Goal
  <2>1. Lite \in Dataset /\ "valid" \in Status /\ Publish(Lite, "valid", None)
    BY <1>4 DEF PublishLite, Status, Dataset
  <2>3. CASE e = Lite
    BY <2>1, <2>3, PublishEffect
  <2>4. CASE e # Lite
    BY <2>1, <2>4, OthersKept
  <2> QED
    BY <2>3, <2>4
<1>5. ASSUME EndExport PROVE Goal
  BY <1>5
     DEF EndExport, RowInv, TypeOK
<1>6. ASSUME EditDay PROVE Goal
  BY <1>6
     DEF EditDay, Row, RowInv, TypeOK
<1>7. ASSUME NEW f \in files, RemoveReplaced(f) PROVE Goal
  BY <1>7
     DEF RemoveReplaced, RowInv, TypeOK
<1>8. ASSUME NEW l \in Loads, NEW d \in Dataset, ReadRow(l, d) PROVE Goal
  BY <1>8
     DEF ReadRow, RowInv, TypeOK
<1>9. ASSUME NEW l \in Loads, ReadMeta(l) PROVE Goal
  BY <1>9
     DEF ReadMeta, RowInv, TypeOK
<1>10. ASSUME NEW l \in Loads, ReadBin(l) PROVE Goal
  BY <1>10
     DEF ReadBin, RowInv, TypeOK
<1>11. ASSUME NEW l \in Loads, NEW near \in BOOLEAN, Open(l, near) PROVE Goal
  BY <1>11
     DEF Open, Row, RowInv, TypeOK
<1>12. ASSUME NEW l \in Loads, Stream(l) PROVE Goal
  BY <1>12
     DEF Stream, RowInv, TypeOK
<1>13. ASSUME NEW l \in Loads, StoreBin(l) PROVE Goal
  BY <1>13
     DEF StoreBin, RowInv, TypeOK
<1>14. ASSUME NEW l \in Loads, StoreMeta(l) PROVE Goal
  BY <1>14
     DEF StoreMeta, Label, RowInv, TypeOK
<1>15. ASSUME NEW l \in Loads, EndLoad(l) PROVE Goal
  BY <1>15
     DEF EndLoad, Leave, RowInv, TypeOK
<1>16. ASSUME NEW l \in Loads, Kill(l) PROVE Goal
  BY <1>16
     DEF Kill, Leave, RowInv, TypeOK
<1>17. ASSUME NEW d \in Dataset, RemoveBin(d) PROVE Goal
  BY <1>17
     DEF RemoveBin, RowInv, TypeOK
<1>18. ASSUME NEW d \in Dataset, RemoveMeta(d) PROVE Goal
  BY <1>18
     DEF RemoveMeta, RowInv, TypeOK
<1>19. CASE UNCHANGED vars
  BY <1>19
     DEF vars, RowInv, TypeOK
<1> QED
  BY <1>1, <1>2, <1>3, <1>4, <1>5, <1>6, <1>7, <1>8, <1>9, <1>10, <1>11,
     <1>12, <1>13, <1>14, <1>15, <1>16, <1>17, <1>18, <1>19
     DEF Next

(* What was published for a dataset stays so.                              *)
LEMMA PublishedStays ==
    ASSUME TypeOK, [Next]_vars, NEW e \in Dataset, NEW g, Published(e, g)
    PROVE  Published(e, g)'
<1> DEFINE Goal == Published(e, g)'
<1>0. g \in 1..Len(made) /\ Len(made) \in Nat /\ rows[e].active_path \in Nat
  BY RowPath DEF Published, TypeOK
<1>1. ASSUME StartExport PROVE Goal
  BY <1>1, <1>0
     DEF StartExport, Published, TypeOK
<1>2. ASSUME NEW status \in {"valid", "needs_review"}, PublishTicks(status) PROVE Goal
  <2>1. job.print \in Fingerprint \cup {None} /\ status \in Status
    BY <1>2 DEF PublishTicks, Status, TypeOK
  <2>2. Ticks \in Dataset /\ Publish(Ticks, status, job.print)
    BY <1>2 DEF PublishTicks, Dataset
  <2>3. CASE e = Ticks
    BY <2>1, <2>2, <2>3, <1>0, CacheAssumption, PublishEffect DEF Published
  <2>4. CASE e # Ticks
    BY <2>1, <2>2, <2>4, <1>0, PublishEffect DEF Published
  <2> QED
    BY <2>3, <2>4
<1>3. ASSUME NEW rebuild \in BOOLEAN, StartLite(rebuild) PROVE Goal
  BY <1>3, <1>0
     DEF StartLite, Published, TypeOK
<1>4. ASSUME PublishLite PROVE Goal
  <2>1. Lite \in Dataset /\ "valid" \in Status /\ Publish(Lite, "valid", None)
    BY <1>4 DEF PublishLite, Status, Dataset
  <2>3. CASE e = Lite
    BY <2>1, <2>3, <1>0, CacheAssumption, PublishEffect DEF Published
  <2>4. CASE e # Lite
    BY <2>1, <2>4, <1>0, PublishEffect DEF Published
  <2> QED
    BY <2>3, <2>4
<1>5. ASSUME EndExport PROVE Goal
  BY <1>5, <1>0
     DEF EndExport, Published, TypeOK
<1>6. ASSUME EditDay PROVE Goal
  BY <1>6, <1>0
     DEF EditDay, Row, Published, TypeOK
<1>7. ASSUME NEW f \in files, RemoveReplaced(f) PROVE Goal
  BY <1>7, <1>0
     DEF RemoveReplaced, Published, TypeOK
<1>8. ASSUME NEW l \in Loads, NEW d \in Dataset, ReadRow(l, d) PROVE Goal
  BY <1>8, <1>0
     DEF ReadRow, Published, TypeOK
<1>9. ASSUME NEW l \in Loads, ReadMeta(l) PROVE Goal
  BY <1>9, <1>0
     DEF ReadMeta, Published, TypeOK
<1>10. ASSUME NEW l \in Loads, ReadBin(l) PROVE Goal
  BY <1>10, <1>0
     DEF ReadBin, Published, TypeOK
<1>11. ASSUME NEW l \in Loads, NEW near \in BOOLEAN, Open(l, near) PROVE Goal
  BY <1>11, <1>0
     DEF Open, Row, Published, TypeOK
<1>12. ASSUME NEW l \in Loads, Stream(l) PROVE Goal
  BY <1>12, <1>0
     DEF Stream, Published, TypeOK
<1>13. ASSUME NEW l \in Loads, StoreBin(l) PROVE Goal
  BY <1>13, <1>0
     DEF StoreBin, Published, TypeOK
<1>14. ASSUME NEW l \in Loads, StoreMeta(l) PROVE Goal
  BY <1>14, <1>0
     DEF StoreMeta, Label, Published, TypeOK
<1>15. ASSUME NEW l \in Loads, EndLoad(l) PROVE Goal
  BY <1>15, <1>0
     DEF EndLoad, Leave, Published, TypeOK
<1>16. ASSUME NEW l \in Loads, Kill(l) PROVE Goal
  BY <1>16, <1>0
     DEF Kill, Leave, Published, TypeOK
<1>17. ASSUME NEW d \in Dataset, RemoveBin(d) PROVE Goal
  BY <1>17, <1>0
     DEF RemoveBin, Published, TypeOK
<1>18. ASSUME NEW d \in Dataset, RemoveMeta(d) PROVE Goal
  BY <1>18, <1>0
     DEF RemoveMeta, Published, TypeOK
<1>19. CASE UNCHANGED vars
  BY <1>19, <1>0
     DEF vars, Published, TypeOK
<1> QED
  BY <1>1, <1>2, <1>3, <1>4, <1>5, <1>6, <1>7, <1>8, <1>9, <1>10, <1>11,
     <1>12, <1>13, <1>14, <1>15, <1>16, <1>17, <1>18, <1>19
     DEF Next
-----------------------------------------------------------------------------
(* What the cache and the loads remember.                                  *)

LEMMA LoadType ==
    ASSUME TypeOK, NEW l \in Loads
    PROVE  load[l] \in Memory /\ load[l].dataset \in Dataset
<1> QED
  BY DEF TypeOK, Memory

(* No file is written twice: a path that is gone stays so.                 *)
LEMMA GoneForGood ==
    ASSUME TypeOK, [Next]_vars, NEW g \in 1..Len(made), g \notin files
    PROVE  g \notin files'
<1> DEFINE Goal == g \notin files'
<1>0. Len(made) \in Nat
  BY FilePath
<1>1. ASSUME StartExport PROVE Goal
  BY <1>1, <1>0
     DEF StartExport
<1>2. ASSUME NEW status \in {"valid", "needs_review"}, PublishTicks(status) PROVE Goal
  BY <1>2, <1>0 DEF PublishTicks, Publish
<1>3. ASSUME NEW rebuild \in BOOLEAN, StartLite(rebuild) PROVE Goal
  BY <1>3, <1>0
     DEF StartLite
<1>4. ASSUME PublishLite PROVE Goal
  BY <1>4, <1>0 DEF PublishLite, Publish
<1>5. ASSUME EndExport PROVE Goal
  BY <1>5, <1>0
     DEF EndExport
<1>6. ASSUME EditDay PROVE Goal
  BY <1>6, <1>0
     DEF EditDay
<1>7. ASSUME NEW f \in files, RemoveReplaced(f) PROVE Goal
  BY <1>7, <1>0
     DEF RemoveReplaced
<1>8. ASSUME NEW l \in Loads, NEW d \in Dataset, ReadRow(l, d) PROVE Goal
  BY <1>8, <1>0
     DEF ReadRow
<1>9. ASSUME NEW l \in Loads, ReadMeta(l) PROVE Goal
  BY <1>9, <1>0
     DEF ReadMeta
<1>10. ASSUME NEW l \in Loads, ReadBin(l) PROVE Goal
  BY <1>10, <1>0
     DEF ReadBin
<1>11. ASSUME NEW l \in Loads, NEW near \in BOOLEAN, Open(l, near) PROVE Goal
  BY <1>11, <1>0
     DEF Open
<1>12. ASSUME NEW l \in Loads, Stream(l) PROVE Goal
  BY <1>12, <1>0
     DEF Stream
<1>13. ASSUME NEW l \in Loads, StoreBin(l) PROVE Goal
  BY <1>13, <1>0
     DEF StoreBin
<1>14. ASSUME NEW l \in Loads, StoreMeta(l) PROVE Goal
  BY <1>14, <1>0
     DEF StoreMeta, Label
<1>15. ASSUME NEW l \in Loads, EndLoad(l) PROVE Goal
  BY <1>15, <1>0
     DEF EndLoad, Leave
<1>16. ASSUME NEW l \in Loads, Kill(l) PROVE Goal
  BY <1>16, <1>0
     DEF Kill, Leave
<1>17. ASSUME NEW d \in Dataset, RemoveBin(d) PROVE Goal
  BY <1>17, <1>0
     DEF RemoveBin
<1>18. ASSUME NEW d \in Dataset, RemoveMeta(d) PROVE Goal
  BY <1>18, <1>0
     DEF RemoveMeta
<1>19. CASE UNCHANGED vars
  BY <1>19, <1>0
     DEF vars
<1> QED
  BY <1>1, <1>2, <1>3, <1>4, <1>5, <1>6, <1>7, <1>8, <1>9, <1>10, <1>11,
     <1>12, <1>13, <1>14, <1>15, <1>16, <1>17, <1>18, <1>19
     DEF Next

(* What nobody touches stays right.                                        *)
LEMMA LoadKept ==
    ASSUME TypeOK, [Next]_vars, NEW l \in Loads, LoadInv(l), load'[l] = load[l]
    PROVE  LoadInv(l)'
<1>1. \A g : Published(load[l].dataset, g) => Published(load[l].dataset, g)'
  BY LoadType, PublishedStays
<1>2. load[l].phase = "file_gone" => load[l].path \notin files'
  <2>1. load[l].phase = "file_gone" => load[l].path \in 1..Len(made)
    BY DEF LoadInv, Published
  <2> QED
    BY <2>1, GoneForGood DEF LoadInv
<1> QED
  BY <1>1, <1>2 DEF LoadInv

LEMMA SlotKept ==
    ASSUME TypeOK, [Next]_vars, NEW d \in Dataset, SlotInv(d),
           cache'[d].bin \in {cache[d].bin, None}, cache'[d].meta \in {cache[d].meta, None}
    PROVE  SlotInv(d)'
<1> QED
  BY PublishedStays DEF SlotInv

LEMMA MemoryStep == TypeOK /\ RowInv /\ MemoryInv /\ [Next]_vars => MemoryInv'
<1> SUFFICES ASSUME TypeOK, RowInv, MemoryInv, [Next]_vars PROVE MemoryInv'
  OBVIOUS
<1>a. ASSUME UNCHANGED cache PROVE \A d \in Dataset : SlotInv(d)'
  BY <1>a, SlotKept DEF MemoryInv
<1>b. ASSUME UNCHANGED load PROVE \A l \in Loads : LoadInv(l)'
  BY <1>b, LoadKept DEF MemoryInv
<1>c. ASSUME NEW l \in Loads, NEW new, Set(l, new), LoadInv(l)'
      PROVE  \A k \in Loads : LoadInv(k)'
  <2> SUFFICES ASSUME NEW k \in Loads, k # l PROVE LoadInv(k)'
    BY <1>c
  <2>1. load'[k] = load[k]
    BY <1>c DEF Set, TypeOK
  <2> QED
    BY <2>1, LoadKept DEF MemoryInv
<1>d. ASSUME NEW l \in Loads, NEW new, Set(l, new) PROVE load'[l] = new
  BY <1>d DEF Set, TypeOK
<1>e. ASSUME NEW d \in Dataset, rows[d].active_path # None
      PROVE  /\ Published(d, rows[d].active_path)
             /\ rows[d].active_path \in files
  <2>1. rows[d].active_path \in files /\ made[rows[d].active_path] = d
    BY <1>e DEF RowInv
  <2>2. rows[d].active_path \in 1..Len(made)
    BY <2>1 DEF TypeOK
  <2>3. rows[d].active_path <= rows[d].active_path
    BY <1>e, RowPath
  <2> QED
    BY <1>e, <2>1, <2>2, <2>3 DEF Published
<1>1. ASSUME StartExport PROVE MemoryInv'
  BY <1>1, <1>a, <1>b DEF StartExport, MemoryInv
<1>2. ASSUME NEW status \in {"valid", "needs_review"}, PublishTicks(status) PROVE MemoryInv'
  BY <1>2, <1>a, <1>b DEF PublishTicks, MemoryInv
<1>3. ASSUME NEW rebuild \in BOOLEAN, StartLite(rebuild) PROVE MemoryInv'
  BY <1>3, <1>a, <1>b DEF StartLite, MemoryInv
<1>4. ASSUME PublishLite PROVE MemoryInv'
  BY <1>4, <1>a, <1>b DEF PublishLite, MemoryInv
<1>5. ASSUME EndExport PROVE MemoryInv'
  BY <1>5, <1>a, <1>b DEF EndExport, MemoryInv
<1>6. ASSUME EditDay PROVE MemoryInv'
  BY <1>6, <1>a, <1>b DEF EditDay, MemoryInv
<1>7. ASSUME NEW f \in files, RemoveReplaced(f) PROVE MemoryInv'
  BY <1>7, <1>a, <1>b DEF RemoveReplaced, MemoryInv
<1>8. ASSUME NEW l \in Loads, NEW d \in Dataset, ReadRow(l, d) PROVE MemoryInv'
  <2>1. LoadInv(l)'
    <3>1. CASE Ready(rows[d])
      <4>1. Published(d, rows[d].active_path)'
        BY <1>8, <3>1, <1>e DEF ReadRow, Ready, Published
      <4>2. load'[l] = [NoLoad EXCEPT !.phase = "looking", !.dataset = d,
                                      !.meta = MetaOf(rows[d])]
        BY <1>8, <3>1, <1>d DEF ReadRow
      <4> QED
        BY <1>8, <4>1, <4>2 DEF LoadInv, NoLoad, MetaOf, ReadRow
    <3>2. CASE ~Ready(rows[d])
      <4>1. load'[l].phase = "refused"
        BY <1>8, <3>2, <1>d DEF ReadRow, Refused, NoLoad
      <4> QED
        BY <4>1 DEF LoadInv
    <3> QED
      BY <3>1, <3>2
  <2> QED
    BY <1>8, <2>1, <1>a, <1>c DEF ReadRow, MemoryInv
<1>9. ASSUME NEW l \in Loads, ReadMeta(l) PROVE MemoryInv'
  <2>1. LoadInv(l)'
    BY <1>9, <1>d, LoadType DEF ReadMeta, LoadInv, MemoryInv, Memory, Published
  <2> QED
    BY <1>9, <2>1, <1>a, <1>c DEF ReadMeta, MemoryInv
<1>10. ASSUME NEW l \in Loads, ReadBin(l) PROVE MemoryInv'
  <2>1. LoadInv(l)'
    <3>0. PICK ds, old :
            /\ ds \in Dataset /\ ds = load[l].dataset
            /\ old = load[l].meta.active_path
      BY LoadType
    <3> DEFINE bin == cache[ds].bin
    <3>1. Published(ds, old)'
      BY <1>10, <3>0, PublishedStays DEF ReadBin, LoadInv, MemoryInv
    <3>2. CASE bin = None
      <4>1. load'[l] = [load[l] EXCEPT !.phase = "missed"]
        BY <1>10, <3>0, <3>2, <1>d DEF ReadBin
      <4> QED
        BY <3>0, <3>1, <4>1, LoadType DEF LoadInv, Memory
    <3>3. CASE bin # None
      <4>1. load'[l] = [load[l] EXCEPT !.phase = "served", !.content = bin]
        BY <1>10, <3>0, <3>3, <1>d DEF ReadBin
      <4>2. PICK f : f = bin.file
        OBVIOUS
      <4>3. Published(ds, f)'
        BY <3>0, <3>3, <4>2, PublishedStays DEF MemoryInv, SlotInv
      <4> QED
        BY <3>0, <3>1, <4>1, <4>2, <4>3, LoadType DEF LoadInv, Memory
    <3> QED
      BY <3>2, <3>3
  <2> QED
    BY <1>10, <2>1, <1>a, <1>c DEF ReadBin, MemoryInv
<1>11. ASSUME NEW l \in Loads, NEW near \in BOOLEAN, Open(l, near) PROVE MemoryInv'
  <2>1. LoadInv(l)'
    <3>0. PICK ds, old :
            /\ ds \in Dataset /\ ds = load[l].dataset
            /\ old = load[l].meta.active_path
      BY LoadType
    <3> DEFINE row == IF near /\ rows[ds].status = "needs_review"
                      THEN [rows[ds] EXCEPT !.status = "accepted"] ELSE rows[ds]
    <3>1. row.active_path = rows[ds].active_path
      BY DEF TypeOK, Row
    <3>2. Set(l, IF Ready(row)
                 THEN [load[l] EXCEPT !.phase = "opened", !.path = row.active_path]
                 ELSE Refused)
      BY <1>11, <3>0 DEF Open
    <3>3. CASE Ready(row)
      <4>0. PICK new : new = rows[ds].active_path
        OBVIOUS
      <4>1. load'[l] = [load[l] EXCEPT !.phase = "opened", !.path = new]
        BY <3>1, <3>2, <3>3, <4>0, <1>d
      <4>2. Published(ds, old) /\ Published(ds, new)
        BY <1>11, <3>0, <3>1, <3>3, <4>0, <1>e DEF Open, Ready, MemoryInv, LoadInv
      <4>3. Published(ds, old)' /\ Published(ds, new)'
        BY <3>0, <4>2, PublishedStays
      <4>4. old <= new
        BY <4>0, <4>2 DEF Published
      <4> QED
        BY <3>0, <4>1, <4>3, <4>4, LoadType DEF LoadInv, Memory
    <3>4. CASE ~Ready(row)
      <4>1. load'[l].phase = "refused"
        BY <3>2, <3>4, <1>d DEF Refused, NoLoad
      <4> QED
        BY <4>1 DEF LoadInv
    <3> QED
      BY <3>3, <3>4
  <2> QED
    BY <1>11, <2>1, <1>a, <1>c DEF Open, MemoryInv
<1>12. ASSUME NEW l \in Loads, Stream(l) PROVE MemoryInv'
  <2>1. LoadInv(l)'
    <3>0. PICK ds, old :
            /\ ds \in Dataset /\ ds = load[l].dataset
            /\ old = load[l].meta.active_path
      BY LoadType
    <3>1. PICK path : path = load[l].path
      OBVIOUS
    <3>2. Published(ds, old)' /\ Published(ds, path)' /\ old <= path
      BY <1>12, <3>0, <3>1, PublishedStays DEF Stream, LoadInv, MemoryInv
    <3>3. CASE path \in files
      <4>1. load'[l] = [load[l] EXCEPT
                !.phase = "storing", !.path = None,
                !.content = [file |-> path, valid_rows |-> l \notin Warmups]]
        BY <1>12, <3>1, <3>3, <1>d DEF Stream
      <4> QED
        BY <3>0, <3>2, <4>1, LoadType DEF LoadInv, Memory
    <3>4. CASE path \notin files
      <4>1. load'[l] = [load[l] EXCEPT !.phase = "file_gone"] /\ files' = files
        BY <1>12, <3>1, <3>4, <1>d DEF Stream
      <4> QED
        BY <3>0, <3>1, <3>2, <3>4, <4>1, LoadType DEF LoadInv, Memory
    <3> QED
      BY <3>3, <3>4
  <2> QED
    BY <1>12, <2>1, <1>a, <1>c DEF Stream, MemoryInv
<1>13. ASSUME NEW l \in Loads, StoreBin(l) PROVE MemoryInv'
  <2>1. LoadInv(l)'
    BY <1>13, <1>d, LoadType DEF StoreBin, LoadInv, MemoryInv, Memory, Published
  <2>2. ASSUME NEW d \in Dataset PROVE SlotInv(d)'
    <3>1. CASE d = load[l].dataset
      BY <1>13, <3>1, PublishedStays DEF StoreBin, SlotInv, MemoryInv, LoadInv, TypeOK
    <3>2. CASE d # load[l].dataset
      <4>1. cache'[d] = cache[d]
        BY <1>13, <3>2 DEF StoreBin, TypeOK
      <4> QED
        BY <4>1, SlotKept DEF MemoryInv
    <3> QED
      BY <3>1, <3>2
  <2> QED
    BY <1>13, <2>1, <2>2, <1>c DEF StoreBin, MemoryInv
<1>14. ASSUME NEW l \in Loads, StoreMeta(l) PROVE MemoryInv'
  <2>1. LoadInv(l)'
    BY <1>14, <1>d, LoadType DEF StoreMeta, Label, LoadInv, MemoryInv, Memory, Published
  <2>2. ASSUME NEW d \in Dataset PROVE SlotInv(d)'
    <3>1. CASE d = load[l].dataset
      BY <1>14, <3>1, PublishedStays DEF StoreMeta, Label, SlotInv, MemoryInv, LoadInv, TypeOK
    <3>2. CASE d # load[l].dataset
      <4>1. cache'[d] = cache[d]
        BY <1>14, <3>2 DEF StoreMeta, Label, TypeOK
      <4> QED
        BY <4>1, SlotKept DEF MemoryInv
    <3> QED
      BY <3>1, <3>2
  <2> QED
    BY <1>14, <2>1, <2>2, <1>c DEF StoreMeta, Label, MemoryInv
<1>15. ASSUME NEW l \in Loads, EndLoad(l) PROVE MemoryInv'
  <2>1. LoadInv(l)'
    BY <1>15, <1>d, LoadType DEF EndLoad, Leave, LoadInv, MemoryInv, Memory, Published, NoLoad
  <2> QED
    BY <1>15, <2>1, <1>a, <1>c DEF EndLoad, Leave, MemoryInv
<1>16. ASSUME NEW l \in Loads, Kill(l) PROVE MemoryInv'
  <2>1. LoadInv(l)'
    BY <1>16, <1>d, LoadType DEF Kill, Leave, LoadInv, MemoryInv, Memory, Published, NoLoad
  <2> QED
    BY <1>16, <2>1, <1>a, <1>c DEF Kill, Leave, MemoryInv
<1>17. ASSUME NEW d \in Dataset, RemoveBin(d) PROVE MemoryInv'
  <2>1. ASSUME NEW e \in Dataset
        PROVE  /\ cache'[e].bin \in {cache[e].bin, None}
               /\ cache'[e].meta \in {cache[e].meta, None}
    BY <1>17 DEF RemoveBin, TypeOK
  <2>2. \A e \in Dataset : SlotInv(e)'
    BY <2>1, SlotKept DEF MemoryInv
  <2> QED
    BY <1>17, <2>2, <1>b DEF RemoveBin, MemoryInv
<1>18. ASSUME NEW d \in Dataset, RemoveMeta(d) PROVE MemoryInv'
  <2>1. ASSUME NEW e \in Dataset
        PROVE  /\ cache'[e].bin \in {cache[e].bin, None}
               /\ cache'[e].meta \in {cache[e].meta, None}
    BY <1>18 DEF RemoveMeta, TypeOK
  <2>2. \A e \in Dataset : SlotInv(e)'
    BY <2>1, SlotKept DEF MemoryInv
  <2> QED
    BY <1>18, <2>2, <1>b DEF RemoveMeta, MemoryInv
<1>19. CASE UNCHANGED vars
  BY <1>19, <1>a, <1>b DEF vars, MemoryInv
<1> QED
  BY <1>1, <1>2, <1>3, <1>4, <1>5, <1>6, <1>7, <1>8, <1>9, <1>10, <1>11,
     <1>12, <1>13, <1>14, <1>15, <1>16, <1>17, <1>18, <1>19
     DEF Next

LEMMA MemoryInit == Init => RowInv /\ MemoryInv /\ PairInv
<1> QED
  BY DEF Init, RowInv, MemoryInv, SlotInv, LoadInv, PairInv, SlotPaired, LoadPaired,
         MissingRow, NoLoad

-----------------------------------------------------------------------------
(* The columns on disk and the metadata beside them.                       *)

(* A removal leaves each slot as it is or without one of its files.        *)
LEMMA RemovalKeepsPairs ==
    ASSUME PairInv, load' = load, UNCHANGED history,
           \A d \in Dataset : /\ cache'[d].bin \in {cache[d].bin, None}
                              /\ cache'[d].meta \in {cache[d].meta, None},
           TypeOK
    PROVE  PairInv'
<1>1. ASSUME NEW d \in Dataset PROVE SlotPaired(d)'
  BY DEF SlotPaired, PairInv, history
<1>2. ASSUME NEW l \in Loads PROVE LoadPaired(l)'
  <2>1. load[l].dataset \in Dataset
    BY LoadType DEF Memory
  <2> QED
    BY <2>1 DEF LoadPaired, PairInv, history
<1> QED
  BY <1>1, <1>2 DEF PairInv

LEMMA PairStep ==
    ASSUME TypeOK, RowInv, MemoryInv, PairInv, [Next]_vars
    PROVE  PairInv'
<1>a. ASSUME UNCHANGED <<cache, torn>>, NEW l \in Loads, NEW new, Set(l, new),
             crossed \subseteq crossed' \cup {l}, LoadPaired(l)'
      PROVE  PairInv'
  <2>1. \A k \in Loads : k # l => load'[k] = load[k]
    BY <1>a DEF Set, TypeOK
  <2>2. ASSUME NEW d \in Dataset PROVE SlotPaired(d)'
    BY <1>a DEF SlotPaired, PairInv
  <2>3. ASSUME NEW k \in Loads, k # l PROVE LoadPaired(k)'
    BY <1>a, <2>1, <2>3 DEF LoadPaired, PairInv
  <2> QED
    BY <1>a, <2>2, <2>3 DEF PairInv
<1>b. ASSUME NEW l \in Loads, NEW new, Set(l, new) PROVE load'[l] = new
  BY <1>b DEF Set, TypeOK
<1>c. ASSUME UNCHANGED <<cache, load, torn, crossed>> PROVE PairInv'
  BY <1>c DEF PairInv, SlotPaired, LoadPaired
<1>1. ASSUME StartExport PROVE PairInv'
  BY <1>1, <1>c DEF StartExport, history
<1>2. ASSUME NEW status \in {"valid", "needs_review"}, PublishTicks(status) PROVE PairInv'
  BY <1>2, <1>c DEF PublishTicks, history
<1>3. ASSUME NEW rebuild \in BOOLEAN, StartLite(rebuild) PROVE PairInv'
  BY <1>3, <1>c DEF StartLite, history
<1>4. ASSUME PublishLite PROVE PairInv'
  BY <1>4, <1>c DEF PublishLite, history
<1>5. ASSUME EndExport PROVE PairInv'
  BY <1>5, <1>c DEF EndExport, history
<1>6. ASSUME EditDay PROVE PairInv'
  BY <1>6, <1>c DEF EditDay, history
<1>7. ASSUME NEW f \in files, RemoveReplaced(f) PROVE PairInv'
  BY <1>7, <1>c DEF RemoveReplaced, history
<1>8. ASSUME NEW l \in Loads, NEW d \in Dataset, ReadRow(l, d) PROVE PairInv'
  <2> DEFINE looking == [NoLoad EXCEPT !.phase = "looking", !.dataset = d,
                                       !.meta = MetaOf(rows[d])]
  <2>a. looking.phase = "looking" /\ Refused.phase = "refused"
    BY DEF NoLoad, Refused
  <2>1. PICK new : Set(l, new) /\ new.phase \notin {"labelling", "reading", "served"}
    <3>1. Set(l, looking) \/ Set(l, Refused)
      BY <1>8 DEF ReadRow
    <3> HIDE DEF looking
    <3> QED
      BY <2>a, <3>1
  <2>2. LoadPaired(l)'
    BY <1>b, <2>1 DEF LoadPaired
  <2>3. UNCHANGED <<cache, torn, crossed>>
    BY <1>8 DEF ReadRow, history
  <2> QED
    BY <1>a, <2>1, <2>2, <2>3
<1>9. ASSUME NEW l \in Loads, ReadMeta(l) PROVE PairInv'
  <2> DEFINE d == load[l].dataset
             slot == cache[d]
  <2>0. d \in Dataset
    BY LoadType DEF Memory
  <2>1. PICK new : Set(l, new)
    BY <1>9 DEF ReadMeta
  <2>2. LoadPaired(l)'
    <3>1. CASE PartitionCacheValid(slot, load[l].meta)
      <4>1. load'[l] = [load[l] EXCEPT !.phase = "reading"] /\ cache' = cache
        BY <1>9, <3>1, <1>b DEF ReadMeta
      <4>2. d \in torn => l \in crossed'
        BY <1>9, <3>1 DEF ReadMeta
      <4>3. d \notin torn => load[l].meta.active_path <= slot.bin.file
        BY <2>0, <3>1 DEF PartitionCacheValid, PairInv, SlotPaired
      <4> QED
        BY <4>1, <4>2, <4>3, LoadType DEF LoadPaired, Memory
    <3>2. CASE ~PartitionCacheValid(slot, load[l].meta)
      <4>1. load'[l].phase = "missed"
        BY <1>9, <3>2, <1>b, LoadType DEF ReadMeta, Memory
      <4> QED
        BY <4>1 DEF LoadPaired
    <3> QED
      BY <3>1, <3>2
  <2>3. UNCHANGED <<cache, torn>> /\ crossed \subseteq crossed'
    BY <1>9 DEF ReadMeta
  <2> QED
    BY <1>a, <2>1, <2>2, <2>3
<1>10. ASSUME NEW l \in Loads, ReadBin(l) PROVE PairInv'
  <2> DEFINE bin == cache[load[l].dataset].bin
  <2>1. PICK new : Set(l, new)
    BY <1>10 DEF ReadBin
  <2>2. LoadPaired(l)'
    <3>1. CASE bin = None
      <4>1. load'[l].phase = "missed"
        BY <1>10, <3>1, <1>b, LoadType DEF ReadBin, Memory
      <4> QED
        BY <4>1 DEF LoadPaired
    <3>2. CASE bin # None
      <4>1. load'[l] = [load[l] EXCEPT !.phase = "served", !.content = bin]
            /\ crossed' = crossed
        BY <1>10, <1>b, <3>2 DEF ReadBin
      <4>2. l \notin crossed => load[l].meta.active_path <= bin.file
        BY <1>10, <3>2 DEF ReadBin, PairInv, LoadPaired
      <4> QED
        BY <4>1, <4>2, LoadType DEF LoadPaired, Memory
    <3> QED
      BY <3>1, <3>2
  <2>3. UNCHANGED <<cache, torn>> /\ crossed \subseteq crossed' \cup {l}
    BY <1>10 DEF ReadBin
  <2> QED
    BY <1>a, <2>1, <2>2, <2>3
<1>11. ASSUME NEW l \in Loads, NEW near \in BOOLEAN, Open(l, near) PROVE PairInv'
  <2>1. PICK new : Set(l, new)
    BY <1>11 DEF Open
  <2>2. load'[l].phase \in {"opened", "refused"}
    BY <1>11, <1>b, LoadType DEF Open, Memory, NoLoad, Refused
  <2>3. LoadPaired(l)'
    BY <2>2 DEF LoadPaired
  <2> QED
    BY <1>11, <1>a, <2>1, <2>3 DEF Open, history
<1>12. ASSUME NEW l \in Loads, Stream(l) PROVE PairInv'
  <2>1. PICK new : Set(l, new)
    BY <1>12 DEF Stream
  <2>2. load'[l].phase \in {"storing", "file_gone"}
    BY <1>12, <1>b, LoadType DEF Stream, Memory
  <2>3. LoadPaired(l)'
    BY <2>2 DEF LoadPaired
  <2> QED
    BY <1>12, <1>a, <2>1, <2>3 DEF Stream, history
<1>13. ASSUME NEW l \in Loads, StoreBin(l) PROVE PairInv'
  <2> DEFINE d == load[l].dataset
  <2>0. d \in Dataset
    BY LoadType DEF Memory
  <2>1. load'[l] = [load[l] EXCEPT !.phase = "labelling"]
        /\ \A k \in Loads : k # l => load'[k] = load[k]
    BY <1>13, <1>b DEF StoreBin, Set, TypeOK
  <2>2. cache'[d].bin = load[l].content
        /\ \A e \in Dataset : e # d => cache'[e] = cache[e]
    BY <1>13, <2>0 DEF StoreBin, TypeOK
  <2>3. torn' = torn \cup {d} /\ crossed' = crossed \cup Halfway(l, d)
    BY <1>13 DEF StoreBin
  <2>4. ASSUME NEW k \in Loads PROVE LoadPaired(k)'
    <3>1. CASE k = l
      BY <2>1, <2>2, <3>1, LoadType DEF LoadPaired, Memory
    <3>2. CASE k # l /\ k \in Halfway(l, d)
      BY <2>3, <3>2 DEF LoadPaired
    <3>3. CASE k # l /\ k \notin Halfway(l, d)
      <4>1. load'[k] = load[k] /\ load[k].dataset \in Dataset
        BY <2>1, <3>3, LoadType DEF Memory
      <4>2. load[k].dataset = d => load[k].phase \notin {"reading", "labelling"}
        BY <3>3 DEF Halfway
      <4>3. k \notin crossed' => k \notin crossed
        BY <2>3
      <4>4. CASE load[k].dataset = d
        BY <4>1, <4>2, <4>3, <4>4 DEF LoadPaired, PairInv
      <4>5. CASE load[k].dataset # d
        <5>1. cache'[load[k].dataset] = cache[load[k].dataset]
          BY <2>2, <4>1, <4>5
        <5> QED
          BY <4>1, <4>3, <5>1 DEF LoadPaired, PairInv
      <4> QED
        BY <4>4, <4>5
    <3> QED
      BY <3>1, <3>2, <3>3
  <2>5. ASSUME NEW e \in Dataset PROVE SlotPaired(e)'
    BY <2>2, <2>3 DEF SlotPaired, PairInv
  <2> QED
    BY <2>4, <2>5 DEF PairInv
<1>14. ASSUME NEW l \in Loads, StoreMeta(l) PROVE PairInv'
  <2> DEFINE d == load[l].dataset
  <2>0. d \in Dataset
    BY LoadType DEF Memory
  <2>a. /\ load[l].meta.active_path <= load[l].content.file
        /\ l \notin crossed => cache[d].bin \in {load[l].content, None}
    BY <1>14 DEF StoreMeta, Label, MemoryInv, LoadInv, PairInv, LoadPaired
  <2>1. load'[l] = [load[l] EXCEPT !.phase = "served"]
        /\ \A k \in Loads : k # l => load'[k] = load[k]
    BY <1>14, <1>b DEF StoreMeta, Label, Set, TypeOK
  <2>2. /\ cache'[d].meta = load[l].meta
        /\ \A e \in Dataset : cache'[e].bin = cache[e].bin
        /\ \A e \in Dataset : e # d => cache'[e] = cache[e]
    BY <1>14, <2>0 DEF StoreMeta, Label, TypeOK
  <2>3. /\ crossed' = crossed \ {l}
        /\ l \in crossed => torn' = torn \cup {d}
        /\ l \notin crossed => torn' = torn \ {d}
    BY <1>14 DEF StoreMeta, Label
  <2>4. ASSUME NEW k \in Loads PROVE LoadPaired(k)'
    <3>1. CASE k = l
      BY <2>a, <2>1, <3>1, LoadType DEF LoadPaired, Memory
    <3>2. CASE k # l
      <4>1. load'[k] = load[k] /\ load[k].dataset \in Dataset
        BY <2>1, <3>2, LoadType DEF Memory
      <4>2. cache'[load[k].dataset].bin = cache[load[k].dataset].bin
        BY <2>2, <4>1
      <4> QED
        BY <2>3, <3>2, <4>1, <4>2 DEF LoadPaired, PairInv
    <3> QED
      BY <3>1, <3>2
  <2>5. ASSUME NEW e \in Dataset PROVE SlotPaired(e)'
    <3>1. CASE e = d /\ l \in crossed
      BY <2>3, <3>1 DEF SlotPaired
    <3>2. CASE e = d /\ l \notin crossed
      BY <2>a, <2>2, <3>2 DEF SlotPaired
    <3>3. CASE e # d
      BY <2>2, <2>3, <3>3 DEF SlotPaired, PairInv
    <3> QED
      BY <3>1, <3>2, <3>3
  <2> QED
    BY <2>4, <2>5 DEF PairInv
<1>15. ASSUME NEW l \in Loads, EndLoad(l) PROVE PairInv'
  <2>1. Set(l, NoLoad) /\ UNCHANGED <<cache, torn>> /\ crossed \subseteq crossed' \cup {l}
    BY <1>15 DEF EndLoad, Leave
  <2>2. load'[l].phase = "idle"
    BY <1>b, <2>1 DEF NoLoad
  <2>3. LoadPaired(l)'
    BY <2>2 DEF LoadPaired
  <2> QED
    BY <1>a, <2>1, <2>3
<1>16. ASSUME NEW l \in Loads, Kill(l) PROVE PairInv'
  <2>1. Set(l, NoLoad) /\ UNCHANGED <<cache, torn>> /\ crossed \subseteq crossed' \cup {l}
    BY <1>16 DEF Kill, Leave
  <2>2. load'[l].phase = "idle"
    BY <1>b, <2>1 DEF NoLoad
  <2>3. LoadPaired(l)'
    BY <2>2 DEF LoadPaired
  <2> QED
    BY <1>a, <2>1, <2>3
<1>17. ASSUME NEW d \in Dataset, RemoveBin(d) PROVE PairInv'
  <2>1. ASSUME NEW e \in Dataset
        PROVE  /\ cache'[e].bin \in {cache[e].bin, None}
               /\ cache'[e].meta \in {cache[e].meta, None}
    BY <1>17 DEF RemoveBin, TypeOK
  <2> QED
    BY <1>17, <2>1, RemovalKeepsPairs DEF RemoveBin
<1>18. ASSUME NEW d \in Dataset, RemoveMeta(d) PROVE PairInv'
  <2>1. ASSUME NEW e \in Dataset
        PROVE  /\ cache'[e].bin \in {cache[e].bin, None}
               /\ cache'[e].meta \in {cache[e].meta, None}
    BY <1>18 DEF RemoveMeta, TypeOK
  <2> QED
    BY <1>18, <2>1, RemovalKeepsPairs DEF RemoveMeta
<1>19. CASE UNCHANGED vars
  BY <1>19, <1>c DEF vars
<1> QED
  BY <1>1, <1>2, <1>3, <1>4, <1>5, <1>6, <1>7, <1>8, <1>9, <1>10, <1>11,
     <1>12, <1>13, <1>14, <1>15, <1>16, <1>17, <1>18, <1>19
     DEF Next

-----------------------------------------------------------------------------
(* What the cache and the loads remember was published for their dataset. *)
LEMMA MemoryInvariance == Spec => [](TypeOK /\ RowInv /\ MemoryInv)
<1>1. Init => TypeOK /\ RowInv /\ MemoryInv
  BY TypeInit, MemoryInit
<1>2. TypeOK /\ RowInv /\ MemoryInv /\ [Next]_vars => (TypeOK /\ RowInv /\ MemoryInv)'
  BY TypeStep, RowStep, MemoryStep
<1> QED
  BY <1>1, <1>2, PTL DEF Spec

(* Columns and metadata of one store belong together.                      *)
LEMMA PairInvariance == Spec => []PairInv
<1>1. Init => PairInv
  BY MemoryInit
<1>2. TypeOK /\ RowInv /\ MemoryInv /\ PairInv /\ [Next]_vars => PairInv'
  BY PairStep
<1> QED
  BY <1>1, <1>2, MemoryInvariance, PTL DEF Spec

(* A load that lost its file lost it to a newer publication of its day: the*)
(* export and the cleanup never remove a file a row names.                 *)
THEOREM FileGoneIsReplaced == Spec => []LostFileWasReplaced
<1>1. TypeOK /\ RowInv /\ MemoryInv => LostFileWasReplaced
  <2> SUFFICES ASSUME TypeOK, RowInv, MemoryInv, NEW l \in Loads,
                      load[l].phase = "file_gone"
               PROVE  rows[load[l].dataset].active_path > load[l].path
    BY DEF LostFileWasReplaced
  <2>1. Published(load[l].dataset, load[l].path) /\ load[l].path \notin files
    BY DEF MemoryInv, LoadInv
  <2>2. rows[load[l].dataset].active_path \in files
    BY <2>1, LoadType DEF RowInv, Published
  <2>3. rows[load[l].dataset].active_path \in Nat /\ load[l].path \in Nat
    BY <2>1, LoadType, RowPath DEF Published
  <2> QED
    BY <2>1, <2>2, <2>3 DEF Published
<1> QED
  BY <1>1, MemoryInvariance, PTL

(* A cached day of one store that a lookup accepts is the day the manifest *)
(* publishes, whatever is exported, killed, evicted or stored beside it.   *)
THEOREM CacheIsCurrent == Spec => []CacheDescribesRow
<1>1. TypeOK /\ RowInv /\ MemoryInv /\ PairInv => CacheDescribesRow
  <2> SUFFICES ASSUME TypeOK, MemoryInv, PairInv, NEW d \in Dataset \ torn,
                      PartitionCacheValid(cache[d], rows[d])
               PROVE  cache[d].bin.file = rows[d].active_path
    BY DEF CacheDescribesRow
  <2>1. /\ cache[d].bin # None /\ cache[d].meta # None
        /\ cache[d].meta.active_path = rows[d].active_path
    BY DEF PartitionCacheValid
  <2>2. Published(d, cache[d].bin.file) /\ rows[d].active_path <= cache[d].bin.file
    BY <2>1 DEF MemoryInv, SlotInv, PairInv, SlotPaired
  <2>3. rows[d].active_path \in Nat /\ cache[d].bin.file \in Nat
    BY <2>2, RowPath DEF Published
  <2> QED
    BY <2>2, <2>3 DEF Published
<1> QED
  BY <1>1, MemoryInvariance, PairInvariance, PTL

(* What a load returns is of its dataset and was published by then, and it *)
(* was so during the load, unless another store crossed its lookup or had  *)
(* left the slot torn.                                                     *)
THEOREM ServedIsPublished == Spec => []ServedWasPublished
<1>1. MemoryInv /\ PairInv => ServedWasPublished
  BY DEF MemoryInv, LoadInv, PairInv, LoadPaired, Published, ServedWasPublished
<1> QED
  BY <1>1, MemoryInvariance, PairInvariance, PTL
=============================================================================
