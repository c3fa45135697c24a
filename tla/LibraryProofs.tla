---------------------------- MODULE LibraryProofs ----------------------------
(***************************************************************************)
(* Proofs about Library, for every set of labels, backup ids, object names,*)
(* instances, dates and sizes: its types, the ownership of tapes, the      *)
(* tape pool it implements, the references between its tables, and what a  *)
(* command may never do to the record of a tape.                           *)
(***************************************************************************)
EXTENDS LibraryPool, Commands, FiniteSetTheorems, SequenceTheorems, TLAPS

-----------------------------------------------------------------------------
(* What the statements of the catalogue preserve                           *)

(* A volume that may be used is in the library and belongs to no other     *)
(* backup than the one that uses it.                                       *)
LEMMA UsableVolume ==
    ASSUME NEW vols, NEW l, NEW b, Usable(vols, l, b)
    PROVE  l \in DOMAIN vols /\ vols[l].bck_id \in {0, b}
  BY DEF Usable, CanUse

(* Claiming a volume keeps the table a table, and changes that row only.   *)
LEMMA SetVolumeUsedTable ==
    ASSUME NEW vols, VolumeTable(vols), NEW l \in DOMAIN vols, NEW b \in BckId \cup {0}
    PROVE  LET new == SetVolumeUsed(vols, l, b)
           IN  /\ VolumeTable(new)
               /\ DOMAIN new = DOMAIN vols
               /\ new[l] = [bck_id |-> b, state |-> "A", usage |-> vols[l].usage]
               /\ \A k \in DOMAIN vols \ {l} : new[k] = vols[k]
  BY DEF VolumeTable, Volume, SetVolumeUsed

(* Counting a use of a backup's volumes keeps their owner and state.       *)
LEMMA IncVolumeUsageTable ==
    ASSUME NEW vols, VolumeTable(vols), NEW b
    PROVE  LET new == IncVolumeUsage(vols, b)
           IN  /\ VolumeTable(new)
               /\ DOMAIN new = DOMAIN vols
               /\ \A k \in DOMAIN vols : /\ new[k].bck_id = vols[k].bck_id
                                         /\ new[k].state = vols[k].state
  BY DEF VolumeTable, Volume, IncVolumeUsage

(* Freeing the volumes of B leaves the other volumes as they were.         *)
LEMMA FreeVolumesTable ==
    ASSUME NEW vols, VolumeTable(vols), NEW B
    PROVE  LET new == FreeVolumes(vols, B)
           IN  /\ VolumeTable(new)
               /\ DOMAIN new = DOMAIN vols
               /\ \A k \in DOMAIN vols :
                     /\ vols[k].bck_id \in B => new[k].bck_id = 0 /\ new[k].state = "F"
                     /\ vols[k].bck_id \notin B => new[k] = vols[k]
  BY DEF VolumeTable, Volume, FreeVolumes

(* Adding a volume adds its row and keeps the others.                      *)
LEMMA InsertVolumeTable ==
    ASSUME NEW vols, VolumeTable(vols), NEW l \in Label, NEW row \in Volume
    PROVE  LET new == InsertVolume(vols, l, row)
           IN  /\ VolumeTable(new)
               /\ DOMAIN new = DOMAIN vols \cup {l}
               /\ new[l] = row
               /\ \A k \in DOMAIN vols \ {l} : new[k] = vols[k]
  BY DEF VolumeTable, InsertVolume

(* Removing a volume keeps the rows of the others.                         *)
LEMMA DeleteVolumeTable ==
    ASSUME NEW vols, VolumeTable(vols), NEW l
    PROVE  LET new == DeleteVolume(vols, l)
           IN  /\ VolumeTable(new)
               /\ DOMAIN new = DOMAIN vols \ {l}
               /\ \A k \in DOMAIN vols \ {l} : new[k] = vols[k]
  BY DEF VolumeTable, DeleteVolume

(* The three statements on backups.                                        *)
LEMMA BackupStatements ==
    ASSUME NEW bcks, BackupTable(bcks)
    PROVE  /\ \A b \in BckId, row \in Backup :
                 /\ BackupTable(InsertBackup(bcks, b, row))
                 /\ DOMAIN InsertBackup(bcks, b, row) = DOMAIN bcks \cup {b}
           /\ \A b \in DOMAIN bcks, row \in Backup :
                 /\ BackupTable(UpdateBackup(bcks, b, row))
                 /\ DOMAIN UpdateBackup(bcks, b, row) = DOMAIN bcks
           /\ \A B : /\ BackupTable(DeleteBackups(bcks, B))
                     /\ DOMAIN DeleteBackups(bcks, B) = DOMAIN bcks \ B
<1>1. ASSUME NEW b \in BckId, NEW row \in Backup
      PROVE  /\ BackupTable(InsertBackup(bcks, b, row))
             /\ DOMAIN InsertBackup(bcks, b, row) = DOMAIN bcks \cup {b}
  BY DEF BackupTable, InsertBackup
<1>2. ASSUME NEW b \in DOMAIN bcks, NEW row \in Backup
      PROVE  /\ BackupTable(UpdateBackup(bcks, b, row))
             /\ DOMAIN UpdateBackup(bcks, b, row) = DOMAIN bcks
  BY DEF BackupTable, UpdateBackup
<1>3. ASSUME NEW B
      PROVE  /\ BackupTable(DeleteBackups(bcks, B))
             /\ DOMAIN DeleteBackups(bcks, B) = DOMAIN bcks \ B
  BY DEF BackupTable, DeleteBackups
<1>4. QED
  BY <1>1, <1>2, <1>3

(* The statements on bck_objects keep its rows well formed.                *)
LEMMA ObjectStatements ==
    ASSUME NEW objs, ObjectTable(objs), NEW b \in BckId, NEW o \in ObjName,
           NEW i \in Instance, NEW e \in Time \cup {0}, NEW total, NEW B
    PROVE  /\ ObjectTable(InsertBckObject(objs, b, o, i))
           /\ ObjectTable(EndBckObject(objs, b, o, i, e, total))
           /\ ObjectTable(DeleteRows(objs, B))
<1>1. ObjectTable(InsertBckObject(objs, b, o, i))
  BY DEF ObjectTable, InsertBckObject, ObjectRow
<1>2. ObjectTable(EndBckObject(objs, b, o, i, e, total))
  BY DEF ObjectTable, EndBckObject, ObjectRow, IsOf
<1>3. ObjectTable(DeleteRows(objs, B))
  BY DEF ObjectTable, DeleteRows
<1>4. QED
  BY <1>1, <1>2, <1>3

(* The number of segments of a backup on a label is a number.              *)
LEMMA CountVolObjLabelNat ==
    ASSUME NEW segs, VolObjTable(segs), NEW b, NEW l
    PROVE  CountVolObjLabel(segs, b, l) \in Nat
<1> DEFINE on == {s \in segs : s.bck_id = b /\ s.label = l}
<1>1. IsFiniteSet(on)
  BY FS_Subset DEF VolObjTable
<1>2. QED
  BY <1>1, FS_CardinalityType DEF CountVolObjLabel

(* The statements on vol_obj keep it a finite set of segment rows.         *)
LEMMA VolObjStatements ==
    ASSUME NEW segs, VolObjTable(segs), NEW b \in BckId, NEW o \in ObjName,
           NEW i \in Instance, NEW l \in Label, NEW n \in Nat,
           NEW e \in Time \cup {0}, NEW sz \in Size \cup {0}, NEW B
    PROVE  /\ VolObjTable(InsertVolObj(segs, b, o, i, l, n))
           /\ VolObjTable(EndVolObj(segs, b, o, i, l, e, sz))
           /\ VolObjTable(DeleteRows(segs, B))
<1>1. VolObjTable(InsertVolObj(segs, b, o, i, l, n))
  <2>1. SegmentRow(b, o, i, l, n, 0, 0) \in VolObj
    BY DEF SegmentRow, VolObj
  <2>2. IsFiniteSet(segs \cup {SegmentRow(b, o, i, l, n, 0, 0)})
    BY FS_AddElement DEF VolObjTable
  <2>3. QED
    BY <2>1, <2>2 DEF VolObjTable, InsertVolObj
<1>2. VolObjTable(EndVolObj(segs, b, o, i, l, e, sz))
  <2> DEFINE ended(s) == IF IsOf(s, b, o, i) /\ s.label = l /\ s.end = 0
                         THEN SegmentRow(b, o, i, l, s.fileno, e, sz) ELSE s
  <2> DEFINE f == [s \in segs |-> ended(s)]
  <2>1. \A s \in segs : ended(s) \in VolObj
    BY DEF VolObjTable, VolObj, SegmentRow
  <2>2. f \in Surjection(segs, EndVolObj(segs, b, o, i, l, e, sz))
    BY DEF EndVolObj, Surjection
  <2>3. IsFiniteSet(EndVolObj(segs, b, o, i, l, e, sz))
    BY <2>2, FS_Surjection DEF VolObjTable
  <2>4. QED
    BY <2>1, <2>3 DEF VolObjTable, EndVolObj
<1>3. VolObjTable(DeleteRows(segs, B))
  BY FS_Subset DEF VolObjTable, DeleteRows
<1>4. QED
  BY <1>1, <1>2, <1>3

(* The statements on bck_errors keep it a sequence of error rows.          *)
LEMMA ErrorStatements ==
    ASSUME NEW errs, ErrorTable(errs), NEW l \in Label, NEW b \in BckId,
           NEW o \in ObjName, NEW i \in Instance
    PROVE  ErrorTable(InsertBckError(errs, l, b, o, i))
  BY DEF ErrorTable, InsertBckError, BckError

(* Detaching the errors of deleted backups keeps one row for each.         *)
LEMMA DetachedErrors ==
    ASSUME NEW errs, ErrorTable(errs), NEW B
    PROVE  /\ ErrorTable(DetachErrors(errs, B))
           /\ DOMAIN DetachErrors(errs, B) = DOMAIN errs
<1>1. DOMAIN DetachErrors(errs, B) = DOMAIN errs
  BY DEF DetachErrors
<1>2. ErrorTable(DetachErrors(errs, B))
  <2> DEFINE detached(k) == IF errs[k].bck_id \in B THEN [errs[k] EXCEPT !.bck_id = 0]
                                                    ELSE errs[k]
  <2>1. PICK n \in Nat : DOMAIN errs = 1 .. n
    BY DEF ErrorTable
  <2>2. \A k \in 1 .. n : errs[k] \in BckError
    BY <2>1 DEF ErrorTable
  <2>3. \A k \in 1 .. n : detached(k) \in BckError
    BY <2>2 DEF BckError
  <2>4. DetachErrors(errs, B) = [k \in 1 .. n |-> detached(k)]
    BY <2>1 DEF DetachErrors
  <2>5. DetachErrors(errs, B) \in [1 .. n -> BckError]
    BY <2>3, <2>4
  <2>6. QED
    BY <2>5, SeqDef DEF ErrorTable
<1>3. QED
  BY <1>1, <1>2
-----------------------------------------------------------------------------
(* Types                                                                   *)

(* The transaction that deletes backups keeps every table well formed.     *)
LEMMA DeleteTypeOK ==
    ASSUME TypeOK, NEW B, DeleteBackupIds(B)
    PROVE  TypeOK'
<1>1. VolumeTable(volumes') /\ BackupTable(backups')
  BY FreeVolumesTable, BackupStatements DEF TypeOK, DeleteBackupIds
<1>2. ObjectTable(bck_objects') /\ VolObjTable(vol_obj')
  BY FS_Subset DEF TypeOK, DeleteBackupIds, ObjectTable, VolObjTable, DeleteRows
<1>3. ErrorTable(bck_errors')
  BY DetachedErrors DEF TypeOK, DeleteBackupIds
<1>4. QED
  BY <1>1, <1>2, <1>3 DEF TypeOK, DeleteBackupIds

(* Every command keeps every table well formed.                            *)
LEMMA TypeStep == TypeOK /\ [Next]_vars => TypeOK'
<1> SUFFICES ASSUME TypeOK, [Next]_vars
             PROVE  TypeOK'
  OBVIOUS
<1> USE DEF TypeOK
<1>1. ASSUME NEW l \in Label, NEW st \in {"F", "A"}, NEW n \in Nat,
             AddVolume(l, st, n) \/ ModifyState(l, st) \/ ModifyUsage(l, n)
      PROVE  TypeOK'
  <2>1. CASE AddVolume(l, st, n)
    <3>1. [bck_id |-> 0, state |-> st, usage |-> n] \in Volume
      BY DEF Volume
    <3>2. QED
      BY <2>1, <3>1, InsertVolumeTable DEF AddVolume
  <2>2. CASE ModifyState(l, st) \/ ModifyUsage(l, n)
    BY <2>2 DEF ModifyState, ModifyUsage, VolumeTable, Volume
  <2>3. QED
    BY <1>1, <2>1, <2>2
<1>2. ASSUME NEW l \in Label, RemoveVolume(l)
      PROVE  TypeOK'
  BY <1>2, DeleteVolumeTable DEF RemoveVolume
<1>3. ASSUME NEW b \in BckId, NEW x \in Time, NewBackup(b, x)
      PROVE  TypeOK'
  <2>1. [end |-> 0, expiredate |-> x] \in Backup
    BY DEF Backup
  <2>2. QED
    BY <1>3, <2>1, BackupStatements DEF NewBackup
<1>4. ASSUME NEW b \in BckId, NEW x \in Time, NEW e \in Time \cup {0}, ModifyBackup(b, x, e)
      PROVE  TypeOK'
  <2>1. [end |-> e, expiredate |-> x] \in Backup
    BY DEF Backup
  <2>2. QED
    BY <1>4, <2>1, BackupStatements DEF ModifyBackup
<1>5. ASSUME NEW b \in BckId \cup {0}, NEW g \in Time \cup {0}, FinishBackup(b, g)
      PROVE  TypeOK'
  <2>1. VolumeTable(volumes')
    BY <1>5, IncVolumeUsageTable DEF FinishBackup
  <2>2. BackupTable(backups')
    <3>1. PICK e \in {g} \cup {s.end : s \in vol_obj} \cup {0} :
             backups' = IF b \in DOMAIN backups
                        THEN UpdateBackup(backups, b, [backups[b] EXCEPT !.end = e])
                        ELSE backups
      BY <1>5 DEF FinishBackup
    <3>2. e \in Time \cup {0}
      BY DEF VolObjTable, VolObj
    <3>3. b \in DOMAIN backups => [backups[b] EXCEPT !.end = e] \in Backup
      BY <3>2 DEF BackupTable, Backup
    <3>4. QED
      BY <3>1, <3>3, BackupStatements
  <2>3. QED
    BY <1>5, <2>1, <2>2 DEF FinishBackup
<1>6. ASSUME NEW B, DeleteBackupIds(B)
      PROVE  TypeOK'
  BY <1>6, DeleteTypeOK
<1>7. ASSUME NEW b \in BckId \cup {0}, NEW o \in ObjName, NEW l \in Label,
             NEW given \in Instance \cup {0}, StartBackup(b, o, l, given)
      PROVE  TypeOK'
  <2>1. b \in BckId
    BY <1>7 DEF StartBackup, BackupTable
  <2>2. VolumeTable(volumes')
    BY <1>7, UsableVolume, SetVolumeUsedTable DEF StartBackup
  <2> DEFINE i == ObjInstance(bck_objects, b, o, given)
  <2>3. i \in Instance
    BY <1>7 DEF StartBackup
  <2>4. ObjectTable(bck_objects')
    BY <1>7, <2>1, <2>3 DEF StartBackup, ObjectTable, InsertBckObject, ObjectRow
  <2>5. VolObjTable(vol_obj')
    <3>1. vol_obj' = InsertVolObj(vol_obj, b, o, i, l, CountVolObjLabel(vol_obj, b, l))
      BY <1>7 DEF StartBackup
    <3>2. CountVolObjLabel(vol_obj, b, l) \in Nat
      BY CountVolObjLabelNat
    <3>3. QED
      BY <2>1, <2>3, <3>1, <3>2, VolObjStatements
  <2>6. QED
    BY <1>7, <2>2, <2>4, <2>5 DEF StartBackup
<1>8. ASSUME NEW b \in BckId \cup {0}, NEW o \in ObjName, NEW l \in Label,
             NEW i \in Instance, ChangeVolumeNoSegment(b, o, i, l)
      PROVE  TypeOK'
  BY <1>8, UsableVolume, SetVolumeUsedTable DEF ChangeVolumeNoSegment
<1>9. ASSUME NEW b \in BckId \cup {0}, NEW o \in ObjName, NEW l \in Label,
             NEW i \in Instance, NEW e \in Time, NEW sz \in Size, ChangeVolume(b, o, i, l, e, sz)
      PROVE  TypeOK'
  <2>1. PICK s \in CurrentVolObjs(vol_obj, b, o, i) :
           vol_obj' = InsertVolObj(EndVolObj(vol_obj, b, o, i, s.label, e, sz), b, o, i, l, 0)
    BY <1>9 DEF ChangeVolume
  <2>2. b \in BckId /\ s.label \in Label
    BY DEF CurrentVolObjs, IsOf, VolObjTable, VolObj
  <2>3. VolObjTable(EndVolObj(vol_obj, b, o, i, s.label, e, sz))
    BY <2>2, VolObjStatements
  <2>4. VolObjTable(vol_obj')
    BY <2>1, <2>2, <2>3, VolObjStatements
  <2>5. VolumeTable(volumes')
    BY <1>9, UsableVolume, SetVolumeUsedTable DEF ChangeVolume
  <2>6. QED
    BY <1>9, <2>4, <2>5 DEF ChangeVolume
<1>10. ASSUME NEW b \in BckId \cup {0}, NEW o \in ObjName, NEW l \in Label,
              NEW i \in Instance, NEW e \in Time, NEW sz \in Size, EndBackup(b, o, i, l, e, sz)
       PROVE  TypeOK'
  <2>1. b \in BckId
    BY <1>10 DEF EndBackup, CurrentVolObjs, IsOf, VolObjTable, VolObj
  <2>2. VolObjTable(vol_obj')
    BY <1>10, <2>1, VolObjStatements DEF EndBackup
  <2>3. ObjectTable(bck_objects')
    BY <1>10, <2>1, ObjectStatements DEF EndBackup
  <2>4. QED
    BY <1>10, <2>2, <2>3 DEF EndBackup
<1>11. ASSUME NEW b \in BckId \cup {0}, NEW o \in ObjName, NEW l \in Label,
              NEW i \in Instance, ErrBackup(b, o, i, l)
       PROVE  TypeOK'
  <2>1. b \in BckId
    BY <1>11 DEF ErrBackup, CurrentVolObjs, IsOf, VolObjTable, VolObj
  <2>2. QED
    BY <1>11, <2>1, ErrorStatements DEF ErrBackup
<1>12. CASE Tick
  BY <1>12 DEF Tick
<1>13. CASE UNCHANGED vars
  BY <1>13 DEF vars
<1> HIDE DEF TypeOK
<1>14. ASSUME NEW l \in Label, VolumeCommand(l)
       PROVE  TypeOK'
  BY <1>14, <1>1, <1>2, LibraryAssumption DEF VolumeCommand
<1>15. ASSUME NEW b \in BckId, BackupCommand(b)
       PROVE  TypeOK'
  BY <1>15, <1>3, <1>4, <1>6 DEF BackupCommand, RemoveBackup
<1>16. ASSUME NEW b \in BckId \cup {0}, NEW o \in ObjName, NEW l \in Label,
              ObjectCommand(b, o, l)
       PROVE  TypeOK'
  BY <1>16, <1>7, <1>8, <1>9, <1>10, <1>11 DEF ObjectCommand
<1>17. ASSUME NEW n, RunExpiration(n)
       PROVE  TypeOK'
  BY <1>17, <1>6 DEF RunExpiration
<1>18. QED
  BY <1>5, <1>12, <1>13, <1>14, <1>15, <1>16, <1>17 DEF Next

(* load_schema's empty tables are well formed.                             *)
LEMMA InitTypeOK == Init => TypeOK
  BY FS_EmptySet DEF Init, TypeOK, VolumeTable, BackupTable, ObjectTable, VolObjTable, ErrorTable

(* Every reachable catalogue is well formed.                               *)
THEOREM TypeCorrect == Spec => []TypeOK
  BY InitTypeOK, TypeStep, PTL DEF Spec

-----------------------------------------------------------------------------
(* Who owns the tapes                                                      *)

(* Every segment of segs is on an allocated volume of its own backup.      *)
Owned(vols, segs) ==
    \A s \in segs : /\ s.label \in DOMAIN vols
                    /\ vols[s.label].bck_id = s.bck_id
                    /\ vols[s.label].state = "A"

FreeUnowned(vols) == \A l \in DOMAIN vols : vols[l].state = "F" => vols[l].bck_id = 0

(* The ownership invariant, on the current tables.  Neither half of it is  *)
(* inductive without the other: /remove looks at the state of a volume,    *)
(* /startbackup at its owner.                                              *)
Ownership == Owned(volumes, vol_obj) /\ FreeUnowned(volumes)

(* Segment rows carry real backup ids, and 0 is none.                      *)
LEMMA SegmentIds ==
    ASSUME NEW segs, VolObjTable(segs), NEW s \in segs
    PROVE  s.bck_id \in BckId /\ s.bck_id # 0 /\ s.label \in Label
  BY CatalogAssumption DEF VolObjTable, VolObj

(* What the statements on vol_obj do to the owner and label of a row.      *)
LEMMA InsertedSegments ==
    ASSUME NEW segs, NEW b, NEW o, NEW i, NEW l, NEW n
    PROVE  \A s \in InsertVolObj(segs, b, o, i, l, n) :
              s \in segs \/ (s.bck_id = b /\ s.label = l)
  BY DEF InsertVolObj, SegmentRow

(* Ending a segment keeps its owner and its label.                         *)
LEMMA EndedSegments ==
    ASSUME NEW segs, NEW b, NEW o, NEW i, NEW l, NEW e, NEW sz
    PROVE  \A s \in EndVolObj(segs, b, o, i, l, e, sz) :
              \E t \in segs : s.bck_id = t.bck_id /\ s.label = t.label
  BY DEF EndVolObj, SegmentRow, IsOf

(* A deletion leaves the segments of other backups as they were.           *)
LEMMA DeletedSegments ==
    ASSUME NEW segs, NEW B
    PROVE  \A s \in DeleteRows(segs, B) : s \in segs /\ s.bck_id \notin B
  BY DEF DeleteRows

(* Claiming a usable volume takes it from no other backup's data.          *)
LEMMA ClaimKeepsOwners ==
    ASSUME NEW vols, VolumeTable(vols), NEW segs, VolObjTable(segs),
           NEW l, NEW b \in BckId \cup {0}, Usable(vols, l, b),
           Owned(vols, segs), FreeUnowned(vols)
    PROVE  /\ Owned(SetVolumeUsed(vols, l, b), segs)
           /\ FreeUnowned(SetVolumeUsed(vols, l, b))
           /\ l \in DOMAIN SetVolumeUsed(vols, l, b)
           /\ SetVolumeUsed(vols, l, b)[l].bck_id = b
           /\ SetVolumeUsed(vols, l, b)[l].state = "A"
<1> DEFINE new == SetVolumeUsed(vols, l, b)
<1>1. l \in DOMAIN vols /\ vols[l].bck_id \in {0, b}
  BY UsableVolume
<1>2. /\ DOMAIN new = DOMAIN vols
      /\ new[l] = [bck_id |-> b, state |-> "A", usage |-> vols[l].usage]
      /\ \A k \in DOMAIN vols \ {l} : new[k] = vols[k]
  BY <1>1 DEF SetVolumeUsed, VolumeTable
<1>3. \A s \in segs : s.label = l => s.bck_id = b
  BY <1>1, SegmentIds DEF Owned
<1> HIDE DEF new
<1>4. Owned(new, segs) /\ FreeUnowned(new)
  BY <1>1, <1>2, <1>3 DEF Owned, FreeUnowned
<1>5. l \in DOMAIN new /\ new[l].bck_id = b /\ new[l].state = "A"
  BY <1>1, <1>2
<1>6. QED
  BY <1>4, <1>5 DEF new

(* A segment keeps its owned volume when it ends; a new one is owned when  *)
(* it is on a volume its backup has claimed.                               *)
LEMMA SegmentsStayOwned ==
    ASSUME NEW vols, NEW segs, Owned(vols, segs)
    PROVE  /\ \A b, o, i, l, e, sz : Owned(vols, EndVolObj(segs, b, o, i, l, e, sz))
           /\ \A b, o, i, l, n :
                 l \in DOMAIN vols /\ vols[l].bck_id = b /\ vols[l].state = "A"
                 => Owned(vols, InsertVolObj(segs, b, o, i, l, n))
<1>1. ASSUME NEW b, NEW o, NEW i, NEW l, NEW e, NEW sz
      PROVE  Owned(vols, EndVolObj(segs, b, o, i, l, e, sz))
  BY EndedSegments DEF Owned
<1>2. ASSUME NEW b, NEW o, NEW i, NEW l, NEW n,
             l \in DOMAIN vols /\ vols[l].bck_id = b /\ vols[l].state = "A"
      PROVE  Owned(vols, InsertVolObj(segs, b, o, i, l, n))
  BY <1>2, InsertedSegments DEF Owned
<1>3. QED
  BY <1>1, <1>2

(* The volumes of a deleted backup go back with all its segments.          *)
LEMMA DeleteOwnership ==
    ASSUME TypeOK, Ownership, NEW B, DeleteBackupIds(B)
    PROVE  Ownership'
<1>1. /\ DOMAIN volumes' = DOMAIN volumes
      /\ \A k \in DOMAIN volumes :
            /\ volumes[k].bck_id \in B => volumes'[k].bck_id = 0
            /\ volumes[k].bck_id \notin B => volumes'[k] = volumes[k]
  BY FreeVolumesTable DEF DeleteBackupIds, TypeOK
<1>2. \A s \in vol_obj' : s \in vol_obj /\ s.bck_id \notin B
  BY DeletedSegments DEF DeleteBackupIds
<1>3. Owned(volumes', vol_obj')
  BY <1>1, <1>2 DEF Ownership, Owned
<1>4. FreeUnowned(volumes')
  BY <1>1 DEF Ownership, FreeUnowned
<1>5. QED
  BY <1>3, <1>4 DEF Ownership

(* Every command keeps the ownership invariant.                            *)
LEMMA OwnershipStep == TypeOK /\ Ownership /\ [Next]_vars => Ownership'
<1> SUFFICES ASSUME TypeOK, Ownership, [Next]_vars
             PROVE  Ownership'
  OBVIOUS
<1>1. ASSUME NEW l \in Label, VolumeCommand(l)
      PROVE  Ownership'
  <2>1. ASSUME NEW st \in {"F", "A"}, NEW n \in Nat, AddVolume(l, st, n)
        PROVE  Ownership'
    <3>1. /\ DOMAIN volumes' = DOMAIN volumes \cup {l}
          /\ volumes'[l].bck_id = 0
          /\ \A k \in DOMAIN volumes : volumes'[k] = volumes[k]
      BY <2>1 DEF AddVolume, InsertVolume
    <3>2. QED
      BY <2>1, <3>1 DEF AddVolume, Ownership, Owned, FreeUnowned
  <2>2. ASSUME NEW st \in {"F", "A"}, NEW n \in Nat, ModifyState(l, st) \/ ModifyUsage(l, n)
        PROVE  Ownership'
    \* The volume it changes belongs to no backup, so no segment is on it.
    <3>1. volumes[l].bck_id = 0 /\ l \in DOMAIN volumes /\ vol_obj' = vol_obj
      BY <2>2 DEF ModifyState, ModifyUsage
    <3>2. \A s \in vol_obj : s.label # l
      BY <3>1, SegmentIds DEF TypeOK, Ownership, Owned
    <3>3. /\ DOMAIN volumes' = DOMAIN volumes
          /\ volumes'[l].bck_id = 0
          /\ \A k \in DOMAIN volumes \ {l} : volumes'[k] = volumes[k]
      BY <2>2, <3>1 DEF ModifyState, ModifyUsage, TypeOK, VolumeTable, Volume
    <3>4. QED
      BY <3>1, <3>2, <3>3 DEF Ownership, Owned, FreeUnowned
  <2>3. CASE RemoveVolume(l)
    \* 'F' for backup 0 is the answer for an unowned volume only.
    <3>1. volumes[l].bck_id = 0 /\ vol_obj' = vol_obj
      BY <2>3 DEF RemoveVolume, CanUse
    <3>2. \A s \in vol_obj : s.label # l
      BY <3>1, SegmentIds DEF TypeOK, Ownership, Owned
    <3>3. /\ DOMAIN volumes' = DOMAIN volumes \ {l}
          /\ \A k \in DOMAIN volumes \ {l} : volumes'[k] = volumes[k]
      BY <2>3 DEF RemoveVolume, DeleteVolume
    <3>4. QED
      BY <3>1, <3>2, <3>3 DEF Ownership, Owned, FreeUnowned
  <2>4. QED
    BY <1>1, <2>1, <2>2, <2>3, LibraryAssumption DEF VolumeCommand
<1>2. ASSUME NEW b \in BckId, BackupCommand(b)
      PROVE  Ownership'
  <2>1. ASSUME NEW x, NEW e, NewBackup(b, x) \/ ModifyBackup(b, x, e)
        PROVE  Ownership'
    BY <2>1 DEF NewBackup, ModifyBackup, Ownership
  <2>2. QED
    BY <1>2, <2>1, DeleteOwnership DEF BackupCommand, RemoveBackup
<1>3. ASSUME NEW b, NEW e, FinishBackup(b, e)
      PROVE  Ownership'
  <2>1. /\ DOMAIN volumes' = DOMAIN volumes
        /\ \A k \in DOMAIN volumes : /\ volumes'[k].bck_id = volumes[k].bck_id
                                     /\ volumes'[k].state = volumes[k].state
    BY <1>3, IncVolumeUsageTable DEF FinishBackup, TypeOK
  <2>2. vol_obj' = vol_obj
    BY <1>3 DEF FinishBackup
  <2>3. QED
    BY <2>1, <2>2 DEF Ownership, Owned, FreeUnowned
<1>4. ASSUME NEW b \in BckId \cup {0}, NEW o, NEW l, ObjectCommand(b, o, l)
      PROVE  Ownership'
  <2>1. ASSUME NEW given, StartBackup(b, o, l, given)
        PROVE  Ownership'
    <3>1. Usable(volumes, l, b) /\ volumes' = SetVolumeUsed(volumes, l, b)
      BY <2>1 DEF StartBackup
    <3>2. PICK i, n : vol_obj' = InsertVolObj(vol_obj, b, o, i, l, n)
      BY <2>1 DEF StartBackup
    <3>3. QED
      BY <3>1, <3>2, ClaimKeepsOwners, SegmentsStayOwned DEF Ownership, TypeOK
  <2>2. ASSUME NEW i, ChangeVolumeNoSegment(b, o, i, l)
        PROVE  Ownership'
    BY <2>2, ClaimKeepsOwners DEF ChangeVolumeNoSegment, Ownership, TypeOK
  <2>3. ASSUME NEW i, NEW e, NEW sz, ChangeVolume(b, o, i, l, e, sz)
        PROVE  Ownership'
    <3>1. Usable(volumes, l, b) /\ volumes' = SetVolumeUsed(volumes, l, b)
      BY <2>3 DEF ChangeVolume
    <3>2. PICK s : vol_obj' = InsertVolObj(EndVolObj(vol_obj, b, o, i, s.label, e, sz), b, o, i, l, 0)
      BY <2>3 DEF ChangeVolume
    <3>3. /\ Owned(volumes', vol_obj) /\ FreeUnowned(volumes')
          /\ l \in DOMAIN volumes' /\ volumes'[l].bck_id = b /\ volumes'[l].state = "A"
      BY <3>1, ClaimKeepsOwners DEF Ownership, TypeOK
    <3>4. Owned(volumes', EndVolObj(vol_obj, b, o, i, s.label, e, sz))
      BY <3>3, SegmentsStayOwned
    <3>5. QED
      BY <3>2, <3>3, <3>4, SegmentsStayOwned DEF Ownership
  <2>4. ASSUME NEW i, NEW e, NEW sz, EndBackup(b, o, i, l, e, sz)
        PROVE  Ownership'
    BY <2>4, SegmentsStayOwned DEF EndBackup, Ownership
  <2>5. ASSUME NEW i, ErrBackup(b, o, i, l)
        PROVE  Ownership'
    BY <2>5 DEF ErrBackup, Ownership
  <2>6. QED
    BY <1>4, <2>1, <2>2, <2>3, <2>4, <2>5 DEF ObjectCommand
<1>5. ASSUME NEW n, RunExpiration(n)
      PROVE  Ownership'
  BY <1>5, DeleteOwnership DEF RunExpiration
<1>6. CASE Tick \/ UNCHANGED vars
  BY <1>6 DEF Tick, vars, Ownership
<1>7. QED
  BY <1>1, <1>2, <1>3, <1>4, <1>5, <1>6 DEF Next

(* Empty tables break no ownership.                                        *)
LEMMA InitOwnership == Init => Ownership
  BY DEF Init, Ownership, Owned, FreeUnowned

(* No tape that holds data of one backup is ever another's, free, or out   *)
(* of the library.                                                         *)
THEOREM TapeOwnership == Spec => [](SegmentsOnOwnedVolumes /\ FreeVolumesAreUnowned)
<1>1. Ownership => SegmentsOnOwnedVolumes /\ FreeVolumesAreUnowned
  BY DEF Ownership, Owned, FreeUnowned, SegmentsOnOwnedVolumes, FreeVolumesAreUnowned
<1>2. QED
  BY InitOwnership, <1>1, TypeCorrect, OwnershipStep, PTL DEF Spec

(* In particular no free tape has an owner: no command leaves on a tape in *)
(* the pool the backup that /report and the next claim would read there.   *)
THEOREM FreeTapesUnowned == Spec => []FreeVolumesAreUnowned
  BY TapeOwnership, PTL

-----------------------------------------------------------------------------
(* Library implements TapePool: every command is a step of the tape pool   *)
(* or leaves owners and contents of the tapes as they were.                *)

PoolUnchanged == TapeOwner' = TapeOwner /\ TapeContents' = TapeContents

(* The backups with data on each tape, according to segs.                  *)
Contents(segs) == [l \in Label |-> {s.bck_id : s \in {t \in segs : t.label = l}}]

\* ... after data of backup b has been recorded on tape l.
Recorded(contents, l, b) == [contents EXCEPT ![l] = @ \cup {b}]

(* The abstract contents are those of the segment table.                   *)
LEMMA ContentsNow == TapeContents = Contents(vol_obj) /\ TapeContents' = Contents(vol_obj')
  BY DEF TapeContents, Contents

(* Contents depend on the volume and the backup of each segment only.      *)
LEMMA SameContents ==
    ASSUME NEW segs, NEW new,
           \A s \in segs : \E t \in new : t.bck_id = s.bck_id /\ t.label = s.label,
           \A t \in new : \E s \in segs : t.bck_id = s.bck_id /\ t.label = s.label
    PROVE  Contents(new) = Contents(segs)
<1>1. ASSUME NEW l \in Label
      PROVE  {s.bck_id : s \in {t \in new : t.label = l}}
             = {s.bck_id : s \in {t \in segs : t.label = l}}
  OBVIOUS
<1>2. QED
  BY <1>1 DEF Contents

(* Owners depend on the bck_id of each volume only.                        *)
LEMMA SameOwners ==
    ASSUME DOMAIN volumes' = DOMAIN volumes,
           \A k \in DOMAIN volumes : volumes'[k].bck_id = volumes[k].bck_id
    PROVE  TapeOwner' = TapeOwner
  BY DEF TapeOwner

(* A claim by a backup is the pool's Take, whether or not the step also    *)
(* records a segment of that backup on the tape.                           *)
LEMMA ClaimTakes ==
    ASSUME TypeOK, Ownership, NEW l \in Label, NEW b \in BckId,
           Usable(volumes, l, b), volumes' = SetVolumeUsed(volumes, l, b),
           \/ TapeContents' = TapeContents
           \/ TapeContents' = Recorded(TapeContents, l, b)
    PROVE  Pool!Take(l, b)
<1>1. l \in DOMAIN volumes /\ volumes[l].bck_id \in {0, b}
  BY UsableVolume
<1>2. /\ DOMAIN volumes' = DOMAIN volumes
      /\ volumes'[l].bck_id = b
      /\ \A k \in DOMAIN volumes \ {l} : volumes'[k] = volumes[k]
  BY <1>1 DEF SetVolumeUsed, TypeOK, VolumeTable
<1>3. TapeOwner' = [TapeOwner EXCEPT ![l] = b]
  BY <1>1, <1>2 DEF TapeOwner
<1>4. l \in DOMAIN TapeOwner /\ TapeOwner[l] \in {0, b}
  BY <1>1 DEF TapeOwner
<1>5. QED
  BY <1>3, <1>4 DEF Pool!Take, Recorded

(* Ending a segment leaves it on its tape.                                 *)
LEMMA EndedContents ==
    ASSUME NEW segs, NEW b, NEW o, NEW i, NEW l, NEW e, NEW sz
    PROVE  Contents(EndVolObj(segs, b, o, i, l, e, sz)) = Contents(segs)
<1> DEFINE ended(s) == IF IsOf(s, b, o, i) /\ s.label = l /\ s.end = 0
                       THEN SegmentRow(b, o, i, l, s.fileno, e, sz) ELSE s
<1>1. EndVolObj(segs, b, o, i, l, e, sz) = {ended(s) : s \in segs}
  BY DEF EndVolObj
<1>2. \A s \in segs : ended(s).bck_id = s.bck_id /\ ended(s).label = s.label
  BY DEF SegmentRow, IsOf
<1> HIDE DEF ended
<1>3. QED
  BY <1>1, <1>2, SameContents

(* The insert of a segment adds its backup to the contents of its tape, or *)
(* is refused because a segment of the backup is there.                    *)
LEMMA InsertedContents ==
    ASSUME NEW segs, NEW b, NEW o, NEW i, NEW l \in Label, NEW n
    PROVE  Contents(InsertVolObj(segs, b, o, i, l, n)) = Recorded(Contents(segs), l, b)
<1> DEFINE new == SegmentRow(b, o, i, l, n, 0, 0)
<1>1. CASE \E s \in segs : IsOf(s, b, o, i) /\ s.label = l
  <2>1. InsertVolObj(segs, b, o, i, l, n) = segs
    BY <1>1 DEF InsertVolObj
  <2>2. b \in Contents(segs)[l]
    BY <1>1 DEF IsOf, Contents
  <2>3. QED
    BY <2>1, <2>2 DEF Contents, Recorded
<1>2. CASE ~\E s \in segs : IsOf(s, b, o, i) /\ s.label = l
  <2>1. InsertVolObj(segs, b, o, i, l, n) = segs \cup {new}
    BY <1>2 DEF InsertVolObj
  <2>2. new.bck_id = b /\ new.label = l
    BY DEF SegmentRow
  <2> HIDE DEF new
  <2>3. ASSUME NEW k \in Label
        PROVE  {s.bck_id : s \in {t \in segs \cup {new} : t.label = k}}
               = IF k = l THEN Contents(segs)[k] \cup {b} ELSE Contents(segs)[k]
    BY <2>2 DEF Contents
  <2>4. QED
    BY <2>1, <2>3 DEF Contents, Recorded
<1>3. QED
  BY <1>1, <1>2

(* A backup that leaves the catalogue returns all its tapes.               *)
LEMMA DeleteReturns ==
    ASSUME TypeOK, NEW B \in SUBSET BckId, DeleteBackupIds(B)
    PROVE  Pool!Return(B)
<1>1. /\ DOMAIN volumes' = DOMAIN volumes
      /\ \A k \in DOMAIN volumes :
            /\ volumes[k].bck_id \in B => volumes'[k].bck_id = 0
            /\ volumes[k].bck_id \notin B => volumes'[k] = volumes[k]
  BY FreeVolumesTable DEF DeleteBackupIds, TypeOK
<1>2. TapeOwner' = [l \in DOMAIN TapeOwner |-> IF TapeOwner[l] \in B THEN 0 ELSE TapeOwner[l]]
  BY <1>1 DEF TapeOwner
<1>3. vol_obj' = {s \in vol_obj : s.bck_id \notin B}
  BY DEF DeleteBackupIds, DeleteRows
<1>4. ASSUME NEW l \in Label
      PROVE  {s.bck_id : s \in {t \in vol_obj' : t.label = l}} = TapeContents[l] \ B
  BY <1>3 DEF TapeContents
<1>5. TapeContents' = [l \in Label |-> TapeContents[l] \ B]
  BY <1>4 DEF TapeContents
<1>6. QED
  BY <1>2, <1>5 DEF Pool!Return

-----------------------------------------------------------------------------
(* Every command is a step of the pool, or none.                           *)
LEMMA PoolStep == TypeOK /\ Ownership /\ [Next]_vars => [Pool!Next]_<<TapeOwner, TapeContents>>
<1> SUFFICES ASSUME TypeOK, Ownership, [Next]_vars
             PROVE  Pool!Next \/ PoolUnchanged
  BY DEF PoolUnchanged
<1>1. ASSUME NEW l \in Label, VolumeCommand(l)
      PROVE  Pool!Next \/ PoolUnchanged
  <2>1. ASSUME NEW st, NEW n, AddVolume(l, st, n)
        PROVE  Pool!Add(l)
    BY <2>1 DEF AddVolume, InsertVolume, TapeOwner, TapeContents, Pool!Add
  <2>2. ASSUME NEW st, NEW n, ModifyState(l, st) \/ ModifyUsage(l, n)
        PROVE  PoolUnchanged
    <3>1. /\ DOMAIN volumes' = DOMAIN volumes
          /\ \A k \in DOMAIN volumes : volumes'[k].bck_id = volumes[k].bck_id
      BY <2>2 DEF ModifyState, ModifyUsage, TypeOK, VolumeTable, Volume
    <3>2. vol_obj' = vol_obj
      BY <2>2 DEF ModifyState, ModifyUsage
    <3>3. QED
      BY <3>1, <3>2, SameOwners, ContentsNow DEF PoolUnchanged
  <2>3. CASE RemoveVolume(l)
    \* The volume is unowned, and an unowned volume holds no segment.
    <3>1. l \in DOMAIN volumes /\ volumes[l].bck_id = 0 /\ vol_obj' = vol_obj
      BY <2>3 DEF RemoveVolume, CanUse
    <3>2. \A s \in vol_obj : s.label # l
      BY <3>1, SegmentIds DEF TypeOK, Ownership, Owned
    <3>3. TapeContents[l] = {}
      BY <3>2 DEF TapeContents
    <3>4. TapeOwner' = [k \in DOMAIN TapeOwner \ {l} |-> TapeOwner[k]]
      BY <2>3 DEF RemoveVolume, DeleteVolume, TapeOwner
    <3>5. TapeContents' = TapeContents
      BY <3>1 DEF TapeContents
    <3>6. l \in DOMAIN TapeOwner /\ TapeOwner[l] = 0
      BY <3>1 DEF TapeOwner
    <3>7. Pool!Retire(l)
      BY <3>3, <3>4, <3>5, <3>6 DEF Pool!Retire
    <3>8. QED
      BY <3>7 DEF Pool!Next
  <2>4. QED
    BY <1>1, <2>1, <2>2, <2>3 DEF VolumeCommand, Pool!Next
<1>2. ASSUME NEW B \in SUBSET BckId, DeleteBackupIds(B)
      PROVE  Pool!Next
  BY <1>2, DeleteReturns DEF Pool!Next
<1>3. ASSUME NEW b \in BckId, BackupCommand(b)
      PROVE  Pool!Next \/ PoolUnchanged
  <2>1. ASSUME NEW x, NEW e, NewBackup(b, x) \/ ModifyBackup(b, x, e)
        PROVE  PoolUnchanged
    BY <2>1 DEF NewBackup, ModifyBackup, PoolUnchanged, TapeOwner, TapeContents
  <2>2. QED
    BY <1>2, <1>3, <2>1 DEF BackupCommand, RemoveBackup
<1>4. ASSUME NEW b, NEW e, FinishBackup(b, e)
      PROVE  PoolUnchanged
  <2>1. /\ DOMAIN volumes' = DOMAIN volumes
        /\ \A k \in DOMAIN volumes : volumes'[k].bck_id = volumes[k].bck_id
    BY <1>4, IncVolumeUsageTable DEF FinishBackup, TypeOK
  <2>2. vol_obj' = vol_obj
    BY <1>4 DEF FinishBackup
  <2>3. QED
    BY <2>1, <2>2, SameOwners, ContentsNow DEF PoolUnchanged
<1>5. ASSUME NEW b \in BckId \cup {0}, NEW o, NEW l \in Label, ObjectCommand(b, o, l)
      PROVE  Pool!Next \/ PoolUnchanged
  <2>1. ASSUME NEW given, StartBackup(b, o, l, given)
        PROVE  Pool!Next
    <3>1. b \in BckId /\ Usable(volumes, l, b) /\ volumes' = SetVolumeUsed(volumes, l, b)
      BY <2>1 DEF StartBackup, TypeOK, BackupTable
    <3>2. PICK i, n : vol_obj' = InsertVolObj(vol_obj, b, o, i, l, n)
      BY <2>1 DEF StartBackup
    <3>3. TapeContents' = Recorded(TapeContents, l, b)
      BY <3>2, InsertedContents, ContentsNow
    <3>4. QED
      BY <3>1, <3>3, ClaimTakes DEF Pool!Next
  <2>2. ASSUME NEW i, ChangeVolumeNoSegment(b, o, i, l)
        PROVE  Pool!Next \/ PoolUnchanged
    <3>1. /\ Usable(volumes, l, b)
          /\ volumes' = SetVolumeUsed(volumes, l, b)
          /\ vol_obj' = vol_obj
      BY <2>2 DEF ChangeVolumeNoSegment
    <3>2. TapeContents' = TapeContents
      BY <3>1 DEF TapeContents
    <3>3. CASE b = 0
      <4>1. /\ DOMAIN volumes' = DOMAIN volumes
            /\ \A k \in DOMAIN volumes : volumes'[k].bck_id = volumes[k].bck_id
        BY <3>1, <3>3, UsableVolume DEF SetVolumeUsed, TypeOK, VolumeTable
      <4>2. QED
        BY <3>2, <4>1, SameOwners DEF PoolUnchanged
    <3>4. CASE b \in BckId
      BY <3>1, <3>2, <3>4, ClaimTakes DEF Pool!Next
    <3>5. QED
      BY <3>3, <3>4
  <2>3. ASSUME NEW i, NEW e, NEW sz, ChangeVolume(b, o, i, l, e, sz)
        PROVE  Pool!Next
    <3>1. /\ Usable(volumes, l, b)
          /\ volumes' = SetVolumeUsed(volumes, l, b)
      BY <2>3 DEF ChangeVolume
    <3>2. PICK s \in vol_obj :
              /\ IsOf(s, b, o, i)
              /\ vol_obj' = InsertVolObj(EndVolObj(vol_obj, b, o, i, s.label, e, sz), b, o, i, l, 0)
      BY <2>3 DEF ChangeVolume, CurrentVolObjs
    <3>3. b \in BckId
      BY <3>2, SegmentIds DEF TypeOK, IsOf
    <3>4. TapeContents' = Recorded(TapeContents, l, b)
      BY <3>2, EndedContents, InsertedContents, ContentsNow
    <3>5. QED
      BY <3>1, <3>3, <3>4, ClaimTakes DEF Pool!Next
  <2>4. ASSUME NEW i, NEW e, NEW sz, EndBackup(b, o, i, l, e, sz)
        PROVE  PoolUnchanged
    <3>1. volumes' = volumes /\ vol_obj' = EndVolObj(vol_obj, b, o, i, l, e, sz)
      BY <2>4 DEF EndBackup
    <3>2. TapeContents' = TapeContents
      BY <3>1, EndedContents, ContentsNow
    <3>3. QED
      BY <3>1, <3>2 DEF PoolUnchanged, TapeOwner
  <2>5. ASSUME NEW i, ErrBackup(b, o, i, l)
        PROVE  PoolUnchanged
    BY <2>5 DEF ErrBackup, PoolUnchanged, TapeOwner, TapeContents
  <2>6. QED
    BY <1>5, <2>1, <2>2, <2>3, <2>4, <2>5 DEF ObjectCommand
<1>6. ASSUME NEW n, RunExpiration(n)
      PROVE  Pool!Next
  <2>1. PICK B \in SUBSET DOMAIN backups : DeleteBackupIds(B)
    BY <1>6 DEF RunExpiration
  <2>2. B \in SUBSET BckId
    BY DEF TypeOK, BackupTable
  <2>3. QED
    BY <1>2, <2>1, <2>2
<1>7. CASE Tick \/ UNCHANGED vars
  BY <1>7 DEF Tick, vars, PoolUnchanged, TapeOwner, TapeContents
<1>8. QED
  BY <1>1, <1>3, <1>4, <1>5, <1>6, <1>7 DEF Next

(* The catalogue implements the tape pool.                                 *)
THEOREM PoolRefinement == Spec => ImplementsTapePool
<1>1. Init => Pool!Init
  <2> SUFFICES ASSUME Init
               PROVE  Pool!Init
    OBVIOUS
  <2>1. TapeOwner = [l \in {} |-> 0]
    BY DEF Init, TapeOwner
  <2>2. TapeOwner \in [{} -> {0}] /\ {} \in SUBSET Label
    BY <2>1
  <2>3. TapeContents = [l \in Label |-> {}]
    BY DEF Init, TapeContents
  <2>4. QED
    BY <2>2, <2>3 DEF Pool!Init
<1>2. Init => TypeOK /\ Ownership
  BY InitTypeOK, InitOwnership
<1>3. TypeOK /\ Ownership /\ [Next]_vars => (TypeOK /\ Ownership)'
  BY TypeStep, OwnershipStep
<1>4. TypeOK /\ Ownership /\ [Next]_vars => [Pool!Next]_Pool!vars
  BY PoolStep DEF Pool!vars
<1>5. QED
  BY <1>1, <1>2, <1>3, <1>4, PTL DEF Spec, ImplementsTapePool, Pool!Spec

-----------------------------------------------------------------------------
(* What the statements do to the (backup, object, instance) of the rows    *)

HasRow(rows, b, o, i) == \E r \in rows : IsOf(r, b, o, i)

(* Every row of rows finds a partner for its backup, object and instance.  *)
Matched(rows, partners) == \A b, o, i : HasRow(rows, b, o, i) => HasRow(partners, b, o, i)

(* new has the keys of old, and in the second case one more.               *)
SameKeys(old, new) == \A b, o, i : HasRow(new, b, o, i) <=> HasRow(old, b, o, i)

AddsKey(old, new, b, o, i) ==
    \A bb, oo, ii :
        HasRow(new, bb, oo, ii) <=> HasRow(old, bb, oo, ii) \/ (bb = b /\ oo = o /\ ii = i)

(* An insert adds its own key, or finds a row that has it already.         *)
LEMMA InsertedKeys ==
    ASSUME NEW b, NEW o, NEW i
    PROVE  /\ \A objs : AddsKey(objs, InsertBckObject(objs, b, o, i), b, o, i)
           /\ \A segs, l, n : AddsKey(segs, InsertVolObj(segs, b, o, i, l, n), b, o, i)
<1>1. ASSUME NEW objs, NEW bb, NEW oo, NEW ii
      PROVE  HasRow(InsertBckObject(objs, b, o, i), bb, oo, ii) <=>
                 HasRow(objs, bb, oo, ii) \/ (bb = b /\ oo = o /\ ii = i)
  <2> DEFINE row == ObjectRow(b, o, i, 0, 0)
  <2>1. row.bck_id = b /\ row.objname = o /\ row.obj_instance = i
    BY DEF ObjectRow
  <2>2. InsertBckObject(objs, b, o, i) = IF \E r \in objs : IsOf(r, b, o, i) THEN objs ELSE objs \cup {row}
    BY DEF InsertBckObject
  <2> HIDE DEF row
  <2>3. QED
    BY <2>1, <2>2 DEF HasRow, IsOf
<1>2. ASSUME NEW segs, NEW l, NEW n, NEW bb, NEW oo, NEW ii
      PROVE  HasRow(InsertVolObj(segs, b, o, i, l, n), bb, oo, ii) <=>
                 HasRow(segs, bb, oo, ii) \/ (bb = b /\ oo = o /\ ii = i)
  <2> DEFINE row == SegmentRow(b, o, i, l, n, 0, 0)
  <2>1. row.bck_id = b /\ row.objname = o /\ row.obj_instance = i
    BY DEF SegmentRow
  <2>2. InsertVolObj(segs, b, o, i, l, n) =
            IF \E s \in segs : IsOf(s, b, o, i) /\ s.label = l THEN segs ELSE segs \cup {row}
    BY DEF InsertVolObj
  <2> HIDE DEF row
  <2>3. QED
    BY <2>1, <2>2 DEF HasRow, IsOf
<1>3. QED
  BY <1>1, <1>2 DEF AddsKey

(* Ending a row keeps its key.                                             *)
LEMMA EndedKeys ==
    ASSUME NEW b, NEW o, NEW i
    PROVE  /\ \A objs, e, total : SameKeys(objs, EndBckObject(objs, b, o, i, e, total))
           /\ \A segs, l, e, sz : SameKeys(segs, EndVolObj(segs, b, o, i, l, e, sz))
<1>1. ASSUME NEW objs, NEW e, NEW total, NEW bb, NEW oo, NEW ii
      PROVE  HasRow(EndBckObject(objs, b, o, i, e, total), bb, oo, ii) <=> HasRow(objs, bb, oo, ii)
  <2> DEFINE ended(r) == IF IsOf(r, b, o, i) /\ r.end = 0 THEN ObjectRow(b, o, i, e, total) ELSE r
  <2>1. \A r : IsOf(ended(r), bb, oo, ii) <=> IsOf(r, bb, oo, ii)
    BY DEF IsOf, ObjectRow
  <2>2. EndBckObject(objs, b, o, i, e, total) = {ended(r) : r \in objs}
    BY DEF EndBckObject
  <2> HIDE DEF ended
  <2>3. QED
    BY <2>1, <2>2 DEF HasRow
<1>2. ASSUME NEW segs, NEW l, NEW e, NEW sz, NEW bb, NEW oo, NEW ii
      PROVE  HasRow(EndVolObj(segs, b, o, i, l, e, sz), bb, oo, ii) <=> HasRow(segs, bb, oo, ii)
  <2> DEFINE ended(s) == IF IsOf(s, b, o, i) /\ s.label = l /\ s.end = 0
                         THEN SegmentRow(b, o, i, l, s.fileno, e, sz) ELSE s
  <2>1. \A s : IsOf(ended(s), bb, oo, ii) <=> IsOf(s, bb, oo, ii)
    BY DEF IsOf, SegmentRow
  <2>2. EndVolObj(segs, b, o, i, l, e, sz) = {ended(s) : s \in segs}
    BY DEF EndVolObj
  <2> HIDE DEF ended
  <2>3. QED
    BY <2>1, <2>2 DEF HasRow
<1>3. QED
  BY <1>1, <1>2 DEF SameKeys

(* Deleting the rows of the backups of B keeps the keys of the others.     *)
LEMMA DeletedKeys ==
    ASSUME NEW rows, NEW B, NEW b, NEW o, NEW i
    PROVE  HasRow(DeleteRows(rows, B), b, o, i) <=> HasRow(rows, b, o, i) /\ b \notin B
  BY DEF HasRow, DeleteRows, IsOf

-----------------------------------------------------------------------------
(* The references between the tables                                       *)

(* CatalogReferences in terms of keys, which is all the statements keep.   *)
ObjectsKept(objs, bcks) == \A b, o, i : HasRow(objs, b, o, i) => b \in DOMAIN bcks

ErrorsKept(errs, bcks) == \A k \in DOMAIN errs : errs[k].bck_id \in DOMAIN bcks \cup {0}

References ==
    /\ Matched(vol_obj, bck_objects)
    /\ Matched(bck_objects, vol_obj)
    /\ ObjectsKept(bck_objects, backups)
    /\ ErrorsKept(bck_errors, backups)

(* The two forms say the same.                                             *)
LEMMA ReferencesAreKeys ==
    /\ SegmentsHaveObjects <=> Matched(vol_obj, bck_objects)
    /\ ObjectsHaveSegments <=> Matched(bck_objects, vol_obj)
    /\ ObjectsHaveBackups <=> ObjectsKept(bck_objects, backups)
    /\ ErrorsHaveBackups <=> ErrorsKept(bck_errors, backups)
<1>1. SegmentsHaveObjects <=> Matched(vol_obj, bck_objects)
  BY DEF SegmentsHaveObjects, Matched, HasRow, IsOf
<1>2. ObjectsHaveSegments <=> Matched(bck_objects, vol_obj)
  BY DEF ObjectsHaveSegments, Matched, HasRow, IsOf
<1>3. ObjectsHaveBackups <=> ObjectsKept(bck_objects, backups)
  BY DEF ObjectsHaveBackups, ObjectsKept, HasRow, IsOf
<1>4. ErrorsHaveBackups <=> ErrorsKept(bck_errors, backups)
  BY DEF ErrorsHaveBackups, ErrorsKept
<1>5. QED
  BY <1>1, <1>2, <1>3, <1>4

(* The error that is inserted is that of the current backup.               *)
LEMMA InsertedErrors ==
    ASSUME NEW errs, ErrorTable(errs), NEW bcks, ErrorsKept(errs, bcks),
           NEW l \in Label, NEW b \in BckId, NEW o \in ObjName, NEW i \in Instance,
           b \in DOMAIN bcks
    PROVE  ErrorsKept(InsertBckError(errs, l, b, o, i), bcks)
<1> DEFINE row == [bck_id |-> b, label |-> l, objname |-> o, obj_instance |-> i]
<1>1. row \in BckError /\ row.bck_id = b
  BY DEF BckError
<1> HIDE DEF row
<1>2. InsertBckError(errs, l, b, o, i) = Append(errs, row)
  BY DEF InsertBckError, row
<1>3. errs \in Seq(BckError)
  BY DEF ErrorTable
<1>4. /\ DOMAIN Append(errs, row) = 1 .. Len(errs) + 1
      /\ DOMAIN errs = 1 .. Len(errs)
      /\ \A k \in 1 .. Len(errs) : Append(errs, row)[k] = errs[k]
      /\ Append(errs, row)[Len(errs) + 1] = row
      /\ Len(errs) \in Nat
  BY <1>1, <1>3
<1>5. QED
  BY <1>1, <1>2, <1>4 DEF ErrorsKept

(* The transaction that deletes backups deletes every row that refers to   *)
(* one of them, and detaches their errors.                                 *)
LEMMA DeleteReferences ==
    ASSUME ErrorTable(bck_errors), NEW B, DeleteBackupIds(B)
    PROVE  /\ Matched(vol_obj, bck_objects) => Matched(vol_obj', bck_objects')
           /\ Matched(bck_objects, vol_obj) => Matched(bck_objects', vol_obj')
           /\ ObjectsKept(bck_objects, backups) => ObjectsKept(bck_objects', backups')
           /\ ErrorsKept(bck_errors, backups) => ErrorsKept(bck_errors', backups')
<1>1. /\ bck_objects' = DeleteRows(bck_objects, B)
      /\ vol_obj' = DeleteRows(vol_obj, B)
      /\ DOMAIN backups' = DOMAIN backups \ B
      /\ bck_errors' = DetachErrors(bck_errors, B)
  BY DEF DeleteBackupIds, DeleteBackups
<1>2. \A b, o, i : /\ HasRow(bck_objects', b, o, i) <=> HasRow(bck_objects, b, o, i) /\ b \notin B
                   /\ HasRow(vol_obj', b, o, i) <=> HasRow(vol_obj, b, o, i) /\ b \notin B
  BY <1>1, DeletedKeys
<1>3. ErrorsKept(bck_errors, backups) => ErrorsKept(bck_errors', backups')
  <2>1. DOMAIN bck_errors' = DOMAIN bck_errors
    BY <1>1 DEF DetachErrors
  <2>2. \A k \in DOMAIN bck_errors :
           \/ bck_errors[k].bck_id \in B /\ bck_errors'[k].bck_id = 0
           \/ bck_errors[k].bck_id \notin B /\ bck_errors'[k] = bck_errors[k]
    <3>1. \A k \in DOMAIN bck_errors : bck_errors[k] \in BckError
      BY DEF ErrorTable
    <3>2. QED
      BY <1>1, <3>1 DEF DetachErrors, BckError
  <2>3. QED
    BY <1>1, <2>1, <2>2 DEF ErrorsKept
<1>4. QED
  BY <1>1, <1>2, <1>3 DEF Matched, ObjectsKept

-----------------------------------------------------------------------------
(* What each command does to the references                                *)

(* A segment is found only where an object and its backup are.             *)
LEMMA CurrentSegments ==
    ASSUME TypeOK, References, NEW b, NEW o, NEW i, CurrentVolObjs(vol_obj, b, o, i) # {}
    PROVE  b \in BckId /\ b \in DOMAIN backups /\ HasRow(vol_obj, b, o, i)
<1>1. PICK s \in vol_obj : IsOf(s, b, o, i)
  BY DEF CurrentVolObjs
<1>2. HasRow(vol_obj, b, o, i)
  BY <1>1 DEF HasRow
<1>3. HasRow(bck_objects, b, o, i)
  BY <1>2 DEF References, Matched
<1>4. b \in DOMAIN backups
  BY <1>3 DEF References, ObjectsKept
<1>5. QED
  BY <1>2, <1>4 DEF TypeOK, BackupTable

(* A step that keeps the keys of objects and segments and removes no backup *)
(* keeps the references.                                                   *)
LEMMA SameKeysKept ==
    ASSUME References, DOMAIN backups \subseteq DOMAIN backups', UNCHANGED bck_errors,
           SameKeys(bck_objects, bck_objects'), SameKeys(vol_obj, vol_obj')
    PROVE  References'
<1>1. Matched(vol_obj', bck_objects') /\ Matched(bck_objects', vol_obj')
  BY DEF References, Matched, SameKeys
<1>2. ObjectsKept(bck_objects', backups')
  BY DEF References, ObjectsKept, SameKeys
<1>3. ErrorsKept(bck_errors', backups')
  BY DEF References, ErrorsKept
<1>4. QED
  BY <1>1, <1>2, <1>3 DEF References

(* So does one that adds a key of a backup that is there to both.          *)
LEMMA NewKeyKept ==
    ASSUME References, NEW b \in DOMAIN backups, NEW o, NEW i, UNCHANGED <<backups, bck_errors>>,
           AddsKey(bck_objects, bck_objects', b, o, i), AddsKey(vol_obj, vol_obj', b, o, i)
    PROVE  References'
<1>1. Matched(vol_obj', bck_objects') /\ Matched(bck_objects', vol_obj')
  BY DEF References, Matched, AddsKey
<1>2. ObjectsKept(bck_objects', backups')
  BY DEF References, ObjectsKept, AddsKey
<1>3. ErrorsKept(bck_errors', backups')
  BY DEF References, ErrorsKept
<1>4. QED
  BY <1>1, <1>2, <1>3 DEF References

(* Every command keeps the references.                                     *)
LEMMA ReferencesStep == TypeOK /\ References /\ [Next]_vars => References'
<1> SUFFICES ASSUME TypeOK, References, [Next]_vars
             PROVE  References'
  OBVIOUS
<1>1. ASSUME DOMAIN backups \subseteq DOMAIN backups',
             UNCHANGED <<bck_objects, vol_obj, bck_errors>>
      PROVE  References'
  BY <1>1, SameKeysKept DEF SameKeys
<1>2. ASSUME NEW B, DeleteBackupIds(B)
      PROVE  References'
  BY <1>2, DeleteReferences DEF TypeOK, References
<1>3. ASSUME NEW l, VolumeCommand(l)
      PROVE  References'
  BY <1>1, <1>3 DEF VolumeCommand, AddVolume, ModifyState, ModifyUsage, RemoveVolume
<1>4. ASSUME NEW b, BackupCommand(b)
      PROVE  References'
  <2>1. ASSUME NEW x, NewBackup(b, x)
        PROVE  References'
    BY <1>1, <2>1 DEF NewBackup, InsertBackup
  <2>2. ASSUME NEW x, NEW e, ModifyBackup(b, x, e)
        PROVE  References'
    BY <1>1, <2>2 DEF ModifyBackup, UpdateBackup
  <2>3. QED
    BY <1>2, <1>4, <2>1, <2>2 DEF BackupCommand, RemoveBackup
<1>5. ASSUME NEW b, NEW e, FinishBackup(b, e)
      PROVE  References'
  BY <1>1, <1>5 DEF FinishBackup, UpdateBackup
<1>6. ASSUME NEW b, NEW o \in ObjName, NEW l \in Label, ObjectCommand(b, o, l)
      PROVE  References'
  <2>1. ASSUME NEW given, StartBackup(b, o, l, given)
        PROVE  References'
    <3>1. PICK i, n : /\ bck_objects' = InsertBckObject(bck_objects, b, o, i)
                      /\ vol_obj' = InsertVolObj(vol_obj, b, o, i, l, n)
      BY <2>1 DEF StartBackup
    <3>2. /\ b \in DOMAIN backups
          /\ UNCHANGED <<backups, bck_errors>>
      BY <2>1 DEF StartBackup
    <3>3. AddsKey(bck_objects, bck_objects', b, o, i) /\ AddsKey(vol_obj, vol_obj', b, o, i)
      BY <3>1, InsertedKeys
    <3>4. QED
      BY <3>2, <3>3, NewKeyKept
  <2>2. ASSUME NEW i, ChangeVolumeNoSegment(b, o, i, l)
        PROVE  References'
    BY <1>1, <2>2 DEF ChangeVolumeNoSegment
  <2>3. ASSUME NEW i, NEW e, NEW sz, ChangeVolume(b, o, i, l, e, sz)
        PROVE  References'
    \* The segment it starts has the key of the one it ends.
    <3>1. CurrentVolObjs(vol_obj, b, o, i) # {} /\ UNCHANGED <<backups, bck_objects, bck_errors>>
      BY <2>3 DEF ChangeVolume
    <3>2. PICK k : vol_obj' = InsertVolObj(EndVolObj(vol_obj, b, o, i, k, e, sz), b, o, i, l, 0)
      BY <2>3 DEF ChangeVolume
    <3>3. HasRow(vol_obj, b, o, i)
      BY <3>1, CurrentSegments
    <3>4. SameKeys(vol_obj, vol_obj') /\ SameKeys(bck_objects, bck_objects')
      BY <3>1, <3>2, <3>3, InsertedKeys, EndedKeys DEF SameKeys, AddsKey
    <3>5. QED
      BY <3>1, <3>4, SameKeysKept
  <2>4. ASSUME NEW i, NEW e, NEW sz, EndBackup(b, o, i, l, e, sz)
        PROVE  References'
    <3>1. PICK total : bck_objects' = EndBckObject(bck_objects, b, o, i, e, total)
      BY <2>4 DEF EndBackup
    <3>2. vol_obj' = EndVolObj(vol_obj, b, o, i, l, e, sz) /\ UNCHANGED <<backups, bck_errors>>
      BY <2>4 DEF EndBackup
    <3>3. SameKeys(bck_objects, bck_objects') /\ SameKeys(vol_obj, vol_obj')
      BY <3>1, <3>2, EndedKeys
    <3>4. QED
      BY <3>2, <3>3, SameKeysKept
  <2>5. ASSUME NEW i \in Instance, ErrBackup(b, o, i, l)
        PROVE  References'
    <3>1. b \in BckId /\ b \in DOMAIN backups
      BY <2>5, CurrentSegments DEF ErrBackup
    <3>2. bck_errors' = InsertBckError(bck_errors, l, b, o, i) /\ UNCHANGED <<backups, bck_objects, vol_obj>>
      BY <2>5 DEF ErrBackup
    <3>3. ErrorsKept(bck_errors', backups')
      BY <3>1, <3>2, InsertedErrors DEF TypeOK, References
    <3>4. QED
      BY <3>2, <3>3 DEF References
  <2>6. QED
    BY <1>6, <2>1, <2>2, <2>3, <2>4, <2>5 DEF ObjectCommand
<1>7. ASSUME NEW n, RunExpiration(n)
      PROVE  References'
  BY <1>2, <1>7 DEF RunExpiration
<1>8. CASE Tick \/ UNCHANGED vars
  BY <1>1, <1>8 DEF Tick, vars
<1>9. QED
  BY <1>3, <1>4, <1>5, <1>6, <1>7, <1>8 DEF Next

(* Empty tables have no references.                                        *)
LEMMA InitReferences == Init => References
  BY DEF Init, References, Matched, ObjectsKept, ErrorsKept, HasRow

(* After any mix of commands every segment has its object, every object a  *)
(* segment and a backup, every error of a backup its backup.               *)
THEOREM ReferencesHold == Spec => []CatalogReferences
<1>1. References => CatalogReferences
  BY ReferencesAreKeys DEF References, CatalogReferences
<1>2. QED
  BY InitReferences, <1>1, TypeCorrect, ReferencesStep, PTL DEF Spec

-----------------------------------------------------------------------------
(* What is recorded of a tape stays                                        *)

(* Segment s has a successor in segs: the same object on the same tape.    *)
OnRecord(s, segs) == \E t \in segs : /\ IsOf(t, s.bck_id, s.objname, s.obj_instance)
                                     /\ t.label = s.label /\ t.fileno = s.fileno

(* new has every segment of old but those of the backups of B: unchanged   *)
(* if it was ended.                                                        *)
HistoryKept(old, new, B) ==
    \A s \in old : s.bck_id \notin B => IF s.end # 0 THEN s \in new ELSE OnRecord(s, new)

(* The statements on vol_obj keep the history; so do two of them in a row. *)
LEMMA StatementsKeepHistory ==
    ASSUME NEW segs
    PROVE  /\ \A b, o, i, l, n : segs \subseteq InsertVolObj(segs, b, o, i, l, n)
           /\ \A b, o, i, l, e, sz, new :
                 EndVolObj(segs, b, o, i, l, e, sz) \subseteq new => HistoryKept(segs, new, {})
           /\ \A B : HistoryKept(segs, DeleteRows(segs, B), B)
           /\ \A new : segs \subseteq new => HistoryKept(segs, new, {})
<1>1. \A b, o, i, l, n : segs \subseteq InsertVolObj(segs, b, o, i, l, n)
  BY DEF InsertVolObj
<1>2. ASSUME NEW b, NEW o, NEW i, NEW l, NEW e, NEW sz, NEW new,
             EndVolObj(segs, b, o, i, l, e, sz) \subseteq new
      PROVE  HistoryKept(segs, new, {})
  <2> DEFINE ended(s) == IF IsOf(s, b, o, i) /\ s.label = l /\ s.end = 0
                         THEN SegmentRow(b, o, i, l, s.fileno, e, sz) ELSE s
  <2>1. \A s \in segs : ended(s) \in new
    BY <1>2 DEF EndVolObj
  <2>2. \A s : /\ s.end # 0 => ended(s) = s
               /\ IsOf(ended(s), s.bck_id, s.objname, s.obj_instance)
               /\ ended(s).label = s.label /\ ended(s).fileno = s.fileno
    BY DEF SegmentRow, IsOf
  <2> HIDE DEF ended
  <2>3. QED
    BY <2>1, <2>2 DEF HistoryKept, OnRecord
<1>3. ASSUME NEW B
      PROVE  HistoryKept(segs, DeleteRows(segs, B), B)
  BY DEF HistoryKept, OnRecord, DeleteRows, IsOf
<1>4. ASSUME NEW new, segs \subseteq new
      PROVE  HistoryKept(segs, new, {})
  BY <1>4 DEF HistoryKept, OnRecord, IsOf
<1>5. QED
  BY <1>1, <1>2, <1>3, <1>4

(* Segments go with their backup only, which has then expired or is        *)
(* removed by an operator.                                                 *)
Gone == DOMAIN backups \ DOMAIN backups'

(* No command loses more than the segments of backups it removes.          *)
LEMMA HistoryStep ==
    TypeOK /\ [Next]_vars => /\ HistoryKept(vol_obj, vol_obj', Gone)
                             /\ \A b \in Gone : Expired(b) \/ Confirms
<1> SUFFICES ASSUME TypeOK, [Next]_vars
             PROVE  /\ HistoryKept(vol_obj, vol_obj', Gone)
                    /\ \A b \in Gone : Expired(b) \/ Confirms
  OBVIOUS
<1>1. ASSUME HistoryKept(vol_obj, vol_obj', {}), DOMAIN backups \subseteq DOMAIN backups'
      PROVE  HistoryKept(vol_obj, vol_obj', Gone) /\ Gone = {}
  BY <1>1 DEF Gone, HistoryKept
<1>2. ASSUME UNCHANGED vol_obj, DOMAIN backups \subseteq DOMAIN backups'
      PROVE  HistoryKept(vol_obj, vol_obj', Gone) /\ Gone = {}
  BY <1>1, <1>2, StatementsKeepHistory
<1>3. ASSUME NEW B \in SUBSET DOMAIN backups, DeleteBackupIds(B)
      PROVE  HistoryKept(vol_obj, vol_obj', Gone) /\ Gone = B
  <2>1. Gone = B
    BY <1>3 DEF DeleteBackupIds, DeleteBackups, Gone
  <2>2. vol_obj' = DeleteRows(vol_obj, B)
    BY <1>3 DEF DeleteBackupIds
  <2>3. QED
    BY <2>1, <2>2, StatementsKeepHistory
<1>4. ASSUME NEW l, VolumeCommand(l)
      PROVE  HistoryKept(vol_obj, vol_obj', Gone) /\ Gone = {}
  BY <1>2, <1>4 DEF VolumeCommand, AddVolume, ModifyState, ModifyUsage, RemoveVolume
<1>5. ASSUME NEW b, BackupCommand(b)
      PROVE  HistoryKept(vol_obj, vol_obj', Gone) /\ \A c \in Gone : Expired(c) \/ Confirms
  <2>1. ASSUME NEW x, NEW e, NewBackup(b, x) \/ ModifyBackup(b, x, e)
        PROVE  HistoryKept(vol_obj, vol_obj', Gone) /\ Gone = {}
    BY <1>2, <2>1 DEF NewBackup, ModifyBackup, InsertBackup, UpdateBackup
  <2>2. CASE RemoveBackup(b)
    BY <1>3, <2>2 DEF RemoveBackup
  <2>3. QED
    BY <1>5, <2>1, <2>2 DEF BackupCommand
<1>6. ASSUME NEW b, NEW e, FinishBackup(b, e)
      PROVE  HistoryKept(vol_obj, vol_obj', Gone) /\ Gone = {}
  BY <1>2, <1>6 DEF FinishBackup, UpdateBackup
<1>7. ASSUME NEW b, NEW o, NEW l, ObjectCommand(b, o, l)
      PROVE  HistoryKept(vol_obj, vol_obj', Gone) /\ Gone = {}
  <2>1. ASSUME NEW given, StartBackup(b, o, l, given)
        PROVE  HistoryKept(vol_obj, vol_obj', Gone) /\ Gone = {}
    <3>1. backups' = backups /\ \E i, n : vol_obj' = InsertVolObj(vol_obj, b, o, i, l, n)
      BY <2>1 DEF StartBackup
    <3>2. vol_obj \subseteq vol_obj'
      BY <3>1, StatementsKeepHistory
    <3>3. QED
      BY <1>1, <3>1, <3>2, StatementsKeepHistory
  <2>2. ASSUME NEW i, ChangeVolumeNoSegment(b, o, i, l)
        PROVE  HistoryKept(vol_obj, vol_obj', Gone) /\ Gone = {}
    BY <1>2, <2>2 DEF ChangeVolumeNoSegment
  <2>3. ASSUME NEW i, NEW e, NEW sz, ChangeVolume(b, o, i, l, e, sz)
        PROVE  HistoryKept(vol_obj, vol_obj', Gone) /\ Gone = {}
    <3>1. PICK k : vol_obj' = InsertVolObj(EndVolObj(vol_obj, b, o, i, k, e, sz), b, o, i, l, 0)
      BY <2>3 DEF ChangeVolume
    <3>2. EndVolObj(vol_obj, b, o, i, k, e, sz) \subseteq vol_obj'
      BY <3>1, StatementsKeepHistory
    <3>3. HistoryKept(vol_obj, vol_obj', {}) /\ backups' = backups
      BY <2>3, <3>2, StatementsKeepHistory DEF ChangeVolume
    <3>4. QED
      BY <1>1, <3>3
  <2>4. ASSUME NEW i, NEW e, NEW sz, EndBackup(b, o, i, l, e, sz)
        PROVE  HistoryKept(vol_obj, vol_obj', Gone) /\ Gone = {}
    <3>1. vol_obj' = EndVolObj(vol_obj, b, o, i, l, e, sz) /\ backups' = backups
      BY <2>4 DEF EndBackup
    <3>2. EndVolObj(vol_obj, b, o, i, l, e, sz) \subseteq vol_obj'
      BY <3>1
    <3>3. QED
      BY <1>1, <3>1, <3>2, StatementsKeepHistory
  <2>5. ASSUME NEW i, ErrBackup(b, o, i, l)
        PROVE  HistoryKept(vol_obj, vol_obj', Gone) /\ Gone = {}
    BY <1>2, <2>5 DEF ErrBackup
  <2>6. QED
    BY <1>7, <2>1, <2>2, <2>3, <2>4, <2>5 DEF ObjectCommand
<1>8. ASSUME NEW n, RunExpiration(n)
      PROVE  HistoryKept(vol_obj, vol_obj', Gone) /\ \A b \in Gone : Expired(b)
  <2>1. PICK B \in SUBSET {b \in DOMAIN backups : Expired(b)} : DeleteBackupIds(B)
    BY <1>8 DEF RunExpiration
  <2>2. QED
    BY <1>3, <2>1
<1>9. CASE Tick \/ UNCHANGED vars
  BY <1>2, <1>9 DEF Tick, vars
<1>10. QED
  BY <1>4, <1>5, <1>6, <1>7, <1>8, <1>9 DEF Next

(* The three promises of a single step, without their box.                 *)
KeepsHistory ==
    \A s \in vol_obj :
        s.bck_id \in DOMAIN backups' =>
            IF s.end # 0 THEN s \in vol_obj'
            ELSE \E t \in vol_obj' : /\ IsOf(t, s.bck_id, s.objname, s.obj_instance)
                                    /\ t.label = s.label /\ t.fileno = s.fileno

KeepsData ==
    \A s \in vol_obj :
        backups[s.bck_id].expiredate >= now /\ ~Confirms =>
            /\ s.label \in DOMAIN volumes' /\ volumes'[s.label].bck_id = s.bck_id
            /\ \E t \in vol_obj' : /\ IsOf(t, s.bck_id, s.objname, s.obj_instance)
                                  /\ t.label = s.label

KeepsErrors ==
    \A k \in DOMAIN bck_errors :
        /\ k \in DOMAIN bck_errors'
        /\ bck_errors'[k].label = bck_errors[k].label
        /\ bck_errors'[k].objname = bck_errors[k].objname
        /\ bck_errors'[k].bck_id \in {bck_errors[k].bck_id, 0}

(* A history that loses expired backups only keeps data that is not        *)
(* expired, and the ownership invariant keeps the tape that it is on.      *)
LEMMA HistoryKeepsData ==
    ASSUME TypeOK, Matched(vol_obj, bck_objects), ObjectsKept(bck_objects, backups),
           Ownership', HistoryKept(vol_obj, vol_obj', Gone),
           \A b \in Gone : Expired(b) \/ Confirms
    PROVE  KeepsHistory /\ KeepsData
<1>1. \A s \in vol_obj : s.bck_id \in DOMAIN backups' => s.bck_id \notin Gone
  BY DEF Gone
<1>2. KeepsHistory
  BY <1>1 DEF HistoryKept, OnRecord, KeepsHistory
<1>3. ASSUME NEW s \in vol_obj, backups[s.bck_id].expiredate >= now, ~Confirms
      PROVE  /\ s.label \in DOMAIN volumes' /\ volumes'[s.label].bck_id = s.bck_id
             /\ \E t \in vol_obj' : /\ IsOf(t, s.bck_id, s.objname, s.obj_instance)
                                   /\ t.label = s.label
  <2>1. s.bck_id \in DOMAIN backups
    <3>1. HasRow(bck_objects, s.bck_id, s.objname, s.obj_instance)
      BY DEF Matched, HasRow, IsOf
    <3>2. QED
      BY <3>1 DEF ObjectsKept
  <2>2. ~Expired(s.bck_id)
    <3>1. backups[s.bck_id].expiredate \in Nat /\ now \in Nat
      BY <2>1, CatalogAssumption DEF TypeOK, BackupTable, Backup
    <3>2. QED
      BY <1>3, <3>1 DEF Expired
  <2>3. s.bck_id \notin Gone
    BY <1>3, <2>2
  <2>4. PICK t \in vol_obj' : /\ IsOf(t, s.bck_id, s.objname, s.obj_instance)
                              /\ t.label = s.label
    BY <2>3 DEF HistoryKept, OnRecord, IsOf
  <2>5. t.label \in DOMAIN volumes' /\ volumes'[t.label].bck_id = t.bck_id
    BY DEF Ownership, Owned
  <2>6. QED
    BY <2>4, <2>5 DEF IsOf
<1>4. QED
  BY <1>2, <1>3 DEF KeepsData

(* The two statements on bck_errors keep what was reported of a label.     *)
LEMMA StatementsKeepErrors ==
    ASSUME ErrorTable(bck_errors),
           \/ UNCHANGED bck_errors
           \/ \E B : bck_errors' = DetachErrors(bck_errors, B)
           \/ \E row \in BckError : bck_errors' = Append(bck_errors, row)
    PROVE  KeepsErrors
<1>1. \A k \in DOMAIN bck_errors : bck_errors[k] \in BckError
  BY DEF ErrorTable
<1>2. CASE UNCHANGED bck_errors
  BY <1>2 DEF KeepsErrors
<1>3. ASSUME NEW B, bck_errors' = DetachErrors(bck_errors, B)
      PROVE  KeepsErrors
  BY <1>1, <1>3 DEF DetachErrors, KeepsErrors, BckError
<1>4. ASSUME NEW row \in BckError, bck_errors' = Append(bck_errors, row)
      PROVE  KeepsErrors
  <2>1. /\ DOMAIN bck_errors = 1 .. Len(bck_errors) /\ Len(bck_errors) \in Nat
        /\ DOMAIN Append(bck_errors, row) = 1 .. Len(bck_errors) + 1
        /\ \A k \in 1 .. Len(bck_errors) : Append(bck_errors, row)[k] = bck_errors[k]
    BY DEF ErrorTable
  <2>2. \A k \in 1 .. Len(bck_errors) : k \in 1 .. Len(bck_errors) + 1
    BY <2>1
  <2>3. \A k \in DOMAIN bck_errors : /\ k \in DOMAIN Append(bck_errors, row)
                                     /\ Append(bck_errors, row)[k] = bck_errors[k]
    BY <2>1, <2>2, Zenon
  <2>4. QED
    BY <1>4, <2>3 DEF KeepsErrors
<1>5. QED
  BY <1>2, <1>3, <1>4

(* No command loses an error report.                                       *)
LEMMA ErrorsStep == TypeOK /\ [Next]_vars => KeepsErrors
<1> SUFFICES ASSUME TypeOK, [Next]_vars
             PROVE  KeepsErrors
  OBVIOUS
<1>1. ErrorTable(bck_errors)
  BY DEF TypeOK
<1>2. ASSUME NEW l, VolumeCommand(l)
      PROVE  UNCHANGED bck_errors
  BY <1>2 DEF VolumeCommand, AddVolume, ModifyState, ModifyUsage, RemoveVolume
<1>3. ASSUME NEW b, BackupCommand(b)
      PROVE  UNCHANGED bck_errors \/ \E B : bck_errors' = DetachErrors(bck_errors, B)
  BY <1>3 DEF BackupCommand, NewBackup, ModifyBackup, RemoveBackup, DeleteBackupIds
<1>4. ASSUME NEW b, NEW e, FinishBackup(b, e)
      PROVE  UNCHANGED bck_errors
  BY <1>4 DEF FinishBackup
<1>5. ASSUME NEW b \in BckId \cup {0}, NEW o \in ObjName, NEW l \in Label, ObjectCommand(b, o, l)
      PROVE  UNCHANGED bck_errors \/ \E row \in BckError : bck_errors' = Append(bck_errors, row)
  <2>1. ASSUME NEW i \in Instance, ErrBackup(b, o, i, l)
        PROVE  \E row \in BckError : bck_errors' = Append(bck_errors, row)
    BY <2>1 DEF ErrBackup, InsertBckError, BckError
  <2>2. QED
    BY <1>5, <2>1 DEF ObjectCommand, StartBackup, ChangeVolumeNoSegment, ChangeVolume, EndBackup
<1>6. ASSUME NEW n, RunExpiration(n)
      PROVE  \E B : bck_errors' = DetachErrors(bck_errors, B)
  BY <1>6 DEF RunExpiration, DeleteBackupIds
<1>7. CASE Tick \/ UNCHANGED vars
  BY <1>1, <1>7, StatementsKeepErrors DEF Tick, vars
<1>8. QED
  BY <1>1, <1>2, <1>3, <1>4, <1>5, <1>6, <1>7, StatementsKeepErrors DEF Next

(* A step gives a tape to no other backup than 0, when its backup goes.    *)
GivesBack ==
    \A l \in DOMAIN volumes \cap DOMAIN volumes' :
        volumes'[l].bck_id # volumes[l].bck_id /\ volumes[l].bck_id # 0 =>
            /\ volumes'[l].bck_id = 0
            /\ volumes[l].bck_id \in DOMAIN backups \ DOMAIN backups'

(* Every command gives tapes back that way or not at all.                  *)
LEMMA OwnersStep == TypeOK /\ [Next]_vars => GivesBack
<1> SUFFICES ASSUME TypeOK, [Next]_vars
             PROVE  GivesBack
  OBVIOUS
<1>1. ASSUME \A k \in DOMAIN volumes \cap DOMAIN volumes' :
                volumes[k].bck_id = 0 \/ volumes'[k].bck_id = volumes[k].bck_id
      PROVE  GivesBack
  BY <1>1 DEF GivesBack
<1>2. ASSUME NEW B \in SUBSET DOMAIN backups, DeleteBackupIds(B)
      PROVE  GivesBack
  <2>1. DOMAIN backups' = DOMAIN backups \ B
    BY <1>2 DEF DeleteBackupIds, DeleteBackups
  <2>2. \A k \in DOMAIN volumes : /\ volumes[k].bck_id \in B => volumes'[k].bck_id = 0
                                  /\ volumes[k].bck_id \notin B => volumes'[k] = volumes[k]
    BY <1>2, FreeVolumesTable DEF DeleteBackupIds, TypeOK
  <2>3. QED
    BY <2>1, <2>2 DEF GivesBack
<1>3. ASSUME NEW l, NEW b \in BckId \cup {0}, Usable(volumes, l, b),
             volumes' = SetVolumeUsed(volumes, l, b)
      PROVE  GivesBack
  <2>1. l \in DOMAIN volumes /\ volumes[l].bck_id \in {0, b}
    BY <1>3, UsableVolume
  <2>2. volumes'[l].bck_id = b /\ \A k \in DOMAIN volumes \ {l} : volumes'[k] = volumes[k]
    BY <1>3, <2>1 DEF SetVolumeUsed
  <2>3. QED
    BY <1>1, <2>1, <2>2
<1>4. ASSUME UNCHANGED volumes
      PROVE  GivesBack
  BY <1>1, <1>4
<1>5. ASSUME NEW l \in Label, VolumeCommand(l)
      PROVE  GivesBack
  <2>1. ASSUME NEW st, NEW n, AddVolume(l, st, n)
        PROVE  GivesBack
    BY <1>1, <2>1 DEF AddVolume, InsertVolume
  <2>2. ASSUME NEW st, NEW n, ModifyState(l, st) \/ ModifyUsage(l, n)
        PROVE  GivesBack
    BY <1>1, <2>2 DEF ModifyState, ModifyUsage
  <2>3. CASE RemoveVolume(l)
    BY <1>1, <2>3 DEF RemoveVolume, DeleteVolume
  <2>4. QED
    BY <1>5, <2>1, <2>2, <2>3 DEF VolumeCommand
<1>6. ASSUME NEW b \in BckId, BackupCommand(b)
      PROVE  GivesBack
  BY <1>2, <1>4, <1>6 DEF BackupCommand, NewBackup, ModifyBackup, RemoveBackup
<1>7. ASSUME NEW b, NEW e, FinishBackup(b, e)
      PROVE  GivesBack
  BY <1>1, <1>7, IncVolumeUsageTable DEF FinishBackup, TypeOK
<1>8. ASSUME NEW b \in BckId \cup {0}, NEW o, NEW l, ObjectCommand(b, o, l)
      PROVE  GivesBack
  BY <1>3, <1>4, <1>8 DEF ObjectCommand, StartBackup, ChangeVolumeNoSegment, ChangeVolume,
                          EndBackup, ErrBackup
<1>9. ASSUME NEW n, RunExpiration(n)
      PROVE  GivesBack
  BY <1>2, <1>9 DEF RunExpiration
<1>10. CASE Tick \/ UNCHANGED vars
  BY <1>4, <1>10 DEF Tick, vars
<1>11. QED
  BY <1>5, <1>6, <1>7, <1>8, <1>9, <1>10 DEF Next

-----------------------------------------------------------------------------
(* The action properties                                                   *)

(* A tape changes hands only through the pool, and comes back to it only   *)
(* when its backup leaves the catalogue.                                   *)
THEOREM TapesReturnBeforeReuse == Spec => VolumesReturnBeforeReuse
<1>1. TypeOK /\ [Next]_vars => [GivesBack]_vars
  BY OwnersStep
<1>2. QED
  BY <1>1, TypeCorrect, PTL DEF Spec, VolumesReturnBeforeReuse, GivesBack

(* The record of a tape goes with the backup only; what has ended never    *)
(* changes again.                                                          *)
THEOREM HistoryIsKept == Spec => SegmentsAreHistory
<1>1. Init => TypeOK /\ References /\ Ownership
  BY InitTypeOK, InitReferences, InitOwnership
<1>2. TypeOK /\ References /\ Ownership /\ [Next]_vars => (TypeOK /\ References /\ Ownership)'
  BY TypeStep, ReferencesStep, OwnershipStep
<1>3. TypeOK /\ References /\ Ownership /\ [Next]_vars => [KeepsHistory]_vars
  BY OwnershipStep, HistoryStep, HistoryKeepsData DEF References
<1>4. QED
  BY <1>1, <1>2, <1>3, PTL DEF Spec, SegmentsAreHistory, KeepsHistory

(* Without an operator's `Y' the data of a backup, and the tape it is on,  *)
(* stay until the expiry date.                                             *)
THEOREM DataIsKept == Spec => DataIsRetained
<1>1. Init => TypeOK /\ References /\ Ownership
  BY InitTypeOK, InitReferences, InitOwnership
<1>2. TypeOK /\ References /\ Ownership /\ [Next]_vars => (TypeOK /\ References /\ Ownership)'
  BY TypeStep, ReferencesStep, OwnershipStep
<1>3. TypeOK /\ References /\ Ownership /\ [Next]_vars => [KeepsData]_vars
  BY OwnershipStep, HistoryStep, HistoryKeepsData DEF References
<1>4. QED
  BY <1>1, <1>2, <1>3, PTL DEF Spec, DataIsRetained, KeepsData

(* The errors of a label outlive the backups they were reported for.       *)
THEOREM ErrorsAreKept == Spec => ErrorHistoryIsKept
<1>1. TypeOK /\ [Next]_vars => [KeepsErrors]_vars
  BY ErrorsStep
<1>2. QED
  BY <1>1, TypeCorrect, PTL DEF Spec, ErrorHistoryIsKept, KeepsErrors

-----------------------------------------------------------------------------
(* Commands as values                                                      *)

\* What the qualifiers of a command line may be, those the command has.
LineOK(c) ==
    /\ c.name \in {"add", "state", "remove", "start", "error", "change", "end"} => c.l \in Label
    /\ c.name \in {"add", "state"} => c.st \in {"F", "A"}
    /\ c.name = "new" => c.b \in BckId \cup {0}
    /\ c.name \in {"new", "modify"} => c.x \in Time
    /\ c.name \in {"finish", "modify", "remove_backup", "start", "error", "change", "end"} =>
          c.b \in BckId
    /\ c.name = "finish" => c.e \in Time \cup {0}
    /\ c.name \in {"start", "error", "change", "end"} => c.o \in ObjName
    /\ c.name = "start" => c.i \in Instance \cup {0}
    /\ c.name \in {"error", "change", "end"} => c.i \in Instance
    /\ c.name \in {"change", "end"} => c.e \in Time /\ c.sz \in Size

(* Every command line the parser lets through is one of them.              *)
LEMMA CommandLinesOK == \A c \in CommandLines : LineOK(c)
  BY CommandsAssumption DEF CommandLines, VolumeCommands, BackupCommands, ObjectCommands, LineOK

(* Running a command line is a step of the library.                        *)
LEMMA RunIsStep ==
    ASSUME TypeOK, NEW c, LineOK(c), Run(c)
    PROVE  Next
<1>1. CASE Add(c) \/ State(c) \/ Remove(c)
  <2>1. c.l \in Label /\ VolumeCommand(c.l)
    BY <1>1 DEF Add, State, Remove, LineOK, VolumeCommand
  <2>2. QED
    BY <2>1 DEF Next
<1>2. CASE New(c)
  <2>1. PICK b \in BckId : NewBackup(b, c.x)
    BY <1>2 DEF New, LineOK
  <2>2. BackupCommand(b)
    BY <1>2, <2>1 DEF BackupCommand, New, LineOK
  <2>3. QED
    BY <2>2 DEF Next
<1>3. CASE Modify(c) \/ RemoveB(c)
  <2>1. c.b \in DOMAIN backups => backups[c.b].end \in Time \cup {0}
    BY DEF TypeOK, BackupTable, Backup
  <2>2. c.b \in BckId /\ BackupCommand(c.b)
    BY <1>3, <2>1 DEF Modify, RemoveB, LineOK, BackupCommand
  <2>3. QED
    BY <2>2 DEF Next
<1>4. CASE Finish(c)
  <2>1. c.b \in BckId \cup {0} /\ c.e \in Time \cup {0} /\ FinishBackup(c.b, c.e)
    BY <1>4 DEF Finish, LineOK
  <2>2. QED
    BY <2>1 DEF Next
<1>5. CASE Start(c) \/ Error(c) \/ Change(c) \/ End(c)
  <2>1. c.b \in BckId \cup {0} /\ c.o \in ObjName /\ c.l \in Label
    BY <1>5 DEF Start, Error, Change, End, LineOK
  <2>2. ObjectCommand(c.b, c.o, c.l)
    BY <1>5 DEF Start, Error, Change, End, LineOK, ObjectCommand
  <2>3. QED
    BY <2>1, <2>2 DEF Next
<1>6. CASE Expire(c)
  BY <1>6 DEF Expire, Next
<1>7. QED
  BY <1>1, <1>2, <1>3, <1>4, <1>5, <1>6 DEF Run

-----------------------------------------------------------------------------
(* Sums over finite sets                                                   *)

First(X) == CHOOSE x \in X : TRUE

\* g is the sum of f over every subset of X, by the recursion of MapThenSumSet.
IsSum(X, f, g) ==
    g = [Y \in SUBSET X |-> IF Y = {} THEN 0 ELSE f[First(Y)] + g[Y \ {First(Y)}]]

SumsOver(X, f) == CHOOSE g : IsSum(X, f, g)

SumOf(X, f) == SumsOver(X, f)[X]

\* f gives every element of X a number.
Numbers(X, f) == \A x \in X : f[x] \in Nat

(* A set that is not empty has a first element.                            *)
LEMMA FirstIn == \A X : X # {} => First(X) \in X
  BY DEF First

(* The equations of a sum, one by one.                                     *)
LEMMA SumEquations ==
    ASSUME NEW X, NEW f, NEW g, IsSum(X, f, g)
    PROVE  /\ g[{}] = 0
           /\ \A Y \in SUBSET X : Y # {} => g[Y] = f[First(Y)] + g[Y \ {First(Y)}]
  BY DEF IsSum

(* If a predicate fails for some finite subset of X, it fails for a least  *)
(* one.                                                                    *)
LEMMA LeastSubset ==
    ASSUME NEW X, NEW T \in SUBSET SUBSET X, IsFiniteSet(X), T # {}
    PROVE  \E Y \in T : \A Z \in SUBSET Y : Z # Y => Z \notin T
<1>1. T \subseteq FiniteSubsetsOf(X)
  BY FS_Subset DEF FiniteSubsetsOf
<1>2. IsWellFoundedOn(StrictSubsetOrdering(X), FiniteSubsetsOf(X))
  BY FS_StrictSubsetOrderingWellFounded
<1>3. PICK Y \in T : \A Z \in T : <<Z, Y>> \notin StrictSubsetOrdering(X)
  BY <1>1, <1>2, WFMin
<1>4. \A Z \in SUBSET Y : Z # Y => Z \notin T
  BY <1>1, <1>3 DEF StrictSubsetOrdering, FiniteSubsetsOf
<1>5. QED
  BY <1>4

(* Two sums of f agree where both are defined, ...                         *)
LEMMA SumsAgree ==
    ASSUME NEW X, NEW Y, NEW f, NEW g, NEW h, IsSum(X, f, g), IsSum(Y, f, h),
           NEW Z \in SUBSET (X \cap Y), IsFiniteSet(Z)
    PROVE  g[Z] = h[Z]
<1> DEFINE T == {V \in SUBSET Z : g[V] # h[V]}
<1> SUFFICES ASSUME T # {}
             PROVE  FALSE
  OBVIOUS
<1>1. PICK V \in T : \A W \in SUBSET V : W # V => W \notin T
  <2>1. T \in SUBSET SUBSET Z
    OBVIOUS
  <2> HIDE DEF T
  <2>2. QED
    BY <2>1, LeastSubset
<1>2. V \in SUBSET X /\ V \in SUBSET Y /\ V \in SUBSET Z /\ g[V] # h[V]
  BY <1>1
<1> DEFINE W == V \ {First(V)}
<1>3. V # {}
  BY <1>2, SumEquations
<1>4. W \in SUBSET V /\ W # V
  BY <1>3, FirstIn
<1>5. g[W] = h[W]
  BY <1>1, <1>2, <1>4
<1>6. g[V] = f[First(V)] + g[W] /\ h[V] = f[First(V)] + h[W]
  BY <1>2, <1>3, SumEquations
<1>7. QED
  BY <1>2, <1>5, <1>6

(* ... and there is one over every finite set.                             *)
LEMMA SumExists ==
    ASSUME NEW X, IsFiniteSet(X), NEW f
    PROVE  \E g : IsSum(X, f, g)
<1> DEFINE T == {Y \in SUBSET X : ~\E g : IsSum(Y, f, g)}
<1> SUFFICES ASSUME T # {}
             PROVE  FALSE
  OBVIOUS
<1>1. PICK Y \in T : \A Z \in SUBSET Y : Z # Y => Z \notin T
  <2>1. T \in SUBSET SUBSET X
    OBVIOUS
  <2> HIDE DEF T
  <2>2. QED
    BY <2>1, LeastSubset
<1>2. Y \in SUBSET X /\ ~\E g : IsSum(Y, f, g)
  BY <1>1
<1>3. \A Z \in SUBSET Y : Z # Y => IsSum(Z, f, SumsOver(Z, f)) /\ IsFiniteSet(Z)
  <2>1. ASSUME NEW Z \in SUBSET Y, Z # Y
        PROVE  IsSum(Z, f, SumsOver(Z, f)) /\ IsFiniteSet(Z)
    <3>1. \E g : IsSum(Z, f, g)
      BY <1>1, <1>2, <2>1
    <3>2. IsSum(Z, f, SumsOver(Z, f))
      BY <3>1 DEF SumsOver
    <3>3. QED
      BY <1>2, <3>2, FS_Subset
  <2>2. QED
    BY <2>1
<1> HIDE DEF T
\* Over a proper subset W of Y the equation holds for SumOf.
<1>4. ASSUME NEW W \in SUBSET Y, W # Y
      PROVE  SumOf(W, f) = IF W = {} THEN 0 ELSE f[First(W)] + SumOf(W \ {First(W)}, f)
  <2> DEFINE V == W \ {First(W)}
             g == SumsOver(W, f)
             h == SumsOver(V, f)
  <2>1. IsSum(W, f, g)
    BY <1>3, <1>4
  <2>2. CASE W = {}
    BY <2>1, <2>2, SumEquations DEF SumOf
  <2>3. CASE W # {}
    <3>1. V \in SUBSET W /\ V # Y /\ V \in SUBSET Y
      BY <1>4
    <3>2. IsSum(V, f, h) /\ IsFiniteSet(V)
      BY <1>3, <3>1
    <3>3. g[V] = h[V]
      <4> HIDE DEF g, h, V
      <4>1. V \in SUBSET (W \cap V)
        BY <3>1
      <4>2. QED
        BY <2>1, <3>2, <4>1, SumsAgree
    <3>4. g[W] = f[First(W)] + g[V]
      BY <2>1, <2>3, SumEquations
    <3>5. QED
      BY <2>3, <3>3, <3>4 DEF SumOf
  <2>4. QED
    BY <2>2, <2>3
<1> DEFINE value(W) == IF W = {} THEN 0 ELSE f[First(W)] + SumOf(W \ {First(W)}, f)
           g == [W \in SUBSET Y |-> value(W)]
<1>5. \A W \in SUBSET Y : W # {} => g[W \ {First(W)}] = SumOf(W \ {First(W)}, f)
  <2>1. ASSUME NEW W \in SUBSET Y, W # {}
        PROVE  g[W \ {First(W)}] = SumOf(W \ {First(W)}, f)
    <3> DEFINE V == W \ {First(W)}
    <3>1. V \in SUBSET Y /\ V # Y
      BY <2>1, FirstIn
    <3> HIDE DEF V
    <3>2. SumOf(V, f) = value(V)
      BY <1>4, <3>1
    <3>3. g[V] = value(V)
      BY <3>1
    <3>4. QED
      BY <3>2, <3>3 DEF V
  <2>2. QED
    BY <2>1
<1>6. g = [W \in SUBSET Y |-> IF W = {} THEN 0 ELSE f[First(W)] + g[W \ {First(W)}]]
  BY <1>5
<1>7. QED
  BY <1>2, <1>6 DEF IsSum

(* The empty sum is 0, and every element of a set counts once.             *)
LEMMA SumRemove ==
    ASSUME NEW X, IsFiniteSet(X), NEW f, Numbers(X, f)
    PROVE  /\ SumOf({}, f) = 0
           /\ SumOf(X, f) \in Nat
           /\ \A x \in X : SumOf(X, f) = f[x] + SumOf(X \ {x}, f)
<1>1. PICK g : IsSum(X, f, g)
  BY SumExists
<1>2. \A Y \in SUBSET X : SumOf(Y, f) = g[Y]
  <2>1. ASSUME NEW Y \in SUBSET X
        PROVE  SumOf(Y, f) = g[Y]
    <3>1. IsFiniteSet(Y)
      BY FS_Subset
    <3>2. IsSum(Y, f, SumsOver(Y, f))
      BY <3>1, SumExists DEF SumsOver
    <3>3. Y \in SUBSET (Y \cap X)
      OBVIOUS
    <3>4. QED
      BY <1>1, <3>1, <3>2, <3>3, SumsAgree DEF SumOf
  <2>2. QED
    BY <2>1
<1>3. /\ g[{}] = 0
      /\ \A Y \in SUBSET X : Y # {} => g[Y] = f[First(Y)] + g[Y \ {First(Y)}]
  <2>1. g[{}] = 0
    BY <1>1, SumEquations
  <2>2. ASSUME NEW Y \in SUBSET X, Y # {}
        PROVE  g[Y] = f[First(Y)] + g[Y \ {First(Y)}]
    BY <1>1, <2>2, SumEquations
  <2>3. QED
    BY <2>1, <2>2
<1>4. \A Y \in SUBSET X : g[Y] \in Nat
  <2> DEFINE T == {Y \in SUBSET X : g[Y] \notin Nat}
  <2> SUFFICES ASSUME T # {}
               PROVE  FALSE
    OBVIOUS
  <2>1. PICK Y \in T : \A Z \in SUBSET Y : Z # Y => Z \notin T
    <3>1. T \in SUBSET SUBSET X
      OBVIOUS
    <3> HIDE DEF T
    <3>2. QED
      BY <3>1, LeastSubset
  <2>2. Y \in SUBSET X /\ g[Y] \notin Nat /\ \A Z \in SUBSET Y : Z # Y => g[Z] \in Nat
    BY <2>1
  <2> HIDE DEF T
  <2>3. Y # {} /\ First(Y) \in Y
    <3>1. ASSUME Y = {}
          PROVE  FALSE
      <4>1. g[Y] = 0
        BY <1>3, <3>1
      <4>2. QED
        BY <2>2, <4>1
    <3>2. QED
      BY <3>1, FirstIn
  <2>4. g[Y \ {First(Y)}] \in Nat
    BY <2>2, <2>3
  <2>5. f[First(Y)] \in Nat
    BY <2>2, <2>3 DEF Numbers
  <2>6. QED
    <3>1. g[Y] = f[First(Y)] + g[Y \ {First(Y)}]
      BY <1>3, <2>2, <2>3
    <3>2. QED
      BY <2>2, <2>4, <2>5, <3>1
<1>5. \A Y \in SUBSET X : \A x \in Y : g[Y] = f[x] + g[Y \ {x}]
  <2> DEFINE T == {Y \in SUBSET X : \E x \in Y : g[Y] # f[x] + g[Y \ {x}]}
  <2> SUFFICES ASSUME T # {}
               PROVE  FALSE
    OBVIOUS
  <2>1. PICK Y \in T : \A Z \in SUBSET Y : Z # Y => Z \notin T
    <3>1. T \in SUBSET SUBSET X
      OBVIOUS
    <3> HIDE DEF T
    <3>2. QED
      BY <3>1, LeastSubset
  <2>2. PICK x \in Y : g[Y] # f[x] + g[Y \ {x}]
    BY <2>1
  <2>3. Y \in SUBSET X /\ First(Y) \in Y
    BY <2>1, <2>2, FirstIn
  <2> DEFINE c == First(Y)
             W == (Y \ {c}) \ {x}
  <2>4. c # x
    BY <1>3, <2>2, <2>3
  <2>5. g[Y] = f[c] + g[Y \ {c}]
    BY <1>3, <2>2, <2>3
  <2>6. \A Z \in SUBSET Y : Z # Y => \A y \in Z : g[Z] = f[y] + g[Z \ {y}]
    BY <2>1, <2>3
  <2> HIDE DEF T, c
  <2>7. c \in Y
    BY <2>3 DEF c
  <2>8. g[Y \ {c}] = f[x] + g[W]
    BY <2>4, <2>6, <2>7
  <2>9. g[Y \ {x}] = f[c] + g[W]
    <3>1. W = (Y \ {x}) \ {c}
      OBVIOUS
    <3>2. QED
      BY <2>4, <2>6, <2>7, <3>1
  <2>10. f[c] \in Nat /\ f[x] \in Nat /\ g[W] \in Nat
    BY <1>4, <2>3, <2>7 DEF Numbers
  <2>11. QED
    BY <2>2, <2>5, <2>8, <2>9, <2>10
<1>6. SumOf({}, f) = 0 /\ SumOf(X, f) \in Nat
  BY <1>2, <1>3, <1>4
<1>7. ASSUME NEW x \in X
      PROVE  SumOf(X, f) = f[x] + SumOf(X \ {x}, f)
  <2>1. SumOf(X, f) = g[X] /\ SumOf(X \ {x}, f) = g[X \ {x}]
    BY <1>2
  <2>2. QED
    BY <1>5, <2>1
<1>8. QED
  BY <1>6, <1>7

(* A sum depends on the terms only.                                        *)
LEMMA SumSame ==
    ASSUME NEW X, IsFiniteSet(X), NEW f, NEW h, Numbers(X, f), \A x \in X : h[x] = f[x]
    PROVE  SumOf(X, h) = SumOf(X, f)
<1> DEFINE T == {Y \in SUBSET X : SumOf(Y, h) # SumOf(Y, f)}
<1> SUFFICES ASSUME T # {}
             PROVE  FALSE
  OBVIOUS
<1>1. PICK Y \in T : \A Z \in SUBSET Y : Z # Y => Z \notin T
  <2>1. T \in SUBSET SUBSET X
    OBVIOUS
  <2> HIDE DEF T
  <2>2. QED
    BY <2>1, LeastSubset
<1>2. /\ Y \in SUBSET X /\ SumOf(Y, h) # SumOf(Y, f)
      /\ \A Z \in SUBSET Y : Z # Y => SumOf(Z, h) = SumOf(Z, f)
  BY <1>1
<1> HIDE DEF T
<1>3. IsFiniteSet(Y) /\ Numbers(Y, f) /\ Numbers(Y, h)
  BY <1>2, FS_Subset DEF Numbers
<1>4. CASE Y = {}
  <2>1. SumOf({}, h) = 0 /\ SumOf({}, f) = 0
    BY <1>3, <1>4, SumRemove
  <2>2. QED
    BY <1>2, <1>4, <2>1
<1>5. ASSUME NEW x \in Y
      PROVE  FALSE
  <2>1. SumOf(Y, h) = h[x] + SumOf(Y \ {x}, h) /\ SumOf(Y, f) = f[x] + SumOf(Y \ {x}, f)
    BY <1>3, SumRemove
  <2>2. SumOf(Y \ {x}, h) = SumOf(Y \ {x}, f)
    BY <1>2
  <2>3. h[x] = f[x]
    BY <1>2
  <2>4. QED
    BY <1>2, <2>1, <2>2, <2>3
<1>6. QED
  BY <1>4, <1>5

(* A sum changes by what one of its terms changes.                         *)
LEMMA SumChange ==
    ASSUME NEW X, IsFiniteSet(X), NEW f, NEW h, Numbers(X, f), NEW y \in X, NEW d \in Nat,
           h[y] = f[y] + d, \A x \in X : x # y => h[x] = f[x]
    PROVE  SumOf(X, h) = SumOf(X, f) + d
<1> DEFINE Z == X \ {y}
<1>1. IsFiniteSet(Z) /\ Numbers(Z, f)
  BY FS_Subset DEF Numbers
<1>2. SumOf(Z, h) = SumOf(Z, f)
  <2>1. \A x \in Z : h[x] = f[x]
    OBVIOUS
  <2> HIDE DEF Z
  <2>2. QED
    BY <1>1, <2>1, SumSame
<1>3. Numbers(X, h)
  BY DEF Numbers
<1>4. SumOf(X, h) = h[y] + SumOf(Z, h) /\ SumOf(X, f) = f[y] + SumOf(Z, f)
  BY <1>3, SumRemove
<1>5. SumOf(Z, f) \in Nat
  <2> HIDE DEF Z
  <2>1. QED
    BY <1>1, SumRemove
<1>6. f[y] \in Nat
  BY DEF Numbers
<1>7. QED
  <2> HIDE DEF Z
  <2>1. QED
    BY <1>2, <1>4, <1>5, <1>6

(* Terms that are all 0 add up to 0.                                       *)
LEMMA SumOfZeros ==
    ASSUME NEW X, IsFiniteSet(X), NEW f, \A x \in X : f[x] = 0
    PROVE  SumOf(X, f) = 0
<1> DEFINE T == {Y \in SUBSET X : SumOf(Y, f) # 0}
<1> SUFFICES ASSUME T # {}
             PROVE  FALSE
  OBVIOUS
<1>1. PICK Y \in T : \A Z \in SUBSET Y : Z # Y => Z \notin T
  <2>1. T \in SUBSET SUBSET X
    OBVIOUS
  <2> HIDE DEF T
  <2>2. QED
    BY <2>1, LeastSubset
<1>2. /\ Y \in SUBSET X /\ SumOf(Y, f) # 0
      /\ \A Z \in SUBSET Y : Z # Y => SumOf(Z, f) = 0
  BY <1>1
<1> HIDE DEF T
<1>3. IsFiniteSet(Y) /\ Numbers(Y, f)
  BY <1>2, FS_Subset DEF Numbers
<1>4. ASSUME Y = {}
      PROVE  FALSE
  <2>1. SumOf({}, f) = 0
    BY <1>3, SumRemove
  <2>2. QED
    BY <1>2, <1>4, <2>1
<1>5. ASSUME NEW x \in Y
      PROVE  FALSE
  <2>1. SumOf(Y, f) = f[x] + SumOf(Y \ {x}, f)
    BY <1>3, SumRemove
  <2>2. SumOf(Y \ {x}, f) = 0 /\ f[x] = 0
    BY <1>2
  <2>3. QED
    BY <1>2, <2>1, <2>2
<1>6. QED
  BY <1>4, <1>5

(* The elements of X that h puts into y.                                   *)
Fibre(X, h, y) == {x \in X : h[x] = y}

(* Adding up class by class, whatever the classes, adds up to the same.    *)
LEMMA SumFibres ==
    ASSUME NEW X, IsFiniteSet(X), NEW f, Numbers(X, f),
           NEW Y, IsFiniteSet(Y), NEW h, \A x \in X : h[x] \in Y
    PROVE  SumOf(Y, [y \in Y |-> SumOf(Fibre(X, h, y), f)]) = SumOf(X, f)
<1> DEFINE sums(Z) == [y \in Y |-> SumOf(Fibre(Z, h, y), f)]
           T == {Z \in SUBSET X : SumOf(Y, sums(Z)) # SumOf(Z, f)}
<1> SUFFICES ASSUME T # {}
             PROVE  FALSE
  OBVIOUS
<1>1. PICK Z \in T : \A W \in SUBSET Z : W # Z => W \notin T
  <2>1. T \in SUBSET SUBSET X
    OBVIOUS
  <2> HIDE DEF T
  <2>2. QED
    BY <2>1, LeastSubset
<1>2. /\ Z \in SUBSET X /\ SumOf(Y, sums(Z)) # SumOf(Z, f)
      /\ \A W \in SUBSET Z : W # Z => SumOf(Y, sums(W)) = SumOf(W, f)
  BY <1>1
<1> HIDE DEF T
<1>3. \A W \in SUBSET X : IsFiniteSet(W) /\ Numbers(W, f) /\ SumOf(W, f) \in Nat
  <2>1. ASSUME NEW W \in SUBSET X
        PROVE  IsFiniteSet(W) /\ Numbers(W, f)
    BY FS_Subset DEF Numbers
  <2>2. QED
    BY <2>1, SumRemove
<1>4. \A W \in SUBSET X : /\ Numbers(Y, sums(W))
                         /\ \A y \in Y : sums(W)[y] = SumOf(Fibre(W, h, y), f)
  <2>1. ASSUME NEW W \in SUBSET X, NEW y \in Y
        PROVE  SumOf(Fibre(W, h, y), f) \in Nat
    <3>1. Fibre(W, h, y) \in SUBSET X
      BY DEF Fibre
    <3>2. QED
      BY <1>3, <3>1
  <2>2. QED
    BY <2>1 DEF Numbers
<1>5. ASSUME Z = {}
      PROVE  FALSE
  <2>1. \A y \in Y : sums(Z)[y] = SumOf({}, f)
    BY <1>2, <1>4, <1>5 DEF Fibre
  <2>2. SumOf({}, f) = 0
    BY SumRemove
  <2>3. SumOf(Y, sums(Z)) = 0
    <3>1. \A y \in Y : sums(Z)[y] = 0
      BY <2>1, <2>2
    <3> HIDE DEF sums
    <3>2. QED
      BY <3>1, SumOfZeros
  <2>4. QED
    BY <1>2, <1>5, <2>2, <2>3
<1>6. ASSUME NEW x \in Z
      PROVE  FALSE
  <2> DEFINE W == Z \ {x}
             y == h[x]
  <2>1. y \in Y /\ f[x] \in Nat
    BY <1>2 DEF Numbers
  <2>2. SumOf(Z, f) = f[x] + SumOf(W, f)
    <3>1. IsFiniteSet(Z) /\ Numbers(Z, f)
      BY <1>2, <1>3
    <3>2. QED
      BY <3>1, SumRemove
  <2>3. SumOf(Fibre(Z, h, y), f) = f[x] + SumOf(Fibre(W, h, y), f)
    <3>1. Fibre(Z, h, y) \in SUBSET X /\ x \in Fibre(Z, h, y)
      BY <1>2 DEF Fibre
    <3>2. Fibre(W, h, y) = Fibre(Z, h, y) \ {x}
      BY DEF Fibre
    <3>3. IsFiniteSet(Fibre(Z, h, y)) /\ Numbers(Fibre(Z, h, y), f)
      BY <1>3, <3>1
    <3> DEFINE F == Fibre(Z, h, y)
    <3>4. IsFiniteSet(F) /\ Numbers(F, f) /\ x \in F /\ Fibre(W, h, y) = F \ {x}
      BY <3>1, <3>2, <3>3
    <3> HIDE DEF F, W, y
    <3>5. SumOf(F, f) = f[x] + SumOf(F \ {x}, f)
      BY <3>4, SumRemove
    <3>6. QED
      BY <3>4, <3>5 DEF F
  <2>4. \A v \in Y : v # y => Fibre(Z, h, v) = Fibre(W, h, v)
    BY DEF Fibre
  <2>5. SumOf(Fibre(W, h, y), f) \in Nat /\ SumOf(W, f) \in Nat
    <3>1. Fibre(W, h, y) \in SUBSET X /\ W \in SUBSET X
      BY <1>2 DEF Fibre
    <3>2. QED
      BY <1>3, <3>1
  <2>6. W \in SUBSET X /\ W \in SUBSET Z /\ W # Z
    BY <1>2
  <2> HIDE DEF W, y
  <2>7. /\ sums(Z)[y] = sums(W)[y] + f[x]
        /\ \A v \in Y : v # y => sums(Z)[v] = sums(W)[v]
    BY <2>1, <2>3, <2>4, <2>5
  <2>8. Numbers(Y, sums(W))
    BY <1>4, <2>6
  <2> HIDE DEF sums
  <2>9. SumOf(Y, sums(Z)) = SumOf(Y, sums(W)) + f[x]
    BY <2>1, <2>7, <2>8, SumChange
  <2>10. SumOf(Y, sums(W)) = SumOf(W, f)
    BY <1>2, <2>6
  <2>11. QED
    BY <1>2, <2>1, <2>2, <2>5, <2>9, <2>10
<1>7. QED
  BY <1>5, <1>6

(* Counting is adding ones.                                                *)
LEMMA SumOfOnes ==
    ASSUME NEW X, IsFiniteSet(X), NEW f, \A x \in X : f[x] = 1
    PROVE  SumOf(X, f) = Cardinality(X)
<1> DEFINE T == {Y \in SUBSET X : SumOf(Y, f) # Cardinality(Y)}
<1> SUFFICES ASSUME T # {}
             PROVE  FALSE
  OBVIOUS
<1>1. PICK Y \in T : \A Z \in SUBSET Y : Z # Y => Z \notin T
  <2>1. T \in SUBSET SUBSET X
    OBVIOUS
  <2> HIDE DEF T
  <2>2. QED
    BY <2>1, LeastSubset
<1>2. /\ Y \in SUBSET X /\ SumOf(Y, f) # Cardinality(Y)
      /\ \A Z \in SUBSET Y : Z # Y => SumOf(Z, f) = Cardinality(Z)
  BY <1>1
<1> HIDE DEF T
<1>3. IsFiniteSet(Y) /\ Numbers(Y, f)
  BY <1>2, FS_Subset DEF Numbers
<1>4. ASSUME Y = {}
      PROVE  FALSE
  <2>1. SumOf({}, f) = 0 /\ Cardinality({}) = 0
    BY <1>3, SumRemove, FS_EmptySet
  <2>2. QED
    BY <1>2, <1>4, <2>1
<1>5. ASSUME NEW x \in Y
      PROVE  FALSE
  <2>1. SumOf(Y, f) = f[x] + SumOf(Y \ {x}, f)
    BY <1>3, SumRemove
  <2>2. SumOf(Y \ {x}, f) = Cardinality(Y \ {x}) /\ f[x] = 1
    BY <1>2
  <2>3. Cardinality(Y \ {x}) = Cardinality(Y) - 1 /\ Cardinality(Y) \in Nat
    BY <1>3, FS_RemoveElement, FS_CardinalityType
  <2>4. QED
    BY <1>2, <2>1, <2>2, <2>3
<1>6. QED
  BY <1>4, <1>5

(* The sum of sizes that the statements ask for is such a sum.             *)
LEMMA SizesAreSum ==
    ASSUME NEW X, IsFiniteSet(X)
    PROVE  MapThenSumSet(LAMBDA s : s.size, X) = SumOf(X, [s \in X |-> s.size])
<1> DEFINE f == [s \in X |-> s.size]
           P(g) == g = [Y \in SUBSET X |-> IF Y = {} THEN 0
                        ELSE LET x == CHOOSE x \in Y : TRUE IN x.size + g[Y \ {x}]]
           m == CHOOSE g : P(g)
<1>1. ASSUME NEW g
      PROVE  P(g) <=> IsSum(X, f, g)
  <2>1. \A Y \in SUBSET X : Y # {} => f[First(Y)] = First(Y).size
    BY FirstIn
  <2>2. QED
    BY <2>1 DEF IsSum, First
<1>2. MapThenSumSet(LAMBDA s : s.size, X) = m[X]
  BY DEF MapThenSumSet, MapThenFoldSet
<1>3. IsSum(X, f, m)
  <2> HIDE DEF P, f
  <2>1. \E g : P(g)
    BY <1>1, SumExists
  <2>2. P(m)
    BY <2>1
  <2>3. QED
    BY <1>1, <2>2
<1>4. m[X] = SumOf(X, f)
  <2>1. IsSum(X, f, SumsOver(X, f))
    BY SumExists DEF SumsOver
  <2> HIDE DEF m, f
  <2>2. QED
    BY <1>3, <2>1, SumsAgree DEF SumOf
<1>5. QED
  BY <1>2, <1>4
=============================================================================
