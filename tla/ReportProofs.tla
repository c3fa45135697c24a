----------------------------- MODULE ReportProofs -----------------------------
(***************************************************************************)
(* What /verify, /reportbackup, /display and /errcount say about the       *)
(* catalogue.  When commands run one after the other the alarms of /verify *)
(* have the two harmless causes that VerifyAlarmsAreExplained names, the   *)
(* two halves of a report add up to the same, and the errors it shows are  *)
(* those /errcount counts but for the ones of another tape.                *)
(***************************************************************************)
EXTENDS LibraryProofs, Reports

-----------------------------------------------------------------------------
(* The tables are finite                                                   *)

FiniteTables == IsFiniteSet(DOMAIN volumes) /\ IsFiniteSet(bck_objects)

(* The statements keep a table of objects finite.                          *)
LEMMA FiniteObjects ==
    ASSUME NEW objs, IsFiniteSet(objs)
    PROVE  /\ \A b, o, i : IsFiniteSet(InsertBckObject(objs, b, o, i))
           /\ \A b, o, i, e, total : IsFiniteSet(EndBckObject(objs, b, o, i, e, total))
           /\ \A B : IsFiniteSet(DeleteRows(objs, B))
<1>1. ASSUME NEW b, NEW o, NEW i
      PROVE  IsFiniteSet(InsertBckObject(objs, b, o, i))
  BY FS_AddElement DEF InsertBckObject
<1>2. ASSUME NEW b, NEW o, NEW i, NEW e, NEW total
      PROVE  IsFiniteSet(EndBckObject(objs, b, o, i, e, total))
  <2> DEFINE ended(r) == IF IsOf(r, b, o, i) /\ r.end = 0 THEN ObjectRow(b, o, i, e, total) ELSE r
  <2> DEFINE f == [r \in objs |-> ended(r)]
  <2>1. f \in Surjection(objs, EndBckObject(objs, b, o, i, e, total))
    BY DEF EndBckObject, Surjection
  <2>2. QED
    BY <2>1, FS_Surjection
<1>3. ASSUME NEW B
      PROVE  IsFiniteSet(DeleteRows(objs, B))
  BY FS_Subset DEF DeleteRows
<1>4. QED
  BY <1>1, <1>2, <1>3

(* Every command keeps the tables finite.                                  *)
LEMMA FiniteStep == FiniteTables /\ [Next]_vars => FiniteTables'
<1> SUFFICES ASSUME FiniteTables, [Next]_vars
             PROVE  FiniteTables'
  OBVIOUS
<1>1. ASSUME DOMAIN volumes' = DOMAIN volumes,
             \/ UNCHANGED bck_objects
             \/ \E b, o, i : bck_objects' = InsertBckObject(bck_objects, b, o, i)
             \/ \E b, o, i, e, total : bck_objects' = EndBckObject(bck_objects, b, o, i, e, total)
             \/ \E B : bck_objects' = DeleteRows(bck_objects, B)
      PROVE  FiniteTables'
  BY <1>1, FiniteObjects DEF FiniteTables
<1>2. ASSUME NEW l, VolumeCommand(l)
      PROVE  FiniteTables'
  <2>1. ASSUME NEW st, NEW n, AddVolume(l, st, n)
        PROVE  FiniteTables'
    BY <2>1, FS_AddElement DEF AddVolume, InsertVolume, FiniteTables
  <2>2. ASSUME NEW st, NEW n, ModifyState(l, st) \/ ModifyUsage(l, n)
        PROVE  FiniteTables'
    BY <1>1, <2>2 DEF ModifyState, ModifyUsage
  <2>3. CASE RemoveVolume(l)
    <3>1. DOMAIN volumes' \subseteq DOMAIN volumes /\ UNCHANGED bck_objects
      BY <2>3 DEF RemoveVolume, DeleteVolume
    <3>2. QED
      BY <3>1, FS_Subset DEF FiniteTables
  <2>4. QED
    BY <1>2, <2>1, <2>2, <2>3 DEF VolumeCommand
<1>3. ASSUME NEW B, DeleteBackupIds(B)
      PROVE  FiniteTables'
  BY <1>1, <1>3 DEF DeleteBackupIds, FreeVolumes
<1>4. ASSUME NEW b, BackupCommand(b)
      PROVE  FiniteTables'
  BY <1>1, <1>3, <1>4 DEF BackupCommand, NewBackup, ModifyBackup, RemoveBackup
<1>5. ASSUME NEW b, NEW e, FinishBackup(b, e)
      PROVE  FiniteTables'
  BY <1>1, <1>5 DEF FinishBackup, IncVolumeUsage
<1>6. ASSUME NEW b, NEW o, NEW l, ObjectCommand(b, o, l)
      PROVE  FiniteTables'
  <2>1. ASSUME NEW given, StartBackup(b, o, l, given)
        PROVE  FiniteTables'
    BY <1>1, <2>1 DEF StartBackup, SetVolumeUsed
  <2>2. ASSUME NEW i, ChangeVolumeNoSegment(b, o, i, l)
        PROVE  FiniteTables'
    BY <1>1, <2>2 DEF ChangeVolumeNoSegment, SetVolumeUsed
  <2>3. ASSUME NEW i, NEW e, NEW sz, ChangeVolume(b, o, i, l, e, sz)
        PROVE  FiniteTables'
    BY <1>1, <2>3 DEF ChangeVolume, SetVolumeUsed
  <2>4. ASSUME NEW i, NEW e, NEW sz, EndBackup(b, o, i, l, e, sz)
        PROVE  FiniteTables'
    BY <1>1, <2>4 DEF EndBackup
  <2>5. ASSUME NEW i, ErrBackup(b, o, i, l)
        PROVE  FiniteTables'
    BY <1>1, <2>5 DEF ErrBackup
  <2>6. QED
    BY <1>6, <2>1, <2>2, <2>3, <2>4, <2>5 DEF ObjectCommand
<1>7. ASSUME NEW n, RunExpiration(n)
      PROVE  FiniteTables'
  BY <1>3, <1>7 DEF RunExpiration
<1>8. CASE Tick \/ UNCHANGED vars
  BY <1>1, <1>8 DEF Tick, vars
<1>9. QED
  BY <1>2, <1>4, <1>5, <1>6, <1>7, <1>8 DEF Next

-----------------------------------------------------------------------------
(* The errors of a backup have an object                                   *)

ErrorObjects(errs, objs) ==
    \A k \in DOMAIN errs :
        errs[k].bck_id # 0 => HasRow(objs, errs[k].bck_id, errs[k].objname, errs[k].obj_instance)

(* The insert of an error of an object that is there.                      *)
LEMMA InsertedErrorObjects ==
    ASSUME NEW errs, ErrorTable(errs), NEW objs, ErrorObjects(errs, objs),
           NEW l \in Label, NEW b \in BckId, NEW o \in ObjName, NEW i \in Instance,
           HasRow(objs, b, o, i)
    PROVE  ErrorObjects(InsertBckError(errs, l, b, o, i), objs)
<1> DEFINE row == [bck_id |-> b, label |-> l, objname |-> o, obj_instance |-> i]
<1>1. row \in BckError /\ row.bck_id = b /\ row.objname = o /\ row.obj_instance = i
  BY DEF BckError
<1> HIDE DEF row
<1>2. InsertBckError(errs, l, b, o, i) = Append(errs, row)
  BY DEF InsertBckError, row
<1>3. errs \in Seq(BckError)
  BY DEF ErrorTable
<1>4. /\ DOMAIN Append(errs, row) = 1 .. Len(errs) + 1
      /\ DOMAIN errs = 1 .. Len(errs)
      /\ \A k \in 1 .. Len(errs) : Append(errs, row)[k] = errs[k]
      /\ Append(errs, row)[Len(errs) + 1] = row
      /\ Len(errs) \in Nat
  BY <1>1, <1>3
<1>5. \A k \in 1 .. Len(errs) + 1 : k \in 1 .. Len(errs) \/ k = Len(errs) + 1
  BY <1>4
<1>6. QED
  BY <1>1, <1>2, <1>4, <1>5 DEF ErrorObjects

(* The errors of deleted backups are detached, the others keep theirs.     *)
LEMMA DetachedErrorObjects ==
    ASSUME NEW errs, ErrorTable(errs), NEW objs, ErrorObjects(errs, objs), NEW B
    PROVE  ErrorObjects(DetachErrors(errs, B), DeleteRows(objs, B))
<1>1. DOMAIN DetachErrors(errs, B) = DOMAIN errs
  BY DEF DetachErrors
<1>2. \A k \in DOMAIN errs :
         \/ errs[k].bck_id \in B /\ DetachErrors(errs, B)[k].bck_id = 0
         \/ errs[k].bck_id \notin B /\ DetachErrors(errs, B)[k] = errs[k]
  <2>1. \A k \in DOMAIN errs : errs[k] \in BckError
    BY DEF ErrorTable
  <2>2. QED
    BY <2>1 DEF DetachErrors, BckError
<1>3. QED
  BY <1>1, <1>2, DeletedKeys DEF ErrorObjects

(* Every command keeps them.                                               *)
LEMMA ErrorObjectsStep ==
    TypeOK /\ References /\ ErrorObjects(bck_errors, bck_objects) /\ [Next]_vars
        => ErrorObjects(bck_errors, bck_objects)'
<1> SUFFICES ASSUME TypeOK, References, ErrorObjects(bck_errors, bck_objects), [Next]_vars
             PROVE  ErrorObjects(bck_errors', bck_objects')
  OBVIOUS
<1>1. ASSUME UNCHANGED bck_errors,
             \A b, o, i : HasRow(bck_objects, b, o, i) => HasRow(bck_objects', b, o, i)
      PROVE  ErrorObjects(bck_errors', bck_objects')
  BY <1>1 DEF ErrorObjects
<1>2. ASSUME UNCHANGED <<bck_errors, bck_objects>>
      PROVE  ErrorObjects(bck_errors', bck_objects')
  BY <1>2 DEF ErrorObjects
<1>3. ASSUME NEW B, DeleteBackupIds(B)
      PROVE  ErrorObjects(bck_errors', bck_objects')
  BY <1>3, DetachedErrorObjects DEF DeleteBackupIds, TypeOK
<1>4. ASSUME NEW l, VolumeCommand(l)
      PROVE  ErrorObjects(bck_errors', bck_objects')
  BY <1>2, <1>4 DEF VolumeCommand, AddVolume, ModifyState, ModifyUsage, RemoveVolume
<1>5. ASSUME NEW b, BackupCommand(b)
      PROVE  ErrorObjects(bck_errors', bck_objects')
  BY <1>2, <1>3, <1>5 DEF BackupCommand, NewBackup, ModifyBackup, RemoveBackup
<1>6. ASSUME NEW b, NEW e, FinishBackup(b, e)
      PROVE  ErrorObjects(bck_errors', bck_objects')
  BY <1>2, <1>6 DEF FinishBackup
<1>7. ASSUME NEW b, NEW o \in ObjName, NEW l \in Label, ObjectCommand(b, o, l)
      PROVE  ErrorObjects(bck_errors', bck_objects')
  <2>1. ASSUME NEW given, StartBackup(b, o, l, given)
        PROVE  ErrorObjects(bck_errors', bck_objects')
    <3>1. PICK i : bck_objects' = InsertBckObject(bck_objects, b, o, i)
      BY <2>1 DEF StartBackup
    <3>2. AddsKey(bck_objects, bck_objects', b, o, i)
      BY <3>1, InsertedKeys
    <3>3. QED
      BY <1>1, <2>1, <3>2 DEF StartBackup, AddsKey
  <2>2. ASSUME NEW i, NEW e, NEW sz, EndBackup(b, o, i, l, e, sz)
        PROVE  ErrorObjects(bck_errors', bck_objects')
    <3>1. PICK total : bck_objects' = EndBckObject(bck_objects, b, o, i, e, total)
      BY <2>2 DEF EndBackup
    <3>2. SameKeys(bck_objects, bck_objects')
      BY <3>1, EndedKeys
    <3>3. QED
      BY <1>1, <2>2, <3>2 DEF EndBackup, SameKeys
  <2>3. ASSUME NEW i \in Instance, ErrBackup(b, o, i, l)
        PROVE  ErrorObjects(bck_errors', bck_objects')
    <3>1. b \in BckId /\ HasRow(vol_obj, b, o, i)
      BY <2>3, CurrentSegments DEF ErrBackup
    <3>2. HasRow(bck_objects, b, o, i)
      BY <3>1 DEF References, Matched
    <3>3. QED
      BY <2>3, <3>1, <3>2, InsertedErrorObjects DEF ErrBackup, TypeOK
  <2>4. ASSUME NEW i, NEW e, NEW sz, ChangeVolumeNoSegment(b, o, i, l) \/ ChangeVolume(b, o, i, l, e, sz)
        PROVE  ErrorObjects(bck_errors', bck_objects')
    BY <1>2, <2>4 DEF ChangeVolumeNoSegment, ChangeVolume
  <2>5. QED
    BY <1>7, <2>1, <2>2, <2>3, <2>4 DEF ObjectCommand
<1>8. ASSUME NEW n, RunExpiration(n)
      PROVE  ErrorObjects(bck_errors', bck_objects')
  BY <1>3, <1>8 DEF RunExpiration
<1>9. CASE Tick \/ UNCHANGED vars
  BY <1>2, <1>9 DEF Tick, vars
<1>10. QED
  BY <1>4, <1>5, <1>6, <1>7, <1>8, <1>9 DEF Next

-----------------------------------------------------------------------------
(* What /verify counts                                                     *)

(* Its queries return finitely many rows.                                  *)
LEMMA FiniteAnswers ==
    ASSUME TypeOK, FiniteTables
    PROVE  /\ IsFiniteSet(DOMAIN bck_errors)
           /\ IsFiniteSet(ErrorsWithoutBackup(bck_errors, backups))
           /\ IsFiniteSet(ErrorsWithoutObject(bck_errors, bck_objects))
           /\ IsFiniteSet(ObjectsWithoutBackup(bck_objects, backups))
           /\ IsFiniteSet(ObjectsWithoutSegment(bck_objects, vol_obj))
           /\ IsFiniteSet(SegmentsWithoutObject(vol_obj, bck_objects))
           /\ IsFiniteSet(SegmentsWithoutVolume(vol_obj, volumes))
           /\ IsFiniteSet(VolumesWithoutSegment(volumes, vol_obj))
           /\ IsFiniteSet(VolumesWithoutBackup(volumes, backups))
<1>1. IsFiniteSet(DOMAIN bck_errors)
  <2>1. DOMAIN bck_errors = 1 .. Len(bck_errors) /\ Len(bck_errors) \in Nat
    BY DEF TypeOK, ErrorTable
  <2>2. QED
    BY <2>1, FS_Interval
<1>2. /\ ErrorsWithoutBackup(bck_errors, backups) \subseteq DOMAIN bck_errors
      /\ ErrorsWithoutObject(bck_errors, bck_objects) \subseteq DOMAIN bck_errors
  BY DEF ErrorsWithoutBackup, ErrorsWithoutObject
<1>3. /\ ObjectsWithoutBackup(bck_objects, backups) \subseteq bck_objects
      /\ ObjectsWithoutSegment(bck_objects, vol_obj) \subseteq bck_objects
  BY DEF ObjectsWithoutBackup, ObjectsWithoutSegment, Unmatched
<1>4. /\ SegmentsWithoutObject(vol_obj, bck_objects) \subseteq vol_obj
      /\ SegmentsWithoutVolume(vol_obj, volumes) \subseteq vol_obj
  BY DEF SegmentsWithoutObject, SegmentsWithoutVolume, Unmatched
<1>5. /\ VolumesWithoutSegment(volumes, vol_obj) \subseteq DOMAIN volumes
      /\ VolumesWithoutBackup(volumes, backups) \subseteq DOMAIN volumes
  BY DEF VolumesWithoutSegment, VolumesWithoutBackup
<1>6. IsFiniteSet(vol_obj)
  BY DEF TypeOK, VolObjTable
<1>7. QED
  BY <1>1, <1>2, <1>3, <1>4, <1>5, <1>6, FS_Subset DEF FiniteTables

(* An answer that counts 0 rows is empty.                                  *)
LEMMA NoRows ==
    ASSUME NEW rows, IsFiniteSet(rows)
    PROVE  /\ Cardinality(rows) \in Nat
           /\ Cardinality(rows) = 0 <=> rows = {}
  BY FS_CardinalityType, FS_EmptySet

(* The alarms on a catalogue that keeps the references and the ownership.  *)
LEMMA AlarmsExplained ==
    ASSUME TypeOK, FiniteTables, Ownership, References,
           ErrorObjects(bck_errors, bck_objects), NullRow \notin Label
    PROVE  VerifyAlarmsAreExplained
<1>1. ErrorsWithoutBackup(bck_errors, backups) = {}
  <2>1. \A k \in DOMAIN bck_errors : bck_errors[k].bck_id \in DOMAIN backups \cup {0}
    BY DEF References, ErrorsKept
  <2>2. QED
    BY <2>1 DEF ErrorsWithoutBackup
<1>2. ErrorsWithoutObject(bck_errors, bck_objects) = {k \in DOMAIN bck_errors : bck_errors[k].bck_id = 0}
  <2>1. \A r \in bck_objects : r.bck_id # 0
    BY CatalogAssumption DEF TypeOK, ObjectTable
  <2>2. QED
    BY <2>1 DEF ErrorsWithoutObject, ErrorObjects, HasRow, IsOf
<1>3. /\ ObjectsWithoutBackup(bck_objects, backups) = {}
      /\ ObjectsWithoutSegment(bck_objects, vol_obj) = {}
      /\ SegmentsWithoutObject(vol_obj, bck_objects) = {}
  <2>1. SegmentsHaveObjects /\ ObjectsHaveSegments /\ ObjectsHaveBackups
    BY ReferencesAreKeys DEF References
  <2>2. QED
    BY <2>1 DEF ObjectsWithoutBackup, ObjectsWithoutSegment, SegmentsWithoutObject, Unmatched,
                SegmentsHaveObjects, ObjectsHaveSegments, ObjectsHaveBackups
<1>4. SegmentsWithoutVolume(vol_obj, volumes) = {}
  \* A segment's own volume is in the join, so no row of nulls is added.
  <2>1. \A s \in vol_obj : s.label \in {l \in DOMAIN volumes : volumes[l].bck_id = s.bck_id}
    BY DEF Ownership, Owned
  <2>2. NullRow \notin DOMAIN volumes
    BY DEF TypeOK, VolumeTable
  <2>3. QED
    BY <2>1, <2>2 DEF SegmentsWithoutVolume
<1> DEFINE owned == {l \in DOMAIN volumes : volumes[l].bck_id # 0}
<1>5. \A l \in DOMAIN volumes : volumes[l].bck_id > 0 <=> volumes[l].bck_id # 0
  BY CatalogAssumption DEF TypeOK, VolumeTable, Volume
<1>6. VolumesWithoutSegment(volumes, vol_obj) = {l \in owned : \A s \in vol_obj : s.label # l}
  BY <1>5 DEF VolumesWithoutSegment, Ownership, Owned
<1>7. VolumesWithoutBackup(volumes, backups) = {l \in owned : volumes[l].bck_id \notin DOMAIN backups}
  BY <1>5 DEF VolumesWithoutBackup
<1>8. Cardinality({}) = 0
  BY FS_EmptySet
<1>9. /\ Cardinality(ErrorsWithoutObject(bck_errors, bck_objects)) \in Nat
      /\ Cardinality(VolumesWithoutSegment(volumes, vol_obj)) \in Nat
      /\ Cardinality(VolumesWithoutBackup(volumes, backups)) \in Nat
  BY FiniteAnswers, NoRows
<1>10. Total = Cardinality(ErrorsWithoutObject(bck_errors, bck_objects))
               + Cardinality(VolumesWithoutSegment(volumes, vol_obj))
               + Cardinality(VolumesWithoutBackup(volumes, backups))
  BY <1>1, <1>3, <1>4, <1>8, <1>9 DEF Total, TotalErrors
<1>11. QED
  BY <1>2, <1>6, <1>7, <1>10 DEF VerifyAlarmsAreExplained

(* While commands run one after the other /verify reports only the history *)
(* of removed backups and volumes that were claimed for no segment.  (No   *)
(* label is SQL's null.)                                                   *)
THEOREM AlarmsAreExplained ==
    ASSUME NullRow \notin Label
    PROVE  Spec => []VerifyAlarmsAreExplained
<1> DEFINE Inv == /\ TypeOK /\ FiniteTables /\ Ownership /\ References
                  /\ ErrorObjects(bck_errors, bck_objects)
<1>1. Init => Inv
  <2>1. Init => FiniteTables /\ ErrorObjects(bck_errors, bck_objects)
    BY FS_EmptySet DEF Init, FiniteTables, ErrorObjects
  <2>2. QED
    BY <2>1, InitTypeOK, InitOwnership, InitReferences
<1>2. Inv /\ [Next]_vars => Inv'
  BY TypeStep, FiniteStep, OwnershipStep, ReferencesStep, ErrorObjectsStep
<1>3. Inv => VerifyAlarmsAreExplained
  BY AlarmsExplained
<1>4. QED
  BY <1>1, <1>2, <1>3, PTL DEF Spec

-----------------------------------------------------------------------------
(* The objects a report goes through                                       *)

(* The schema's unique index: one row for every instance of an object.     *)
UniqueObjects(objs) ==
    \A q, r \in objs : IsOf(q, r.bck_id, r.objname, r.obj_instance) => q = r

(* An object that has ended has a segment that has.                        *)
EndedHaveSegment(objs, segs) ==
    \A r \in objs :
        r.end # 0 => \E t \in segs : IsOf(t, r.bck_id, r.objname, r.obj_instance) /\ t.end # 0

(* The statements keep the index.                                          *)
LEMMA UniqueKept ==
    ASSUME NEW objs, UniqueObjects(objs)
    PROVE  /\ \A b, o, i : UniqueObjects(InsertBckObject(objs, b, o, i))
           /\ \A b, o, i, e, total : UniqueObjects(EndBckObject(objs, b, o, i, e, total))
           /\ \A B : UniqueObjects(DeleteRows(objs, B))
<1>1. ASSUME NEW b, NEW o, NEW i
      PROVE  UniqueObjects(InsertBckObject(objs, b, o, i))
  <2> DEFINE row == ObjectRow(b, o, i, 0, 0)
  <2>1. row.bck_id = b /\ row.objname = o /\ row.obj_instance = i
    BY DEF ObjectRow
  <2>2. InsertBckObject(objs, b, o, i) = IF \E r \in objs : IsOf(r, b, o, i) THEN objs ELSE objs \cup {row}
    BY DEF InsertBckObject
  <2> HIDE DEF row
  <2>3. QED
    BY <2>1, <2>2 DEF UniqueObjects, IsOf
<1>2. ASSUME NEW b, NEW o, NEW i, NEW e, NEW total
      PROVE  UniqueObjects(EndBckObject(objs, b, o, i, e, total))
  <2> DEFINE ended(r) == IF IsOf(r, b, o, i) /\ r.end = 0 THEN ObjectRow(b, o, i, e, total) ELSE r
  <2>1. \A r : /\ ended(r).bck_id = r.bck_id /\ ended(r).objname = r.objname
               /\ ended(r).obj_instance = r.obj_instance
    BY DEF IsOf, ObjectRow
  <2>2. EndBckObject(objs, b, o, i, e, total) = {ended(r) : r \in objs}
    BY DEF EndBckObject
  <2> HIDE DEF ended
  <2>3. QED
    BY <2>1, <2>2 DEF UniqueObjects, IsOf
<1>3. ASSUME NEW B
      PROVE  UniqueObjects(DeleteRows(objs, B))
  BY DEF UniqueObjects, DeleteRows
<1>4. QED
  BY <1>1, <1>2, <1>3

(* What a command does to bck_objects: nothing, or one of three statements. *)
LEMMA ObjectsChange ==
    [Next]_vars =>
        \/ UNCHANGED bck_objects
        \/ \E b, o, i : bck_objects' = InsertBckObject(bck_objects, b, o, i)
        \/ \E b, o, i, l, sz : \E e \in Time : EndBackup(b, o, i, l, e, sz)
        \/ \E B : bck_objects' = DeleteRows(bck_objects, B)
<1> DEFINE Changed == \/ UNCHANGED bck_objects
                      \/ \E b, o, i : bck_objects' = InsertBckObject(bck_objects, b, o, i)
                      \/ \E b, o, i, l, sz : \E e \in Time : EndBackup(b, o, i, l, e, sz)
                      \/ \E B : bck_objects' = DeleteRows(bck_objects, B)
<1> SUFFICES ASSUME [Next]_vars
             PROVE  Changed
  OBVIOUS
<1>1. ASSUME NEW l, VolumeCommand(l)
      PROVE  Changed
  BY <1>1 DEF VolumeCommand, AddVolume, ModifyState, ModifyUsage, RemoveVolume
<1>2. ASSUME NEW b, BackupCommand(b)
      PROVE  Changed
  BY <1>2 DEF BackupCommand, NewBackup, ModifyBackup, RemoveBackup, DeleteBackupIds
<1>3. ASSUME NEW b, NEW e, FinishBackup(b, e)
      PROVE  Changed
  BY <1>3 DEF FinishBackup
<1>4. ASSUME NEW b, NEW o, NEW l, ObjectCommand(b, o, l)
      PROVE  Changed
  <2>1. ASSUME NEW given, StartBackup(b, o, l, given)
        PROVE  Changed
    BY <2>1 DEF StartBackup
  <2>2. ASSUME NEW i, NEW e, NEW sz,
               \/ ChangeVolumeNoSegment(b, o, i, l) \/ ErrBackup(b, o, i, l)
               \/ ChangeVolume(b, o, i, l, e, sz)
        PROVE  Changed
    BY <2>2 DEF ChangeVolumeNoSegment, ChangeVolume, ErrBackup
  <2>3. ASSUME NEW i, NEW e \in Time, NEW sz, EndBackup(b, o, i, l, e, sz)
        PROVE  Changed
    BY <2>3
  <2> HIDE DEF Changed
  <2>4. QED
    BY <1>4, <2>1, <2>2, <2>3 DEF ObjectCommand
<1>5. ASSUME NEW n, RunExpiration(n)
      PROVE  Changed
  BY <1>5 DEF RunExpiration, DeleteBackupIds
<1>6. CASE Tick \/ UNCHANGED vars
  BY <1>6 DEF Tick, vars
<1> HIDE DEF Changed
<1>7. QED
  BY <1>1, <1>2, <1>3, <1>4, <1>5, <1>6 DEF Next

(* So every command keeps the index.                                       *)
LEMMA UniqueStep == UniqueObjects(bck_objects) /\ [Next]_vars => UniqueObjects(bck_objects)'
<1> SUFFICES ASSUME UniqueObjects(bck_objects), [Next]_vars
             PROVE  UniqueObjects(bck_objects')
  OBVIOUS
<1>1. ASSUME NEW b, NEW o, NEW i, NEW l, NEW e, NEW sz, EndBackup(b, o, i, l, e, sz)
      PROVE  UniqueObjects(bck_objects')
  <2>1. PICK total : bck_objects' = EndBckObject(bck_objects, b, o, i, e, total)
    BY <1>1 DEF EndBackup
  <2>2. QED
    BY <2>1, UniqueKept
<1>2. QED
  BY <1>1, ObjectsChange, UniqueKept

(* Ending an object ends the segment of it that was open.                  *)
LEMMA EndEndsBoth ==
    ASSUME NEW b, NEW o, NEW i, NEW l, NEW e, NEW sz, EndBackup(b, o, i, l, e, sz)
    PROVE  /\ \A r \in bck_objects' : r \in bck_objects \/ IsOf(r, b, o, i)
           /\ \E t \in vol_obj' : IsOf(t, b, o, i) /\ t.end = e
<1>1. PICK s \in vol_obj : IsOf(s, b, o, i) /\ s.end = 0 /\ s.label = l
  BY DEF EndBackup, CurrentVolObjs
<1>2. SegmentRow(b, o, i, l, s.fileno, e, sz) \in vol_obj'
  BY <1>1 DEF EndBackup, EndVolObj
<1>3. \E t \in vol_obj' : IsOf(t, b, o, i) /\ t.end = e
  BY <1>2 DEF SegmentRow, IsOf
<1>4. PICK total : bck_objects' = EndBckObject(bck_objects, b, o, i, e, total)
  BY DEF EndBackup
<1>5. IsOf(ObjectRow(b, o, i, e, total), b, o, i)
  BY DEF ObjectRow, IsOf
<1>6. \A r \in bck_objects' : r \in bck_objects \/ IsOf(r, b, o, i)
  BY <1>4, <1>5 DEF EndBckObject
<1>7. QED
  BY <1>3, <1>6

(* An ended segment stays as long as its backup, so ended objects keep one. *)
LEMMA EndedStep ==
    TypeOK /\ References /\ EndedHaveSegment(bck_objects, vol_obj) /\ [Next]_vars
        => EndedHaveSegment(bck_objects, vol_obj)'
<1> SUFFICES ASSUME TypeOK, References, EndedHaveSegment(bck_objects, vol_obj), [Next]_vars,
                    NEW r \in bck_objects', r.end # 0
             PROVE  \E t \in vol_obj' : IsOf(t, r.bck_id, r.objname, r.obj_instance) /\ t.end # 0
  BY DEF EndedHaveSegment
<1>1. ASSUME r \in bck_objects
      PROVE  \E t \in vol_obj' : IsOf(t, r.bck_id, r.objname, r.obj_instance) /\ t.end # 0
  <2>1. PICK t \in vol_obj : IsOf(t, r.bck_id, r.objname, r.obj_instance) /\ t.end # 0
    BY <1>1 DEF EndedHaveSegment
  <2>2. r.bck_id \in DOMAIN backups'
    <3>1. HasRow(bck_objects', r.bck_id, r.objname, r.obj_instance)
      BY DEF HasRow, IsOf
    <3>2. QED
      BY <3>1, ReferencesStep DEF References, ObjectsKept
  <2>3. t \in vol_obj'
    BY <2>1, <2>2, HistoryStep DEF HistoryKept, Gone, IsOf
  <2>4. QED
    BY <2>1, <2>3
<1>2. ASSUME NEW b, NEW o, NEW i, bck_objects' = InsertBckObject(bck_objects, b, o, i)
      PROVE  r \in bck_objects
  <2>1. ObjectRow(b, o, i, 0, 0).end = 0
    BY DEF ObjectRow
  <2>2. QED
    BY <1>2, <2>1 DEF InsertBckObject
<1>3. ASSUME NEW B, bck_objects' = DeleteRows(bck_objects, B)
      PROVE  r \in bck_objects
  BY <1>3 DEF DeleteRows
<1>4. ASSUME NEW b, NEW o, NEW i, NEW l, NEW e \in Time, NEW sz, EndBackup(b, o, i, l, e, sz)
      PROVE  \E t \in vol_obj' : IsOf(t, r.bck_id, r.objname, r.obj_instance) /\ t.end # 0
  <2>1. e # 0
    BY CatalogAssumption
  <2>2. QED
    BY <1>1, <1>4, <2>1, EndEndsBoth DEF IsOf
<1>5. QED
  BY <1>1, <1>2, <1>3, <1>4, ObjectsChange

-----------------------------------------------------------------------------
(* The invariant of the catalogues a report is made of                     *)

Reportable ==
    /\ TypeOK /\ FiniteTables /\ Ownership /\ References
    /\ ErrorObjects(bck_errors, bck_objects)
    /\ UniqueObjects(bck_objects)
    /\ EndedHaveSegment(bck_objects, vol_obj)

(* The empty catalogue is one, and every command makes another.            *)
LEMMA ReportableHolds == (Init => Reportable) /\ (Reportable /\ [Next]_vars => Reportable')
<1>1. Init => Reportable
  <2>1. Init => /\ FiniteTables /\ ErrorObjects(bck_errors, bck_objects)
                /\ UniqueObjects(bck_objects) /\ EndedHaveSegment(bck_objects, vol_obj)
    BY FS_EmptySet DEF Init, FiniteTables, ErrorObjects, UniqueObjects, EndedHaveSegment
  <2>2. QED
    BY <2>1, InitTypeOK, InitOwnership, InitReferences DEF Reportable
<1>2. Reportable /\ [Next]_vars => Reportable'
  <2>1. ASSUME Reportable, [Next]_vars
        PROVE  /\ UniqueObjects(bck_objects') /\ EndedHaveSegment(bck_objects', vol_obj')
               /\ ErrorObjects(bck_errors', bck_objects')
    BY <2>1, UniqueStep, EndedStep, ErrorObjectsStep DEF Reportable
  <2>2. QED
    BY <2>1, TypeStep, FiniteStep, OwnershipStep, ReferencesStep DEF Reportable
<1>3. QED
  BY <1>1, <1>2

(* Once /errcount finds every object of a backup ended, so is some segment  *)
(* of each of them.                                                         *)
LEMMA CompleteBackups == Reportable => CompleteIsClosed
<1> SUFFICES ASSUME Reportable, NEW s \in vol_obj, CountNotSet(s.bck_id) = 0
             PROVE  \E t \in vol_obj : IsOf(t, s.bck_id, s.objname, s.obj_instance) /\ t.end # 0
  BY DEF CompleteIsClosed
<1> DEFINE open == {r \in ObjectsOf(s.bck_id) : r.end = 0}
           unset == {c \in DOMAIN backups : c = s.bck_id /\ backups[c].end = 0}
<1>1. IsFiniteSet(open) /\ IsFiniteSet(unset)
  <2>1. open \subseteq bck_objects /\ unset \subseteq {s.bck_id}
    BY DEF ObjectsOf
  <2>2. IsFiniteSet({s.bck_id})
    BY FS_Singleton
  <2>3. QED
    BY <2>1, <2>2, FS_Subset DEF Reportable, FiniteTables
<1>2. CountNotSet(s.bck_id) = Cardinality(unset) + Cardinality(open)
  BY DEF CountNotSet
<1> HIDE DEF open, unset
<1>3. open = {}
  BY <1>1, <1>2, NoRows
<1>4. PICK r \in bck_objects : IsOf(r, s.bck_id, s.objname, s.obj_instance)
  BY DEF Reportable, References, Matched, HasRow, IsOf
<1>5. r.end # 0
  BY <1>3, <1>4 DEF open, ObjectsOf, IsOf
<1>6. QED
  BY <1>4, <1>5 DEF Reportable, EndedHaveSegment, IsOf

-----------------------------------------------------------------------------
(* The sums of a report                                                    *)

(* A function that adds up as IsSum says has the sum at X.                 *)
LEMMA ThatIsTheSum ==
    ASSUME NEW X, IsFiniteSet(X), NEW f, NEW g, IsSum(X, f, g)
    PROVE  g[X] = SumOf(X, f)
<1>1. IsSum(X, f, SumsOver(X, f))
  BY SumExists DEF SumsOver
<1>2. QED
  BY <1>1, SumsAgree DEF SumOf

(* The five totals of Reports are such sums: gtot_bytes,                   *)
LEMMA ObjectBytesAreSum ==
    ASSUME NEW b, IsFiniteSet(ObjectsOf(b))
    PROVE  MapThenSumSet(LAMBDA r : BytesOf(SegmentsOf(r)), ObjectsOf(b))
               = SumOf(ObjectsOf(b), [r \in ObjectsOf(b) |-> BytesOf(SegmentsOf(r))])
<1> DEFINE X == ObjectsOf(b)
           f == [r \in X |-> BytesOf(SegmentsOf(r))]
           P(g) == g = [Y \in SUBSET X |-> IF Y = {} THEN 0
                        ELSE LET x == CHOOSE x \in Y : TRUE IN BytesOf(SegmentsOf(x)) + g[Y \ {x}]]
           m == CHOOSE g : P(g)
<1>1. ASSUME NEW g
      PROVE  P(g) <=> IsSum(X, f, g)
  <2>1. \A Y \in SUBSET X : Y # {} => f[First(Y)] = BytesOf(SegmentsOf(First(Y)))
    BY FirstIn
  <2>2. QED
    BY <2>1 DEF IsSum, First
<1>2. MapThenSumSet(LAMBDA r : BytesOf(SegmentsOf(r)), ObjectsOf(b)) = m[X]
  BY DEF MapThenSumSet, MapThenFoldSet
<1>3. IsSum(X, f, m)
  <2> HIDE DEF P, f, X
  <2>1. \E g : P(g)
    BY <1>1, SumExists DEF X
  <2>2. P(m)
    BY <2>1
  <2>3. QED
    BY <1>1, <2>2
<1>4. QED
  BY <1>2, <1>3, ThatIsTheSum

(* ... the files of its objects,                                           *)
LEMMA ObjectFilesAreSum ==
    ASSUME NEW b, IsFiniteSet(ObjectsOf(b))
    PROVE  MapThenSumSet(LAMBDA r : Cardinality(SegmentsOf(r)), ObjectsOf(b))
               = SumOf(ObjectsOf(b), [r \in ObjectsOf(b) |-> Cardinality(SegmentsOf(r))])
<1> DEFINE X == ObjectsOf(b)
           f == [r \in X |-> Cardinality(SegmentsOf(r))]
           P(g) == g = [Y \in SUBSET X |-> IF Y = {} THEN 0
                        ELSE LET x == CHOOSE x \in Y : TRUE IN Cardinality(SegmentsOf(x)) + g[Y \ {x}]]
           m == CHOOSE g : P(g)
<1>1. ASSUME NEW g
      PROVE  P(g) <=> IsSum(X, f, g)
  <2>1. \A Y \in SUBSET X : Y # {} => f[First(Y)] = Cardinality(SegmentsOf(First(Y)))
    BY FirstIn
  <2>2. QED
    BY <2>1 DEF IsSum, First
<1>2. MapThenSumSet(LAMBDA r : Cardinality(SegmentsOf(r)), ObjectsOf(b)) = m[X]
  BY DEF MapThenSumSet, MapThenFoldSet
<1>3. IsSum(X, f, m)
  <2> HIDE DEF P, f, X
  <2>1. \E g : P(g)
    BY <1>1, SumExists DEF X
  <2>2. P(m)
    BY <2>1
  <2>3. QED
    BY <1>1, <2>2
<1>4. QED
  BY <1>2, <1>3, ThatIsTheSum

(* ... the bytes of the tape summary,                                      *)
LEMMA VolumeBytesAreSum ==
    ASSUME NEW b, IsFiniteSet(VolumesOf(b))
    PROVE  MapThenSumSet(LAMBDA l : BytesOf(SegmentsOn(b, l)), VolumesOf(b))
               = SumOf(VolumesOf(b), [l \in VolumesOf(b) |-> BytesOf(SegmentsOn(b, l))])
<1> DEFINE X == VolumesOf(b)
           f == [l \in X |-> BytesOf(SegmentsOn(b, l))]
           P(g) == g = [Y \in SUBSET X |-> IF Y = {} THEN 0
                        ELSE LET x == CHOOSE x \in Y : TRUE IN BytesOf(SegmentsOn(b, x)) + g[Y \ {x}]]
           m == CHOOSE g : P(g)
<1>1. ASSUME NEW g
      PROVE  P(g) <=> IsSum(X, f, g)
  <2>1. \A Y \in SUBSET X : Y # {} => f[First(Y)] = BytesOf(SegmentsOn(b, First(Y)))
    BY FirstIn
  <2>2. QED
    BY <2>1 DEF IsSum, First
<1>2. MapThenSumSet(LAMBDA l : BytesOf(SegmentsOn(b, l)), VolumesOf(b)) = m[X]
  BY DEF MapThenSumSet, MapThenFoldSet
<1>3. IsSum(X, f, m)
  <2> HIDE DEF P, f, X
  <2>1. \E g : P(g)
    BY <1>1, SumExists DEF X
  <2>2. P(m)
    BY <2>1
  <2>3. QED
    BY <1>1, <2>2
<1>4. QED
  BY <1>2, <1>3, ThatIsTheSum

(* ... the #Files of /display,                                             *)
LEMMA VolumeFilesAreSum ==
    ASSUME NEW b, IsFiniteSet(VolumesOf(b))
    PROVE  MapThenSumSet(LAMBDA l : CountVolObjLabel(vol_obj, b, l), VolumesOf(b))
               = SumOf(VolumesOf(b), [l \in VolumesOf(b) |-> CountVolObjLabel(vol_obj, b, l)])
<1> DEFINE X == VolumesOf(b)
           f == [l \in X |-> CountVolObjLabel(vol_obj, b, l)]
           P(g) == g = [Y \in SUBSET X |-> IF Y = {} THEN 0
                        ELSE LET x == CHOOSE x \in Y : TRUE IN CountVolObjLabel(vol_obj, b, x) + g[Y \ {x}]]
           m == CHOOSE g : P(g)
<1>1. ASSUME NEW g
      PROVE  P(g) <=> IsSum(X, f, g)
  <2>1. \A Y \in SUBSET X : Y # {} => f[First(Y)] = CountVolObjLabel(vol_obj, b, First(Y))
    BY FirstIn
  <2>2. QED
    BY <2>1 DEF IsSum, First
<1>2. MapThenSumSet(LAMBDA l : CountVolObjLabel(vol_obj, b, l), VolumesOf(b)) = m[X]
  BY DEF MapThenSumSet, MapThenFoldSet
<1>3. IsSum(X, f, m)
  <2> HIDE DEF P, f, X
  <2>1. \E g : P(g)
    BY <1>1, SumExists DEF X
  <2>2. P(m)
    BY <2>1
  <2>3. QED
    BY <1>1, <2>2
<1>4. QED
  BY <1>2, <1>3, ThatIsTheSum

(* ... and gtot_errs, for any choice of the segments read last.            *)
LEMMA ErrorsAreSum ==
    ASSUME NEW b, NEW last, IsFiniteSet(ObjectsOf(b))
    PROVE  MapThenSumSet(LAMBDA r : Cardinality(ErrorsOn(last[r])), ObjectsOf(b))
               = SumOf(ObjectsOf(b), [r \in ObjectsOf(b) |-> Cardinality(ErrorsOn(last[r]))])
<1> DEFINE X == ObjectsOf(b)
           f == [r \in X |-> Cardinality(ErrorsOn(last[r]))]
           P(g) == g = [Y \in SUBSET X |-> IF Y = {} THEN 0
                        ELSE LET x == CHOOSE x \in Y : TRUE IN Cardinality(ErrorsOn(last[x])) + g[Y \ {x}]]
           m == CHOOSE g : P(g)
<1>1. ASSUME NEW g
      PROVE  P(g) <=> IsSum(X, f, g)
  <2>1. \A Y \in SUBSET X : Y # {} => f[First(Y)] = Cardinality(ErrorsOn(last[First(Y)]))
    BY FirstIn
  <2>2. QED
    BY <2>1 DEF IsSum, First
<1>2. MapThenSumSet(LAMBDA r : Cardinality(ErrorsOn(last[r])), ObjectsOf(b)) = m[X]
  BY DEF MapThenSumSet, MapThenFoldSet
<1>3. IsSum(X, f, m)
  <2> HIDE DEF P, f, X
  <2>1. \E g : P(g)
    BY <1>1, SumExists DEF X
  <2>2. P(m)
    BY <2>1
  <2>3. QED
    BY <1>1, <2>2
<1>4. QED
  BY <1>2, <1>3, ThatIsTheSum

-----------------------------------------------------------------------------
(* The two halves of a report                                              *)

SegmentsIn(b) == {s \in vol_obj : s.bck_id = b}

Sizes(b) == [s \in SegmentsIn(b) |-> s.size]

Ones(b) == [s \in SegmentsIn(b) |-> 1]

(* The object row a segment or an error belongs to.                        *)
Owner(q) == CHOOSE r \in bck_objects : IsOf(q, r.bck_id, r.objname, r.obj_instance)

(* With a unique index that is the only row with its key.                  *)
LEMMA OwnerIsUnique ==
    ASSUME UniqueObjects(bck_objects),
           NEW q, NEW r \in bck_objects, IsOf(q, r.bck_id, r.objname, r.obj_instance)
    PROVE  Owner(q) = r
<1>1. /\ Owner(q) \in bck_objects
      /\ IsOf(q, Owner(q).bck_id, Owner(q).objname, Owner(q).obj_instance)
  BY DEF Owner
<1>2. QED
  BY <1>1 DEF UniqueObjects, IsOf

(* What a report goes through is finite, and bytes are numbers.            *)
LEMMA ReportIsFinite ==
    ASSUME Reportable, NEW b
    PROVE  /\ IsFiniteSet(SegmentsIn(b)) /\ Numbers(SegmentsIn(b), Sizes(b)) /\ Numbers(SegmentsIn(b), Ones(b))
           /\ IsFiniteSet(ObjectsOf(b)) /\ IsFiniteSet(VolumesOf(b))
<1>1. /\ SegmentsIn(b) \subseteq vol_obj /\ ObjectsOf(b) \subseteq bck_objects
      /\ VolumesOf(b) \subseteq DOMAIN volumes
  BY DEF SegmentsIn, ObjectsOf, VolumesOf
<1>2. IsFiniteSet(vol_obj) /\ IsFiniteSet(bck_objects) /\ IsFiniteSet(DOMAIN volumes)
  BY DEF Reportable, TypeOK, VolObjTable, FiniteTables
<1>3. ASSUME NEW s \in SegmentsIn(b)
      PROVE  Sizes(b)[s] \in Nat /\ Ones(b)[s] \in Nat
  <2>1. s \in VolObj
    BY <1>1 DEF Reportable, TypeOK, VolObjTable
  <2>2. Size \cup {0} \subseteq Nat
    BY CatalogAssumption
  <2>3. s.size \in Nat
    BY <2>1, <2>2 DEF VolObj
  <2>4. QED
    BY <2>3 DEF Sizes, Ones
<1>4. QED
  BY <1>1, <1>2, <1>3, FS_Subset DEF Numbers

(* The bytes and the number of some segments of a backup are sums too.     *)
LEMMA PartsAreSums ==
    ASSUME Reportable, NEW b, NEW X \in SUBSET SegmentsIn(b)
    PROVE  BytesOf(X) = SumOf(X, Sizes(b)) /\ Cardinality(X) = SumOf(X, Ones(b))
<1>1. IsFiniteSet(X) /\ Numbers(X, Sizes(b))
  BY ReportIsFinite, FS_Subset DEF Numbers
<1> DEFINE sizes == [s \in X |-> s.size]
<1>2. \A s \in X : sizes[s] = Sizes(b)[s] /\ Ones(b)[s] = 1
  BY DEF Sizes, Ones
<1>3. BytesOf(X) = SumOf(X, sizes)
  BY <1>1, SizesAreSum DEF BytesOf
<1> HIDE DEF sizes
<1>4. SumOf(X, sizes) = SumOf(X, Sizes(b))
  BY <1>1, <1>2, SumSame
<1>5. Cardinality(X) = SumOf(X, Ones(b))
  BY <1>1, <1>2, SumOfOnes
<1>6. QED
  BY <1>3, <1>4, <1>5

(* A sum over classes that are the fibres of h is one over the segments.   *)
LEMMA PartsAddUp ==
    ASSUME Reportable, NEW b, NEW Y, IsFiniteSet(Y), NEW h,
           \A s \in SegmentsIn(b) : h[s] \in Y
    PROVE  /\ SumOf(Y, [y \in Y |-> BytesOf(Fibre(SegmentsIn(b), h, y))])
                  = SumOf(SegmentsIn(b), Sizes(b))
           /\ SumOf(Y, [y \in Y |-> Cardinality(Fibre(SegmentsIn(b), h, y))])
                  = SumOf(SegmentsIn(b), Ones(b))
<1> DEFINE X == SegmentsIn(b)
<1>1. \A y \in Y : /\ BytesOf(Fibre(X, h, y)) = SumOf(Fibre(X, h, y), Sizes(b))
                   /\ Cardinality(Fibre(X, h, y)) = SumOf(Fibre(X, h, y), Ones(b))
  BY PartsAreSums DEF Fibre
<1>2. /\ [y \in Y |-> BytesOf(Fibre(X, h, y))] = [y \in Y |-> SumOf(Fibre(X, h, y), Sizes(b))]
      /\ [y \in Y |-> Cardinality(Fibre(X, h, y))] = [y \in Y |-> SumOf(Fibre(X, h, y), Ones(b))]
  BY <1>1
<1>3. IsFiniteSet(X) /\ Numbers(X, Sizes(b)) /\ Numbers(X, Ones(b))
  BY ReportIsFinite
<1>4. SumOf(Y, [y \in Y |-> SumOf(Fibre(X, h, y), Sizes(b))]) = SumOf(X, Sizes(b))
  <2> HIDE DEF X
  <2>1. \A s \in X : h[s] \in Y
    BY DEF X
  <2>2. QED
    BY <1>3, <2>1, SumFibres
<1>5. SumOf(Y, [y \in Y |-> SumOf(Fibre(X, h, y), Ones(b))]) = SumOf(X, Ones(b))
  <2> HIDE DEF X
  <2>1. \A s \in X : h[s] \in Y
    BY DEF X
  <2>2. QED
    BY <1>3, <2>1, SumFibres
<1>6. QED
  BY <1>2, <1>4, <1>5

(* The first half adds up the segments of the backup, object by object.    *)
LEMMA ObjectsAddUp ==
    ASSUME Reportable, NEW b
    PROVE  /\ ReportedBytes(b) = SumOf(SegmentsIn(b), Sizes(b))
           /\ ReportedFiles(b) = SumOf(SegmentsIn(b), Ones(b))
<1> DEFINE Y == ObjectsOf(b)
           h == [s \in SegmentsIn(b) |-> Owner(s)]
<1>1. \A s \in SegmentsIn(b) : \E r \in Y : IsOf(s, r.bck_id, r.objname, r.obj_instance)
  BY DEF Reportable, References, Matched, HasRow, IsOf, SegmentsIn, ObjectsOf
<1>2. \A s \in SegmentsIn(b) : h[s] \in Y
  BY <1>1, OwnerIsUnique DEF Reportable, ObjectsOf
<1>3. \A r \in Y : SegmentsOf(r) = Fibre(SegmentsIn(b), h, r)
  <2>1. ASSUME NEW r \in Y, NEW s
        PROVE  s \in SegmentsOf(r) <=> s \in Fibre(SegmentsIn(b), h, r)
    <3>1. r \in bck_objects /\ r.bck_id = b
      BY DEF ObjectsOf
    <3>2. s \in SegmentsOf(r) => s \in SegmentsIn(b) /\ h[s] = r
      BY <3>1, OwnerIsUnique DEF Reportable, SegmentsOf, SegmentsIn, IsOf
    <3>3. ASSUME s \in SegmentsIn(b), h[s] = r
          PROVE  s \in SegmentsOf(r)
      <4>1. PICK q \in Y : IsOf(s, q.bck_id, q.objname, q.obj_instance)
        BY <1>1, <3>3
      <4>2. q = r
        BY <3>3, <4>1, OwnerIsUnique DEF Reportable, ObjectsOf
      <4>3. QED
        BY <3>3, <4>1, <4>2 DEF SegmentsOf, SegmentsIn
    <3>4. QED
      BY <3>2, <3>3 DEF Fibre
  <2>2. QED
    BY <2>1
<1>4. IsFiniteSet(Y)
  BY ReportIsFinite
<1>5. /\ ReportedBytes(b) = SumOf(Y, [r \in Y |-> BytesOf(SegmentsOf(r))])
      /\ ReportedFiles(b) = SumOf(Y, [r \in Y |-> Cardinality(SegmentsOf(r))])
  BY <1>4, ObjectBytesAreSum, ObjectFilesAreSum DEF ReportedBytes, ReportedFiles
<1> HIDE DEF Y, h
<1>6. /\ [r \in Y |-> BytesOf(SegmentsOf(r))] = [r \in Y |-> BytesOf(Fibre(SegmentsIn(b), h, r))]
      /\ [r \in Y |-> Cardinality(SegmentsOf(r))] = [r \in Y |-> Cardinality(Fibre(SegmentsIn(b), h, r))]
  BY <1>3
<1>7. QED
  BY <1>2, <1>4, <1>5, <1>6, PartsAddUp

(* The second half adds up the same, volume by volume: every segment is on *)
(* a volume of its backup.                                                 *)
LEMMA VolumesAddUp ==
    ASSUME Reportable, NEW b
    PROVE  /\ SummaryBytes(b) = SumOf(SegmentsIn(b), Sizes(b))
           /\ DisplayedFiles(b) = SumOf(SegmentsIn(b), Ones(b))
<1> DEFINE Y == VolumesOf(b)
           h == [s \in SegmentsIn(b) |-> s.label]
<1>1. \A s \in SegmentsIn(b) : h[s] \in Y
  BY DEF Reportable, Ownership, Owned, SegmentsIn, VolumesOf
<1>2. \A l \in Y : /\ SegmentsOn(b, l) = Fibre(SegmentsIn(b), h, l)
                   /\ CountVolObjLabel(vol_obj, b, l) = Cardinality(Fibre(SegmentsIn(b), h, l))
  <2>1. \A l \in Y : SegmentsOn(b, l) = Fibre(SegmentsIn(b), h, l)
    BY DEF SegmentsOn, Fibre, SegmentsIn
  <2>2. QED
    BY <2>1 DEF CountVolObjLabel, SegmentsOn
<1>3. IsFiniteSet(Y)
  BY ReportIsFinite
<1>4. /\ SummaryBytes(b) = SumOf(Y, [l \in Y |-> BytesOf(SegmentsOn(b, l))])
      /\ DisplayedFiles(b) = SumOf(Y, [l \in Y |-> CountVolObjLabel(vol_obj, b, l)])
  BY <1>3, VolumeBytesAreSum, VolumeFilesAreSum DEF SummaryBytes, DisplayedFiles
<1> HIDE DEF Y, h
<1>5. /\ [l \in Y |-> BytesOf(SegmentsOn(b, l))] = [l \in Y |-> BytesOf(Fibre(SegmentsIn(b), h, l))]
      /\ [l \in Y |-> CountVolObjLabel(vol_obj, b, l)]
            = [l \in Y |-> Cardinality(Fibre(SegmentsIn(b), h, l))]
  BY <1>2
<1>6. QED
  BY <1>1, <1>3, <1>4, <1>5, PartsAddUp

(* Whatever commands were run, and in whatever order, what /reportbackup   *)
(* says the objects of a backup wrote is what it says is on its tapes, and *)
(* /display counts the same files.                                         *)
THEOREM ReportsAddUp == Spec => []ReportAddsUp
<1>1. Reportable => ReportAddsUp
  BY ObjectsAddUp, VolumesAddUp DEF ReportAddsUp
<1>2. QED
  BY <1>1, ReportableHolds, PTL DEF Spec

-----------------------------------------------------------------------------
(* The errors a report shows                                               *)

ErrorsIn(b) == {k \in DOMAIN bck_errors : bck_errors[k].bck_id = b}

(* Those that are of the segment read last of their object.                *)
ErrorsShown(b, last) == {k \in ErrorsIn(b) : \E r \in ObjectsOf(b) : k \in ErrorsOn(last[r])}

(* gtot_errs for that choice of the segments.                              *)
ErrorTotal(b, last) == MapThenSumSet(LAMBDA r : Cardinality(ErrorsOn(last[r])), ObjectsOf(b))

(* It counts each of these errors once.                                    *)
LEMMA ErrorsAddUp ==
    ASSUME Reportable, NEW b, NEW last, \A r \in ObjectsOf(b) : last[r] \in SegmentsOf(r)
    PROVE  /\ IsFiniteSet(ErrorsIn(b))
           /\ ErrorTotal(b, last) = Cardinality(ErrorsShown(b, last))
<1> DEFINE Y == ObjectsOf(b)
           U == ErrorsShown(b, last)
           h == [k \in U |-> Owner(bck_errors[k])]
           ones == [k \in U |-> 1]
<1>1. IsFiniteSet(ErrorsIn(b)) /\ IsFiniteSet(U)
  BY FiniteAnswers, FS_Subset DEF Reportable, ErrorsIn, ErrorsShown
<1>2. ASSUME NEW r \in Y, NEW k \in ErrorsOn(last[r])
      PROVE  k \in U /\ h[k] = r
  <2>1. r \in bck_objects /\ r.bck_id = b
    BY DEF ObjectsOf
  <2>2. IsOf(last[r], r.bck_id, r.objname, r.obj_instance)
    BY DEF SegmentsOf
  <2>3. k \in DOMAIN bck_errors /\ IsOf(bck_errors[k], r.bck_id, r.objname, r.obj_instance)
    BY <2>2 DEF ErrorsOn, IsOf
  <2>4. k \in U
    BY <2>1, <2>3 DEF ErrorsShown, ErrorsIn, IsOf
  <2>5. QED
    BY <2>1, <2>3, <2>4, OwnerIsUnique DEF Reportable
<1>3. \A k \in U : h[k] \in Y
  BY <1>2 DEF ErrorsShown
<1>4. \A r \in Y : ErrorsOn(last[r]) = Fibre(U, h, r)
  <2>1. ASSUME NEW r \in Y, NEW k \in Fibre(U, h, r)
        PROVE  k \in ErrorsOn(last[r])
    <3>1. PICK q \in Y : k \in ErrorsOn(last[q])
      BY DEF Fibre, ErrorsShown
    <3>2. q = r
      BY <1>2, <3>1 DEF Fibre
    <3>3. QED
      BY <3>1, <3>2
  <2>2. QED
    BY <1>2, <2>1 DEF Fibre
<1>5. IsFiniteSet(Y)
  BY ReportIsFinite
<1>6. ErrorTotal(b, last) = SumOf(Y, [r \in Y |-> Cardinality(ErrorsOn(last[r]))])
  BY <1>5, ErrorsAreSum DEF ErrorTotal
<1>7. \A k \in U : ones[k] = 1
  OBVIOUS
<1> HIDE DEF Y, U, h, ones
<1>8. \A r \in Y : Cardinality(ErrorsOn(last[r])) = SumOf(Fibre(U, h, r), ones)
  <2>1. ASSUME NEW r \in Y
        PROVE  Cardinality(ErrorsOn(last[r])) = SumOf(Fibre(U, h, r), ones)
    <3> DEFINE F == Fibre(U, h, r)
    <3>1. IsFiniteSet(F) /\ \A k \in F : ones[k] = 1
      BY <1>1, <1>7, FS_Subset DEF Fibre
    <3> HIDE DEF F
    <3>2. SumOf(F, ones) = Cardinality(F)
      BY <3>1, SumOfOnes
    <3>3. QED
      BY <1>4, <3>2 DEF F
  <2>2. QED
    BY <2>1
<1>9. [r \in Y |-> Cardinality(ErrorsOn(last[r]))] = [r \in Y |-> SumOf(Fibre(U, h, r), ones)]
  BY <1>8
<1>10. SumOf(Y, [r \in Y |-> SumOf(Fibre(U, h, r), ones)]) = SumOf(U, ones)
  <2>1. Numbers(U, ones)
    BY <1>7 DEF Numbers
  <2>2. QED
    BY <1>1, <1>3, <1>5, <2>1, SumFibres
<1>11. SumOf(U, ones) = Cardinality(U)
  BY <1>1, <1>7, SumOfOnes
<1>12. QED
  BY <1>1, <1>6, <1>9, <1>10, <1>11 DEF U

(* So it is no more than /errcount counts, and less only for an error that *)
(* is not on the tape its object was read from.                            *)
LEMMA ErrorsShownAreRecorded == Reportable => ReportShowsErrors
<1> SUFFICES ASSUME Reportable, NEW b \in DOMAIN backups, NEW n \in ReportedErrors(b)
             PROVE  /\ n <= CountErrors(b)
                    /\ n < CountErrors(b) =>
                          \E k \in DOMAIN bck_errors, s \in vol_obj :
                              /\ IsOf(bck_errors[k], b, s.objname, s.obj_instance)
                              /\ s.bck_id = b /\ s.label # bck_errors[k].label
  BY DEF ReportShowsErrors
<1> DEFINE Last == {f \in [ObjectsOf(b) -> vol_obj] : \A r \in ObjectsOf(b) : f[r] \in SegmentsOf(r)}
           Totals == {ErrorTotal(b, f) : f \in Last}
<1>0. ReportedErrors(b) = Totals
  BY DEF ReportedErrors, ErrorTotal
<1>1. PICK last : /\ \A r \in ObjectsOf(b) : last[r] \in SegmentsOf(r)
                  /\ n = ErrorTotal(b, last)
  BY <1>0
<1>2. /\ n = Cardinality(ErrorsShown(b, last)) /\ IsFiniteSet(ErrorsIn(b))
      /\ CountErrors(b) = Cardinality(ErrorsIn(b))
  BY <1>1, ErrorsAddUp DEF CountErrors, ErrorsIn
<1>3. ErrorsShown(b, last) \subseteq ErrorsIn(b)
  BY DEF ErrorsShown
<1>4. Cardinality(ErrorsIn(b)) \in Nat /\ n \in Nat /\ n <= CountErrors(b)
  BY <1>2, <1>3, FS_Subset, FS_CardinalityType
<1>5. ASSUME n < CountErrors(b)
      PROVE  \E k \in DOMAIN bck_errors, s \in vol_obj :
                 /\ IsOf(bck_errors[k], b, s.objname, s.obj_instance)
                 /\ s.bck_id = b /\ s.label # bck_errors[k].label
  <2>1. PICK k \in ErrorsIn(b) : k \notin ErrorsShown(b, last)
    <3>1. ErrorsShown(b, last) # ErrorsIn(b)
      BY <1>2, <1>4, <1>5
    <3>2. QED
      BY <1>3, <3>1
  <2>2. k \in DOMAIN bck_errors /\ bck_errors[k].bck_id = b /\ b # 0
    BY CatalogAssumption DEF ErrorsIn, Reportable, TypeOK, BackupTable
  <2>3. PICK r \in bck_objects : IsOf(r, b, bck_errors[k].objname, bck_errors[k].obj_instance)
    BY <2>2 DEF Reportable, ErrorObjects, HasRow
  <2>4. r \in ObjectsOf(b)
    BY <2>3 DEF ObjectsOf, IsOf
  <2>5. last[r] \in vol_obj /\ IsOf(last[r], b, bck_errors[k].objname, bck_errors[k].obj_instance)
    BY <1>1, <2>3, <2>4 DEF SegmentsOf, IsOf
  <2>6. last[r].label # bck_errors[k].label
    BY <2>1, <2>2, <2>4, <2>5 DEF ErrorsShown, ErrorsOn, IsOf
  <2>7. QED
    BY <2>2, <2>5, <2>6 DEF IsOf
<1>6. QED
  BY <1>4, <1>5

(* The log attachments of /includelogs?= and the answer of /errcount agree *)
(* but for the cases the invariant names, and a backup with an open tape   *)
(* is not called complete.                                                 *)
THEOREM ErrorsReported == Spec => []ErrorsAreReported
<1>1. Reportable => ErrorsAreReported
  BY ErrorsShownAreRecorded, CompleteBackups DEF ErrorsAreReported
<1>2. QED
  BY <1>1, ReportableHolds, PTL DEF Spec
=============================================================================
