--------------------------- MODULE CommandLogProofs ---------------------------
(***************************************************************************)
(* Proofs about CommandLog: what a replay of the log makes, whatever lines *)
(* are in it and in whatever order, for any number of processes.           *)
(***************************************************************************)
EXTENDS CommandLog, LibraryProofs

\* What is proved of the library holds of the replayed catalogue, whose dates are
\* those of the commands or the one that comes back from the log.
Restored == INSTANCE LibraryProofs WITH
    volumes <- rvolumes, backups <- rbackups, bck_objects <- robjects,
    vol_obj <- rvol_obj, bck_errors <- rerrors, Time <- Time \cup {LostDate}

(* The assumptions the library makes of its constants hold with that date. *)
LEMMA RestoredAssumptions ==
    /\ BckId \subseteq Nat \ {0} /\ Instance \subseteq Nat \ {0}
    /\ Time \cup {LostDate} \subseteq Nat \ {0} /\ Size \subseteq Nat
    /\ MaxUsage \in Nat /\ MaxErrors \in Nat /\ Confirms \in BOOLEAN
    /\ GivenInstance \subseteq Instance \cup {0}
  BY CatalogAssumption, LibraryAssumption, CommandsAssumption, CommandLogAssumption

-----------------------------------------------------------------------------
(* The lines that processes have still to append                           *)

LinesOK ==
    /\ pending = [p \in Process |-> pending[p]]
    /\ \A p \in Process : pending[p] # Nothing => Restored!LineOK(pending[p].line)

(* A line keeps the qualifiers of its command, but for the dates.          *)
LEMMA LineReadBack ==
    ASSUME NEW c \in CommandLines
    PROVE  /\ Restored!LineOK(ReadBack(c))
           /\ c.name = "new" => \A b \in BckId : Restored!LineOK(ReadBack([c EXCEPT !.b = b]))
           /\ c.name = "start" => \A i \in Instance : Restored!LineOK(ReadBack([c EXCEPT !.i = i]))
<1>1. Restored!LineOK(ReadBack(c))
  BY CommandsAssumption, CatalogAssumption
     DEF CommandLines, VolumeCommands, BackupCommands, ObjectCommands, Restored!LineOK, ReadBack
<1>2. ASSUME NEW b \in BckId, c.name = "new"
      PROVE  Restored!LineOK(ReadBack([c EXCEPT !.b = b]))
  BY <1>2 DEF CommandLines, VolumeCommands, BackupCommands, ObjectCommands, Restored!LineOK, ReadBack
<1>3. ASSUME NEW i \in Instance, c.name = "start"
      PROVE  Restored!LineOK(ReadBack([c EXCEPT !.i = i]))
  BY <1>3 DEF CommandLines, VolumeCommands, BackupCommands, ObjectCommands, Restored!LineOK, ReadBack
<1>4. QED
  BY <1>1, <1>2, <1>3

-----------------------------------------------------------------------------
(* Running a line on the replayed catalogue                                *)

(* The statements are the same on every catalogue.                         *)
LEMMA SameStatements ==
    /\ \A b, o, i, e, sz : Restored!ObjectRow(b, o, i, e, sz) = Replica!ObjectRow(b, o, i, e, sz)
    /\ \A b, o, i, l, n, e, sz :
          Restored!SegmentRow(b, o, i, l, n, e, sz) = Replica!SegmentRow(b, o, i, l, n, e, sz)
    /\ \A r, b, o, i : Restored!IsOf(r, b, o, i) = Replica!IsOf(r, b, o, i)
  BY DEF Restored!ObjectRow, Replica!ObjectRow, Restored!SegmentRow, Replica!SegmentRow,
         Restored!IsOf, Replica!IsOf

\* The statements on volumes and segments are the same operators in both catalogues:
\* they take the rows they read as arguments or name none.
LEMMA SameSegmentStatements ==
    /\ \A segs, b, o, i, l, n :
          Restored!InsertVolObj(segs, b, o, i, l, n) = Replica!InsertVolObj(segs, b, o, i, l, n)
    /\ \A segs, b, o, i, l, e, sz :
          Restored!EndVolObj(segs, b, o, i, l, e, sz) = Replica!EndVolObj(segs, b, o, i, l, e, sz)
    /\ \A segs, b, o, i :
          Restored!CurrentVolObjs(segs, b, o, i) = Replica!CurrentVolObjs(segs, b, o, i)
    /\ \A segs, b, l : Restored!CountVolObjLabel(segs, b, l) = Replica!CountVolObjLabel(segs, b, l)
    /\ \A segs, b, o : Restored!VolObjSumSize(segs, b, o) = Replica!VolObjSumSize(segs, b, o)
<1>1. ASSUME NEW segs, NEW b, NEW o, NEW i, NEW l, NEW n
      PROVE  Restored!InsertVolObj(segs, b, o, i, l, n) = Replica!InsertVolObj(segs, b, o, i, l, n)
  BY SameStatements DEF Restored!InsertVolObj, Replica!InsertVolObj
<1>2. ASSUME NEW segs, NEW b, NEW o, NEW i, NEW l, NEW e, NEW sz
      PROVE  Restored!EndVolObj(segs, b, o, i, l, e, sz) = Replica!EndVolObj(segs, b, o, i, l, e, sz)
  BY SameStatements DEF Restored!EndVolObj, Replica!EndVolObj
<1>3. ASSUME NEW segs, NEW b, NEW o, NEW i
      PROVE  Restored!CurrentVolObjs(segs, b, o, i) = Replica!CurrentVolObjs(segs, b, o, i)
  BY SameStatements DEF Restored!CurrentVolObjs, Replica!CurrentVolObjs
<1>4. ASSUME NEW segs, NEW b, NEW l
      PROVE  Restored!CountVolObjLabel(segs, b, l) = Replica!CountVolObjLabel(segs, b, l)
  BY DEF Restored!CountVolObjLabel, Replica!CountVolObjLabel,
         Restored!Cardinality, Replica!Cardinality
<1>5. ASSUME NEW segs, NEW b, NEW o
      PROVE  Restored!VolObjSumSize(segs, b, o) = Replica!VolObjSumSize(segs, b, o)
  BY DEF Restored!VolObjSumSize, Replica!VolObjSumSize, Restored!MapThenSumSet,
         Replica!MapThenSumSet, Restored!MapThenFoldSet, Replica!MapThenFoldSet
<1>6. QED
  BY <1>1, <1>2, <1>3, <1>4, <1>5

\* So are those on objects, the selections and the sums over them.
LEMMA SameObjectStatements ==
    /\ \A objs, b, o, g : Restored!ObjInstance(objs, b, o, g) = Replica!ObjInstance(objs, b, o, g)
    /\ \A objs, b, o, i :
          Restored!InsertBckObject(objs, b, o, i) = Replica!InsertBckObject(objs, b, o, i)
    /\ \A objs, b, o, i, e, total :
          Restored!EndBckObject(objs, b, o, i, e, total) = Replica!EndBckObject(objs, b, o, i, e, total)
<1>1. ASSUME NEW objs, NEW b, NEW o, NEW g
      PROVE  Restored!ObjInstance(objs, b, o, g) = Replica!ObjInstance(objs, b, o, g)
  BY DEF Restored!ObjInstance, Replica!ObjInstance, Restored!Max, Replica!Max
<1>2. ASSUME NEW objs, NEW b, NEW o, NEW i
      PROVE  Restored!InsertBckObject(objs, b, o, i) = Replica!InsertBckObject(objs, b, o, i)
  BY SameStatements DEF Restored!InsertBckObject, Replica!InsertBckObject
<1>3. ASSUME NEW objs, NEW b, NEW o, NEW i, NEW e, NEW total
      PROVE  Restored!EndBckObject(objs, b, o, i, e, total) = Replica!EndBckObject(objs, b, o, i, e, total)
  BY SameStatements DEF Restored!EndBckObject, Replica!EndBckObject
<1>4. QED
  BY <1>1, <1>2, <1>3

(* The dates of the catalogue are no part of what a handler does.          *)
LEMMA ReplicaRuns ==
    ASSUME NEW c, Replica!Run(c)
    PROVE  Restored!Run(c)
<1>1. CASE Replica!Add(c) \/ Replica!State(c) \/ Replica!Remove(c)
  BY <1>1 DEF Restored!Run, Replica!Add, Replica!State, Replica!Remove,
              Restored!Add, Restored!State, Restored!Remove,
              Replica!AddVolume, Replica!ModifyState, Replica!RemoveVolume,
              Restored!AddVolume, Restored!ModifyState, Restored!RemoveVolume,
              Replica!InsertVolume, Restored!InsertVolume, Replica!DeleteVolume,
              Restored!DeleteVolume, Replica!CanUse, Restored!CanUse
<1>2. CASE Replica!New(c) \/ Replica!Modify(c)
  BY <1>2 DEF Restored!Run, Replica!New, Replica!Modify, Restored!New, Restored!Modify,
              Replica!NewBackup, Restored!NewBackup, Replica!ModifyBackup, Restored!ModifyBackup,
              Replica!InsertBackup, Restored!InsertBackup, Replica!UpdateBackup,
              Restored!UpdateBackup
<1>3. CASE Replica!Finish(c)
  BY <1>3 DEF Restored!Run, Replica!Finish, Restored!Finish, Replica!FinishBackup,
              Restored!FinishBackup, Replica!IncVolumeUsage, Restored!IncVolumeUsage,
              Replica!IsEndOfBackup, Restored!IsEndOfBackup, Replica!UpdateBackup,
              Restored!UpdateBackup
<1>4. CASE Replica!RemoveB(c) \/ Replica!Expire(c)
  <2>1. ASSUME NEW B, Replica!DeleteBackupIds(B)
        PROVE  Restored!DeleteBackupIds(B)
    BY <2>1 DEF Replica!DeleteBackupIds, Restored!DeleteBackupIds, Replica!DeleteRows,
                Restored!DeleteRows, Replica!DeleteBackups, Restored!DeleteBackups,
                Replica!DetachErrors, Restored!DetachErrors, Replica!FreeVolumes,
                Restored!FreeVolumes
  <2>2. QED
    BY <1>4, <2>1 DEF Restored!Run, Replica!RemoveB, Restored!RemoveB, Replica!Expire,
                Restored!Expire, Replica!RemoveBackup, Restored!RemoveBackup,
                Replica!RunExpiration, Restored!RunExpiration, Replica!Expired,
                Restored!Expired, Replica!VolumesFreed, Restored!VolumesFreed,
                Replica!DeleteStatus, Restored!DeleteStatus
<1>5. CASE Replica!Start(c)
  BY <1>5, SameSegmentStatements, SameObjectStatements
     DEF Restored!Run, Replica!Start, Restored!Start, Replica!StartBackup,
         Restored!StartBackup, Replica!Usable, Restored!Usable, Replica!CanUse,
         Restored!CanUse, Replica!SetVolumeUsed, Restored!SetVolumeUsed
<1>6. CASE Replica!Error(c) \/ Replica!Change(c)
  BY <1>6, SameSegmentStatements
     DEF Restored!Run, Replica!Error, Restored!Error, Replica!ErrBackup,
         Restored!ErrBackup, Replica!Change, Restored!Change, Replica!ChangeVolume,
         Restored!ChangeVolume, Replica!ChangeVolumeNoSegment,
         Restored!ChangeVolumeNoSegment, Replica!InsertBckError, Restored!InsertBckError,
         Replica!Usable, Restored!Usable, Replica!CanUse, Restored!CanUse,
         Replica!SetVolumeUsed, Restored!SetVolumeUsed
<1>7. CASE Replica!End(c)
  <2>1. Replica!VolObjSumSize(rvol_obj', c.b, c.o) = Restored!VolObjSumSize(rvol_obj', c.b, c.o)
    BY SameSegmentStatements
  <2>2. QED
    BY <1>7, <2>1, SameSegmentStatements, SameObjectStatements
       DEF Restored!Run, Replica!End, Restored!End, Replica!EndBackup, Restored!EndBackup
<1>8. QED
  BY <1>1, <1>2, <1>3, <1>4, <1>5, <1>6, <1>7 DEF Replica!Run

-----------------------------------------------------------------------------
(* The replayed catalogue is consistent                                    *)

\* What keeps it so: its tables are well formed, as are the lines to come.
RestoredInv ==
    /\ LinesOK
    /\ Restored!TypeOK
    /\ Restored!Ownership
    /\ Restored!References

(* The volumes and backups that are there at the start.                    *)
LEMMA InitRestored == CInit => RestoredInv
<1> SUFFICES ASSUME CInit
             PROVE  RestoredInv
  OBVIOUS
<1>1. PICK L \in SUBSET Label, B \in SUBSET BckId :
         /\ rvolumes = [l \in L |-> [bck_id |-> 0, state |-> "F", usage |-> 0]]
         /\ rbackups = [b \in B |-> [end |-> 0, expiredate |-> LostDate]]
  BY DEF CInit
<1>2. /\ robjects = {} /\ rvol_obj = {} /\ rerrors = <<>> /\ now \in Time
      /\ pending = [p \in Process |-> Nothing]
  BY DEF CInit
<1>3. LinesOK
  BY <1>2 DEF LinesOK
<1>4. Restored!TypeOK
  <2>1. Restored!VolumeTable(rvolumes)
    BY <1>1 DEF Restored!VolumeTable, Restored!Volume
  <2>2. Restored!BackupTable(rbackups)
    BY <1>1 DEF Restored!BackupTable, Restored!Backup
  <2>3. Restored!ObjectTable(robjects) /\ Restored!ErrorTable(rerrors)
    BY <1>2 DEF Restored!ObjectTable, Restored!ErrorTable
  <2>4. Restored!VolObjTable(rvol_obj)
    BY <1>2, FS_EmptySet DEF Restored!VolObjTable, Restored!IsFiniteSet, IsFiniteSet
  <2>5. QED
    BY <1>2, <2>1, <2>2, <2>3, <2>4 DEF Restored!TypeOK
<1>5. Restored!Ownership
  BY <1>1, <1>2 DEF Restored!Ownership, Restored!Owned, Restored!FreeUnowned
<1>6. Restored!References
  BY <1>2 DEF Restored!References, Restored!Matched, Restored!ObjectsKept,
              Restored!ErrorsKept, Restored!HasRow
<1>7. QED
  BY <1>3, <1>4, <1>5, <1>6 DEF RestoredInv

(* What a command leaves for the log is a line the replay can read.        *)
LEMMA ExecuteLines ==
    ASSUME LinesOK, NEW p \in Process, NEW typed \in CommandLines, Execute(p, typed)
    PROVE  LinesOK'
<1>1. PICK c \in Completions(typed) :
         pending' \in {pending, [pending EXCEPT ![p] = [line |-> Line(typed, c),
                                                       keeps |-> Reserved(c),
                                                       shares |-> Shared(c)]]}
  BY DEF Execute
<1>2. Restored!LineOK(ReadBack(c))
  <2>1. CASE typed.name = "new" /\ typed.b = 0
    <3>1. PICK b \in BckId : c = [typed EXCEPT !.b = b]
      BY <1>1, <2>1 DEF Completions
    <3>2. QED
      BY <2>1, <3>1, LineReadBack DEF Completions
  <2>2. CASE typed.name = "start" /\ ~Refused(typed)
    <3>1. c = [typed EXCEPT !.i = ObjInstance(bck_objects, typed.b, typed.o, typed.i)]
      BY <1>1, <2>2 DEF Completions
    <3>2. ObjInstance(bck_objects, typed.b, typed.o, typed.i) \in Instance
      BY <2>2 DEF Execute, InBounds
    <3>3. QED
      BY <2>2, <3>1, <3>2, LineReadBack
  <2>3. CASE c = typed
    BY <2>3, LineReadBack
  <2>4. QED
    BY <1>1, <2>1, <2>2, <2>3 DEF Completions
<1>3. QED
  BY <1>1, <1>2 DEF LinesOK, Line

(* Appending a line runs it on the replayed catalogue, or changes nothing. *)
LEMMA LogRuns ==
    ASSUME RestoredInv, NEW p \in Process, Log(p)
    PROVE  [Restored!Next]_(Restored!vars)
<1>1. UNCHANGED rtables \/ Replica!Run(pending[p].line)
  BY DEF Log
<1>2. CASE UNCHANGED rtables
  BY <1>2 DEF rtables, Log, Restored!vars
<1>3. CASE Replica!Run(pending[p].line)
  <2>1. Restored!LineOK(pending[p].line)
    BY DEF RestoredInv, LinesOK, Log
  <2>2. QED
    BY <1>3, <2>1, ReplicaRuns, Restored!RunIsStep, RestoredAssumptions DEF RestoredInv
<1>4. QED
  BY <1>1, <1>2, <1>3

(* No command turns the clock.                                             *)
LEMMA RunKeepsNow == \A c : Run(c) => now' = now
  BY DEF Run, Add, State, Remove, New, Finish, Modify, RemoveB, Start, Error, Change, End, Expire,
         AddVolume, ModifyState, RemoveVolume, NewBackup, FinishBackup, ModifyBackup,
         RemoveBackup, StartBackup, ErrBackup, ChangeVolume, ChangeVolumeNoSegment, EndBackup,
         RunExpiration, DeleteBackupIds

(* Every step of a process keeps the replayed catalogue consistent.        *)
LEMMA RestoredStep == RestoredInv /\ [CNext]_<<vars, logvars, rtables>> => RestoredInv'
<1> SUFFICES ASSUME RestoredInv, [CNext]_<<vars, logvars, rtables>>
             PROVE  RestoredInv'
  OBVIOUS
<1>1. ASSUME [Restored!Next]_(Restored!vars)
      PROVE  Restored!TypeOK' /\ Restored!Ownership' /\ Restored!References'
  BY <1>1, Restored!TypeStep, Restored!OwnershipStep, Restored!ReferencesStep,
     RestoredAssumptions DEF RestoredInv
<1>2. ASSUME NEW p \in Process, NEW typed \in CommandLines, Execute(p, typed)
      PROVE  RestoredInv'
  <2>1. UNCHANGED rtables /\ now' = now
    BY <1>2, RunKeepsNow DEF Execute, vars
  <2>2. QED
    BY <1>1, <1>2, <2>1, ExecuteLines DEF RestoredInv, rtables, Restored!vars
<1>3. ASSUME NEW p \in Process, Log(p)
      PROVE  RestoredInv'
  <2>1. LinesOK'
    BY <1>3 DEF Log, RestoredInv, LinesOK
  <2>2. QED
    BY <1>1, <1>3, <2>1, LogRuns DEF RestoredInv
<1>4. ASSUME NEW p \in Process, Kill(p)
      PROVE  RestoredInv'
  <2>1. LinesOK'
    BY <1>4 DEF Kill, RestoredInv, LinesOK
  <2>2. QED
    BY <1>1, <1>4, <2>1 DEF RestoredInv, Kill, vars, rtables, Restored!vars
<1>5. CASE UNCHANGED <<vars, logvars, rtables>>
  <2>1. LinesOK'
    BY <1>5 DEF logvars, RestoredInv, LinesOK
  <2>2. QED
    BY <1>1, <1>5, <2>1 DEF RestoredInv, vars, rtables, Restored!vars
<1>6. QED
  BY <1>2, <1>3, <1>4, <1>5 DEF CNext

(* Whatever lines the log has lost and in whatever order the others are,   *)
(* a replay makes a catalogue whose segments are on tapes of their own     *)
(* backup and whose rows have the rows they refer to.                      *)
THEOREM ReplaysAreConsistent == CSpec => []ReplayIsConsistent
<1>1. RestoredInv => ReplayIsConsistent
  <2> SUFFICES ASSUME RestoredInv
               PROVE  ReplayIsConsistent
    OBVIOUS
  <2>1. Restored!SegmentsOnOwnedVolumes
    BY DEF RestoredInv, Restored!Ownership, Restored!Owned, Restored!SegmentsOnOwnedVolumes
  <2>2. Restored!CatalogReferences
    BY Restored!ReferencesAreKeys, RestoredAssumptions
       DEF RestoredInv, Restored!References, Restored!CatalogReferences
  <2>3. Replica!SegmentsOnOwnedVolumes
    BY <2>1 DEF Restored!SegmentsOnOwnedVolumes, Replica!SegmentsOnOwnedVolumes
  <2>4. Replica!CatalogReferences
    BY <2>2, SameStatements
       DEF Restored!CatalogReferences, Replica!CatalogReferences,
           Restored!SegmentsHaveObjects, Replica!SegmentsHaveObjects,
           Restored!ObjectsHaveSegments, Replica!ObjectsHaveSegments,
           Restored!ObjectsHaveBackups, Replica!ObjectsHaveBackups,
           Restored!ErrorsHaveBackups, Replica!ErrorsHaveBackups
  <2>5. QED
    BY <2>3, <2>4 DEF ReplayIsConsistent
<1>2. QED
  BY InitRestored, RestoredStep, <1>1, PTL DEF CSpec
=============================================================================
