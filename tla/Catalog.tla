------------------------------- MODULE Catalog -------------------------------
(***************************************************************************)
(* The backup library's SQLite catalogue: the rows of its five tables and  *)
(* the statements data_access.c runs on them, each as a pure operator from *)
(* the table's rows to its new rows.  Library composes them into whole     *)
(* commands, Processes runs them one statement at a time.                  *)
(*                                                                         *)
(* `volumes' and `backups' have a single-column unique index and are       *)
(* functions from that column to the rest of the row.  `bck_objects' and   *)
(* `vol_obj' are sets of rows, unique on the columns the schema indexes.   *)
(* `bck_errors' has no unique index: it is the sequence of its rows in     *)
(* insertion order.  Columns no property depends on (node, desc, media,    *)
(* group, location, the start and bookkeeping dates) are left out.         *)
(***************************************************************************)
EXTENDS Integers, Sequences, FiniteSets, FiniteSetsExt

CONSTANTS
    Label,      \* volume labels
    BckId,      \* backup ids
    ObjName,    \* names of backed up objects
    Instance,   \* instance numbers of an object in one backup
    Time,       \* dates, as numbers
    Size        \* bytes written in one segment

\* 0 stands for `no backup' in a bck_id column and for `not ended' in an end
\* column, so no real backup id or date is 0; /objinstance=0 asks for the next
\* number, so no stored instance is 0.
ASSUME CatalogAssumption ==
    /\ BckId \subseteq Nat \ {0}
    /\ Instance \subseteq Nat \ {0}
    /\ Time \subseteq Nat \ {0}
    /\ Size \subseteq Nat

Volume == [bck_id : BckId \cup {0}, state : {"F", "A"}, usage : Nat]

Backup == [end : Time \cup {0}, expiredate : Time]

VolObj == [bck_id : BckId, objname : ObjName, obj_instance : Instance,
           label : Label, fileno : Nat, end : Time \cup {0}, size : Size \cup {0}]

BckError == [bck_id : BckId \cup {0}, label : Label, objname : ObjName,
             obj_instance : Instance]

(* What a table of each kind may contain.                                  *)
VolumeTable(vols) == DOMAIN vols \subseteq Label /\ vols \in [DOMAIN vols -> Volume]

BackupTable(bcks) == DOMAIN bcks \subseteq BckId /\ bcks \in [DOMAIN bcks -> Backup]

VolObjTable(segs) == segs \subseteq VolObj /\ IsFiniteSet(segs)

ErrorTable(errs) == errs \in Seq(BckError)

-----------------------------------------------------------------------------
(* A row of bck_objects: an object of a backup, open while end = 0.        *)
ObjectRow(b, o, i, e, sz) ==
    [bck_id |-> b, objname |-> o, obj_instance |-> i, end |-> e, size |-> sz]

\* The size of an object is a sum over other rows; it is not constrained here.
ObjectTable(objs) ==
    \A r \in objs : /\ r = ObjectRow(r.bck_id, r.objname, r.obj_instance, r.end, r.size)
                    /\ r.bck_id \in BckId /\ r.objname \in ObjName
                    /\ r.obj_instance \in Instance /\ r.end \in Time \cup {0}

(* A row of vol_obj: the segment of an object instance on one volume.      *)
SegmentRow(b, o, i, l, n, e, sz) ==
    [bck_id |-> b, objname |-> o, obj_instance |-> i, label |-> l,
     fileno |-> n, end |-> e, size |-> sz]

\* Row r belongs to instance i of object o in backup b.
IsOf(r, b, o, i) == r.bck_id = b /\ r.objname = o /\ r.obj_instance = i

-----------------------------------------------------------------------------
(* volumes                                                                 *)

\* update volumes set bck_id=?, state='A' where label=?
SetVolumeUsed(vols, l, b) ==
    [vols EXCEPT ![l] = [bck_id |-> b, state |-> "A", usage |-> vols[l].usage]]

\* update volumes set usage=usage+1 where bck_id=?
IncVolumeUsage(vols, b) ==
    [l \in DOMAIN vols |->
        IF vols[l].bck_id = b THEN [vols[l] EXCEPT !.usage = @ + 1] ELSE vols[l]]

\* Broken: the second update, of bck_id, is missing.
FreeVolumesStateOnly(vols, B) ==
    [l \in DOMAIN vols |->
        IF vols[l].bck_id \in B THEN [vols[l] EXCEPT !.state = "F"] ELSE vols[l]]

\* update volumes set state='F' where bck_id=?; set bck_id=0 where bck_id=?
FreeVolumes(vols, B) ==
    [l \in DOMAIN vols |->
        IF vols[l].bck_id \in B THEN [vols[l] EXCEPT !.bck_id = 0, !.state = "F"]
                                ELSE vols[l]]

\* insert into volumes; delete from volumes where label=?
InsertVolume(vols, l, row) ==
    [k \in DOMAIN vols \cup {l} |-> IF k = l THEN row ELSE vols[k]]
DeleteVolume(vols, l) == [k \in DOMAIN vols \ {l} |-> vols[k]]

-----------------------------------------------------------------------------
(* backups                                                                 *)
InsertBackup(bcks, b, row) ==
    [k \in DOMAIN bcks \cup {b} |-> IF k = b THEN row ELSE bcks[k]]
DeleteBackups(bcks, B) == [k \in DOMAIN bcks \ B |-> bcks[k]]

\* update backups set ... where bck_id=?: no row, no change.
UpdateBackup(bcks, b, row) == [bcks EXCEPT ![b] = row]

-----------------------------------------------------------------------------
(* bck_objects                                                             *)

\* Broken: the instances there are, are not looked at.
ObjInstanceFirst(objs, b, o, given) == IF given # 0 THEN given ELSE 1

\* The instance an insert uses: the one asked for, or max(obj_instance)+1.
ObjInstance(objs, b, o, given) ==
    IF given # 0 THEN given
    ELSE 1 + Max({0} \cup {r.obj_instance : r \in {q \in objs : q.bck_id = b /\ q.objname = o}})

\* The insert and its commit, or the rollback on a duplicate key.
InsertBckObject(objs, b, o, i) ==
    IF \E r \in objs : IsOf(r, b, o, i) THEN objs
    ELSE objs \cup {ObjectRow(b, o, i, 0, 0)}

\* update bck_objects set end=?, size=? where (b, o, i) and end=0
EndBckObject(objs, b, o, i, e, total) ==
    {IF IsOf(r, b, o, i) /\ r.end = 0 THEN ObjectRow(b, o, i, e, total) ELSE r : r \in objs}

-----------------------------------------------------------------------------
(* vol_obj                                                                 *)

\* Broken: bck_id is not part of the condition.
CurrentVolObjsAnyBackup(segs, b, o, i) ==
    {s \in segs : s.objname = o /\ s.obj_instance = i /\ s.end = 0}

\* The rows db_find_current_volobj may return: it takes the first of them.
CurrentVolObjs(segs, b, o, i) == {s \in segs : IsOf(s, b, o, i) /\ s.end = 0}

\* select count( * ) from vol_obj where bck_id=? and label=?
CountVolObjLabel(segs, b, l) == Cardinality({s \in segs : s.bck_id = b /\ s.label = l})

\* Broken: a unique index that lacks the instance.
InsertVolObjOnce(segs, b, o, i, l, n) ==
    IF \E s \in segs : s.bck_id = b /\ s.objname = o /\ s.label = l THEN segs
    ELSE segs \cup {SegmentRow(b, o, i, l, n, 0, 0)}

\* Broken: insert or replace.
InsertVolObjReplace(segs, b, o, i, l, n) ==
    {s \in segs : ~(IsOf(s, b, o, i) /\ s.label = l)} \cup {SegmentRow(b, o, i, l, n, 0, 0)}

\* The insert, refused by the unique index on (b, o, i, label).
InsertVolObj(segs, b, o, i, l, n) ==
    IF \E s \in segs : IsOf(s, b, o, i) /\ s.label = l THEN segs
    ELSE segs \cup {SegmentRow(b, o, i, l, n, 0, 0)}

\* Broken: label and end=0 are not part of the condition.
EndVolObjAll(segs, b, o, i, l, e, sz) ==
    {IF IsOf(s, b, o, i) THEN SegmentRow(b, o, i, s.label, s.fileno, e, sz) ELSE s : s \in segs}

\* update vol_obj set end=?, size=? where (b, o, i, label) and end=0
EndVolObj(segs, b, o, i, l, e, sz) ==
    {IF IsOf(s, b, o, i) /\ s.label = l /\ s.end = 0
     THEN SegmentRow(b, o, i, l, s.fileno, e, sz) ELSE s : s \in segs}

\* select sum(size) from vol_obj where bck_id=? and objname=?: every instance.
VolObjSumSize(segs, b, o) ==
    MapThenSumSet(LAMBDA s : s.size, {s \in segs : s.bck_id = b /\ s.objname = o})

\* e = select max(end) from vol_obj where bck_id=?, 0 when there is no row
IsEndOfBackup(segs, b, e) ==
    LET ends == {s.end : s \in {t \in segs : t.bck_id = b}} \cup {0}
    IN  e \in ends /\ \A x \in ends : x <= e

-----------------------------------------------------------------------------
(* bck_errors                                                              *)
InsertBckError(errs, l, b, o, i) ==
    Append(errs, [bck_id |-> b, label |-> l, objname |-> o, obj_instance |-> i])

\* Broken: the update is missing; the rows are deleted like those of vol_obj.
DetachNoErrors(errs, B) == errs
DeleteErrors(errs, B) == SelectSeq(errs, LAMBDA r : r.bck_id \notin B)

\* update bck_errors set bck_id=0 where bck_id=?: the history stays
DetachErrors(errs, B) ==
    [k \in DOMAIN errs |->
        IF errs[k].bck_id \in B THEN [errs[k] EXCEPT !.bck_id = 0] ELSE errs[k]]

\* delete from bck_objects (vol_obj) where bck_id=?
DeleteRows(rows, B) == {r \in rows : r.bck_id \notin B}

-----------------------------------------------------------------------------
(* What a volume may be used for, and the answers of can_use().            *)
CanUseAllocated(vols, l, b) ==   \* Broken: an allocated volume's bck_id is not looked at.
    CASE l \notin DOMAIN vols -> "NOT FOUND"
      [] OTHER -> IF vols[l].state = "F" THEN "F" ELSE "f"

CanUse(vols, l, b) ==
    CASE l \notin DOMAIN vols        -> "NOT FOUND"
      [] l \in DOMAIN vols /\ vols[l].bck_id \notin {0, b} -> "A"
      [] OTHER -> IF vols[l].state = "F" THEN "F" ELSE "f"

\* usetape() goes on to claim the volume.
Usable(vols, l, b) == CanUse(vols, l, b) \in {"F", "f"}
=============================================================================
