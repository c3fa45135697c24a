------------------------------- MODULE Library -------------------------------
(***************************************************************************)
(* The tape library as its operator sees it: the catalogue and the blib    *)
(* commands that change it, each run to completion before the next one     *)
(* starts (one blib process at a time, none of them killed).  Processes    *)
(* takes the same commands apart into their SQL statements.                *)
(*                                                                         *)
(* An action is one do_cmd_* handler.  A command that is refused before it *)
(* writes anything changes no table and is a stuttering step, so the       *)
(* guards are the negation of the handler's early returns.                 *)
(***************************************************************************)
EXTENDS Catalog

CONSTANTS
    MaxUsage,   \* bound on volumes.usage, which no command resets by itself
    MaxErrors,  \* bound on the number of rows of bck_errors
    Confirms    \* whether an operator may answer `Y' to /removebackup

ASSUME LibraryAssumption == MaxUsage \in Nat /\ MaxErrors \in Nat /\ Confirms \in BOOLEAN

VARIABLES
    volumes,        \* label -> volume
    backups,        \* bck_id -> backup
    bck_objects,    \* set of object rows
    vol_obj,        \* set of segment rows
    bck_errors,     \* sequence of error rows
    now             \* the clock every blib process reads (nowgm)

vars == <<volumes, backups, bck_objects, vol_obj, bck_errors, now>>

\* load_schema leaves every table empty.
Init ==
    /\ volumes = [l \in {} |-> 0]
    /\ backups = [b \in {} |-> 0]
    /\ bck_objects = {}
    /\ vol_obj = {}
    /\ bck_errors = <<>>
    /\ now \in Time

-----------------------------------------------------------------------------
(* Volumes                                                                 *)

\* /add=l [/state=st] [/usage=n]
AddVolume(l, st, n) ==
    /\ l \notin DOMAIN volumes
    /\ volumes' = InsertVolume(volumes, l, [bck_id |-> 0, state |-> st, usage |-> n])
    /\ UNCHANGED <<backups, bck_objects, vol_obj, bck_errors, now>>

\* /modify=l /state=st: refused while the volume is part of a backup.
ModifyState(l, st) ==
    /\ l \in DOMAIN volumes
    /\ volumes[l].bck_id = 0
    /\ volumes' = [volumes EXCEPT ![l] = [volumes[l] EXCEPT !.state = st]]
    /\ UNCHANGED <<backups, bck_objects, vol_obj, bck_errors, now>>

\* /modify=l /usage[=n]: refused while the volume is part of a backup.
ModifyUsage(l, n) ==
    /\ l \in DOMAIN volumes
    /\ volumes[l].bck_id = 0
    /\ volumes' = [volumes EXCEPT ![l] = [volumes[l] EXCEPT !.usage = n]]
    /\ UNCHANGED <<backups, bck_objects, vol_obj, bck_errors, now>>

\* Broken: any volume that is found is removed.
RemoveAnyVolume(l) ==
    /\ CanUse(volumes, l, 0) # "NOT FOUND"
    /\ volumes' = DeleteVolume(volumes, l)
    /\ UNCHANGED <<backups, bck_objects, vol_obj, bck_errors, now>>

\* /remove=l: only when can_use(l, 0) answers 'F'; bck_id is then 0 and
\* db_delete_volume does not look for a backup.
RemoveVolume(l) ==
    /\ CanUse(volumes, l, 0) = "F"
    /\ volumes' = DeleteVolume(volumes, l)
    /\ UNCHANGED <<backups, bck_objects, vol_obj, bck_errors, now>>

-----------------------------------------------------------------------------
(* One backup, from /newbackup to /finishbackup                            *)

\* /newbackup [/bck_id=b] /expire=x: b is the number asked for or the first
\* free one from the current time on; either way the unique index keeps it new.
NewBackup(b, x) ==
    /\ b \notin DOMAIN backups
    /\ backups' = InsertBackup(backups, b, [end |-> 0, expiredate |-> x])
    /\ UNCHANGED <<volumes, bck_objects, vol_obj, bck_errors, now>>

\* /startbackup=o /bck_id=b /label=l [/objinstance=given].  The insert of the
\* object is rolled back on a duplicate instance, which leaves dbh->status OK,
\* and the handler goes on to insert the segment.
StartBackup(b, o, l, given) ==
    /\ b \in DOMAIN backups
    /\ Usable(volumes, l, b)
    /\ LET i == ObjInstance(bck_objects, b, o, given)
       IN  /\ i \in Instance
           /\ bck_objects' = InsertBckObject(bck_objects, b, o, i)
           /\ vol_obj' = InsertVolObj(vol_obj, b, o, i, l, CountVolObjLabel(vol_obj, b, l))
    /\ volumes' = SetVolumeUsed(volumes, l, b)
    /\ UNCHANGED <<backups, bck_errors, now>>

\* /change_volume=o /bck_id=b /objinstance=i /label=l /end=e /size=sz: the
\* volume is claimed first, whether or not backup b exists ...
\* ... and no segment is open: the claim is all that happens.
ChangeVolumeNoSegment(b, o, i, l) ==
    /\ Usable(volumes, l, b)
    /\ CurrentVolObjs(vol_obj, b, o, i) = {}
    /\ volumes' = SetVolumeUsed(volumes, l, b)
    /\ UNCHANGED <<backups, bck_objects, vol_obj, bck_errors, now>>

\* ... and one is: it is closed and the next one starts, as file 0 of l.
ChangeVolume(b, o, i, l, e, sz) ==
    /\ Usable(volumes, l, b)
    /\ \E s \in CurrentVolObjs(vol_obj, b, o, i) :
          vol_obj' = InsertVolObj(EndVolObj(vol_obj, b, o, i, s.label, e, sz),
                                  b, o, i, l, 0)
    /\ volumes' = SetVolumeUsed(volumes, l, b)
    /\ UNCHANGED <<backups, bck_objects, bck_errors, now>>

\* /endbackup=o /bck_id=b /objinstance=i /label=l /end=e /size=sz: the label has
\* to be the open segment's.
EndBackup(b, o, i, l, e, sz) ==
    /\ \E s \in CurrentVolObjs(vol_obj, b, o, i) : s.label = l
    /\ vol_obj' = EndVolObj(vol_obj, b, o, i, l, e, sz)
    /\ bck_objects' = EndBckObject(bck_objects, b, o, i, e, VolObjSumSize(vol_obj', b, o))
    /\ UNCHANGED <<volumes, backups, bck_errors, now>>

\* /errbackup=o /bck_id=b /objinstance=i /label=l: needs an open segment of the
\* object but not on l.
ErrBackup(b, o, i, l) ==
    /\ CurrentVolObjs(vol_obj, b, o, i) # {}
    /\ Len(bck_errors) < MaxErrors
    /\ bck_errors' = InsertBckError(bck_errors, l, b, o, i)
    /\ UNCHANGED <<volumes, backups, bck_objects, vol_obj, now>>

\* /finishbackup /bck_id=b [/end=given]: no check of b or of open segments.
FinishBackup(b, given) ==
    /\ \A l \in DOMAIN volumes : volumes[l].bck_id = b => volumes[l].usage < MaxUsage
    /\ volumes' = IncVolumeUsage(volumes, b)
    /\ \E e \in {given} \cup {s.end : s \in vol_obj} \cup {0} :
          /\ IF given # 0 THEN e = given ELSE IsEndOfBackup(vol_obj, b, e)
          /\ backups' = IF b \in DOMAIN backups
                        THEN UpdateBackup(backups, b, [backups[b] EXCEPT !.end = e])
                        ELSE backups
    /\ UNCHANGED <<bck_objects, vol_obj, bck_errors, now>>

\* /modifybackup=b [/expire=x] [/end=e]: the row is read, changed and written
\* back whole; x and e are the dates already there when not given.  `NotSet' is
\* a date of 0 and opens the backup again.
ModifyBackup(b, x, e) ==
    /\ b \in DOMAIN backups
    /\ backups' = UpdateBackup(backups, b, [end |-> e, expiredate |-> x])
    /\ UNCHANGED <<volumes, bck_objects, vol_obj, bck_errors, now>>

-----------------------------------------------------------------------------
(* The end of a backup                                                     *)

ExpiredToday(b) == backups[b].expiredate <= now   \* Broken: off by one.

Expired(b) == backups[b].expiredate < now

\* db_delete_backup_id, run once (in one transaction) for every b in B.
DeleteBackupIds(B) ==
    /\ bck_objects' = DeleteRows(bck_objects, B)
    /\ vol_obj' = DeleteRows(vol_obj, B)
    /\ backups' = DeleteBackups(backups, B)
    /\ bck_errors' = DetachErrors(bck_errors, B)
    /\ volumes' = FreeVolumes(volumes, B)
    /\ UNCHANGED now

\* /removebackup=b: an unexpired backup needs the operator's `Y' at a terminal.
RemoveBackup(b) ==
    /\ b \in DOMAIN backups
    /\ Expired(b) \/ Confirms
    /\ DeleteBackupIds({b})

\* The volumes the loop of /runexpiration counts as freed by the backups of B.
\* db_delete_backup_id returns SQLITE_OK, which is 0, when it has deleted one,
\* and `if (db_delete_backup_id(...))' adds its volumes only when it is not 0.
DeleteStatus == 0
VolumesFreed(B) ==
    IF DeleteStatus # 0 THEN Cardinality({l \in DOMAIN volumes : volumes[l].bck_id \in B}) ELSE 0

\* /runexpiration[=n]: expired backups are deleted, the one that expired last
\* first, until none is left or more than n volumes are counted; n = 0 (or no
\* n at all) sets no limit.
RunExpiration(n) ==
    LET expired == {b \in DOMAIN backups : Expired(b)}
    IN  \E B \in (SUBSET expired) \ {{}} :
            /\ \A b \in B, c \in expired \ B : backups[b].expiredate >= backups[c].expiredate
            /\ n = 0 \/ \E b \in B : VolumesFreed(B \ {b}) <= n
            /\ B = expired \/ (n # 0 /\ VolumesFreed(B) > n)
            /\ DeleteBackupIds(B)

Tick == now' \in {t \in Time : t > now}
        /\ UNCHANGED <<volumes, backups, bck_objects, vol_obj, bck_errors>>

-----------------------------------------------------------------------------
VolumeCommand(l) ==
    \/ \E st \in {"F", "A"} : AddVolume(l, st, 0) \/ ModifyState(l, st)
    \/ \E n \in 0 .. MaxUsage : ModifyUsage(l, n)
    \/ RemoveVolume(l)

BackupCommand(b) ==
    \/ \E x \in Time : NewBackup(b, x)
    \/ \E x \in Time, e \in Time \cup {0} : ModifyBackup(b, x, e)
    \/ RemoveBackup(b)

\* b may also be 0 or the id of no backup where the handler does not look it up.
ObjectCommand(b, o, l) ==
    \/ \E given \in Instance \cup {0} : StartBackup(b, o, l, given)
    \/ \E i \in Instance : ChangeVolumeNoSegment(b, o, i, l) \/ ErrBackup(b, o, i, l)
    \/ \E i \in Instance, e \in Time, sz \in Size :
          ChangeVolume(b, o, i, l, e, sz) \/ EndBackup(b, o, i, l, e, sz)

Next ==
    \/ \E l \in Label : VolumeCommand(l)
    \/ \E b \in BckId : BackupCommand(b)
    \/ \E b \in BckId \cup {0}, e \in Time \cup {0} : FinishBackup(b, e)
    \/ \E b \in BckId \cup {0}, o \in ObjName, l \in Label : ObjectCommand(b, o, l)
    \/ \E n \in {0, 1} : RunExpiration(n)
    \/ Tick

Spec == Init /\ [][Next]_vars

-----------------------------------------------------------------------------
(* Invariants                                                              *)

\* Every table holds rows of its schema, with no null and no dangling column
\* type, after any sequence of commands.
TypeOK ==
    /\ VolumeTable(volumes)
    /\ BackupTable(backups)
    /\ ObjectTable(bck_objects)
    /\ VolObjTable(vol_obj)
    /\ ErrorTable(bck_errors)
    /\ now \in Time

\* The tape a segment is on is in the library, allocated, and assigned to the
\* segment's own backup.  So no tape that still holds data of one backup is
\* ever handed to another one, freed, or taken out of the library, whatever
\* mix of /startbackup, /change_volume, /modify, /remove and expiry is run.
SegmentsOnOwnedVolumes ==
    \A s \in vol_obj :
        /\ s.label \in DOMAIN volumes
        /\ volumes[s.label].bck_id = s.bck_id
        /\ volumes[s.label].state = "A"

\* A FREE volume belongs to no backup: /reportfree selects on the state alone
\* where its comment says `bck_id=0 and state=F', and the two agree.
FreeVolumesAreUnowned ==
    \A l \in DOMAIN volumes : volumes[l].state = "F" => volumes[l].bck_id = 0

\* The references /verify looks for hold: segment -> object -> backup, every
\* object is on some volume, an error of a backup refers to an existing one.
SegmentsHaveObjects ==
    \A s \in vol_obj : \E r \in bck_objects : IsOf(r, s.bck_id, s.objname, s.obj_instance)

ObjectsHaveSegments ==
    \A r \in bck_objects : \E s \in vol_obj : IsOf(s, r.bck_id, r.objname, r.obj_instance)

ObjectsHaveBackups == \A r \in bck_objects : r.bck_id \in DOMAIN backups

ErrorsHaveBackups ==
    \A k \in DOMAIN bck_errors : bck_errors[k].bck_id \in DOMAIN backups \cup {0}

CatalogReferences ==
    /\ SegmentsHaveObjects
    /\ ObjectsHaveSegments
    /\ ObjectsHaveBackups
    /\ ErrorsHaveBackups

-----------------------------------------------------------------------------
(* Action properties                                                       *)

\* A volume assigned to a backup never passes to another one in a single
\* step: it is first given back, and only when its backup leaves the catalogue.
VolumesReturnBeforeReuse ==
    [][\A l \in DOMAIN volumes \cap DOMAIN volumes' :
          volumes'[l].bck_id # volumes[l].bck_id /\ volumes[l].bck_id # 0 =>
              /\ volumes'[l].bck_id = 0
              /\ volumes[l].bck_id \in DOMAIN backups \ DOMAIN backups']_vars

\* The record of what is on a tape is lost only together with the backup, and
\* a segment once ended is never reopened, resized or moved.
SegmentsAreHistory ==
    [][\A s \in vol_obj :
          s.bck_id \in DOMAIN backups' =>
              IF s.end # 0 THEN s \in vol_obj'
              ELSE \E t \in vol_obj' : /\ IsOf(t, s.bck_id, s.objname, s.obj_instance)
                                      /\ t.label = s.label /\ t.fileno = s.fileno]_vars

\* When nobody answers `Y', the data of a backup is kept until it expires: no
\* step takes away the record of one of its segments, or the tape it is on,
\* while the expiry date now in the catalogue has not passed.
DataIsRetained ==
    [][\A s \in vol_obj :
          backups[s.bck_id].expiredate >= now /\ ~Confirms =>
              /\ s.label \in DOMAIN volumes' /\ volumes'[s.label].bck_id = s.bck_id
              /\ \E t \in vol_obj' : /\ IsOf(t, s.bck_id, s.objname, s.obj_instance)
                                    /\ t.label = s.label]_vars

\* The errors seen on a label outlive the backup they were reported for.
ErrorHistoryIsKept ==
    [][\A k \in DOMAIN bck_errors :
          /\ k \in DOMAIN bck_errors'
          /\ bck_errors'[k].label = bck_errors[k].label
          /\ bck_errors'[k].objname = bck_errors[k].objname
          /\ bck_errors'[k].bck_id \in {bck_errors[k].bck_id, 0}]_vars
=============================================================================
