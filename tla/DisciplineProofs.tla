--------------------------- MODULE DisciplineProofs ----------------------------
(***************************************************************************)
(* Proofs about Processes when the operators keep conflicting commands     *)
(* apart (Discipline): then the statements of several processes, killed or *)
(* not, keep what Library keeps when its commands run one after the other. *)
(***************************************************************************)
EXTENDS ProcessProofs, WellFoundedInduction

-----------------------------------------------------------------------------
(* Commands that conflict stay apart                                       *)

Apart == \A p, q \in Process : p # q => ~Conflict(proc[p], proc[q])

(* What c and d, which do not conflict, cannot have in common.             *)
Separate(c, d) ==
    /\ c.pc \in ObjectPcs \cup VolumePcs /\ d.pc \in ObjectPcs \cup VolumePcs => c.l # d.l
    /\ c.pc \in BackupPcs /\ d.pc \in ObjectPcs \cup BackupPcs => c.b # d.b
    /\ c.pc = "expire_delete" /\ d.pc \in ObjectPcs \cup BackupPcs => d.b \notin c.todo
    /\ c.pc = "expire_delete" /\ d.pc = "expire_delete" => c.todo \cap d.todo = {}
    /\ c.pc \in ObjectPcs \ StartPcs /\ d.pc \in ObjectPcs \ StartPcs =>
           ~(c.b = d.b /\ c.o = d.o /\ c.i = d.i)
    /\ c.pc \in BackupPcs /\ d.pc = "expire_delete" => c.b \notin d.todo

(* Two commands that do not conflict are separate.                         *)
LEMMA ConflictSeparates ==
    ASSUME NEW c, NEW d, CommandOK(c), CommandOK(d), ~Conflict(c, d)
    PROVE  Separate(c, d)
<1> USE DEF StartPcs, ChangePcs, EndPcs, ObjectPcs, BackupPcs, VolumePcs
<1>1. /\ Exclusive(c) \cap Exclusive(d) = {}
      /\ Exclusive(c) \cap Shared(d) = {}
  BY DEF Conflict
<1>2. ASSUME NEW k, CommandOK(k)
      PROVE  /\ k.pc \in ObjectPcs \cup VolumePcs => <<"label", k.l>> \in Exclusive(k)
             /\ k.pc \in BackupPcs => <<"backup", k.b>> \in Exclusive(k)
             /\ k.pc \in ObjectPcs => <<"backup", k.b>> \in Shared(k)
             /\ k.pc = "expire_delete" => \A b \in k.todo : <<"backup", b>> \in Exclusive(k)
             /\ k.pc \in ObjectPcs \ StartPcs => <<"object", k.b, k.o, k.i>> \in Exclusive(k)
  BY <1>2 DEF CommandOK, ObjectFields, BackupFields, VolumeFields, ExpireFields, Exclusive, Shared, Has
<1>3. c.pc \in ObjectPcs \cup VolumePcs /\ d.pc \in ObjectPcs \cup VolumePcs => c.l # d.l
  BY <1>1, <1>2
<1>4. c.pc \in BackupPcs /\ d.pc \in ObjectPcs \cup BackupPcs => c.b # d.b
  BY <1>1, <1>2
<1>5. c.pc = "expire_delete" /\ d.pc \in ObjectPcs \cup BackupPcs => d.b \notin c.todo
  BY <1>1, <1>2
<1>6. c.pc = "expire_delete" /\ d.pc = "expire_delete" => c.todo \cap d.todo = {}
  BY <1>1, <1>2
<1>7. c.pc \in ObjectPcs \ StartPcs /\ d.pc \in ObjectPcs \ StartPcs =>
          ~(c.b = d.b /\ c.o = d.o /\ c.i = d.i)
  BY <1>1, <1>2
<1>8. c.pc \in BackupPcs /\ d.pc = "expire_delete" => c.b \notin d.todo
  BY <1>1, <1>2
<1>9. QED
  BY <1>3, <1>4, <1>5, <1>6, <1>7, <1>8 DEF Separate

(* A command uses no more as it goes on, and nothing when it is done.      *)
LEMMA FollowsNarrows ==
    ASSUME NEW c, CommandOK(c), NEW new, new = Idle \/ Follows(c, new)
    PROVE  Exclusive(new) \subseteq Exclusive(c) /\ Shared(new) \subseteq Shared(c)
<1> USE DEF StartPcs, ChangePcs, EndPcs, ObjectPcs, BackupPcs, VolumePcs
<1>1. CASE new = Idle
  BY <1>1 DEF Idle, Exclusive, Shared, Has
<1>2. ASSUME NEW pc, NEW field \in {"pc", "i", "n", "from", "total"}, GoesOn(c, new, pc, field),
             c.pc # "expire_delete", field = "i" => c.name = "start",
             field \in {"i", "n", "from", "total"} => c.pc \in ObjectPcs,
             c.pc \in ObjectPcs \cup BackupPcs
      PROVE  Exclusive(new) \subseteq Exclusive(c) /\ Shared(new) \subseteq Shared(c)
  <2>1. CASE c.pc \in ObjectPcs
    <3>1. {"name", "b", "o", "l", "i"} \subseteq DOMAIN c /\ "todo" \notin DOMAIN c
      BY <2>1 DEF CommandOK, ObjectFields
    <3>2. /\ {"name", "b", "o", "l", "i"} \subseteq DOMAIN new /\ "todo" \notin DOMAIN new
          /\ new.name = c.name /\ new.b = c.b /\ new.o = c.o /\ new.l = c.l
          /\ c.name # "start" => new.i = c.i
      BY <1>2, <3>1 DEF GoesOn
    <3>3. QED
      BY <3>1, <3>2 DEF Exclusive, Shared, Has
  <2>2. CASE c.pc \in BackupPcs
    <3>1. "b" \in DOMAIN c /\ "l" \notin DOMAIN c /\ "o" \notin DOMAIN c /\ "todo" \notin DOMAIN c
      BY <2>2 DEF CommandOK, BackupFields
    <3>2. DOMAIN new = DOMAIN c \cup {"pc"} /\ new.b = c.b
      BY <1>2, <2>2, <3>1 DEF GoesOn
    <3>3. QED
      BY <3>1, <3>2 DEF Exclusive, Shared, Has
  <2>3. QED
    BY <1>2, <2>1, <2>2
<1>3. ASSUME c.pc = "expire_delete", GoesOn(c, new, "expire_delete", "todo"), new.todo \subseteq c.todo
      PROVE  Exclusive(new) \subseteq Exclusive(c) /\ Shared(new) \subseteq Shared(c)
  <2>1. "todo" \in DOMAIN c /\ "l" \notin DOMAIN c /\ "b" \notin DOMAIN c /\ "o" \notin DOMAIN c
    BY <1>3 DEF CommandOK, ExpireFields
  <2>2. DOMAIN new = DOMAIN c
    BY <1>3, <2>1 DEF GoesOn
  <2>3. QED
    BY <1>3, <2>1, <2>2 DEF Exclusive, Shared, Has
<1>4. c.pc = "start_object" => c.name = "start"
  BY DEF CommandOK, ObjectFields
<1>5. CASE Follows(c, new)
  <2>1. CASE c.pc = "expire_delete"
    BY <1>3, <1>5, <2>1 DEF Follows
  <2>2. CASE c.pc # "expire_delete"
    <3>1. \E pc, field : /\ GoesOn(c, new, pc, field)
                         /\ field \in {"pc", "i", "n", "from", "total"}
                         /\ field = "i" => c.pc = "start_object"
                         /\ field \in {"i", "n", "from", "total"} => c.pc \in ObjectPcs
                         /\ c.pc \in ObjectPcs \cup BackupPcs
      BY <1>5, <2>2 DEF Follows
    <3>2. QED
      BY <1>2, <1>4, <2>2, <3>1
  <2>3. QED
    BY <2>1, <2>2
<1>6. QED
  BY <1>1, <1>5

(* The discipline is kept from one start of a command to the next.         *)
LEMMA ApartStep ==
    ASSUME Disciplined, TypeOK, ProcOK, Apart, [PNext]_pvars
    PROVE  Apart'
<1>1. ASSUME NEW p \in Process, NEW new, proc' = [proc EXCEPT ![p] = new],
             \A q \in Process \ {p} : ~Conflict(new, proc[q])
      PROVE  Apart'
  <2>1. \A q \in Process : proc'[q] = IF q = p THEN new ELSE proc[q]
    BY <1>1 DEF ProcOK
  <2>2. \A c, d : Conflict(c, d) <=> Conflict(d, c)
    BY DEF Conflict
  <2>3. QED
    BY <1>1, <2>1, <2>2 DEF Apart
<1>2. ASSUME NEW p \in Process, NEW new, Become(p, new), new = Idle \/ Follows(proc[p], new)
      PROVE  Apart'
  <2>1. Exclusive(new) \subseteq Exclusive(proc[p]) /\ Shared(new) \subseteq Shared(proc[p])
    BY <1>2, FollowsNarrows DEF ProcOK
  <2>2. \A q \in Process \ {p} : ~Conflict(new, proc[q])
    BY <2>1 DEF Apart, Conflict
  <2>3. QED
    BY <1>1, <1>2, <2>2 DEF Become
<1>3. ASSUME UNCHANGED proc
      PROVE  Apart'
  BY <1>3 DEF Apart
<1>4. ASSUME NEW p \in Process, Command(p)
      PROVE  Apart'
  <2>1. PICK c : Begin(p, c)
    BY <1>4, BeginOK
  <2>2. QED
    BY <1>1, <2>1 DEF Begin
<1>5. ASSUME NEW p \in Process, Statement(p)
      PROVE  Apart'
  BY <1>2, <1>5, StatementSteps DEF GoesTo
<1>6. ASSUME NEW p \in Process, Kill(p)
      PROVE  Apart'
  BY <1>2, <1>6 DEF Kill, Exit
<1>7. CASE SingleInsert \/ (Tick /\ UNCHANGED <<proc, started>>) \/ UNCHANGED pvars
  BY <1>3, <1>7 DEF SingleInsert, pvars
<1>8. QED
  BY <1>4, <1>5, <1>6, <1>7 DEF PNext

-----------------------------------------------------------------------------
(* What a command has looked up stays true until it uses it                *)

(* The statements of a command that has claimed its volume.                *)
ClaimedPcs == {"start_object", "start_count", "start_segment", "change_find", "change_end", "change_segment"}

(* ... and of one that works on an object that is in the catalogue.        *)
KeyPcs == {"start_count", "start_segment", "change_end", "change_segment", "err_insert"} \cup EndPcs

VolReady(vols, d) ==
    /\ d.pc \in {"start_claim", "change_claim"} => d.l \in DOMAIN vols /\ vols[d.l].bck_id \in {0, d.b}
    /\ d.pc \in ClaimedPcs =>
           d.l \in DOMAIN vols /\ vols[d.l].bck_id = d.b /\ vols[d.l].state = "A"
    /\ d.pc \in VolumePcs => d.l \in DOMAIN vols /\ vols[d.l].bck_id = 0

BckReady(bcks, t, d) ==
    /\ d.pc \in StartPcs => d.b \in DOMAIN bcks
    /\ d.pc = "remove_delete" => d.b \in DOMAIN bcks /\ (bcks[d.b].expiredate < t \/ Confirms)
    /\ d.pc = "expire_delete" => \A b \in d.todo : b \in DOMAIN bcks /\ bcks[b].expiredate < t

ObjReady(objs, d) == d.pc \in KeyPcs => HasRow(objs, d.b, d.o, d.i)

Ready(vols, bcks, t, objs, d) == VolReady(vols, d) /\ BckReady(bcks, t, d) /\ ObjReady(objs, d)

(* What the disciplined processes keep of the references of Library: not   *)
(* that an object has a segment, which a killed /startbackup leaves undone.*)
NoDangling ==
    /\ Matched(vol_obj, bck_objects)
    /\ ObjectsKept(bck_objects, backups)
    /\ ErrorsKept(bck_errors, backups)

(* A volume table that has row l as it was.                                *)
SameVolume(old, new, l) ==
    l \in DOMAIN old => l \in DOMAIN new /\ new[l].bck_id = old[l].bck_id /\ new[l].state = old[l].state

(* What is known of a volume holds as long as its row is not changed.      *)
LEMMA SameVolumeReady ==
    ASSUME NEW old, NEW new, NEW d, SameVolume(old, new, d.l), VolReady(old, d)
    PROVE  VolReady(new, d)
  BY DEF SameVolume, VolReady

(* A command is where it may use volume l: no other command does.          *)
LEMMA VolumeOfOthers ==
    ASSUME NEW c, NEW d, Separate(c, d), c.pc \in ObjectPcs \cup VolumePcs,
           NEW vols, NEW new, VolReady(vols, d),
           \A k \in DOMAIN vols \ {c.l} : k \in DOMAIN new /\ new[k] = vols[k]
    PROVE  VolReady(new, d)
<1>1. CASE d.pc \in ObjectPcs \cup VolumePcs
  <2>1. d.l # c.l
    BY <1>1 DEF Separate
  <2>2. SameVolume(vols, new, d.l)
    BY <2>1 DEF SameVolume
  <2>3. QED
    BY <2>2, SameVolumeReady
<1>2. CASE d.pc \notin ObjectPcs \cup VolumePcs
  BY <1>2 DEF VolReady, ClaimedPcs, ObjectPcs, StartPcs, ChangePcs, VolumePcs
<1>3. QED
  BY <1>1, <1>2

(* A write of c leaves to d the volume that d has looked up.               *)
LEMMA OthersVolReady ==
    ASSUME TypeOK, NEW c, CommandOK(c), NEW d, CommandOK(d), Separate(c, d), Writes(c),
           VolReady(volumes, d)
    PROVE  VolReady(volumes', d)
<1> USE DEF ObjectPcs, BackupPcs, VolumePcs, StartPcs, ChangePcs, EndPcs
<1>1. ASSUME \A k \in DOMAIN volumes : SameVolume(volumes, volumes', k)
      PROVE  VolReady(volumes', d)
  <2>1. SameVolume(volumes, volumes', d.l)
    BY <1>1 DEF SameVolume
  <2>2. QED
    BY <2>1, SameVolumeReady
<1>2. ASSUME UNCHANGED volumes
      PROVE  VolReady(volumes', d)
  BY <1>2
<1>3. CASE c.pc \in {"start_claim", "change_claim"} /\ Claim(c.l, c.b)
  <2>1. \A k \in DOMAIN volumes \ {c.l} : k \in DOMAIN volumes' /\ volumes'[k] = volumes[k]
    BY <1>3 DEF Claim, SetVolumeUsed
  <2>2. QED
    BY <1>3, <2>1, VolumeOfOthers
<1>4. CASE c.pc = "finish_usage" /\ WriteVolumes(IncVolumeUsage(volumes, c.b))
  BY <1>1, <1>4, IncVolumeUsageTable DEF WriteVolumes, SameVolume, TypeOK
<1>5. ASSUME NEW B \in SUBSET BckId, DeleteBackupIds(B),
             d.pc \in ObjectPcs => d.b \notin B
      PROVE  VolReady(volumes', d)
  <2>1. /\ DOMAIN volumes' = DOMAIN volumes
        /\ \A k \in DOMAIN volumes :
              /\ volumes[k].bck_id \in B => volumes'[k].bck_id = 0
              /\ volumes[k].bck_id \notin B => volumes'[k] = volumes[k]
    BY <1>5, FreeVolumesTable DEF DeleteBackupIds, TypeOK
  <2>2. 0 \notin B
    BY CatalogAssumption
  <2>3. CASE d.pc \in ClaimedPcs
    BY <1>5, <2>1, <2>3 DEF VolReady, ClaimedPcs
  <2>4. CASE d.pc \in {"start_claim", "change_claim"}
    BY <2>1, <2>4 DEF VolReady, ClaimedPcs
  <2>5. CASE d.pc \in VolumePcs
    BY <2>1, <2>2, <2>5 DEF VolReady, ClaimedPcs
  <2>6. QED
    BY <2>3, <2>4, <2>5 DEF VolReady
<1>6. CASE c.pc = "remove_delete" /\ DeleteBackupIds({c.b})
  <2>1. {c.b} \in SUBSET BckId
    BY <1>6 DEF CommandOK, BackupFields
  <2>2. d.pc \in ObjectPcs => d.b \notin {c.b}
    BY <1>6 DEF Separate
  <2>3. QED
    BY <1>5, <1>6, <2>1, <2>2
<1>7. ASSUME c.pc = "expire_delete", NEW b \in c.todo, DeleteBackupIds({b})
      PROVE  VolReady(volumes', d)
  <2>1. {b} \in SUBSET BckId
    BY <1>7 DEF CommandOK, ExpireFields
  <2>2. d.pc \in ObjectPcs => d.b \notin {b}
    BY <1>7 DEF Separate
  <2>3. QED
    BY <1>5, <1>7, <2>1, <2>2
<1>8. CASE c.pc = "state_write" /\ WriteVolumes(SetState(volumes, c.l, c.st))
  <2>1. \A k \in DOMAIN volumes \ {c.l} : k \in DOMAIN volumes' /\ volumes'[k] = volumes[k]
    BY <1>8 DEF WriteVolumes, SetState
  <2>2. QED
    BY <1>8, <2>1, VolumeOfOthers
<1>9. CASE c.pc = "take_out_delete" /\ WriteVolumes(DeleteVolume(volumes, c.l))
  <2>1. \A k \in DOMAIN volumes \ {c.l} : k \in DOMAIN volumes' /\ volumes'[k] = volumes[k]
    BY <1>9 DEF WriteVolumes, DeleteVolume
  <2>2. QED
    BY <1>9, <2>1, VolumeOfOthers
<1>10. ASSUME NEW objs, NEW segs, NEW errs, NEW b, NEW row,
              WriteObjects(objs) \/ WriteSegments(segs) \/ WriteErrors(errs) \/ WriteBackup(b, row)
       PROVE  UNCHANGED volumes
  BY <1>10 DEF WriteObjects, WriteSegments, WriteErrors, WriteBackup
<1>11. QED
  BY <1>2, <1>3, <1>4, <1>6, <1>7, <1>8, <1>9, <1>10 DEF Writes

(* ... and the backups.                                                    *)
LEMMA OthersBckReady ==
    ASSUME TypeOK, NEW c, CommandOK(c), NEW d, CommandOK(d), Separate(c, d), Writes(c),
           BckReady(backups, now, d)
    PROVE  BckReady(backups', now', d)
<1> USE DEF ObjectPcs, BackupPcs, VolumePcs, StartPcs, ChangePcs, EndPcs
<1>1. ASSUME UNCHANGED <<backups, now>>
      PROVE  BckReady(backups', now', d)
  BY <1>1
<1>2. ASSUME NEW B, DeleteBackupIds(B),
             d.pc \in ObjectPcs \cup BackupPcs => d.b \notin B,
             d.pc = "expire_delete" => d.todo \cap B = {}
      PROVE  BckReady(backups', now', d)
  <2>1. /\ now' = now
        /\ DOMAIN backups' = DOMAIN backups \ B
        /\ \A b \in DOMAIN backups \ B : backups'[b] = backups[b]
    BY <1>2 DEF DeleteBackupIds, DeleteBackups
  <2>2. QED
    BY <1>2, <2>1 DEF BckReady
<1>3. CASE c.pc = "remove_delete" /\ DeleteBackupIds({c.b})
  <2>1. /\ d.pc \in ObjectPcs \cup BackupPcs => d.b \notin {c.b}
        /\ d.pc = "expire_delete" => d.todo \cap {c.b} = {}
    BY <1>3 DEF Separate
  <2>2. QED
    BY <1>2, <1>3, <2>1
<1>4. ASSUME c.pc = "expire_delete", NEW b \in c.todo, DeleteBackupIds({b})
      PROVE  BckReady(backups', now', d)
  <2>1. /\ d.pc \in ObjectPcs \cup BackupPcs => d.b \notin {b}
        /\ d.pc = "expire_delete" => d.todo \cap {b} = {}
    BY <1>4 DEF Separate
  <2>2. QED
    BY <1>2, <1>4, <2>1
<1>5. ASSUME c.pc \in BackupPcs, NEW row, WriteBackup(c.b, row)
      PROVE  BckReady(backups', now', d)
  <2>1. /\ now' = now
        /\ DOMAIN backups' = DOMAIN backups
        /\ \A b \in DOMAIN backups \ {c.b} : backups'[b] = backups[b]
    BY <1>5 DEF WriteBackup, UpdateBackup
  <2>2. d.pc \in BackupPcs => d.b # c.b
    BY <1>5 DEF Separate
  <2>3. d.pc = "expire_delete" => c.b \notin d.todo
    BY <1>5 DEF Separate
  <2>4. QED
    BY <2>1, <2>2, <2>3 DEF BckReady
<1>6. ASSUME NEW l, NEW b, NEW vols, NEW objs, NEW segs, NEW errs,
             Claim(l, b) \/ WriteVolumes(vols) \/ WriteObjects(objs) \/ WriteSegments(segs) \/ WriteErrors(errs)
      PROVE  UNCHANGED <<backups, now>>
  BY <1>6 DEF Claim, WriteVolumes, WriteObjects, WriteSegments, WriteErrors
<1>7. QED
  BY <1>1, <1>3, <1>4, <1>5, <1>6 DEF Writes

(* ... and the object.                                                     *)
LEMMA OthersObjReady ==
    ASSUME NEW c, NEW d, Separate(c, d), Writes(c), ObjReady(bck_objects, d)
    PROVE  ObjReady(bck_objects', d)
<1> USE DEF ObjectPcs, BackupPcs, VolumePcs, StartPcs, ChangePcs, EndPcs, KeyPcs
<1> DEFINE kept == d.pc \in KeyPcs => HasRow(bck_objects', d.b, d.o, d.i)
<1>1. CASE UNCHANGED bck_objects
  BY <1>1
<1>2. ASSUME NEW b, NEW o, NEW i, WriteObjects(InsertBckObject(bck_objects, b, o, i))
      PROVE  kept
  <2>1. AddsKey(bck_objects, bck_objects', b, o, i)
    BY <1>2, InsertedKeys DEF WriteObjects
  <2>2. QED
    BY <2>1 DEF ObjReady, AddsKey
<1>3. ASSUME NEW b, NEW o, NEW i, NEW e, NEW total,
             WriteObjects(EndBckObject(bck_objects, b, o, i, e, total))
      PROVE  kept
  <2>1. SameKeys(bck_objects, bck_objects')
    BY <1>3, EndedKeys DEF WriteObjects
  <2>2. QED
    BY <2>1 DEF ObjReady, SameKeys
<1>4. ASSUME NEW B, DeleteBackupIds(B), d.pc \in ObjectPcs => d.b \notin B
      PROVE  kept
  <2>1. bck_objects' = DeleteRows(bck_objects, B)
    BY <1>4 DEF DeleteBackupIds
  <2>2. QED
    BY <1>4, <2>1, DeletedKeys DEF ObjReady
<1>5. CASE c.pc = "remove_delete" /\ DeleteBackupIds({c.b})
  <2>1. d.pc \in ObjectPcs => d.b \notin {c.b}
    BY <1>5 DEF Separate
  <2>2. QED
    BY <1>4, <1>5, <2>1 DEF ObjReady
<1>6. ASSUME c.pc = "expire_delete", NEW b \in c.todo, DeleteBackupIds({b})
      PROVE  kept
  <2>1. d.pc \in ObjectPcs => d.b \notin {b}
    BY <1>6 DEF Separate
  <2>2. QED
    BY <1>4, <1>6, <2>1
<1>7. ASSUME NEW l, NEW b, NEW row, NEW vols, NEW segs, NEW errs,
             Claim(l, b) \/ WriteVolumes(vols) \/ WriteSegments(segs) \/ WriteErrors(errs) \/ WriteBackup(b, row)
      PROVE  UNCHANGED bck_objects
  BY <1>7 DEF Claim, WriteVolumes, WriteSegments, WriteErrors, WriteBackup
<1>8. QED
  BY <1>1, <1>2, <1>3, <1>5, <1>6, <1>7 DEF Writes, ObjReady

(* A command that has just started has looked up what it needs.            *)
LEMMA StartsReady ==
    ASSUME TypeOK, NoDangling, NEW c, CommandOK(c), Starts(c)
    PROVE  Ready(volumes, backups, now, bck_objects, c)
<1> USE DEF ObjectPcs, BackupPcs, VolumePcs, StartPcs, ChangePcs, EndPcs, KeyPcs
<1>1. VolReady(volumes, c)
  <2>1. CASE c.pc = "change_claim"
    BY <2>1, UsableVolume DEF Starts, VolReady, ClaimedPcs
  <2>2. CASE c.pc = "take_out_delete"
    BY <2>2 DEF Starts, VolReady, ClaimedPcs, CanUse
  <2>3. QED
    BY <2>1, <2>2 DEF Starts, VolReady, ClaimedPcs
<1>2. BckReady(backups, now, c)
  BY DEF Starts, BckReady, Expired
<1>3. ObjReady(bck_objects, c)
  <2>1. ASSUME CurrentVolObjs(vol_obj, c.b, c.o, c.i) # {}
        PROVE  HasRow(bck_objects, c.b, c.o, c.i)
    <3>1. HasRow(vol_obj, c.b, c.o, c.i)
      BY <2>1 DEF CurrentVolObjs, HasRow
    <3>2. QED
      BY <3>1 DEF NoDangling, Matched
  <2>2. QED
    BY <2>1 DEF Starts, ObjReady
<1>4. QED
  BY <1>1, <1>2, <1>3 DEF Ready

(* A statement leaves its own command ready for the next one.              *)
LEMMA OwnReady ==
    ASSUME TypeOK, NoDangling, NEW c, CommandOK(c), NEW new, Follows(c, new), Writes(c) \/ Reads(c),
           Ready(volumes, backups, now, bck_objects, c)
    PROVE  Ready(volumes', backups', now', bck_objects', new)
<1> USE DEF ObjectPcs, BackupPcs, VolumePcs, StartPcs, ChangePcs, EndPcs, KeyPcs, ClaimedPcs
<1>1. ASSUME NEW field \in {"pc", "i", "n", "from", "total"}, GoesOn(c, new, new.pc, field), c.pc \in ObjectPcs
      PROVE  new.b = c.b /\ new.o = c.o /\ new.l = c.l /\ (field # "i" => new.i = c.i)
  BY <1>1 DEF GoesOn, CommandOK, ObjectFields
<1>2. CASE c.pc = "start_can_use"
  <2>1. new.pc = "start_claim" /\ new.b = c.b /\ new.l = c.l /\ Usable(volumes, c.l, c.b)
    BY <1>1, <1>2 DEF Follows, GoesOn
  <2>2. UNCHANGED <<volumes, backups, now, bck_objects>>
    BY <1>2 DEF Writes, Reads, ReadOnly, vars
  <2>3. QED
    BY <1>2, <2>1, <2>2, UsableVolume DEF Ready, VolReady, BckReady, ObjReady
<1>3. CASE c.pc = "start_claim" \/ c.pc = "change_claim"
  <2>1. new.pc \in {"start_object", "change_find"} /\ new.b = c.b /\ new.l = c.l
        /\ (new.pc = "start_object" => c.pc = "start_claim")
    BY <1>1, <1>3 DEF Follows, GoesOn
  <2>2. Claim(c.l, c.b)
    BY <1>3 DEF Writes, Reads
  <2>3. UNCHANGED <<backups, now, bck_objects>>
    BY <2>2 DEF Claim
  <2>4. c.l \in DOMAIN volumes
    BY <1>3 DEF Ready, VolReady
  <2>5. c.l \in DOMAIN volumes' /\ volumes'[c.l].bck_id = c.b /\ volumes'[c.l].state = "A"
    BY <2>2, <2>4 DEF Claim, SetVolumeUsed
  <2>6. QED
    BY <1>3, <2>1, <2>3, <2>5 DEF Ready, VolReady, BckReady, ObjReady
<1>4. CASE c.pc = "start_object"
  <2>1. /\ new.pc = "start_count" /\ new.b = c.b /\ new.o = c.o /\ new.l = c.l
        /\ new.i = ObjInstance(bck_objects, c.b, c.o, c.i)
    BY <1>1, <1>4 DEF Follows, GoesOn
  <2>2. WriteObjects(InsertBckObject(bck_objects, c.b, c.o, new.i))
    BY <1>4, <2>1 DEF Writes, Reads
  <2>3. AddsKey(bck_objects, bck_objects', c.b, c.o, new.i)
    BY <2>2, InsertedKeys DEF WriteObjects
  <2>4. HasRow(bck_objects', c.b, c.o, new.i)
    BY <2>3 DEF AddsKey
  <2>5. UNCHANGED <<volumes, backups, now>>
    BY <2>2 DEF WriteObjects
  <2>6. QED
    BY <1>4, <2>1, <2>4, <2>5 DEF Ready, VolReady, BckReady, ObjReady
<1>5. CASE c.pc = "start_count"
  <2>1. new.pc = "start_segment" /\ new.b = c.b /\ new.o = c.o /\ new.l = c.l /\ new.i = c.i
    BY <1>1, <1>5 DEF Follows, GoesOn
  <2>2. UNCHANGED <<volumes, backups, now, bck_objects>>
    BY <1>5 DEF Writes, Reads, ReadOnly, vars
  <2>3. QED
    BY <1>5, <2>1, <2>2 DEF Ready, VolReady, BckReady, ObjReady
<1>6. CASE c.pc = "change_find"
  <2>1. /\ new.pc = "change_end" /\ new.b = c.b /\ new.o = c.o /\ new.l = c.l /\ new.i = c.i
        /\ CurrentVolObjs(vol_obj, c.b, c.o, c.i) # {}
    BY <1>1, <1>6 DEF Follows, GoesOn
  <2>2. UNCHANGED <<volumes, backups, now, bck_objects>>
    BY <1>6 DEF Writes, Reads, ReadOnly, vars
  <2>3. HasRow(bck_objects, c.b, c.o, c.i)
    <3>1. HasRow(vol_obj, c.b, c.o, c.i)
      BY <2>1 DEF CurrentVolObjs, HasRow
    <3>2. QED
      BY <3>1 DEF NoDangling, Matched
  <2>4. QED
    BY <1>6, <2>1, <2>2, <2>3 DEF Ready, VolReady, BckReady, ObjReady
<1>7. CASE c.pc \in {"change_end", "end_segment", "end_sum"}
  <2>1. /\ new.pc \in {"change_segment", "end_sum", "end_object"}
        /\ new.pc = "change_segment" => c.pc = "change_end"
        /\ new.b = c.b /\ new.o = c.o /\ new.l = c.l /\ new.i = c.i
    BY <1>1, <1>7 DEF Follows, GoesOn
  <2>2. UNCHANGED <<volumes, backups, now, bck_objects>>
    BY <1>7 DEF Writes, WriteSegments, Reads, ReadOnly, vars
  <2>3. QED
    BY <1>7, <2>1, <2>2 DEF Ready, VolReady, BckReady, ObjReady
<1>8. CASE c.pc = "finish_usage"
  <2>1. new.pc = "finish_update"
    BY <1>8 DEF Follows, GoesOn
  <2>2. QED
    BY <2>1 DEF Ready, VolReady, BckReady, ObjReady
<1>9. CASE c.pc = "expire_delete"
  <2>1. PICK b \in c.todo : DeleteBackupIds({b}) /\ new.todo = c.todo \ {b}
    BY <1>9 DEF Follows
  <2>2. new.pc = "expire_delete"
    BY <1>9 DEF Follows, GoesOn
  <2>3. /\ now' = now
        /\ DOMAIN backups' = DOMAIN backups \ {b}
        /\ \A k \in DOMAIN backups \ {b} : backups'[k] = backups[k]
    BY <2>1 DEF DeleteBackupIds, DeleteBackups
  <2>4. QED
    BY <1>9, <2>1, <2>2, <2>3 DEF Ready, VolReady, BckReady, ObjReady
<1>10. QED
  BY <1>2, <1>3, <1>4, <1>5, <1>6, <1>7, <1>8, <1>9 DEF Follows

-----------------------------------------------------------------------------
(* What the statements of a ready command do to the catalogue              *)

(* They hand no tape that holds data to anyone.                            *)
LEMMA WriteOwnership ==
    ASSUME TypeOK, Ownership, NEW c, CommandOK(c), VolReady(volumes, c), Writes(c)
    PROVE  Ownership'
<1> USE DEF ObjectPcs, BackupPcs, VolumePcs, StartPcs, ChangePcs, EndPcs, ClaimedPcs
<1>1. ASSUME NEW vols, WriteVolumes(vols), Owned(vols, vol_obj), FreeUnowned(vols)
      PROVE  Ownership'
  BY <1>1 DEF WriteVolumes, Ownership
<1>2. ASSUME NEW segs, WriteSegments(segs), Owned(volumes, segs)
      PROVE  Ownership'
  BY <1>2 DEF WriteSegments, Ownership
<1>3. ASSUME UNCHANGED <<volumes, vol_obj>>
      PROVE  Ownership'
  BY <1>3 DEF Ownership
<1>4. Owned(volumes, vol_obj) /\ FreeUnowned(volumes)
  BY DEF Ownership
<1>5. CASE c.pc \in {"start_claim", "change_claim"} /\ Claim(c.l, c.b)
  <2>1. c.l \in DOMAIN volumes /\ Usable(volumes, c.l, c.b)
    BY <1>5 DEF VolReady, Usable, CanUse
  <2>2. c.b \in BckId
    BY <1>5 DEF CommandOK, ObjectFields
  <2>3. volumes' = SetVolumeUsed(volumes, c.l, c.b) /\ vol_obj' = vol_obj
    BY <1>5, <2>1 DEF Claim
  <2>4. QED
    BY <1>4, <2>1, <2>2, <2>3, ClaimKeepsOwners DEF TypeOK, Ownership
<1>6. CASE /\ c.pc \in {"start_segment", "change_segment"}
           /\ \E n : WriteSegments(InsertVolObj(vol_obj, c.b, c.o, c.i, c.l, n))
  <2>1. c.l \in DOMAIN volumes /\ volumes[c.l].bck_id = c.b /\ volumes[c.l].state = "A"
    BY <1>6 DEF VolReady
  <2>2. QED
    BY <1>2, <1>4, <1>6, <2>1, SegmentsStayOwned
<1>7. ASSUME NEW b, NEW o, NEW i, NEW l, NEW e, NEW sz,
             WriteSegments(EndVolObj(vol_obj, b, o, i, l, e, sz))
      PROVE  Ownership'
  BY <1>2, <1>4, <1>7, SegmentsStayOwned
<1>8. CASE c.pc = "finish_usage" /\ WriteVolumes(IncVolumeUsage(volumes, c.b))
  <2>1. /\ DOMAIN volumes' = DOMAIN volumes /\ vol_obj' = vol_obj
        /\ \A k \in DOMAIN volumes : /\ volumes'[k].bck_id = volumes[k].bck_id
                                     /\ volumes'[k].state = volumes[k].state
    BY <1>8, IncVolumeUsageTable DEF WriteVolumes, TypeOK
  <2>2. QED
    BY <1>4, <2>1 DEF Ownership, Owned, FreeUnowned
<1>9. ASSUME NEW B, DeleteBackupIds(B)
      PROVE  Ownership'
  BY <1>9, DeleteOwnership
<1>10. ASSUME c.pc \in VolumePcs
       PROVE  /\ c.l \in DOMAIN volumes /\ volumes[c.l].bck_id = 0
              /\ \A s \in vol_obj : s.label # c.l
  <2>1. c.l \in DOMAIN volumes /\ volumes[c.l].bck_id = 0
    BY <1>10 DEF VolReady
  <2>2. \A s \in vol_obj : s.bck_id # 0
    BY SegmentIds DEF TypeOK
  <2>3. QED
    BY <1>4, <2>1, <2>2 DEF Owned
<1>11. CASE c.pc = "state_write" /\ WriteVolumes(SetState(volumes, c.l, c.st))
  <2>1. /\ DOMAIN volumes' = DOMAIN volumes /\ vol_obj' = vol_obj
        /\ \A k \in DOMAIN volumes : volumes'[k].bck_id = volumes[k].bck_id
        /\ \A k \in DOMAIN volumes \ {c.l} : volumes'[k] = volumes[k]
    <3>1. c.st \in {"F", "A"}
      BY <1>11 DEF CommandOK, VolumeFields
    <3>2. QED
      BY <1>11, <3>1, SetStateTable DEF WriteVolumes, TypeOK
  <2>2. QED
    BY <1>4, <1>10, <1>11, <2>1 DEF Ownership, Owned, FreeUnowned
<1>12. CASE c.pc = "take_out_delete" /\ WriteVolumes(DeleteVolume(volumes, c.l))
  <2>1. /\ DOMAIN volumes' = DOMAIN volumes \ {c.l} /\ vol_obj' = vol_obj
        /\ \A k \in DOMAIN volumes \ {c.l} : volumes'[k] = volumes[k]
    BY <1>12 DEF WriteVolumes, DeleteVolume
  <2>2. QED
    BY <1>4, <1>10, <1>12, <2>1 DEF Ownership, Owned, FreeUnowned
<1>13. ASSUME NEW objs, NEW errs, NEW b, NEW row,
              WriteObjects(objs) \/ WriteErrors(errs) \/ WriteBackup(b, row)
       PROVE  UNCHANGED <<volumes, vol_obj>>
  BY <1>13 DEF WriteObjects, WriteErrors, WriteBackup
<1>14. QED
  BY <1>3, <1>5, <1>6, <1>7, <1>8, <1>9, <1>11, <1>12, <1>13 DEF Writes

(* They write no row that refers to one that is not there.                 *)
LEMMA WriteReferences ==
    ASSUME TypeOK, NoDangling, NEW c, CommandOK(c), Writes(c),
           BckReady(backups, now, c), ObjReady(bck_objects, c)
    PROVE  NoDangling'
<1> USE DEF ObjectPcs, BackupPcs, VolumePcs, StartPcs, ChangePcs, EndPcs, KeyPcs
<1>1. ASSUME UNCHANGED <<backups, bck_errors>>,
             Matched(vol_obj', bck_objects'), ObjectsKept(bck_objects', backups)
      PROVE  NoDangling'
  BY <1>1 DEF NoDangling
<1>2. ASSUME UNCHANGED <<backups, bck_errors>>,
             SameKeys(vol_obj, vol_obj'), SameKeys(bck_objects, bck_objects')
      PROVE  NoDangling'
  BY <1>1, <1>2 DEF NoDangling, Matched, ObjectsKept, SameKeys
<1>3. ASSUME UNCHANGED <<bck_objects, vol_obj, bck_errors>>, DOMAIN backups' = DOMAIN backups
      PROVE  NoDangling'
  BY <1>3 DEF NoDangling, Matched, ObjectsKept, ErrorsKept
<1>4. CASE c.pc = "start_object" /\ \E i : WriteObjects(InsertBckObject(bck_objects, c.b, c.o, i))
  <2>1. PICK i : WriteObjects(InsertBckObject(bck_objects, c.b, c.o, i))
    BY <1>4
  <2>2. AddsKey(bck_objects, bck_objects', c.b, c.o, i)
    BY <2>1, InsertedKeys DEF WriteObjects
  <2>3. UNCHANGED <<backups, vol_obj, bck_errors>> /\ c.b \in DOMAIN backups
    BY <1>4, <2>1 DEF WriteObjects, BckReady
  <2>4. QED
    BY <1>1, <2>2, <2>3 DEF NoDangling, Matched, ObjectsKept, AddsKey
<1>5. CASE /\ c.pc \in {"start_segment", "change_segment"}
           /\ \E n : WriteSegments(InsertVolObj(vol_obj, c.b, c.o, c.i, c.l, n))
  <2>1. AddsKey(vol_obj, vol_obj', c.b, c.o, c.i)
    BY <1>5, InsertedKeys DEF WriteSegments
  <2>2. UNCHANGED <<backups, bck_objects, bck_errors>>
    BY <1>5 DEF WriteSegments
  <2>3. HasRow(bck_objects, c.b, c.o, c.i)
    BY <1>5 DEF ObjReady
  <2>4. QED
    BY <1>1, <2>1, <2>2, <2>3 DEF NoDangling, Matched, AddsKey
<1>6. ASSUME NEW b, NEW o, NEW i, NEW l, NEW e, NEW sz,
             WriteSegments(EndVolObj(vol_obj, b, o, i, l, e, sz))
      PROVE  NoDangling'
  <2>1. SameKeys(vol_obj, vol_obj')
    BY <1>6, EndedKeys DEF WriteSegments
  <2>2. QED
    BY <1>2, <1>6, <2>1 DEF WriteSegments, SameKeys
<1>7. ASSUME NEW b, NEW o, NEW i, NEW e, NEW total,
             WriteObjects(EndBckObject(bck_objects, b, o, i, e, total))
      PROVE  NoDangling'
  <2>1. SameKeys(bck_objects, bck_objects')
    BY <1>7, EndedKeys DEF WriteObjects
  <2>2. QED
    BY <1>2, <1>7, <2>1 DEF WriteObjects, SameKeys
<1>8. CASE c.pc = "err_insert" /\ WriteErrors(InsertBckError(bck_errors, c.l, c.b, c.o, c.i))
  <2>1. c.b \in BckId /\ c.o \in ObjName /\ c.l \in Label /\ c.i \in Instance
    BY <1>8 DEF CommandOK, ObjectFields
  <2>2. c.b \in DOMAIN backups
    BY <1>8 DEF ObjReady, NoDangling, ObjectsKept
  <2>3. ErrorsKept(bck_errors', backups)
    BY <1>8, <2>1, <2>2, InsertedErrors DEF WriteErrors, TypeOK, NoDangling
  <2>4. QED
    BY <1>8, <2>3 DEF WriteErrors, NoDangling
<1>9. ASSUME NEW B, DeleteBackupIds(B)
      PROVE  NoDangling'
  BY <1>9, DeleteReferences DEF TypeOK, NoDangling
<1>10. ASSUME NEW l, NEW b, NEW row, NEW vols, Claim(l, b) \/ WriteVolumes(vols) \/ WriteBackup(b, row)
       PROVE  NoDangling'
  BY <1>3, <1>10 DEF Claim, WriteVolumes, WriteBackup, UpdateBackup
<1>11. QED
  BY <1>4, <1>5, <1>6, <1>7, <1>8, <1>9, <1>10 DEF Writes

-----------------------------------------------------------------------------
(* The invariant of the disciplined processes                              *)

AllReady == \A p \in Process : Ready(volumes, backups, now, bck_objects, proc[p])

Disciplines == TypeOK /\ ProcOK /\ Apart /\ Ownership /\ NoDangling /\ AllReady

(* An idle process waits for nothing.                                      *)
LEMMA IdleReady == \A vols, bcks, t, objs : Ready(vols, bcks, t, objs, Idle)
  BY IdleOK DEF Ready, VolReady, BckReady, ObjReady, ClaimedPcs, KeyPcs, StartPcs, EndPcs, VolumePcs

(* Writes that no command is about to repeat leave all of them ready.      *)
LEMMA OthersReady ==
    ASSUME Disciplines, NEW p \in Process, Writes(proc[p]) \/ Reads(proc[p])
    PROVE  \A q \in Process \ {p} : Ready(volumes', backups', now', bck_objects', proc[q])
<1> SUFFICES ASSUME NEW q \in Process \ {p}
             PROVE  Ready(volumes', backups', now', bck_objects', proc[q])
  OBVIOUS
<1>1. /\ CommandOK(proc[p]) /\ CommandOK(proc[q])
      /\ TypeOK /\ Ready(volumes, backups, now, bck_objects, proc[q])
  BY DEF Disciplines, ProcOK, AllReady
<1>2. Separate(proc[p], proc[q])
  BY <1>1, ConflictSeparates DEF Disciplines, Apart
<1>3. CASE Reads(proc[p])
  <2>1. UNCHANGED <<volumes, backups, now, bck_objects>>
    BY <1>3 DEF Reads, ReadOnly, vars
  <2>2. QED
    BY <1>1, <2>1
<1>4. CASE Writes(proc[p])
  BY <1>1, <1>2, <1>4, OthersVolReady, OthersBckReady, OthersObjReady DEF Ready
<1>5. QED
  BY <1>3, <1>4

(* The statements of a process keep the catalogue and leave everyone ready.*)
LEMMA StatementDisciplines ==
    ASSUME Disciplines, NEW p \in Process, Statement(p)
    PROVE  Ownership' /\ NoDangling' /\ AllReady'
<1>1. /\ TypeOK /\ ProcOK /\ Ownership /\ NoDangling /\ CommandOK(proc[p])
      /\ Ready(volumes, backups, now, bck_objects, proc[p])
  BY DEF Disciplines, ProcOK, AllReady
<1>2. (Writes(proc[p]) \/ Reads(proc[p])) /\ GoesTo(p)
  BY <1>1, StatementSteps
<1>3. Ownership' /\ NoDangling'
  <2>1. CASE Reads(proc[p])
    <3>1. UNCHANGED <<volumes, backups, bck_objects, vol_obj, bck_errors>>
      BY <2>1 DEF Reads, ReadOnly, vars
    <3>2. QED
      BY <1>1, <3>1 DEF Ownership, NoDangling
  <2>2. CASE Writes(proc[p])
    BY <1>1, <2>2, WriteOwnership, WriteReferences DEF Ready
  <2>3. QED
    BY <1>2, <2>1, <2>2
<1>4. PICK new : Become(p, new) /\ (new = Idle \/ Follows(proc[p], new))
  BY <1>2 DEF GoesTo
<1>5. Ready(volumes', backups', now', bck_objects', new)
  <2>1. CASE new = Idle
    BY <2>1, IdleReady
  <2>2. CASE Follows(proc[p], new)
    BY <1>1, <1>2, <2>2, OwnReady
  <2>3. QED
    BY <1>4, <2>1, <2>2
<1>6. \A q \in Process : proc'[q] = IF q = p THEN new ELSE proc[q]
  BY <1>1, <1>4 DEF Become, ProcOK
<1>7. \A q \in Process \ {p} : Ready(volumes', backups', now', bck_objects', proc[q])
  BY <1>2, OthersReady
<1>8. ASSUME NEW q \in Process
      PROVE  Ready(volumes', backups', now', bck_objects', proc'[q])
  <2>1. CASE q = p
    BY <1>5, <1>6, <2>1
  <2>2. CASE q # p
    BY <1>6, <1>7, <2>2
  <2>3. QED
    BY <2>1, <2>2
<1>9. QED
  BY <1>3, <1>8 DEF AllReady

(* A new command is ready, and the others stay so.                         *)
LEMMA CommandDisciplines ==
    ASSUME Disciplines, NEW p \in Process, Command(p)
    PROVE  Ownership' /\ NoDangling' /\ AllReady'
<1>1. PICK c : Begin(p, c) /\ CommandOK(c) /\ Starts(c) /\ ReadOnly
  BY BeginOK DEF Disciplines
<1>2. UNCHANGED <<volumes, backups, bck_objects, vol_obj, bck_errors, now>>
  BY <1>1 DEF ReadOnly, vars
<1>3. Ready(volumes, backups, now, bck_objects, c)
  BY <1>1, StartsReady DEF Disciplines
<1>4. \A q \in Process : proc'[q] = IF q = p THEN c ELSE proc[q]
  BY <1>1 DEF Begin, Disciplines, ProcOK
<1>5. ASSUME NEW q \in Process
      PROVE  Ready(volumes', backups', now', bck_objects', proc'[q])
  BY <1>2, <1>3, <1>4 DEF Disciplines, AllReady
<1>6. Ownership' /\ NoDangling'
  BY <1>2 DEF Disciplines, Ownership, NoDangling
<1>7. QED
  BY <1>5, <1>6 DEF AllReady

(* A killed process leaves the catalogue as it was.                        *)
LEMMA KillDisciplines ==
    ASSUME Disciplines, NEW p \in Process, Kill(p)
    PROVE  Ownership' /\ NoDangling' /\ AllReady'
<1>1. UNCHANGED <<volumes, backups, bck_objects, vol_obj, bck_errors, now>>
  BY DEF Kill, ReadOnly, vars
<1>2. \A q \in Process : proc'[q] = IF q = p THEN Idle ELSE proc[q]
  BY DEF Kill, Exit, Become, Disciplines, ProcOK
<1>3. ASSUME NEW q \in Process
      PROVE  Ready(volumes', backups', now', bck_objects', proc'[q])
  BY <1>1, <1>2, IdleReady DEF Disciplines, AllReady
<1>4. Ownership' /\ NoDangling'
  BY <1>1 DEF Disciplines, Ownership, NoDangling
<1>5. QED
  BY <1>3, <1>4 DEF AllReady

(* /newbackup, /add and the clock take nothing away from anyone.           *)
LEMMA OtherDisciplines ==
    ASSUME Disciplines, UNCHANGED proc,
           \/ \E b \in BckId, x \in Time : NewBackup(b, x)
           \/ \E l \in Label : AddVolume(l, "F", 0)
           \/ Tick
           \/ UNCHANGED vars
    PROVE  Ownership' /\ NoDangling' /\ AllReady'
<1>1. TypeOK /\ Ownership /\ NoDangling
  BY DEF Disciplines
<1>2. ASSUME UNCHANGED <<bck_objects, vol_obj, bck_errors>>,
             \A l \in DOMAIN volumes : l \in DOMAIN volumes' /\ volumes'[l] = volumes[l],
             \A l \in DOMAIN volumes' \ DOMAIN volumes : volumes'[l].bck_id = 0,
             \A b \in DOMAIN backups : b \in DOMAIN backups' /\ backups'[b] = backups[b],
             now' = now \/ (now' > now /\ now' \in Time)
      PROVE  Ownership' /\ NoDangling' /\ AllReady'
  <2>1. Ownership'
    BY <1>1, <1>2 DEF Ownership, Owned, FreeUnowned
  <2>2. NoDangling'
    BY <1>1, <1>2 DEF NoDangling, Matched, ObjectsKept, ErrorsKept
  <2>3. ASSUME NEW q \in Process
        PROVE  Ready(volumes', backups', now', bck_objects', proc'[q])
    <3>1. Ready(volumes, backups, now, bck_objects, proc[q]) /\ proc'[q] = proc[q]
      BY DEF Disciplines, AllReady
    <3>2. VolReady(volumes', proc[q])
      BY <1>2, <3>1, SameVolumeReady DEF Ready, SameVolume
    <3>3. BckReady(backups', now', proc[q])
      <4>1. ASSUME NEW b \in DOMAIN backups, backups[b].expiredate < now
            PROVE  backups'[b].expiredate < now'
        <5>1. backups[b].expiredate \in Int /\ now \in Int /\ now' \in Int
          BY <1>1, <1>2, CatalogAssumption DEF TypeOK, BackupTable, Backup
        <5>2. QED
          BY <1>2, <4>1, <5>1
      <4>2. QED
        BY <1>2, <3>1, <4>1 DEF Ready, BckReady
    <3>4. QED
      BY <1>2, <3>1, <3>2, <3>3 DEF Ready
  <2>4. QED
    BY <2>1, <2>2, <2>3 DEF AllReady
<1>3. CASE \E b \in BckId, x \in Time : NewBackup(b, x)
  BY <1>2, <1>3 DEF NewBackup, InsertBackup
<1>4. CASE \E l \in Label : AddVolume(l, "F", 0)
  BY <1>2, <1>4 DEF AddVolume, InsertVolume
<1>5. CASE Tick
  BY <1>2, <1>5 DEF Tick
<1>6. CASE UNCHANGED vars
  BY <1>2, <1>6 DEF vars
<1>7. QED
  BY <1>3, <1>4, <1>5, <1>6

(* Disciplined processes stay so.                                          *)
LEMMA DisciplinesStep ==
    ASSUME Disciplined, Disciplines, [PNext]_pvars
    PROVE  Disciplines'
<1>1. TypeOK' /\ ProcOK' /\ Apart'
  BY PTypeStep, ProcStep, ApartStep DEF Disciplines
<1>2. CASE SingleInsert \/ (Tick /\ UNCHANGED <<proc, started>>) \/ UNCHANGED pvars
  BY <1>1, <1>2, OtherDisciplines DEF Disciplines, SingleInsert, pvars
<1>3. ASSUME NEW p \in Process, Command(p) \/ Statement(p) \/ Kill(p)
      PROVE  Disciplines'
  BY <1>1, <1>3, CommandDisciplines, StatementDisciplines, KillDisciplines DEF Disciplines
<1>4. QED
  BY <1>2, <1>3 DEF PNext

(* ... and are so in a new library.                                        *)
LEMMA DisciplinesInit == PInit => Disciplines
<1> SUFFICES ASSUME PInit
             PROVE  Disciplines
  OBVIOUS
<1>1. TypeOK /\ ProcOK
  BY PInitOK
<1>2. Apart
  <2>1. ~Conflict(Idle, Idle)
    BY DEF Idle, Conflict, Exclusive, Shared, Has
  <2>2. QED
    BY <2>1 DEF PInit, Apart
<1>3. Ownership
  BY DEF PInit, Ownership, Owned, FreeUnowned
<1>4. NoDangling
  BY DEF PInit, NoDangling, Matched, ObjectsKept, ErrorsKept, HasRow
<1>5. AllReady
  BY IdleReady DEF PInit, AllReady
<1>6. QED
  BY <1>1, <1>2, <1>3, <1>4, <1>5 DEF Disciplines

-----------------------------------------------------------------------------
(* What every step of disciplined processes keeps                          *)

(* Commands kept apart share the tapes safely, killed or not: no tape with *)
(* data of one backup passes to another one, is freed or leaves the        *)
(* library, though each command looks at the volume long before it writes. *)
THEOREM DisciplineKeepsOwners ==
    ASSUME Disciplined
    PROVE  PSpec => []SegmentsOnOwnedVolumes
<1>1. Disciplines /\ [PNext]_pvars => Disciplines'
  BY DisciplinesStep
<1>2. Disciplines => SegmentsOnOwnedVolumes
  BY DEF Disciplines, Ownership, Owned, SegmentsOnOwnedVolumes
<1>3. QED
  BY DisciplinesInit, <1>1, <1>2, PTL DEF PSpec

(* ... and a volume listed as free belongs to no backup at any instant.    *)
THEOREM DisciplineKeepsFree ==
    ASSUME Disciplined
    PROVE  PSpec => []FreeVolumesAreUnowned
<1>1. Disciplines /\ [PNext]_pvars => Disciplines'
  BY DisciplinesStep
<1>2. Disciplines => FreeVolumesAreUnowned
  BY DEF Disciplines, Ownership, FreeUnowned, FreeVolumesAreUnowned
<1>3. QED
  BY DisciplinesInit, <1>1, <1>2, PTL DEF PSpec

(* No row refers to a row that is not there, also between two statements   *)
(* of a command and after a kill.                                          *)
THEOREM DisciplineKeepsReferences ==
    ASSUME Disciplined
    PROVE  PSpec => []NoDanglingRows
<1>1. Disciplines /\ [PNext]_pvars => Disciplines'
  BY DisciplinesStep
<1>2. Disciplines => NoDanglingRows
  BY ReferencesAreKeys DEF Disciplines, NoDangling, NoDanglingRows
<1>3. QED
  BY DisciplinesInit, <1>1, <1>2, PTL DEF PSpec

(* A step takes away only backups that have expired or that an operator    *)
(* has answered `Y' for, although the check was made by an earlier one.    *)
LEMMA GoneHasExpired ==
    ASSUME Disciplines, TableStep
    PROVE  \A b \in Gone : Expired(b) \/ Confirms
<1>1. ASSUME DOMAIN backups \subseteq DOMAIN backups'
      PROVE  \A b \in Gone : Expired(b) \/ Confirms
  BY <1>1 DEF Gone
<1>2. ASSUME NEW p \in Process, Writes(proc[p])
      PROVE  \A b \in Gone : Expired(b) \/ Confirms
  <2>1. BckReady(backups, now, proc[p])
    BY DEF Disciplines, AllReady, Ready
  <2>2. ASSUME NEW b, DeleteBackupIds({b}), Expired(b) \/ Confirms
        PROVE  \A k \in Gone : Expired(k) \/ Confirms
    BY <2>2 DEF DeleteBackupIds, DeleteBackups, Gone
  <2>3. CASE proc[p].pc = "remove_delete" /\ DeleteBackupIds({proc[p].b})
    BY <2>1, <2>2, <2>3 DEF BckReady, Expired
  <2>4. CASE proc[p].pc = "expire_delete" /\ \E b \in proc[p].todo : DeleteBackupIds({b})
    BY <2>1, <2>2, <2>4 DEF BckReady, Expired
  <2>5. QED
    BY <1>1, <1>2, <2>3, <2>4 DEF Writes, Claim, WriteVolumes, WriteObjects, WriteSegments,
                                  WriteErrors, WriteBackup, UpdateBackup
<1>3. CASE \E b \in BckId, x \in Time : NewBackup(b, x)
  BY <1>1, <1>3 DEF NewBackup, InsertBackup
<1>4. CASE ReadOnly \/ Tick \/ \E l \in Label : AddVolume(l, "F", 0)
  BY <1>1, <1>4 DEF ReadOnly, vars, Tick, AddVolume
<1>5. QED
  BY <1>2, <1>3, <1>4 DEF TableStep

(* Without an operator's `Y' the data of a backup, and its tape, are kept  *)
(* until it expires, whatever commands run at the same time.               *)
THEOREM DisciplineKeepsData ==
    ASSUME Disciplined
    PROVE  PSpec => DataIsRetained
<1>1. Disciplines /\ [PNext]_pvars => Disciplines'
  BY DisciplinesStep
<1>2. Disciplines /\ [PNext]_pvars => [KeepsData]_vars
  <2> SUFFICES ASSUME Disciplines, [PNext]_pvars
               PROVE  KeepsData
    OBVIOUS
  <2>1. TypeOK /\ ProcOK /\ NoDangling /\ Ownership'
    BY DisciplinesStep DEF Disciplines
  <2>2. TableStep
    BY <2>1, StepTables
  <2>3. KeepsHistory
    BY <2>2, TablesKeepHistory
  <2>4. \A s \in vol_obj : s.bck_id \in DOMAIN backups
    <3>1. ASSUME NEW s \in vol_obj
          PROVE  HasRow(bck_objects, s.bck_id, s.objname, s.obj_instance)
      BY <2>1 DEF NoDangling, Matched, HasRow, IsOf
    <3>2. QED
      BY <2>1, <3>1 DEF NoDangling, ObjectsKept
  <2>5. HistoryKept(vol_obj, vol_obj', Gone)
    BY <2>3, <2>4 DEF KeepsHistory, HistoryKept, OnRecord, Gone
  <2>6. QED
    BY <2>1, <2>2, <2>5, GoneHasExpired, HistoryKeepsData DEF NoDangling
<1>3. QED
  BY DisciplinesInit, <1>1, <1>2, PTL DEF PSpec, DataIsRetained, KeepsData

-----------------------------------------------------------------------------
(* A backup leaves the catalogue whole                                     *)

(* What the catalogue has of backup b does not run out in any of its parts.*)
PartStays(b) ==
    /\ b \in DOMAIN backups => b \in DOMAIN backups'
    /\ (\E r \in bck_objects : r.bck_id = b) => \E r \in bck_objects' : r.bck_id = b
    /\ (\E s \in vol_obj : s.bck_id = b) => \E s \in vol_obj' : s.bck_id = b
    /\ (\E l \in DOMAIN volumes : volumes[l].bck_id = b)
           => \E l \in DOMAIN volumes' : volumes'[l].bck_id = b

(* The promise for one backup, without its box.                            *)
LeavesWhole(b) ==
    (\E k \in 1 .. 4 : Parts(b)[k] # {} /\ Parts(b)'[k] = {}) =>
        \A k \in 1 .. 4 : Parts(b)'[k] = {}

(* A backup none of whose parts runs out keeps the promise.                *)
LEMMA StaysWhole == ASSUME NEW b, PartStays(b) PROVE LeavesWhole(b)
<1>1. \A k \in 1 .. 4 : k = 1 \/ k = 2 \/ k = 3 \/ k = 4
  OBVIOUS
<1>2. /\ Parts(b)[1] # {} => Parts(b)'[1] # {}
      /\ Parts(b)[2] # {} => Parts(b)'[2] # {}
      /\ Parts(b)[3] # {} => Parts(b)'[3] # {}
      /\ Parts(b)[4] # {} => Parts(b)'[4] # {}
  BY DEF Parts, PartStays
<1>3. QED
  BY <1>1, <1>2 DEF LeavesWhole

(* The transaction that deletes the backups of B keeps it for every other. *)
LEMMA DeletesWhole ==
    ASSUME TypeOK, NEW B, DeleteBackupIds(B), NEW b \in BckId
    PROVE  LeavesWhole(b)
<1>1. /\ DOMAIN volumes' = DOMAIN volumes
      /\ \A k \in DOMAIN volumes :
            /\ volumes[k].bck_id \in B => volumes'[k].bck_id = 0
            /\ volumes[k].bck_id \notin B => volumes'[k] = volumes[k]
  BY FreeVolumesTable DEF DeleteBackupIds, TypeOK
<1>2. /\ bck_objects' = {r \in bck_objects : r.bck_id \notin B}
      /\ vol_obj' = {r \in vol_obj : r.bck_id \notin B}
      /\ DOMAIN backups' = DOMAIN backups \ B
  BY DEF DeleteBackupIds, DeleteRows, DeleteBackups
<1>3. CASE b \notin B
  BY <1>1, <1>2, <1>3, StaysWhole DEF PartStays
<1>4. CASE b \in B
  <2>1. b # 0
    BY CatalogAssumption
  <2>2. /\ {b} \cap DOMAIN backups' = {}
        /\ {r \in bck_objects' : r.bck_id = b} = {}
        /\ {s \in vol_obj' : s.bck_id = b} = {}
        /\ {l \in DOMAIN volumes' : volumes'[l].bck_id = b} = {}
    BY <1>1, <1>2, <1>4, <2>1
  <2>3. Parts(b)'[1] = {} /\ Parts(b)'[2] = {} /\ Parts(b)'[3] = {} /\ Parts(b)'[4] = {}
    BY <2>2 DEF Parts
  <2>4. QED
    BY <2>3 DEF LeavesWhole
<1>5. QED
  BY <1>3, <1>4

(* The statements on one table alone do not empty it of a backup.          *)
LEMMA WritesLeaveWhole ==
    ASSUME TypeOK, NEW c, CommandOK(c), VolReady(volumes, c), Writes(c), NEW b \in BckId
    PROVE  LeavesWhole(b)
<1> USE DEF VolumePcs, ObjectPcs, StartPcs, ChangePcs, ClaimedPcs
<1>1. ASSUME UNCHANGED <<volumes, backups, vol_obj>>,
             \A r \in bck_objects : \E q \in bck_objects' : q.bck_id = r.bck_id
      PROVE  LeavesWhole(b)
  BY <1>1, StaysWhole DEF PartStays
<1>2. ASSUME UNCHANGED <<volumes, backups, bck_objects>>,
             \A s \in vol_obj : \E t \in vol_obj' : t.bck_id = s.bck_id
      PROVE  LeavesWhole(b)
  BY <1>2, StaysWhole DEF PartStays
<1>3. ASSUME UNCHANGED <<backups, bck_objects, vol_obj>>,
             \A l \in DOMAIN volumes : \/ volumes[l].bck_id = 0
                                       \/ l \in DOMAIN volumes' /\ volumes'[l].bck_id = volumes[l].bck_id
      PROVE  LeavesWhole(b)
  <2>1. b # 0
    BY CatalogAssumption
  <2>2. QED
    BY <1>3, <2>1, StaysWhole DEF PartStays
<1>4. CASE c.pc \in {"start_claim", "change_claim"} /\ Claim(c.l, c.b)
  <2>1. volumes[c.l].bck_id \in {0, c.b} /\ c.l \in DOMAIN volumes
    BY <1>4 DEF VolReady
  <2>2. /\ DOMAIN volumes' = DOMAIN volumes /\ volumes'[c.l].bck_id = c.b
        /\ \A k \in DOMAIN volumes \ {c.l} : volumes'[k] = volumes[k]
    BY <1>4, <2>1 DEF Claim, SetVolumeUsed
  <2>3. QED
    BY <1>3, <1>4, <2>1, <2>2 DEF Claim
<1>5. ASSUME NEW x, NEW o, NEW i, WriteObjects(InsertBckObject(bck_objects, x, o, i))
      PROVE  LeavesWhole(b)
  BY <1>1, <1>5 DEF WriteObjects, InsertBckObject
<1>6. ASSUME NEW x, NEW o, NEW i, NEW e, NEW total,
             WriteObjects(EndBckObject(bck_objects, x, o, i, e, total))
      PROVE  LeavesWhole(b)
  <2>1. SameKeys(bck_objects, bck_objects')
    BY <1>6, EndedKeys DEF WriteObjects
  <2>2. ASSUME NEW r \in bck_objects
        PROVE  \E q \in bck_objects' : q.bck_id = r.bck_id
    <3>1. HasRow(bck_objects, r.bck_id, r.objname, r.obj_instance)
      BY DEF HasRow, IsOf
    <3>2. HasRow(bck_objects', r.bck_id, r.objname, r.obj_instance)
      BY <2>1, <3>1 DEF SameKeys
    <3>3. QED
      BY <3>2 DEF HasRow, IsOf
  <2>3. QED
    BY <1>1, <1>6, <2>2 DEF WriteObjects
<1>7. ASSUME NEW x, NEW o, NEW i, NEW l, NEW n, WriteSegments(InsertVolObj(vol_obj, x, o, i, l, n))
      PROVE  LeavesWhole(b)
  BY <1>2, <1>7 DEF WriteSegments, InsertVolObj
<1>8. ASSUME NEW x, NEW o, NEW i, NEW l, NEW e, NEW sz,
             WriteSegments(EndVolObj(vol_obj, x, o, i, l, e, sz))
      PROVE  LeavesWhole(b)
  <2>1. SameKeys(vol_obj, vol_obj')
    BY <1>8, EndedKeys DEF WriteSegments
  <2>2. ASSUME NEW r \in vol_obj
        PROVE  \E q \in vol_obj' : q.bck_id = r.bck_id
    <3>1. HasRow(vol_obj, r.bck_id, r.objname, r.obj_instance)
      BY DEF HasRow, IsOf
    <3>2. HasRow(vol_obj', r.bck_id, r.objname, r.obj_instance)
      BY <2>1, <3>1 DEF SameKeys
    <3>3. QED
      BY <3>2 DEF HasRow, IsOf
  <2>3. QED
    BY <1>2, <1>8, <2>2 DEF WriteSegments
<1>9. CASE c.pc = "finish_usage" /\ WriteVolumes(IncVolumeUsage(volumes, c.b))
  BY <1>3, <1>9, IncVolumeUsageTable DEF WriteVolumes, TypeOK
<1>10. CASE c.pc = "state_write" /\ WriteVolumes(SetState(volumes, c.l, c.st))
  <2>1. c.st \in {"F", "A"}
    BY <1>10 DEF CommandOK, VolumeFields
  <2>2. QED
    BY <1>3, <1>10, <2>1, SetStateTable DEF WriteVolumes, TypeOK
<1>11. CASE c.pc = "take_out_delete" /\ WriteVolumes(DeleteVolume(volumes, c.l))
  <2>1. volumes[c.l].bck_id = 0
    BY <1>11 DEF VolReady
  <2>2. QED
    BY <1>3, <1>11, <2>1 DEF WriteVolumes, DeleteVolume
<1>12. ASSUME NEW x, NEW row, NEW errs, WriteBackup(x, row) \/ WriteErrors(errs)
       PROVE  LeavesWhole(b)
  BY <1>12, StaysWhole DEF WriteBackup, WriteErrors, UpdateBackup, PartStays
<1>13. QED
  BY <1>4, <1>5, <1>6, <1>7, <1>8, <1>9, <1>10, <1>11, <1>12, DeletesWhole DEF Writes

(* Nothing takes away all there is of one part of a backup but the         *)
(* transaction that takes all its parts.                                   *)
THEOREM DisciplineLeavesWhole ==
    ASSUME Disciplined
    PROVE  PSpec => BackupsLeaveWhole
<1> DEFINE Whole == \A b \in BckId : LeavesWhole(b)
<1>1. Disciplines /\ [PNext]_pvars => Disciplines'
  BY DisciplinesStep
<1>2. Disciplines /\ [PNext]_pvars => [Whole]_vars
  <2> SUFFICES ASSUME Disciplines, [PNext]_pvars, NEW b \in BckId
               PROVE  LeavesWhole(b)
    OBVIOUS
  <2>1. TypeOK /\ ProcOK
    BY DEF Disciplines
  <2>2. CASE ReadOnly \/ Tick
    BY <2>2, StaysWhole DEF ReadOnly, vars, Tick, PartStays
  <2>3. ASSUME NEW x, NEW d, NewBackup(x, d)
        PROVE  LeavesWhole(b)
    BY <2>3, StaysWhole DEF NewBackup, InsertBackup, PartStays
  <2>4. ASSUME NEW l, AddVolume(l, "F", 0)
        PROVE  LeavesWhole(b)
    BY <2>4, StaysWhole DEF AddVolume, InsertVolume, PartStays
  <2>5. ASSUME NEW p \in Process, Writes(proc[p])
        PROVE  LeavesWhole(b)
    <3>1. CommandOK(proc[p]) /\ VolReady(volumes, proc[p])
      BY DEF Disciplines, ProcOK, AllReady, Ready
    <3>2. QED
      BY <2>1, <2>5, <3>1, WritesLeaveWhole
  <2>6. QED
    BY <2>1, <2>2, <2>3, <2>4, <2>5, StepTables DEF TableStep
<1>3. QED
  BY DisciplinesInit, <1>1, <1>2, PTL DEF PSpec, BackupsLeaveWhole, Whole, LeavesWhole

-----------------------------------------------------------------------------
(* The disciplined processes implement the tape pool                       *)

(* A segment that is written on a tape of its backup is the pool's Take.   *)
LEMMA RecordTakes ==
    ASSUME NEW l \in Label, NEW b \in BckId, l \in DOMAIN volumes, volumes[l].bck_id = b,
           NEW o, NEW i, NEW n, WriteSegments(InsertVolObj(vol_obj, b, o, i, l, n))
    PROVE  Pool!Take(l, b)
<1>1. TapeContents' = Recorded(TapeContents, l, b)
  BY InsertedContents, ContentsNow DEF WriteSegments
<1>2. TapeOwner' = [TapeOwner EXCEPT ![l] = b]
  BY DEF WriteSegments, TapeOwner
<1>3. l \in DOMAIN TapeOwner /\ TapeOwner[l] = b
  BY DEF TapeOwner
<1>4. QED
  BY <1>1, <1>2, <1>3 DEF Pool!Take, Recorded

(* Every statement of a ready command is a step of the pool, or none.      *)
LEMMA WritesPool ==
    ASSUME TypeOK, Ownership, NEW c, CommandOK(c), VolReady(volumes, c), Writes(c)
    PROVE  Pool!Next \/ PoolUnchanged
<1> USE DEF ObjectPcs, BackupPcs, VolumePcs, StartPcs, ChangePcs, EndPcs, ClaimedPcs
<1>1. ASSUME UNCHANGED vol_obj, DOMAIN volumes' = DOMAIN volumes,
             \A k \in DOMAIN volumes : volumes'[k].bck_id = volumes[k].bck_id
      PROVE  PoolUnchanged
  <2>1. TapeContents' = TapeContents
    BY <1>1 DEF TapeContents
  <2>2. QED
    BY <1>1, <2>1, SameOwners DEF PoolUnchanged
<1>2. CASE c.pc \in {"start_claim", "change_claim"} /\ Claim(c.l, c.b)
  <2>1. c.l \in DOMAIN volumes /\ Usable(volumes, c.l, c.b)
    BY <1>2 DEF VolReady, Usable, CanUse
  <2>2. c.l \in Label /\ c.b \in BckId
    BY <1>2 DEF CommandOK, ObjectFields
  <2>3. volumes' = SetVolumeUsed(volumes, c.l, c.b) /\ vol_obj' = vol_obj
    BY <1>2, <2>1 DEF Claim
  <2>4. TapeContents' = TapeContents
    BY <2>3 DEF TapeContents
  <2>5. Pool!Take(c.l, c.b)
    BY <2>1, <2>2, <2>3, <2>4, ClaimTakes
  <2>6. QED
    BY <2>2, <2>5 DEF Pool!Next
<1>3. CASE /\ c.pc \in {"start_segment", "change_segment"}
           /\ \E n : WriteSegments(InsertVolObj(vol_obj, c.b, c.o, c.i, c.l, n))
  <2>1. c.l \in DOMAIN volumes /\ volumes[c.l].bck_id = c.b
    BY <1>3 DEF VolReady
  <2>2. c.l \in Label /\ c.b \in BckId
    BY <1>3 DEF CommandOK, ObjectFields
  <2>3. Pool!Take(c.l, c.b)
    BY <1>3, <2>1, <2>2, RecordTakes
  <2>4. QED
    BY <2>2, <2>3 DEF Pool!Next
<1>4. ASSUME NEW b, NEW o, NEW i, NEW l, NEW e, NEW sz,
             WriteSegments(EndVolObj(vol_obj, b, o, i, l, e, sz))
      PROVE  PoolUnchanged
  <2>1. TapeContents' = TapeContents
    BY <1>4, EndedContents, ContentsNow DEF WriteSegments
  <2>2. TapeOwner' = TapeOwner
    BY <1>4 DEF WriteSegments, TapeOwner
  <2>3. QED
    BY <2>1, <2>2 DEF PoolUnchanged
<1>5. CASE c.pc = "finish_usage" /\ WriteVolumes(IncVolumeUsage(volumes, c.b))
  BY <1>1, <1>5, IncVolumeUsageTable DEF WriteVolumes, TypeOK
<1>6. ASSUME NEW B \in SUBSET BckId, DeleteBackupIds(B)
      PROVE  Pool!Next
  BY <1>6, DeleteReturns DEF Pool!Next
<1>7. CASE c.pc = "remove_delete" /\ DeleteBackupIds({c.b})
  <2>1. {c.b} \in SUBSET BckId
    BY <1>7 DEF CommandOK, BackupFields
  <2>2. QED
    BY <1>6, <1>7, <2>1
<1>8. ASSUME c.pc = "expire_delete", NEW b \in c.todo, DeleteBackupIds({b})
      PROVE  Pool!Next
  <2>1. {b} \in SUBSET BckId
    BY <1>8 DEF CommandOK, ExpireFields
  <2>2. QED
    BY <1>6, <1>8, <2>1
<1>9. CASE c.pc = "state_write" /\ WriteVolumes(SetState(volumes, c.l, c.st))
  <2>1. c.st \in {"F", "A"}
    BY <1>9 DEF CommandOK, VolumeFields
  <2>2. QED
    BY <1>1, <1>9, <2>1, SetStateTable DEF WriteVolumes, TypeOK
<1>10. CASE c.pc = "take_out_delete" /\ WriteVolumes(DeleteVolume(volumes, c.l))
  \* The volume is unowned, and an unowned volume holds no segment.
  <2>1. /\ c.l \in DOMAIN volumes /\ volumes[c.l].bck_id = 0 /\ c.l \in Label
        /\ volumes' = DeleteVolume(volumes, c.l) /\ vol_obj' = vol_obj
    BY <1>10 DEF VolReady, CommandOK, VolumeFields, WriteVolumes
  <2>2. \A s \in vol_obj : s.label # c.l
    BY <2>1, SegmentIds DEF TypeOK, Ownership, Owned
  <2>3. TapeContents[c.l] = {}
    BY <2>1, <2>2 DEF TapeContents
  <2>4. TapeOwner' = [k \in DOMAIN TapeOwner \ {c.l} |-> TapeOwner[k]]
    BY <2>1 DEF DeleteVolume, TapeOwner
  <2>5. TapeContents' = TapeContents
    BY <2>1 DEF TapeContents
  <2>6. c.l \in DOMAIN TapeOwner /\ TapeOwner[c.l] = 0
    BY <2>1 DEF TapeOwner
  <2>7. Pool!Retire(c.l)
    BY <2>3, <2>4, <2>5, <2>6 DEF Pool!Retire
  <2>8. QED
    BY <2>1, <2>7 DEF Pool!Next
<1>11. ASSUME NEW objs, NEW errs, NEW b, NEW row,
              WriteObjects(objs) \/ WriteErrors(errs) \/ WriteBackup(b, row)
       PROVE  PoolUnchanged
  BY <1>11 DEF WriteObjects, WriteErrors, WriteBackup, PoolUnchanged, TapeOwner, TapeContents
<1>12. QED
  BY <1>2, <1>3, <1>4, <1>5, <1>7, <1>8, <1>9, <1>10, <1>11 DEF Writes

(* The SQL statements of commands kept apart, each taken as a step of its  *)
(* own, implement the same tape pool as whole commands do.                 *)
THEOREM DisciplinedPoolRefinement ==
    ASSUME Disciplined
    PROVE  PSpec => ImplementsTapePool
<1>1. PInit => Pool!Init
  <2> SUFFICES ASSUME PInit
               PROVE  Pool!Init
    OBVIOUS
  <2>1. TapeOwner \in [Label -> {0}] /\ Label \in SUBSET Label
    BY DEF PInit, TapeOwner
  <2>2. TapeContents = [l \in Label |-> {}]
    BY DEF PInit, TapeContents
  <2>3. QED
    BY <2>1, <2>2 DEF Pool!Init
<1>2. Disciplines /\ [PNext]_pvars => Disciplines'
  BY DisciplinesStep
<1>3. Disciplines /\ [PNext]_pvars => [Pool!Next]_Pool!vars
  <2> SUFFICES ASSUME Disciplines, [PNext]_pvars
               PROVE  Pool!Next \/ PoolUnchanged
    BY DEF PoolUnchanged, Pool!vars
  <2>1. TypeOK /\ ProcOK /\ Ownership
    BY DEF Disciplines
  <2>2. CASE ReadOnly \/ Tick
    BY <2>2 DEF ReadOnly, vars, Tick, PoolUnchanged, TapeOwner, TapeContents
  <2>3. ASSUME NEW b, NEW x, NewBackup(b, x)
        PROVE  PoolUnchanged
    BY <2>3 DEF NewBackup, PoolUnchanged, TapeOwner, TapeContents
  <2>4. ASSUME NEW l \in Label, AddVolume(l, "F", 0)
        PROVE  Pool!Next
    <3>1. Pool!Add(l)
      BY <2>4 DEF AddVolume, InsertVolume, TapeOwner, TapeContents, Pool!Add
    <3>2. QED
      BY <3>1 DEF Pool!Next
  <2>5. ASSUME NEW p \in Process, Writes(proc[p])
        PROVE  Pool!Next \/ PoolUnchanged
    <3>1. CommandOK(proc[p]) /\ VolReady(volumes, proc[p])
      BY DEF Disciplines, ProcOK, AllReady, Ready
    <3>2. QED
      BY <2>1, <2>5, <3>1, WritesPool
  <2>6. QED
    BY <2>1, <2>2, <2>3, <2>4, <2>5, StepTables DEF TableStep
<1>4. QED
  BY DisciplinesInit, <1>1, <1>2, <1>3, PTL DEF PSpec, ImplementsTapePool, Pool!Spec

-----------------------------------------------------------------------------
(* The next instance number is a new one                                   *)

(* A finite set of numbers has a largest one: a smallest counterexample    *)
(* would have none because of a single element.                            *)
LEMMA MaxExists ==
    ASSUME NEW S \in SUBSET Nat, IsFiniteSet(S), S # {}
    PROVE  \E m \in S : \A y \in S : m >= y
<1> DEFINE Bounded(U) == \E m \in U : \A y \in U : m >= y
<1> DEFINE T == {U \in FiniteSubsetsOf(Nat) : U # {} /\ ~Bounded(U)}
<1> SUFFICES ASSUME T # {}
             PROVE  FALSE
  BY DEF FiniteSubsetsOf
<1>1. PICK U \in T : \A V \in T : <<V, U>> \notin StrictSubsetOrdering(Nat)
  <2>1. IsWellFoundedOn(StrictSubsetOrdering(Nat), FiniteSubsetsOf(Nat))
    BY FS_StrictSubsetOrderingWellFounded
  <2>2. T \subseteq FiniteSubsetsOf(Nat)
    OBVIOUS
  <2> HIDE DEF T
  <2>3. QED
    BY <2>1, <2>2, WFMin
<1>2. U \in SUBSET Nat /\ IsFiniteSet(U) /\ U # {} /\ ~Bounded(U)
  BY DEF FiniteSubsetsOf
<1>3. PICK x \in U : TRUE
  BY <1>2
<1> DEFINE V == U \ {x}
<1>4. IsFiniteSet(V) /\ V \in SUBSET Nat
  BY <1>2, FS_Subset
<1>5. <<V, U>> \in StrictSubsetOrdering(Nat)
  BY <1>2, <1>3, <1>4 DEF StrictSubsetOrdering
<1>6. V = {} \/ Bounded(V)
  BY <1>1, <1>4, <1>5 DEF FiniteSubsetsOf
<1>7. Bounded(U)
  <2>1. CASE V = {}
    BY <1>2, <1>3, <2>1
  <2>2. CASE Bounded(V)
    <3>1. PICK m \in V : \A y \in V : m >= y
      BY <2>2
    <3>2. \A y \in U : y = x \/ m >= y
      BY <3>1
    <3>3. CASE m >= x
      BY <1>2, <3>1, <3>2, <3>3
    <3>4. CASE x >= m
      BY <1>2, <1>3, <3>1, <3>2, <3>4
    <3>5. QED
      BY <1>2, <3>1, <3>3, <3>4
  <2>3. QED
    BY <1>6, <2>1, <2>2
<1>8. QED
  BY <1>2, <1>7

(* The number an object gets when none is given is no number it has.       *)
LEMMA FreshInstance ==
    ASSUME NEW objs, ObjectTable(objs), IsFiniteSet(objs), NEW b, NEW o
    PROVE  ~HasRow(objs, b, o, ObjInstance(objs, b, o, 0))
<1> DEFINE mine == {q \in objs : q.bck_id = b /\ q.objname = o}
           taken == {0} \cup {r.obj_instance : r \in mine}
<1>1. IsFiniteSet(taken) /\ taken \in SUBSET Nat /\ taken # {}
  <2>1. IsFiniteSet(mine)
    BY FS_Subset
  <2> HIDE DEF mine
  <2> DEFINE instance == [r \in mine |-> r.obj_instance]
             numbers == {r.obj_instance : r \in mine}
  <2>2. instance \in Surjection(mine, numbers)
    BY DEF Surjection
  <2>3. \A n \in numbers : n \in Nat
    <3>1. \A r \in objs : r.obj_instance \in Instance
      BY DEF ObjectTable
    <3>2. mine \subseteq objs
      BY DEF mine
    <3>3. \A r \in mine : r.obj_instance \in Nat
      BY <3>1, <3>2, CatalogAssumption
    <3>4. QED
      BY <3>3
  <2> HIDE DEF instance, numbers
  <2>4. IsFiniteSet(numbers)
    BY <2>1, <2>2, FS_Surjection
  <2>5. IsFiniteSet(numbers \cup {0})
    BY <2>4, FS_AddElement
  <2>6. taken = numbers \cup {0}
    BY DEF numbers
  <2> HIDE DEF taken
  <2>7. QED
    BY <2>3, <2>5, <2>6
<1>2. Max(taken) \in taken /\ \A n \in taken : Max(taken) >= n
  <2>1. \E m \in taken : \A n \in taken : m >= n
    BY <1>1, MaxExists
  <2> HIDE DEF taken
  <2>2. QED
    BY <2>1 DEF Max
<1>3. ObjInstance(objs, b, o, 0) = 1 + Max(taken)
  BY DEF ObjInstance
<1>4. ASSUME NEW r \in objs, IsOf(r, b, o, 1 + Max(taken))
      PROVE  FALSE
  <2>1. r.obj_instance \in taken /\ r.obj_instance = 1 + Max(taken)
    BY <1>4 DEF IsOf
  <2> HIDE DEF taken
  <2>2. Max(taken) \in Nat /\ Max(taken) >= r.obj_instance
    BY <1>1, <1>2, <2>1
  <2>3. QED
    BY <2>1, <2>2
<1>5. QED
  BY <1>3, <1>4 DEF HasRow

-----------------------------------------------------------------------------
(* Which instance a command works on                                       *)

(* The statements of a /startbackup that has inserted its object.          *)
InstancePcs == {"start_count", "start_segment"}

(* ... and of a command that works on the segments of an object.           *)
WorkPcs == InstancePcs \cup {"change_end", "change_segment"} \cup EndPcs

(* Of an object no segment is open but those on a label of L.              *)
OpenOnly(segs, b, o, i, L) == \A s \in segs : IsOf(s, b, o, i) /\ s.end = 0 => s.label \in L

(* It is not recorded as ended.                                            *)
NotEnded(objs, b, o, i) == \A r \in objs : IsOf(r, b, o, i) => r.end = 0

(* What a command knows of the segments of its object.                     *)
InstReady(objs, segs, d) ==
    /\ d.pc \in InstancePcs => ~HasRow(segs, d.b, d.o, d.i)
    /\ d.pc \in InstancePcs \cup {"change_end", "change_segment"} => NotEnded(objs, d.b, d.o, d.i)
    /\ d.pc = "change_end" => OpenOnly(segs, d.b, d.o, d.i, {d.from})
    /\ d.pc = "change_segment" => OpenOnly(segs, d.b, d.o, d.i, {})
    /\ d.pc = "end_segment" => OpenOnly(segs, d.b, d.o, d.i, {d.l})
    /\ d.pc \in {"end_sum", "end_object"} => OpenOnly(segs, d.b, d.o, d.i, {})

(* Nobody works on an instance that a /startbackup has just numbered.      *)
Distinct(c, d) ==
    c.pc \in InstancePcs /\ d.pc \in WorkPcs => ~(c.b = d.b /\ c.o = d.o /\ c.i = d.i)

(* An object is being written to one volume at most.                       *)
UniqueOpen(segs) ==
    \A s, t \in segs :
        s.end = 0 /\ t.end = 0 /\ IsOf(s, t.bck_id, t.objname, t.obj_instance) => s.label = t.label

(* EndedObjectsAreClosed, of any two tables.                               *)
Closed(objs, segs) ==
    \A r \in objs, s \in segs :
        IsOf(s, r.bck_id, r.objname, r.obj_instance) /\ r.end # 0 => s.end # 0

(* The invariant of processes whose /startbackup commands take the next    *)
(* number, beside Disciplines.                                             *)
Instances ==
    /\ IsFiniteSet(bck_objects)
    /\ UniqueOpen(vol_obj)
    /\ Closed(bck_objects, vol_obj)
    /\ \A p \in Process : InstReady(bck_objects, vol_obj, proc[p])
    /\ \A p, q \in Process : p # q => Distinct(proc[p], proc[q])

(* new opens no segment, except of instance i of object o in backup b.     *)
OpensOnly(segs, new, b, o, i) ==
    \A s \in new : ~IsOf(s, b, o, i) =>
        \E t \in segs : /\ IsOf(t, s.bck_id, s.objname, s.obj_instance)
                        /\ t.label = s.label /\ (s.end = 0 => t.end = 0)

(* ... records the end of no other object.                                 *)
EndsOnly(objs, new, b, o, i) ==
    \A r \in new : ~IsOf(r, b, o, i) /\ r.end # 0 =>
        \E q \in objs : IsOf(q, r.bck_id, r.objname, r.obj_instance) /\ q.end # 0

(* ... or does neither at all.                                             *)
OpensNone(segs, new) ==
    \A s \in new : \E t \in segs : /\ IsOf(t, s.bck_id, s.objname, s.obj_instance)
                                   /\ t.label = s.label /\ (s.end = 0 => t.end = 0)

EndsNone(objs, new) ==
    \A r \in new : r.end # 0 =>
        \E q \in objs : IsOf(q, r.bck_id, r.objname, r.obj_instance) /\ q.end # 0

(* Only three statements open a segment or record that an object ended.    *)
LEMMA WritesOpen ==
    ASSUME NEW c, Writes(c)
    PROVE  \/ OpensNone(vol_obj, vol_obj') /\ EndsNone(bck_objects, bck_objects')
           \/ /\ c.pc \in {"start_segment", "change_segment"}
              /\ OpensOnly(vol_obj, vol_obj', c.b, c.o, c.i) /\ UNCHANGED bck_objects
              /\ \E n : vol_obj' = InsertVolObj(vol_obj, c.b, c.o, c.i, c.l, n)
           \/ /\ c.pc = "end_object" /\ UNCHANGED vol_obj
              /\ EndsOnly(bck_objects, bck_objects', c.b, c.o, c.i)
<1> DEFINE calm == OpensNone(vol_obj, vol_obj') /\ EndsNone(bck_objects, bck_objects')
<1>1. ASSUME vol_obj' \subseteq vol_obj
      PROVE  OpensNone(vol_obj, vol_obj')
  BY <1>1 DEF OpensNone, IsOf
<1>2. ASSUME bck_objects' \subseteq bck_objects
      PROVE  EndsNone(bck_objects, bck_objects')
  BY <1>2 DEF EndsNone, IsOf
<1>3. ASSUME NEW b, NEW o, NEW i, WriteObjects(InsertBckObject(bck_objects, b, o, i))
      PROVE  calm
  <2>1. \A r \in bck_objects' : r \in bck_objects \/ r.end = 0
    BY <1>3 DEF WriteObjects, InsertBckObject, ObjectRow
  <2>2. EndsNone(bck_objects, bck_objects')
    BY <2>1 DEF EndsNone, IsOf
  <2>3. QED
    BY <1>1, <1>3, <2>2 DEF WriteObjects
<1>4. ASSUME NEW b, NEW o, NEW i, NEW l, NEW n, WriteSegments(InsertVolObj(vol_obj, b, o, i, l, n))
      PROVE  /\ OpensOnly(vol_obj, vol_obj', b, o, i) /\ UNCHANGED bck_objects
             /\ vol_obj' = InsertVolObj(vol_obj, b, o, i, l, n)
  <2>1. \A s \in vol_obj' : s \in vol_obj \/ IsOf(s, b, o, i)
    BY <1>4 DEF WriteSegments, InsertVolObj, SegmentRow, IsOf
  <2>2. OpensOnly(vol_obj, vol_obj', b, o, i)
    BY <2>1 DEF OpensOnly, IsOf
  <2>3. QED
    BY <1>4, <2>2 DEF WriteSegments
<1>5. ASSUME NEW b, NEW o, NEW i, NEW l, NEW e, NEW sz,
             WriteSegments(EndVolObj(vol_obj, b, o, i, l, e, sz))
      PROVE  calm
  <2>1. \A s \in vol_obj' : \E t \in vol_obj : /\ IsOf(t, s.bck_id, s.objname, s.obj_instance)
                                             /\ t.label = s.label /\ (s.end = 0 => t.end = 0)
    BY <1>5 DEF WriteSegments, EndVolObj, SegmentRow, IsOf
  <2>2. QED
    BY <1>2, <1>5, <2>1 DEF WriteSegments, OpensNone
<1>6. ASSUME NEW b, NEW o, NEW i, NEW e, NEW total,
             WriteObjects(EndBckObject(bck_objects, b, o, i, e, total))
      PROVE  EndsOnly(bck_objects, bck_objects', b, o, i) /\ UNCHANGED vol_obj
  <2>1. \A r \in bck_objects' : r \in bck_objects \/ IsOf(r, b, o, i)
    BY <1>6 DEF WriteObjects, EndBckObject, ObjectRow, IsOf
  <2>2. EndsOnly(bck_objects, bck_objects', b, o, i)
    BY <2>1 DEF EndsOnly, IsOf
  <2>3. QED
    BY <1>6, <2>2 DEF WriteObjects
<1>7. ASSUME NEW B, DeleteBackupIds(B)
      PROVE  calm
  BY <1>1, <1>2, <1>7 DEF DeleteBackupIds, DeleteRows
<1>8. ASSUME NEW l, NEW b, NEW row, NEW vols, NEW errs,
             Claim(l, b) \/ WriteVolumes(vols) \/ WriteBackup(b, row) \/ WriteErrors(errs)
      PROVE  calm
  BY <1>1, <1>2, <1>8 DEF Claim, WriteVolumes, WriteBackup, WriteErrors
<1>9. QED
  BY <1>3, <1>4, <1>5, <1>6, <1>7, <1>8 DEF Writes

(* What is known of an instance holds as long as no other command opens a  *)
(* segment of it or records its end.                                       *)
LEMMA InstReadyStays ==
    ASSUME NEW objs, NEW objs2, NEW segs, NEW segs2, NEW b, NEW o, NEW i, NEW d,
           OpensOnly(segs, segs2, b, o, i), EndsOnly(objs, objs2, b, o, i),
           d.pc \in WorkPcs => ~(d.b = b /\ d.o = o /\ d.i = i),
           InstReady(objs, segs, d)
    PROVE  InstReady(objs2, segs2, d)
<1> USE DEF WorkPcs, InstancePcs, EndPcs
<1>1. ASSUME ~(d.b = b /\ d.o = o /\ d.i = i), ~HasRow(segs, d.b, d.o, d.i)
      PROVE  ~HasRow(segs2, d.b, d.o, d.i)
  BY <1>1 DEF HasRow, OpensOnly, IsOf
<1>2. ASSUME ~(d.b = b /\ d.o = o /\ d.i = i), NotEnded(objs, d.b, d.o, d.i)
      PROVE  NotEnded(objs2, d.b, d.o, d.i)
  BY <1>2 DEF NotEnded, EndsOnly, IsOf
<1>3. ASSUME ~(d.b = b /\ d.o = o /\ d.i = i), NEW L, OpenOnly(segs, d.b, d.o, d.i, L)
      PROVE  OpenOnly(segs2, d.b, d.o, d.i, L)
  BY <1>3 DEF OpenOnly, OpensOnly, IsOf
<1>4. QED
  BY <1>1, <1>2, <1>3 DEF InstReady

(* A write of c leaves to d what it knows of its instance.                 *)
LEMMA OthersInstReady ==
    ASSUME NEW c, NEW d, Separate(c, d), Distinct(c, d), Distinct(d, c), Writes(c),
           InstReady(bck_objects, vol_obj, d)
    PROVE  InstReady(bck_objects', vol_obj', d)
<1> USE DEF WorkPcs, InstancePcs, EndPcs
<1> DEFINE work == {"start_segment", "change_segment", "end_object"}
<1>1. CASE OpensNone(vol_obj, vol_obj') /\ EndsNone(bck_objects, bck_objects')
  <2> DEFINE i == IF d.i = 0 THEN 1 ELSE 0
  <2>1. i # d.i
    OBVIOUS
  <2> HIDE DEF i
  <2>2. OpensOnly(vol_obj, vol_obj', d.b, d.o, i) /\ EndsOnly(bck_objects, bck_objects', d.b, d.o, i)
    BY <1>1 DEF OpensNone, EndsNone, OpensOnly, EndsOnly
  <2>3. QED
    BY <2>1, <2>2, InstReadyStays
<1>2. ASSUME c.pc \in work
      PROVE  d.pc \in WorkPcs => ~(d.b = c.b /\ d.o = c.o /\ d.i = c.i)
  BY <1>2 DEF Distinct, Separate, ObjectPcs, StartPcs, ChangePcs
<1>3. ASSUME c.pc \in work,
             OpensOnly(vol_obj, vol_obj', c.b, c.o, c.i), EndsOnly(bck_objects, bck_objects', c.b, c.o, c.i)
      PROVE  InstReady(bck_objects', vol_obj', d)
  BY <1>2, <1>3, InstReadyStays
<1>4. UNCHANGED vol_obj => OpensOnly(vol_obj, vol_obj', c.b, c.o, c.i)
  BY DEF OpensOnly, IsOf
<1>5. UNCHANGED bck_objects => EndsOnly(bck_objects, bck_objects', c.b, c.o, c.i)
  BY DEF EndsOnly, IsOf
<1>6. QED
  BY <1>1, <1>3, <1>4, <1>5, WritesOpen

(* A write opens no second segment of an object, and none of an ended one. *)
LEMMA WritesKeepOpen ==
    ASSUME NEW c, Writes(c), InstReady(bck_objects, vol_obj, c),
           UniqueOpen(vol_obj), Closed(bck_objects, vol_obj)
    PROVE  UniqueOpen(vol_obj') /\ Closed(bck_objects', vol_obj')
<1> USE DEF WorkPcs, InstancePcs, EndPcs
<1>1. CASE OpensNone(vol_obj, vol_obj') /\ EndsNone(bck_objects, bck_objects')
  <2>1. UniqueOpen(vol_obj')
    BY <1>1 DEF OpensNone, UniqueOpen, IsOf
  <2>2. Closed(bck_objects', vol_obj')
    BY <1>1 DEF OpensNone, EndsNone, Closed, IsOf
  <2>3. QED
    BY <2>1, <2>2
<1>2. ASSUME c.pc \in {"start_segment", "change_segment"}, UNCHANGED bck_objects,
             NEW n, vol_obj' = InsertVolObj(vol_obj, c.b, c.o, c.i, c.l, n)
      PROVE  UniqueOpen(vol_obj') /\ Closed(bck_objects', vol_obj')
  <2>1. \A s \in vol_obj : IsOf(s, c.b, c.o, c.i) => s.end # 0
    BY <1>2 DEF InstReady, HasRow, OpenOnly
  <2>2. NotEnded(bck_objects, c.b, c.o, c.i)
    BY <1>2 DEF InstReady
  <2>3. \A s \in vol_obj' : s \in vol_obj \/ (IsOf(s, c.b, c.o, c.i) /\ s.label = c.l)
    BY <1>2 DEF InsertVolObj, SegmentRow, IsOf
  <2>4. UniqueOpen(vol_obj')
    BY <2>1, <2>3 DEF UniqueOpen, IsOf
  <2>5. Closed(bck_objects', vol_obj')
    BY <1>2, <2>2, <2>3 DEF Closed, NotEnded, IsOf
  <2>6. QED
    BY <2>4, <2>5
<1>3. CASE /\ c.pc = "end_object" /\ UNCHANGED vol_obj
           /\ EndsOnly(bck_objects, bck_objects', c.b, c.o, c.i)
  <2>1. \A s \in vol_obj : IsOf(s, c.b, c.o, c.i) => s.end # 0
    BY <1>3 DEF InstReady, OpenOnly
  <2>2. QED
    BY <1>3, <2>1 DEF EndsOnly, Closed, UniqueOpen, IsOf
<1>4. QED
  BY <1>1, <1>2, <1>3, WritesOpen

(* A new command knows its object's segments, and its object is not one    *)
(* that a /startbackup has just numbered.                                  *)
LEMMA StartsInstance ==
    ASSUME UniqueOpen(vol_obj), NEW c, Starts(c)
    PROVE  /\ InstReady(bck_objects, vol_obj, c)
           /\ \A d : InstReady(bck_objects, vol_obj, d) => Distinct(c, d) /\ Distinct(d, c)
<1> USE DEF WorkPcs, InstancePcs, EndPcs
<1>1. CASE c.pc = "end_segment"
  <2>1. PICK s \in vol_obj : IsOf(s, c.b, c.o, c.i) /\ s.end = 0 /\ s.label = c.l
    BY <1>1 DEF Starts, CurrentVolObjs
  <2>2. OpenOnly(vol_obj, c.b, c.o, c.i, {c.l})
    BY <2>1 DEF UniqueOpen, OpenOnly, IsOf
  <2>3. InstReady(bck_objects, vol_obj, c)
    BY <1>1, <2>2 DEF InstReady
  <2>4. ASSUME NEW d, InstReady(bck_objects, vol_obj, d)
        PROVE  Distinct(d, c) /\ Distinct(c, d)
    BY <1>1, <2>1, <2>4 DEF InstReady, HasRow, Distinct
  <2>5. QED
    BY <2>3, <2>4
<1>2. CASE c.pc # "end_segment"
  <2>1. c.pc \notin WorkPcs
    BY <1>2 DEF Starts
  <2>2. QED
    BY <2>1 DEF InstReady, Distinct
<1>3. QED
  BY <1>1, <1>2

(* The instance a /startbackup gets belongs to no object or segment.       *)
LEMMA NumberIsNew ==
    ASSUME Given \subseteq {0}, TypeOK, NoDangling, IsFiniteSet(bck_objects),
           NEW c, CommandOK(c), c.pc = "start_object",
           NEW i, i = ObjInstance(bck_objects, c.b, c.o, c.i)
    PROVE  ~HasRow(bck_objects, c.b, c.o, i) /\ ~HasRow(vol_obj, c.b, c.o, i)
<1>1. c.i = 0
  BY DEF CommandOK, ObjectFields, ObjectPcs, StartPcs
<1>2. ~HasRow(bck_objects, c.b, c.o, i)
  BY <1>1, FreshInstance DEF TypeOK
<1>3. QED
  BY <1>2 DEF NoDangling, Matched

(* A statement leaves its own command knowing what the next one relies on. *)
LEMMA OwnInstReady ==
    ASSUME Given \subseteq {0}, TypeOK, NoDangling, Instances, NEW c, CommandOK(c),
           NEW new, Follows(c, new), Writes(c) \/ Reads(c), InstReady(bck_objects, vol_obj, c)
    PROVE  InstReady(bck_objects', vol_obj', new)
<1> USE DEF ObjectPcs, BackupPcs, VolumePcs, StartPcs, ChangePcs, EndPcs, InstancePcs
<1>1. ASSUME NEW field \in {"pc", "i", "n", "from", "total"}, GoesOn(c, new, new.pc, field), c.pc \in ObjectPcs
      PROVE  /\ new.b = c.b /\ new.o = c.o /\ new.l = c.l
             /\ field # "i" => new.i = c.i
             /\ field # "from" /\ c.pc = "change_end" => new.from = c.from
  BY <1>1 DEF GoesOn, CommandOK, ObjectFields
<1>2. CASE c.pc = "start_object"
  <2>1. /\ new.pc = "start_count" /\ new.b = c.b /\ new.o = c.o
        /\ new.i = ObjInstance(bck_objects, c.b, c.o, c.i)
    BY <1>1, <1>2 DEF Follows, GoesOn
  <2>2. ~HasRow(bck_objects, c.b, c.o, new.i) /\ ~HasRow(vol_obj, c.b, c.o, new.i)
    BY <1>2, <2>1, NumberIsNew DEF Instances
  <2>3. vol_obj' = vol_obj /\ bck_objects' = InsertBckObject(bck_objects, c.b, c.o, new.i)
    BY <1>2, <2>1 DEF Writes, Reads, WriteObjects
  <2>4. \A r \in bck_objects' : r \in bck_objects \/ r.end = 0
    BY <2>3 DEF InsertBckObject, ObjectRow
  <2>5. NotEnded(bck_objects', c.b, c.o, new.i)
    BY <2>2, <2>4 DEF NotEnded, HasRow
  <2>6. QED
    BY <2>1, <2>2, <2>3, <2>5 DEF InstReady
<1>3. CASE c.pc = "start_count"
  <2>1. new.pc = "start_segment" /\ new.b = c.b /\ new.o = c.o /\ new.i = c.i
    BY <1>1, <1>3 DEF Follows, GoesOn
  <2>2. UNCHANGED <<bck_objects, vol_obj>>
    BY <1>3 DEF Writes, Reads, ReadOnly, vars
  <2>3. QED
    BY <1>3, <2>1, <2>2 DEF InstReady
<1>4. CASE c.pc = "change_find"
  <2>1. /\ new.pc = "change_end" /\ new.b = c.b /\ new.o = c.o /\ new.i = c.i
        /\ \E s \in CurrentVolObjs(vol_obj, c.b, c.o, c.i) : new.from = s.label
    BY <1>1, <1>4 DEF Follows, GoesOn
  <2>2. PICK s \in vol_obj : IsOf(s, c.b, c.o, c.i) /\ s.end = 0 /\ new.from = s.label
    BY <2>1 DEF CurrentVolObjs
  <2>3. OpenOnly(vol_obj, c.b, c.o, c.i, {new.from})
    BY <2>2 DEF Instances, UniqueOpen, OpenOnly, IsOf
  <2>4. NotEnded(bck_objects, c.b, c.o, c.i)
    BY <2>2 DEF Instances, Closed, NotEnded, IsOf
  <2>5. UNCHANGED <<bck_objects, vol_obj>>
    BY <1>4 DEF Writes, Reads, ReadOnly, vars
  <2>6. QED
    BY <2>1, <2>3, <2>4, <2>5 DEF InstReady
<1>5. ASSUME NEW l, NEW e \in EndDate, NEW sz, WriteSegments(EndVolObj(vol_obj, c.b, c.o, c.i, l, e, sz)),
             OpenOnly(vol_obj, c.b, c.o, c.i, {l})
      PROVE  OpenOnly(vol_obj', c.b, c.o, c.i, {}) /\ UNCHANGED bck_objects
  <2>1. e # 0
    BY CatalogAssumption, ProcessesAssumption
  <2>2. \A s \in vol_obj' : \/ IsOf(s, c.b, c.o, c.i) /\ s.end = e
                            \/ s \in vol_obj /\ ~(IsOf(s, c.b, c.o, c.i) /\ s.label = l /\ s.end = 0)
    BY <1>5 DEF WriteSegments, EndVolObj, SegmentRow, IsOf
  <2>3. QED
    BY <1>5, <2>1, <2>2 DEF OpenOnly, WriteSegments
<1>6. CASE c.pc = "change_end"
  <2>1. new.pc = "change_segment" /\ new.b = c.b /\ new.o = c.o /\ new.i = c.i
    BY <1>1, <1>6 DEF Follows, GoesOn
  <2>2. c.e \in EndDate
    BY <1>6 DEF CommandOK, ObjectFields
  <2>3. OpenOnly(vol_obj', c.b, c.o, c.i, {}) /\ UNCHANGED bck_objects
    BY <1>5, <1>6, <2>2 DEF Writes, Reads, InstReady
  <2>4. QED
    BY <1>6, <2>1, <2>3 DEF InstReady
<1>7. CASE c.pc = "end_segment"
  <2>1. new.pc = "end_sum" /\ new.b = c.b /\ new.o = c.o /\ new.i = c.i
    BY <1>1, <1>7 DEF Follows, GoesOn
  <2>2. c.e \in EndDate
    BY <1>7 DEF CommandOK, ObjectFields
  <2>3. OpenOnly(vol_obj', c.b, c.o, c.i, {})
    BY <1>5, <1>7, <2>2 DEF Writes, Reads, InstReady
  <2>4. QED
    BY <2>1, <2>3 DEF InstReady
<1>8. CASE c.pc = "end_sum"
  <2>1. new.pc = "end_object" /\ new.b = c.b /\ new.o = c.o /\ new.i = c.i
    BY <1>1, <1>8 DEF Follows, GoesOn
  <2>2. UNCHANGED <<bck_objects, vol_obj>>
    BY <1>8 DEF Writes, Reads, ReadOnly, vars
  <2>3. QED
    BY <1>8, <2>1, <2>2 DEF InstReady
<1>9. CASE c.pc \in {"start_can_use", "start_claim", "change_claim", "finish_usage", "expire_delete"}
  <2>1. new.pc \in {"start_claim", "start_object", "change_find", "finish_update", "expire_delete"}
    BY <1>9 DEF Follows, GoesOn
  <2>2. QED
    BY <2>1 DEF InstReady
<1>10. QED
  BY <1>2, <1>3, <1>4, <1>6, <1>7, <1>8, <1>9 DEF Follows

(* ... and on an instance that no other command has just numbered, or, if  *)
(* it is the one to number it, that no other command works on.             *)
LEMMA OwnDistinct ==
    ASSUME Given \subseteq {0}, TypeOK, NoDangling, Instances, NEW c, CommandOK(c),
           NEW new, Follows(c, new),
           NEW d, ObjReady(bck_objects, d), InstReady(bck_objects, vol_obj, d),
           Distinct(c, d), Distinct(d, c)
    PROVE  Distinct(new, d) /\ Distinct(d, new)
<1> USE DEF ObjectPcs, BackupPcs, VolumePcs, StartPcs, ChangePcs, EndPcs, InstancePcs, WorkPcs
<1>1. ASSUME NEW field \in {"pc", "i", "n", "from", "total"}, GoesOn(c, new, new.pc, field), c.pc \in ObjectPcs
      PROVE  new.b = c.b /\ new.o = c.o /\ (field # "i" => new.i = c.i)
  BY <1>1 DEF GoesOn, CommandOK, ObjectFields
<1>2. CASE c.pc = "start_object"
  <2>1. /\ new.pc = "start_count" /\ new.b = c.b /\ new.o = c.o
        /\ new.i = ObjInstance(bck_objects, c.b, c.o, c.i)
    BY <1>1, <1>2 DEF Follows, GoesOn
  <2>2. ~HasRow(bck_objects, c.b, c.o, new.i)
    BY <1>2, <2>1, NumberIsNew DEF Instances
  <2>3. QED
    BY <2>1, <2>2 DEF ObjReady, KeyPcs, Distinct
<1>3. CASE c.pc = "change_find"
  <2>1. /\ new.pc = "change_end" /\ new.b = c.b /\ new.o = c.o /\ new.i = c.i
        /\ CurrentVolObjs(vol_obj, c.b, c.o, c.i) # {}
    BY <1>1, <1>3 DEF Follows, GoesOn
  <2>2. HasRow(vol_obj, new.b, new.o, new.i)
    BY <2>1 DEF CurrentVolObjs, HasRow
  <2>3. QED
    BY <2>1, <2>2 DEF InstReady, Distinct
<1>4. CASE c.pc = "start_count" \/ c.pc = "change_end" \/ c.pc = "end_segment" \/ c.pc = "end_sum"
  <2>1. /\ new.b = c.b /\ new.o = c.o /\ new.i = c.i
        /\ new.pc \in InstancePcs => c.pc \in InstancePcs
        /\ new.pc \in WorkPcs => c.pc \in WorkPcs
    BY <1>1, <1>4 DEF Follows, GoesOn
  <2>2. QED
    BY <2>1 DEF Distinct
<1>5. CASE c.pc \in {"start_can_use", "start_claim", "change_claim", "finish_usage", "expire_delete"}
  <2>1. new.pc \in {"start_claim", "start_object", "change_find", "finish_update", "expire_delete"}
    BY <1>5 DEF Follows, GoesOn
  <2>2. QED
    BY <2>1 DEF Distinct
<1>6. QED
  BY <1>2, <1>3, <1>4, <1>5 DEF Follows

(* An idle process works on no instance.                                   *)
LEMMA IdleInstance ==
    /\ \A objs, segs : InstReady(objs, segs, Idle)
    /\ \A d : Distinct(Idle, d) /\ Distinct(d, Idle)
  BY IdleOK DEF InstReady, Distinct, WorkPcs, InstancePcs, EndPcs

(* A statement of process p keeps the invariant, ...                       *)
LEMMA StatementInstances ==
    ASSUME Given \subseteq {0}, Disciplines, Instances, NEW p \in Process, Statement(p)
    PROVE  Instances'
<1>1. /\ TypeOK /\ ProcOK /\ NoDangling /\ CommandOK(proc[p])
      /\ InstReady(bck_objects, vol_obj, proc[p])
  BY DEF Disciplines, Instances, ProcOK
<1>2. (Writes(proc[p]) \/ Reads(proc[p])) /\ GoesTo(p)
  BY <1>1, StatementSteps
<1>3. PICK new : Become(p, new) /\ (new = Idle \/ Follows(proc[p], new))
  BY <1>2 DEF GoesTo
<1>4. \A q \in Process : proc'[q] = IF q = p THEN new ELSE proc[q]
  BY <1>1, <1>3 DEF Become, ProcOK
<1>5. UniqueOpen(vol_obj') /\ Closed(bck_objects', vol_obj') /\ IsFiniteSet(bck_objects')
  <2>1. CASE Reads(proc[p])
    BY <2>1 DEF Reads, ReadOnly, vars, Instances
  <2>2. CASE Writes(proc[p])
    <3>1. TableStep
      BY <2>2 DEF TableStep
    <3>2. QED
      BY <1>1, <2>2, <3>1, WritesKeepOpen, FiniteObjectsStep DEF Instances
  <2>3. QED
    BY <1>2, <2>1, <2>2
<1>6. InstReady(bck_objects', vol_obj', new)
  <2>1. CASE new = Idle
    BY <2>1, IdleInstance
  <2>2. CASE Follows(proc[p], new)
    BY <1>1, <1>2, <2>2, OwnInstReady
  <2>3. QED
    BY <1>3, <2>1, <2>2
<1>7. ASSUME NEW q \in Process \ {p}
      PROVE  /\ InstReady(bck_objects', vol_obj', proc[q])
             /\ Distinct(new, proc[q]) /\ Distinct(proc[q], new)
  <2>1. /\ Distinct(proc[p], proc[q]) /\ Distinct(proc[q], proc[p])
        /\ InstReady(bck_objects, vol_obj, proc[q])
    BY DEF Instances
  <2>2. Separate(proc[p], proc[q]) /\ ObjReady(bck_objects, proc[q])
    BY ConflictSeparates DEF Disciplines, Apart, ProcOK, AllReady, Ready
  <2>3. InstReady(bck_objects', vol_obj', proc[q])
    <3>1. CASE Reads(proc[p])
      <4>1. UNCHANGED <<bck_objects, vol_obj>>
        BY <3>1 DEF Reads, ReadOnly, vars
      <4>2. QED
        BY <2>1, <4>1
    <3>2. CASE Writes(proc[p])
      BY <2>1, <2>2, <3>2, OthersInstReady
    <3>3. QED
      BY <1>2, <3>1, <3>2
  <2>4. Distinct(new, proc[q]) /\ Distinct(proc[q], new)
    <3>1. CASE new = Idle
      BY <3>1, IdleInstance
    <3>2. CASE Follows(proc[p], new)
      BY <1>1, <2>1, <2>2, <3>2, OwnDistinct
    <3>3. QED
      BY <1>3, <3>1, <3>2
  <2>5. QED
    BY <2>3, <2>4
<1>8. \A q \in Process : InstReady(bck_objects', vol_obj', proc'[q])
  BY <1>4, <1>6, <1>7
<1>9. \A q, r \in Process : q # r => Distinct(proc'[q], proc'[r])
  BY <1>4, <1>7 DEF Instances
<1>10. QED
  BY <1>5, <1>8, <1>9 DEF Instances

(* ... so do a new command and a kill ...                                  *)
LEMMA CommandInstances ==
    ASSUME Disciplines, Instances, NEW p \in Process, Command(p) \/ Kill(p)
    PROVE  Instances'
<1>1. PICK new : /\ proc' = [proc EXCEPT ![p] = new] /\ ReadOnly
                 /\ new = Idle \/ Starts(new)
  BY BeginOK DEF Disciplines, Begin, Kill, Exit, Become
<1>2. UNCHANGED <<bck_objects, vol_obj>>
  BY <1>1 DEF ReadOnly, vars
<1>3. \A q \in Process : proc'[q] = IF q = p THEN new ELSE proc[q]
  BY <1>1 DEF Disciplines, ProcOK
<1>4. /\ InstReady(bck_objects, vol_obj, new)
      /\ \A d : InstReady(bck_objects, vol_obj, d) => Distinct(new, d) /\ Distinct(d, new)
  BY <1>1, IdleInstance, StartsInstance DEF Instances
<1>5. \A q \in Process : InstReady(bck_objects', vol_obj', proc'[q])
  BY <1>2, <1>3, <1>4 DEF Instances
<1>6. \A q, r \in Process : q # r => Distinct(proc'[q], proc'[r])
  BY <1>3, <1>4 DEF Instances
<1>7. QED
  BY <1>2, <1>5, <1>6 DEF Instances

(* ... and every other step.                                               *)
LEMMA InstancesStep ==
    ASSUME Given \subseteq {0}, Disciplines, Instances, [PNext]_pvars
    PROVE  Instances'
<1>1. CASE SingleInsert \/ (Tick /\ UNCHANGED <<proc, started>>) \/ UNCHANGED pvars
  <2>1. UNCHANGED <<bck_objects, vol_obj, proc>>
    BY <1>1 DEF SingleInsert, NewBackup, AddVolume, Tick, pvars, vars
  <2>2. QED
    BY <2>1 DEF Instances
<1>2. QED
  BY <1>1, StatementInstances, CommandInstances DEF PNext

(* In a new library nothing is open and nobody works.                      *)
LEMMA InstancesInit == PInit => Instances
  BY FS_EmptySet, IdleInstance DEF PInit, Instances, UniqueOpen, Closed

(* /endbackup records the end of an object only when none of its segments  *)
(* is open: it looked for the open segment several statements before, and  *)
(* no other command has opened one since.                                  *)
THEOREM EndedStaysClosed ==
    ASSUME Disciplined, Given \subseteq {0}
    PROVE  PSpec => []EndedObjectsAreClosed
<1>1. Disciplines /\ Instances /\ [PNext]_pvars => (Disciplines /\ Instances)'
  BY DisciplinesStep, InstancesStep
<1>2. Instances => EndedObjectsAreClosed
  BY DEF Instances, Closed, EndedObjectsAreClosed
<1>3. QED
  BY DisciplinesInit, InstancesInit, <1>1, <1>2, PTL DEF PSpec

(* Two /startbackup of one object, which may run together, are never given *)
(* the same instance.                                                      *)
THEOREM NumbersAreDistinct ==
    ASSUME Disciplined, Given \subseteq {0}
    PROVE  PSpec => []InstancesAreDistinct
<1>1. Disciplines /\ Instances /\ [PNext]_pvars => (Disciplines /\ Instances)'
  BY DisciplinesStep, InstancesStep
<1>2. Instances => InstancesAreDistinct
  BY DEF Instances, Distinct, InstancePcs, WorkPcs, InstancesAreDistinct
<1>3. QED
  BY DisciplinesInit, InstancesInit, <1>1, <1>2, PTL DEF PSpec
=============================================================================
