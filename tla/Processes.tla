------------------------------ MODULE Processes ------------------------------
(***************************************************************************)
(* The library under several blib processes at once.  Each runs one        *)
(* command, and what is atomic is one SQL statement or one explicit        *)
(* transaction: between two statements of a command any other process may  *)
(* run its own, and a process may be killed (its open transaction, if any, *)
(* is then rolled back, what it had committed stays).                      *)
(*                                                                         *)
(* A command is a record in proc[p]: its name, the statement it will run   *)
(* next (pc), its qualifiers, and what earlier statements of it have read. *)
(* Commands with a single statement that writes, protected by a unique     *)
(* index (/add, /newbackup), are taken from Library as they are.           *)
(***************************************************************************)
EXTENDS LibraryClaims, Discipline

CONSTANTS
    Process,
    Given,          \* the values /objinstance takes; 0 asks for the next number
    EndDate,        \* the values /end takes
    MaxCommands,    \* bound on the number of commands that are started
    Disciplined,    \* whether operators keep conflicting commands apart
    Kills           \* whether a process may be killed

ASSUME ProcessesAssumption ==
    /\ Given \subseteq Instance \cup {0}
    /\ EndDate \subseteq Time
    /\ MaxCommands \in Nat
    /\ Disciplined \in BOOLEAN /\ Kills \in BOOLEAN

VARIABLES
    proc,       \* process -> the command it runs
    started     \* number of commands started so far

pvars == <<vars, proc, started>>

Idle == [pc |-> "idle"]

\* A library whose labels are all in it and free, and whose backups are new.
PInit ==
    /\ volumes = [l \in Label |-> [bck_id |-> 0, state |-> "F", usage |-> 0]]
    /\ backups \in [BckId -> [end : {0}, expiredate : Time]]
    /\ bck_objects = {} /\ vol_obj = {} /\ bck_errors = <<>>
    /\ now \in Time
    /\ proc = [p \in Process |-> Idle]
    /\ started = 0

-----------------------------------------------------------------------------
\* Process p is about to run the statement pc of its command.
At(p, pc) == proc[p].pc = pc

Become(p, c) == proc' = [proc EXCEPT ![p] = c] /\ UNCHANGED started

Goto(p, pc) == Become(p, [proc[p] EXCEPT !.pc = pc])

Exit(p) == Become(p, Idle)

\* Command c at its statement pc, with v in the field the last one has read.
With(c, pc, field, v) ==
    [f \in DOMAIN c \cup {field} |-> IF f = "pc" THEN pc ELSE IF f = field THEN v ELSE c[f]]

\* Process p starts command c.
Begin(p, c) ==
    /\ At(p, "idle")
    /\ started < MaxCommands
    /\ Disciplined => \A q \in Process : ~Conflict(c, proc[q])
    /\ proc' = [proc EXCEPT ![p] = c]
    /\ started' = started + 1

ReadOnly == UNCHANGED vars

\* The next statement of q is an insert, an update or a delete.
AboutToWrite(q) ==
    proc[q].pc \notin {"idle", "start_can_use", "start_count", "change_find", "end_sum"}

\* update volumes set bck_id=?, state='A' where label=?, if l is still there
Claim(l, b) ==
    /\ volumes' = IF l \in DOMAIN volumes THEN SetVolumeUsed(volumes, l, b) ELSE volumes
    /\ UNCHANGED <<backups, bck_objects, vol_obj, bck_errors, now>>

WriteSegments(segs) ==
    vol_obj' = segs /\ UNCHANGED <<volumes, backups, bck_objects, bck_errors, now>>

-----------------------------------------------------------------------------
(* /startbackup: backup, can_use, claim, object, count, segment            *)

\* Broken: the backup is not looked up.
StartBeginUnchecked(p, b, o, l, given) ==
    /\ Begin(p, [name |-> "start", pc |-> "start_can_use", b |-> b, o |-> o, l |-> l, i |-> given])
    /\ ReadOnly

StartBegin(p, b, o, l, given) ==
    /\ b \in DOMAIN backups
    /\ Begin(p, [name |-> "start", pc |-> "start_can_use", b |-> b, o |-> o, l |-> l, i |-> given])
    /\ ReadOnly

StartCanUse(p) ==
    /\ At(p, "start_can_use")
    /\ IF Usable(volumes, proc[p].l, proc[p].b) THEN Goto(p, "start_claim") ELSE Exit(p)
    /\ ReadOnly

StartClaim(p) ==
    /\ At(p, "start_claim")
    /\ Claim(proc[p].l, proc[p].b)
    /\ Goto(p, "start_object")

\* One immediate transaction: the next instance number and the insert.
StartObject(p) ==
    LET c == proc[p]
        i == ObjInstance(bck_objects, c.b, c.o, c.i)
    IN  /\ At(p, "start_object")
        /\ i \in Instance
        /\ bck_objects' = InsertBckObject(bck_objects, c.b, c.o, i)
        /\ Become(p, With(c, "start_count", "i", i))
        /\ UNCHANGED <<volumes, backups, vol_obj, bck_errors, now>>

StartCount(p) ==
    LET c == proc[p]
    IN  /\ At(p, "start_count")
        /\ Become(p, With(c, "start_segment", "n", CountVolObjLabel(vol_obj, c.b, c.l)))
        /\ ReadOnly

StartSegment(p) ==
    LET c == proc[p]
    IN  /\ At(p, "start_segment")
        /\ WriteSegments(InsertVolObj(vol_obj, c.b, c.o, c.i, c.l, c.n))
        /\ Exit(p)

(* /change_volume: can_use, claim, find the open segment, end it, insert   *)
ChangeBegin(p, b, o, i, l, e) ==
    /\ Usable(volumes, l, b)
    /\ Begin(p, [name |-> "change", pc |-> "change_claim", b |-> b, o |-> o, l |-> l, i |-> i, e |-> e])
    /\ ReadOnly

ChangeClaim(p) ==
    /\ At(p, "change_claim")
    /\ Claim(proc[p].l, proc[p].b)
    /\ Goto(p, "change_find")

ChangeFind(p) ==
    LET c == proc[p]
        open == CurrentVolObjs(vol_obj, c.b, c.o, c.i)
    IN  /\ At(p, "change_find")
        /\ \/ open = {} /\ Exit(p)
           \/ \E s \in open : Become(p, With(c, "change_end", "from", s.label))
        /\ ReadOnly

ChangeEnd(p) ==
    LET c == proc[p]
    IN  /\ At(p, "change_end")
        /\ \E sz \in Size : WriteSegments(EndVolObj(vol_obj, c.b, c.o, c.i, c.from, c.e, sz))
        /\ Goto(p, "change_segment")

ChangeSegment(p) ==
    LET c == proc[p]
    IN  /\ At(p, "change_segment")
        /\ WriteSegments(InsertVolObj(vol_obj, c.b, c.o, c.i, c.l, 0))
        /\ Exit(p)

(* /endbackup: find the open segment on l, end it, sum, end the object     *)

\* Broken: any open segment will do.
EndBeginAnyLabel(p, b, o, i, l, e) ==
    /\ CurrentVolObjs(vol_obj, b, o, i) # {}
    /\ Begin(p, [name |-> "end", pc |-> "end_segment", b |-> b, o |-> o, l |-> l, i |-> i, e |-> e])
    /\ ReadOnly

EndBegin(p, b, o, i, l, e) ==
    /\ \E s \in CurrentVolObjs(vol_obj, b, o, i) : s.label = l
    /\ Begin(p, [name |-> "end", pc |-> "end_segment", b |-> b, o |-> o, l |-> l, i |-> i, e |-> e])
    /\ ReadOnly

EndSegment(p) ==
    LET c == proc[p]
    IN  /\ At(p, "end_segment")
        /\ \E sz \in Size : WriteSegments(EndVolObj(vol_obj, c.b, c.o, c.i, c.l, c.e, sz))
        /\ Goto(p, "end_sum")

EndSum(p) ==
    LET c == proc[p]
    IN  /\ At(p, "end_sum")
        /\ Become(p, With(c, "end_object", "total", VolObjSumSize(vol_obj, c.b, c.o)))
        /\ ReadOnly

EndObject(p) ==
    LET c == proc[p]
    IN  /\ At(p, "end_object")
        /\ bck_objects' = EndBckObject(bck_objects, c.b, c.o, c.i, c.e, c.total)
        /\ Exit(p)
        /\ UNCHANGED <<volumes, backups, vol_obj, bck_errors, now>>

(* /errbackup: find an open segment, insert the error                      *)
ErrBegin(p, b, o, i, l) ==
    /\ CurrentVolObjs(vol_obj, b, o, i) # {}
    /\ Begin(p, [name |-> "err", pc |-> "err_insert", b |-> b, o |-> o, l |-> l, i |-> i])
    /\ ReadOnly

ErrInsert(p) ==
    LET c == proc[p]
    IN  /\ At(p, "err_insert")
        /\ Len(bck_errors) < MaxErrors
        /\ bck_errors' = InsertBckError(bck_errors, c.l, c.b, c.o, c.i)
        /\ Exit(p)
        /\ UNCHANGED <<volumes, backups, bck_objects, vol_obj, now>>

(* /finishbackup: last end, count the use of the volumes, end the backup   *)
FinishBegin(p, b) ==
    /\ \E e \in Time \cup {0} :
          /\ IsEndOfBackup(vol_obj, b, e)
          /\ Begin(p, [name |-> "finish", pc |-> "finish_usage", b |-> b, e |-> e])
    /\ ReadOnly

FinishUsage(p) ==
    LET c == proc[p]
    IN  /\ At(p, "finish_usage")
        /\ \A l \in DOMAIN volumes : volumes[l].bck_id = c.b => volumes[l].usage < MaxUsage
        /\ volumes' = IncVolumeUsage(volumes, c.b)
        /\ Goto(p, "finish_update")
        /\ UNCHANGED <<backups, bck_objects, vol_obj, bck_errors, now>>

WriteBackup(b, row) ==
    /\ backups' = IF b \in DOMAIN backups THEN UpdateBackup(backups, b, row) ELSE backups
    /\ UNCHANGED <<volumes, bck_objects, vol_obj, bck_errors, now>>

FinishUpdate(p) ==
    LET c == proc[p]
    IN  /\ At(p, "finish_update")
        /\ WriteBackup(c.b, [end |-> c.e, expiredate |-> backups[c.b].expiredate])
        /\ Exit(p)

(* /modifybackup: read the row, write it back whole                        *)
ModifyBegin(p, b, x) ==
    /\ b \in DOMAIN backups
    /\ Begin(p, [name |-> "modify", pc |-> "modify_write", b |-> b,
                 row |-> [backups[b] EXCEPT !.expiredate = x]])
    /\ ReadOnly

ModifyWrite(p) ==
    /\ At(p, "modify_write")
    /\ WriteBackup(proc[p].b, proc[p].row)
    /\ Exit(p)

(* /removebackup: check the expiry date, delete in one transaction         *)
RemoveBegin(p, b) ==
    /\ b \in DOMAIN backups
    /\ Expired(b) \/ Confirms
    /\ Begin(p, [name |-> "remove", pc |-> "remove_delete", b |-> b])
    /\ ReadOnly

RemoveDelete(p) ==
    /\ At(p, "remove_delete")
    /\ DeleteBackupIds({proc[p].b})
    /\ Exit(p)

(* /runexpiration: one select of all backups, then a transaction for each  *)
(* expired one.                                                            *)
ExpireBegin(p) ==
    LET expired == {b \in DOMAIN backups : Expired(b)}
    IN  /\ expired # {}
        /\ Begin(p, [name |-> "expire", pc |-> "expire_delete", todo |-> expired])
        /\ ReadOnly

ExpireDeleteOn(p) ==    \* Broken: the loop does not end.
    LET c == proc[p]
    IN  /\ At(p, "expire_delete")
        /\ \E b \in c.todo : DeleteBackupIds({b}) /\ Become(p, [c EXCEPT !.todo = @ \ {b}])

ExpireDelete(p) ==
    LET c == proc[p]
    IN  /\ At(p, "expire_delete")
        /\ \E b \in c.todo :
              /\ DeleteBackupIds({b})
              /\ IF c.todo = {b} THEN Exit(p) ELSE Become(p, [c EXCEPT !.todo = @ \ {b}])

\* Another process is in the middle of a statement that writes.  The select is
\* still open, so sqlite does not call the busy handler: every statement of the
\* transaction fails, and the writer cannot commit before the loop is over.
ExpireBusy(p) ==
    /\ At(p, "expire_delete")
    /\ \E q \in Process \ {p} : AboutToWrite(q)
    /\ Exit(p)
    /\ ReadOnly

\* What the statements of db_delete_backup_id after the k-th one do to backup b.
DeleteAfter(k, b) ==
    /\ vol_obj' = IF k < 2 THEN DeleteRows(vol_obj, {b}) ELSE vol_obj
    /\ backups' = IF k < 3 THEN DeleteBackups(backups, {b}) ELSE backups
    /\ bck_errors' = IF k < 4 THEN DetachErrors(bck_errors, {b}) ELSE bck_errors
    /\ volumes' = IF k < 5 THEN FreeVolumes(volumes, {b})
                  ELSE [l \in DOMAIN volumes |->
                           IF volumes[l].bck_id = b THEN [volumes[l] EXCEPT !.bck_id = 0]
                                                    ELSE volumes[l]]
    /\ UNCHANGED <<bck_objects, now>>

\* ... and that process is killed before its commit: the k statements until then
\* have failed, nobody looked, and those after them take effect.  (AbandonedSpec
\* has this step, PSpec has not.)
ExpirePartly(p) ==
    LET c == proc[p]
    IN  /\ At(p, "expire_delete")
        /\ \E q \in Process \ {p}, b \in c.todo, k \in 1 .. 5 :
              /\ AboutToWrite(q)
              /\ DeleteAfter(k, b)
              /\ proc' = [proc EXCEPT ![q] = Idle,
                                      ![p] = IF c.todo = {b} THEN Idle
                                             ELSE [c EXCEPT !.todo = @ \ {b}]]
        /\ UNCHANGED started

(* /modify=l /state=st and /remove=l: look at the volume, then change it   *)
StateBegin(p, l, st) ==
    /\ l \in DOMAIN volumes
    /\ volumes[l].bck_id = 0
    /\ Begin(p, [name |-> "state", pc |-> "state_write", l |-> l, st |-> st])
    /\ ReadOnly

StateWrite(p) ==
    LET c == proc[p]
    IN  /\ At(p, "state_write")
        /\ volumes' = IF c.l \in DOMAIN volumes THEN [volumes EXCEPT ![c.l].state = c.st] ELSE volumes
        /\ Exit(p)
        /\ UNCHANGED <<backups, bck_objects, vol_obj, bck_errors, now>>

TakeOutBegin(p, l) ==
    /\ CanUse(volumes, l, 0) = "F"
    /\ Begin(p, [name |-> "take_out", pc |-> "take_out_delete", l |-> l])
    /\ ReadOnly

TakeOutDelete(p) ==
    /\ At(p, "take_out_delete")
    /\ volumes' = DeleteVolume(volumes, proc[p].l)
    /\ Exit(p)
    /\ UNCHANGED <<backups, bck_objects, vol_obj, bck_errors, now>>

\* The process is gone; what it committed stays.
Kill(p) == Kills /\ ~At(p, "idle") /\ Exit(p) /\ ReadOnly

-----------------------------------------------------------------------------
\* The next statement of the command that process p runs.
Statement(p) ==
    \/ StartCanUse(p) \/ StartClaim(p) \/ StartObject(p) \/ StartCount(p) \/ StartSegment(p)
    \/ ChangeClaim(p) \/ ChangeFind(p) \/ ChangeEnd(p) \/ ChangeSegment(p)
    \/ EndSegment(p) \/ EndSum(p) \/ EndObject(p)
    \/ ErrInsert(p)
    \/ FinishUsage(p) \/ FinishUpdate(p)
    \/ ModifyWrite(p)
    \/ RemoveDelete(p)
    \/ ExpireDelete(p) \/ ExpireBusy(p)
    \/ StateWrite(p) \/ TakeOutDelete(p)

Command(p) ==
    \/ \E b \in BckId, o \in ObjName, l \in Label :
          \/ \E given \in Given : StartBegin(p, b, o, l, given)
          \/ \E i \in Instance, e \in EndDate : ChangeBegin(p, b, o, i, l, e) \/ EndBegin(p, b, o, i, l, e)
          \/ \E i \in Instance : ErrBegin(p, b, o, i, l)
    \/ \E b \in BckId : \/ FinishBegin(p, b) \/ RemoveBegin(p, b)
                         \/ \E x \in Time : ModifyBegin(p, b, x)
    \/ \E l \in Label : TakeOutBegin(p, l) \/ \E st \in {"F", "A"} : StateBegin(p, l, st)
    \/ ExpireBegin(p)

\* /newbackup and /add: a single insert.
SingleInsert ==
    /\ started < MaxCommands /\ started' = started + 1 /\ UNCHANGED proc
    /\ \/ \E b \in BckId, x \in Time : NewBackup(b, x)
       \/ \E l \in Label : AddVolume(l, "F", 0)

PNext ==
    \/ \E p \in Process : Command(p) \/ Statement(p) \/ Kill(p)
    \/ SingleInsert
    \/ Tick /\ UNCHANGED <<proc, started>>

PSpec == PInit /\ [][PNext]_pvars

\* ... where a process may also be killed while a /runexpiration deletes.
AbandonedSpec == PInit /\ [][PNext \/ \E p \in Process : ExpirePartly(p)]_pvars

-----------------------------------------------------------------------------
(* Invariants                                                              *)

StartCommand ==
         [name : {"start"}, pc : {"start_can_use", "start_claim", "start_object"},
          b : BckId, o : ObjName, l : Label, i : Given]
    \cup [name : {"start"}, pc : {"start_count"}, b : BckId, o : ObjName, l : Label, i : Instance]
    \cup [name : {"start"}, pc : {"start_segment"},
          b : BckId, o : ObjName, l : Label, i : Instance, n : Nat]

ChangeCommand ==
         [name : {"change"}, pc : {"change_claim", "change_find"},
          b : BckId, o : ObjName, l : Label, i : Instance, e : EndDate]
    \cup [name : {"change"}, pc : {"change_end", "change_segment"},
          b : BckId, o : ObjName, l : Label, i : Instance, e : EndDate, from : Label]

EndCommand ==
         [name : {"end"}, pc : {"end_segment", "end_sum"},
          b : BckId, o : ObjName, l : Label, i : Instance, e : EndDate]
    \cup [name : {"end"}, pc : {"end_object"},
          b : BckId, o : ObjName, l : Label, i : Instance, e : EndDate, total : Nat]

OtherCommand ==
         [name : {"err"}, pc : {"err_insert"}, b : BckId, o : ObjName, l : Label, i : Instance]
    \cup [name : {"finish"}, pc : {"finish_usage", "finish_update"}, b : BckId, e : Time \cup {0}]
    \cup [name : {"modify"}, pc : {"modify_write"}, b : BckId, row : Backup]
    \cup [name : {"remove"}, pc : {"remove_delete"}, b : BckId]
    \cup [name : {"expire"}, pc : {"expire_delete"}, todo : (SUBSET BckId) \ {{}}]
    \cup [name : {"state"}, pc : {"state_write"}, l : Label, st : {"F", "A"}]
    \cup [name : {"take_out"}, pc : {"take_out_delete"}, l : Label]

\* The tables stay well formed whatever statements are interleaved and whoever
\* is killed, and every command holds what its next statement needs.
PTypeOK ==
    /\ TypeOK
    /\ proc \in [Process -> {Idle} \cup StartCommand \cup ChangeCommand \cup EndCommand \cup OtherCommand]
    /\ started \in 0 .. MaxCommands

\* No row refers to a row that is not there: kept at every instant, not only
\* between commands, because a referenced row is written first and all rows of
\* a backup are deleted in one transaction.
NoDanglingRows == SegmentsHaveObjects /\ ObjectsHaveBackups /\ ErrorsHaveBackups

\* An object without a segment is one that a running /startbackup is about to
\* put on a tape, also when other processes use the same backup and volume.
\* (A killed one leaves the object behind, for /verify to find.)
ObjectsReachTape ==
    \A r \in bck_objects :
        \/ \E s \in vol_obj : IsOf(s, r.bck_id, r.objname, r.obj_instance)
        \/ \E p \in Process : /\ proc[p].pc \in {"start_count", "start_segment"}
                             /\ IsOf(r, proc[p].b, proc[p].o, proc[p].i)

\* An object recorded as ended has no segment still open, even when /endbackup
\* and /change_volume of other objects run in between.
EndedObjectsAreClosed ==
    \A r \in bck_objects, s \in vol_obj :
        IsOf(s, r.bck_id, r.objname, r.obj_instance) /\ r.end # 0 => s.end # 0

\* Two /startbackup of one object that run at the same time never work on the
\* same instance, though neither was told a number.
InstancesAreDistinct ==
    \A p, q \in Process :
        /\ p # q
        /\ proc[p].pc \in {"start_count", "start_segment"}
        /\ proc[q].pc \in {"start_count", "start_segment"}
        => <<proc[p].b, proc[p].o, proc[p].i>> # <<proc[q].b, proc[q].o, proc[q].i>>

\* A catalogue in which /verify finds no error has no dangling reference, also
\* after commands got in each other's way or were killed.
VerifyFindsOrphans == Total = 0 => CatalogReferences

\* db_verify: `vol_obj(bck_id, label) -> volumes'.  A catalogue in which /verify
\* finds no error has every segment on a volume of its own backup.
VerifyFindsLostTapes ==
    Total = 0 => \A s \in vol_obj : /\ s.label \in DOMAIN volumes
                                    /\ volumes[s.label].bck_id = s.bck_id

-----------------------------------------------------------------------------
(* Action properties                                                       *)

\* What the catalogue has of backup b: the backup itself, its objects, its
\* segments, its tapes.
Parts(b) ==
    <<{b} \cap DOMAIN backups,
      {r \in bck_objects : r.bck_id = b},
      {s \in vol_obj : s.bck_id = b},
      {l \in DOMAIN volumes : volumes[l].bck_id = b}>>

\* db_delete_backup_id deletes the objects, the segments and the backup and gives
\* back its volumes, between `begin transaction' and `commit': a step that takes
\* away all there is of one of them leaves nothing of the others.
BackupsLeaveWhole ==
    [][\A b \in BckId :
          (\E k \in 1 .. 4 : Parts(b)[k] # {} /\ Parts(b)'[k] = {}) =>
              \A k \in 1 .. 4 : Parts(b)'[k] = {}]_vars
=============================================================================
